-------------------------- MODULE TopicPosts_proofs --------------------------
(***************************************************************************)
(* For any number of requests, any posts, any operations and any validity  *)
(* of the topic's mutex.                                                   *)
(*                                                                         *)
(* First, a post that appears has the number after the last one used.  The *)
(* mutex plays no part in the argument, so a creation that outlives its    *)
(* lock, or one that runs while the topic is closed, makes no gap either:  *)
(* the row lock of the topic and the unique index see to it.               *)
(*                                                                         *)
(* Then, what the row locks of Postgres and the lease of the topic's mutex *)
(* give:                                                                   *)
(*   - a request locks rows only inside its transaction, the row of the    *)
(*     topic last, and a reply has kept the post it replies to: a circle   *)
(*     of waits needs a step out of that order;                            *)
(*   - a creation that has the row of the topic will write the number      *)
(*     above all others to the columns it belongs in: the counters add up; *)
(*   - until the mutex expires under a creation at work, or the topic is   *)
(*     closed, a reply has the lease as long as it has a number: however   *)
(*     leases before it ended, none is taken from it.                      *)
(***************************************************************************)
EXTENDS TopicPosts, WellFoundedInduction, TLAPS

Creates(r) == Kind(r) \in {"reply", "close"} /\ req[r].result = "none"

\* The post is inserted and not committed: a close commits after it has
\* released the mutex, a reply before.
Inserted(r) ==
    /\ Creates(r)
    /\ \/ req[r].pc \in {"update_replied", "commit"}
       \/ At(r, "release_mutex") /\ Kind(r) = "close"

\* The request has a number, from select_max until it has committed
HasNumber(r) ==
    \/ Creates(r) /\ req[r].pc \in {"next_post_number", "insert_post"}
    \/ Inserted(r)

\* Whoever saw the largest number n goes on with n + 1; once that number is
\* used, it was n + 1 that somebody else was given.
NumberIsNext(r) ==
    HasNumber(r) => req[r].number \in Used \/ req[r].number = Highest(Used) + 1

\* Whoever inserts has the row of the topic, and what is inserted is new.
RowIsLocked(r) ==
    /\ Creates(r) /\ At(r, "insert_post") => owner[TopicRow] = r
    /\ Inserted(r) => owner[TopicRow] = r /\ req[r].number \notin Used

\* Only posts that are there are liked, deleted or recovered.
PostIsThere(r) ==
    ~At(r, "idle") /\ Kind(r) \in {"like", "destroy", "recover"} => req[r].op.post \in Used

RepliesDoNotTouch(r) == req[r].pc \in {"last_post", "update_topic"} => Kind(r) # "reply"

Good(r) == NumberIsNext(r) /\ RowIsLocked(r) /\ PostIsThere(r) /\ RepliesDoNotTouch(r)

PostColumns == {"state", "whisper", "parents"}

IsPost(x) == x = [c \in PostColumns |-> x[c]]

Fields == {"op", "pc", "number", "whisper", "cols", "todo", "linked", "result"}

IsRequest(x) == x = [f \in Fields |-> x[f]]

\* What TLC takes for granted: posts, owner and req are functions, their values
\* records.
Shape ==
    /\ posts = [n \in 1..MaxNumber |-> posts[n]]
    /\ \A n \in 1..MaxNumber : IsPost(posts[n])
    /\ owner = [row \in Rows |-> owner[row]]
    /\ req = [r \in Requests |-> req[r]]
    /\ \A r \in Requests : IsRequest(req[r])

IInv == Shape /\ \A r \in Requests : Good(r)

-----------------------------------------------------------------------------
LEMMA InitIInv == Init => IInv
<1> SUFFICES ASSUME Init PROVE IInv
  OBVIOUS
<1>1. \A n \in 1..MaxNumber : IsPost(posts[n])
  <2> SUFFICES ASSUME NEW n \in 1..MaxNumber PROVE IsPost(posts[n])
    OBVIOUS
  <2>1. CASE n \in DOMAIN InitialPosts
    <3>1. posts[n] = InitialPosts[n]
      BY <2>1 DEF Init
    <3> QED
      BY <2>1, <3>1, TopicPostsAssumption DEF IsPost, PostColumns
  <2>2. CASE n \notin DOMAIN InitialPosts
    BY <2>2 DEF Init, NoPost, IsPost, PostColumns
  <2> QED
    BY <2>1, <2>2
<1>2. Shape
  BY <1>1 DEF Init, Shape, Idle, IsRequest, Fields
<1>3. \A r \in Requests : At(r, "idle") /\ Kind(r) = "none"
  BY DEF Init, Idle, NoOp, At, Kind
<1> QED
  BY <1>2, <1>3 DEF IInv, Good, NumberIsNext, RowIsLocked, PostIsThere, RepliesDoNotTouch,
                    HasNumber, Inserted, Creates, At

\* A step of request r only has to keep r good when it leaves the posts alone,
\* or adds the next one while it has the row of the topic.
LEMMA OwnStep ==
    ASSUME IInv, NEW r \in Requests, Shape', Good(r)',
           \/ Used' = Used
           \/ owner[TopicRow] = r /\ Used' = Used \cup {Highest(Used) + 1},
           \A q \in Requests \ {r} : req'[q] = req[q],
           \A q \in Requests \ {r} : owner[TopicRow] = q => owner'[TopicRow] = q
    PROVE  IInv'
<1>2. ASSUME NEW q \in Requests \ {r} PROVE Good(q)'
  <2>1. Good(q) /\ req'[q] = req[q] /\ (owner[TopicRow] = q => owner'[TopicRow] = q)
    BY DEF IInv
  <2>2. PostIsThere(q)' /\ RepliesDoNotTouch(q)'
    BY <2>1 DEF Good, PostIsThere, RepliesDoNotTouch, At, Kind
  <2>3. NumberIsNext(q)'
    <3>1. HasNumber(q)' => req'[q].number \in Used \/ req'[q].number = Highest(Used) + 1
      BY <2>1 DEF Good, NumberIsNext, HasNumber, Inserted, Creates, At, Kind
    <3>2. Used' = Used => Highest(Used)' = Highest(Used)
      BY DEF Highest
    <3> QED
      BY <3>1, <3>2 DEF NumberIsNext
  <2>4. RowIsLocked(q)'
    BY <2>1 DEF Good, RowIsLocked, Inserted, Creates, At, Kind
  <2> QED
    BY <2>2, <2>3, <2>4 DEF Good
<1> QED
  BY <1>2 DEF IInv

-----------------------------------------------------------------------------
(* The steps *)

\* What the lock of a row, and the end of a transaction, do to others.
LEMMA TakeRow ==
    ASSUME Shape, NEW r \in Requests, NEW row \in Rows, Take(r, row)
    PROVE  /\ owner' = [x \in Rows |-> owner'[x]]
           /\ owner'[row] = r
           /\ owner[TopicRow] = r => owner'[TopicRow] = r
           /\ \A q \in Requests \ {r} : owner[TopicRow] = q => owner'[TopicRow] = q
BY TopicPostsAssumption DEF Shape, Take, Rows, TopicRow

LEMMA FreeAll ==
    ASSUME NEW r \in Requests, FreeRows(r)
    PROVE  /\ owner' = [x \in Rows |-> owner'[x]]
           /\ \A q \in Requests \ {r} : owner[TopicRow] = q => owner'[TopicRow] = q
BY DEF FreeRows, Rows, TopicRow

\* One request changes, and stays a record.
LEMMA ChangeRequest ==
    ASSUME Shape, NEW r \in Requests, NEW x, IsRequest(x), req' = [req EXCEPT ![r] = x]
    PROVE  /\ req'[r] = x
           /\ \A q \in Requests \ {r} : req'[q] = req[q]
           /\ req' = [q \in Requests |-> req'[q]]
BY DEF Shape

\* One request goes to another step.
LEMMA GoesTo ==
    ASSUME Shape, NEW r \in Requests, NEW pc, Go(r, pc)
    PROVE  /\ IsRequest(req'[r]) /\ req'[r].pc = pc /\ req'[r].op = req[r].op
           /\ req'[r].number = req[r].number /\ req'[r].result = req[r].result
           /\ \A q \in Requests \ {r} : req'[q] = req[q]
           /\ req' = [q \in Requests |-> req'[q]]
<1> DEFINE x == [req[r] EXCEPT !.pc = pc]
<1>1. /\ IsRequest(x) /\ x.pc = pc /\ x.op = req[r].op
      /\ x.number = req[r].number /\ x.result = req[r].result
  BY DEF Shape, IsRequest, Fields
<1>2. req' = [req EXCEPT ![r] = x]
  BY DEF Go
<1> HIDE DEF x
<1> QED
  BY <1>1, <1>2, ChangeRequest

LEMMA StartStep == ASSUME IInv, NEW r \in Requests, Start(r) PROVE IInv'
<1> USE DEF IInv
<1>1. PICK o \in Ops :
        /\ o.kind \in {"like", "destroy"} => o.post \in Live
        /\ o.kind = "recover" => o.post \in Used \ Live
        /\ req' = [req EXCEPT ![r] = [Idle EXCEPT !.op = o, !.pc = FirstStep(o.kind),
                                        !.whisper = (o.kind = "reply" /\ o.whisper)]]
  BY DEF Start
<1>2. /\ req'[r].op = o /\ req'[r].pc = FirstStep(o.kind) /\ req'[r].result = "none"
      /\ IsRequest(req'[r])
      /\ \A q \in Requests \ {r} : req'[q] = req[q]
      /\ req' = [q \in Requests |-> req'[q]]
      /\ posts' = posts /\ owner' = owner
  BY <1>1 DEF Start, Shape, Idle, IsRequest, Fields
<1>3. Shape'
  BY <1>2 DEF Shape
<1>4. Used' = Used /\ Live \subseteq Used
  BY <1>2 DEF Used, Live
<1>5. Good(r)'
  <2>1. /\ FirstStep(o.kind) \in {"mutex", "update_topic", "reset_highest", "update_post"}
        /\ o.kind = "reply" => FirstStep(o.kind) = "mutex"
    BY DEF FirstStep
  <2>2. PostIsThere(r)'
    BY <1>1, <1>2, <1>4 DEF PostIsThere, Kind
  <2> QED
    BY <1>2, <2>1, <2>2 DEF Good, NumberIsNext, RowIsLocked, RepliesDoNotTouch, HasNumber,
                            Inserted, Creates, At, Kind
<1> QED
  BY <1>2, <1>3, <1>4, <1>5, OwnStep

\* A request that goes on, keeping its operation and perhaps taking a row.
LEMMA GoOnStep ==
    ASSUME IInv, NEW r \in Requests, posts' = posts,
           \/ owner' = owner
           \/ \E row \in Rows : Take(r, row)
           \/ FreeRows(r) /\ ~HasNumber(r)',
           req' = [q \in Requests |-> req'[q]],
           \A q \in Requests \ {r} : req'[q] = req[q],
           IsRequest(req'[r]), req'[r].op = req[r].op, ~At(r, "idle"),
           NumberIsNext(r)', RowIsLocked(r)', RepliesDoNotTouch(r)'
    PROVE  IInv'
<1>1. Used' = Used
  BY DEF Used
<1>2. PostIsThere(r)'
  BY <1>1 DEF IInv, Good, PostIsThere, Kind
<1>3. /\ owner' = [x \in Rows |-> owner'[x]]
      /\ \A q \in Requests \ {r} : owner[TopicRow] = q => owner'[TopicRow] = q
  BY TakeRow, FreeAll DEF IInv, Shape
<1>4. Shape'
  BY <1>3 DEF IInv, Shape
<1> QED
  BY <1>1, <1>2, <1>3, <1>4, OwnStep DEF Good

LEMMA SelectMaxStep == ASSUME IInv, NEW r \in Requests, SelectMax(r) PROVE IInv'
<1>1. /\ req'[r].op = req[r].op /\ req'[r].pc = "next_post_number"
      /\ req'[r].number = Highest(Used) + 1 /\ IsRequest(req'[r])
      /\ \A q \in Requests \ {r} : req'[q] = req[q]
      /\ req' = [q \in Requests |-> req'[q]]
      /\ posts' = posts /\ owner' = owner /\ ~At(r, "idle")
  <2> DEFINE x == [req[r] EXCEPT !.number = Following(MaxPostNumber), !.pc = "next_post_number"]
  <2>1. /\ x.op = req[r].op /\ x.pc = "next_post_number" /\ x.number = Highest(Used) + 1
        /\ IsRequest(x)
    BY DEF IInv, Shape, IsRequest, Fields, Following, MaxPostNumber
  <2>2. req' = [req EXCEPT ![r] = x]
    BY DEF SelectMax, IInv, Shape
  <2> HIDE DEF x
  <2> QED
    BY <2>1, <2>2, ChangeRequest DEF SelectMax, At, IInv
<1>2. Used' = Used
  BY <1>1 DEF Used
<1>3. NumberIsNext(r)' /\ RowIsLocked(r)' /\ RepliesDoNotTouch(r)'
  BY <1>1, <1>2 DEF NumberIsNext, RowIsLocked, RepliesDoNotTouch, Inserted, At, Highest
<1> QED
  BY <1>1, <1>3, GoOnStep

LEMMA NextPostNumberStep == ASSUME IInv, NEW r \in Requests, NextPostNumber(r) PROVE IInv'
<1>1. /\ req'[r].op = req[r].op /\ req[r].pc = "next_post_number" /\ req'[r].pc = "insert_post"
      /\ req'[r].number = req[r].number /\ req'[r].result = req[r].result
      /\ IsRequest(req'[r])
      /\ \A q \in Requests \ {r} : req'[q] = req[q]
      /\ req' = [q \in Requests |-> req'[q]]
      /\ posts' = posts /\ Take(r, TopicRow) /\ ~At(r, "idle")
  <2> DEFINE x == [req[r] EXCEPT !.cols = Columns(r), !.pc = "insert_post"]
  <2>1. /\ x.op = req[r].op /\ x.pc = "insert_post" /\ x.number = req[r].number
        /\ x.result = req[r].result /\ IsRequest(x)
    BY DEF IInv, Shape, IsRequest, Fields
  <2>2. req' = [req EXCEPT ![r] = x]
    BY DEF NextPostNumber, IInv, Shape
  <2> HIDE DEF x
  <2> QED
    BY <2>1, <2>2, ChangeRequest DEF NextPostNumber, At, IInv
<1>2. Used' = Used /\ Good(r)
  BY <1>1 DEF Used, IInv
<1>3. TopicRow \in Rows /\ owner'[TopicRow] = r
  BY <1>1, TakeRow DEF IInv, Rows
<1>4. NumberIsNext(r)' /\ RowIsLocked(r)' /\ RepliesDoNotTouch(r)'
  BY <1>1, <1>2, <1>3 DEF Good, NumberIsNext, RowIsLocked, RepliesDoNotTouch, HasNumber,
                          Inserted, Creates, At, Kind, Highest
<1> QED
  BY <1>1, <1>3, <1>4, GoOnStep

LEMMA InsertPostStep == ASSUME IInv, NEW r \in Requests, InsertPost(r) PROVE IInv'
<1>1. /\ req'[r].op = req[r].op /\ req[r].pc = "insert_post"
      /\ req'[r].number = req[r].number
      /\ IsRequest(req'[r])
      /\ \/ req'[r].result = "not_unique" /\ req'[r].pc \in {"release_mutex", "commit"}
         \/ /\ req[r].number \notin Used
            /\ req'[r].result = req[r].result /\ req'[r].pc = "update_replied"
      /\ \A q \in Requests \ {r} : req'[q] = req[q]
      /\ req' = [q \in Requests |-> req'[q]]
      /\ posts' = posts /\ owner' = owner /\ ~At(r, "idle")
  <2> DEFINE x == [req[r] EXCEPT !.result = "not_unique", !.pc = AfterPost(r)]
             y == [req[r] EXCEPT !.todo = Replied(r), !.pc = "update_replied"]
  <2>1. /\ x.op = req[r].op /\ x.pc \in {"release_mutex", "commit"}
        /\ x.number = req[r].number /\ x.result = "not_unique" /\ IsRequest(x)
    BY DEF IInv, Shape, IsRequest, Fields, AfterPost
  <2>2. /\ y.op = req[r].op /\ y.pc = "update_replied" /\ y.number = req[r].number
        /\ y.result = req[r].result /\ IsRequest(y)
    BY DEF IInv, Shape, IsRequest, Fields
  <2>3. \/ req' = [req EXCEPT ![r] = x]
        \/ req[r].number \notin Used /\ req' = [req EXCEPT ![r] = y]
    BY DEF InsertPost, IInv, Shape
  <2> HIDE DEF x, y
  <2> QED
    BY <2>1, <2>2, <2>3, ChangeRequest DEF InsertPost, At, IInv
<1>2. Used' = Used /\ Good(r)
  BY <1>1 DEF Used, IInv
<1>3. NumberIsNext(r)' /\ RowIsLocked(r)' /\ RepliesDoNotTouch(r)'
  BY <1>1, <1>2 DEF Good, NumberIsNext, RowIsLocked, RepliesDoNotTouch, HasNumber,
                    Inserted, Creates, At, Kind, Highest
<1> QED
  BY <1>1, <1>3, GoOnStep

LEMMA UpdateRepliedStep == ASSUME IInv, NEW r \in Requests, UpdateReplied(r) PROVE IInv'
<1>1. /\ req'[r].op = req[r].op /\ req[r].pc = "update_replied"
      /\ req'[r].number = req[r].number /\ req'[r].result = req[r].result
      /\ IsRequest(req'[r])
      /\ \/ req'[r].pc = "update_replied"
         \/ Kind(r) = "close" /\ req'[r].pc = "release_mutex"
         \/ Kind(r) # "close" /\ req'[r].pc = "commit"
      /\ \A q \in Requests \ {r} : req'[q] = req[q]
      /\ req' = [q \in Requests |-> req'[q]]
      /\ posts' = posts /\ ~At(r, "idle")
  <2>1. CASE Go(r, AfterPost(r))
    BY <2>1, GoesTo DEF UpdateReplied, IInv, At, AfterPost
  <2>2. CASE req' = [req EXCEPT ![r].todo = Tail(@),
                                ![r].linked = @ \cup ({Head(req[r].todo)} \cap Live)]
    <3> DEFINE x == [req[r] EXCEPT !.todo = Tail(@),
                                   !.linked = @ \cup ({Head(req[r].todo)} \cap Live)]
    <3>1. /\ IsRequest(x) /\ x.op = req[r].op /\ x.pc = req[r].pc
          /\ x.number = req[r].number /\ x.result = req[r].result
      BY DEF IInv, Shape, IsRequest, Fields
    <3>2. req' = [req EXCEPT ![r] = x]
      BY <2>2
    <3> HIDE DEF x
    <3> QED
      BY <3>1, <3>2, ChangeRequest DEF UpdateReplied, IInv, At
  <2> QED
    BY <2>1, <2>2 DEF UpdateReplied
<1>2. owner' = owner \/ \E row \in Rows : Take(r, row)
  <2>1. NextRow(r) \subseteq Rows
    BY <1>1 DEF NextRow, At, Live, Rows
  <2> QED
    BY <2>1 DEF UpdateReplied
<1>3. Used' = Used /\ Good(r)
  BY <1>1 DEF Used, IInv
<1>4. owner[TopicRow] = r => owner'[TopicRow] = r
  BY <1>2, TakeRow DEF IInv
<1>5. NumberIsNext(r)' /\ RowIsLocked(r)' /\ RepliesDoNotTouch(r)'
  BY <1>1, <1>3, <1>4 DEF Good, NumberIsNext, RowIsLocked, RepliesDoNotTouch, HasNumber,
                          Inserted, Creates, At, Kind, Highest
<1> QED
  BY <1>1, <1>2, <1>5, GoOnStep

LEMMA ReleaseMutexStep == ASSUME IInv, NEW r \in Requests, ReleaseMutex(r) PROVE IInv'
<1>1. /\ req'[r].op = req[r].op /\ req[r].pc = "release_mutex"
      /\ req'[r].number = req[r].number /\ req'[r].result = req[r].result
      /\ IsRequest(req'[r])
      /\ \/ Kind(r) = "close" /\ req'[r].pc = "commit"
         \/ req'[r].pc = "done"
      /\ \A q \in Requests \ {r} : req'[q] = req[q]
      /\ req' = [q \in Requests |-> req'[q]]
      /\ posts' = posts /\ owner' = owner /\ ~At(r, "idle")
  BY DEF ReleaseMutex, Go, IInv, Shape, IsRequest, Fields, At
<1>2. Used' = Used /\ Good(r)
  BY <1>1 DEF Used, IInv
<1>3. NumberIsNext(r)' /\ RowIsLocked(r)' /\ RepliesDoNotTouch(r)'
  BY <1>1, <1>2 DEF Good, NumberIsNext, RowIsLocked, RepliesDoNotTouch, HasNumber,
                    Inserted, Creates, At, Kind, Highest
<1> QED
  BY <1>1, <1>3, GoOnStep

\* A request that goes where no creation has a number yet.
LEMMA NoNumberStep ==
    ASSUME IInv, NEW r \in Requests, posts' = posts,
           \/ owner' = owner
           \/ \E row \in Rows : Take(r, row)
           \/ FreeRows(r),
           req' = [q \in Requests |-> req'[q]],
           \A q \in Requests \ {r} : req'[q] = req[q],
           IsRequest(req'[r]), req'[r].op = req[r].op, ~At(r, "idle"),
           \/ req'[r].pc \in {"mutex", "lock_reply_to", "select_max", "reset_highest",
                              "write_counters", "done"}
           \/ req'[r].pc = "update_topic" /\ Kind(r) # "reply"
           \/ Kind(r) \notin {"reply", "close"} /\ req'[r].pc # "update_topic"
           \/ req'[r].result # "none" /\ req'[r].pc \notin {"last_post", "update_topic"}
    PROVE  IInv'
<1>1. ~HasNumber(r)' /\ RowIsLocked(r)' /\ RepliesDoNotTouch(r)'
  BY DEF HasNumber, RowIsLocked, RepliesDoNotTouch, Inserted, Creates, At, Kind
<1>2. NumberIsNext(r)'
  BY <1>1 DEF NumberIsNext
<1> QED
  BY <1>1, <1>2, GoOnStep

LEMMA LockMutexStep == ASSUME IInv, NEW r \in Requests, LockMutex(r) PROVE IInv'
<1>1. /\ req'[r].op = req[r].op /\ req'[r].pc \in {"lock_reply_to", "select_max"}
      /\ IsRequest(req'[r])
      /\ \A q \in Requests \ {r} : req'[q] = req[q]
      /\ req' = [q \in Requests |-> req'[q]]
      /\ posts' = posts /\ owner' = owner /\ ~At(r, "idle")
  BY DEF LockMutex, Go, IInv, Shape, IsRequest, Fields, At
<1> QED
  BY <1>1, NoNumberStep

LEMMA LockReplyToStep == ASSUME IInv, NEW r \in Requests, LockReplyTo(r) PROVE IInv'
<1>1. /\ req'[r].op = req[r].op /\ req'[r].pc = "select_max"
      /\ IsRequest(req'[r])
      /\ \A q \in Requests \ {r} : req'[q] = req[q]
      /\ req' = [q \in Requests |-> req'[q]]
      /\ posts' = posts /\ ~At(r, "idle")
  BY DEF LockReplyTo, Go, IInv, Shape, IsRequest, Fields, At
<1>2. owner' = owner \/ \E row \in Rows : Take(r, row)
  BY DEF LockReplyTo, Live, Rows
<1> QED
  BY <1>1, <1>2, NoNumberStep

LEMMA UpdatePostStep ==
    ASSUME IInv, NEW r \in Requests, UpdatePost(r)
    PROVE  IInv'
<1>1. /\ req'[r].op = req[r].op
      /\ \/ req'[r].pc = "update_topic" /\ Kind(r) # "reply"
         \/ req'[r].pc = "last_post" /\ Kind(r) \notin {"reply", "close"}
      /\ IsRequest(req'[r])
      /\ \A q \in Requests \ {r} : req'[q] = req[q]
      /\ req' = [q \in Requests |-> req'[q]]
      /\ posts' = posts /\ ~At(r, "idle")
  BY DEF UpdatePost, Go, IInv, Shape, IsRequest, Fields, At
<1>2. \E row \in Rows : Take(r, row)
  <2>1. req[r].op.post \in Used /\ Take(r, req[r].op.post)
    BY DEF UpdatePost, IInv, Good, PostIsThere, At, Kind
  <2> QED
    BY <2>1 DEF Used, Rows
<1> QED
  BY <1>1, <1>2, NoNumberStep

LEMMA SelectLastPostStep == ASSUME IInv, NEW r \in Requests, SelectLastPost(r) PROVE IInv'
<1>1. PICK c : req' = [req EXCEPT ![r].cols = c, ![r].pc = "update_topic"]
  BY DEF SelectLastPost
<1> DEFINE x == [req[r] EXCEPT !.cols = c, !.pc = "update_topic"]
<1>2. x.op = req[r].op /\ x.pc = "update_topic" /\ IsRequest(x)
  BY DEF IInv, Shape, IsRequest, Fields
<1>3. req' = [req EXCEPT ![r] = x]
  BY <1>1 DEF IInv, Shape
<1>4. Kind(r) # "reply"
  BY DEF SelectLastPost, IInv, Good, RepliesDoNotTouch, At
<1> HIDE DEF x
<1> QED
  BY <1>2, <1>3, <1>4, ChangeRequest, NoNumberStep DEF SelectLastPost, IInv, At

LEMMA UpdateTopicStep == ASSUME IInv, NEW r \in Requests, UpdateTopic(r) PROVE IInv'
<1>1. Kind(r) # "reply"
  BY DEF UpdateTopic, IInv, Good, RepliesDoNotTouch, At
<1>2. /\ req'[r].op = req[r].op
      /\ \/ Kind(r) = "close" /\ req'[r].pc = "mutex"
         \/ Kind(r) \notin {"reply", "close"} /\ req'[r].pc # "update_topic"
      /\ IsRequest(req'[r])
      /\ \A q \in Requests \ {r} : req'[q] = req[q]
      /\ req' = [q \in Requests |-> req'[q]]
      /\ posts' = posts /\ ~At(r, "idle")
  <2>1. CASE Kind(r) = "like"
    BY <1>1, <2>1 DEF UpdateTopic, Go, IInv, Shape, IsRequest, Fields, At
  <2>2. CASE Kind(r) = "close"
    BY <1>1, <2>2 DEF UpdateTopic, Go, IInv, Shape, IsRequest, Fields, At
  <2>3. CASE Kind(r) \notin {"like", "close"}
    <3>1. PICK t : req' = [req EXCEPT ![r].todo = t, ![r].pc = "update_replied"]
      BY <2>3 DEF UpdateTopic
    <3> DEFINE x == [req[r] EXCEPT !.todo = t, !.pc = "update_replied"]
    <3>2. x.op = req[r].op /\ x.pc = "update_replied" /\ IsRequest(x)
      BY DEF IInv, Shape, IsRequest, Fields
    <3>3. req' = [req EXCEPT ![r] = x]
      BY <3>1 DEF IInv, Shape
    <3> HIDE DEF x
    <3> QED
      BY <1>1, <2>3, <3>2, <3>3, ChangeRequest DEF UpdateTopic, IInv, At
  <2> QED
    BY <2>1, <2>2, <2>3
<1>3. TopicRow \in Rows /\ Take(r, TopicRow)
  BY DEF UpdateTopic, Rows
<1> QED
  BY <1>2, <1>3, NoNumberStep

LEMMA ResetHighestStep == ASSUME IInv, NEW r \in Requests, ResetHighest(r) PROVE IInv'
<1>1. /\ req'[r].op = req[r].op /\ req'[r].pc = "write_counters"
      /\ IsRequest(req'[r])
      /\ \A q \in Requests \ {r} : req'[q] = req[q]
      /\ req' = [q \in Requests |-> req'[q]]
      /\ posts' = posts /\ owner' = owner /\ ~At(r, "idle")
  <2> DEFINE x == [req[r] EXCEPT !.cols = Counters, !.pc = "write_counters"]
  <2>1. x.op = req[r].op /\ x.pc = "write_counters" /\ IsRequest(x)
    BY DEF IInv, Shape, IsRequest, Fields
  <2>2. req' = [req EXCEPT ![r] = x]
    BY DEF ResetHighest, IInv, Shape
  <2> HIDE DEF x
  <2> QED
    BY <2>1, <2>2, ChangeRequest DEF ResetHighest, At, IInv
<1> QED
  BY <1>1, NoNumberStep

LEMMA WriteCountersStep == ASSUME IInv, NEW r \in Requests, WriteCounters(r) PROVE IInv'
<1>1. /\ req'[r].op = req[r].op /\ req'[r].pc = "done"
      /\ IsRequest(req'[r])
      /\ \A q \in Requests \ {r} : req'[q] = req[q]
      /\ req' = [q \in Requests |-> req'[q]]
      /\ posts' = posts /\ owner' = owner /\ ~At(r, "idle")
  BY DEF WriteCounters, Go, IInv, Shape, IsRequest, Fields, At
<1> QED
  BY <1>1, NoNumberStep

LEMMA Aborted ==
    ASSUME IInv, NEW r \in Requests, NEW result, result # "none",
           NEW pc \in {"release_mutex", "done"},
           req' = [req EXCEPT ![r] = [req[r] EXCEPT !.result = result, !.pc = pc]]
    PROVE  /\ req'[r].op = req[r].op /\ req'[r].pc \in {"release_mutex", "done"}
           /\ req'[r].result # "none"
           /\ IsRequest(req'[r])
           /\ \A q \in Requests \ {r} : req'[q] = req[q]
           /\ req' = [q \in Requests |-> req'[q]]
<1> DEFINE x == [req[r] EXCEPT !.result = result, !.pc = pc]
<1>1. IsRequest(x) /\ x.op = req[r].op /\ x.pc = pc /\ x.result = result
  BY DEF IInv, Shape, IsRequest, Fields
<1>2. req' = [req EXCEPT ![r] = x]
  OBVIOUS
<1> HIDE DEF x
<1> QED
  BY <1>1, <1>2, ChangeRequest DEF IInv

LEMMA AbortStep ==
    ASSUME IInv, NEW r \in Requests, DeadlockVictim(r) \/ Kill(r)
    PROVE  IInv'
<1>0. ~At(r, "idle") /\ posts' = posts /\ FreeRows(r)
  <2>1. At(r, "idle") => NextRow(r) = {}
    BY DEF NextRow, At
  <2> QED
    BY <2>1 DEF DeadlockVictim, Kill, WaitsForRowOf, At
<1>1. CASE DeadlockVictim(r)
  <2> DEFINE pc == IF r \in holders THEN "release_mutex" ELSE "done"
  <2>1. req' = [req EXCEPT ![r] = [req[r] EXCEPT !.result = "deadlock", !.pc = pc]]
    BY <1>1 DEF DeadlockVictim
  <2>2. pc \in {"release_mutex", "done"}
    OBVIOUS
  <2> HIDE DEF pc
  <2> QED
    BY <1>0, <2>1, <2>2, Aborted, NoNumberStep
<1>2. CASE Kill(r)
  <2>1. req' = [req EXCEPT ![r] = [req[r] EXCEPT !.result = "killed", !.pc = "done"]]
    BY <1>2 DEF Kill
  <2> QED
    BY <1>0, <2>1, Aborted, NoNumberStep
<1> QED
  BY <1>1, <1>2

\* COMMIT of a creation: the post gets the number after the last one used.
LEMMA CommitCreation ==
    ASSUME IInv, NEW r \in Requests, EndTransaction(r), Creates(r)
    PROVE  /\ owner[TopicRow] = r
           /\ req[r].number = Highest(Used) + 1
           /\ posts' = [posts EXCEPT ![Highest(Used) + 1] =
                           [state |-> "live", whisper |-> req[r].whisper,
                            parents |-> req[r].linked]]
<1>1. Inserted(r) /\ HasNumber(r) /\ Good(r)
  BY DEF EndTransaction, Inserted, HasNumber, At, IInv
<1>2. owner[TopicRow] = r /\ req[r].number = Highest(Used) + 1
  BY <1>1 DEF Good, NumberIsNext, RowIsLocked
<1>3. PostsAfter(r) = [posts EXCEPT ![req[r].number] =
                          [state |-> "live", whisper |-> req[r].whisper,
                           parents |-> req[r].linked]]
  BY DEF PostsAfter, Creates
<1> QED
  BY <1>2, <1>3 DEF EndTransaction, Creates

\* COMMIT of anything else: no post appears.
LEMMA CommitOther ==
    ASSUME IInv, NEW r \in Requests, EndTransaction(r), ~Creates(r)
    PROVE  \/ posts' = posts
           \/ /\ req[r].op.post \in Used
              /\ posts' = [posts EXCEPT ![req[r].op.post] =
                              [posts[req[r].op.post] EXCEPT !.state = "trashed", !.parents = {}]]
<1>1. CASE req[r].result # "none"
  BY <1>1 DEF EndTransaction
<1>2. CASE req[r].result = "none" /\ Kind(r) = "destroy"
  <2>1. req[r].op.post \in Used
    BY <1>2 DEF IInv, Good, PostIsThere, EndTransaction, At
  <2>2. posts' = [posts EXCEPT ![req[r].op.post].state = "trashed",
                               ![req[r].op.post].parents = {}]
    BY <1>2 DEF EndTransaction, PostsAfter
  <2> QED
    BY <2>1, <2>2 DEF IInv, Shape, Used
<1>3. CASE req[r].result = "none" /\ Kind(r) # "destroy"
  <2>1. Kind(r) \notin {"reply", "close", "destroy"}
    BY <1>3 DEF Creates
  <2>2. PostsAfter(r) = posts
    BY <2>1 DEF PostsAfter
  <2> QED
    BY <1>3, <2>2 DEF EndTransaction
<1> QED
  BY <1>1, <1>2, <1>3

\* What happens to a post in the place of a post.
LEMMA PostChanges ==
    ASSUME Shape, NEW n, NEW x, IsPost(x), x.state # "none",
           posts' = [posts EXCEPT ![n] = x]
    PROVE  /\ posts' = [m \in 1..MaxNumber |-> posts'[m]]
           /\ \A m \in 1..MaxNumber : IsPost(posts'[m])
           /\ Used' = Used \cup ({n} \cap 1..MaxNumber)
<1>1. \A m \in 1..MaxNumber : posts'[m] = IF m = n THEN x ELSE posts[m]
  BY DEF Shape
<1>2. posts' = [m \in 1..MaxNumber |-> posts'[m]]
  BY DEF Shape
<1> QED
  BY <1>1, <1>2 DEF Shape, Used

LEMMA EndTransactionStep == ASSUME IInv, NEW r \in Requests, EndTransaction(r) PROVE IInv'
<1>1. /\ req'[r].op = req[r].op /\ req[r].pc = "commit" /\ req'[r].pc = AfterCommit(r)
      /\ IsRequest(req'[r])
      /\ \A q \in Requests \ {r} : req'[q] = req[q]
      /\ req' = [q \in Requests |-> req'[q]]
      /\ FreeRows(r)
  BY DEF EndTransaction, Go, IInv, Shape, IsRequest, Fields, At
<1>2. /\ AfterCommit(r) \in {"release_mutex", "reset_highest", "done"}
      /\ AfterCommit(r) = "release_mutex" => Kind(r) = "reply"
  BY DEF AfterCommit
<1>3. /\ posts' = [m \in 1..MaxNumber |-> posts'[m]]
      /\ \A m \in 1..MaxNumber : IsPost(posts'[m])
      /\ \/ Used' = Used
         \/ owner[TopicRow] = r /\ Used' = Used \cup {Highest(Used) + 1}
  <2>1. CASE Creates(r)
    <3> DEFINE x == [state |-> "live", whisper |-> req[r].whisper, parents |-> req[r].linked]
    <3>1. IsPost(x) /\ x.state # "none"
      BY DEF IsPost, PostColumns
    <3>2. owner[TopicRow] = r /\ posts' = [posts EXCEPT ![Highest(Used) + 1] = x]
      BY <2>1, CommitCreation
    <3> HIDE DEF x
    <3>3. /\ posts' = [m \in 1..MaxNumber |-> posts'[m]]
          /\ \A m \in 1..MaxNumber : IsPost(posts'[m])
          /\ Used' = Used \cup ({Highest(Used) + 1} \cap 1..MaxNumber)
      BY <3>1, <3>2, PostChanges DEF IInv
    <3> QED
      BY <3>2, <3>3
  <2>2. CASE ~Creates(r)
    <3>1. CASE posts' = posts
      BY <3>1 DEF IInv, Shape, Used
    <3>2. CASE posts' # posts
      <4> DEFINE n == req[r].op.post
                 x == [posts[n] EXCEPT !.state = "trashed", !.parents = {}]
      <4>1. n \in Used /\ posts' = [posts EXCEPT ![n] = x]
        BY <2>2, <3>2, CommitOther
      <4>2. IsPost(x) /\ x.state # "none"
        <5>1. IsPost(posts[n])
          BY <4>1 DEF IInv, Shape, Used
        <5> QED
          BY <5>1 DEF IsPost, PostColumns
      <4> HIDE DEF n, x
      <4>3. /\ posts' = [m \in 1..MaxNumber |-> posts'[m]]
            /\ \A m \in 1..MaxNumber : IsPost(posts'[m])
            /\ Used' = Used \cup ({n} \cap 1..MaxNumber)
        BY <4>1, <4>2, PostChanges DEF IInv
      <4> QED
        BY <4>1, <4>3
    <3> QED
      BY <3>1, <3>2
  <2> QED
    BY <2>1, <2>2
<1>4. Shape'
  BY <1>1, <1>3, FreeAll DEF IInv, Shape
<1>5. Good(r)'
  <2>1. ~HasNumber(r)' /\ RowIsLocked(r)' /\ RepliesDoNotTouch(r)'
    BY <1>1, <1>2 DEF HasNumber, RowIsLocked, RepliesDoNotTouch, Inserted, Creates, At, Kind
  <2>2. PostIsThere(r)'
    BY <1>1, <1>3 DEF IInv, Good, PostIsThere, At, Kind
  <2> QED
    BY <2>1, <2>2 DEF Good, NumberIsNext
<1> QED
  BY <1>1, <1>3, <1>4, <1>5, FreeAll, OwnStep

\* A post that is recovered is there already.
LEMMA RecoveredPost ==
    ASSUME IInv, NEW r \in Requests, RecoverPost(r)
    PROVE  /\ req[r].op.post \in Used
           /\ posts' = [posts EXCEPT ![req[r].op.post] =
                           [posts[req[r].op.post] EXCEPT !.state = "live"]]
BY DEF RecoverPost, IInv, Shape, Good, PostIsThere, At, Kind

LEMMA RecoverPostStep == ASSUME IInv, NEW r \in Requests, RecoverPost(r) PROVE IInv'
<1>1. /\ req'[r].op = req[r].op /\ req[r].pc = "update_post" /\ req'[r].pc = "reset_highest"
      /\ IsRequest(req'[r])
      /\ \A q \in Requests \ {r} : req'[q] = req[q]
      /\ req' = [q \in Requests |-> req'[q]]
      /\ owner' = owner
  BY DEF RecoverPost, Go, IInv, Shape, IsRequest, Fields, At
<1>2. /\ posts' = [m \in 1..MaxNumber |-> posts'[m]]
      /\ \A m \in 1..MaxNumber : IsPost(posts'[m])
      /\ Used' = Used
  <2> DEFINE n == req[r].op.post
             x == [posts[n] EXCEPT !.state = "live"]
  <2>1. n \in Used /\ posts' = [posts EXCEPT ![n] = x]
    BY RecoveredPost
  <2>2. IsPost(x) /\ x.state # "none"
    BY <2>1 DEF IInv, Shape, Used, IsPost, PostColumns
  <2> HIDE DEF n, x
  <2>3. /\ posts' = [m \in 1..MaxNumber |-> posts'[m]]
        /\ \A m \in 1..MaxNumber : IsPost(posts'[m])
        /\ Used' = Used \cup ({n} \cap 1..MaxNumber)
    BY <2>1, <2>2, PostChanges DEF IInv
  <2> QED
    BY <2>1, <2>3
<1>3. Shape'
  BY <1>1, <1>2 DEF IInv, Shape
<1>4. Good(r)'
  BY <1>1, <1>2 DEF IInv, Good, NumberIsNext, HasNumber, RowIsLocked, RepliesDoNotTouch,
                    PostIsThere, Inserted, Creates, At, Kind
<1> QED
  BY <1>1, <1>2, <1>3, <1>4, OwnStep

LEMMA StutterIInv == ASSUME IInv, UNCHANGED <<posts, owner, req>> PROVE IInv'
<1>1. Used' = Used
  BY DEF Used
<1> QED
  BY <1>1 DEF IInv, Shape, Good, NumberIsNext, HasNumber, RowIsLocked, RepliesDoNotTouch,
              PostIsThere, Inserted, Creates, At, Kind, Highest

LEMMA NextIInv == IInv /\ [Next]_vars => IInv'
<1> SUFFICES ASSUME IInv, [Next]_vars PROVE IInv'
  OBVIOUS
<1>1. CASE UNCHANGED vars
  BY <1>1, StutterIInv DEF vars
<1>2. CASE Tick
  BY <1>2, StutterIInv DEF Tick
<1>3. ASSUME NEW r \in Requests, Step(r) PROVE IInv'
  BY <1>3, LockMutexStep, LockReplyToStep, SelectMaxStep, NextPostNumberStep, InsertPostStep,
     UpdateRepliedStep, ReleaseMutexStep, UpdatePostStep, SelectLastPostStep, UpdateTopicStep, RecoverPostStep,
     ResetHighestStep, WriteCountersStep, EndTransactionStep DEF Step
<1>4. ASSUME NEW r \in Requests, DeadlockVictim(r) \/ Kill(r) PROVE IInv'
  BY <1>4, AbortStep
<1> QED
  BY <1>1, <1>2, <1>3, <1>4, StartStep DEF Next

LEMMA SpecIInv == Spec => []IInv
BY InitIInv, NextIInv, PTL DEF Spec

-----------------------------------------------------------------------------
\* "post_number is monotonically increasing with no gaps" (post_creator.rb:395),
\* for any number of requests, also when creations outlive the mutex.
THEOREM NumbersFollow == Spec => NextNumber
<1> DEFINE A == \A n \in 1..MaxNumber :
                  posts[n].state = "none" /\ posts'[n].state # "none" => n = Highest(Used) + 1
<1>1. IInv /\ [Next]_vars => [A]_posts
  <2> SUFFICES ASSUME IInv, [Next]_vars, posts' # posts PROVE A
    OBVIOUS
  <2>1. ASSUME NEW r \in Requests, EndTransaction(r), Creates(r) PROVE A
    <3>1. posts' = [posts EXCEPT ![Highest(Used) + 1] =
                      [state |-> "live", whisper |-> req[r].whisper, parents |-> req[r].linked]]
      BY <2>1, CommitCreation
    <3> QED
      BY <3>1 DEF IInv, Shape
  <2>2. ASSUME NEW r \in Requests, EndTransaction(r), ~Creates(r) PROVE A
    <3>1. \E m \in Used : \E x : posts' = [posts EXCEPT ![m] = x]
      BY <2>2, CommitOther
    <3> QED
      BY <3>1 DEF IInv, Shape, Used
  <2>3. ASSUME NEW r \in Requests, RecoverPost(r) PROVE A
    <3>1. \E m \in Used : \E x : posts' = [posts EXCEPT ![m] = x]
      BY <2>3, RecoveredPost
    <3> QED
      BY <3>1 DEF IInv, Shape, Used
  <2>4. ASSUME NEW r \in Requests, Step(r) PROVE EndTransaction(r) \/ RecoverPost(r)
    BY <2>4 DEF Step, LockMutex, LockReplyTo, SelectMax, NextPostNumber, InsertPost,
       UpdateReplied, ReleaseMutex, UpdatePost, SelectLastPost, UpdateTopic, ResetHighest, WriteCounters
  <2> QED
    BY <2>1, <2>2, <2>3, <2>4 DEF Next, Start, DeadlockVictim, Kill, Tick, vars
<1> QED
  BY <1>1, SpecIInv, PTL DEF Spec, NextNumber

-----------------------------------------------------------------------------
(* The largest number of a set *)

\* A set of numbers up to N that is not empty has a largest one.
LEMMA LargestExists ==
    ASSUME NEW N \in Nat, NEW S \in SUBSET (1..N), S # {}
    PROVE  \E x \in S : \A y \in S : x >= y
<1> DEFINE D == {k \in Nat : N - k \in S}
<1>1. D \subseteq Nat /\ D # {}
  <2>1. PICK x \in S : TRUE
    OBVIOUS
  <2>2. x \in Int /\ N - x \in Nat /\ N - (N - x) = x
    BY <2>1
  <2> QED
    BY <2>1, <2>2
<1>2. PICK m \in D : \A k \in D : <<k, m>> \notin OpToRel(<, Nat)
  <2> HIDE DEF D
  <2> QED
    BY <1>1, WFMin, NatLessThanWellFounded, Zenon
<1>3. \A k \in D : ~(k < m)
  BY <1>2, Zenon DEF OpToRel
<1>4. N - m \in S /\ m \in Nat
  OBVIOUS
<1>5. ASSUME NEW y \in S PROVE N - m >= y
  <2>1. y \in Int /\ N - y \in Nat /\ N - (N - y) = y
    OBVIOUS
  <2>2. N - y \in D
    BY <2>1
  <2>3. ~(N - y < m)
    BY <1>3, <2>2
  <2> QED
    BY <1>4, <2>1, <2>3
<1> QED
  BY <1>4, <1>5

LEMMA HighestIsLargest ==
    ASSUME NEW S \in SUBSET (1..MaxNumber)
    PROVE  /\ Highest(S) \in 0..MaxNumber
           /\ \A n \in S : n <= Highest(S)
<1>1. CASE S = {}
  BY <1>1, TopicPostsAssumption DEF Highest
<1>2. CASE S # {}
  <2>1. \E x \in S : \A y \in S : x >= y
    BY <1>2, LargestExists, TopicPostsAssumption
  <2>2. Max(S) \in S /\ \A y \in S : Max(S) >= y
    BY <2>1, Zenon DEF Max
  <2>3. Highest(S) = Max(S)
    BY <1>2 DEF Highest
  <2>4. Highest(S) \in S /\ \A y \in S : Highest(S) >= y
    BY <2>2, <2>3
  <2> HIDE DEF Highest
  <2>5. Highest(S) \in 1..MaxNumber /\ \A n \in S : n \in 1..MaxNumber
    BY <2>4
  <2> QED
    BY <2>4, <2>5, TopicPostsAssumption
<1> QED
  BY <1>1, <1>2

\* A number added above all others is the largest.
LEMMA HighestOfAdded ==
    ASSUME NEW S \in SUBSET (1..MaxNumber), NEW n \in 1..MaxNumber, \A y \in S : y <= n
    PROVE  Highest(S \cup {n}) = n
<1> DEFINE T == S \cup {n}
<1>1. n \in T /\ \A y \in T : n >= y
  OBVIOUS
<1>2. Max(T) \in T /\ \A y \in T : Max(T) >= y
  BY <1>1, Zenon DEF Max
<1>3. ASSUME NEW m \in T, \A y \in T : m >= y PROVE m = n
  <2>1. m >= n /\ m <= n /\ m \in Int /\ n \in Int
    BY <1>1, <1>3
  <2> QED
    BY <2>1
<1>4. S \cup {n} # {} /\ Max(S \cup {n}) = n
  BY <1>1, <1>2, <1>3
<1> HIDE DEF T
<1> QED
  BY <1>4 DEF Highest

-----------------------------------------------------------------------------
(* The invariant *)

\* Where a request of a kind can be
Fits(kind, pc) ==
    /\ pc = "lock_reply_to" => kind = "reply"
    /\ pc \in {"mutex", "select_max", "next_post_number", "insert_post"} => kind \in {"reply", "close"}
    /\ pc = "update_post" => kind \in {"like", "destroy", "recover"}
    /\ pc = "last_post" => kind = "destroy"
    /\ pc = "update_topic" => kind \in {"like", "destroy", "close"}
    /\ pc = "update_replied" => kind \in {"reply", "close", "destroy"}
    /\ pc = "commit" => kind \in {"reply", "close", "destroy", "like"}
    /\ pc \in {"reset_highest", "write_counters"} => kind \in {"destroy", "recover", "reset"}

Placed(r) ==
    /\ req[r].pc \in Pcs
    /\ Kind(r) \in Kinds \cup {"none"}
    /\ At(r, "idle") <=> Kind(r) = "none"
    /\ Fits(Kind(r), req[r].pc)

\* Rows are locked between the first lock and the end of the transaction; a
\* close enters and leaves the mutex in between.
InTransaction == {"select_max", "next_post_number", "insert_post", "last_post",
                  "update_topic", "update_replied", "commit"}

RowsInTransaction(r) ==
    \A row \in Rows : owner[row] = r =>
        \/ req[r].pc \in InTransaction
        \/ Kind(r) = "close" /\ req[r].pc \in {"mutex", "release_mutex"}

\* Who has the row of the topic waits for no other row, except in update_replied.
TopicRowIsLast(r) ==
    owner[TopicRow] = r => Kind(r) = "close" \/ req[r].pc \in {"insert_post", "update_replied", "commit"}

\* The post replied to is there, and locked if it was visible when it was to
\* be locked.
ReplyIsThere(r) == Kind(r) = "reply" => req[r].op.to \in Used \cup {0}

ReplyIsLocked(r) ==
    /\ Kind(r) = "reply" /\ req[r].op.to \in Live
    /\ req[r].pc \in {"select_max", "next_post_number", "insert_post", "update_replied"}
    => owner[req[r].op.to] = r \/ Recovered(req[r].op.to)

IsNumber(n) == n \in 0..MaxNumber
IsRow(row) == row \in [highest : 0..MaxNumber, staff : 0..MaxNumber]

DataTyped(r) ==
    /\ IsNumber(req[r].number)
    /\ \A c \in DOMAIN req[r].cols : IsNumber(req[r].cols[c])
    /\ At(r, "write_counters") => IsRow(req[r].cols)

Fine(r) ==
    /\ Placed(r) /\ RowsInTransaction(r) /\ TopicRowIsLast(r)
    /\ ReplyIsThere(r) /\ ReplyIsLocked(r) /\ DataTyped(r)

Types ==
    /\ holders \subseteq Requests
    /\ \A n \in 1..MaxNumber : posts[n].state \in {"none", "live", "trashed"}
    /\ IsRow(topic)
    /\ \A row \in Rows : owner[row] \in Requests \cup {Nobody}

LInv == IInv /\ Types /\ \A r \in Requests : Fine(r)

Others(r) == \A q \in Requests \ {r} : req'[q] = req[q]

\* What a step may do to rows: leave them, take one, or end a transaction.
RowStep(r) == owner' = owner \/ (\E row \in Rows : Take(r, row)) \/ FreeRows(r)

-----------------------------------------------------------------------------
LEMMA CountersAreNumbers == IsRow(Counters)
<1>1. Live \in SUBSET (1..MaxNumber) /\ Regular \in SUBSET (1..MaxNumber)
  BY DEF Live, Regular
<1> QED
  BY <1>1, HighestIsLargest DEF Counters, IsRow

LEMMA InitLInv == Init => LInv
<1> SUFFICES ASSUME Init PROVE LInv
  OBVIOUS
<1>1. IInv
  BY InitIInv
<1>2. Types
  <2>1. \A n \in 1..MaxNumber : posts[n].state \in {"none", "live", "trashed"}
    <3> SUFFICES ASSUME NEW n \in 1..MaxNumber PROVE posts[n].state \in {"none", "live", "trashed"}
      OBVIOUS
    <3>1. CASE n \in DOMAIN InitialPosts
      BY <3>1, TopicPostsAssumption DEF Init
    <3>2. CASE n \notin DOMAIN InitialPosts
      BY <3>2 DEF Init, NoPost
    <3> QED
      BY <3>1, <3>2
  <2> QED
    BY <2>1, CountersAreNumbers DEF Init, Types, Mutex!Init
<1>3. ASSUME NEW r \in Requests PROVE Fine(r)
  <2>1. req[r] = Idle /\ \A row \in Rows : owner[row] = Nobody
    BY DEF Init
  <2>2. \A row \in Rows : owner[row] # r
    BY <2>1, TopicPostsAssumption
  <2>3. Kind(r) = "none" /\ req[r].pc = "idle" /\ req[r].number = 0 /\ req[r].cols = <<>>
    BY <2>1 DEF Idle, NoOp, Kind
  <2>4. DataTyped(r)
    BY <2>3, TopicPostsAssumption DEF DataTyped, IsNumber, At
  <2>5. TopicRow \in Rows
    BY DEF Rows
  <2> QED
    BY <2>2, <2>3, <2>4, <2>5 DEF Fine, Placed, Fits, RowsInTransaction, TopicRowIsLast, ReplyIsThere,
                                  ReplyIsLocked, At, Pcs, Kinds
<1> QED
  BY <1>1, <1>2, <1>3 DEF LInv

\* The rows of the others are theirs before and after.
LEMMA RowsOfOthers ==
    ASSUME IInv, Types, NEW r \in Requests, RowStep(r)
    PROVE  /\ \A row \in Rows, q \in Requests \ {r} : owner'[row] = q <=> owner[row] = q
           /\ \A row \in Rows : owner'[row] \in Requests \cup {Nobody}
<1>1. CASE owner' = owner
  BY <1>1 DEF Types
<1>2. CASE \E row \in Rows : Take(r, row)
  BY <1>2, TopicPostsAssumption DEF Take, IInv, Shape, Types
<1>3. CASE FreeRows(r)
  BY <1>3, TopicPostsAssumption DEF FreeRows, Types
<1> QED
  BY <1>1, <1>2, <1>3 DEF RowStep

LEMMA OthersFine ==
    ASSUME LInv, NEW r \in Requests, RowStep(r), Others(r),
           At(r, "idle") \/ req'[r].op = req[r].op,
           Used \subseteq Used',
           \A n \in Live' : n \in Live \/ n \notin Used \/ Recovered(n),
           NEW q \in Requests \ {r}
    PROVE  Fine(q)'
<1>1. req'[q] = req[q] /\ Fine(q)
  BY DEF Others, LInv
<1>2. \A row \in Rows : owner'[row] = q <=> owner[row] = q
  BY RowsOfOthers DEF LInv
<1>3. ASSUME NEW n, Recovered(n) PROVE Recovered(n)'
  <2>1. PICK p \in Requests : Kind(p) = "recover" /\ req[p].op.post = n
    BY <1>3 DEF Recovered
  <2>2. req'[p].op = req[p].op
    BY <2>1 DEF Others, LInv, Fine, Placed, Kind
  <2> QED
    BY <2>1, <2>2 DEF Recovered, Kind
<1>4. Placed(q)' /\ DataTyped(q)'
  BY <1>1 DEF Fine, Placed, DataTyped, At, Kind
<1>5. RowsInTransaction(q)' /\ TopicRowIsLast(q)'
  BY <1>1, <1>2 DEF Fine, RowsInTransaction, TopicRowIsLast, Kind, Rows
<1>6. ReplyIsThere(q)'
  BY <1>1 DEF Fine, ReplyIsThere, Kind
<1>7. ReplyIsLocked(q)'
  <2> SUFFICES ASSUME Kind(q) = "reply", req[q].op.to \in Live',
                      req[q].pc \in {"select_max", "next_post_number", "insert_post", "update_replied"}
               PROVE  owner'[req[q].op.to] = q \/ Recovered(req[q].op.to)'
    BY <1>1 DEF ReplyIsLocked, Kind
  <2>1. req[q].op.to \in 1..MaxNumber
    BY DEF Live
  <2>2. req[q].op.to \in Used /\ req[q].op.to \in Rows
    BY <1>1, <2>1, TopicPostsAssumption DEF Fine, ReplyIsThere, Rows
  <2>3. req[q].op.to \in Live \/ Recovered(req[q].op.to)
    BY <2>2
  <2> QED
    BY <1>1, <1>2, <1>3, <2>2, <2>3 DEF Fine, ReplyIsLocked
<1> QED
  BY <1>4, <1>5, <1>6, <1>7 DEF Fine

\* Most steps leave the tables alone.
LEMMA QuietStep ==
    ASSUME LInv, IInv', NEW r \in Requests, posts' = posts, topic' = topic, RowStep(r), Others(r),
           At(r, "idle") \/ req'[r].op = req[r].op,
           holders' \subseteq Requests, Fine(r)'
    PROVE  LInv'
<1>1. Used' = Used /\ Live' = Live
  BY DEF Used, Live
<1>2. \A q \in Requests \ {r} : Fine(q)'
  BY <1>1, OthersFine
<1>3. Types'
  BY RowsOfOthers DEF LInv, Types
<1> QED
  BY <1>2, <1>3 DEF LInv

-----------------------------------------------------------------------------
(* The steps that leave the tables alone *)

\* What a request carries from step to step
SameData(r) ==
    /\ req'[r].op = req[r].op /\ req'[r].number = req[r].number
    /\ req'[r].whisper = req[r].whisper /\ req'[r].cols = req[r].cols

Moves(r, from, to) == req[r].pc = from /\ req'[r].pc = to /\ Others(r)

LEMMA GoMoves ==
    ASSUME IInv, NEW r \in Requests, NEW from, At(r, from), NEW to, Go(r, to)
    PROVE  SameData(r) /\ req'[r].result = req[r].result /\ Moves(r, from, to)
BY DEF IInv, Shape, IsRequest, Fields, Go, At, SameData, Moves, Others

LEMMA GoOnQuietly ==
    ASSUME LInv, IInv', NEW r \in Requests, NEW from, NEW to \in Pcs \ {"idle"}, from # "idle",
           Moves(r, from, to), Fits(Kind(r), to), req'[r].op = req[r].op,
           posts' = posts, topic' = topic, RowStep(r), holders' \subseteq Requests,
           RowsInTransaction(r)', TopicRowIsLast(r)', ReplyIsLocked(r)', DataTyped(r)'
    PROVE  LInv'
<1>1. Used' = Used
  BY DEF Used
<1>2. Placed(r)' /\ ReplyIsThere(r)'
  BY <1>1 DEF LInv, Fine, Placed, ReplyIsThere, At, Kind, Moves
<1> QED
  BY <1>2, QuietStep DEF Fine, Moves

LEMMA StartL == ASSUME LInv, IInv', NEW r \in Requests, Start(r) PROVE LInv'
<1>1. PICK o \in Ops :
        /\ o.kind = "reply" => o.to \in Used \cup {0}
        /\ req' = [req EXCEPT ![r] = [Idle EXCEPT !.op = o, !.pc = FirstStep(o.kind),
                                        !.whisper = (o.kind = "reply" /\ o.whisper)]]
  BY DEF Start
<1>2. /\ req'[r].op = o /\ req'[r].pc = FirstStep(o.kind) /\ req'[r].number = 0
      /\ req'[r].cols = <<>> /\ Others(r)
      /\ posts' = posts /\ topic' = topic /\ owner' = owner /\ holders' = holders
      /\ At(r, "idle")
  BY <1>1 DEF Start, LInv, IInv, Shape, Idle, Others, mutexVars
<1>3. /\ o.kind \in Kinds
      /\ FirstStep(o.kind) \in {"mutex", "update_topic", "reset_highest", "update_post"}
      /\ Fits(o.kind, FirstStep(o.kind))
  BY TopicPostsAssumption DEF FirstStep, Kinds, Fits
<1>4. Used' = Used
  BY <1>2 DEF Used
<1>5. \A row \in Rows : owner[row] # r
  BY <1>2 DEF LInv, Fine, RowsInTransaction, Placed, At, InTransaction
<1>6. Placed(r)' /\ RowsInTransaction(r)' /\ TopicRowIsLast(r)' /\ ReplyIsThere(r)' /\ ReplyIsLocked(r)'
  BY <1>1, <1>2, <1>3, <1>4, <1>5 DEF Placed, RowsInTransaction, TopicRowIsLast, ReplyIsThere,
     ReplyIsLocked, Pcs, Kinds, At, Kind, Rows
<1>7. DataTyped(r)'
  BY <1>2, <1>3, TopicPostsAssumption DEF DataTyped, IsNumber, At
<1> QED
  BY <1>2, <1>6, <1>7, QuietStep DEF Fine, RowStep, LInv, Types

LEMMA LockMutexL == ASSUME LInv, IInv', NEW r \in Requests, LockMutex(r) PROVE LInv'
<1> DEFINE to == IF Kind(r) = "reply" THEN "lock_reply_to" ELSE "select_max"
<1>1. SameData(r) /\ Moves(r, "mutex", to) /\ to \in Pcs \ {"idle"}
  BY GoMoves DEF LockMutex, LInv, Pcs
<1>2. posts' = posts /\ topic' = topic /\ owner' = owner /\ holders' = {r}
  BY DEF LockMutex, Mutex!Grant
<1>3. RowsInTransaction(r)' /\ TopicRowIsLast(r)'
  BY <1>1, <1>2 DEF LInv, Fine, RowsInTransaction, TopicRowIsLast, Moves, SameData, Kind, InTransaction
<1>4. ReplyIsLocked(r)' /\ DataTyped(r)'
  BY <1>1 DEF LInv, Fine, ReplyIsLocked, DataTyped, Moves, SameData, Kind, At
<1>20. Fits(Kind(r), to)
  BY <1>1 DEF LInv, Fine, Placed, Moves, Fits, At, AfterPost, Kind
<1> HIDE DEF to
<1> QED
  BY <1>1, <1>2, <1>3, <1>4, <1>20, GoOnQuietly DEF RowStep, SameData

LEMMA LockReplyToL == ASSUME LInv, IInv', NEW r \in Requests, LockReplyTo(r) PROVE LInv'
<1> DEFINE post == req[r].op.to
<1>1. /\ Moves(r, "lock_reply_to", "select_max") /\ req'[r].op = req[r].op
      /\ req'[r].number = req[r].number /\ req'[r].cols = req[r].cols
      /\ posts' = posts /\ topic' = topic /\ holders' = holders
  BY DEF LockReplyTo, LInv, IInv, Shape, IsRequest, Fields, Go, At, Moves, Others, mutexVars
<1>2. \/ post \notin Live /\ owner' = owner
      \/ post \in Live /\ Take(r, post)
  BY DEF LockReplyTo
<1>3. /\ post \in Live => post \in Rows \ {TopicRow}
      /\ TopicRow \in Rows
  BY TopicPostsAssumption DEF Live, Rows, TopicRow
<1>4. \A row \in Rows : owner[row] # r
  BY <1>1 DEF LInv, Fine, RowsInTransaction, InTransaction, Moves
<1>5. /\ owner'[TopicRow] # r
      /\ post \in Live => owner'[post] = r
  BY <1>2, <1>3, <1>4, TakeRow DEF LInv, IInv, Shape, Take
<1>6. RowsInTransaction(r)' /\ TopicRowIsLast(r)'
  BY <1>1, <1>5 DEF RowsInTransaction, TopicRowIsLast, Moves, InTransaction
<1>7. ReplyIsLocked(r)' /\ DataTyped(r)'
  BY <1>1, <1>5 DEF ReplyIsLocked, DataTyped, Moves, At, Kind, Live, LInv, Fine
<1>8. RowStep(r)
  BY <1>2, <1>3 DEF RowStep
<1>9. "select_max" \in Pcs \ {"idle"}
  BY DEF Pcs
<1>20. Fits(Kind(r), "select_max")
  BY <1>1 DEF LInv, Fine, Placed, Moves, Fits, At, AfterPost, Kind
<1> QED
  BY <1>1, <1>6, <1>7, <1>8, <1>9, <1>20, GoOnQuietly DEF LInv, Types

LEMMA SelectMaxL == ASSUME LInv, IInv', NEW r \in Requests, SelectMax(r) PROVE LInv'
<1>1. /\ Moves(r, "select_max", "next_post_number") /\ req'[r].op = req[r].op
      /\ req'[r].number = Highest(Used) + 1 /\ req'[r].cols = req[r].cols
      /\ posts' = posts /\ topic' = topic /\ holders' = holders /\ owner' = owner
      /\ Highest(Used) < MaxNumber
  <2> DEFINE x == [req[r] EXCEPT !.number = Following(MaxPostNumber), !.pc = "next_post_number"]
  <2>1. /\ x.op = req[r].op /\ x.pc = "next_post_number" /\ x.number = Highest(Used) + 1
        /\ x.cols = req[r].cols
    BY DEF LInv, IInv, Shape, IsRequest, Fields, Following, MaxPostNumber
  <2>2. req' = [req EXCEPT ![r] = x]
    BY DEF SelectMax, LInv, IInv, Shape
  <2> HIDE DEF x
  <2> QED
    BY <2>1, <2>2 DEF SelectMax, LInv, IInv, Shape, At, Moves, Others, mutexVars, MaxPostNumber
<1>2. Highest(Used) \in 0..MaxNumber
  BY HighestIsLargest DEF Used
<1>3. RowsInTransaction(r)' /\ TopicRowIsLast(r)' /\ ReplyIsLocked(r)'
  BY <1>1 DEF LInv, Fine, RowsInTransaction, TopicRowIsLast, ReplyIsLocked, Moves, Kind,
     InTransaction, Live, Recovered, Others
<1>4. DataTyped(r)'
  BY <1>1, <1>2, TopicPostsAssumption DEF LInv, Fine, DataTyped, IsNumber, Moves, At
<1>5. "next_post_number" \in Pcs \ {"idle"}
  BY DEF Pcs
<1>20. Fits(Kind(r), "next_post_number")
  BY <1>1 DEF LInv, Fine, Placed, Moves, Fits, At, AfterPost, Kind
<1> QED
  BY <1>1, <1>3, <1>4, <1>5, <1>20, GoOnQuietly DEF RowStep, LInv, Types

LEMMA NextPostNumberL == ASSUME LInv, IInv', NEW r \in Requests, NextPostNumber(r) PROVE LInv'
<1>1. /\ Moves(r, "next_post_number", "insert_post") /\ req'[r].op = req[r].op
      /\ req'[r].number = req[r].number /\ req'[r].cols = Columns(r)
      /\ posts' = posts /\ topic' = topic /\ holders' = holders /\ Take(r, TopicRow)
  <2> DEFINE x == [req[r] EXCEPT !.cols = Columns(r), !.pc = "insert_post"]
  <2>1. /\ x.op = req[r].op /\ x.pc = "insert_post" /\ x.number = req[r].number
        /\ x.cols = Columns(r)
    BY DEF LInv, IInv, Shape, IsRequest, Fields
  <2>2. req' = [req EXCEPT ![r] = x]
    BY DEF NextPostNumber, LInv, IInv, Shape
  <2> HIDE DEF x
  <2> QED
    BY <2>1, <2>2 DEF NextPostNumber, LInv, IInv, Shape, At, Moves, Others, mutexVars
<1>2. RowStep(r)
  BY <1>1 DEF RowStep, Rows
<1>3. RowsInTransaction(r)' /\ TopicRowIsLast(r)'
  BY <1>1 DEF RowsInTransaction, TopicRowIsLast, Moves, InTransaction
<1>4. ReplyIsLocked(r)'
  <2>1. \A row \in Rows \ {TopicRow} : owner'[row] = owner[row]
    BY <1>1 DEF Take, LInv, IInv, Shape
  <2>2. \A n \in Live : n \in Rows \ {TopicRow}
    BY TopicPostsAssumption DEF Live, Rows, TopicRow
  <2> QED
    BY <1>1, <2>1, <2>2 DEF LInv, Fine, ReplyIsLocked, Moves, Kind, Live, Recovered, Others
<1>5. DataTyped(r)'
  <2>1. \A c \in DOMAIN Columns(r) : Columns(r)[c] = req[r].number
    BY DEF Columns
  <2> QED
    BY <1>1, <2>1 DEF LInv, Fine, DataTyped, IsNumber, Moves, At
<1>6. "insert_post" \in Pcs \ {"idle"}
  BY DEF Pcs
<1>20. Fits(Kind(r), "insert_post")
  BY <1>1 DEF LInv, Fine, Placed, Moves, Fits, At, AfterPost, Kind
<1> QED
  BY <1>1, <1>2, <1>3, <1>4, <1>5, <1>6, <1>20, GoOnQuietly DEF LInv, Types

LEMMA InsertPostL == ASSUME LInv, IInv', NEW r \in Requests, InsertPost(r) PROVE LInv'
<1> DEFINE to == req'[r].pc
<1>1. /\ Moves(r, "insert_post", to) /\ SameData(r)
      /\ to \in {AfterPost(r), "update_replied"}
      /\ posts' = posts /\ topic' = topic /\ holders' = holders /\ owner' = owner
  <2> DEFINE x == [req[r] EXCEPT !.result = "not_unique", !.pc = AfterPost(r)]
             y == [req[r] EXCEPT !.todo = Replied(r), !.pc = "update_replied"]
  <2>1. /\ x.op = req[r].op /\ x.pc = AfterPost(r) /\ x.number = req[r].number
        /\ x.cols = req[r].cols /\ x.whisper = req[r].whisper
    BY DEF LInv, IInv, Shape, IsRequest, Fields
  <2>2. /\ y.op = req[r].op /\ y.pc = "update_replied" /\ y.number = req[r].number
        /\ y.cols = req[r].cols /\ y.whisper = req[r].whisper
    BY DEF LInv, IInv, Shape, IsRequest, Fields
  <2>3. req' = [req EXCEPT ![r] = x] \/ req' = [req EXCEPT ![r] = y]
    BY DEF InsertPost, LInv, IInv, Shape
  <2> HIDE DEF x, y
  <2> QED
    BY <2>1, <2>2, <2>3 DEF InsertPost, LInv, IInv, Shape, At, Moves, Others, mutexVars, SameData
<1>2. /\ to \in Pcs \ {"idle"}
      /\ to \in InTransaction \/ (Kind(r) = "close" /\ to = "release_mutex")
      /\ Kind(r) = "close" \/ to \in {"update_replied", "commit"}
  BY <1>1 DEF AfterPost, Pcs, InTransaction
<1>3. RowsInTransaction(r)' /\ TopicRowIsLast(r)'
  BY <1>1, <1>2 DEF RowsInTransaction, TopicRowIsLast, Moves, SameData, Kind
<1>4. ReplyIsLocked(r)'
  BY <1>1 DEF LInv, Fine, ReplyIsLocked, Moves, SameData, Kind, Live, Recovered, Others
<1>5. DataTyped(r)'
  BY <1>1 DEF LInv, Fine, DataTyped, IsNumber, Moves, SameData, At, AfterPost
<1>20. Fits(Kind(r), to)
  BY <1>1 DEF LInv, Fine, Placed, Moves, Fits, At, AfterPost, Kind
<1> HIDE DEF to
<1> QED
  BY <1>1, <1>2, <1>3, <1>4, <1>5, <1>20, GoOnQuietly DEF RowStep, SameData, LInv, Types

LEMMA UpdateRepliedL == ASSUME LInv, IInv', NEW r \in Requests, UpdateReplied(r) PROVE LInv'
<1> DEFINE to == req'[r].pc
<1>1. /\ Moves(r, "update_replied", to) /\ SameData(r)
      /\ to \in {AfterPost(r), "update_replied"}
      /\ posts' = posts /\ topic' = topic /\ holders' = holders
  <2>1. CASE Go(r, AfterPost(r))
    BY <2>1, GoMoves DEF UpdateReplied, LInv, mutexVars, Moves
  <2>2. CASE req' = [req EXCEPT ![r].todo = Tail(@),
                                ![r].linked = @ \cup ({Head(req[r].todo)} \cap Live)]
    <3> DEFINE x == [req[r] EXCEPT !.todo = Tail(@),
                                   !.linked = @ \cup ({Head(req[r].todo)} \cap Live)]
    <3>1. /\ x.op = req[r].op /\ x.pc = req[r].pc /\ x.number = req[r].number
          /\ x.cols = req[r].cols /\ x.whisper = req[r].whisper
      BY DEF LInv, IInv, Shape, IsRequest, Fields
    <3>2. req' = [req EXCEPT ![r] = x]
      BY <2>2
    <3> HIDE DEF x
    <3> QED
      BY <3>1, <3>2 DEF UpdateReplied, LInv, IInv, Shape, At, Moves, Others, mutexVars, SameData
  <2> QED
    BY <2>1, <2>2 DEF UpdateReplied
<1>2. RowStep(r) /\ (owner' = owner \/ \E row \in Rows : Take(r, row))
  <2>1. NextRow(r) \subseteq Rows
    BY <1>1 DEF NextRow, At, Live, Rows, Moves
  <2> QED
    BY <2>1 DEF UpdateReplied, RowStep
<1>3. /\ to \in Pcs \ {"idle"}
      /\ to \in InTransaction \/ (Kind(r) = "close" /\ to = "release_mutex")
      /\ Kind(r) = "close" \/ to \in {"update_replied", "commit"}
  BY <1>1 DEF AfterPost, Pcs, InTransaction
<1>4. RowsInTransaction(r)' /\ TopicRowIsLast(r)'
  BY <1>1, <1>3 DEF RowsInTransaction, TopicRowIsLast, Moves, SameData, Kind
<1>5. ReplyIsLocked(r)'
  <2>1. \A row \in Rows : owner[row] = r => owner'[row] = r
    BY <1>2, TakeRow DEF LInv, IInv, Shape, Take
  <2>2. \A n \in Live : n \in Rows
    BY DEF Live, Rows
  <2> QED
    BY <1>1, <2>1, <2>2 DEF LInv, Fine, ReplyIsLocked, Moves, SameData, Kind, Live, Recovered, Others
<1>6. DataTyped(r)'
  BY <1>1 DEF LInv, Fine, DataTyped, IsNumber, Moves, SameData, At, AfterPost
<1>20. Fits(Kind(r), to)
  BY <1>1 DEF LInv, Fine, Placed, Moves, Fits, At, AfterPost, Kind
<1> HIDE DEF to
<1> QED
  BY <1>1, <1>2, <1>3, <1>4, <1>5, <1>6, <1>20, GoOnQuietly DEF SameData, LInv, Types

LEMMA ReleaseMutexL == ASSUME LInv, IInv', NEW r \in Requests, ReleaseMutex(r) PROVE LInv'
<1> DEFINE to == IF Kind(r) = "close" THEN "commit" ELSE "done"
<1>1. SameData(r) /\ Moves(r, "release_mutex", to) /\ to \in Pcs \ {"idle"}
  BY GoMoves DEF ReleaseMutex, LInv, Pcs
<1>2. posts' = posts /\ topic' = topic /\ owner' = owner /\ holders' \subseteq Requests
  BY DEF ReleaseMutex, Mutex!Release, mutexVars, LInv, Types
<1>3. RowsInTransaction(r)' /\ TopicRowIsLast(r)'
  BY <1>1, <1>2 DEF LInv, Fine, RowsInTransaction, TopicRowIsLast, Moves, SameData, Kind,
     InTransaction, Rows
<1>4. ReplyIsLocked(r)' /\ DataTyped(r)'
  BY <1>1 DEF LInv, Fine, ReplyIsLocked, DataTyped, Moves, SameData, Kind, At
<1>20. Fits(Kind(r), to)
  BY <1>1 DEF LInv, Fine, Placed, Moves, Fits, At, AfterPost, Kind
<1> HIDE DEF to
<1> QED
  BY <1>1, <1>2, <1>3, <1>4, <1>20, GoOnQuietly DEF RowStep, SameData

LEMMA UpdatePostL == ASSUME LInv, IInv', NEW r \in Requests, UpdatePost(r) PROVE LInv'
<1> DEFINE post == req[r].op.post
           to == IF Kind(r) = "like" THEN "update_topic" ELSE "last_post"
<1>1. SameData(r) /\ Moves(r, "update_post", to)
  BY GoMoves DEF UpdatePost, LInv
<1>2. posts' = posts /\ topic' = topic /\ holders' = holders /\ Take(r, post)
  BY DEF UpdatePost, mutexVars
<1>3. post \in Rows \ {TopicRow} /\ TopicRow \in Rows
  BY <1>1, TopicPostsAssumption DEF LInv, IInv, Good, PostIsThere, UpdatePost, At, Moves,
     Used, Rows, TopicRow
<1>4. owner[TopicRow] # r
  BY <1>1, <1>3 DEF LInv, Fine, RowsInTransaction, InTransaction, Moves
<1>5. owner'[TopicRow] # r
  BY <1>2, <1>3, <1>4 DEF Take, LInv, IInv, Shape
<1>6. RowsInTransaction(r)' /\ TopicRowIsLast(r)' /\ ReplyIsLocked(r)' /\ DataTyped(r)'
  BY <1>1, <1>5 DEF RowsInTransaction, TopicRowIsLast, ReplyIsLocked, DataTyped, Moves, SameData,
     InTransaction, At, LInv, Fine
<1>7. to \in Pcs \ {"idle"} /\ RowStep(r)
  BY <1>2, <1>3 DEF Pcs, RowStep
<1>20. Fits(Kind(r), to)
  BY <1>1 DEF UpdatePost, LInv, Fine, Placed, Moves, Fits, At, AfterPost, Kind
<1> QED
  BY <1>1, <1>2, <1>6, <1>7, <1>20, GoOnQuietly DEF SameData, LInv, Types

LEMMA SelectLastPostL == ASSUME LInv, IInv', NEW r \in Requests, SelectLastPost(r) PROVE LInv'
<1>1. PICK last \in {<<>>, [highest |-> LastPost(r)]} :
         req' = [req EXCEPT ![r].cols = IF LastPost(r) = 0 THEN <<>> ELSE last, ![r].pc = "update_topic"]
  BY DEF SelectLastPost
<1> DEFINE c == IF LastPost(r) = 0 THEN <<>> ELSE last
           x == [req[r] EXCEPT !.cols = c, !.pc = "update_topic"]
<1>2. x.op = req[r].op /\ x.pc = "update_topic" /\ x.number = req[r].number /\ x.cols = c
  BY DEF LInv, IInv, Shape, IsRequest, Fields
<1>3. req' = [req EXCEPT ![r] = x]
  BY <1>1 DEF LInv, IInv, Shape
<1> HIDE DEF x
<1>4. req'[r] = x /\ Others(r)
  BY <1>3 DEF LInv, IInv, Shape, Others
<1>5. IsNumber(LastPost(r))
  <2>1. Regular \ {req[r].op.post} \in SUBSET (1..MaxNumber)
    BY DEF Regular, Live
  <2> QED
    BY <2>1, HighestIsLargest DEF LastPost, IsNumber
<1>6. \A col \in DOMAIN c : IsNumber(c[col])
  BY <1>5
<1> HIDE DEF c
<1>7. Moves(r, "last_post", "update_topic") /\ req'[r].op = req[r].op /\ DataTyped(r)'
  BY <1>2, <1>4, <1>6 DEF SelectLastPost, At, Moves, DataTyped, LInv, Fine
<1>8. Kind(r) = "destroy"
  BY <1>7 DEF LInv, Fine, Placed, Fits, Moves
<1>9. RowsInTransaction(r)' /\ TopicRowIsLast(r)' /\ ReplyIsLocked(r)'
  BY <1>7, <1>8 DEF RowsInTransaction, TopicRowIsLast, ReplyIsLocked, Moves, InTransaction, Kind, LInv, Fine,
     SelectLastPost
<1>10. posts' = posts /\ topic' = topic /\ holders' = holders /\ owner' = owner
  BY DEF SelectLastPost, mutexVars
<1>11. "update_topic" \in Pcs \ {"idle"} /\ RowStep(r) /\ Fits(Kind(r), "update_topic")
  BY <1>8, <1>10 DEF Pcs, RowStep, Fits
<1> QED
  BY <1>7, <1>9, <1>10, <1>11, GoOnQuietly DEF LInv, Types

LEMMA UpdateTopicL == ASSUME LInv, IInv', NEW r \in Requests, UpdateTopic(r) PROVE LInv'
<1> DEFINE to == req'[r].pc
<1>1. /\ Moves(r, "update_topic", to) /\ req'[r].op = req[r].op
      /\ \/ Kind(r) = "like" /\ to = "commit"
         \/ Kind(r) = "close" /\ to = "mutex"
         \/ Kind(r) \notin {"like", "close"} /\ to = "update_replied"
      /\ DataTyped(r)'
  <2>1. CASE Kind(r) \in {"like", "close"}
    <3>1. PICK pc : Go(r, pc) /\ \/ pc = "commit" /\ Kind(r) = "like"
                                 \/ pc = "mutex" /\ Kind(r) = "close"
      BY <2>1 DEF UpdateTopic
    <3>2. SameData(r) /\ Moves(r, "update_topic", pc)
      BY <3>1, GoMoves DEF UpdateTopic, LInv
    <3> QED
      BY <3>1, <3>2 DEF SameData, Moves, DataTyped, LInv, Fine, At
  <2>2. CASE Kind(r) \notin {"like", "close"}
    <3> DEFINE t == SetToSeq(posts[req[r].op.post].parents)
               x == [req[r] EXCEPT !.todo = t, !.pc = "update_replied"]
    <3>1. req' = [req EXCEPT ![r].todo = t, ![r].pc = "update_replied"]
      BY <2>2 DEF UpdateTopic
    <3>2. x.op = req[r].op /\ x.pc = "update_replied" /\ x.number = req[r].number /\ x.cols = req[r].cols
      BY DEF LInv, IInv, Shape, IsRequest, Fields
    <3>3. req' = [req EXCEPT ![r] = x]
      BY <3>1 DEF LInv, IInv, Shape
    <3> HIDE DEF x
    <3>4. req'[r] = x /\ Others(r)
      BY <3>3 DEF LInv, IInv, Shape, Others
    <3> QED
      BY <2>2, <3>2, <3>4 DEF UpdateTopic, At, Moves, DataTyped, LInv, Fine
  <2> QED
    BY <2>1, <2>2
<1>2. posts' = posts /\ topic' = topic /\ holders' = holders /\ Take(r, TopicRow)
  BY DEF UpdateTopic, mutexVars
<1>3. to \in Pcs \ {"idle"} /\ RowStep(r)
  BY <1>1, <1>2 DEF Pcs, RowStep, Rows
<1>4. RowsInTransaction(r)' /\ TopicRowIsLast(r)'
  BY <1>1 DEF RowsInTransaction, TopicRowIsLast, Moves, InTransaction, Kind
<1>5. ReplyIsLocked(r)'
  BY <1>1 DEF LInv, IInv, Good, RepliesDoNotTouch, ReplyIsLocked, Moves, At, Kind
<1>20. Fits(Kind(r), to)
  BY <1>1 DEF LInv, Fine, Placed, Moves, Fits, At, AfterPost, Kind
<1> HIDE DEF to
<1> QED
  BY <1>1, <1>2, <1>3, <1>4, <1>5, <1>20, GoOnQuietly DEF LInv, Types

LEMMA ResetHighestL == ASSUME LInv, IInv', NEW r \in Requests, ResetHighest(r) PROVE LInv'
<1>1. /\ Moves(r, "reset_highest", "write_counters") /\ req'[r].op = req[r].op
      /\ req'[r].number = req[r].number /\ req'[r].cols = Counters
      /\ posts' = posts /\ topic' = topic /\ holders' = holders /\ owner' = owner
  <2> DEFINE x == [req[r] EXCEPT !.cols = Counters, !.pc = "write_counters"]
  <2>1. x.op = req[r].op /\ x.pc = "write_counters" /\ x.number = req[r].number /\ x.cols = Counters
    BY DEF LInv, IInv, Shape, IsRequest, Fields
  <2>2. req' = [req EXCEPT ![r] = x]
    BY DEF ResetHighest, LInv, IInv, Shape
  <2> HIDE DEF x
  <2> QED
    BY <2>1, <2>2 DEF ResetHighest, LInv, IInv, Shape, At, Moves, Others, mutexVars
<1>2. \A row \in Rows : owner[row] # r
  BY <1>1 DEF LInv, Fine, RowsInTransaction, InTransaction, Moves
<1>3. RowsInTransaction(r)' /\ TopicRowIsLast(r)' /\ ReplyIsLocked(r)'
  BY <1>1, <1>2 DEF RowsInTransaction, TopicRowIsLast, ReplyIsLocked, Moves, Rows
<1>4. DataTyped(r)'
  <2>1. IsRow(Counters) /\ \A c \in DOMAIN Counters : IsNumber(Counters[c])
    BY CountersAreNumbers DEF IsRow, IsNumber
  <2> QED
    BY <1>1, <2>1 DEF DataTyped, LInv, Fine
<1>5. "write_counters" \in Pcs \ {"idle"}
  BY DEF Pcs
<1>20. Fits(Kind(r), "write_counters")
  BY <1>1 DEF LInv, Fine, Placed, Moves, Fits, At, AfterPost, Kind
<1> QED
  BY <1>1, <1>3, <1>4, <1>5, <1>20, GoOnQuietly DEF RowStep, LInv, Types

\* A transaction ends, its rows are nobody's.
LEMMA NoRowsLeft ==
    ASSUME NEW r \in Requests, FreeRows(r)
    PROVE  \A row \in Rows : owner'[row] # r
BY TopicPostsAssumption DEF FreeRows

LEMMA AbortL ==
    ASSUME LInv, IInv', NEW r \in Requests, DeadlockVictim(r) \/ Kill(r)
    PROVE  LInv'
<1> DEFINE to == req'[r].pc
<1>1. /\ ~At(r, "idle") /\ posts' = posts /\ topic' = topic /\ FreeRows(r)
      /\ holders' \subseteq Requests
  <2>1. At(r, "idle") => NextRow(r) = {}
    BY DEF NextRow, At
  <2> QED
    BY <2>1 DEF DeadlockVictim, Kill, WaitsForRowOf, At, Mutex!Abandon, mutexVars, LInv, Types
<1>2. /\ req'[r].op = req[r].op /\ req'[r].number = req[r].number /\ req'[r].cols = req[r].cols
      /\ to \in {"release_mutex", "done"} /\ Others(r)
  <2>1. PICK result, pc :
           /\ pc \in {"release_mutex", "done"}
           /\ req' = [req EXCEPT ![r] = [req[r] EXCEPT !.result = result, !.pc = pc]]
    <3>1. CASE Kill(r)
      <4>1. req' = [req EXCEPT ![r] = [req[r] EXCEPT !.result = "killed", !.pc = "done"]]
        BY <3>1 DEF Kill
      <4> QED
        BY <4>1
    <3>2. CASE DeadlockVictim(r)
      <4> DEFINE pc == IF r \in holders THEN "release_mutex" ELSE "done"
      <4>1. req' = [req EXCEPT ![r] = [req[r] EXCEPT !.result = "deadlock", !.pc = pc]]
        BY <3>2 DEF DeadlockVictim
      <4>2. pc \in {"release_mutex", "done"}
        OBVIOUS
      <4> HIDE DEF pc
      <4> QED
        BY <4>1, <4>2
    <3> QED
      BY <3>1, <3>2
  <2> DEFINE x == [req[r] EXCEPT !.result = result, !.pc = pc]
  <2>2. x.op = req[r].op /\ x.pc = pc /\ x.number = req[r].number /\ x.cols = req[r].cols
    BY DEF LInv, IInv, Shape, IsRequest, Fields
  <2>3. req' = [req EXCEPT ![r] = x]
    BY <2>1 DEF LInv, IInv, Shape
  <2> HIDE DEF x
  <2> QED
    BY <2>1, <2>2, <2>3 DEF LInv, IInv, Shape, Others
<1>3. to \in Pcs \ {"idle"} /\ Moves(r, req[r].pc, to) /\ RowStep(r) /\ req[r].pc # "idle"
  BY <1>1, <1>2 DEF Pcs, Moves, RowStep, At
<1>4. RowsInTransaction(r)' /\ TopicRowIsLast(r)' /\ ReplyIsLocked(r)'
  BY <1>1, <1>2, NoRowsLeft DEF RowsInTransaction, TopicRowIsLast, ReplyIsLocked, Rows
<1>5. DataTyped(r)'
  BY <1>2 DEF LInv, Fine, DataTyped, At
<1>20. Fits(Kind(r), to)
  BY <1>1, <1>2 DEF LInv, Fine, Placed, Moves, Fits, At, AfterPost, Kind
<1> HIDE DEF to
<1> QED
  BY <1>1, <1>2, <1>3, <1>4, <1>5, <1>20, GoOnQuietly

-----------------------------------------------------------------------------
(* The steps that write the tables *)

LEMMA WriteCountersL == ASSUME LInv, IInv', NEW r \in Requests, WriteCounters(r) PROVE LInv'
<1>1. SameData(r) /\ Moves(r, "write_counters", "done")
  BY GoMoves DEF WriteCounters, LInv
<1>2. posts' = posts /\ topic' = req[r].cols /\ owner' = owner /\ holders' = holders
  BY DEF WriteCounters, mutexVars
<1>3. Used' = Used /\ Live' = Live
  BY <1>2 DEF Used, Live
<1>4. \A row \in Rows : owner[row] # r
  BY <1>1 DEF LInv, Fine, RowsInTransaction, InTransaction, Moves
<1>5. RowsInTransaction(r)' /\ TopicRowIsLast(r)' /\ ReplyIsLocked(r)' /\ ReplyIsThere(r)'
  BY <1>1, <1>2, <1>3, <1>4 DEF RowsInTransaction, TopicRowIsLast, ReplyIsLocked, ReplyIsThere,
     Moves, Rows, SameData, Kind, LInv, Fine
<1>6. Placed(r)' /\ DataTyped(r)'
  BY <1>1 DEF LInv, Fine, Placed, Fits, DataTyped, Pcs, Moves, SameData, Kind, At
<1>7. IsRow(topic)'
  BY <1>1, <1>2 DEF LInv, Fine, DataTyped, Moves, At, IsRow
<1>8. \A q \in Requests \ {r} : Fine(q)'
  BY <1>1, <1>2, <1>3, OthersFine DEF RowStep, Moves, SameData
<1> QED
  BY <1>2, <1>5, <1>6, <1>7, <1>8 DEF LInv, Fine, Types

LEMMA RecoverPostL == ASSUME LInv, IInv', NEW r \in Requests, RecoverPost(r) PROVE LInv'
<1> DEFINE n == req[r].op.post
<1>1. /\ SameData(r) /\ Moves(r, "update_post", "reset_highest") /\ Recovered(n)
      /\ Kind(r) = "recover"
  BY GoMoves DEF RecoverPost, LInv, Recovered
<1>2. topic' = topic /\ owner' = owner /\ holders' = holders
  BY DEF RecoverPost, mutexVars
<1>3. n \in Used /\ \A m \in 1..MaxNumber : posts'[m].state = IF m = n THEN "live" ELSE posts[m].state
  <2>1. n \in Used /\ posts' = [posts EXCEPT ![n] = [posts[n] EXCEPT !.state = "live"]]
    BY RecoveredPost DEF LInv
  <2>2. posts' = [m \in 1..MaxNumber |-> IF m = n THEN [posts[n] EXCEPT !.state = "live"] ELSE posts[m]]
    BY <2>1 DEF LInv, IInv, Shape
  <2> HIDE DEF n
  <2>3. [posts[n] EXCEPT !.state = "live"].state = "live"
    <3>1. IsPost(posts[n])
      BY <2>1 DEF LInv, IInv, Shape, Used
    <3> QED
      BY <3>1 DEF IsPost, PostColumns
  <2> QED
    BY <2>1, <2>2, <2>3
<1>4. Used' = Used /\ Live' = Live \cup {n}
  BY <1>3 DEF Used, Live
<1>5. \A row \in Rows : owner[row] # r
  BY <1>1 DEF LInv, Fine, RowsInTransaction, InTransaction, Moves
<1>6. RowsInTransaction(r)' /\ TopicRowIsLast(r)' /\ ReplyIsLocked(r)' /\ ReplyIsThere(r)'
  BY <1>1, <1>2, <1>4, <1>5 DEF RowsInTransaction, TopicRowIsLast, ReplyIsLocked, ReplyIsThere,
     Moves, Rows, SameData, Kind, LInv, Fine
<1>7. Placed(r)' /\ DataTyped(r)'
  BY <1>1 DEF LInv, Fine, Placed, Fits, DataTyped, Pcs, Moves, SameData, Kind, At
<1> HIDE DEF n
<1>8. \A q \in Requests \ {r} : Fine(q)'
  BY <1>1, <1>2, <1>4, OthersFine DEF RowStep, Moves, SameData
<1> QED
  BY <1>2, <1>3, <1>6, <1>7, <1>8 DEF LInv, Fine, Types

\* COMMIT of a creation: a post appears under a number nobody used.
LEMMA CommitOfCreation ==
    ASSUME LInv, NEW r \in Requests, EndTransaction(r), Creates(r)
    PROVE  /\ req[r].number \in 1..MaxNumber \ Used
           /\ req[r].number = Highest(Used) + 1
           /\ posts' = [posts EXCEPT ![req[r].number] =
                           [state |-> "live", whisper |-> req[r].whisper,
                            parents |-> req[r].linked]]
<1>1. /\ req[r].number = Highest(Used) + 1
      /\ posts' = [posts EXCEPT ![req[r].number] =
                      [state |-> "live", whisper |-> req[r].whisper, parents |-> req[r].linked]]
  BY CommitCreation DEF LInv
<1>2. req[r].number \notin Used
  BY DEF LInv, IInv, Good, RowIsLocked, Inserted, EndTransaction, At
<1>3. Highest(Used) \in 0..MaxNumber /\ req[r].number \in 0..MaxNumber
  BY HighestIsLargest DEF Used, LInv, Fine, DataTyped, IsNumber
<1> QED
  BY <1>1, <1>2, <1>3, TopicPostsAssumption

\* What a commit does to the states of posts.
LEMMA CommitPosts ==
    ASSUME LInv, NEW r \in Requests, EndTransaction(r)
    PROVE  /\ Used \subseteq Used'
           /\ \A n \in Live' : n \in Live \/ n \notin Used
           /\ \A n \in 1..MaxNumber : posts'[n].state \in {"none", "live", "trashed"}
<1>1. CASE Creates(r)
  <2> DEFINE x == [state |-> "live", whisper |-> req[r].whisper, parents |-> req[r].linked]
             n == req[r].number
  <2>1. n \in 1..MaxNumber \ Used /\ posts' = [posts EXCEPT ![n] = x] /\ x.state = "live"
    BY <1>1, CommitOfCreation
  <2> HIDE DEF x, n
  <2>2. \A m \in 1..MaxNumber : posts'[m] = IF m = n THEN x ELSE posts[m]
    BY <2>1 DEF LInv, IInv, Shape
  <2> QED
    BY <2>1, <2>2 DEF Used, Live, LInv, Types
<1>2. CASE posts' = posts
  BY <1>2 DEF Used, Live, LInv, Types
<1>3. CASE ~Creates(r) /\ posts' # posts
  <2> DEFINE n == req[r].op.post
             x == [posts[n] EXCEPT !.state = "trashed", !.parents = {}]
  <2>1. n \in Used /\ posts' = [posts EXCEPT ![n] = x]
    BY <1>3, CommitOther DEF LInv
  <2>2. x.state = "trashed"
    BY <2>1 DEF LInv, IInv, Shape, IsPost, PostColumns, Used
  <2> HIDE DEF x, n
  <2>3. \A m \in 1..MaxNumber : posts'[m] = IF m = n THEN x ELSE posts[m]
    BY <2>1 DEF LInv, IInv, Shape
  <2> QED
    BY <2>1, <2>2, <2>3 DEF Used, Live, LInv, Types
<1> QED
  BY <1>1, <1>2, <1>3

\* Only the commit of a creation uses a number.
LEMMA CommitUsed ==
    ASSUME LInv, NEW r \in Requests, EndTransaction(r), ~Creates(r)
    PROVE  Used' = Used
<1>1. CASE posts' = posts
  BY <1>1 DEF Used
<1>2. CASE posts' # posts
  <2> DEFINE n == req[r].op.post
             x == [posts[n] EXCEPT !.state = "trashed", !.parents = {}]
  <2>1. n \in Used /\ posts' = [posts EXCEPT ![n] = x]
    BY <1>2, CommitOther DEF LInv
  <2>2. x.state = "trashed"
    BY <2>1 DEF LInv, IInv, Shape, IsPost, PostColumns, Used
  <2> HIDE DEF x, n
  <2>3. \A m \in 1..MaxNumber : posts'[m] = IF m = n THEN x ELSE posts[m]
    BY <2>1 DEF LInv, IInv, Shape
  <2> QED
    BY <2>1, <2>2, <2>3 DEF Used
<1> QED
  BY <1>1, <1>2

LEMMA EndTransactionL == ASSUME LInv, IInv', NEW r \in Requests, EndTransaction(r) PROVE LInv'
<1> DEFINE to == AfterCommit(r)
<1>1. /\ SameData(r) /\ Moves(r, "commit", to) /\ to \in {"release_mutex", "reset_highest", "done"}
      /\ to = "reset_highest" => Kind(r) = "destroy"
  BY GoMoves DEF EndTransaction, LInv, AfterCommit
<1>2. FreeRows(r) /\ holders' = holders
  BY DEF EndTransaction, mutexVars
<1>3. IsRow(topic)'
  <2>1. CASE topic' = topic
    BY <2>1 DEF LInv, Types, IsRow
  <2>2. CASE topic' = Overwrite(topic, req[r].cols)
    <3>1. \A c \in DOMAIN req[r].cols : req[r].cols[c] \in 0..MaxNumber
      BY DEF LInv, Fine, DataTyped, IsNumber
    <3> QED
      BY <2>2, <3>1 DEF Overwrite, LInv, Types, IsRow
  <2> QED
    BY <2>1, <2>2 DEF EndTransaction
<1>4. /\ Used \subseteq Used'
      /\ \A n \in Live' : n \in Live \/ n \notin Used
      /\ \A n \in 1..MaxNumber : posts'[n].state \in {"none", "live", "trashed"}
  BY CommitPosts
<1> HIDE DEF to
<1>5. RowsInTransaction(r)' /\ TopicRowIsLast(r)' /\ ReplyIsLocked(r)' /\ ReplyIsThere(r)'
  BY <1>1, <1>2, <1>4, NoRowsLeft DEF RowsInTransaction, TopicRowIsLast, ReplyIsLocked, ReplyIsThere,
     Moves, Rows, SameData, Kind, LInv, Fine
<1>6. Placed(r)' /\ DataTyped(r)'
  BY <1>1 DEF LInv, Fine, Placed, Fits, DataTyped, Pcs, Moves, SameData, Kind, At
<1>7. \A q \in Requests \ {r} : Fine(q)'
  BY <1>1, <1>2, <1>4, OthersFine DEF RowStep, Moves, SameData
<1> QED
  BY <1>2, <1>3, <1>4, <1>5, <1>6, <1>7, RowsOfOthers DEF RowStep, LInv, Fine, Types

\* Time, and steps of nothing
LEMMA TickL == ASSUME LInv, UNCHANGED <<posts, topic, owner, req>>, holders' \subseteq Requests PROVE LInv'
<1>1. Used' = Used /\ Live' = Live /\ IInv'
  BY StutterIInv DEF Used, Live, LInv
<1>2. ASSUME NEW n PROVE Recovered(n)' <=> Recovered(n)
  BY DEF Recovered, Kind
<1>3. ASSUME NEW r \in Requests PROVE Fine(r)'
  <2>1. Fine(r)
    BY DEF LInv
  <2>2. Placed(r)' /\ RowsInTransaction(r)' /\ TopicRowIsLast(r)' /\ ReplyIsThere(r)' /\ DataTyped(r)'
    BY <1>1, <2>1 DEF Fine, Placed, RowsInTransaction, TopicRowIsLast, ReplyIsThere, DataTyped, At, Kind
  <2>3. ReplyIsLocked(r)'
    BY <1>1, <1>2, <2>1 DEF Fine, ReplyIsLocked, Kind
  <2> QED
    BY <2>2, <2>3 DEF Fine
<1>4. Types'
  BY DEF LInv, Types
<1> QED
  BY <1>1, <1>3, <1>4 DEF LInv

LEMMA NextLInv == LInv /\ [Next]_vars => LInv'
<1> SUFFICES ASSUME LInv, [Next]_vars PROVE LInv'
  OBVIOUS
<1>0. IInv'
  BY NextIInv DEF LInv
<1>1. CASE UNCHANGED vars
  BY <1>1, TickL DEF vars, mutexVars, LInv, Types
<1>2. CASE Tick
  BY <1>2, TickL DEF Tick, Mutex!Tick, LInv, Types
<1>3. ASSUME NEW r \in Requests, Step(r) PROVE LInv'
  BY <1>0, <1>3, LockMutexL, LockReplyToL, SelectMaxL, NextPostNumberL, InsertPostL,
     UpdateRepliedL, ReleaseMutexL, UpdatePostL, SelectLastPostL, UpdateTopicL, RecoverPostL,
     ResetHighestL, WriteCountersL, EndTransactionL DEF Step
<1>4. ASSUME NEW r \in Requests, Start(r) \/ DeadlockVictim(r) \/ Kill(r) PROVE LInv'
  BY <1>0, <1>4, StartL, AbortL
<1> QED
  BY <1>1, <1>2, <1>3, <1>4 DEF Next

LEMMA SpecLInv == Spec => []LInv
BY InitLInv, NextLInv, PTL DEF Spec

-----------------------------------------------------------------------------
(* Types, and circles of row locks *)

LEMMA KeepsOverran ==
    ASSUME NEW r, Start(r) \/ Step(r) \/ DeadlockVictim(r) \/ Kill(r)
    PROVE  overran' = overran
BY DEF Step, Start, LockMutex, LockReplyTo, SelectMax, NextPostNumber, InsertPost, UpdateReplied,
   ReleaseMutex, UpdatePost, SelectLastPost, UpdateTopic, RecoverPost, ResetHighest, WriteCounters,
   EndTransaction, DeadlockVictim, Kill

\* The types of the tables, the rows and the requests; a row is locked only by
\* a request that is at work.
THEOREM PostsTypeCorrect == Spec => []TypeOK
<1> DEFINE B == overran \in BOOLEAN
<1>1. LInv /\ B => TypeOK
  BY DEF LInv, Types, Fine, Placed, RowsInTransaction, InTransaction, TypeOK, IsRow
<1>2. Init => B
  BY DEF Init
<1>3. B /\ [Next]_vars => B'
  BY KeepsOverran DEF Next, Tick, vars
<1> QED
  BY <1>1, <1>2, <1>3, SpecLInv, PTL DEF Spec

\* A reply that updates the post it replies to does not wait for it, unless
\* that was recovered since.
LEMMA ReplyDoesNotWait ==
    ASSUME LInv, NEW r \in Requests, At(r, "update_replied"), ~OutOfOrder(r)
    PROVE  WaitsForRowOf(r) = {}
<1>1. /\ Kind(r) = "reply" /\ Head(req[r].todo) = req[r].op.to
      /\ ~Recovered(req[r].op.to)
  BY DEF OutOfOrder
<1>2. NextRow(r) \subseteq {req[r].op.to} \cap Live
  BY <1>1 DEF NextRow, At
<1>3. req[r].op.to \in Live => owner[req[r].op.to] = r
  BY <1>1 DEF LInv, Fine, ReplyIsLocked, At
<1> QED
  BY <1>2, <1>3 DEF WaitsForRowOf

\* A circle of row locks goes through a request that updates another post after
\* it locked the topic: a quoted one, a parent of a deleted reply, or the post
\* it replies to when that was deleted and is recovered (post_creator.rb:311).
THEOREM CirclesNeedQuoteOrDeletion == Spec => []DeadlocksNeedQuoteOrDeletion
<1>1. LInv => DeadlocksNeedQuoteOrDeletion
  <2> SUFFICES ASSUME LInv, NEW S \in SUBSET Requests, S # {},
                      \A r \in S : WaitsForRowOf(r) \cap S # {},
                      \A r \in S : ~OutOfOrder(r)
               PROVE  FALSE
    BY DEF DeadlocksNeedQuoteOrDeletion
  <2>1. \A r \in S : ~At(r, "update_replied")
    BY ReplyDoesNotWait
  \* who waits for the topic waits for somebody who waits for nobody
  <2>2. ASSUME NEW r \in S, NextRow(r) = {TopicRow} PROVE FALSE
    <3>1. PICK q \in S : q = owner[TopicRow] /\ q # r
      BY <2>2 DEF WaitsForRowOf
    <3>2. Fine(q) /\ NextRow(q) # {} /\ WaitsForRowOf(q) # {}
      BY <3>1 DEF LInv, WaitsForRowOf
    <3>3. NextRow(q) # {TopicRow}
      BY <3>1, <3>2 DEF WaitsForRowOf
    <3>4. At(q, "lock_reply_to") \/ At(q, "update_post")
      BY <2>1, <3>1, <3>2, <3>3 DEF NextRow, At
    <3> QED
      BY <3>1, <3>2, <3>4 DEF Fine, RowsInTransaction, InTransaction, Rows, At
  <2>3. PICK r \in S : TRUE
    OBVIOUS
  \* and everybody else waits before having a row
  <2>4. PICK q \in S, row \in NextRow(r) : q = owner[row] /\ q # r
    BY DEF WaitsForRowOf
  <2>5. At(q, "lock_reply_to") \/ At(q, "update_post")
    <3>1. NextRow(q) # {} /\ NextRow(q) # {TopicRow}
      BY <2>2 DEF WaitsForRowOf
    <3> QED
      BY <2>1, <3>1 DEF NextRow, At
  <2>6. row \in Rows
    <3>1. At(r, "update_post") => req[r].op.post \in Used
      <4>1. Good(r) /\ Fine(r)
        BY DEF LInv, IInv
      <4> QED
        BY <4>1, <2>4 DEF Good, PostIsThere, Fine, Placed, Fits, At, Kinds
    <3> QED
      BY <2>1, <2>2, <2>4, <3>1 DEF NextRow, At, Live, Used, Rows
  <2> QED
    BY <2>4, <2>5, <2>6 DEF LInv, Fine, RowsInTransaction, InTransaction, At
<1> QED
  BY <1>1, SpecLInv, PTL

-----------------------------------------------------------------------------
(* What each step writes in the request's own record *)

\* All but the place where the request is
Carries(r) == SameData(r) /\ req'[r].result = req[r].result

LEMMA OneRecord ==
    ASSUME LInv, NEW r \in Requests, NEW x, req' = [req EXCEPT ![r] = x]
    PROVE  req'[r] = x /\ Others(r)
BY DEF LInv, IInv, Shape, Others

LEMMA StartWrites ==
    ASSUME LInv, NEW r \in Requests, Start(r)
    PROVE  /\ At(r, "idle") /\ Others(r) /\ req'[r].op \in Ops /\ req'[r].result = "none"
           /\ req'[r].pc = FirstStep(req'[r].op.kind) /\ req'[r].cols = <<>>
<1>1. PICK o \in Ops :
         req' = [req EXCEPT ![r] = [Idle EXCEPT !.op = o, !.pc = FirstStep(o.kind),
                                      !.whisper = (o.kind = "reply" /\ o.whisper)]]
  BY DEF Start
<1> DEFINE x == [Idle EXCEPT !.op = o, !.pc = FirstStep(o.kind),
                             !.whisper = (o.kind = "reply" /\ o.whisper)]
<1>2. x.op = o /\ x.result = "none" /\ x.pc = FirstStep(o.kind) /\ x.cols = <<>>
  BY DEF Idle
<1>3. req' = [req EXCEPT ![r] = x]
  BY <1>1
<1> HIDE DEF x
<1> QED
  BY <1>2, <1>3, OneRecord DEF Start

LEMMA LockReplyToWrites ==
    ASSUME LInv, NEW r \in Requests, LockReplyTo(r)
    PROVE  /\ Moves(r, "lock_reply_to", "select_max")
           /\ req'[r].op = req[r].op /\ req'[r].result = req[r].result
<1>1. CASE Go(r, "select_max")
  BY <1>1, GoMoves DEF LockReplyTo, LInv, SameData
<1>2. CASE req' = [req EXCEPT ![r].pc = "select_max",
                              ![r].whisper = @ \/ posts[req[r].op.to].whisper]
  <2> DEFINE x == [req[r] EXCEPT !.pc = "select_max",
                                 !.whisper = @ \/ posts[req[r].op.to].whisper]
  <2>1. x.op = req[r].op /\ x.result = req[r].result /\ x.pc = "select_max"
    BY DEF LInv, IInv, Shape, IsRequest, Fields
  <2>2. req' = [req EXCEPT ![r] = x]
    BY <1>2
  <2> HIDE DEF x
  <2> QED
    BY <2>1, <2>2, OneRecord DEF LockReplyTo, Moves, At
<1> QED
  BY <1>1, <1>2 DEF LockReplyTo

LEMMA SelectMaxWrites ==
    ASSUME LInv, NEW r \in Requests, SelectMax(r)
    PROVE  /\ Moves(r, "select_max", "next_post_number")
           /\ req'[r].op = req[r].op /\ req'[r].result = req[r].result
           /\ req'[r].number = Highest(Used) + 1
<1> DEFINE x == [req[r] EXCEPT !.number = Following(MaxPostNumber), !.pc = "next_post_number"]
<1>1. /\ x.op = req[r].op /\ x.result = req[r].result /\ x.pc = "next_post_number"
      /\ x.number = Highest(Used) + 1
  BY DEF LInv, IInv, Shape, IsRequest, Fields, Following, MaxPostNumber
<1>2. req' = [req EXCEPT ![r] = x]
  BY DEF SelectMax, LInv, IInv, Shape
<1> HIDE DEF x
<1> QED
  BY <1>1, <1>2, OneRecord DEF SelectMax, Moves, At

LEMMA NextPostNumberWrites ==
    ASSUME LInv, NEW r \in Requests, NextPostNumber(r)
    PROVE  /\ Moves(r, "next_post_number", "insert_post")
           /\ req'[r].op = req[r].op /\ req'[r].result = req[r].result
           /\ req'[r].number = req[r].number /\ req'[r].whisper = req[r].whisper
           /\ req'[r].cols = Columns(r)
<1> DEFINE x == [req[r] EXCEPT !.cols = Columns(r), !.pc = "insert_post"]
<1>1. /\ x.op = req[r].op /\ x.result = req[r].result /\ x.pc = "insert_post"
      /\ x.number = req[r].number /\ x.whisper = req[r].whisper /\ x.cols = Columns(r)
  BY DEF LInv, IInv, Shape, IsRequest, Fields
<1>2. req' = [req EXCEPT ![r] = x]
  BY DEF NextPostNumber, LInv, IInv, Shape
<1> HIDE DEF x
<1> QED
  BY <1>1, <1>2, OneRecord DEF NextPostNumber, Moves, At

LEMMA InsertPostWrites ==
    ASSUME LInv, NEW r \in Requests, InsertPost(r)
    PROVE  /\ SameData(r) /\ Moves(r, "insert_post", req'[r].pc)
           /\ \/ req[r].number \in Used /\ req'[r].result = "not_unique" /\ req'[r].pc = AfterPost(r)
              \/ req'[r].result = req[r].result /\ req'[r].pc = "update_replied"
<1> DEFINE x == [req[r] EXCEPT !.result = "not_unique", !.pc = AfterPost(r)]
           y == [req[r] EXCEPT !.todo = Replied(r), !.pc = "update_replied"]
<1>1. /\ x.op = req[r].op /\ x.pc = AfterPost(r) /\ x.cols = req[r].cols
      /\ x.number = req[r].number /\ x.whisper = req[r].whisper /\ x.result = "not_unique"
  BY DEF LInv, IInv, Shape, IsRequest, Fields
<1>2. /\ y.op = req[r].op /\ y.pc = "update_replied" /\ y.cols = req[r].cols
      /\ y.number = req[r].number /\ y.whisper = req[r].whisper /\ y.result = req[r].result
  BY DEF LInv, IInv, Shape, IsRequest, Fields
<1>3. \/ req[r].number \in Used /\ req' = [req EXCEPT ![r] = x]
      \/ req' = [req EXCEPT ![r] = y]
  BY DEF InsertPost, LInv, IInv, Shape
<1> HIDE DEF x, y
<1> QED
  BY <1>1, <1>2, <1>3, OneRecord DEF InsertPost, Moves, SameData, At

LEMMA UpdateRepliedWrites ==
    ASSUME LInv, NEW r \in Requests, UpdateReplied(r)
    PROVE  /\ Carries(r) /\ Moves(r, "update_replied", req'[r].pc)
           /\ req'[r].pc \in {"update_replied", AfterPost(r)}
<1>1. CASE Go(r, AfterPost(r))
  BY <1>1, GoMoves DEF UpdateReplied, LInv, Carries, Moves
<1>2. CASE req' = [req EXCEPT ![r].todo = Tail(@),
                              ![r].linked = @ \cup ({Head(req[r].todo)} \cap Live)]
  <2> DEFINE x == [req[r] EXCEPT !.todo = Tail(@),
                                 !.linked = @ \cup ({Head(req[r].todo)} \cap Live)]
  <2>1. /\ x.op = req[r].op /\ x.pc = req[r].pc /\ x.cols = req[r].cols
        /\ x.number = req[r].number /\ x.whisper = req[r].whisper /\ x.result = req[r].result
    BY DEF LInv, IInv, Shape, IsRequest, Fields
  <2>2. req' = [req EXCEPT ![r] = x]
    BY <1>2
  <2> HIDE DEF x
  <2> QED
    BY <2>1, <2>2, OneRecord DEF UpdateReplied, Carries, SameData, Moves, At
<1> QED
  BY <1>1, <1>2 DEF UpdateReplied

LEMMA SelectLastPostWrites ==
    ASSUME LInv, NEW r \in Requests, SelectLastPost(r)
    PROVE  /\ Moves(r, "last_post", "update_topic") /\ Kind(r) = "destroy"
           /\ req'[r].op = req[r].op /\ req'[r].result = req[r].result
<1>1. PICK c : req' = [req EXCEPT ![r].cols = c, ![r].pc = "update_topic"]
  BY DEF SelectLastPost
<1> DEFINE x == [req[r] EXCEPT !.cols = c, !.pc = "update_topic"]
<1>2. x.op = req[r].op /\ x.pc = "update_topic" /\ x.result = req[r].result
  BY DEF LInv, IInv, Shape, IsRequest, Fields
<1>3. req' = [req EXCEPT ![r] = x]
  BY <1>1 DEF LInv, IInv, Shape
<1> HIDE DEF x
<1> QED
  BY <1>2, <1>3, OneRecord DEF SelectLastPost, Moves, At, LInv, Fine, Placed, Fits

LEMMA UpdateTopicWrites ==
    ASSUME LInv, NEW r \in Requests, UpdateTopic(r)
    PROVE  /\ Moves(r, "update_topic", req'[r].pc)
           /\ req'[r].op = req[r].op /\ req'[r].result = req[r].result
           /\ \/ Kind(r) = "like" /\ req'[r].pc = "commit" /\ Carries(r)
              \/ Kind(r) = "close" /\ req'[r].pc = "mutex" /\ Carries(r)
              \/ Kind(r) = "destroy" /\ req'[r].pc = "update_replied"
<1>1. Kind(r) \in {"like", "close", "destroy"}
  BY DEF LInv, Fine, Placed, Fits, UpdateTopic, At
<1>2. CASE Kind(r) \in {"like", "close"}
  <2>1. PICK pc : Go(r, pc) /\ \/ pc = "commit" /\ Kind(r) = "like"
                               \/ pc = "mutex" /\ Kind(r) = "close"
    BY <1>2 DEF UpdateTopic
  <2> QED
    BY <2>1, GoMoves DEF UpdateTopic, LInv, Carries, SameData, Moves
<1>3. CASE Kind(r) = "destroy"
  <2> DEFINE t == SetToSeq(posts[req[r].op.post].parents)
             x == [req[r] EXCEPT !.todo = t, !.pc = "update_replied"]
  <2>1. req' = [req EXCEPT ![r].todo = t, ![r].pc = "update_replied"]
    BY <1>3 DEF UpdateTopic
  <2>2. x.op = req[r].op /\ x.pc = "update_replied" /\ x.result = req[r].result
    BY DEF LInv, IInv, Shape, IsRequest, Fields
  <2>3. req' = [req EXCEPT ![r] = x]
    BY <2>1 DEF LInv, IInv, Shape
  <2> HIDE DEF x
  <2> QED
    BY <1>3, <2>2, <2>3, OneRecord DEF UpdateTopic, Moves, At
<1> QED
  BY <1>1, <1>2, <1>3

LEMMA ResetHighestWrites ==
    ASSUME LInv, NEW r \in Requests, ResetHighest(r)
    PROVE  /\ Moves(r, "reset_highest", "write_counters")
           /\ req'[r].op = req[r].op /\ req'[r].result = req[r].result
<1> DEFINE x == [req[r] EXCEPT !.cols = Counters, !.pc = "write_counters"]
<1>1. x.op = req[r].op /\ x.result = req[r].result /\ x.pc = "write_counters"
  BY DEF LInv, IInv, Shape, IsRequest, Fields
<1>2. req' = [req EXCEPT ![r] = x]
  BY DEF ResetHighest, LInv, IInv, Shape
<1> HIDE DEF x
<1> QED
  BY <1>1, <1>2, OneRecord DEF ResetHighest, Moves, At

\* A victim of Postgres gives its lease back, a killed worker cannot.
LEMMA AbortWrites ==
    ASSUME LInv, NEW r \in Requests, DeadlockVictim(r) \/ Kill(r)
    PROVE  /\ ~At(r, "idle") /\ Others(r)
           /\ req'[r].op = req[r].op /\ req'[r].cols = req[r].cols
           /\ req'[r].result \in {"deadlock", "killed"}
           /\ \/ req'[r].pc = "done"
              \/ req'[r].pc = "release_mutex" /\ r \in holders /\ holders' = holders
<1>1. CASE Kill(r)
  <2> DEFINE x == [req[r] EXCEPT !.result = "killed", !.pc = "done"]
  <2>1. x.op = req[r].op /\ x.cols = req[r].cols /\ x.result = "killed" /\ x.pc = "done"
    BY DEF LInv, IInv, Shape, IsRequest, Fields
  <2>2. req' = [req EXCEPT ![r] = x] /\ ~At(r, "idle")
    BY <1>1 DEF Kill, At
  <2> HIDE DEF x
  <2> QED
    BY <2>1, <2>2, OneRecord
<1>2. CASE DeadlockVictim(r)
  <2> DEFINE pc == IF r \in holders THEN "release_mutex" ELSE "done"
             x == [req[r] EXCEPT !.result = "deadlock", !.pc = pc]
  <2>1. x.op = req[r].op /\ x.cols = req[r].cols /\ x.result = "deadlock" /\ x.pc = pc
    BY DEF LInv, IInv, Shape, IsRequest, Fields
  <2>2. req' = [req EXCEPT ![r] = x] /\ holders' = holders
    BY <1>2 DEF DeadlockVictim, mutexVars
  <2>3. ~At(r, "idle")
    BY <1>2 DEF DeadlockVictim, WaitsForRowOf, NextRow, At
  <2> HIDE DEF x
  <2> QED
    BY <2>1, <2>2, <2>3, OneRecord
<1> QED
  BY <1>1, <1>2

-----------------------------------------------------------------------------
(* The counters, while nobody deletes, recovers or resets *)

\* A request that runs reset_highest stays what it is, so there was none
\* before when there is none.
CreationsOnly == \A r \in Requests : Kind(r) \notin {"destroy", "recover", "reset"}

\* A creation that has the row of the topic carries the columns it will write;
\* a like writes none.
ColumnsFollow(r) ==
    /\ Kind(r) = "like" => req[r].cols = <<>>
    /\ (Creates(r) /\ At(r, "insert_post")) \/ Inserted(r) => req[r].cols = Columns(r)

Follow == CreationsOnly => topic = Counters /\ \A r \in Requests : ColumnsFollow(r)

LEMMA CreationsOnlyBefore ==
    ASSUME LInv, NEW r \in Requests, Others(r), At(r, "idle") \/ req'[r].op = req[r].op,
           CreationsOnly'
    PROVE  CreationsOnly
BY DEF LInv, Fine, Placed, CreationsOnly, Others, Kind

\* A step that leaves the tables alone
LEMMA QuietFollow ==
    ASSUME LInv, Follow, NEW r \in Requests, Others(r), At(r, "idle") \/ req'[r].op = req[r].op,
           posts' = posts, topic' = topic, CreationsOnly => ColumnsFollow(r)'
    PROVE  Follow'
<1> SUFFICES ASSUME CreationsOnly' PROVE topic' = Counters' /\ \A q \in Requests : ColumnsFollow(q)'
  BY DEF Follow
<1>1. CreationsOnly
  BY CreationsOnlyBefore
<1>2. Counters' = Counters
  BY DEF Counters, Regular, Live
<1>3. ASSUME NEW q \in Requests \ {r} PROVE ColumnsFollow(q)'
  BY <1>1 DEF Follow, ColumnsFollow, Others, Kind, At, Creates, Inserted, Columns
<1> QED
  BY <1>1, <1>2, <1>3 DEF Follow

\* COMMIT: the post of a creation has the largest number, so its columns are
\* the new maxima.
LEMMA CommitFollow ==
    ASSUME LInv, Follow, NEW r \in Requests, EndTransaction(r)
    PROVE  Follow'
<1> SUFFICES ASSUME CreationsOnly' PROVE topic' = Counters' /\ \A q \in Requests : ColumnsFollow(q)'
  BY DEF Follow
<1>1. Carries(r) /\ Moves(r, "commit", AfterCommit(r)) /\ AfterCommit(r) \in {"release_mutex", "reset_highest", "done"}
  BY GoMoves DEF EndTransaction, LInv, Carries, AfterCommit
<1>2. CreationsOnly
  BY <1>1, CreationsOnlyBefore DEF Carries, SameData, Moves
<1>3. ASSUME NEW q \in Requests \ {r} PROVE ColumnsFollow(q)'
  BY <1>1, <1>2 DEF Follow, ColumnsFollow, Moves, Others, Kind, At, Creates, Inserted, Columns
<1>4. ColumnsFollow(r)'
  <2>1. AfterCommit(r) = "release_mutex" => Kind(r) # "close"
    BY DEF AfterCommit
  <2> QED
    BY <1>1, <1>2, <2>1 DEF Follow, ColumnsFollow, Moves, Carries, SameData, Kind, At, Creates, Inserted
<1>5. topic' = Counters'
  <2>1. CASE Creates(r)
    <3> DEFINE n == req[r].number
               x == [state |-> "live", whisper |-> req[r].whisper, parents |-> req[r].linked]
    <3>1. /\ n \in 1..MaxNumber \ Used /\ n = Highest(Used) + 1
          /\ posts' = [posts EXCEPT ![n] = x]
      BY <2>1, CommitOfCreation
    <3>2. x.state = "live" /\ x.whisper = req[r].whisper
      OBVIOUS
    <3> HIDE DEF x
    <3>3. \A m \in 1..MaxNumber : posts'[m] = IF m = n THEN x ELSE posts[m]
      BY <3>1 DEF LInv, IInv, Shape
    <3>4. /\ Live' = Live \cup {n}
          /\ Regular' = IF req[r].whisper THEN Regular ELSE Regular \cup {n}
      <4>1. Live' = Live \cup {n}
        BY <3>1, <3>2, <3>3 DEF Live
      <4>2. n \notin Live
        BY <3>1 DEF Live, Used
      <4> QED
        BY <3>1, <3>2, <3>3, <4>1, <4>2 DEF Regular, Live
    <3>5. \A m \in Used : m <= n
      <4>1. \A m \in Used : m <= Highest(Used)
        BY HighestIsLargest DEF Used
      <4>2. Highest(Used) \in 0..MaxNumber
        BY HighestIsLargest DEF Used
      <4>3. Used \subseteq Int
        BY DEF Used
      <4> HIDE DEF n
      <4> QED
        BY <3>1, <4>1, <4>2, <4>3
    <3>6. /\ Live \in SUBSET (1..MaxNumber) /\ Regular \in SUBSET (1..MaxNumber)
          /\ Live \subseteq Used /\ Regular \subseteq Used
      BY DEF Live, Regular, Used
    <3>7. Highest(Live \cup {n}) = n /\ Highest(Regular \cup {n}) = n
      <4> HIDE DEF n
      <4> QED
        BY <3>1, <3>5, <3>6, HighestOfAdded
    <3>8. Counters' = IF req[r].whisper THEN [highest |-> Highest(Regular), staff |-> n]
                                        ELSE [highest |-> n, staff |-> n]
      BY <3>4, <3>7 DEF Counters, Highest
    <3>9. topic' = Overwrite(topic, Columns(r))
      BY <1>1, <1>2, <2>1 DEF EndTransaction, Follow, ColumnsFollow, Inserted, Creates, Moves, At
    <3>10. topic = [highest |-> Highest(Regular), staff |-> Highest(Live)]
      BY <1>2 DEF Follow, Counters
    <3> QED
      BY <3>8, <3>9, <3>10 DEF Overwrite, Columns
  <2>2. CASE ~Creates(r)
    <3>1. CASE req[r].result = "none"
      <4>1. Kind(r) = "like"
        BY <1>1, <1>2, <2>2, <3>1 DEF LInv, Fine, Placed, Fits, Creates, Moves, CreationsOnly
      <4>2. posts' = posts /\ topic' = Overwrite(topic, <<>>)
        BY <1>2, <3>1, <4>1 DEF EndTransaction, PostsAfter, Follow, ColumnsFollow
      <4>3. topic' = topic
        BY <4>2 DEF Overwrite, LInv, Types, IsRow
      <4> QED
        BY <1>2, <4>2, <4>3 DEF Follow, Counters, Regular, Live
    <3>2. CASE req[r].result # "none"
      BY <1>2, <3>2 DEF EndTransaction, Follow, Counters, Regular, Live
    <3> QED
      BY <3>1, <3>2
  <2> QED
    BY <2>1, <2>2
<1> QED
  BY <1>3, <1>4, <1>5

\* A step to a place where nothing is inserted, or on from one
LEMMA GoOnFollow ==
    ASSUME LInv, Follow, NEW r \in Requests, NEW from, NEW to, from # "idle",
           Moves(r, from, to), req'[r].op = req[r].op,
           posts' = posts, topic' = topic,
           CreationsOnly => ColumnsFollow(r)'
    PROVE  Follow'
BY QuietFollow DEF Moves

LEMMA StepFollow == ASSUME LInv, Follow, NEW r \in Requests, Step(r) PROVE Follow'
<1> DEFINE P == ColumnsFollow(r)
<1>0. CreationsOnly => P
  BY DEF Follow
<1> USE DEF ColumnsFollow, Creates, Inserted, Kind, At, Moves
<1>1. CASE LockMutex(r)
  <2> DEFINE to == IF Kind(r) = "reply" THEN "lock_reply_to" ELSE "select_max"
  <2>1. Carries(r) /\ Moves(r, "mutex", to)
    BY <1>1, GoMoves DEF LockMutex, LInv, Carries
  <2> QED
    BY <1>0, <1>1, <2>1, GoOnFollow DEF LockMutex, Carries, SameData
<1>2. CASE LockReplyTo(r)
  <2>1. Kind(r) = "reply"
    BY <1>2 DEF LInv, Fine, Placed, Fits, LockReplyTo
  <2> QED
    BY <1>2, <2>1, LockReplyToWrites, GoOnFollow DEF LockReplyTo
<1>3. CASE SelectMax(r)
  <2>1. Kind(r) # "like"
    BY <1>3 DEF LInv, Fine, Placed, Fits, SelectMax
  <2> QED
    BY <1>3, <2>1, SelectMaxWrites, GoOnFollow DEF SelectMax
<1>4. CASE NextPostNumber(r)
  <2>1. Kind(r) # "like"
    BY <1>4 DEF LInv, Fine, Placed, Fits, NextPostNumber
  <2>2. Columns(r)' = Columns(r)
    BY <1>4, NextPostNumberWrites DEF Columns
  <2>3. ColumnsFollow(r)'
    BY <1>4, <2>1, <2>2, NextPostNumberWrites
  <2>4. posts' = posts /\ topic' = topic
    BY <1>4 DEF NextPostNumber
  <2> QED
    BY <1>4, <2>3, <2>4, NextPostNumberWrites, GoOnFollow
<1>5. CASE InsertPost(r)
  <2>1. Columns(r)' = Columns(r)
    BY <1>5, InsertPostWrites DEF Columns, SameData
  <2>2. P => ColumnsFollow(r)'
    BY <1>5, <2>1, InsertPostWrites DEF SameData, AfterPost
  <2>3. /\ posts' = posts /\ topic' = topic
        /\ Moves(r, "insert_post", req'[r].pc) /\ req'[r].op = req[r].op
    BY <1>5, InsertPostWrites DEF InsertPost, SameData
  <2> QED
    BY <1>0, <2>2, <2>3, GoOnFollow
<1>6. CASE UpdateReplied(r)
  <2>1. Columns(r)' = Columns(r)
    BY <1>6, UpdateRepliedWrites DEF Columns, Carries, SameData
  <2>2. P => ColumnsFollow(r)'
    BY <1>6, <2>1, UpdateRepliedWrites DEF Carries, SameData, AfterPost
  <2>3. /\ posts' = posts /\ topic' = topic
        /\ Moves(r, "update_replied", req'[r].pc) /\ req'[r].op = req[r].op
    BY <1>6, UpdateRepliedWrites DEF UpdateReplied, Carries, SameData
  <2> QED
    BY <1>0, <2>2, <2>3, GoOnFollow
<1>7. CASE ReleaseMutex(r)
  <2> DEFINE to == IF Kind(r) = "close" THEN "commit" ELSE "done"
  <2>1. Carries(r) /\ Moves(r, "release_mutex", to)
    BY <1>7, GoMoves DEF ReleaseMutex, LInv, Carries
  <2>2. Columns(r)' = Columns(r)
    BY <2>1 DEF Columns, Carries, SameData
  <2> QED
    BY <1>0, <1>7, <2>1, <2>2, GoOnFollow DEF ReleaseMutex, Carries, SameData
<1>8. CASE UpdatePost(r)
  <2> DEFINE to == IF Kind(r) = "like" THEN "update_topic" ELSE "last_post"
  <2>1. Carries(r) /\ Moves(r, "update_post", to)
    BY <1>8, GoMoves DEF UpdatePost, LInv, Carries
  <2> QED
    BY <1>0, <1>8, <2>1, GoOnFollow DEF UpdatePost, Carries, SameData
<1>9. CASE UpdateTopic(r)
  <2>1. ~(Kind(r) \in {"reply", "close"} /\ req'[r].pc = "commit")
    BY <1>9, UpdateTopicWrites
  <2> QED
    BY <1>0, <1>9, <2>1, UpdateTopicWrites, GoOnFollow DEF UpdateTopic, Carries, SameData, CreationsOnly
<1>10. CASE RecoverPost(r)
  <2>1. Carries(r)
    BY <1>10, GoMoves DEF RecoverPost, LInv, Carries
  <2> QED
    BY <1>10, <2>1 DEF RecoverPost, Carries, SameData, Follow, CreationsOnly
<1>11. CASE ResetHighest(r)
  <2>1. ~CreationsOnly
    BY <1>11 DEF LInv, Fine, Placed, Fits, ResetHighest, CreationsOnly
  <2> QED
    BY <1>11, <2>1, ResetHighestWrites, GoOnFollow DEF ResetHighest
<1>12. CASE WriteCounters(r)
  <2>1. Carries(r)
    BY <1>12, GoMoves DEF WriteCounters, LInv, Carries
  <2>2. Kind(r) \in {"destroy", "recover", "reset"}
    BY <1>12 DEF LInv, Fine, Placed, Fits, WriteCounters
  <2> QED
    BY <2>1, <2>2 DEF Carries, SameData, Follow, CreationsOnly
<1>13. CASE EndTransaction(r)
  BY <1>13, CommitFollow
<1>14. CASE SelectLastPost(r)
  <2>1. ~CreationsOnly
    BY <1>14, SelectLastPostWrites DEF CreationsOnly
  <2> QED
    BY <1>14, <2>1, SelectLastPostWrites, GoOnFollow DEF SelectLastPost
<1> QED
  BY <1>1, <1>2, <1>3, <1>4, <1>5, <1>6, <1>7, <1>8, <1>9, <1>10, <1>11, <1>12, <1>13, <1>14 DEF Step

LEMMA NextFollow == LInv /\ Follow /\ [Next]_vars => Follow'
<1> SUFFICES ASSUME LInv, Follow, [Next]_vars PROVE Follow'
  OBVIOUS
<1>1. CASE UNCHANGED <<posts, topic, req>>
  BY <1>1 DEF Follow, CreationsOnly, ColumnsFollow, Creates, Inserted, Columns, Kind, At,
              Counters, Regular, Live
<1>2. ASSUME NEW r \in Requests, Start(r) PROVE Follow'
  <2>1. /\ At(r, "idle") /\ Others(r) /\ req'[r].cols = <<>>
        /\ req'[r].pc \in {"mutex", "update_topic", "reset_highest", "update_post"}
    BY <1>2, StartWrites DEF FirstStep
  <2>2. ColumnsFollow(r)'
    BY <2>1 DEF ColumnsFollow, Creates, Inserted, At, Kind
  <2> QED
    BY <1>2, <2>1, <2>2, QuietFollow DEF Start
<1>3. ASSUME NEW r \in Requests, DeadlockVictim(r) \/ Kill(r) PROVE Follow'
  <2>1. /\ Others(r) /\ req'[r].op = req[r].op /\ req'[r].cols = req[r].cols
        /\ req'[r].result \in {"deadlock", "killed"}
    BY <1>3, AbortWrites
  <2>2. CreationsOnly => ColumnsFollow(r)'
    BY <2>1 DEF Follow, ColumnsFollow, Creates, Inserted, At, Kind
  <2> QED
    BY <1>3, <2>1, <2>2, QuietFollow DEF DeadlockVictim, Kill
<1>4. ASSUME NEW r \in Requests, Step(r) PROVE Follow'
  BY <1>4, StepFollow
<1> QED
  BY <1>1, <1>2, <1>3, <1>4 DEF Next, Tick, vars

\* The counters are the numbers of the last posts after any replies, whispers,
\* likes and closings of any number of requests, killed or not, that met no
\* deletion, recovery or reset (topic.rb:870-895).
THEOREM CountersAddUp == Spec => []CreationsCount
<1>1. Init => Follow
  <2> SUFFICES ASSUME Init PROVE topic = Counters /\ \A r \in Requests : ColumnsFollow(r)
    BY DEF Follow
  <2>1. \A r \in Requests : At(r, "idle") /\ Kind(r) = "none"
    BY DEF Init, Idle, NoOp, At, Kind
  <2> QED
    BY <2>1 DEF Init, ColumnsFollow, Creates, Inserted, At
<1>2. Follow => CreationsCount
  BY DEF Follow, CreationsOnly, CreationsCount, CountersSettle
<1> QED
  BY <1>1, <1>2, NextFollow, SpecLInv, PTL DEF Spec

-----------------------------------------------------------------------------
(* Serialized creations *)

InMutex == {"lock_reply_to", "select_max", "next_post_number", "insert_post",
            "update_replied", "commit"}

\* One request at a time has a lease.
Leased ==
    /\ until = -1 => holders = {}
    /\ \A p, q \in holders : p = q

\* A reply has the lease from its first statement until it has committed, and
\* the number it was given stays free.
Alone(r) ==
    /\ Kind(r) # "close"
    /\ req[r].result # "not_unique"
    /\ Kind(r) = "reply" /\ req[r].pc \in InMutex => r \in holders
    /\ req[r].pc \in {"next_post_number", "insert_post"} => req[r].number \notin Used

\* What PostCreator counts on: nobody closes the topic (a close releases the
\* mutex before it commits), and no creation has outlived its lease.
Calm == ~overran /\ \A r \in Requests : Kind(r) # "close"

AllAlone == LInv /\ Leased /\ \A r \in Requests : Alone(r)

SInv == LInv /\ Leased /\ (Calm => \A r \in Requests : Alone(r))


LEMMA InitSInv == Init => SInv
<1> SUFFICES ASSUME Init PROVE SInv
  OBVIOUS
<1>1. LInv
  BY InitLInv
<1>2. Leased
  BY DEF Init, Mutex!Init, Mutex!NoLease, Leased
<1>3. ASSUME NEW r \in Requests PROVE Alone(r)
  BY DEF Init, Idle, NoOp, Alone, Kind, InMutex
<1> QED
  BY <1>1, <1>2, <1>3 DEF SInv

\* A step that leaves the lease and the used numbers alone
LEMMA QuietAlone ==
    ASSUME AllAlone, LInv', NEW r \in Requests, Others(r), Used' = Used,
           mutexVars' = mutexVars, Alone(r)'
    PROVE  AllAlone'
<1>1. \A q \in Requests \ {r} : Alone(q)'
  BY DEF AllAlone, Alone, Others, Kind, mutexVars
<1>2. Leased'
  BY DEF AllAlone, Leased, mutexVars
<1> QED
  BY <1>1, <1>2 DEF AllAlone

\* A step that only moves the request on
LEMMA GoOnAlone ==
    ASSUME AllAlone, LInv', NEW r \in Requests, NEW from, NEW to, Moves(r, from, to),
           req'[r].op = req[r].op, req'[r].result # "not_unique",
           Used' = Used, mutexVars' = mutexVars,
           Kind(r) = "reply" /\ to \in InMutex => from \in InMutex,
           to \in {"next_post_number", "insert_post"} => req'[r].number \notin Used
    PROVE  AllAlone'
<1>1. Alone(r)'
  BY DEF AllAlone, Alone, Moves, Kind, mutexVars
<1> QED
  BY <1>1, QuietAlone DEF Moves

LEMMA StepAlone == ASSUME AllAlone, LInv', NEW r \in Requests, Step(r) PROVE AllAlone'
<1>0. Alone(r) /\ Fine(r)
  BY DEF AllAlone, LInv
<1>1. CASE LockMutex(r)
  <2> DEFINE to == IF Kind(r) = "reply" THEN "lock_reply_to" ELSE "select_max"
  <2>1. Carries(r) /\ Moves(r, "mutex", to)
    BY <1>1, GoMoves DEF LockMutex, AllAlone, LInv, Carries
  <2>2. /\ posts' = posts /\ clock' = clock /\ holders = {} /\ holders' = {r}
        /\ until' \in Nat
    BY <1>1 DEF LockMutex, Mutex!Grant, Mutex!NoLease, AllAlone, Leased
  <2>3. Leased'
    BY <2>2 DEF Leased
  <2>4. Alone(r)' /\ Used' = Used
    BY <1>0, <2>1, <2>2 DEF Alone, Carries, SameData, Moves, Kind, Used
  <2>5. \A q \in Requests \ {r} : Alone(q)'
    BY <2>1, <2>2, <2>4 DEF AllAlone, Alone, Moves, Others, Kind
  <2> QED
    BY <2>3, <2>4, <2>5 DEF AllAlone
<1>2. CASE ReleaseMutex(r)
  <2>1. Carries(r) /\ Moves(r, "release_mutex", "done")
    BY <1>0, <1>2, GoMoves DEF ReleaseMutex, Alone, AllAlone, LInv, Carries
  <2>2. posts' = posts
    BY <1>2 DEF ReleaseMutex
  <2>3. \/ mutexVars' = mutexVars
        \/ r \in holders /\ holders' = {} /\ until' = -1 /\ clock' = clock
    BY <1>2 DEF ReleaseMutex, Mutex!Release, Mutex!NoLease
  <2>4. Leased'
    BY <2>3 DEF AllAlone, Leased, mutexVars
  <2>5. Alone(r)' /\ Used' = Used
    BY <1>0, <2>1, <2>2 DEF Alone, Carries, SameData, Moves, Kind, Used, InMutex
  <2>6. \A q \in Requests \ {r} : Alone(q)'
    BY <2>1, <2>3, <2>5 DEF AllAlone, Leased, Alone, Moves, Others, Kind, mutexVars
  <2> QED
    BY <2>4, <2>5, <2>6 DEF AllAlone
<1>3. CASE LockReplyTo(r)
  <2>1. Used' = Used
    BY <1>3 DEF LockReplyTo, Used
  <2> QED
    BY <1>0, <1>3, <2>1, LockReplyToWrites, GoOnAlone DEF LockReplyTo, AllAlone, Alone, InMutex
<1>4. CASE SelectMax(r)
  <2>1. Used' = Used
    BY <1>4 DEF SelectMax, Used
  <2>2. Highest(Used) + 1 \notin Used
    <3>1. Used \subseteq Int /\ (\A m \in Used : m <= Highest(Used)) /\ Highest(Used) \in 0..MaxNumber
      BY HighestIsLargest DEF Used
    <3> QED
      BY <3>1
  <2> QED
    BY <1>0, <1>4, <2>1, <2>2, SelectMaxWrites, GoOnAlone DEF SelectMax, AllAlone, Alone, InMutex
<1>5. CASE NextPostNumber(r)
  <2>1. Used' = Used
    BY <1>5 DEF NextPostNumber, Used
  <2>2. /\ Moves(r, "next_post_number", "insert_post") /\ req'[r].op = req[r].op
        /\ req'[r].result = req[r].result /\ req'[r].number = req[r].number
    BY <1>5, NextPostNumberWrites DEF AllAlone
  <2>3. req[r].number \notin Used /\ req[r].result # "not_unique"
    BY <1>0, <2>2 DEF Alone, Moves
  <2> QED
    BY <1>5, <2>1, <2>2, <2>3, GoOnAlone DEF NextPostNumber, InMutex
<1>6. CASE InsertPost(r)
  <2>1. Used' = Used
    BY <1>6 DEF InsertPost, Used
  <2>2. req'[r].result = req[r].result /\ req'[r].pc = "update_replied" /\ SameData(r)
        /\ Moves(r, "insert_post", "update_replied")
    BY <1>0, <1>6, InsertPostWrites DEF AllAlone, Alone, Moves
  <2> QED
    BY <1>0, <1>6, <2>1, <2>2, GoOnAlone DEF InsertPost, Alone, InMutex, SameData
<1>7. CASE UpdateReplied(r)
  <2>1. Used' = Used /\ AfterPost(r) = "commit"
    BY <1>0, <1>7 DEF UpdateReplied, Used, AfterPost, Alone
  <2> QED
    BY <1>0, <1>7, <2>1, UpdateRepliedWrites, GoOnAlone
       DEF UpdateReplied, AllAlone, Alone, InMutex, Carries, SameData
<1>8. CASE UpdatePost(r)
  <2> DEFINE to == IF Kind(r) = "like" THEN "update_topic" ELSE "last_post"
  <2>1. Carries(r) /\ Moves(r, "update_post", to) /\ Used' = Used
    BY <1>8, GoMoves DEF UpdatePost, AllAlone, LInv, Carries, Used
  <2> QED
    BY <1>0, <1>8, <2>1, GoOnAlone DEF UpdatePost, Alone, InMutex, Carries, SameData
<1>9. CASE UpdateTopic(r)
  <2>1. Used' = Used
    BY <1>9 DEF UpdateTopic, Used
  <2> QED
    BY <1>0, <1>9, <2>1, UpdateTopicWrites, GoOnAlone DEF UpdateTopic, AllAlone, Alone, InMutex
<1>10. CASE RecoverPost(r)
  <2>1. Carries(r) /\ Moves(r, "update_post", "reset_highest")
    BY <1>10, GoMoves DEF RecoverPost, AllAlone, LInv, Carries
  <2>2. Used' = Used
    <3> DEFINE n == req[r].op.post
               x == [posts[n] EXCEPT !.state = "live"]
    <3>1. n \in Used /\ posts' = [posts EXCEPT ![n] = x]
      BY <1>10, RecoveredPost DEF AllAlone, LInv
    <3> HIDE DEF n
    <3>2. x.state = "live"
      <4>1. IsPost(posts[n])
        BY <3>1 DEF AllAlone, LInv, IInv, Shape, Used
      <4> QED
        BY <4>1 DEF IsPost, PostColumns
    <3> HIDE DEF x
    <3>3. \A m \in 1..MaxNumber : posts'[m] = IF m = n THEN x ELSE posts[m]
      BY <3>1 DEF AllAlone, LInv, IInv, Shape
    <3> QED
      BY <3>1, <3>2, <3>3 DEF Used
  <2> QED
    BY <1>0, <1>10, <2>1, <2>2, GoOnAlone DEF RecoverPost, Alone, InMutex, Carries, SameData
<1>11. CASE ResetHighest(r)
  <2>1. Used' = Used
    BY <1>11 DEF ResetHighest, Used
  <2> QED
    BY <1>0, <1>11, <2>1, ResetHighestWrites, GoOnAlone DEF ResetHighest, AllAlone, Alone, InMutex
<1>12. CASE WriteCounters(r)
  <2>1. Carries(r) /\ Moves(r, "write_counters", "done") /\ Used' = Used
    BY <1>12, GoMoves DEF WriteCounters, AllAlone, LInv, Carries, Used
  <2> QED
    BY <1>0, <1>12, <2>1, GoOnAlone DEF WriteCounters, Alone, InMutex, Carries, SameData
<1>13. CASE EndTransaction(r)
  <2>1. Carries(r) /\ Moves(r, "commit", AfterCommit(r))
    BY <1>13, GoMoves DEF EndTransaction, AllAlone, LInv, Carries
  <2>2. mutexVars' = mutexVars
    BY <1>13 DEF EndTransaction
  <2>3. Leased'
    BY <2>2 DEF AllAlone, Leased, mutexVars
  <2>4. Alone(r)'
    BY <1>0, <2>1, <2>2 DEF Alone, Carries, SameData, Moves, Kind, InMutex, AfterCommit, mutexVars
  <2>5. ASSUME NEW q \in Requests \ {r} PROVE Alone(q)'
    <3>1. Alone(q) /\ req'[q] = req[q] /\ holders' = holders
      BY <2>1, <2>2 DEF AllAlone, Moves, Others, mutexVars
    <3>2. CASE req[q].pc \in {"next_post_number", "insert_post"}
      \* only replies are numbered, and no other reply has the lease
      <4>1. Kind(q) = "reply" /\ q \in holders
        BY <3>1, <3>2 DEF AllAlone, LInv, Fine, Placed, Fits, Alone, InMutex
      <4>2. Kind(r) # "reply"
        BY <1>0, <2>1, <4>1 DEF AllAlone, Leased, Alone, Moves, InMutex
      <4>3. Used' = Used
        BY <1>0, <1>13, <4>2, CommitUsed DEF AllAlone, Creates, Alone
      <4> QED
        BY <3>1, <4>3 DEF Alone, Kind
    <3>3. CASE req[q].pc \notin {"next_post_number", "insert_post"}
      BY <3>1, <3>3 DEF Alone, Kind
    <3> QED
      BY <3>2, <3>3
  <2> QED
    BY <2>3, <2>4, <2>5 DEF AllAlone
<1>14. CASE SelectLastPost(r)
  <2>1. Used' = Used
    BY <1>14 DEF SelectLastPost, Used
  <2> QED
    BY <1>0, <1>14, <2>1, SelectLastPostWrites, GoOnAlone DEF SelectLastPost, AllAlone, Alone, InMutex
<1> QED
  BY <1>1, <1>2, <1>3, <1>4, <1>5, <1>6, <1>7, <1>8, <1>9, <1>10, <1>11, <1>12, <1>13, <1>14 DEF Step

\* Whatever happens, one request at a time has a lease.
LEMMA NextLeased == ASSUME Leased, [Next]_vars PROVE Leased'
<1>1. CASE UNCHANGED mutexVars
  BY <1>1 DEF Leased, mutexVars
<1>2. CASE Tick
  BY <1>2 DEF Tick, Mutex!Tick, Mutex!NoLease, Leased
<1>3. ASSUME NEW r \in Requests, LockMutex(r) PROVE Leased'
  BY <1>3 DEF LockMutex, Mutex!Grant, Leased
<1>4. ASSUME NEW r \in Requests, ReleaseMutex(r) PROVE Leased'
  BY <1>1, <1>4 DEF ReleaseMutex, Mutex!Release, Leased
<1>5. ASSUME NEW r \in Requests, Kill(r) PROVE Leased'
  BY <1>1, <1>5 DEF Kill, Mutex!Abandon, Leased
<1>6. ASSUME NEW r \in Requests, Start(r) \/ DeadlockVictim(r) PROVE Leased'
  BY <1>1, <1>6 DEF Start, DeadlockVictim
<1>7. ASSUME NEW r \in Requests, Step(r) PROVE LockMutex(r) \/ ReleaseMutex(r) \/ UNCHANGED mutexVars
  BY <1>7 DEF Step, LockReplyTo, SelectMax, NextPostNumber, InsertPost, UpdateReplied, UpdatePost,
     SelectLastPost, UpdateTopic, RecoverPost, ResetHighest, WriteCounters, EndTransaction
<1> QED
  BY <1>1, <1>2, <1>3, <1>4, <1>5, <1>6, <1>7 DEF Next, vars

LEMMA StepKeepsOp ==
    ASSUME LInv, NEW r \in Requests, Step(r)
    PROVE  Others(r) /\ req'[r].op = req[r].op
<1>1. ASSUME NEW from, At(r, from), NEW to, Go(r, to) PROVE Others(r) /\ req'[r].op = req[r].op
  BY <1>1, GoMoves DEF LInv, SameData, Moves
<1>2. CASE LockReplyTo(r) \/ SelectMax(r) \/ NextPostNumber(r) \/ InsertPost(r) \/ UpdateReplied(r)
           \/ SelectLastPost(r) \/ UpdateTopic(r) \/ ResetHighest(r)
  BY <1>2, LockReplyToWrites, SelectMaxWrites, NextPostNumberWrites, InsertPostWrites, UpdateRepliedWrites,
     SelectLastPostWrites, UpdateTopicWrites, ResetHighestWrites DEF Moves, Carries, SameData
<1>3. CASE LockMutex(r) \/ ReleaseMutex(r) \/ UpdatePost(r) \/ RecoverPost(r) \/ WriteCounters(r)
           \/ EndTransaction(r)
  BY <1>1, <1>3 DEF LockMutex, ReleaseMutex, UpdatePost, RecoverPost, WriteCounters, EndTransaction
<1> QED
  BY <1>2, <1>3 DEF Step

\* Calm is lost for good.
LEMMA CalmBefore == ASSUME LInv, [Next]_vars, Calm' PROVE Calm
<1>1. CASE UNCHANGED vars
  BY <1>1 DEF vars, Calm, Kind
<1>2. CASE Tick
  BY <1>2 DEF Tick, Calm, Kind
<1>3. ASSUME NEW r \in Requests, Start(r) PROVE Calm
  <2>1. Others(r) /\ overran' = overran /\ Kind(r) = "none"
    BY <1>3, StartWrites DEF Start, LInv, Fine, Placed
  <2> QED
    BY <2>1 DEF Calm, Others, Kind
<1>4. ASSUME NEW r \in Requests, Step(r) \/ DeadlockVictim(r) \/ Kill(r) PROVE Calm
  <2>1. Others(r) /\ req'[r].op = req[r].op
    BY <1>4, StepKeepsOp, AbortWrites
  <2>2. overran' = overran
    BY <1>4, KeepsOverran
  <2> QED
    BY <2>1, <2>2 DEF Calm, Others, Kind
<1> QED
  BY <1>1, <1>2, <1>3, <1>4 DEF Next

LEMMA NextSInv == SInv /\ [Next]_vars => SInv'
<1> SUFFICES ASSUME SInv, [Next]_vars PROVE SInv'
  OBVIOUS
<1>0. LInv' /\ Leased'
  BY NextLInv, NextLeased DEF SInv
<1> SUFFICES ASSUME Calm' PROVE \A r \in Requests : Alone(r)'
  BY <1>0 DEF SInv
<1>00. Calm /\ AllAlone
  BY CalmBefore DEF SInv, AllAlone
<1>1. CASE UNCHANGED <<posts, req>> /\ \A r \in Requests : req[r].pc \in InMutex /\ r \in holders => r \in holders'
  BY <1>00, <1>1 DEF AllAlone, Alone, Kind, Used
<1>2. CASE UNCHANGED vars
  BY <1>1, <1>2 DEF vars, mutexVars
\* who loses the lease to the clock has committed, or there is no calm
<1>3. CASE Tick
  <2>1. \A r \in holders \ holders' : At(r, "release_mutex")
    BY <1>3 DEF Tick, Calm
  <2> QED
    BY <1>1, <1>3, <2>1 DEF Tick, At, InMutex
<1>4. ASSUME NEW r \in Requests, Start(r) PROVE AllAlone'
  <2>1. /\ Others(r) /\ req'[r].result = "none"
        /\ req'[r].pc \in {"mutex", "update_topic", "reset_highest", "update_post"}
    BY <1>4, StartWrites DEF FirstStep, SInv
  <2>2. Alone(r)'
    BY <2>1 DEF Alone, Kind, InMutex, Calm
  <2>3. mutexVars' = mutexVars /\ Used' = Used
    BY <1>4 DEF Start, Used
  <2> QED
    BY <1>0, <1>00, <2>1, <2>2, <2>3, QuietAlone
<1>5. ASSUME NEW r \in Requests, DeadlockVictim(r) \/ Kill(r) PROVE AllAlone'
  <2>1. /\ Others(r) /\ req'[r].op = req[r].op /\ req'[r].result \in {"deadlock", "killed"}
        /\ req'[r].pc \in {"done", "release_mutex"}
    BY <1>5, AbortWrites DEF SInv
  <2>2. Alone(r)'
    BY <1>00, <2>1 DEF AllAlone, Alone, Kind, InMutex
  <2>3. /\ Used' = Used
        /\ \/ mutexVars' = mutexVars
           \/ holders' = holders \ {r} /\ clock' = clock /\ until' = until
    BY <1>5 DEF DeadlockVictim, Kill, Mutex!Abandon, Used
  <2>4. \A q \in Requests \ {r} : Alone(q)'
    BY <1>00, <2>1, <2>3 DEF AllAlone, Alone, Others, Kind, mutexVars
  <2> QED
    BY <1>0, <2>2, <2>4 DEF AllAlone
<1>6. ASSUME NEW r \in Requests, Step(r) PROVE AllAlone'
  BY <1>0, <1>00, <1>6, StepAlone
<1> QED
  BY <1>2, <1>3, <1>4, <1>5, <1>6 DEF Next, AllAlone

\* "we serialize creation to avoid needing rollbacks" (post_creator.rb:396):
\* whatever leases end by release, by death or behind a dead holder, no creation
\* runs into the unique index until the topic is closed, or the mutex expires
\* under a creation that is still at work.
THEOREM NoCreationFails == Spec => []CreationsSucceed
<1>1. SInv => CreationsSucceed
  BY DEF SInv, Alone, Calm, CreationsSucceed, NoRollback
<1> QED
  BY <1>1, InitSInv, NextSInv, PTL DEF Spec
=============================================================================
