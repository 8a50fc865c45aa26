------------------------------ MODULE PostStream ------------------------------
(***************************************************************************)
(* frontend/discourse/app/models/post-stream.js and its callers: the posts *)
(* of one topic as a browser shows them.  stream is the list of the ids of *)
(* all posts, posts the window of it that is loaded.  The window grows     *)
(* when the reader scrolls (append, prepend), is replaced when the reader  *)
(* jumps (refresh), and grows at its end when the message bus tells of new *)
(* posts (news).  The reader's own post is staged under the id -1 before   *)
(* the server has it.  Every request's answer meets whatever the browser   *)
(* did in between.                                                         *)
(*                                                                         *)
(* The server tells of a post or of a deletion when the transaction is      *)
(* over and the topic's mutex free, so the messages of two posts come in   *)
(* any order.  bus has what is to be told from the commit on: before a     *)
(* message is published and while it waits to be handled, nobody can see   *)
(* the difference.                                                         *)
(*                                                                         *)
(* The reader is a plain user without filters.  A post's number is its id. *)
(* A post is the object that the identity map has for its id; imap is the  *)
(* set of ids it has one for.                                              *)
(***************************************************************************)
EXTENDS Integers, SequencesExt, FiniteSetsExt

CONSTANTS
    Chunk,          \* posts in a window: topic.chunk_size
    First,          \* posts there are at the beginning
    MaxPost,        \* bound on the posts ever created
    MaxDeletions    \* bound on the posts deleted

ASSUME PostStreamAssumption == {Chunk, First} \subseteq Nat \ {0} /\ {MaxPost, MaxDeletions} \subseteq Nat /\ First <= MaxPost

Staged == -1
Ids == 1..MaxPost
Windows == {"append", "prepend"}
Calls == Windows \cup {"news"}
Messages == {"created", "deleted", "destroyed"} \X Ids

VARIABLES
    visible,        \* the server: ids of the posts the reader may see
    last_post,      \* the server: posts created so far
    deletions,      \* the server: posts deleted so far
    bus,            \* messages of what is committed, not handled yet
    stream,         \* ids of the topic's posts
    posts,          \* ids of the posts that are loaded, in the order they are shown
    imap,           \* ids in the identity map
    staging,        \* stagingPost
    create,         \* the request that creates the reader's post
    refresh,        \* the request for a topic view
    call,           \* the requests for posts by their ids
    new_posts,      \* _newPostsInStream
    checking,       \* posts looked up after a message of their deletion
    upset           \* (history) what went wrong so far: a request failed, an
                    \* answer was older than a message handled before it, or
                    \* posts came by in another order than that of the stream

server == <<visible, last_post, deletions>>
shown == <<stream, posts, imap>>
vars == <<server, bus, shown, staging, create, refresh, call, new_posts, checking, upset>>

\* ids is what the caller asks for, wanted what the request asks the server for
Idle == [pc |-> "idle", ids |-> <<>>, wanted |-> {}, got |-> {}]
NoCreate == [pc |-> "idle", id |-> 0]
NoRefresh == [pc |-> "idle", near |-> 0, got |-> {}]

-----------------------------------------------------------------------------
(* Windows *)

\* The elements of s that are in S, and those that are not
Keep(s, S) == FoldLeft(LAMBDA t, i : IF i \in S THEN Append(t, i) ELSE t, <<>>, s)
Drop(s, S) == Keep(s, Range(s) \ S)

Sorted(S) == Keep([i \in Ids |-> i], S)
Slice(s, from, to) == SubSeq(s, Max({from, 1}), Min({to, Len(s)}))

\* The first index of e, 0 if there is none
Index(s, e) == SelectInSeq(s, LAMBDA x : x = e)

\* The posts of a topic view near a number
FilterPostsNear(near, S) ==
    LET before == Max({Chunk \div 4, 1})
        start == Min({Cardinality({i \in S : i < near}) - before, Cardinality(S) - Chunk})
    IN  Slice(Sorted(S), Max({start, 0}) + 1, Max({start, 0}) + Chunk)

LoadedAllPosts ==
    /\ posts # <<>> /\ stream # <<>>
    /\ Last(stream) = Staged \/ Contains(posts, Last(stream))

Loading == staging \/ refresh.pc # "idle" \/ \E w \in Windows : call[w].pc # "idle"
CanAppendMore == ~Loading /\ posts # <<>> /\ ~LoadedAllPosts
CanPrependMore == ~Loading /\ posts # <<>> /\ ~Contains(posts, 1)

NextWindow_FromFirst_M ==
    LET first == Index(stream, Head(posts))
    IN  IF first = 0 THEN <<>> ELSE Slice(stream, first + 1, first + Chunk)
NextWindow_SkipsOne_M ==
    LET last == Index(stream, Last(posts))
    IN  IF last = 0 THEN <<>> ELSE Slice(stream, last + 2, last + Chunk + 1)
NextWindow ==
    LET last == Index(stream, Last(posts))
    IN  IF last = 0 THEN <<>> ELSE Slice(stream, last + 1, last + Chunk)

PreviousWindow ==
    LET first == Index(stream, Head(posts))
    IN  IF first = 0 THEN <<>> ELSE Slice(stream, first - Chunk, first - 1)

Init ==
    /\ visible = 1..First
    /\ last_post = First
    /\ deletions = 0
    /\ bus = {}
    /\ stream = Sorted(visible)
    /\ \E near \in visible : posts = FilterPostsNear(near, visible)
    /\ imap = Range(posts)
    /\ staging = FALSE
    /\ create = NoCreate
    /\ refresh = NoRefresh
    /\ call = [c \in Calls |-> Idle]
    /\ new_posts = <<>>
    /\ checking = {}
    /\ upset = {}

-----------------------------------------------------------------------------
(* The server *)

\* Somebody else posts
Post ==
    /\ last_post < MaxPost
    /\ last_post' = last_post + 1
    /\ visible' = visible \cup {last_post + 1}
    /\ bus' = bus \cup {<<"created", last_post + 1>>}
    /\ UNCHANGED <<deletions, shown, staging, create, refresh, call, new_posts, checking, upset>>

\* A post other than the first is deleted, or destroyed for good
Delete(i) ==
    /\ i \in visible \ {1} /\ deletions < MaxDeletions
    /\ deletions' = deletions + 1
    /\ visible' = visible \ {i}
    /\ \E type \in {"deleted", "destroyed"} : bus' = bus \cup {<<type, i>>}
    /\ UNCHANGED <<last_post, shown, staging, create, refresh, call, new_posts, checking, upset>>

-----------------------------------------------------------------------------
(* The reader's own post *)

\* appendPost of posts that are in the identity map
AppendPosts(ps, ids) == FoldLeft(LAMBDA s, i : IF Contains(s, i) THEN s ELSE Append(s, i), ps, ids)
PrependPosts(ps, ids) == Reverse(AppendPosts(Reverse(ps), ids))

\* createPost with stagePost; on a phone nothing is staged
CreatePost(staged) ==
    /\ create.pc = "idle" /\ ~staging
    /\ create' = [NoCreate EXCEPT !.pc = "sent"]
    /\ staging' = staged
    /\ IF staged /\ LoadedAllPosts
       THEN /\ stream' = AppendPosts(stream, <<Staged>>)
            /\ posts' = AppendPosts(posts, <<Staged>>)
            /\ imap' = imap \cup {Staged}
       ELSE UNCHANGED shown
    /\ upset' = upset \cup IF staged /\ (call["news"].pc # "idle" \/ new_posts # <<>>) THEN {"disordered"} ELSE {}
    /\ UNCHANGED <<server, bus, refresh, call, new_posts, checking>>

\* The server creates the post, queues it for approval, or refuses it.  The
\* answer of a creation may get lost: 0 stands for every answer without a post.
ServeCreate ==
    /\ create.pc = "sent"
    /\ \/ /\ last_post < MaxPost
          /\ last_post' = last_post + 1
          /\ visible' = visible \cup {last_post + 1}
          /\ bus' = bus \cup {<<"created", last_post + 1>>}
          /\ \E id \in {last_post + 1, 0} : create' = [pc |-> "served", id |-> id]
       \/ /\ create' = [pc |-> "served", id |-> 0]
          /\ UNCHANGED <<visible, last_post, bus>>
    /\ UNCHANGED <<deletions, shown, staging, refresh, call, new_posts, checking, upset>>

\* The posts of others that the browser has yet to show
Announced ==
    {i \in Ids \ {create.id} : <<"created", i>> \in bus \/ Contains(new_posts \o call["news"].ids, i)}

\* The staged object has got its id; commitPost appends it unless the
\* identity map has another object for the id that is shown already
CommitPost ==
    /\ create.pc = "served" /\ create.id # 0
    /\ LET i == create.id
           own == ReplaceAll(posts, Staged, i)
           isShown == IF i \in imap THEN Contains(posts, i) ELSE Contains(posts, Staged)
       IN  /\ posts' = IF LoadedAllPosts /\ ~isShown THEN Append(own, i) ELSE own
           /\ stream' = Drop(IF LoadedAllPosts THEN AppendPosts(stream, <<i>>) ELSE stream, {Staged})
           /\ imap' = (imap \cup IF LoadedAllPosts THEN {i} ELSE {}) \ {Staged}
    /\ staging' = FALSE
    /\ create' = NoCreate
    /\ upset' = upset \cup IF Announced # {} THEN {"disordered"} ELSE {}
    /\ UNCHANGED <<server, bus, refresh, call, new_posts, checking>>

UndoPost_KeepsPost_M ==
    /\ create.pc = "served" /\ create.id = 0
    /\ stream' = Drop(stream, {Staged})
    /\ posts' = posts
    /\ imap' = imap \ {Staged}
    /\ staging' = FALSE
    /\ create' = NoCreate
    /\ UNCHANGED <<server, bus, refresh, call, new_posts, checking, upset>>
UndoPost ==
    /\ create.pc = "served" /\ create.id = 0
    /\ stream' = Drop(stream, {Staged})
    /\ posts' = Drop(posts, {Staged})
    /\ imap' = imap \ {Staged}
    /\ staging' = FALSE
    /\ create' = NoCreate
    /\ UNCHANGED <<server, bus, refresh, call, new_posts, checking, upset>>

-----------------------------------------------------------------------------
(* Requests for posts *)

Missing(ids) == Drop(ids, imap)
Known(ids, map) == Keep(ids, map)

\* What the arrival of posts with these ids does, when the identity map is map
Shown(c, ids, map) ==
    CASE c = "append"  -> posts' = AppendPosts(posts, Known(ids, map)) /\ UNCHANGED stream
      [] c = "prepend" -> posts' = PrependPosts(posts, Known(ids, map)) /\ UNCHANGED stream
      [] c = "news"    -> /\ posts' = AppendPosts(posts, Known(ids, map))
                          /\ stream' = AppendPosts(stream, Known(ids, map))

\* findPostsByIds asks for the posts the identity map does not have; when it
\* has all of them, the rest happens at once
Find(c, ids) ==
    IF Missing(ids) = <<>>
    THEN Shown(c, ids, imap) /\ UNCHANGED <<call, imap>>
    ELSE call' = [call EXCEPT ![c] = [Idle EXCEPT !.pc = "sent", !.ids = ids, !.wanted = Range(Missing(ids))]] /\ UNCHANGED shown

AppendMore ==
    /\ CanAppendMore /\ NextWindow # <<>>
    /\ Find("append", NextWindow)
    /\ UNCHANGED <<server, bus, staging, create, refresh, new_posts, checking, upset>>

PrependMore ==
    /\ CanPrependMore /\ PreviousWindow # <<>>
    /\ Find("prepend", Reverse(PreviousWindow))
    /\ UNCHANGED <<server, bus, staging, create, refresh, new_posts, checking, upset>>

\* posts.json: those of the posts asked for that the reader may see
Serve(c) ==
    /\ call[c].pc = "sent"
    /\ call' = [call EXCEPT ![c].pc = "served", ![c].got = call[c].wanted \cap visible]
    /\ UNCHANGED <<server, bus, shown, staging, create, refresh, new_posts, checking, upset>>

\* The answer goes to the identity map, and the call goes on with all it asked for
Arrive(c) ==
    /\ call[c].pc = "served"
    /\ imap' = imap \cup call[c].got
    /\ Shown(c, call[c].ids, imap')
    /\ call' = [call EXCEPT ![c] = Idle]
    /\ UNCHANGED <<server, bus, staging, create, refresh, new_posts, checking, upset>>

\* A request fails and is not repeated: loadIntoIdentityMap swallows the error
Fail(c) ==
    /\ call[c].pc = "sent"
    /\ Shown(c, call[c].ids, imap)
    /\ call' = [call EXCEPT ![c] = Idle]
    /\ upset' = upset \cup {"failed"}
    /\ UNCHANGED <<server, bus, imap, staging, create, refresh, new_posts, checking>>

-----------------------------------------------------------------------------
(* The reader jumps to a post that is not loaded *)

Refresh(near) ==
    /\ refresh.pc = "idle" /\ near \in 1..last_post /\ ~Contains(posts, near)
    /\ refresh' = [NoRefresh EXCEPT !.pc = "sent", !.near = near]
    /\ UNCHANGED <<server, bus, shown, staging, create, call, new_posts, checking, upset>>

ServeRefresh ==
    /\ refresh.pc = "sent"
    /\ refresh' = [refresh EXCEPT !.pc = "served", !.got = visible]
    /\ UNCHANGED <<server, bus, shown, staging, create, call, new_posts, checking, upset>>

\* updateFromJson
UpdateFromJson ==
    /\ refresh.pc = "served"
    /\ posts' = FilterPostsNear(refresh.near, refresh.got)
    /\ stream' = Sorted(refresh.got)
    /\ imap' = imap \cup Range(posts')
    /\ refresh' = NoRefresh
    /\ upset' = upset \cup IF \E c \in Calls : call[c].pc # "idle" THEN {"disordered"} ELSE {}
    /\ UNCHANGED <<server, bus, staging, create, call, new_posts, checking>>

ErrorLoading ==
    /\ refresh.pc = "sent"
    /\ refresh' = NoRefresh
    /\ UNCHANGED <<server, bus, shown, staging, create, call, new_posts, checking, upset>>

-----------------------------------------------------------------------------
(* The message bus *)

TriggerNewPosts_OnlyAtEnd_M(ids) ==
    LET missing == Drop(ids, Range(stream))
    IN  IF missing # <<>> /\ LoadedAllPosts THEN Find("news", missing) ELSE UNCHANGED <<shown, call>>

\* triggerNewPostsInStream
TriggerNewPosts(ids) ==
    LET missing == Drop(ids, Range(stream))
    IN  IF missing = <<>> THEN UNCHANGED <<shown, call>>
        ELSE IF LoadedAllPosts THEN Find("news", missing)
        ELSE stream' = stream \o missing /\ UNCHANGED <<posts, imap, call>>

\* The messages stay on the bus while the reader's post is being created
BusPaused_Never_M == FALSE
BusPaused == create.pc # "idle"

\* An answer on its way that was given before this message
Outdated ==
    IF refresh.pc = "served" \/ \E c \in Calls : call[c].pc = "served" THEN {"outdated"} ELSE {}

\* An older post is still to be told of
Reversed(i) == IF \E j \in 1..(i - 1) : <<"created", j>> \in bus THEN {"disordered"} ELSE {}

\* retryOnRateLimit: one request for new posts at a time.  The second message
\* of a batch finds the first one's promise pending, and waits for the timer.
Created(i) ==
    /\ ~BusPaused /\ <<"created", i>> \in bus
    /\ bus' = bus \ {<<"created", i>>}
    /\ \/ /\ call["news"].pc = "idle"
          /\ TriggerNewPosts(Append(new_posts, i))
          /\ new_posts' = <<>>
       \/ new_posts' = Append(new_posts, i) /\ UNCHANGED <<shown, call>>
    /\ upset' = upset \cup Outdated \cup Reversed(i)
    /\ UNCHANGED <<server, staging, create, refresh, checking>>

\* and its timer, when there are posts left for the next request
Retry ==
    /\ new_posts # <<>> /\ call["news"].pc = "idle"
    /\ TriggerNewPosts(new_posts)
    /\ new_posts' = <<>>
    /\ UNCHANGED <<server, bus, staging, create, refresh, checking, upset>>

RemovePost_StillShown_M(i) ==
    /\ stream' = Drop(stream, {i})
    /\ posts' = posts
    /\ imap' = imap \ {i}
RemovePost(i) ==
    /\ stream' = Drop(stream, {i})
    /\ posts' = Drop(posts, {i})
    /\ imap' = imap \ {i}

Loaded_Shown_M(i) == Contains(posts, i)
\* findLoadedPost
Loaded(i) == i \in imap

\* triggerDeletedPost looks a loaded post up, to learn whether the reader may see it
Deleted(i) ==
    /\ ~BusPaused /\ <<"deleted", i>> \in bus
    /\ bus' = bus \ {<<"deleted", i>>}
    /\ checking' = IF Loaded(i) THEN checking \cup {i} ELSE checking
    /\ upset' = upset \cup Outdated
    /\ UNCHANGED <<server, shown, staging, create, refresh, call, new_posts>>

\* the lookup finds nothing, or fails
Checked(i) ==
    /\ i \in checking
    /\ checking' = checking \ {i}
    /\ RemovePost(i)
    /\ UNCHANGED <<server, bus, staging, create, refresh, call, new_posts, upset>>

\* triggerDestroyedPost; for a post that is not loaded it raises an error
Destroyed(i) ==
    /\ ~BusPaused /\ <<"destroyed", i>> \in bus
    /\ bus' = bus \ {<<"destroyed", i>>}
    /\ IF Loaded(i) THEN RemovePost(i) ELSE UNCHANGED shown
    /\ upset' = upset \cup Outdated
    /\ UNCHANGED <<server, staging, create, refresh, call, new_posts, checking>>

Next ==
    \/ Post \/ (\E i \in Ids : Delete(i))
    \/ (\E staged \in BOOLEAN : CreatePost(staged)) \/ ServeCreate \/ CommitPost \/ UndoPost
    \/ AppendMore \/ PrependMore
    \/ \E c \in Calls : Serve(c) \/ Arrive(c) \/ Fail(c)
    \/ (\E near \in Ids : Refresh(near)) \/ ServeRefresh \/ UpdateFromJson \/ ErrorLoading
    \/ Retry
    \/ \E i \in Ids : Created(i) \/ Deleted(i) \/ Checked(i) \/ Destroyed(i)

Spec == Init /\ [][Next]_vars

-----------------------------------------------------------------------------

TypeOK ==
    /\ visible \subseteq 1..last_post /\ last_post \in First..MaxPost
    /\ deletions \in 0..MaxDeletions
    /\ bus \subseteq Messages
    /\ stream \in Seq(Ids \cup {Staged}) /\ posts \in Seq(Ids \cup {Staged})
    /\ imap \subseteq Ids \cup {Staged}
    /\ Range(posts) \subseteq imap
    /\ staging \in BOOLEAN
    /\ create \in [pc : {"idle", "sent", "served"}, id : 0..MaxPost]
    /\ refresh \in [pc : {"idle", "sent", "served"}, near : 0..MaxPost, got : SUBSET Ids]
    /\ call \in [Calls -> [pc : {"idle", "sent", "served"}, ids : Seq(Ids), wanted : SUBSET Ids, got : SUBSET Ids]]
    /\ new_posts \in Seq(Ids)
    /\ checking \subseteq Ids
    /\ upset \subseteq {"failed", "disordered", "outdated"}

\* No post is listed or shown twice: the message of the reader's own post and
\* the answer of its creation both add it, in an order the bus sees to.
NoTwins == IsInjective(stream) /\ IsInjective(posts)

\* Whatever becomes of the reader's post, of messages and of jumps meanwhile,
\* nothing staged stays behind (commitPost, undoPost).
StagedIsResolved ==
    create.pc = "idle" => ~staging /\ Staged \notin Range(stream) \cup Range(posts) \cup imap

\* The posts shown are in order and leave no post of the stream out, deleted
\* ones aside, unless a request failed or posts were disordered: a jump overtook
\* a request, the reader posted while a new post was on its way, or new posts
\* were told of in reverse order (post_creator.rb:214 publishes when the mutex
\* is free).
LoadedIsWindow ==
    upset \subseteq {"outdated"} =>
        LET here == Keep(posts, visible)
        IN  /\ \A k \in 1..(Len(here) - 1) : here[k] < here[k + 1]
            /\ here # <<>> => Range(stream) \cap visible \cap Head(here)..Last(here) \subseteq Range(here)

AtRest ==
    /\ bus = {} /\ new_posts = <<>> /\ checking = {}
    /\ create.pc = "idle" /\ refresh.pc = "idle" /\ \A c \in Calls : call[c].pc = "idle"

\* When everything has arrived, the stream has every post, unless a request
\* failed or an answer was older than a message handled before it.
NothingMissed == AtRest /\ upset \cap {"failed", "outdated"} = {} => visible \subseteq Range(stream)

\* When everything has arrived, no deleted post is shown, unless an answer was
\* older than the message of the deletion.
NoGhosts == AtRest /\ "outdated" \notin upset => Range(posts) \subseteq visible

\* A reader who scrolls down gets on: when everything has arrived and the next
\* window has a post that still exists, it can be asked for, and it has a post
\* that is not shown yet, unless a request failed or posts were disordered.
NeverStuck ==
    AtRest /\ upset \subseteq {"outdated"} /\ posts # <<>> /\ ~LoadedAllPosts /\ Range(NextWindow) \cap visible # {} =>
        CanAppendMore /\ ~(Range(NextWindow) \subseteq Range(posts))

\* "Appends the next window of posts to the stream" (post-stream.js:475): what
\* is appended follows the last post shown.
AppendsNextWindow ==
    [][Arrive("append") /\ posts' # posts /\ posts # <<>> /\ "failed" \notin upset
         => posts'[Len(posts) + 1] \in Range(NextWindow)]_vars

=============================================================================
