---------------------------- MODULE MCTopicPosts ----------------------------
(***************************************************************************)
(* A topic of three posts for TLC: the first post, a reply to it, and a    *)
(* deleted whisper.                                                        *)
(***************************************************************************)
EXTENDS TopicPosts, TLC

CONSTANTS r1, r2, r3
TwoRequests == {r1, r2}
ThreeRequests == {r1, r2, r3}
Symmetry == Permutations(ThreeRequests)

MCInitialPosts ==
    << [state |-> "live", whisper |-> FALSE, parents |-> {}],
       [state |-> "live", whisper |-> FALSE, parents |-> {1}],
       [state |-> "trashed", whisper |-> TRUE, parents |-> {}] >>

Reply(to, quotes, whisper) ==
    [kind |-> "reply", to |-> to, quotes |-> quotes, whisper |-> whisper]
On(kind, n) == [kind |-> kind, post |-> n]

Replies == {Reply(2, <<>>, FALSE), Reply(0, <<>>, TRUE)}
Close == [kind |-> "close"]
Reset == [kind |-> "reset"]

\* everything but closing: what PostCreator's mutex was made for
Unclosed == Replies \cup {Reply(1, <<2>>, FALSE), Reply(3, <<>>, FALSE), Reset}
              \cup {On("like", 2), On("like", 3), On("destroy", 2), On("recover", 3)}

Everything == Unclosed \cup {Close}

ReplyAndClose == {Reply(1, <<>>, FALSE), Close}

\* Requests go on, Postgres resolves its deadlocks, and time passes while the
\* mutex is taken (other seconds change nothing, and the clock is bounded).
\* Nobody is obliged to be killed.
LeaseTick == Tick /\ until # Mutex!NoLease
LiveSpec ==
    /\ Init
    /\ [][Next /\ (clock' # clock => LeaseTick)]_vars
    /\ WF_vars(LeaseTick)
    /\ \A r \in Requests : WF_vars(Step(r)) /\ WF_vars(DeadlockVictim(r))
=============================================================================
