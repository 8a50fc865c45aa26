--------------------------- MODULE PresenceChannel ---------------------------
(***************************************************************************)
(* lib/presence_channel.rb: who is present in one channel, kept in Redis   *)
(* by Lua scripts, and announced over the message bus to the browsers that *)
(* subscribed to the channel (frontend services/presence.js).              *)
(*                                                                         *)
(* A script is one step; it changes Redis, and when a user enters or       *)
(* leaves it takes the channel's mutex, which its process releases after   *)
(* it has published the message.  A script that needs the mutex and does   *)
(* not get it raises an error and is tried again (retry_on_mutex_error),   *)
(* so here it waits.                                                       *)
(*                                                                         *)
(* The times a script works with are computed in Ruby before it runs, for  *)
(* each try anew: any time since the request began.                        *)
(***************************************************************************)
EXTENDS Integers, Sequences, FiniteSets, FiniteSetsExt

CONSTANTS
    Procs,          \* server processes, the auto_leave job's among them
    Sessions,       \* browser sessions: <<user_id, client_id>>
    Timeout,        \* timeout of the channel
    MaxTime,        \* bound on the clock
    MaxChanges      \* bound on entries and departures

Nobody == "nobody"

ASSUME PresenceAssumption ==
    /\ IsFiniteSet(Sessions)
    /\ Nobody \notin Procs
    /\ \A s \in Sessions : DOMAIN s = 1..2
    /\ {Timeout, MaxTime, MaxChanges} \subseteq Nat
    /\ MaxTime > 0

VARIABLES
    now,
    zlist,          \* session -> time at which it expires, 0 when absent
    hash,           \* user -> number of sessions
    channels,       \* score of the channel in the global list, 0 when absent
    mutex,          \* the mutex_value stored, by its process
    work,           \* process -> what it has still to do
    messages,       \* the backlog of the channel's message bus channel
    viewer,         \* a browser that follows the channel
    changes,        \* entries and departures so far
    seen,           \* (history) when a script last listed the session, 0 when absent
    faults          \* (history) what has gone wrong so far

vars == <<now, zlist, hash, channels, mutex, work, messages, viewer, changes, seen, faults>>
redisVars == <<zlist, hash, channels>>

User(s) == s[1]
Users == {User(s) : s \in Sessions}

Nothing == [at |-> "idle", since |-> 0, entering |-> {}, leaving |-> {}, change |-> 0]

\* The bus has not been asked yet where it stands
Unpolled == -1
Unsubscribed == [subscribed |-> FALSE, lastSeenId |-> 0, position |-> 0, user_ids |-> {}, count |-> 0]

Init ==
    /\ now = 1
    /\ zlist = [s \in Sessions |-> 0]
    /\ hash = [u \in Users |-> 0]
    /\ channels = 0
    /\ mutex = Nobody
    /\ work = [p \in Procs |-> Nothing]
    /\ messages = <<>>
    /\ viewer = Unsubscribed
    /\ changes = 0
    /\ seen = [s \in Sessions |-> 0]
    /\ faults = {}

Listed == {s \in Sessions : zlist[s] # 0}
PresentUsers == {u \in Users : hash[u] > 0}
MutexLocked == mutex # Nobody

-----------------------------------------------------------------------------
(* The scripts *)

UpdateGlobal_Newest_M(zl) ==
    LET times == {zl[s] : s \in Sessions} \ {0}
    IN  IF times = {} THEN 0 ELSE Max(times)

\* UPDATE_GLOBAL_CHANNELS_LUA: the time of the session that expires first
UpdateGlobal(zl) ==
    LET times == {zl[s] : s \in Sessions} \ {0}
    IN  IF times = {} THEN 0 ELSE Min(times)

\* The script changed who is present: its process has to publish that
Announce(p, entering, leaving) ==
    /\ changes < MaxChanges
    /\ changes' = changes + 1
    /\ mutex' = p
    /\ work' = [work EXCEPT ![p] = [at |-> "publish", since |-> 0, entering |-> entering,
                                    leaving |-> leaving, change |-> changes + 1]]

Done(p) == work' = [work EXCEPT ![p] = Nothing]
NoAnnouncement(p) == Done(p) /\ UNCHANGED <<changes, mutex>>

Idle(p) == work[p].at = "idle"

\* A call of present, or the job that found the channel, begins
Begin(p, at) ==
    /\ Idle(p)
    /\ work' = [work EXCEPT ![p] = [at |-> at, since |-> now, entering |-> {}, leaving |-> {}, change |-> 0]]
    /\ UNCHANGED <<redisVars, now, mutex, messages, viewer, changes, seen, faults>>

\* The time computed for the try that gets through
Times(p) == work[p].since..now

PresentMustWait_Never_M(s) == FALSE

PresentMustWait(s) == MutexLocked /\ hash[User(s)] = 0

Added_Always_M(s) == TRUE

\* ZADD adds an element that was not there
Added(s) == zlist[s] = 0

BeginPresent(p) == Begin(p, "present")

\* script "present": a first sign of life or a later one
Present(p, s) ==
    LET u == User(s)
        added == Added(s)
    IN  /\ work[p].at = "present"
        /\ ~PresentMustWait(s)
        /\ \E time \in Times(p) :
              /\ zlist' = [zlist EXCEPT ![s] = time + Timeout]
              /\ channels' = IF added /\ channels = 0 THEN time + Timeout ELSE channels
        /\ hash' = IF added THEN [hash EXCEPT ![u] = @ + 1] ELSE hash
        /\ seen' = [seen EXCEPT ![s] = now]
        /\ IF added /\ hash[u] = 0 THEN Announce(p, {u}, {}) ELSE NoAnnouncement(p)
        /\ UNCHANGED <<now, messages, viewer, faults>>

\* Lua's ==: what HGET returns is a string, and no string equals a number
LuaEqual(reply, number) == FALSE

LeaveMustWait(s) == MutexLocked /\ LuaEqual(hash[User(s)], 1) /\ zlist[s] # 0

\* script "leave"
Leave(p, s) ==
    LET u == User(s)
        last == hash[u] <= 1
    IN  /\ Idle(p)
        /\ ~LeaveMustWait(s)
        /\ zlist[s] # 0
        /\ zlist' = [zlist EXCEPT ![s] = 0]
        /\ seen' = [seen EXCEPT ![s] = 0]
        /\ channels' = UpdateGlobal(zlist')
        /\ hash' = [hash EXCEPT ![u] = @ - 1]
        /\ IF last THEN Announce(p, {}, {u}) ELSE NoAnnouncement(p)
        /\ faults' = IF last /\ MutexLocked THEN faults \cup {"stolen"} ELSE faults
        /\ UNCHANGED <<now, messages, viewer>>

Expired(time) == {s \in Listed : zlist[s] <= time}

Sessionless(S) == {u \in Users : hash[u] = Cardinality({s \in S : User(s) = u})} \cap PresentUsers

Expire_OncePerUser_M(S) ==
    /\ zlist' = [s \in Sessions |-> IF s \in S THEN 0 ELSE zlist[s]]
    /\ seen' = [s \in Sessions |-> IF s \in S THEN 0 ELSE seen[s]]
    /\ hash' = [u \in Users |-> IF \E s \in S : User(s) = u THEN hash[u] - 1 ELSE hash[u]]

\* expireOld, for the sessions in S
Expire(S) ==
    /\ zlist' = [s \in Sessions |-> IF s \in S THEN 0 ELSE zlist[s]]
    /\ seen' = [s \in Sessions |-> IF s \in S THEN 0 ELSE seen[s]]
    /\ hash' = [u \in Users |-> hash[u] - Cardinality({s \in S : User(s) = u})]

\* auto_leave_all only looks at channels whose time has come
AutoLeaveDue == channels # 0 /\ channels <= now

BeginAutoLeave(p) == AutoLeaveDue /\ Begin(p, "auto_leave")

\* script "auto_leave" when it gets the mutex, or needs none
AutoLeave(p) ==
    \E time \in Times(p) :
        LET left == Sessionless(Expired(time))
        IN  /\ work[p].at = "auto_leave"
            /\ left = {} \/ ~MutexLocked
            /\ Expire(Expired(time))
            /\ channels' = UpdateGlobal(zlist')
            /\ IF left # {} THEN Announce(p, {}, left) ELSE NoAnnouncement(p)
            /\ UNCHANGED <<now, messages, viewer, faults>>

\* the same script stops at the first session that needs the mutex; what it did
\* until then is not undone (sessions that expire at the same time come in any
\* order), and it is tried again
AutoLeaveStops(p) ==
    /\ work[p].at = "auto_leave"
    /\ MutexLocked
    /\ \E time \in Times(p) : \E S \in SUBSET Expired(time), b \in Expired(time) :
          /\ S # {} /\ b \notin S
          /\ Sessionless(S) = {}
          /\ User(b) \in Sessionless(S \cup {b})
          /\ \A s \in S : zlist[s] <= zlist[b]
          /\ \A s \in Expired(time) \ S : zlist[s] >= zlist[b]
          /\ Expire(S)
    /\ UNCHANGED <<now, channels, mutex, work, messages, viewer, changes, faults>>

-----------------------------------------------------------------------------
(* After a script: publish_message, and release_mutex in its ensure *)

Message(p) == [entering |-> work[p].entering, leaving |-> work[p].leaving,
               change |-> work[p].change]

Publish(p) ==
    /\ work[p].at = "publish"
    /\ messages' = Append(messages, Message(p))
    /\ work' = [work EXCEPT ![p].at = "release"]
    /\ UNCHANGED <<redisVars, now, mutex, viewer, changes, seen, faults>>

PublishFails(p) ==
    /\ work[p].at = "publish"
    /\ work' = [work EXCEPT ![p].at = "release"]
    /\ faults' = faults \cup {"lost"}
    /\ UNCHANGED <<redisVars, now, mutex, messages, viewer, changes, seen>>

\* script "release_mutex": only if it is still this process's
Release(p) ==
    /\ work[p].at = "release"
    /\ mutex' = IF mutex = p THEN Nobody ELSE mutex
    /\ Done(p)
    /\ UNCHANGED <<redisVars, now, messages, viewer, changes, seen, faults>>

\* the process dies, and another one takes its place
Die(p) ==
    /\ ~Idle(p)
    /\ Done(p)
    /\ faults' = IF work[p].at = "publish" THEN faults \cup {"lost"} ELSE faults
    /\ UNCHANGED <<redisVars, now, mutex, messages, viewer, changes, seen>>

\* MUTEX_TIMEOUT_SECONDS are over
MutexExpires ==
    /\ MutexLocked
    /\ mutex' = Nobody
    /\ faults' = IF work[mutex].at = "publish" THEN faults \cup {"expired"} ELSE faults
    /\ UNCHANGED <<redisVars, now, work, messages, viewer, changes, seen>>

Tick ==
    /\ now < MaxTime
    /\ now' = now + 1
    /\ UNCHANGED <<redisVars, mutex, work, messages, viewer, changes, seen, faults>>

-----------------------------------------------------------------------------
(* The browser that follows the channel *)

\* The state of the server: who is present, and the last id of the bus; without
\* one, where the bus stands only shows at the first poll
Answer == [subscribed |-> TRUE, lastSeenId |-> Len(messages),
           position |-> IF messages = <<>> THEN Unpolled ELSE Len(messages),
           user_ids |-> PresentUsers, count |-> Cardinality(PresentUsers)]

Subscribe_NoMutexCheck_M ==
    /\ ~viewer.subscribed
    /\ viewer' = Answer
    /\ UNCHANGED <<redisVars, now, mutex, work, messages, changes, seen, faults>>

\* subscribe, with the answer of a script that needs the mutex free
Subscribe ==
    /\ ~viewer.subscribed
    /\ ~MutexLocked
    /\ viewer' = Answer
    /\ UNCHANGED <<redisVars, now, mutex, work, messages, changes, seen, faults>>

\* The first poll of a subscription without an id: only what comes now is sent
Poll ==
    /\ viewer.subscribed /\ viewer.position = Unpolled
    /\ viewer' = [viewer EXCEPT !.position = Len(messages)]
    /\ UNCHANGED <<redisVars, now, mutex, work, messages, changes, seen, faults>>

\* The bus sends the next message
Receives(id) ==
    /\ viewer.subscribed /\ viewer.position # Unpolled /\ viewer.position < Len(messages)
    /\ id = viewer.position + 1

\* _processMessage of the next message; user_ids is what a list of users
\* becomes, count what the counter of a count_only channel becomes
ProcessMessage ==
    LET id == viewer.position + 1
        m == messages[id]
    IN  /\ Receives(id)
        /\ id = viewer.lastSeenId + 1
        /\ viewer' = [viewer EXCEPT
             !.lastSeenId = id,
             !.position = id,
             !.user_ids = (@ \cup m.entering) \ m.leaving,
             !.count = @ + Cardinality(m.entering) - Cardinality(m.leaving)]
        /\ UNCHANGED <<redisVars, now, mutex, work, messages, changes, seen, faults>>

\* _resubscribe, when the id is not the one expected
Resubscribe ==
    /\ Receives(viewer.position + 1)
    /\ viewer.position # viewer.lastSeenId
    /\ viewer' = Unsubscribed
    /\ UNCHANGED <<redisVars, now, mutex, work, messages, changes, seen, faults>>

\* the user turns away
Unsubscribe ==
    /\ viewer.subscribed
    /\ viewer' = Unsubscribed
    /\ UNCHANGED <<redisVars, now, mutex, work, messages, changes, seen, faults>>

-----------------------------------------------------------------------------
Proceed(p) == Publish(p) \/ PublishFails(p) \/ Release(p) \/ Die(p)

Next ==
    \/ Tick \/ MutexExpires \/ Subscribe \/ Poll \/ ProcessMessage \/ Resubscribe \/ Unsubscribe
    \/ \E p \in Procs : BeginPresent(p) \/ BeginAutoLeave(p) \/ AutoLeave(p) \/ AutoLeaveStops(p) \/ Proceed(p)
    \/ \E p \in Procs, s \in Sessions : Present(p, s) \/ Leave(p, s)

Spec == Init /\ [][Next]_vars

-----------------------------------------------------------------------------
(* Properties *)

TypeOK ==
    /\ zlist \in [Sessions -> 0..MaxTime + Timeout]
    /\ hash \in [Users -> 0..Cardinality(Sessions)]
    /\ channels \in 0..MaxTime + Timeout
    /\ mutex \in Procs \cup {Nobody}
    /\ \A p \in Procs : work[p].at \in {"idle", "present", "auto_leave", "publish", "release"}
    /\ viewer.lastSeenId <= Len(messages) /\ viewer.position <= Len(messages)
    /\ faults \subseteq {"stolen", "lost", "expired"}

\* The hash counts the sessions in the list, whatever scripts ran and however
\* far an auto_leave came before it met the mutex: nobody stays present
\* without a session or goes while having one (presence_channel.rb:482-491,
\* 513-530, 583-626).
HashCountsSessions ==
    \A u \in Users : hash[u] = Cardinality({s \in Listed : User(s) = u})

\* A session is never overlooked: auto_leave_all looks at the channel no later
\* than Timeout after the last sign of life that each session in it stored
\* (presence_channel.rb:223-227, 460-470, 492-494).  (Not always by the time it
\* expires: scripts may run in another order than their times were computed.)
ChannelDueInTime == \A s \in Listed : channels # 0 /\ channels <= seen[s] + Timeout

\* "we need to make sure the messagebus messages are published in the same
\* sequence that the PresenceChannel lua script are run"
\* (presence_channel.rb:365-367).
InSequence ==
    \A i, j \in DOMAIN messages : i < j => messages[i].change < messages[j].change

\* It is so unless a leave took the mutex away from somebody, or a mutex
\* expired before its message was out.
PublishedInSequence == faults \cap {"stolen", "expired"} = {} => InSequence

\* A browser that has all the bus has sent it shows, while nobody holds the
\* mutex, who is present, in a list as in a count, whenever it subscribed: no
\* change falls between the state it got and the messages after it
\* (presence_channel.rb:536-580, presence.js:160-190).  Only the first message
\* of a channel may, between the state and the first poll; the next one tells.
ViewerIsRight ==
    /\ faults = {}
    /\ viewer.subscribed
    /\ viewer.position = Len(messages)
    /\ ~MutexLocked
    => \/ viewer.user_ids = PresentUsers /\ viewer.count = Cardinality(PresentUsers)
       \/ viewer.lastSeenId = 0 /\ viewer.position > 0
=============================================================================
