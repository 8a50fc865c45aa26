----------------------- MODULE PresenceChannel_proofs -----------------------
(***************************************************************************)
(* For any finite set of sessions and any number of processes:             *)
(*   - the hash of a channel counts its sessions, and the channel is due   *)
(*     no later than Timeout after the last script that listed any of      *)
(*     them, in whatever order the scripts come with their times;          *)
(*   - messages are published in the order of the scripts they announce    *)
(*     unless a leave took the mutex from another process or a mutex       *)
(*     expired before its message was out;                                 *)
(*   - a browser that has all the bus has sent it shows who is present: some    *)
(*     list of states leads, message by message, from what it shows to who *)
(*     is present but for the change not published yet.                    *)
(***************************************************************************)
EXTENDS PresenceChannel, FiniteSetTheorems, WellFoundedInduction, TLAPS

Announcements == [entering : SUBSET Users, leaving : SUBSET Users, change : Nat]

Work == [at : {"idle", "present", "auto_leave", "publish", "release"}, since : Nat,
         entering : SUBSET Users, leaving : SUBSET Users, change : Nat]

\* A request began at some time that was.
Works ==
    /\ work \in [Procs -> Work]
    /\ \A p \in Procs : work[p].at \in {"present", "auto_leave"} => work[p].since \in 1..now

Types ==
    /\ now \in Nat \ {0}
    /\ zlist \in [Sessions -> Nat]
    /\ hash \in [Users -> Int]
    /\ mutex \in Procs \cup {Nobody}
    /\ Works
    /\ seen \in [Sessions -> Nat]
    /\ messages \in Seq(Announcements)
    /\ changes \in Nat

SessionsOf(u, S) == {s \in S : User(s) = u}

Orderly == faults \cap {"stolen", "expired"} = {}

\* Whoever has yet to publish has the mutex.
PublisherHasMutex == \A p \in Procs : work[p].at = "publish" => mutex = p

\* The change to be published is newer than all that were.
PublisherIsNewest ==
    \A p \in Procs : work[p].at = "publish" =>
        \A i \in DOMAIN messages : messages[i].change < work[p].change

ChangesAreCounted ==
    /\ \A p \in Procs : work[p].change <= changes
    /\ \A i \in DOMAIN messages : messages[i].change <= changes

\* PublishedInSequence is not inductive by itself: a process publishes some
\* time after its script, and it is the mutex that nobody got in between.
Ordered ==
    /\ ChangesAreCounted
    /\ Orderly => PublisherHasMutex /\ PublisherIsNewest /\ InSequence

IInv == Types /\ HashCountsSessions /\ Ordered

-----------------------------------------------------------------------------
(* Lemmas *)

LEMMA UserType == \A s \in Sessions : User(s) \in Users
BY DEF Users

LEMMA SessionsFinite ==
    ASSUME NEW S \in SUBSET Sessions, NEW u
    PROVE  IsFiniteSet(SessionsOf(u, S)) /\ Cardinality(SessionsOf(u, S)) \in Nat
<1>1. SessionsOf(u, S) \subseteq Sessions
  BY DEF SessionsOf
<1> QED
  BY <1>1, FS_Subset, FS_CardinalityType, PresenceAssumption

\* What a script may do to the lock and the work of its process.
LEMMA AnnounceOrder ==
    ASSUME IInv, NEW p \in Procs, NEW entering \in SUBSET Users, NEW leaving \in SUBSET Users,
           Announce(p, entering, leaving), messages' = messages,
           MutexLocked => "stolen" \in faults', faults \subseteq faults', now' = now
    PROVE  Ordered' /\ changes' \in Nat /\ mutex' \in Procs /\ Works'
<1>1. /\ changes' = changes + 1 /\ changes' \in Nat /\ mutex' = p
      /\ work' = [work EXCEPT ![p] = [at |-> "publish", since |-> 0, entering |-> entering,
                                      leaving |-> leaving, change |-> changes + 1]]
  BY DEF Announce, IInv, Types
<1>2. work' \in [Procs -> Work]
  <2>1. [at |-> "publish", since |-> 0, entering |-> entering, leaving |-> leaving, change |-> changes + 1] \in Work
    BY DEF Work, IInv, Types
  <2> QED
    BY <1>1, <2>1 DEF IInv, Types, Works
<1>3. /\ work'[p].at = "publish" /\ work'[p].change = changes + 1
      /\ \A q \in Procs \ {p} : work'[q] = work[q]
  BY <1>1 DEF IInv, Types, Works
<1>4. /\ \A q \in Procs : work[q].change \in Nat
      /\ \A i \in DOMAIN messages : messages[i].change \in Nat
  <2>1. \A i \in DOMAIN messages : messages[i] \in Announcements
    BY DEF IInv, Types
  <2> QED
    BY <2>1 DEF IInv, Types, Works, Work, Announcements
<1>5. ChangesAreCounted'
  BY <1>1, <1>3, <1>4 DEF IInv, Ordered, ChangesAreCounted, Types
<1>6. ASSUME Orderly' PROVE PublisherHasMutex' /\ PublisherIsNewest' /\ InSequence'
  <2>1. Orderly /\ ~MutexLocked
    BY <1>6 DEF Orderly
  <2>2. \A q \in Procs : work[q].at # "publish"
    BY <2>1, PresenceAssumption DEF IInv, Ordered, PublisherHasMutex, MutexLocked
  <2>3. PublisherHasMutex'
    BY <1>1, <1>3, <2>2 DEF PublisherHasMutex
  <2>4. PublisherIsNewest'
    <3>1. /\ changes \in Nat /\ DOMAIN messages' = DOMAIN messages
          /\ \A i \in DOMAIN messages : messages'[i].change \in Nat /\ messages'[i].change <= changes
      BY <1>4 DEF IInv, Types, Ordered, ChangesAreCounted
    <3>2. \A q \in Procs : work'[q].at = "publish" => q = p
      BY <1>3, <2>2
    <3> QED
      BY <1>3, <3>1, <3>2 DEF PublisherIsNewest
  <2>5. InSequence'
    BY <2>1 DEF IInv, Ordered, InSequence
  <2> QED
    BY <2>3, <2>4, <2>5
<1>7. Works'
  BY <1>2, <1>3 DEF IInv, Types, Works
<1> QED
  BY <1>1, <1>5, <1>6, <1>7 DEF Ordered

\* A process that has nothing to publish turns to something else.
LEMMA TurnsOrder ==
    ASSUME IInv, NEW p \in Procs, NEW w, work' = [work EXCEPT ![p] = w],
           w.at # "publish", w.change = 0,
           UNCHANGED <<changes, mutex, messages>>, faults \subseteq faults'
    PROVE  Ordered'
<1>1. work'[p] = w /\ \A q \in Procs \ {p} : work'[q] = work[q]
  BY DEF IInv, Types, Works
<1>2. ChangesAreCounted'
  BY <1>1 DEF IInv, Types, Ordered, ChangesAreCounted
<1>3. ASSUME Orderly' PROVE PublisherHasMutex' /\ PublisherIsNewest' /\ InSequence'
  <2>1. Orderly
    BY <1>3 DEF Orderly
  <2> QED
    BY <1>1, <2>1 DEF IInv, Ordered, PublisherHasMutex, PublisherIsNewest, InSequence
<1> QED
  BY <1>2, <1>3 DEF Ordered

LEMMA QuietOrder ==
    ASSUME IInv, NEW p \in Procs, NoAnnouncement(p), messages' = messages, faults \subseteq faults',
           now' = now
    PROVE  Ordered' /\ changes' \in Nat /\ mutex' \in Procs \cup {Nobody} /\ Works'
<1>1. Nothing \in Work /\ Nothing.at = "idle" /\ Nothing.change = 0
  BY DEF Nothing, Work
<1>2. work' = [work EXCEPT ![p] = Nothing] /\ UNCHANGED <<changes, mutex>>
  BY DEF NoAnnouncement, Done
<1>3. Ordered'
  BY <1>1, <1>2, TurnsOrder
<1>4. Works'
  BY <1>1, <1>2 DEF IInv, Types, Works
<1> QED
  BY <1>2, <1>3, <1>4 DEF IInv, Types

LEMMA BeginStep ==
    ASSUME IInv, NEW p \in Procs, NEW at \in {"present", "auto_leave"}, Begin(p, at)
    PROVE  IInv'
<1> DEFINE w == [at |-> at, since |-> now, entering |-> {}, leaving |-> {}, change |-> 0]
<1>1. w \in Work /\ w.at # "publish" /\ w.change = 0 /\ w.since \in 1..now
  <2>1. now \in Nat \ {0}
    BY DEF IInv, Types
  <2> QED
    BY <2>1 DEF Work
<1>2. work' = [work EXCEPT ![p] = w]
  BY DEF Begin
<1>3. UNCHANGED <<redisVars, now, mutex, messages, changes, seen, faults>>
  BY DEF Begin
<1> HIDE DEF w
<1>4. Ordered'
  BY <1>1, <1>2, <1>3, TurnsOrder
<1>5. Works'
  BY <1>1, <1>2, <1>3 DEF IInv, Types, Works
<1>6. HashCountsSessions'
  BY <1>3 DEF IInv, HashCountsSessions, Listed, redisVars
<1> QED
  BY <1>3, <1>4, <1>5, <1>6 DEF IInv, Types, redisVars

\* A session that enters or leaves changes the count of its user by one.
LEMMA OneMore ==
    ASSUME IInv, NEW s \in Sessions, zlist[s] = 0, NEW t \in Nat \ {0},
           zlist' = [zlist EXCEPT ![s] = t], hash' = [hash EXCEPT ![User(s)] = @ + 1]
    PROVE  HashCountsSessions' /\ hash' \in [Users -> Int] /\ zlist' \in [Sessions -> Nat]
<1>1. /\ Listed' = Listed \cup {s} /\ s \notin Listed /\ Listed \subseteq Sessions
      /\ zlist' \in [Sessions -> Nat] /\ hash' \in [Users -> Int]
  BY UserType DEF Listed, IInv, Types
<1>2. ASSUME NEW u \in Users PROVE hash'[u] = Cardinality(SessionsOf(u, Listed'))
  <2>1. hash[u] = Cardinality(SessionsOf(u, Listed))
    BY DEF IInv, HashCountsSessions, SessionsOf
  <2>2. CASE u = User(s)
    <3>1. SessionsOf(u, Listed') = SessionsOf(u, Listed) \cup {s} /\ s \notin SessionsOf(u, Listed)
      BY <1>1, <2>2 DEF SessionsOf
    <3>2. Cardinality(SessionsOf(u, Listed')) = Cardinality(SessionsOf(u, Listed)) + 1
      <4>1. IsFiniteSet(SessionsOf(u, Listed))
        BY <1>1, SessionsFinite
      <4> QED
        BY <3>1, <4>1, FS_AddElement
    <3> QED
      BY <2>1, <2>2, <3>2 DEF IInv, Types
  <2>3. CASE u # User(s)
    <3>1. SessionsOf(u, Listed') = SessionsOf(u, Listed)
      BY <1>1, <2>3 DEF SessionsOf
    <3> QED
      BY <2>1, <2>3, <3>1 DEF IInv, Types
  <2> QED
    BY <2>2, <2>3
<1> QED
  BY <1>1, <1>2 DEF HashCountsSessions, SessionsOf

\* What expireOld does for any of the sessions listed.
LEMMA ExpireCounts ==
    ASSUME IInv, NEW S \in SUBSET Listed, Expire(S)
    PROVE  /\ HashCountsSessions' /\ hash' \in [Users -> Int] /\ zlist' \in [Sessions -> Nat]
           /\ seen' \in [Sessions -> Nat]
<1>1. /\ Listed' = Listed \ S /\ Listed \subseteq Sessions /\ S \subseteq Sessions
      /\ zlist' \in [Sessions -> Nat] /\ seen' \in [Sessions -> Nat]
  BY DEF Expire, Listed, IInv, Types
<1>2. ASSUME NEW u \in Users
      PROVE  hash'[u] = Cardinality(SessionsOf(u, Listed')) /\ hash'[u] \in Int
  <2>1. hash[u] = Cardinality(SessionsOf(u, Listed))
    BY DEF IInv, HashCountsSessions, SessionsOf
  <2>2. hash'[u] = hash[u] - Cardinality(SessionsOf(u, S))
    BY DEF Expire, SessionsOf
  <2>3. /\ SessionsOf(u, Listed') = SessionsOf(u, Listed) \ SessionsOf(u, S)
        /\ SessionsOf(u, S) \subseteq SessionsOf(u, Listed)
    BY <1>1 DEF SessionsOf
  <2>4. SessionsOf(u, Listed) \cap SessionsOf(u, S) = SessionsOf(u, S)
    BY <2>3
  <2>5. Cardinality(SessionsOf(u, Listed')) =
          Cardinality(SessionsOf(u, Listed)) - Cardinality(SessionsOf(u, S))
    <3>1. IsFiniteSet(SessionsOf(u, Listed))
      BY <1>1, SessionsFinite
    <3>2. Cardinality(SessionsOf(u, Listed) \ SessionsOf(u, S)) =
            Cardinality(SessionsOf(u, Listed)) - Cardinality(SessionsOf(u, Listed) \cap SessionsOf(u, S))
      BY <3>1, FS_Difference
    <3> QED
      BY <2>3, <2>4, <3>2
  <2> QED
    BY <1>1, <2>1, <2>2, <2>5, SessionsFinite
<1>3. hash' = [u \in Users |-> hash'[u]]
  BY DEF Expire
<1> QED
  BY <1>1, <1>2, <1>3 DEF HashCountsSessions, SessionsOf

\* One session that leaves is a set of sessions that expires.
LEMMA OneLess ==
    ASSUME IInv, NEW s \in Sessions, zlist[s] # 0,
           zlist' = [zlist EXCEPT ![s] = 0], seen' = [seen EXCEPT ![s] = 0],
           hash' = [hash EXCEPT ![User(s)] = @ - 1]
    PROVE  {s} \in SUBSET Listed /\ Expire({s})
<1>1. /\ zlist' = [x \in Sessions |-> IF x \in {s} THEN 0 ELSE zlist[x]]
      /\ seen' = [x \in Sessions |-> IF x \in {s} THEN 0 ELSE seen[x]]
  BY DEF IInv, Types
<1>2. ASSUME NEW u \in Users
      PROVE  hash'[u] = hash[u] - Cardinality({x \in {s} : User(x) = u})
  <2>1. CASE u = User(s)
    <3>1. {x \in {s} : User(x) = u} = {s}
      BY <2>1
    <3>2. Cardinality({s}) = 1
      BY FS_Singleton
    <3> QED
      BY <2>1, <3>1, <3>2 DEF IInv, Types
  <2>2. CASE u # User(s)
    <3>1. {x \in {s} : User(x) = u} = {}
      BY <2>2
    <3>2. Cardinality({}) = 0
      BY FS_EmptySet
    <3>3. hash'[u] = hash[u] /\ hash[u] \in Int
      BY <2>2 DEF IInv, Types
    <3> QED
      BY <3>1, <3>2, <3>3
  <2> QED
    BY <2>1, <2>2
<1>3. hash' = [u \in Users |-> hash[u] - Cardinality({x \in {s} : User(x) = u})]
  <2>1. hash' = [u \in Users |-> hash'[u]]
    BY DEF IInv, Types
  <2> QED
    BY <1>2, <2>1
<1> QED
  BY <1>1, <1>3 DEF Expire, Listed

-----------------------------------------------------------------------------
(* The steps *)

LEMMA InitIInv == Init => IInv
<1> SUFFICES ASSUME Init PROVE IInv
  OBVIOUS
<1>1. Types
  <2>1. Nothing \in Work
    BY DEF Nothing, Work
  <2>2. messages \in Seq(Announcements)
    BY DEF Init
  <2> QED
    BY <2>1, <2>2 DEF Init, Types, Works, Nothing
<1>2. HashCountsSessions
  <2>1. \A u \in Users : {s \in Listed : User(s) = u} = {}
    BY DEF Init, Listed
  <2> QED
    BY <2>1, FS_EmptySet DEF Init, HashCountsSessions
<1>3. Ordered
  BY DEF Init, Nothing, Ordered, ChangesAreCounted, PublisherHasMutex, PublisherIsNewest,
         InSequence
<1> QED
  BY <1>1, <1>2, <1>3 DEF IInv

LEMMA PresentStep == ASSUME IInv, NEW p \in Procs, NEW s \in Sessions, Present(p, s) PROVE IInv'
<1>1. User(s) \in Users /\ {} \in SUBSET Users /\ {User(s)} \in SUBSET Users
  BY UserType
<1>4. PICK time \in Times(p) : zlist' = [zlist EXCEPT ![s] = time + Timeout]
  BY DEF Present
<1>5. time + Timeout \in Nat \ {0}
  BY PresenceAssumption DEF Present, Times, IInv, Types, Works
<1>6. seen' \in [Sessions -> Nat]
  BY DEF Present, IInv, Types
<1>2. HashCountsSessions' /\ hash' \in [Users -> Int] /\ zlist' \in [Sessions -> Nat]
  <2>1. CASE zlist[s] = 0
    BY <1>4, <1>5, <2>1, OneMore DEF Present, Added
  <2>2. CASE zlist[s] # 0
    <3>1. Listed' = Listed
      BY <1>4, <1>5, <2>2 DEF Listed, IInv, Types
    <3> QED
      BY <1>4, <1>5, <2>2, <3>1 DEF Present, Added, HashCountsSessions, IInv, Types
  <2> QED
    BY <2>1, <2>2
<1>3. Ordered' /\ changes' \in Nat /\ mutex' \in Procs \cup {Nobody} /\ Works'
  <2>1. CASE Added(s) /\ hash[User(s)] = 0
    BY <1>1, <2>1, AnnounceOrder DEF Present, PresentMustWait
  <2>2. CASE ~(Added(s) /\ hash[User(s)] = 0)
    BY <2>2, QuietOrder DEF Present
  <2> QED
    BY <2>1, <2>2
<1> QED
  BY <1>2, <1>3, <1>6 DEF Present, IInv, Types

LEMMA LeaveStep == ASSUME IInv, NEW p \in Procs, NEW s \in Sessions, Leave(p, s) PROVE IInv'
<1>1. {} \in SUBSET Users /\ {User(s)} \in SUBSET Users
  BY UserType
<1>2. HashCountsSessions' /\ hash' \in [Users -> Int] /\ zlist' \in [Sessions -> Nat] /\ seen' \in [Sessions -> Nat]
  BY OneLess, ExpireCounts DEF Leave
<1>3. Ordered' /\ changes' \in Nat /\ mutex' \in Procs \cup {Nobody} /\ Works'
  <2>1. CASE hash[User(s)] <= 1
    BY <1>1, <2>1, AnnounceOrder DEF Leave
  <2>2. CASE ~(hash[User(s)] <= 1)
    BY <2>2, QuietOrder DEF Leave
  <2> QED
    BY <2>1, <2>2
<1> QED
  BY <1>2, <1>3 DEF Leave, IInv, Types

\* What auto_leave does at the time it was given
LEMMA AutoLeaveAt ==
    ASSUME NEW p \in Procs, AutoLeave(p)
    PROVE  \E S \in SUBSET Listed :
              /\ Expire(S) /\ channels' = UpdateGlobal(zlist')
              /\ Sessionless(S) = {} \/ ~MutexLocked
              /\ IF Sessionless(S) # {} THEN Announce(p, {}, Sessionless(S)) ELSE NoAnnouncement(p)
              /\ UNCHANGED <<now, messages, viewer, faults>> /\ work[p].at = "auto_leave"
<1>1. \A time \in Times(p) : Expired(time) \in SUBSET Listed
  BY DEF Expired
<1> QED
  BY <1>1 DEF AutoLeave

LEMMA AutoLeaveStep == ASSUME IInv, NEW p \in Procs, AutoLeave(p) PROVE IInv'
<1>1. PICK S \in SUBSET Listed :
         /\ Expire(S) /\ channels' = UpdateGlobal(zlist')
         /\ Sessionless(S) = {} \/ ~MutexLocked
         /\ IF Sessionless(S) # {} THEN Announce(p, {}, Sessionless(S)) ELSE NoAnnouncement(p)
         /\ UNCHANGED <<now, messages, viewer, faults>>
  BY AutoLeaveAt
<1>2. HashCountsSessions' /\ hash' \in [Users -> Int] /\ zlist' \in [Sessions -> Nat] /\ seen' \in [Sessions -> Nat]
  BY <1>1, ExpireCounts
<1>3. Ordered' /\ changes' \in Nat /\ mutex' \in Procs \cup {Nobody} /\ Works'
  <2>1. CASE Sessionless(S) # {}
    <3>1. {} \in SUBSET Users /\ Sessionless(S) \in SUBSET Users
      BY DEF Sessionless
    <3> QED
      BY <1>1, <2>1, <3>1, AnnounceOrder
  <2>2. CASE Sessionless(S) = {}
    BY <1>1, <2>2, QuietOrder
  <2> QED
    BY <2>1, <2>2
<1> QED
  BY <1>1, <1>2, <1>3 DEF IInv, Types

LEMMA AutoLeaveStopsStep == ASSUME IInv, NEW p \in Procs, AutoLeaveStops(p) PROVE IInv'
<1>1. PICK S \in SUBSET Listed : Expire(S)
  BY DEF AutoLeaveStops, Expired
<1>2. HashCountsSessions' /\ hash' \in [Users -> Int] /\ zlist' \in [Sessions -> Nat] /\ seen' \in [Sessions -> Nat]
  BY <1>1, ExpireCounts
<1>3. UNCHANGED <<now, mutex, work, messages, changes, faults>>
  BY DEF AutoLeaveStops
<1>4. Ordered' /\ Works'
  BY <1>3 DEF IInv, Types, Works, Ordered, ChangesAreCounted, Orderly, PublisherHasMutex, PublisherIsNewest,
              InSequence
<1> QED
  BY <1>2, <1>3, <1>4 DEF IInv, Types

LEMMA SameCounts == ASSUME IInv, UNCHANGED redisVars PROVE HashCountsSessions'
BY DEF IInv, HashCountsSessions, Listed, redisVars

LEMMA PublishStep == ASSUME IInv, NEW p \in Procs, Publish(p) PROVE IInv'
<1>1. /\ work[p].at = "publish" /\ work[p] \in Work /\ Message(p) \in Announcements
      /\ Message(p).change = work[p].change
  BY DEF Publish, IInv, Types, Works, Work, Announcements, Message
<1>2. /\ messages' = Append(messages, Message(p)) /\ messages' \in Seq(Announcements)
      /\ Len(messages') = Len(messages) + 1 /\ messages'[Len(messages) + 1] = Message(p)
      /\ \A i \in 1..Len(messages) : messages'[i] = messages[i]
  BY <1>1 DEF Publish, IInv, Types
<1>3. /\ DOMAIN messages = 1..Len(messages) /\ Len(messages) \in Nat
      /\ DOMAIN messages' = 1..(Len(messages) + 1)
  BY <1>2 DEF IInv, Types
<1>4. /\ work' \in [Procs -> Work] /\ work'[p].at = "release" /\ work'[p].change = work[p].change
      /\ \A q \in Procs \ {p} : work'[q] = work[q]
  BY DEF Publish, IInv, Types, Works, Work
<1>5. Types'
  BY <1>2, <1>4 DEF Publish, redisVars, IInv, Types, Works
<1>6. ChangesAreCounted'
  BY <1>1, <1>2, <1>3, <1>4 DEF Publish, IInv, Ordered, ChangesAreCounted
<1>7. ASSUME Orderly' PROVE PublisherHasMutex' /\ PublisherIsNewest' /\ InSequence'
  <2>1. Orderly /\ PublisherHasMutex /\ PublisherIsNewest /\ InSequence
    BY <1>7 DEF Publish, Orderly, IInv, Ordered
  <2>2. \A q \in Procs : work'[q].at # "publish"
    BY <1>1, <1>4, <2>1 DEF PublisherHasMutex
  <2>3. \A i \in 1..Len(messages) : messages'[i].change < Message(p).change
    BY <1>1, <1>2, <1>3, <2>1 DEF PublisherIsNewest
  <2>4. InSequence'
    <3> SUFFICES ASSUME NEW i \in 1..(Len(messages) + 1), NEW j \in 1..(Len(messages) + 1), i < j
                 PROVE  messages'[i].change < messages'[j].change
      BY <1>3 DEF InSequence
    <3>1. CASE j = Len(messages) + 1
      BY <1>2, <1>3, <2>3, <3>1
    <3>2. CASE j # Len(messages) + 1
      BY <1>2, <1>3, <2>1, <3>2 DEF InSequence
    <3> QED
      BY <3>1, <3>2
  <2> QED
    BY <2>2, <2>4 DEF PublisherHasMutex, PublisherIsNewest
<1>8. HashCountsSessions'
  BY SameCounts DEF Publish
<1> QED
  BY <1>5, <1>6, <1>7, <1>8 DEF IInv, Ordered

\* The other steps of a process give up its work or the mutex.
LEMMA GiveUpStep ==
    ASSUME IInv, NEW p \in Procs, PublishFails(p) \/ Release(p) \/ Die(p)
    PROVE  IInv'
<1>1. /\ UNCHANGED <<redisVars, now, messages, changes, seen>>
      /\ faults \subseteq faults'
      /\ work' \in [Procs -> Work]
      /\ work'[p].at \in {"idle", "release"} /\ work'[p].change \in {0, work[p].change}
      /\ \A q \in Procs \ {p} : work'[q] = work[q]
      /\ mutex' = mutex \/ (mutex = p /\ mutex' = Nobody)
  <2>1. Nothing \in Work
    BY DEF Nothing, Work
  <2>2. CASE PublishFails(p)
    BY <2>2 DEF PublishFails, IInv, Types, Works, Work
  <2>3. CASE Release(p)
    BY <2>1, <2>3 DEF Release, Done, IInv, Types, Works, Nothing
  <2>4. CASE Die(p)
    BY <2>1, <2>4 DEF Die, Done, IInv, Types, Works, Nothing
  <2> QED
    BY <2>2, <2>3, <2>4
<1>2. Types'
  BY <1>1 DEF IInv, Types, Works, redisVars
<1>3. ChangesAreCounted'
  BY <1>1 DEF IInv, Types, Ordered, ChangesAreCounted
<1>4. ASSUME Orderly' PROVE PublisherHasMutex' /\ PublisherIsNewest' /\ InSequence'
  <2>1. Orderly
    BY <1>1, <1>4 DEF Orderly
  <2> QED
    BY <1>1, <2>1 DEF IInv, Ordered, PublisherHasMutex, PublisherIsNewest, InSequence
<1>5. HashCountsSessions'
  BY <1>1, SameCounts
<1> QED
  BY <1>2, <1>3, <1>4, <1>5 DEF IInv, Ordered

LEMMA MutexExpiresStep == ASSUME IInv, MutexExpires PROVE IInv'
<1>1. mutex \in Procs /\ mutex' = Nobody
  BY DEF MutexExpires, MutexLocked, IInv, Types
<1>2. Types'
  BY <1>1 DEF MutexExpires, IInv, Types, Works, redisVars
<1>3. ASSUME Orderly' PROVE PublisherHasMutex' /\ PublisherIsNewest' /\ InSequence'
  <2>1. Orderly /\ work[mutex].at # "publish"
    BY <1>3 DEF MutexExpires, Orderly
  <2>2. \A q \in Procs : work[q].at # "publish"
    BY <2>1 DEF IInv, Ordered, PublisherHasMutex
  <2> QED
    BY <2>1, <2>2 DEF MutexExpires, IInv, Ordered, PublisherHasMutex, PublisherIsNewest, InSequence
<1>4. HashCountsSessions'
  BY SameCounts DEF MutexExpires
<1> QED
  BY <1>2, <1>3, <1>4 DEF MutexExpires, IInv, Ordered, ChangesAreCounted

\* The clock and the browser change nothing of this.
LEMMA OutsideStep ==
    ASSUME IInv, UNCHANGED <<redisVars, mutex, work, messages, changes, seen, faults>>,
           now' = now \/ now' = now + 1
    PROVE  IInv'
<1>1. Types'
  BY DEF IInv, Types, Works, redisVars
<1> QED
  BY <1>1, SameCounts DEF IInv, Ordered, ChangesAreCounted, Orderly, PublisherHasMutex,
                          PublisherIsNewest, InSequence

LEMMA NextIInv == IInv /\ [Next]_vars => IInv'
<1> SUFFICES ASSUME IInv, [Next]_vars PROVE IInv'
  OBVIOUS
<1>1. CASE UNCHANGED vars
  BY <1>1, OutsideStep DEF vars, redisVars
<1>2. CASE Tick \/ Subscribe \/ Poll \/ ProcessMessage \/ Resubscribe \/ Unsubscribe
  BY <1>2, OutsideStep DEF Tick, Subscribe, Poll, ProcessMessage, Resubscribe, Unsubscribe
<1>4. ASSUME NEW p \in Procs, BeginPresent(p) \/ BeginAutoLeave(p) PROVE IInv'
  BY <1>4, BeginStep DEF BeginPresent, BeginAutoLeave
<1>3. ASSUME NEW p \in Procs, AutoLeave(p) \/ AutoLeaveStops(p) \/ Proceed(p) PROVE IInv'
  BY <1>3, AutoLeaveStep, AutoLeaveStopsStep, PublishStep, GiveUpStep DEF Proceed
<1> QED
  BY <1>1, <1>2, <1>3, <1>4, MutexExpiresStep, PresentStep, LeaveStep DEF Next

LEMMA SpecIInv == Spec => []IInv
BY InitIInv, NextIInv, PTL DEF Spec

-----------------------------------------------------------------------------
(* Theorems *)

\* The hash counts the sessions in the list, however far an auto_leave came
\* before it met the mutex (presence_channel.rb:482-491, 513-530, 583-626).
THEOREM CountsAgree == Spec => []HashCountsSessions
<1>1. IInv => HashCountsSessions
  BY DEF IInv
<1> QED
  BY <1>1, SpecIInv, PTL

\* "messages are published in the same sequence that the PresenceChannel lua
\* script are run" (presence_channel.rb:366-367), unless a leave took the mutex
\* away or it expired.
THEOREM SequenceKept == Spec => []PublishedInSequence
<1>1. IInv => PublishedInSequence
  BY DEF IInv, Ordered, Orderly, PublishedInSequence
<1> QED
  BY <1>1, SpecIInv, PTL

-----------------------------------------------------------------------------
(* Expiry: the channel is due in time *)

\* Everything in the lists is at most one timeout after a script that ran.
Due ==
    /\ now <= MaxTime
    /\ \A s \in Sessions : seen[s] <= now /\ (zlist[s] # 0 => zlist[s] <= seen[s] + Timeout)
    /\ channels \in Nat /\ channels <= now + Timeout
    /\ ChannelDueInTime

LEMMA MinOfTimes ==
    ASSUME NEW T \in SUBSET Nat, T # {}
    PROVE  Min(T) \in T /\ \A y \in T : Min(T) <= y
<1>1. PICK x \in T : \A y \in T : <<y, x>> \notin OpToRel(<, Nat)
  BY WFMin, NatLessThanWellFounded, Zenon
<1>2. \A y \in T : ~(y < x)
  BY <1>1, Zenon DEF OpToRel
<1>3. \A y \in T : x <= y
  BY <1>2
<1> QED
  BY <1>3, Zenon DEF Min

\* UPDATE_GLOBAL_CHANNELS_LUA gives the first time of those in the list.
LEMMA GlobalIsFirst ==
    ASSUME NEW zl \in [Sessions -> Nat], NEW bound \in Nat, \A s \in Sessions : zl[s] <= bound
    PROVE  /\ UpdateGlobal(zl) \in Nat /\ UpdateGlobal(zl) <= bound
           /\ \A s \in Sessions : zl[s] # 0 => UpdateGlobal(zl) # 0 /\ UpdateGlobal(zl) <= zl[s]
<1> DEFINE times == {zl[s] : s \in Sessions} \ {0}
<1>1. times \in SUBSET Nat /\ \A t \in times : t <= bound /\ t # 0
  OBVIOUS
<1>2. UpdateGlobal(zl) = IF times = {} THEN 0 ELSE Min(times)
  BY DEF UpdateGlobal
<1>3. \A s \in Sessions : zl[s] # 0 => zl[s] \in times
  OBVIOUS
<1> HIDE DEF times
<1>4. CASE times = {}
  BY <1>2, <1>3, <1>4
<1>5. CASE times # {}
  <2>1. Min(times) \in times /\ \A y \in times : Min(times) <= y
    BY <1>1, <1>5, MinOfTimes
  <2> QED
    BY <1>1, <1>2, <1>3, <1>5, <2>1
<1> QED
  BY <1>4, <1>5

\* After a script that ends sessions and recomputes the channel's time
LEMMA ExpiryIsDue ==
    ASSUME IInv, Due, now' = now, zlist' \in [Sessions -> Nat], seen' \in [Sessions -> Nat],
           \A s \in Sessions : \/ zlist'[s] = 0 /\ seen'[s] = 0
                               \/ zlist'[s] = zlist[s] /\ seen'[s] = seen[s],
           channels' = UpdateGlobal(zlist') \/ channels' = channels
    PROVE  Due'
<1>1. now \in Nat /\ Timeout \in Nat /\ now + Timeout \in Nat
  BY PresenceAssumption DEF IInv, Types
<1>2. ASSUME NEW s \in Sessions
      PROVE  /\ seen'[s] <= now /\ (zlist'[s] # 0 => zlist'[s] <= seen'[s] + Timeout)
             /\ zlist'[s] <= now + Timeout
             /\ zlist'[s] # 0 => zlist[s] # 0 /\ seen'[s] = seen[s]
  <2>1. seen[s] \in Nat /\ zlist[s] \in Nat /\ seen[s] <= now
    BY DEF Due, IInv, Types
  <2>2. zlist[s] # 0 => zlist[s] <= seen[s] + Timeout
    BY DEF Due
  <2> QED
    BY <1>1, <2>1, <2>2
<1>3. CASE channels' = channels
  <2>1. ASSUME NEW s \in Listed' PROVE channels' # 0 /\ channels' <= seen'[s] + Timeout
    <3>1. s \in Sessions /\ s \in Listed /\ seen'[s] = seen[s]
      BY <1>2, <2>1 DEF Listed
    <3> QED
      BY <1>3, <3>1 DEF Due, ChannelDueInTime
  <2> QED
    BY <1>2, <1>3, <2>1 DEF Due, ChannelDueInTime
<1>4. CASE channels' = UpdateGlobal(zlist')
  <2>1. /\ channels' \in Nat /\ channels' <= now + Timeout
        /\ \A s \in Sessions : zlist'[s] # 0 => channels' # 0 /\ channels' <= zlist'[s]
    BY <1>1, <1>2, <1>4, GlobalIsFirst
  <2>2. ASSUME NEW s \in Listed' PROVE channels' # 0 /\ channels' <= seen'[s] + Timeout
    <3>1. s \in Sessions /\ zlist'[s] # 0 /\ zlist'[s] \in Nat /\ seen'[s] \in Nat
      BY <2>2 DEF Listed
    <3> QED
      BY <1>1, <1>2, <2>1, <3>1
  <2> QED
    BY <1>2, <2>1, <2>2 DEF Due, ChannelDueInTime
<1> QED
  BY <1>3, <1>4

LEMMA NextDue == ASSUME IInv, Due, [Next]_vars PROVE Due'
<1> USE PresenceAssumption
<1>1. CASE UNCHANGED <<redisVars, seen, now>>
  BY <1>1 DEF Due, ChannelDueInTime, Listed, redisVars
<1>2. CASE Tick
  BY <1>2 DEF Tick, redisVars, Due, ChannelDueInTime, Listed, IInv, Types
<1>3. ASSUME NEW p \in Procs, NEW s \in Sessions, Present(p, s) PROVE Due'
  <2>1. PICK time \in Times(p) :
           /\ zlist' = [zlist EXCEPT ![s] = time + Timeout]
           /\ channels' = IF Added(s) /\ channels = 0 THEN time + Timeout ELSE channels
    BY <1>3 DEF Present
  <2>2. /\ time \in Nat /\ time <= now /\ now \in Nat /\ Timeout \in Nat
        /\ time + Timeout \in Nat \ {0} /\ time + Timeout <= now + Timeout
        /\ now' = now /\ seen' = [seen EXCEPT ![s] = now]
    <3>1. work[p].since \in 1..now /\ now \in Nat /\ Timeout \in Nat
      BY <1>3 DEF Present, IInv, Types, Works
    <3>2. time \in work[p].since..now
      BY <2>1 DEF Times
    <3> QED
      BY <1>3, <3>1, <3>2 DEF Present
  <2>3. /\ zlist'[s] = time + Timeout /\ seen'[s] = now
        /\ \A x \in Sessions \ {s} : zlist'[x] = zlist[x] /\ seen'[x] = seen[x]
        /\ seen' \in [Sessions -> Nat]
    BY <2>1, <2>2 DEF Due, IInv, Types
  <2>4. channels' \in Nat /\ channels' <= now + Timeout /\ channels' # 0
    BY <2>1, <2>2 DEF Added, Due, ChannelDueInTime, Listed
  <2>5. \A x \in Sessions \ {s} : zlist[x] # 0 => channels' <= seen'[x] + Timeout
    BY <2>1, <2>3 DEF Due, ChannelDueInTime, Listed
  <2>6. \A x \in Listed' : channels' # 0 /\ channels' <= seen'[x] + Timeout
    BY <2>3, <2>4, <2>5 DEF Listed
  <2>7. \A x \in Sessions : seen'[x] <= now /\ (zlist'[x] # 0 => zlist'[x] <= seen'[x] + Timeout)
    BY <2>2, <2>3 DEF Due
  <2> QED
    BY <2>2, <2>3, <2>4, <2>6, <2>7 DEF Due, ChannelDueInTime
<1>4. ASSUME NEW p \in Procs, NEW s \in Sessions, Leave(p, s) PROVE Due'
  <2>1. \A x \in Sessions : \/ zlist'[x] = 0 /\ seen'[x] = 0
                            \/ zlist'[x] = zlist[x] /\ seen'[x] = seen[x]
    BY <1>4 DEF Leave, IInv, Types, Due
  <2>2. /\ zlist' \in [Sessions -> Nat] /\ seen' \in [Sessions -> Nat]
        /\ now' = now /\ channels' = UpdateGlobal(zlist')
    BY <1>4 DEF Leave, IInv, Types, Due
  <2> QED
    BY <2>1, <2>2, ExpiryIsDue
<1>5. ASSUME NEW p \in Procs, AutoLeave(p) \/ AutoLeaveStops(p) PROVE Due'
  <2>1. PICK S : Expire(S)
    BY <1>5 DEF AutoLeave, AutoLeaveStops
  <2>2. /\ zlist' \in [Sessions -> Nat] /\ seen' \in [Sessions -> Nat]
        /\ \A x \in Sessions : \/ zlist'[x] = 0 /\ seen'[x] = 0
                               \/ zlist'[x] = zlist[x] /\ seen'[x] = seen[x]
    BY <2>1 DEF Expire, IInv, Types, Due
  <2>3. now' = now /\ (channels' = UpdateGlobal(zlist') \/ channels' = channels)
    BY <1>5 DEF AutoLeave, AutoLeaveStops
  <2> QED
    BY <2>2, <2>3, ExpiryIsDue
<1>6. CASE MutexExpires \/ Subscribe \/ Poll \/ ProcessMessage \/ Resubscribe \/ Unsubscribe \/ UNCHANGED vars
  BY <1>1, <1>6 DEF MutexExpires, Subscribe, Poll, ProcessMessage, Resubscribe, Unsubscribe, vars, redisVars
<1>7. ASSUME NEW p \in Procs, BeginPresent(p) \/ BeginAutoLeave(p) \/ Proceed(p) PROVE Due'
  BY <1>1, <1>7 DEF BeginPresent, BeginAutoLeave, Begin, Proceed, Publish, PublishFails, Release, Die, redisVars
<1> QED
  BY <1>2, <1>3, <1>4, <1>5, <1>6, <1>7 DEF Next

LEMMA SpecDue == Spec => [](IInv /\ Due)
<1>1. Init => Due
  BY PresenceAssumption DEF Init, Due, ChannelDueInTime, Listed
<1>2. IInv /\ Due /\ [Next]_vars => Due'
  BY NextDue
<1> QED
  BY <1>1, <1>2, SpecIInv, PTL DEF Spec

\* A session is never overlooked: the channel stands in the global list with a
\* time no later than Timeout after the last script that listed the session,
\* in whatever order scripts bring the times computed for them
\* (presence_channel.rb:136, 460-470, 492-494).
THEOREM NoSessionOverlooked == Spec => []ChannelDueInTime
<1>1. Due => ChannelDueInTime
  BY DEF Due
<1> QED
  BY <1>1, SpecDue, PTL

-----------------------------------------------------------------------------
(* The browser *)

\* A message that fits a state of the list, and what it makes of it
Applies(A, m, B) ==
    /\ m.entering \cap A = {} /\ m.leaving \subseteq A /\ m.entering \cap m.leaving = {}
    /\ B = (A \cup m.entering) \ m.leaving

Unannounced == {p \in Procs : work[p].at = "publish"}

\* list[i] is what a browser shows after message i: it begins at what this one
\* shows, and ends at who is present, but for the message not published yet.
Leads(list) ==
    /\ list[viewer.lastSeenId] = viewer.user_ids
    /\ \A i \in viewer.lastSeenId..Len(messages) - 1 : Applies(list[i], messages[i + 1], list[i + 1])
    /\ Unannounced = {} => list[Len(messages)] = PresentUsers
    /\ \A p \in Unannounced : Applies(list[Len(messages)], Message(p), PresentUsers)

Viewer == [subscribed : BOOLEAN, lastSeenId : Nat, position : Nat \cup {Unpolled},
           user_ids : SUBSET Users, count : Int]

\* It waits for the message after the last it knows of: the first poll brought
\* nothing that had come in between, or is still to come.
InStep == viewer.position \in {Unpolled, viewer.lastSeenId}

VInv ==
    /\ viewer \in Viewer /\ viewer.lastSeenId <= Len(messages) /\ viewer.position <= Len(messages)
    /\ viewer.position = Unpolled => viewer.lastSeenId = 0
    /\ InStep \/ (viewer.lastSeenId = 0 /\ viewer.position > 0)
    /\ faults = {} /\ viewer.subscribed /\ InStep =>
          /\ viewer.count = Cardinality(viewer.user_ids)
          /\ \E list \in [Nat -> SUBSET Users] : Leads(list)

LEMMA UsersFinite == ASSUME NEW S \in SUBSET Users PROVE IsFiniteSet(S) /\ Cardinality(S) \in Nat
<1>1. IsFiniteSet(Users)
  <2> DEFINE f == [s \in Sessions |-> User(s)]
  <2>1. f \in Surjection(Sessions, Users)
    BY DEF Users, Surjection
  <2> HIDE DEF f
  <2> QED
    BY <2>1, PresenceAssumption, FS_Surjection
<1> QED
  BY <1>1, FS_Subset, FS_CardinalityType

LEMMA AppliesCounts ==
    ASSUME NEW A \in SUBSET Users, NEW m \in Announcements, NEW B, Applies(A, m, B)
    PROVE  Cardinality(B) = Cardinality(A) + Cardinality(m.entering) - Cardinality(m.leaving)
<1> DEFINE E == m.entering
           L == m.leaving
           C == A \cup E
<1>1. /\ E \in SUBSET Users /\ L \in SUBSET Users /\ C \in SUBSET Users
      /\ A \cap E = {} /\ C \cap L = L /\ B = C \ L
  BY DEF Announcements, Applies
<1> HIDE DEF E, L
<1>2. /\ IsFiniteSet(A) /\ IsFiniteSet(E) /\ IsFiniteSet(C)
      /\ Cardinality(A) \in Nat /\ Cardinality(E) \in Nat /\ Cardinality(L) \in Nat
      /\ Cardinality({}) = 0
  BY <1>1, UsersFinite, FS_EmptySet
<1>3. Cardinality(C) = Cardinality(A) + Cardinality(E) - Cardinality(A \cap E)
  BY <1>2, FS_Union
<1> HIDE DEF C
<1>4. Cardinality(A \cap E) = 0 /\ Cardinality(C \cap L) = Cardinality(L) /\ Cardinality(C \ L) = Cardinality(B)
  BY <1>1, <1>2, Zenon
<1>5. Cardinality(C \ L) = Cardinality(C) - Cardinality(C \cap L)
  BY <1>2, FS_Difference
<1>6. Cardinality(B) = Cardinality(A) + Cardinality(E) - Cardinality(L)
  BY <1>2, <1>3, <1>4, <1>5
<1> QED
  BY <1>6, Zenon DEF E, L

\* A count is never negative, and positive for whoever has a session.
LEMMA Counted ==
    ASSUME IInv
    PROVE  /\ \A u \in Users : hash[u] \in Nat
           /\ \A s \in Listed : hash[User(s)] > 0
<1>1. Listed \in SUBSET Sessions
  BY DEF Listed
<1>2. \A u \in Users : hash[u] = Cardinality(SessionsOf(u, Listed))
  BY DEF IInv, HashCountsSessions, SessionsOf
<1>3. ASSUME NEW s \in Listed PROVE hash[User(s)] > 0
  <2>1. User(s) \in Users /\ s \in SessionsOf(User(s), Listed)
    BY <1>1, UserType DEF SessionsOf
  <2>2. Cardinality(SessionsOf(User(s), Listed)) # 0
    BY <1>1, <2>1, SessionsFinite, FS_EmptySet
  <2> QED
    BY <1>1, <1>2, <2>1, <2>2, SessionsFinite
<1> QED
  BY <1>1, <1>2, <1>3, SessionsFinite

\* Who is left after sessions expire
LEMMA ExpirePresence ==
    ASSUME IInv, NEW S \in SUBSET Listed, Expire(S)
    PROVE  /\ Sessionless(S) \subseteq PresentUsers
           /\ PresentUsers' = PresentUsers \ Sessionless(S)
<1>1. ASSUME NEW u \in Users
      PROVE  /\ hash'[u] = hash[u] - Cardinality(SessionsOf(u, S))
             /\ hash[u] \in Nat /\ hash'[u] \in Nat /\ Cardinality(SessionsOf(u, S)) \in Nat
  <2>1. hash'[u] = hash[u] - Cardinality(SessionsOf(u, S))
    BY DEF Expire, SessionsOf
  <2>2. HashCountsSessions' /\ hash' \in [Users -> Int]
    BY ExpireCounts
  <2>3. hash'[u] = Cardinality(SessionsOf(u, Listed'))
    BY <2>2 DEF HashCountsSessions, SessionsOf
  <2>4. Listed' \in SUBSET Sessions /\ S \in SUBSET Sessions
    BY DEF Listed
  <2> QED
    BY <2>1, <2>3, <2>4, SessionsFinite, Counted
<1>2. ASSUME NEW u \in Users PROVE u \in Sessionless(S) <=> u \in PresentUsers /\ hash'[u] = 0
  BY <1>1 DEF Sessionless, SessionsOf, PresentUsers
<1>3. ASSUME NEW u \in Users PROVE hash'[u] > 0 <=> u \in PresentUsers /\ hash'[u] # 0
  BY <1>1 DEF PresentUsers
<1>4. PresentUsers \subseteq Users /\ PresentUsers' = {u \in Users : hash'[u] > 0} /\ Sessionless(S) \subseteq Users
  BY DEF PresentUsers, Sessionless
<1> QED
  BY <1>2, <1>3, <1>4

\* Steps that leave the browser, the messages and who is present alone
LEMMA QuietViewer ==
    ASSUME IInv, VInv, viewer' = viewer, messages' = messages, PresentUsers' = PresentUsers,
           faults \subseteq faults',
           faults' = {} => Unannounced' = Unannounced /\ \A p \in Unannounced : work'[p] = work[p]
    PROVE  VInv'
<1>1. ASSUME faults' = {}, viewer.subscribed, InStep
      PROVE  \E list \in [Nat -> SUBSET Users] : Leads(list)'
  <2>1. PICK list \in [Nat -> SUBSET Users] : Leads(list)
    BY <1>1 DEF VInv
  <2>2. \A p \in Unannounced : Message(p)' = Message(p)
    BY <1>1 DEF Message
  <2>3. Leads(list)'
    BY <1>1, <2>1, <2>2 DEF Leads
  <2> QED
    BY <2>3
<1> QED
  BY <1>1 DEF VInv, InStep

\* A script announces what it changed; it got the mutex, so nothing else is
\* to be announced.
LEMMA AnnounceViewer ==
    ASSUME IInv, VInv, NEW p \in Procs, NEW entering \in SUBSET Users, NEW leaving \in SUBSET Users,
           Announce(p, entering, leaving), viewer' = viewer, messages' = messages,
           MutexLocked => "stolen" \in faults', faults \subseteq faults',
           entering \cap PresentUsers = {}, leaving \subseteq PresentUsers, entering \cap leaving = {},
           PresentUsers' = (PresentUsers \cup entering) \ leaving
    PROVE  VInv'
<1>1. ASSUME faults' = {}, viewer.subscribed, InStep
      PROVE  \E list \in [Nat -> SUBSET Users] : Leads(list)'
  <2>1. PICK list \in [Nat -> SUBSET Users] : Leads(list)
    BY <1>1 DEF VInv
  <2>2. Unannounced = {}
    BY <1>1, PresenceAssumption DEF IInv, Ordered, Orderly, PublisherHasMutex, MutexLocked, Unannounced
  <2>3. Unannounced' = {p} /\ Message(p)' = [entering |-> entering, leaving |-> leaving,
                                             change |-> changes + 1]
    <3>1. /\ work'[p] = [at |-> "publish", since |-> 0, entering |-> entering, leaving |-> leaving,
                         change |-> changes + 1]
          /\ \A q \in Procs \ {p} : work'[q] = work[q]
      BY DEF Announce, IInv, Types, Works
    <3>2. \A q \in Procs : work[q].at # "publish"
      BY <2>2 DEF Unannounced
    <3> QED
      BY <3>1, <3>2 DEF Unannounced, Message
  <2>4. Leads(list)'
    BY <2>1, <2>2, <2>3 DEF Leads, Applies
  <2> QED
    BY <2>4
<1> QED
  BY <1>1 DEF VInv, InStep

\* What a process without anything to publish turns from, or to, is no news.
LEMMA QuietWork ==
    ASSUME IInv, NEW p \in Procs, work[p].at # "publish", NEW w, w.at # "publish",
           work' = [work EXCEPT ![p] = w]
    PROVE  Unannounced' = Unannounced /\ \A q \in Unannounced : work'[q] = work[q]
<1>1. work'[p] = w /\ \A q \in Procs \ {p} : work'[q] = work[q]
  BY DEF IInv, Types, Works
<1> QED
  BY <1>1 DEF Unannounced

LEMMA NothingIsQuiet ==
    ASSUME IInv, NEW p \in Procs, work[p].at # "publish", NoAnnouncement(p)
    PROVE  Unannounced' = Unannounced /\ \A q \in Unannounced : work'[q] = work[q]
BY QuietWork DEF NoAnnouncement, Done, Nothing

LEMMA PresentViewer ==
    ASSUME IInv, VInv, NEW p \in Procs, NEW s \in Sessions, Present(p, s) PROVE VInv'
<1>1. /\ User(s) \in Users /\ hash[User(s)] \in Nat
      /\ viewer' = viewer /\ messages' = messages /\ faults' = faults
  BY UserType, Counted DEF Present
<1>2. CASE Added(s) /\ hash[User(s)] = 0
  <2>1. hash' = [hash EXCEPT ![User(s)] = 1] /\ Announce(p, {User(s)}, {})
    BY <1>2 DEF Present
  <2>2. PresentUsers' = (PresentUsers \cup {User(s)}) \ {} /\ {User(s)} \cap PresentUsers = {}
    BY <1>1, <1>2, <2>1 DEF PresentUsers, IInv, Types
  <2>3. ~MutexLocked
    BY <1>2 DEF Present, PresentMustWait
  <2>4. {User(s)} \in SUBSET Users /\ {} \in SUBSET Users /\ {} \subseteq PresentUsers
    BY <1>1
  <2> QED
    BY <1>1, <2>1, <2>2, <2>3, <2>4, AnnounceViewer
<1>3. CASE ~(Added(s) /\ hash[User(s)] = 0)
  <2>1. hash' = hash \/ (hash' = [hash EXCEPT ![User(s)] = @ + 1] /\ hash[User(s)] > 0)
    BY <1>1, <1>3 DEF Present
  <2>2. PresentUsers' = PresentUsers
    <3>1. CASE hash' = hash
      BY <3>1 DEF PresentUsers
    <3>2. CASE hash' = [hash EXCEPT ![User(s)] = @ + 1] /\ hash[User(s)] > 0
      BY <1>1, <3>2 DEF PresentUsers, IInv, Types
    <3> QED
      BY <2>1, <3>1, <3>2
  <2>3. Unannounced' = Unannounced /\ \A q \in Unannounced : work'[q] = work[q]
    BY <1>3, NothingIsQuiet DEF Present
  <2> QED
    BY <1>1, <2>2, <2>3, QuietViewer
<1> QED
  BY <1>2, <1>3

LEMMA LeaveViewer ==
    ASSUME IInv, VInv, NEW p \in Procs, NEW s \in Sessions, Leave(p, s) PROVE VInv'
<1> DEFINE u == User(s)
<1>1. /\ u \in Users /\ hash[u] \in Nat /\ hash[u] > 0
      /\ viewer' = viewer /\ messages' = messages /\ faults \subseteq faults'
      /\ hash' = [hash EXCEPT ![u] = @ - 1]
  BY UserType, Counted DEF Leave, Listed
<1>2. /\ u \in PresentUsers
      /\ PresentUsers' = IF hash[u] <= 1 THEN PresentUsers \ {u} ELSE PresentUsers
  <2>1. hash'[u] = hash[u] - 1 /\ \A v \in Users \ {u} : hash'[v] = hash[v]
    BY <1>1 DEF IInv, Types
  <2> HIDE DEF u
  <2>2. hash'[u] > 0 <=> ~(hash[u] <= 1)
    BY <1>1, <2>1
  <2> QED
    BY <1>1, <2>1, <2>2 DEF PresentUsers
<1>3. CASE hash[u] <= 1
  <2>1. Announce(p, {}, {u}) /\ (MutexLocked => "stolen" \in faults')
    BY <1>3 DEF Leave
  <2> HIDE DEF u
  <2>2. /\ {} \in SUBSET Users /\ {u} \in SUBSET Users /\ {u} \subseteq PresentUsers
        /\ PresentUsers' = (PresentUsers \cup {}) \ {u}
    BY <1>1, <1>2, <1>3
  <2> QED
    BY <1>1, <2>1, <2>2, AnnounceViewer
<1>4. CASE ~(hash[u] <= 1)
  <2>1. Unannounced' = Unannounced /\ \A q \in Unannounced : work'[q] = work[q]
    BY <1>4, NothingIsQuiet DEF Leave, Idle
  <2> HIDE DEF u
  <2> QED
    BY <1>1, <1>2, <1>4, <2>1, QuietViewer
<1> QED
  BY <1>3, <1>4

LEMMA AutoLeaveViewer ==
    ASSUME IInv, VInv, NEW p \in Procs, AutoLeave(p) \/ AutoLeaveStops(p) PROVE VInv'
<1>1. viewer' = viewer /\ messages' = messages /\ faults' = faults
  BY DEF AutoLeave, AutoLeaveStops
<1>2. CASE AutoLeave(p)
  <2>1. PICK S \in SUBSET Listed :
           /\ Expire(S)
           /\ Sessionless(S) = {} \/ ~MutexLocked
           /\ IF Sessionless(S) # {} THEN Announce(p, {}, Sessionless(S)) ELSE NoAnnouncement(p)
           /\ work[p].at = "auto_leave"
    BY <1>2, AutoLeaveAt
  <2> DEFINE left == Sessionless(S)
  <2>2. left \subseteq PresentUsers /\ PresentUsers' = PresentUsers \ left
    BY <2>1, ExpirePresence
  <2>3. /\ left = {} \/ ~MutexLocked
        /\ IF left # {} THEN Announce(p, {}, left) ELSE NoAnnouncement(p)
    BY <2>1
  <2> HIDE DEF left
  <2>4. CASE left # {}
    <3>1. /\ {} \in SUBSET Users /\ left \in SUBSET Users
          /\ PresentUsers' = (PresentUsers \cup {}) \ left
      BY <2>2 DEF PresentUsers
    <3> QED
      BY <1>1, <2>2, <2>3, <2>4, <3>1, AnnounceViewer
  <2>5. CASE left = {}
    <3>1. Unannounced' = Unannounced /\ \A q \in Unannounced : work'[q] = work[q]
      BY <2>1, <2>3, <2>5, NothingIsQuiet
    <3> QED
      BY <1>1, <2>2, <2>5, <3>1, QuietViewer
  <2> QED
    BY <2>4, <2>5
<1>3. CASE AutoLeaveStops(p)
  <2>1. PICK S \in SUBSET Listed : Expire(S) /\ Sessionless(S) = {}
    BY <1>3 DEF AutoLeaveStops, Expired
  <2>2. PresentUsers' = PresentUsers
    BY <2>1, ExpirePresence
  <2>3. Unannounced' = Unannounced /\ work' = work
    BY <1>3 DEF AutoLeaveStops, Unannounced
  <2> QED
    BY <1>1, <2>2, <2>3, QuietViewer
<1> QED
  BY <1>2, <1>3

LEMMA PublishViewer == ASSUME IInv, VInv, NEW p \in Procs, Publish(p) PROVE VInv'
<1> DEFINE n == Len(messages)
<1>1. /\ viewer' = viewer /\ faults' = faults /\ PresentUsers' = PresentUsers
      /\ p \in Unannounced
  BY DEF Publish, redisVars, PresentUsers, Unannounced
<1>2. /\ messages' = Append(messages, Message(p)) /\ n \in Nat
      /\ Len(messages') = n + 1 /\ messages'[n + 1] = Message(p)
      /\ \A i \in 1..n : messages'[i] = messages[i]
  BY DEF Publish, IInv, Types
<1>3. /\ work'[p].at = "release"
      /\ \A q \in Procs \ {p} : work'[q] = work[q]
  BY DEF Publish, IInv, Types, Works, Work
<1>4. /\ viewer \in Viewer /\ viewer.lastSeenId \in Nat /\ viewer.lastSeenId <= n
      /\ viewer.position \in Nat \cup {Unpolled} /\ viewer.position <= n
  BY DEF VInv, Viewer
<1> HIDE DEF n
<1>5. ASSUME faults = {}, viewer.subscribed, InStep
      PROVE  \E list \in [Nat -> SUBSET Users] : Leads(list)'
  <2>1. PICK list \in [Nat -> SUBSET Users] : Leads(list)
    BY <1>5 DEF VInv
  <2>2. PICK longer \in [Nat -> SUBSET Users] :
           longer[n + 1] = PresentUsers /\ \A i \in 0..n : longer[i] = list[i]
    <3> DEFINE l == [list EXCEPT ![n + 1] = PresentUsers]
    <3>1. /\ l \in [Nat -> SUBSET Users] /\ l[n + 1] = PresentUsers
          /\ \A i \in 0..n : l[i] = list[i]
      BY <1>2 DEF PresentUsers
    <3> QED
      BY <3>1
  <2>3. Unannounced' = {}
    BY <1>1, <1>3, <1>5 DEF Unannounced, IInv, Ordered, Orderly, PublisherHasMutex
  <2>4. Applies(list[n], Message(p), PresentUsers)
    BY <1>1, <2>1 DEF Leads, n
  <2>5. ASSUME NEW i \in viewer.lastSeenId..n PROVE Applies(longer[i], messages'[i + 1], longer[i + 1])
    <3>1. CASE i = n
      BY <1>2, <2>2, <2>4, <3>1
    <3>2. CASE i # n
      <4>1. i \in viewer.lastSeenId..n - 1 /\ i \in 0..n /\ i + 1 \in 0..n /\ i + 1 \in 1..n
        BY <1>2, <1>4, <3>2
      <4>2. Applies(list[i], messages[i + 1], list[i + 1])
        BY <2>1, <4>1 DEF Leads, n
      <4> QED
        BY <1>2, <2>2, <4>1, <4>2
    <3> QED
      BY <3>1, <3>2
  <2>6. longer[viewer.lastSeenId] = viewer.user_ids
    BY <1>2, <1>4, <2>1, <2>2 DEF Leads
  <2>7. n + 1 - 1 = n
    BY <1>2
  <2>8. Leads(longer)'
    <3>1. longer[viewer'.lastSeenId] = viewer'.user_ids
      BY <1>1, <2>6
    <3>2. \A i \in viewer'.lastSeenId..Len(messages') - 1 : Applies(longer[i], messages'[i + 1], longer[i + 1])
      <4>1. Len(messages') - 1 = n /\ viewer'.lastSeenId = viewer.lastSeenId
        BY <1>1, <1>2, <2>7
      <4>2. \A i \in viewer.lastSeenId..n : Applies(longer[i], messages'[i + 1], longer[i + 1])
        BY <2>5
      <4> QED
        BY <4>1, <4>2, Zenon
    <3>3. longer[Len(messages')] = PresentUsers'
      BY <1>1, <1>2, <2>2
    <3> QED
      BY <2>3, <3>1, <3>2, <3>3 DEF Leads
  <2> QED
    BY <2>2, <2>8
<1> QED
  BY <1>1, <1>2, <1>4, <1>5 DEF VInv, InStep, Unpolled, n

\* A process or a mutex that gives up
LEMMA GiveUpViewer ==
    ASSUME IInv, VInv,
           \/ MutexExpires
           \/ \E p \in Procs : PublishFails(p) \/ Release(p) \/ Die(p)
    PROVE  VInv'
<1>1. viewer' = viewer /\ messages' = messages /\ PresentUsers' = PresentUsers /\ faults \subseteq faults'
  BY DEF MutexExpires, PublishFails, Release, Die, redisVars, PresentUsers
<1>2. ASSUME faults' = {} PROVE Unannounced' = Unannounced /\ \A q \in Unannounced : work'[q] = work[q]
  <2>1. CASE MutexExpires
    BY <2>1 DEF MutexExpires, Unannounced
  <2>2. ASSUME NEW p \in Procs, PublishFails(p) PROVE FALSE
    BY <1>2, <2>2 DEF PublishFails
  <2>3. ASSUME NEW p \in Procs, Release(p) \/ Die(p)
        PROVE  Unannounced' = Unannounced /\ \A q \in Unannounced : work'[q] = work[q]
    <3>1. /\ work[p].at # "publish" /\ work'[p].at = "idle"
          /\ \A q \in Procs \ {p} : work'[q] = work[q]
      <4>1. work' = [work EXCEPT ![p] = Nothing] /\ work \in [Procs -> Work]
        BY <2>3 DEF Release, Die, Done, IInv, Types, Works
      <4>2. work[p].at # "publish"
        BY <1>2, <2>3 DEF Release, Die
      <4> QED
        BY <4>1, <4>2 DEF Nothing
    <3> QED
      BY <3>1 DEF Unannounced
  <2> QED
    BY <2>1, <2>2, <2>3
<1> QED
  BY <1>1, <1>2, QuietViewer

LEMMA SubscribeViewer == ASSUME IInv, VInv, Subscribe PROVE VInv'
<1> DEFINE n == Len(messages)
<1>1. /\ viewer' = [subscribed |-> TRUE, lastSeenId |-> n,
                    position |-> IF messages = <<>> THEN Unpolled ELSE n,
                    user_ids |-> PresentUsers, count |-> Cardinality(PresentUsers)]
      /\ messages' = messages /\ faults' = faults /\ work' = work /\ n \in Nat
      /\ PresentUsers' = PresentUsers /\ PresentUsers \in SUBSET Users
  BY DEF Subscribe, Answer, redisVars, PresentUsers, IInv, Types
<1>2. viewer' \in Viewer
  BY <1>1, UsersFinite DEF Viewer
<1>5. /\ viewer'.position <= n
      /\ viewer'.position = Unpolled => viewer'.lastSeenId = 0
      /\ InStep'
  <2>1. messages = <<>> => n = 0
    OBVIOUS
  <2> QED
    BY <1>1, <2>1 DEF InStep, Unpolled
<1>3. PICK list \in [Nat -> SUBSET Users] : \A i \in Nat : list[i] = PresentUsers
  <2>1. [i \in Nat |-> PresentUsers] \in [Nat -> SUBSET Users]
    BY <1>1
  <2> QED
    BY <2>1
<1>4. ASSUME faults = {} PROVE Leads(list)'
  <2>1. Unannounced' = {}
    BY <1>1, <1>4, PresenceAssumption
       DEF Subscribe, Unannounced, IInv, Ordered, Orderly, PublisherHasMutex, MutexLocked
  <2> QED
    BY <1>1, <1>3, <2>1 DEF Leads
<1> QED
  BY <1>1, <1>2, <1>3, <1>4, <1>5 DEF VInv

\* The first poll: in step, unless the first messages came before it
LEMMA PollViewer == ASSUME IInv, VInv, Poll PROVE VInv'
<1> DEFINE n == Len(messages)
<1>1. /\ viewer \in Viewer /\ viewer.position = Unpolled /\ viewer.lastSeenId = 0 /\ n \in Nat
      /\ UNCHANGED <<messages, faults, work, hash>>
      /\ viewer' = [viewer EXCEPT !.position = n]
  BY DEF Poll, VInv, redisVars, IInv, Types
<1>2. /\ viewer' \in Viewer /\ viewer'.position = n /\ viewer'.lastSeenId = 0
      /\ viewer'.subscribed = viewer.subscribed
      /\ viewer'.user_ids = viewer.user_ids /\ viewer'.count = viewer.count
  BY <1>1 DEF Viewer
<1>3. InStep' \/ viewer'.position > 0
  BY <1>1, <1>2 DEF InStep
<1>4. ASSUME faults' = {}, viewer'.subscribed
      PROVE  /\ viewer'.count = Cardinality(viewer'.user_ids)
             /\ \E list \in [Nat -> SUBSET Users] : Leads(list)'
  <2>1. PICK list \in [Nat -> SUBSET Users] : Leads(list)
    BY <1>1, <1>2, <1>4 DEF VInv, InStep
  <2>2. Leads(list)'
    BY <1>1, <1>2, <2>1 DEF Leads, Unannounced, PresentUsers, Message
  <2>3. viewer.count = Cardinality(viewer.user_ids)
    BY <1>1, <1>2, <1>4 DEF VInv, InStep
  <2> QED
    BY <1>2, <2>2, <2>3
<1>5. viewer'.position # Unpolled
  BY <1>1, <1>2 DEF Unpolled
<1> QED
  BY <1>1, <1>2, <1>3, <1>4, <1>5 DEF VInv

LEMMA ProcessMessageViewer == ASSUME IInv, VInv, ProcessMessage PROVE VInv'
<1> DEFINE k == viewer.lastSeenId
           m == messages[k + 1]
<1>1. /\ viewer \in Viewer /\ k \in Nat /\ Len(messages) \in Nat /\ k < Len(messages)
      /\ m \in Announcements /\ viewer.subscribed /\ viewer.position = k
      /\ messages' = messages /\ faults' = faults /\ work' = work /\ PresentUsers' = PresentUsers
  <2>1. /\ viewer \in Viewer /\ k \in Nat /\ Len(messages) \in Nat /\ viewer.subscribed
        /\ viewer.position \in Nat /\ viewer.position < Len(messages)
        /\ viewer.position + 1 = k + 1
    BY DEF ProcessMessage, Receives, VInv, Viewer, IInv, Types
  <2>2. viewer.position = k
    BY <2>1
  <2>3. m \in Announcements
    BY <2>1, <2>2 DEF IInv, Types
  <2> QED
    BY <2>1, <2>2, <2>3 DEF ProcessMessage, redisVars, PresentUsers
<1>2. /\ m.entering \in SUBSET Users /\ m.leaving \in SUBSET Users
      /\ Cardinality(m.entering) \in Nat /\ Cardinality(m.leaving) \in Nat
  BY <1>1, UsersFinite DEF Announcements
<1>3. viewer' = [subscribed |-> TRUE, lastSeenId |-> k + 1, position |-> k + 1,
                 user_ids |-> (viewer.user_ids \cup m.entering) \ m.leaving,
                 count |-> viewer.count + Cardinality(m.entering) - Cardinality(m.leaving)]
  BY <1>1 DEF ProcessMessage, Viewer
<1> HIDE DEF m
<1>4. /\ viewer' \in Viewer /\ viewer'.lastSeenId <= Len(messages)
      /\ viewer'.position <= Len(messages) /\ viewer'.position # Unpolled /\ InStep'
  BY <1>1, <1>2, <1>3 DEF Viewer, InStep, Unpolled
<1>5. ASSUME faults = {}
      PROVE  /\ viewer'.count = Cardinality(viewer'.user_ids)
             /\ \E list \in [Nat -> SUBSET Users] : Leads(list)'
  <2>1. PICK list \in [Nat -> SUBSET Users] : Leads(list)
    BY <1>1, <1>5 DEF VInv, InStep
  <2>2. k \in viewer.lastSeenId..Len(messages) - 1
    BY <1>1
  <2>3. Applies(viewer.user_ids, m, list[k + 1])
    BY <2>1, <2>2 DEF Leads, m
  <2>4. viewer'.user_ids = list[k + 1]
    BY <1>3, <2>3 DEF Applies
  <2>5. viewer'.count = Cardinality(viewer'.user_ids)
    <3>1. viewer.count = Cardinality(viewer.user_ids) /\ viewer.user_ids \in SUBSET Users
      BY <1>1, <1>5 DEF VInv, InStep, Viewer
    <3>2. Cardinality(list[k + 1]) = Cardinality(viewer.user_ids) + Cardinality(m.entering) - Cardinality(m.leaving)
      BY <1>1, <2>3, <3>1, AppliesCounts
    <3> QED
      BY <1>3, <2>4, <3>1, <3>2
  <2>6. \A i \in k + 1..Len(messages) - 1 : i \in k..Len(messages) - 1
    BY <1>1
  <2>7. Leads(list)'
    BY <1>1, <1>3, <2>1, <2>4, <2>6 DEF Leads, Unannounced, Message
  <2> QED
    BY <2>5, <2>7
<1>6. /\ viewer'.lastSeenId <= Len(messages') /\ viewer'.position <= Len(messages')
      /\ faults' = {} => faults = {}
      /\ viewer'.position = Unpolled => viewer'.lastSeenId = 0
  BY <1>1, <1>4
<1> QED
  BY <1>4, <1>5, <1>6 DEF VInv

LEMMA NextVInv == IInv /\ VInv /\ [Next]_vars => VInv'
<1> SUFFICES ASSUME IInv, VInv, [Next]_vars PROVE VInv'
  OBVIOUS
<1>1. CASE UNCHANGED <<redisVars, mutex, work, messages, viewer, changes, faults>>
  BY <1>1, QuietViewer DEF redisVars, PresentUsers, Unannounced
<1>2. CASE Unsubscribe \/ Resubscribe
  <2>1. /\ viewer' \in Viewer /\ ~viewer'.subscribed
        /\ viewer'.lastSeenId = 0 /\ viewer'.position = 0 /\ viewer'.position # Unpolled
    <3>1. viewer' = [subscribed |-> FALSE, lastSeenId |-> 0, position |-> 0, user_ids |-> {}, count |-> 0]
      BY <1>2 DEF Unsubscribe, Resubscribe, Unsubscribed
    <3>2. {} \in SUBSET Users /\ 0 \in Nat \cup {Unpolled} /\ 0 # Unpolled
      BY DEF Unpolled
    <3> QED
      BY <3>1, <3>2 DEF Viewer
  <2>2. Len(messages') \in Nat
    BY <1>2 DEF Unsubscribe, Resubscribe, IInv, Types
  <2> QED
    BY <2>1, <2>2 DEF VInv, InStep
<1>4. ASSUME NEW p \in Procs, BeginPresent(p) \/ BeginAutoLeave(p) PROVE VInv'
  <2>1. PICK at \in {"present", "auto_leave"} : Begin(p, at)
    BY <1>4 DEF BeginPresent, BeginAutoLeave
  <2>2. Unannounced' = Unannounced /\ \A q \in Unannounced : work'[q] = work[q]
    BY <2>1, QuietWork DEF Begin, Idle
  <2> QED
    BY <2>1, <2>2, QuietViewer DEF Begin, redisVars, PresentUsers
<1>3. ASSUME NEW p \in Procs, Proceed(p) PROVE VInv'
  BY <1>3, PublishViewer, GiveUpViewer DEF Proceed
<1> QED
  BY <1>1, <1>2, <1>3, <1>4, GiveUpViewer, SubscribeViewer, PollViewer, ProcessMessageViewer, PresentViewer,
     LeaveViewer, AutoLeaveViewer DEF Next, Tick, vars, redisVars

LEMMA SpecVInv == Spec => []VInv
<1>1. Init => VInv
  BY DEF Init, VInv, Viewer, Unsubscribed, Unpolled, InStep
<1> QED
  BY <1>1, NextVInv, SpecIInv, PTL DEF Spec

\* A browser that has all the bus has sent it shows, while nobody holds the
\* mutex, who is present, in a list as in a count, whenever it subscribed,
\* unless the channel's first message came between the state it got and its
\* first poll (presence_channel.rb:172, 536-580, presence.js:160-223).
THEOREM ViewerSeesPresent == Spec => []ViewerIsRight
<1>1. IInv /\ VInv => ViewerIsRight
  <2> SUFFICES ASSUME IInv, VInv, faults = {}, viewer.subscribed,
                      viewer.position = Len(messages), ~MutexLocked,
                      ~(viewer.lastSeenId = 0 /\ viewer.position > 0)
               PROVE  viewer.user_ids = PresentUsers /\ viewer.count = Cardinality(PresentUsers)
    BY DEF ViewerIsRight
  <2>1. Unannounced = {}
    BY PresenceAssumption DEF Unannounced, IInv, Ordered, Orderly, PublisherHasMutex, MutexLocked
  <2>2. InStep /\ viewer.lastSeenId = Len(messages)
    <3>1. Len(messages) \in Nat
      BY DEF IInv, Types
    <3> QED
      BY <3>1 DEF VInv, InStep, Unpolled
  <2>3. viewer.user_ids = PresentUsers /\ viewer.count = Cardinality(viewer.user_ids)
    BY <2>1, <2>2 DEF VInv, Leads
  <2> QED
    BY <2>3, Zenon
<1> QED
  BY <1>1, SpecIInv, SpecVInv, PTL

KnownFaults == faults \subseteq {"stolen", "lost", "expired"}

\* The types of the keys, the work and the browser
THEOREM PresenceTypeCorrect == Spec => []TypeOK
<1>1. Init => KnownFaults
  BY DEF Init, KnownFaults
<1>2. IInv /\ KnownFaults /\ [Next]_vars
        => KnownFaults'
  BY DEF KnownFaults, Next, vars, redisVars, Tick, MutexExpires, Subscribe, Poll, ProcessMessage, Resubscribe,
         Unsubscribe, BeginPresent, BeginAutoLeave, Begin, AutoLeave, AutoLeaveStops, Proceed, Publish, PublishFails, Release, Die, Present, Leave
<1>3. IInv /\ Due /\ VInv /\ KnownFaults => TypeOK
  <2> SUFFICES ASSUME IInv, Due, VInv, KnownFaults PROVE TypeOK
    OBVIOUS
  <2>1. /\ zlist \in [Sessions -> 0..MaxTime + Timeout]
        /\ channels \in 0..MaxTime + Timeout
    <3>1. \A s \in Sessions : zlist[s] \in Nat /\ seen[s] \in Nat /\ seen[s] <= now
      BY DEF IInv, Types, Due
    <3>2. now \in Nat /\ Timeout \in Nat /\ MaxTime \in Nat /\ now <= MaxTime
      BY PresenceAssumption DEF IInv, Types, Due
    <3>3. \A s \in Sessions : zlist[s] # 0 => zlist[s] <= seen[s] + Timeout
      BY DEF Due
    <3>4. \A s \in Sessions : zlist[s] \in 0..MaxTime + Timeout
      BY <3>1, <3>2, <3>3
    <3>5. channels \in 0..MaxTime + Timeout
      BY <3>2 DEF Due
    <3> QED
      BY <3>4, <3>5 DEF IInv, Types
  <2>2. hash \in [Users -> 0..Cardinality(Sessions)]
    <3> SUFFICES ASSUME NEW u \in Users PROVE hash[u] \in 0..Cardinality(Sessions)
      BY DEF IInv, Types
    <3>1. hash[u] = Cardinality(SessionsOf(u, Listed)) /\ SessionsOf(u, Listed) \subseteq Sessions
      BY DEF IInv, HashCountsSessions, SessionsOf, Listed
    <3>2. Cardinality(SessionsOf(u, Listed)) <= Cardinality(Sessions)
      BY <3>1, PresenceAssumption, FS_Subset
    <3>3. hash[u] \in Nat /\ Cardinality(Sessions) \in Nat
      BY Counted, PresenceAssumption, FS_CardinalityType
    <3> QED
      BY <3>1, <3>2, <3>3
  <2> QED
    BY <2>1, <2>2 DEF TypeOK, KnownFaults, IInv, Types, Works, Work, VInv
<1> QED
  BY <1>1, <1>2, <1>3, SpecDue, SpecVInv, PTL DEF Spec
=============================================================================
