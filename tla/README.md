# A TLA+ model of Discourse's coordination code

Discourse is a Ruby on Rails forum with an Ember client. Most of its code is
ordinary request handling. What is hard to get right, and hard to test, is where
several processes, threads, browser windows or jobs meet: in a Redis key, in rows
of Postgres, in a message stream, in a queue. This directory models those places.

Every definition is translated from the source in `src/`; `PROJECT.json` maps
each one to its lines, lists the runs, and names for every hazard the properties
that watch over it. Paths below are relative to `src/`.

Contents: 1 inventory, 2 plan, 3 how the modules read the code, 4 the modules,
5 the runs, 6 the proofs, 7 where the code and its own words disagree, 8 what is
not modelled.

## 1. Inventory

### Modelled

| Component | State | Operations | Meets | Hard part | Correct when |
|---|---|---|---|---|---|
| `lib/distributed_mutex.rb` | one Redis key per lock, holding the last second for which it is valid | lock script, unlock script, retry loop with a read-only exit | every service that serializes work | the lock expires while held; an unlock comes late; the holder dies; Redis refuses writes | no two holders in date; a late unlock frees nobody else's lock; `get_lock` ends |
| `lib/distributed_memoizer.rb` | a value in Redis | `memoize` | DistributedMutex | the computation outlives its lock | one value between two expirations, unless somebody overran |
| posts of a topic: `lib/post_creator.rb`, `lib/post_destroyer.rb`, `app/models/topic.rb`, `app/services/topic_status_updater.rb` | tables `posts` and `topics`, row locks, the mutex `topic_id_…` | reply, whisper, like, delete, recover, reset of counters, close | DistributedMutex, Postgres | two number sources, row locks in different orders, statements with old snapshots, kills | numbers without gaps, no rolled-back creation while the mutex lasts, counters equal to the last posts, every request ends |
| drafts: `app/models/draft.rb`, `app/models/draft_sequence.rb`, `app/controllers/drafts_controller.rb`, `frontend/discourse/app/models/composer.js` | one row of `drafts`, one of `draft_sequences`, the sequence each window counts | autosave, forced save, post, discard, cleanup job | browser, web workers, PostCreator | optimistic sequence in the browser, two statements without a transaction, requests out of order, lost answers | a successful save is what the server shows; a window does not silently overwrite another's text; posting ends the draft |
| presence: `lib/presence_channel.rb`, `frontend/discourse/app/services/presence.js` | sorted set, hash, global list and mutex in Redis; a message backlog; the browser's list | present, leave, auto_leave, publish, subscribe | Lua scripts, message bus, browsers | script and message are two steps under a mutex that expires; the times a script works with are older than it | the counts agree, no session is overlooked, a browser ends with who is present |
| authentication tokens: `app/models/user_auth_token.rb`, `lib/auth/default_current_user_provider.rb` | current and previous token of a session, `auth_token_seen`, `rotated_at`; the browser's cookie | login, lookup with its two updates, rotation, logout | several tabs with one cookie, the network | a request decides at its end on what it read at its beginning; responses are lost, late, or overtake each other; the browser falls back to an older cookie | the server is never two tokens ahead; a browser that keeps its cookie stays logged in |
| post stream: `frontend/discourse/app/models/post-stream.js`, `controllers/topic.js` | list of ids, loaded window, identity map, staged post | append, prepend, refresh, messages of new and deleted posts, create, commit, undo | message bus, web workers | every answer meets what the browser did meanwhile; messages come in any order | no twins, no holes, no ghosts, nothing staged stays, the reader gets on |
| `lib/scheduler/thread_pool.rb` | queue, threads, busy threads, shutdown flag | post, shutdown, `thread_loop` | the threads that post; the AI plugin's pools | condition variable, idle timeout, growth, shutdown tokens | within its limits; accepted tasks run; shutdown ends every thread |

How they interact: replies and closing take the topic's DistributedMutex, so
`TopicPosts` composes the lease that DistributedMutex implements with the row
locks of Postgres; the memoizer composes DistributedMutex itself. Creating a post
advances the draft sequence in the post's transaction, which `Drafts` has as one
step. `PresenceChannel` has a mutex of its own, built into its Lua scripts.
The post stream hears of posts by the messages `PostCreator` and `PostDestroyer`
publish; `PostStream` has the server as the set of posts a reader may see. Every
request of every component comes with a token, which `AuthTokens` has by itself.
The ThreadPool stands alone: the AI plugin posts its outgoing requests to pools
with a minimum of no threads.

### Inventoried, for later modules

| Component | State | Hard part | What must hold |
|---|---|---|---|
| Scheduler::Defer and WorkQueue: `lib/scheduler/defer.rb`, `lib/work_queue.rb` | queues per site, worker thread, pause flag | fork, pause, stop, a bounded queue per site | deferred work runs or is reported as dropped; no site starves |
| `lib/rate_limiter.rb` | a list of times in Redis | trimming, clock, rollback in the middle of others | never more than max within the window |
| reviewables: `app/models/reviewable.rb` | status, version, scores | two moderators at once | one outcome, the other is told of the conflict |
| uploads: `app/services/external_upload_manager.rb` | a stub's status | two requests promote the same stub | one upload per stub |
| invites: `app/models/invite.rb`, `app/models/invite_redeemer.rb` | redemption count | concurrent redeemers | not above the limit |
| reading positions: `app/models/topic_user.rb`, `app/models/post_timing.rb`, `screen-track.js` | last read number | deletions, late timings | never beyond the last post; does not fall |
| consistency jobs: `app/jobs/scheduled/ensure_db_consistency.rb` | counters | running beside requests | repairs what section 7 shows to go wrong |
| browser state: `topic-tracking-state.js` | lists fed by messages | messages that meet a fresh load | converges to the server |
| topic timers, bookmarks, `lib/demon/*` | rows with a time; pid files | firing while being changed; restarts | fires once; one child per pid file |

The parts that will stay outside, with reasons, are in section 8 and in
`PROJECT.json`.

## 2. Plan

Done, in this order, the foundation first:

1. `LeaseLock` (abstract) and `DistributedMutex`, which implements it; `DistributedMemoizer` on top.
2. `TopicPosts`, which uses `LeaseLock` for the topic's mutex.
3. `Drafts`, `PresenceChannel`, `ThreadPool`.
4. `AuthTokens`, a protocol of one browser and the server over a network that
   loses, delays and reorders.
5. `PostStream`, the browser's end of what `TopicPosts` does on the server.
6. A module of proofs for each of them. Every safety property that a run checks
   and the code keeps is a theorem.

Next, most important first:

1. `Defer` and the fair, bounded queues of WorkQueue under it; an abstract pool
   ("a bag of accepted tasks, each run once") that `ThreadPool` and `Defer`
   implement, with the refinement as a property.
2. RateLimiter against the reference definition "at most max in any window";
   Reviewables, uploads and invites as instances of check-then-act on a row.
3. Extensions of `TopicPosts`: permanent destruction, moving posts, reading
   positions, `reset_all_highest!`, and so the repair of the counters.
4. `PostStream` with posts that are recovered or changed, and with filters.
5. Liveness of presence: a session that stops reporting is announced as gone.
6. Proofs: type correctness and the safety invariants of each module above, and the
   refinement of item 1, step by step, with the invariants of section 6.

Modules are written to be proved about: parameters are CONSTANTS with named
assumptions, there is one action per operation, nothing is RECURSIVE, and bounds
stand in guards, where the proofs do not use them.

## 3. How the modules read the code

- One atomic command of a store is one step: a Lua script in Redis, a statement
  in Postgres. What a process knows between two steps is kept in its record.
- Postgres runs at READ COMMITTED. A statement sees what was committed when it
  began; an UPDATE waits for the row's lock and holds it to the end of its
  transaction; what an open transaction wrote is kept with its request and
  reaches the table at COMMIT. A circle of row locks aborts one of its members.
- A Ruby `Mutex#synchronize` block is one step, cut at a `ConditionVariable#wait`.
- JavaScript runs to completion between an `ajax` call and its answer.
- A process may be killed at any step. Locks it holds in Postgres end with it;
  keys it holds in Redis stay until they expire.
- Data is reduced to what properties tell apart: a draft's text is the number of
  the request that carried it, a memoized value the process that computed it, a
  post its state, its visibility and its parents.
- History variables (`overran`, `faults`, `unclean`, `presented`, `slow`, `upset`,
  `seen`, fields `alone` and `late`)
  record what went wrong so far, for properties that hold unless it did. No
  action's guard reads them, except for the bound on the faults of `Drafts`.
- A definition `X_Fault_M` is the operator `X` with a plausible mistake in it. No
  specification uses it. Each property is known to fail when one of them takes
  the place of the operator it follows, so that the property does say something.

## 4. The modules

### LeaseLock
What a caller of `DistributedMutex.synchronize` may rely on: a lease is granted
only when none is in force, to one process, until some second; it ends when its
holder gives it back or the clock passes that second; a holder that dies
abandons it, and it stays in force.

### DistributedMutex
`key` is the Redis value, `now` the second `TIME` returns. `Begin` is the call,
`Lock` and `FailedAttempt` the two outcomes of `LOCK_SCRIPT` with what `get_lock`
makes of them (attempt counting, remembering a read-only answer, raising
`Discourse::ReadOnly`), `ReadTime` and `Unlock` the two commands of the `ensure`.
`KeyTTL` and `Tick` end the key: SETEX gives it `validity + 1` seconds from some
instant of the first second, hence an end somewhere in second `key + 1`.
`ToggleReadonly` is a failover, `RecentlyReadonly` another thread's report.
`attempts` stops at the threshold it is compared with, which changes no comparison.

### DistributedMemoizer
Extends DistributedMutex; a process inside the block is in `get`, `compute` or
`done`. Expiry of the value, a computation that raises, and a kill are actions.

### TopicPosts
`posts` and `topic` are the committed rows, `owner` the row locks, `req` the
requests: operation, place, and what they read (`number`, `linked`) or wrote
(`cols`, `whisper`) inside their transaction. A reply is `LockMutex`,
`LockReplyTo` (SELECT … FOR UPDATE), `SelectMax`, `NextPostNumber` (the row of
topics), `InsertPost` (the unique index decides), `UpdateReplied` (one UPDATE per
quoted or replied-to post), `EndTransaction`, `ReleaseMutex`. Closing begins with
the row of topics and creates its post inside that transaction, so its mutex ends
before its commit. A deletion locks its post, reads the last post of the topic (`SelectLastPost`, before it
may have to wait), locks the topic and the parents, commits, and
runs `reset_highest` as a statement of its own; recovery does without a
transaction. `reset_highest` is two steps, because it may wait for the row between
its snapshot and its write. The mutex is `INSTANCE LeaseLock`; `overran` remembers that
it expired under a creation that was not done yet.

### Drafts
`drafts` and `draft_sequences` are the two rows. `composers` is what each window
keeps; `requests` what it sent. Browser actions follow `composer.js`: `saveDraft`
counts the sequence up before the answer, `Saved` takes the server's, `SaveFailed`
leaves it counted up, `save` posts without waiting for a running autosave,
`destroyDraft` waits for it. `Open` takes the sequence with the draft the server shows;
when it shows none, the sequence is the page's, and that may be old
(`controllers/topic.js:782`). The server takes requests up in any order, up to
`Workers` at a time, and serves a save as `Select`, then `Upsert` and `Update`, or
`Insert`, or the controller's rescue (`Exists`, `Current`, and again `Select`).
`Lose` loses a request or an answer, `Kill` a worker.

### PresenceChannel
`zlist`, `hash`, `channels`, `mutex` are the Redis keys; `Present`, `Leave`,
`AutoLeave` and `AutoLeaveStops` are the scripts (the last one is the auto_leave
that meets a taken mutex in the middle of its list: Redis keeps what was done).
`BeginPresent` and `BeginAutoLeave` begin a request; the time its script works with is
computed in Ruby, for each try anew, so it is any time from then on (`Times`), and
scripts can run in another order than their times were computed.
A script that changes who is present takes the mutex and gives its process the
message to `Publish` and the mutex to `Release`; the process may fail or die, and
the mutex may expire, in between. `LuaEqual` is false for a string and a number,
as in Lua. `viewer` is a browser with the state it loaded, the last message it has
processed and where it stands on the bus, its list and its counter. A state of a
channel without messages comes without an id (`presence_channel.rb:172`); the browser
then subscribes to what is new at its first poll (`Poll`), and a message before that
never reaches it.

### ThreadPool
`post` is two blocks (`Check`, `Enqueue`), `thread_loop` is `Iterate` up to the
wait, `Resume` after it, and `Finish`. `WakeUp` is the end of the idle time or a
spurious wakeup. `signal` wakes some waiting thread; shutdown queues one token per
thread and wakes them all. A Thread that ended gives its identity to a later one.

### AuthTokens
`row` is the session's row of `user_auth_tokens`, `rotated_ago` the age of
`rotated_at`; `cookie` is what the tabs of the browser share. A request is
`Lookup` (the SELECT, with what it decides), `Unsee` or `See` (one conditional
UPDATE each, of which only `See` changes the record in memory), and
`RefreshSession`, which asks the record as it was read (`NeedsRotation`) and then
the row (`MayRotate`, the WHERE of `rotate!`). `LogOn` and `LogOff` begin and end
the session. `Receive` sets the cookie a response carries, `Lose` loses a request
or a response, `Crash` brings back the cookie before the last, with
no request under way and only when the cookie lost is the current token: an assumption
about browsers, without which a browser can come back with a token the server has
forgotten. Times are ages, and
an age stops growing where no comparison tells it from a greater one.

### PostStream
`visible` is what the server would list for the reader, `bus` the set of messages of
what is committed, not handled yet. Posts and deletions are published after their
transaction and outside the mutex (`lib/post_creator.rb:214`,
`lib/post_destroyer.rb:257`), so the browser handles the messages in any order;
`Reversed` notes when a post is told of before an older one. `upset` has three entries: a
request `failed`, an answer was `outdated` by a message, posts were `disordered` (told of
in reverse, crossed by the reader's own, or asked for before a jump). `stream`, `posts`, `imap` and `staging` are the object's fields of
those names; `refresh` and `call` are the requests under way, one for a topic
view, one for each of append, prepend and news. `AppendMore`, `PrependMore`,
`Created` and `Retry` go through `Find` (findPostsByIds: it asks for what the identity
map lacks then, `wanted`, and for nothing when it has it all) and end in `Shown`, at once or at `Arrive` or `Fail`.
`Refresh`, `ServeRefresh`, `UpdateFromJson` are a jump. `CreatePost` stages,
`CommitPost` and `UndoPost` are its two ends; while they are awaited, the topic
screen keeps messages back (`BusPaused`).

### MC modules
Each names its model values and, for `MCDistributedMutex` and `MCTopicPosts`, adds
the fair specification of the finite instance.

## 5. The runs

Deadlock is checked only in `mutex` and `memoizer`. The other instances stop by
design: every request, change or task there is has been used up, or the pool has
been shut down.

| Run | Instance | Distinct states | Shows |
|---|---|---|---|
| `mutex` | 2 processes, one with the global Redis; validities 1 and 2; 3 calls; clock to 20 | 312,568 | type, `MutualExclusion`, `HolderOwnsKey`, `ExpireTimesDiffer`, `OnlyHolderReleases`, refinement of `LeaseLock`, `GetLockEnds` |
| `memoizer` | 3 processes, validity 1, clock to 3 | 93,128 | types; a value is replaced only after an overrun |
| `topic_posts` | 3 requests out of reply, whisper, quoting reply, like, delete, recover, reset; 3 posts at first; validity 1, clock to 2 | 1,210,694 | types, `CreationsSucceed`, `DeadlocksNeedQuoteOrDeletion`, `CreationsCount`, `NextNumber` |
| `topic_live` | 2 requests of every kind, closing included; the clock passes the validity | 52,476 | `EveryRequestEnds` |
| `topic_close` | a reply and a close | violation | `NoRollback` fails |
| `drafts` | 2 windows, 3 requests, 2 workers, one fault, a draft from before, pages at most one sequence old | 8,647,179 | types, `PostedDraftGone`, `SequenceNeverDecreases`, `BlindOverwriteIsBounded`, `SavedIsServed` |
| `presence` | 2 processes, 3 sessions of 2 users, 2 changes, timeout 1, clock to 3 | 2,089,447 | types, `HashCountsSessions`, `ChannelDueInTime`, `PublishedInSequence`, `ViewerIsRight` |
| `threadpool` | at most 2 threads, at least 0 or 1, 3 tasks, 3 identities | 8,571 | types, `WithinLimits`, `AcceptedTaskRuns`, `CleanShutdownEnds` |
| `auth_tokens` | 3 requests at a time, 3 tokens, times 1, 2 and 3, one crash of the browser | 885,413 | type, `SeenWasPresented`, `NeverAhead`, `BrowserStaysLoggedIn` |
| `auth_prev` | the same without a crash | violation | `PrevTokenStaysValid` fails |
| `post_stream` | windows of 2, 2 posts at first, 4 at most, 1 deletion | 4,086,230 | type, `NoTwins`, `StagedIsResolved`, `LoadedIsWindow`, `NothingMissed`, `NoGhosts`, `NeverStuck` |
| `post_stream_jump` | windows of 1, 3 posts, none created or deleted | violation | `AppendsNextWindow` fails |

**Why the bounds suffice.**
*mutex*: with validities 1 and 2 a lock outlives a later one; three calls are
a holder that overruns, its successor, and a third while the first unlocks late.
The clock of this instance moves only while the key exists, so 20 is never what
stops a behaviour; the proofs have no bound.
*memoizer*: the first computes too long, the second stores, the third reads; three
seconds let two locks expire.
*topic_posts*: three requests are a circle of two row locks beside a third party,
or two creations beside a reset; with validity 1 and a clock to 2 the mutex expires
once, behind a killed holder, whose successor then creates a post, or under a
creation at work, whose successor may run into the unique index. Six numbers are three posts at first and one
each.
*drafts*: a conflict needs a save in each window and a third request that meets
it; two workers overlap a pair; one fault is a lost answer, a lost request, or a
dead worker. The draft at the start has revisions of its own, so that "the first
save of a draft" and later ones both occur. A page one sequence old is one on which
the user has posted or discarded since; with pages of any age the run was made once,
without an error (14,499,669 states).
*presence*: an entry and a departure, or two entries, are two changes, each with a
message; a session that enters beside another of its user needs none. Timeout 1 with
three seconds lets sessions expire together and one after another, and lets a script
bring a time two seconds older than another's. With three changes the run was made
once, without an error (19,240,684 states).
*threadpool*: a third task is the one that waits behind two; one more identity
than threads lets a thread end and another start at once.
*auth_tokens*: three requests are two that rotate at once and one whose response is
late; three tokens are two rotations, one more than the row remembers. The times
keep the order of 30 seconds, one and ten minutes, and the distances the named
assumption asks for; the proofs hold for all that do.
*post_stream*: a window of two can lie at either end of four posts or between, and
can be loaded in part; two new posts are one of the reader's and one of somebody
else in either order, or two news while a request for news is under way; one
deletion is enough to leave a hole, a ghost, or a window without a post. Two messages
are enough for either to come first.

**Symmetry** is used in runs of invariants and action properties only, over values
that the specification does not tell apart. The liveness runs use none.

**Fairness.**
- `mutex` (`LiveSpec`): the clock goes on while a key exists, and each process in
  `get_lock` goes round its loop, which sleeps at most a second between attempts.
  Nothing is assumed of a process in its block. The property is stated for
  processes with the global Redis, which are those that give up when Redis stays
  read-only.
- `topic_live` (`LiveSpec`): requests run, Postgres breaks deadlocks
  (`deadlock_timeout`), and time passes while the mutex is taken. Nobody is obliged
  to be killed. Weak fairness for waiting for a lock is enough here because there
  are finitely many requests; nothing is claimed about starvation under an endless
  stream.
- `threadpool` (`FairSpec`): Ruby schedules every thread, a post that has passed
  the check goes on, tasks end. Nothing is assumed of `WakeUp`: `idle_time` may be
  as long as one likes, so no property leans on a timeout to repair a lost signal.
- `post_stream` assumes none. That the reader gets on is stated as `NeverStuck`: at
  rest, the next window can be asked for and has something new. Whether readers
  scroll and networks answer is not the code's to say.

## 6. The proofs

The proof modules hold for every value of the constants: any number of processes,
requests, windows or sessions, any validity, timeout or limit. They assume only
the named ASSUMEs of the modules, most of which say that a number is a number.
Bounds stand in guards, where they only take behaviours away. Each proof is an
inductive invariant `IInv`, a lemma per action, and the theorem.

- **`DistributedMutex_proofs`**: `TypeCorrect`, `Exclusion`, `KeyIsHolders`,
  `LocksDiffer`, `OnlyHolder`, `LeaseRefinement`. Mutual exclusion is not inductive. The invariant
  adds that an in-date holder finds its own expire time in the key, so nobody else
  gets the lock script through, and that two outstanding locks differ in their
  expire times, so that a late unlock deletes nobody else's. A new
  lock's expire time is later than that of every lock still outstanding, because it
  is granted only when `now` has passed the key's value or the key is gone, and the
  key is gone only after an unlock by its owner or after its last second. The refinement maps the
  lease's holders to the outstanding processes whose expire time is in a valid key.
- **`DistributedMemoizer_proofs`**: `MemoTypeCorrect`, `ValueKept`. A step of the memoizer is a step
  of the mutex, so the invariant above carries over; to it comes that a process in
  `compute` that is in date has seen no value, and nobody else can have stored one.
- **`TopicPosts_proofs`**: `NumbersFollow`, `PostsTypeCorrect`,
  `CirclesNeedQuoteOrDeletion`, `CountersAddUp`, `NoCreationFails`. The mutex plays no
  part in the first. Whoever
  read the maximum goes on with the number after it; once that number is used,
  somebody else was given it; whoever inserts has the row of the topic, and what
  it inserts is new. So numbers have no gaps even when a mutex expires or ends
  early; what the mutex adds is that no creation runs into the unique index. A request has row
  locks only inside its transaction and takes the row of the topic last, except where
  it quotes or deletes; a reply has kept the row of the post it replies to. So a
  circle of waits has a quote, a deletion, or a reply to a deleted post that is
  recovered meanwhile in it. The counters are followed while there are only creations
  and likes: a creation that has the row of the topic carries exactly the columns its
  post calls for, a like writes none, so the row always equals what the posts add up
  to.
  `NoCreationFails` says so of every behaviour, up to the moment at which the mutex expires
  under a creation that is not done (`overran`), and while nobody closes the topic, of
  which the runs show a rollback. Leases end by release, by the death of their
  holder, and by expiring behind it. Until then a creation between its read of
  the maximum and its commit has the lease, so no other is there.
- **`Drafts_proofs`**: `DraftsTypeCorrect`, `SaveAloneIsServed`, `SequenceGrows`,
  `PostingEndsDraft`, `OverwritesAreSeen`. While a save counts as alone nothing else
  is served, hence what it read is still so when it writes. That holds whatever
  overlapping or dying requests left in the two rows before. `PostingEndsDraft` adds
  that the draft of such a save is never ahead of the sequence: every save that has
  begun since writes a greater one, so `next!` always destroys it; and that while it
  is served in its turn, nothing its window sent later has been taken up. For
  `OverwritesAreSeen` the invariant follows every sequence a window may save with: it
  is below the server's, or the text on the server is one that the window loaded or
  sent, or that was saved only once. A save that replaces the text has raised the
  sequence above all those first.
- **`PresenceChannel_proofs`**: `PresenceTypeCorrect`, `CountsAgree`,
  `NoSessionOverlooked`, `SequenceKept`, `ViewerSeesPresent`. The counts are
  arithmetic on the cardinality of the sessions of a user, for each script and for
  the auto_leave that stops half-way. Scripts may bring older times than those
  before them, so `NoSessionOverlooked` is about the script that listed a session last
  (`seen`): by `Due` the time a session is listed with is at most `seen + Timeout`. The channel's
  time is the least of those when a script takes it from the list; when a present keeps
  it, it is at most one `Timeout` after a script that ran before. For the
  sequence: a process that has to publish has the mutex and the newest change, as
  long as no mutex was taken away or expired. For the browser: there is a list of
  states that leads, message by message, from what the browser shows to who is
  present but for the change that is not published yet; the state it loads comes with
  the mutex free, hence with no such change. Its place on the bus is the last message
  it knows of (`InStep`), or the channel's first messages came before its first poll.
- **`ThreadPool_proofs`**: `PoolTypeCorrect`, `PoolWithinLimits`, `AcceptedTaskIsKept`,
  `NobodySleeps`, `TokensSuffice`. The lower limit
  needs that a `:shutdown` is in the queue only after the shutdown. The last three are
  the safety half of `AcceptedTaskRuns` and `CleanShutdownEnds`, stated in the proof
  module: a task that is queued waits there or runs in one thread, never twice; before
  the shutdown a queue with a task has a thread that is not asleep, because while any
  thread is asleep at least as many others are on their way to the queue as it has
  tasks; after a clean shutdown there is one `:shutdown` per thread left. They
  compare the cardinality of a set of threads with the length of the queue, so each
  action is a lemma about a thread that enters or leaves the set and an element that
  enters or leaves the queue. That a thread on its way gets there is fairness.
- **`AuthTokens_proofs`**: `TypeCorrect`, `OnlyPresentedIsSeen`,
  `ServerNeverAhead`, `CookieIsAccepted`. The last is the hard one, because a
  request acts on what it read up to a whole exchange ago. While no exchange has
  outlasted the safeguard, everything under way is younger than it, so of the two
  tokens before the current one at most one can still be on its way to the
  browser. The invariant follows each token: a cookie that is not accepted yet to
  come, a response that carries the newest token, a cookie the browser fell back
  to, what a request remembers of the age of the row. That a rotation leaves
  the cookie accepted then rests on `2 * Safeguard <= Urgent` and
  `Urgent + Safeguard <= Rotate`, which the code's 30 seconds, 1 and 10 minutes
  satisfy.
- **`PostStream_proofs`**: `StreamTypes`, `NoPostTwice`, `NothingStagedStays`,
  `NothingIsMissed`, `NoGhostStays`, `LoadedStaysWindow`, `ReaderNeverStuck`.
  `NoPostTwice` needs to know where the id of a post can
  be: as long as the creation of the reader's post is awaited, its message is still on
  the bus, in whatever order the bus has come by its messages; the stream has no post whose message
  is yet to come, but the one just committed; and what is staged is last in the stream.
  `NothingStagedStays` ties `Staged` in any of the three collections to a creation
  that is under way. For `NothingIsMissed` every visible post is in the stream, or in one of
  the places that lead to it: a message, the list of new posts, the request for
  news, the creation, an answer for a topic view. For `NoGhostStays` every id that is loaded and
  not visible has a message of its deletion on the way, or is being looked up; the
  identity map is what `findLoadedPost` asks, so it must have each post shown.
  The model's lists are folds. What a fold keeps, appends and sorts is proved once,
  without an induction scheme: a fold is a recursive function of the length, and the
  least length at which a statement fails is the end of a step that breaks it.

  `LoadedStaysWindow` and `ReaderNeverStuck` rest on a second invariant, `WindowInv`.
  Half of it, `MailInv`, holds always: news are kept and asked for in the order of
  their numbers until posts are disordered (`InSequence`), an answer for a topic view lacks only posts newer than its own, one
  window is asked for at a time. The other half, `SteadyInv`, holds as long as nothing
  failed and no posts were disordered. It looks ahead: a post that a
  request can still bring (`Here`) counts as loaded, and what is loaded in this sense is
  an unbroken part of what is left of the stream (`Windowed`), to whose end `append`
  and to whose beginning `prepend` adds in the right order. While news are asked for, the
  end of the stream is loaded (`NewsAtEnd`), so they belong there. The reader's own
  post is what makes it hard: it can be in the stream by a jump before `commitPost`
  appends it, so what is not loaded from there on must come after all that is loaded
  (`OwnAtEnd`); and it is the newest, since every newer post has a message on the bus
  (`OwnNewest`). Deleted posts stay in the lists until their message is handled, so
  all of this is said of the posts that a request can bring, and order is claimed only
  before a visible post (`InOrder`).

What only TLC shows is liveness (`GetLockEnds`, `EveryRequestEnds`, `AcceptedTaskRuns`,
`CleanShutdownEnds`), since fairness needs ENABLED.

## 7. Where the code and its own words disagree

Shown by runs that end in a violation:

1. `topic_close`: "we serialize creation to avoid needing rollbacks"
   (`lib/post_creator.rb:395-396`). Closing a topic creates its small action inside
   an outer transaction (`app/services/topic_status_updater.rb:12`), so the mutex
   ends before the post is committed, and a reply in between is given the same
   number and is rolled back by the unique index.
2. `auth_prev`: "keeps prev token valid for 1 minute after it is confirmed"
   (`spec/models/user_auth_token_spec.rb:253`). `refresh_session` decides on what
   `lookup` read (`lib/auth/default_current_user_provider.rb:238`); two requests
   that both read a token due for rotation rotate one after the other, as soon as
   the browser has come back with the first new token
   (`app/models/user_auth_token.rb:256`). A third request, with the token of a
   moment ago, finds no session and is told to delete the cookie.
3. `post_stream_jump`: "Appends the next window of posts to the stream"
   (`frontend/discourse/app/models/post-stream.js:475`). A jump does not wait for
   the window that is being loaded; the window is appended (line 504) to the posts
   of the new place.

Seen in the model, against what a comment says, and claimed by no property:

- "we need to make sure the messagebus messages are published in the same sequence
  that the PresenceChannel lua script are run", by a mutex that "the
  present/leave/auto_leave lua scripts will automatically acquire"
  (`lib/presence_channel.rb:362-374`). The leave script compares a string with a number
  (line 508), so a leave never waits for the mutex and its message may overtake
  another's (`stolen` in `PublishedInSequence`).
- "we serialize creation to avoid needing rollbacks" (`lib/post_creator.rb:395-396`)
  fails also when the mutex expires under a creation that is still at work (`overran`
  in `NoCreationFails`).
- "never wait for longer that 1 second" (`lib/distributed_memoizer.rb:4`): with
  several callers each may wait for all those before it.

Seen in the model, and set apart by a property's precondition or a note in
`PROJECT.json`; we know of no text in the repository that promises otherwise:

- The warning of tampering (`lib/distributed_mutex.rb:63-64`) is also logged when
  the lock ended between `TIME` and the unlock script.
- Quoting a post, and deleting a reply, update posts after the topic's row is
  locked and can deadlock with likes (`app/models/post.rb:1225`,
  `lib/post_destroyer.rb:462`).
- A reply to a deleted post locks nothing (`lib/post_creator.rb:311-318`). When the
  post is recovered meanwhile, the reply updates it after the topic's row, and can
  deadlock with a like of it.
- `reset_highest` does not take the topic's mutex; when its UPDATE waits for a
  reply that has the row, it writes what its sub-selects saw before
  (`app/models/topic.rb:999`), and the counters are off until the next post.
- Closing holds the row of the topic and waits for the mutex, a reply holds the
  mutex and waits for the row: a circle Postgres cannot see, which ends when the
  mutex expires.
- Two saves that overlap can both be accepted and lose one text; the cleanup job or
  a post beside a save can leave a save answered with success and not stored; a
  slow save lowers the sequence; a save served after the post brings its text back
  as a draft; a worker that dies between `Upsert` and `Update` leaves a draft that
  is not served until the next save.
- A window whose autosave was refused has already counted its sequence up
  (`composer.js:1363`); its next autosave is accepted, although it was told that
  the "draft is being edited in another window".
- The time of a present is computed before its script runs
  (`lib/presence_channel.rb:136`). Two sessions that enter an empty channel in the other
  order than their times leave the channel in the global list with the later one, and
  the first session is found that much after its end.
- The state of a channel without messages has no last id
  (`lib/presence_channel.rb:172`), so a browser that loaded it gets only what is
  published after its first poll. A message between the two is lost to it; the
  next shows it the gap, and it subscribes anew.
- A process that dies between script and message leaves browsers with a user too
  many or too few until they subscribe again.
- Posting to a ThreadPool whose threads are all busy spawns nothing
  (`lib/scheduler/thread_pool.rb:153`); it grows only when a thread takes a task.
- A ThreadPool that is shut down with tasks in its queue can spawn a thread without
  a `:shutdown` for it; with `min_threads` of at least one it never ends. A task
  whose post races with the shutdown is lost silently.
- An exchange longer than 30 seconds can log a browser out: its token is protected
  no longer than that (`user_auth_token.rb:256`).
- The reader's own post is shown at its end as soon as it is created
  (`post-stream.js:590`): before a post of somebody else whose message comes later.
- Posts are published after their transaction, outside the mutex
  (`lib/post_creator.rb:188-206`, `:214`). Two replies that are told of in reverse order are
  shown, at the end of the topic, the newer one first (`disordered`).
- A jump while a window or news is being loaded leaves holes, and a window whose
  posts are all shown already stops further scrolling. So does a window of posts
  that were all deleted. On topics longer than the run's, scrolling also stops after
  a window that failed to load while new posts arrived, and after a reader has jumped
  past the own post while its answer was awaited and a post between was deleted. The
  proofs found these two; `NeverStuck` sets them apart.
- A reader who posts while a post of somebody else is waiting for its request sees the
  own post first. `LoadedIsWindow` counts that as `disordered`, since a proof attempt
  showed that it matters, with more posts than the run has.
- `posts.json` that fails is swallowed: the new posts it was for stay out of the
  stream. A message handled while an older answer is on its way is undone by it.

## 8. What is not modelled

Within the modelled components: posts of new topics (nobody else sees them),
permanent destruction, moving and revising posts; backups of long drafts, the list
and count of drafts, upload references; a channel's configuration and permissions
and the browser's debounced reports of its own presence; `wait_for_termination`
with its kills, statistics and database connections of the ThreadPool; the end of
old sessions, the limit on sessions, API keys, impersonation and the rate limit of
bad cookies; filters, gaps, topics too long for a list of ids, recovered and changed
posts, excerpts and the timeline of the post stream. `PostStream` has one jump at a time, which
`refresh` (`post-stream.js:353-411`) does not ensure; a page's idea of a draft's sequence in `Drafts` is
at most `MaxAge` behind the server's; and a browser of `AuthTokens` crashes only when
its cookie is the row's current token and nothing is under way, which is an
assumption about how browsers save cookies, not a fact of the code.

Outside, besides what section 1 plans for later: the message bus and the
distributed cache, Sidekiq's queue and retries, which live in gems and are modelled
by how the code uses them; second factor, backups, mail, search, permissions,
settings, markdown, trust levels, and the create-read-update-delete of users,
groups and categories, which have no protocol among concurrent actors; the user
interface; the chat plugin and other plugins, programs beside the core; import
scripts, themes, locales, assets and vendored code.
