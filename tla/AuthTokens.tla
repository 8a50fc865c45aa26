------------------------------ MODULE AuthTokens ------------------------------
(***************************************************************************)
(* app/models/user_auth_token.rb and the parts of                          *)
(* lib/auth/default_current_user_provider.rb that use it: one session of   *)
(* one browser.  The server keeps two tokens of the session, auth_token    *)
(* and prev_auth_token, and replaces auth_token from time to time; the     *)
(* browser's tabs share one cookie, which every response may set.          *)
(*                                                                         *)
(* A request reads the row, updates it in up to one further statement      *)
(* (lookup), does its work, and refreshes the session at its end from what *)
(* it read at its beginning (refresh_session, rotate!).  Requests and      *)
(* responses get lost, and responses overtake each other.  Time is kept as *)
(* ages, which stop growing where they no longer make a difference.        *)
(***************************************************************************)
EXTENDS Naturals

CONSTANTS
    Requests,       \* requests the browser can have under way at a time
    Safeguard,      \* the 30 seconds an unseen token is protected for
    Urgent,         \* URGENT_ROTATE_TIME
    Rotate,         \* ROTATE_TIME
    MaxToken,       \* bound on the tokens generated
    MaxCrashes      \* bound on the crashes of the browser

ASSUME AuthTokensAssumption ==
    /\ {Safeguard, Urgent, Rotate, MaxToken, MaxCrashes} \subseteq Nat
    /\ 2 * Safeguard <= Urgent
    /\ Urgent + Safeguard <= Rotate

None == 0           \* no cookie; no row
First == 1          \* the token of the login
Tokens == 1..MaxToken
Ages == 0..(Rotate + 1)
Steps == {"idle", "sent", "unsee", "see", "handle", "reply"}

VARIABLES
    row,            \* auth_token, prev_auth_token and auth_token_seen
    rotated_ago,    \* age of rotated_at
    last_token,     \* tokens generated so far
    cookie,         \* the cookie of the browser
    old_cookie,     \* the cookie it had before
    req,            \* the browser's requests
    crashes,        \* crashes of the browser so far
    presented,      \* (history) tokens that requests have brought
    slow            \* (history) an exchange lasted longer than Safeguard

vars == <<row, rotated_ago, last_token, cookie, old_cookie, req, crashes, presented, slow>>
browser == <<cookie, old_cookie, crashes>>

NoRow == [auth |-> None, prev |-> None, seen |-> FALSE]
NotFound == [found |-> FALSE, seen |-> FALSE, rotated_ago |-> 0]
Idle == [pc |-> "idle", token |-> None, model |-> NotFound, sets |-> FALSE,
         to |-> None, age |-> 0]

Init ==
    /\ row = NoRow
    /\ rotated_ago = 0
    /\ last_token = 0
    /\ cookie = None
    /\ old_cookie = None
    /\ req = [r \in Requests |-> Idle]
    /\ crashes = 0
    /\ presented = {}
    /\ slow = FALSE

Exists == row # NoRow
Accepted == IF Exists THEN {row.auth, row.prev} ELSE {}
At(r, pc) == req[r].pc = pc
Reply(r, sets, to) ==
    req' = [req EXCEPT ![r] = [Idle EXCEPT !.pc = "reply", !.sets = sets, !.to = to, !.age = req[r].age]]

-----------------------------------------------------------------------------
(* The server *)

Generated_NoPrev_M == [auth |-> First, prev |-> None, seen |-> FALSE]
Generated == [auth |-> First, prev |-> First, seen |-> FALSE]

\* log_on_user and UserAuthToken.generate!, for a browser without a session
LogOn(r) ==
    /\ At(r, "idle") /\ last_token = 0 /\ MaxToken > 0
    /\ last_token' = First
    /\ row' = Generated
    /\ rotated_ago' = 0
    /\ Reply(r, TRUE, First)
    /\ UNCHANGED <<browser, presented, slow>>

FollowUp_NeverUnsee_M(token) == IF token = row.auth /\ ~row.seen THEN "see" ELSE "handle"

\* Which update lookup makes after it has found the row
FollowUp(token) ==
    IF token # row.auth /\ row.seen THEN "unsee"
    ELSE IF token = row.auth /\ ~row.seen THEN "see"
    ELSE "handle"

\* UserAuthToken.lookup: the SELECT
Lookup(r) ==
    /\ At(r, "sent")
    /\ \/ /\ req[r].token \in Accepted
          /\ req' = [req EXCEPT ![r].pc = FollowUp(req[r].token),
                                ![r].model = [found |-> TRUE, seen |-> row.seen, rotated_ago |-> rotated_ago]]
       \/ /\ req[r].token \notin Accepted
          /\ req' = [req EXCEPT ![r].pc = "handle"]
    /\ presented' = presented \cup {req[r].token}
    /\ UNCHANGED <<row, rotated_ago, last_token, browser, slow>>

\* The browser came with the previous token although it has used the new one;
\* the record in memory is left as it is
Unsee(r) ==
    /\ At(r, "unsee")
    /\ row' = IF Exists /\ rotated_ago > Urgent /\ row.prev = req[r].token
              THEN [row EXCEPT !.seen = FALSE] ELSE row
    /\ req' = [req EXCEPT ![r].pc = "handle"]
    /\ UNCHANGED <<rotated_ago, last_token, browser, presented, slow>>

\* The rows that WHERE id AND auth_token = token matches
StillCurrent_Always_M(r) == Exists
StillCurrent(r) == Exists /\ row.auth = req[r].token

\* The browser came with the current token for the first time
See(r) ==
    /\ At(r, "see")
    /\ row' = IF StillCurrent(r) THEN [row EXCEPT !.seen = TRUE] ELSE row
    /\ req' = [req EXCEPT ![r].pc = "handle", ![r].model.seen = StillCurrent(r)]
    /\ UNCHANGED <<rotated_ago, last_token, browser, presented, slow>>

NeedsRotation(r) ==
    req[r].model.rotated_ago > (IF req[r].model.seen THEN Rotate ELSE Urgent)

\* The rows that the UPDATE of rotate! matches
MayRotate_Unguarded_M == Exists
MayRotate == Exists /\ (row.seen \/ rotated_ago > Safeguard)

Rotated_AlwaysPrev_M == [auth |-> last_token + 1, prev |-> row.auth, seen |-> FALSE]
Rotated == [auth |-> last_token + 1, prev |-> IF row.seen THEN row.auth ELSE row.prev, seen |-> FALSE]

\* refresh_session at the end of a request
RefreshSession(r) ==
    /\ At(r, "handle")
    /\ \/ /\ req[r].model.found /\ NeedsRotation(r) /\ MayRotate
          /\ last_token < MaxToken
          /\ last_token' = last_token + 1
          /\ row' = Rotated
          /\ rotated_ago' = 0
          /\ Reply(r, TRUE, last_token + 1)
       \/ /\ req[r].model.found /\ ~(NeedsRotation(r) /\ MayRotate)
          /\ Reply(r, FALSE, None)
          /\ UNCHANGED <<row, rotated_ago, last_token>>
       \/ /\ ~req[r].model.found
          /\ Reply(r, TRUE, None)
          /\ UNCHANGED <<row, rotated_ago, last_token>>
    /\ UNCHANGED <<browser, presented, slow>>

\* log_off_user; the refresh that follows finds no row to rotate
LogOff(r) ==
    /\ At(r, "handle")
    /\ row' = IF req[r].model.found THEN NoRow ELSE row
    /\ Reply(r, TRUE, None)
    /\ UNCHANGED <<rotated_ago, last_token, browser, presented, slow>>

-----------------------------------------------------------------------------
(* The browser, the network and time *)

Send(r) ==
    /\ At(r, "idle") /\ cookie # None
    /\ req' = [req EXCEPT ![r] = [Idle EXCEPT !.pc = "sent", !.token = cookie]]
    /\ UNCHANGED <<row, rotated_ago, last_token, browser, presented, slow>>

Receive(r) ==
    /\ At(r, "reply")
    /\ cookie' = IF req[r].sets THEN req[r].to ELSE cookie
    /\ old_cookie' = IF req[r].sets THEN cookie ELSE old_cookie
    /\ req' = [req EXCEPT ![r] = Idle]
    /\ UNCHANGED <<row, rotated_ago, last_token, crashes, presented, slow>>

\* The request does not get to the server, or the response not to the browser
Lose(r) ==
    /\ req[r].pc \in {"sent", "reply"}
    /\ req' = [req EXCEPT ![r] = Idle]
    /\ UNCHANGED <<row, rotated_ago, last_token, browser, presented, slow>>

\* The browser crashes before it has saved the cookie it got last.  Two
\* assumptions about the environment: no request is under way, and the cookie
\* lost is the session's current token.  A browser that loses a cookie when
\* the server is a token further already comes back with one the server has
\* forgotten, and is logged off.
Crash ==
    /\ crashes < MaxCrashes /\ \A r \in Requests : At(r, "idle")
    /\ cookie # None /\ cookie = row.auth /\ old_cookie # None
    /\ crashes' = crashes + 1
    /\ cookie' = old_cookie
    /\ UNCHANGED <<row, rotated_ago, last_token, old_cookie, req, presented, slow>>

Older(age) == IF age > Rotate THEN age ELSE age + 1

Tick ==
    /\ rotated_ago' = IF Exists THEN Older(rotated_ago) ELSE rotated_ago
    /\ req' = [r \in Requests |->
                 IF At(r, "idle") THEN req[r]
                 ELSE [req[r] EXCEPT !.age = IF @ > Safeguard THEN @ ELSE @ + 1,
                                     !.model.rotated_ago = IF req[r].model.found THEN Older(@) ELSE @]]
    /\ slow' = (slow \/ \E r \in Requests : ~At(r, "idle") /\ req[r].age >= Safeguard)
    /\ UNCHANGED <<row, last_token, browser, presented>>

Request(r) ==
    \/ LogOn(r) \/ Send(r)
    \/ Lookup(r) \/ Unsee(r) \/ See(r) \/ RefreshSession(r) \/ LogOff(r)
    \/ Receive(r) \/ Lose(r)

Next == Crash \/ Tick \/ \E r \in Requests : Request(r)

Spec == Init /\ [][Next]_vars

-----------------------------------------------------------------------------

TypeOK ==
    /\ row \in {NoRow} \cup [auth : Tokens, prev : Tokens, seen : BOOLEAN]
    /\ rotated_ago \in Ages
    /\ last_token \in 0..MaxToken
    /\ {cookie, old_cookie} \subseteq {None} \cup Tokens
    /\ req \in [Requests -> [pc : Steps, token : {None} \cup Tokens,
                             model : [found : BOOLEAN, seen : BOOLEAN, rotated_ago : Ages],
                             sets : BOOLEAN, to : {None} \cup Tokens,
                             age : 0..(Safeguard + 1)]]
    /\ crashes \in 0..MaxCrashes
    /\ presented \subseteq Tokens
    /\ slow \in BOOLEAN

\* auth_token_seen is about the token that is in the row now: the browser has
\* come with it.  A request that read the row before a rotation must not mark
\* the token it never saw (user_auth_token.rb:190, "we must protect against
\* concurrency issues here").
SeenWasPresented == row.seen => row.auth \in presented

\* However many responses get lost, prev_auth_token is a token the browser
\* came with, or the one it logged in with: the server never gets two tokens
\* ahead of the browser (user_auth_token.rb:251).
NeverAhead == Exists => row.prev \in presented \cup {First}

\* As long as no exchange outlasts the 30 seconds of rotate!, the cookie the
\* browser holds is accepted, in whatever order requests and responses are
\* handled, whichever get lost, and also after a crash took the current token
\* from the browser (Crash).
BrowserStaysLoggedIn == Exists /\ cookie # None /\ ~slow => cookie \in Accepted

\* Whoever comes with a token that was valid half a minute ago finds the
\* session (spec/models/user_auth_token_spec.rb:253, "keeps prev token valid
\* for 1 minute after it is confirmed"): no request is told to delete the
\* cookie of a session that exists.
PrevTokenStaysValid ==
    Exists /\ ~slow => \A r \in Requests : ~(At(r, "reply") /\ req[r].sets /\ req[r].to = None)

=============================================================================
