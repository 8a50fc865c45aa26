--------------------------- MODULE AuthTokens_proofs ---------------------------
(***************************************************************************)
(* Proofs about AuthTokens, for any number of requests under way and any   *)
(* times that satisfy AuthTokensAssumption.                                *)
(*                                                                         *)
(* The argument: as long as no exchange outlasts the safeguard (~slow),    *)
(* whatever is under way is younger than the safeguard, so the guard of    *)
(* rotate! keeps out every request that read the row before a rotation,    *)
(* until the browser has come with the new token.  The browser is then at  *)
(* most one token behind, and where it is one behind and the server thinks *)
(* it is not, the server cannot rotate.                                    *)
(***************************************************************************)
EXTENDS AuthTokens, TLAPS

\* Requests that have not been answered.
Active(r) == req[r].pc \in {"sent", "unsee", "see", "handle"}

\* Requests that carry a token to the browser.
Brings(r) == At(r, "reply") /\ req[r].sets /\ req[r].to # None

\* What the server and the browser have are tokens generated so far, the last
\* one in the row; what a request brings, it has brought.
Tracked ==
    /\ Exists => row.auth = last_token
    /\ cookie <= last_token /\ old_cookie <= last_token
    /\ \A r \in Requests :
         /\ Active(r) => req[r].token \in 1..last_token
         /\ req[r].to <= last_token
         /\ req[r].pc \in {"unsee", "see"} => req[r].token \in presented
         /\ req[r].pc = "unsee" /\ Exists => req[r].token # row.auth

\* No request is older than the safeguard.
Young == \A r \in Requests : req[r].age <= Safeguard

\* A token on its way to the browser is the current one, on its way since its
\* rotation, and nobody else has it.
OnItsWay ==
    \A r \in Requests : Brings(r) =>
        /\ req[r].to = row.auth /\ rotated_ago <= req[r].age
        /\ ~row.seen /\ cookie # row.auth
        /\ \A q \in Requests : (Active(q) => req[q].token # row.auth) /\ (Brings(q) => q = r)

\* The browser is a token behind, and the server thinks it is not: it crashed.
\* What it sends from then on makes the server forget it, or does not rotate.
FellBack ==
    cookie = row.prev /\ row.prev # row.auth =>
        \A r \in Requests :
            /\ Active(r) => req[r].token # row.auth
            /\ row.seen =>
                 /\ Active(r) => req[r].token = row.prev
                 /\ ~At(r, "see")
                 /\ At(r, "unsee") => /\ req[r].model.found /\ req[r].model.seen
                                       /\ req[r].model.rotated_ago = rotated_ago
                 /\ At(r, "handle") /\ req[r].model.found =>
                      req[r].model.seen /\ req[r].model.rotated_ago <= Urgent + req[r].age

\* The browser has the current token: requests with another one were sent
\* before it came, and those that brought it have marked it seen.
UpToDate ==
    cookie = row.auth =>
        /\ old_cookie \in {None, row.prev, row.auth}
        /\ \A r \in Requests :
             /\ Active(r) /\ req[r].token # row.auth => rotated_ago <= req[r].age + Safeguard
             /\ At(r, "handle") /\ req[r].model.found /\ req[r].token = row.auth => row.seen

\* What a request remembers of the rotation is still so, or it is older than the last one.
Remembered ==
    \A r \in Requests : Active(r) /\ req[r].model.found =>
        req[r].model.rotated_ago = rotated_ago \/ rotated_ago <= req[r].age

Calm ==
    /\ Young
    /\ Exists => /\ cookie \in {None, row.prev, row.auth}
                 /\ OnItsWay /\ FellBack /\ UpToDate /\ Remembered

IInv == TypeOK /\ Tracked /\ SeenWasPresented /\ NeverAhead /\ (~slow => Calm)

-----------------------------------------------------------------------------
(* Records *)

Model == [found : BOOLEAN, seen : BOOLEAN, rotated_ago : Ages]
Record == [pc : Steps, token : {None} \cup Tokens, model : Model, sets : BOOLEAN,
           to : {None} \cup Tokens, age : 0..(Safeguard + 1)]
Row == {NoRow} \cup [auth : Tokens, prev : Tokens, seen : BOOLEAN]

\* The times of the code, as the proofs use them.
LEMMA Times ==
    /\ Safeguard \in Nat /\ Urgent \in Nat /\ Rotate \in Nat /\ MaxToken \in Nat /\ MaxCrashes \in Nat
    /\ 2 * Safeguard <= Urgent /\ Urgent + Safeguard <= Rotate
BY AuthTokensAssumption

\* The empty records are records.
LEMMA IdleIsRecord == Idle \in Record /\ NotFound \in Model
<1>1. NotFound \in Model
  BY Times DEF Model, NotFound, Ages
<1> QED
  BY Times, <1>1 DEF Idle, Record, Steps, None

\* What the step of one request does to the records.
LEMMA OneRecord ==
    ASSUME NEW r \in Requests, req \in [Requests -> Record], NEW rec \in Record,
           req' = [req EXCEPT ![r] = rec]
    PROVE  /\ req' \in [Requests -> Record]
           /\ req'[r] = rec
           /\ \A q \in Requests \ {r} : req'[q] = req[q]
OBVIOUS

\* A response is a record, and takes the age of its request.
LEMMA ReplyIsRecord ==
    ASSUME NEW r \in Requests, req \in [Requests -> Record], NEW sets \in BOOLEAN,
           NEW to \in {None} \cup Tokens, Reply(r, sets, to)
    PROVE  /\ req' \in [Requests -> Record]
           /\ req'[r].pc = "reply" /\ req'[r].sets = sets /\ req'[r].to = to
           /\ req'[r].age = req[r].age /\ req'[r].token = None
           /\ \A q \in Requests \ {r} : req'[q] = req[q]
<1> DEFINE rec == [Idle EXCEPT !.pc = "reply", !.sets = sets, !.to = to, !.age = req[r].age]
<1>1. req[r] \in Record
  OBVIOUS
<1>2. /\ rec \in Record
      /\ rec.pc = "reply" /\ rec.sets = sets /\ rec.to = to
      /\ rec.age = req[r].age /\ rec.token = None
  BY <1>1, IdleIsRecord DEF Record, Steps, Idle
<1>3. req' = [req EXCEPT ![r] = rec]
  BY DEF Reply
<1> HIDE DEF rec
<1> QED
  BY <1>2, <1>3, OneRecord

\* Ages stay ages.
LEMMA OlderIsAge == \A age \in Ages : Older(age) \in Ages /\ Older(age) >= age /\ Older(age) <= age + 1
BY Times DEF Ages, Older

-----------------------------------------------------------------------------
(* What each operation does to the record of its request *)

Others(r) == \A q \in Requests \ {r} : req'[q] = req[q]

\* A request sets off with the cookie of the browser.
LEMMA SendRecord ==
    ASSUME TypeOK, NEW r \in Requests, Send(r)
    PROVE  /\ req' \in [Requests -> Record] /\ Others(r)
           /\ req'[r].pc = "sent" /\ req'[r].token = cookie /\ req'[r].age = 0
           /\ req'[r].to = None /\ ~req'[r].model.found
<1> DEFINE rec == [Idle EXCEPT !.pc = "sent", !.token = cookie]
<1>1. /\ rec \in Record /\ rec.pc = "sent" /\ rec.token = cookie /\ rec.age = 0
      /\ rec.to = None /\ ~rec.model.found
  BY IdleIsRecord DEF Record, Steps, Idle, NotFound, TypeOK
<1>2. req' = [req EXCEPT ![r] = rec]
  BY DEF Send
<1>3. req \in [Requests -> Record]
  BY DEF TypeOK, Record, Model
<1> HIDE DEF rec
<1> QED
  BY <1>1, <1>2, <1>3, OneRecord DEF Others

\* lookup leaves the record it found with the request, or none.
LEMMA LookupRecord ==
    ASSUME TypeOK, NEW r \in Requests, Lookup(r)
    PROVE  /\ req' \in [Requests -> Record] /\ Others(r)
           /\ req'[r].token = req[r].token /\ req'[r].age = req[r].age /\ req'[r].to = req[r].to
           /\ \/ /\ req[r].token \in Accepted
                 /\ req'[r].pc = FollowUp(req[r].token)
                 /\ req'[r].model = [found |-> TRUE, seen |-> row.seen, rotated_ago |-> rotated_ago]
              \/ /\ req[r].token \notin Accepted
                 /\ req'[r].pc = "handle"
                 /\ req'[r].model = req[r].model
<1>1. req \in [Requests -> Record] /\ req[r] \in Record
  BY DEF TypeOK, Record, Model
<1>2. CASE req[r].token \in Accepted
  <2> DEFINE model == [found |-> TRUE, seen |-> row.seen, rotated_ago |-> rotated_ago]
             rec == [req[r] EXCEPT !.pc = FollowUp(req[r].token), !.model = model]
  <2>1. row.seen \in BOOLEAN /\ rotated_ago \in Ages
    BY <1>2 DEF TypeOK, Accepted, Exists, NoRow
  <2>2. model \in Model
    BY <2>1 DEF Model
  <2>3. FollowUp(req[r].token) \in Steps
    BY DEF FollowUp, Steps
  <2>4. req' = [req EXCEPT ![r] = rec]
    BY <1>1, <1>2 DEF Lookup
  <2> HIDE DEF model
  <2>5. /\ rec \in Record /\ rec.token = req[r].token /\ rec.age = req[r].age /\ rec.to = req[r].to
        /\ rec.pc = FollowUp(req[r].token) /\ rec.model = model
    BY <1>1, <2>2, <2>3 DEF Record
  <2> HIDE DEF rec
  <2>6. /\ req' \in [Requests -> Record] /\ Others(r) /\ req'[r] = rec
    BY <1>1, <2>4, <2>5, OneRecord DEF Others
  <2> QED
    BY <1>2, <2>5, <2>6 DEF model
<1>3. CASE req[r].token \notin Accepted
  <2> DEFINE rec == [req[r] EXCEPT !.pc = "handle"]
  <2>1. req' = [req EXCEPT ![r] = rec]
    BY <1>1, <1>3 DEF Lookup
  <2>2. /\ rec \in Record /\ rec.token = req[r].token /\ rec.age = req[r].age /\ rec.to = req[r].to
        /\ rec.pc = "handle" /\ rec.model = req[r].model
    BY <1>1 DEF Record, Steps
  <2> HIDE DEF rec
  <2> QED
    BY <1>1, <1>3, <2>1, <2>2, OneRecord DEF Others
<1> QED
  BY <1>2, <1>3

\* The update that takes the mark away leaves the record in memory alone.
LEMMA UnseeRecord ==
    ASSUME TypeOK, NEW r \in Requests, Unsee(r)
    PROVE  /\ req' \in [Requests -> Record] /\ Others(r)
           /\ req'[r].pc = "handle" /\ req'[r].token = req[r].token /\ req'[r].age = req[r].age
           /\ req'[r].to = req[r].to /\ req'[r].model = req[r].model
<1> DEFINE rec == [req[r] EXCEPT !.pc = "handle"]
<1>1. req \in [Requests -> Record] /\ req[r] \in Record
  BY DEF TypeOK, Record, Model
<1>2. /\ rec \in Record /\ rec.token = req[r].token /\ rec.age = req[r].age /\ rec.to = req[r].to
      /\ rec.pc = "handle" /\ rec.model = req[r].model
  BY <1>1 DEF Record, Steps
<1>3. req' = [req EXCEPT ![r] = rec]
  BY <1>1 DEF Unsee
<1> HIDE DEF rec
<1> QED
  BY <1>1, <1>2, <1>3, OneRecord DEF Others

\* The update that sets the mark changes nothing else in the record.
LEMMA SeeRecord ==
    ASSUME TypeOK, NEW r \in Requests, See(r)
    PROVE  /\ req' \in [Requests -> Record] /\ Others(r)
           /\ req'[r].pc = "handle" /\ req'[r].token = req[r].token /\ req'[r].age = req[r].age
           /\ req'[r].to = req[r].to
           /\ req'[r].model.found = req[r].model.found
           /\ req'[r].model.rotated_ago = req[r].model.rotated_ago
<1> DEFINE model == [req[r].model EXCEPT !.seen = StillCurrent(r)]
           rec == [req[r] EXCEPT !.pc = "handle", !.model = model]
<1>1. req \in [Requests -> Record] /\ req[r] \in Record
  BY DEF TypeOK, Record, Model
<1>2. /\ model \in Model /\ model.found = req[r].model.found
      /\ model.rotated_ago = req[r].model.rotated_ago
  BY <1>1 DEF Record, Model, StillCurrent
<1>3. req' = [req EXCEPT ![r] = rec]
  BY <1>1 DEF See
<1> HIDE DEF model
<1>4. /\ rec \in Record /\ rec.token = req[r].token /\ rec.age = req[r].age /\ rec.to = req[r].to
      /\ rec.pc = "handle" /\ rec.model = model
  BY <1>1, <1>2 DEF Record, Steps
<1> HIDE DEF rec
<1> QED
  BY <1>1, <1>2, <1>3, <1>4, OneRecord DEF Others

\* An exchange that is over.
LEMMA IdleRecord ==
    ASSUME TypeOK, NEW r \in Requests, req' = [req EXCEPT ![r] = Idle]
    PROVE  /\ req' \in [Requests -> Record] /\ Others(r)
           /\ req'[r].pc = "idle" /\ req'[r].token = None /\ req'[r].to = None /\ req'[r].age = 0
<1>1. req \in [Requests -> Record]
  BY DEF TypeOK, Record, Model
<1>2. Idle.pc = "idle" /\ Idle.token = None /\ Idle.to = None /\ Idle.age = 0
  BY DEF Idle
<1> QED
  BY <1>1, <1>2, IdleIsRecord, OneRecord DEF Others

\* Time passes: what is under way gets older by one, and what it remembers does.
LEMMA TickRecord ==
    ASSUME TypeOK, Tick, NEW q \in Requests
    PROVE  /\ req'[q] \in Record
           /\ req'[q].pc = req[q].pc /\ req'[q].token = req[q].token /\ req'[q].to = req[q].to
           /\ req'[q].sets = req[q].sets
           /\ req'[q].model.found = req[q].model.found /\ req'[q].model.seen = req[q].model.seen
           /\ At(q, "idle") => req'[q].age = req[q].age
           /\ ~At(q, "idle") /\ req[q].age <= Safeguard => req'[q].age = req[q].age + 1
           /\ ~At(q, "idle") /\ req[q].model.found =>
                req'[q].model.rotated_ago = Older(req[q].model.rotated_ago)
<1>1. req[q] \in Record
  BY DEF TypeOK, Record, Model
<1>2. CASE At(q, "idle")
  <2>1. req'[q] = req[q]
    BY <1>2 DEF Tick
  <2> QED
    BY <1>1, <1>2, <2>1 DEF Record
<1>3. CASE ~At(q, "idle")
  <2> DEFINE age == IF req[q].age > Safeguard THEN req[q].age ELSE req[q].age + 1
             ago == IF req[q].model.found THEN Older(req[q].model.rotated_ago) ELSE req[q].model.rotated_ago
             model == [req[q].model EXCEPT !.rotated_ago = ago]
  <2>1. req'[q] = [req[q] EXCEPT !.age = age, !.model = model]
    BY <1>1, <1>3 DEF Tick
  <2>2. /\ model \in Model
        /\ model.found = req[q].model.found /\ model.seen = req[q].model.seen
        /\ model.rotated_ago = ago
    BY <1>1, OlderIsAge DEF Model, Record
  <2>3. /\ age \in 0..(Safeguard + 1)
        /\ req[q].age <= Safeguard => age = req[q].age + 1
    BY <1>1, Times DEF Record
  <2>4. req[q].model.found => ago = Older(req[q].model.rotated_ago)
    OBVIOUS
  <2> HIDE DEF age, ago, model
  <2> QED
    BY <1>1, <1>3, <2>1, <2>2, <2>3, <2>4 DEF Record, At
<1> QED
  BY <1>2, <1>3

-----------------------------------------------------------------------------
(* Types.  That presented holds tokens needs Tracked. *)

\* Every step keeps the types.
LEMMA TypeStep == TypeOK /\ Tracked /\ [Next]_vars => TypeOK'
<1> SUFFICES ASSUME TypeOK, Tracked, [Next]_vars PROVE TypeOK'
  OBVIOUS
<1> DEFINE Rest == /\ row' \in Row
                   /\ rotated_ago' \in Ages
                   /\ last_token' \in 0..MaxToken
                   /\ {cookie', old_cookie'} \subseteq {None} \cup Tokens
                   /\ crashes' \in 0..MaxCrashes
                   /\ presented' \subseteq Tokens
                   /\ slow' \in BOOLEAN
           Typed == req' \in [Requests -> Record] /\ Rest
<1>0. req \in [Requests -> Record] /\ \A r \in Requests : req[r] \in Record
  BY DEF TypeOK, Record, Model
<1>1. SUFFICES Typed
  BY DEF TypeOK, Record, Model, Row
<1> USE DEF browser
<1>2. ASSUME NEW r \in Requests, LogOn(r) PROVE Typed
  <2>1. First \in Tokens /\ First \in 0..MaxToken
    BY <1>2, Times DEF LogOn, First, Tokens
  <2>2. req' \in [Requests -> Record]
    BY <1>0, <1>2, <2>1, ReplyIsRecord DEF LogOn
  <2> QED
    BY <1>2, <2>1, <2>2, Times DEF LogOn, Generated, Row, Ages, TypeOK
<1>3. ASSUME NEW r \in Requests, Send(r) PROVE Typed
  BY <1>3, SendRecord DEF Send, TypeOK, Row
<1>4. ASSUME NEW r \in Requests, Lookup(r) PROVE Typed
  <2>1. req[r].token \in Tokens
    BY <1>4, Times DEF Lookup, At, Tracked, Active, TypeOK, Tokens
  <2> QED
    BY <1>4, <2>1, LookupRecord DEF Lookup, TypeOK, Row
<1>5. ASSUME NEW r \in Requests, Unsee(r) PROVE Typed
  BY <1>5, UnseeRecord DEF Unsee, TypeOK, Row, Exists
<1>6. ASSUME NEW r \in Requests, See(r) PROVE Typed
  BY <1>6, SeeRecord DEF See, TypeOK, Row, StillCurrent, Exists
<1>7. ASSUME NEW r \in Requests, RefreshSession(r) PROVE Typed
  <2>1. CASE UNCHANGED <<row, rotated_ago, last_token>> /\ (Reply(r, FALSE, None) \/ Reply(r, TRUE, None))
    BY <1>0, <1>7, <2>1, ReplyIsRecord DEF RefreshSession, TypeOK, Row
  <2>2. CASE /\ MayRotate /\ last_token < MaxToken /\ last_token' = last_token + 1
             /\ row' = Rotated /\ rotated_ago' = 0 /\ Reply(r, TRUE, last_token + 1)
    <3>1. last_token + 1 \in Tokens /\ last_token' \in 0..MaxToken /\ rotated_ago' \in Ages
      BY <2>2, Times DEF TypeOK, Tokens, Ages
    <3>2. req' \in [Requests -> Record]
      BY <1>0, <2>2, <3>1, ReplyIsRecord
    <3>3. row' \in Row
      BY <2>2, <3>1 DEF Rotated, Row, MayRotate, Exists, TypeOK
    <3> QED
      BY <1>7, <3>1, <3>2, <3>3 DEF RefreshSession, TypeOK
  <2> QED
    BY <1>7, <2>1, <2>2 DEF RefreshSession
<1>8. ASSUME NEW r \in Requests, LogOff(r) PROVE Typed
  BY <1>0, <1>8, ReplyIsRecord DEF LogOff, TypeOK, Row
<1>9. ASSUME NEW r \in Requests, Receive(r) PROVE Typed
  BY <1>9, IdleRecord DEF Receive, TypeOK, Row
<1>10. ASSUME NEW r \in Requests, Lose(r) PROVE Typed
  BY <1>10, IdleRecord DEF Lose, TypeOK, Row
<1>11. CASE Crash
  BY <1>0, <1>11, Times DEF Crash, TypeOK, Row
<1>12. CASE Tick
  <2>1. DOMAIN req' = Requests /\ \A q \in Requests : req'[q] \in Record
    BY <1>12, TickRecord DEF Tick
  <2>2. req' = [q \in Requests |-> req'[q]]
    BY <1>12 DEF Tick
  <2>3. rotated_ago' \in Ages
    BY <1>12, OlderIsAge DEF Tick, TypeOK
  <2> QED
    BY <1>12, <2>1, <2>2, <2>3 DEF Tick, TypeOK, Row
<1>13. CASE UNCHANGED vars
  BY <1>0, <1>13 DEF vars, TypeOK, Row
<1> QED
  BY <1>2, <1>3, <1>4, <1>5, <1>6, <1>7, <1>8, <1>9, <1>10, <1>11, <1>12, <1>13 DEF Next, Request

-----------------------------------------------------------------------------
(* The server never gets two tokens ahead of the browser. *)

Base == TypeOK /\ Tracked /\ SeenWasPresented /\ NeverAhead

\* Every step keeps what does not depend on the time exchanges take.
LEMMA BaseStep == Base /\ [Next]_vars => Base'
<1> SUFFICES ASSUME Base, [Next]_vars PROVE Base'
  OBVIOUS
<1> DEFINE Goal == Tracked' /\ SeenWasPresented' /\ NeverAhead'
<1> USE DEF browser
<1>0. /\ req \in [Requests -> Record] /\ row \in Row
      /\ last_token \in 0..MaxToken /\ \A r \in Requests : req[r] \in Record
      /\ cookie \in 0..MaxToken /\ old_cookie \in 0..MaxToken
      /\ \A r \in Requests : req[r].token \in 0..MaxToken /\ req[r].to \in 0..MaxToken
      /\ MaxToken \in Nat
  BY Times DEF Base, TypeOK, Record, Model, Row, Tokens, None
<1>1. TypeOK'
  BY TypeStep DEF Base
<1>2. SUFFICES Goal
  BY <1>1 DEF Base
<1>3. ASSUME NEW r \in Requests, LogOn(r) PROVE Goal
  <2>1. last_token' = 1 /\ row' = Generated /\ cookie = None /\ old_cookie = None
    BY <1>0, <1>3 DEF LogOn, First, Base, Tracked, None
  <2>2. \A q \in Requests : ~Active(q) /\ req[q].to <= 0
    BY <1>0, <1>3 DEF LogOn, Base, Tracked
  <2>3. First \in {None} \cup Tokens
    BY <1>0, <1>3 DEF LogOn, First, Tokens
  <2>4. req'[r].pc = "reply" /\ req'[r].to = 1 /\ \A q \in Requests \ {r} : req'[q] = req[q]
    BY <1>0, <1>3, <2>3, ReplyIsRecord DEF LogOn, First
  <2>5. Tracked'
    BY <1>0, <1>3, <2>1, <2>2, <2>4 DEF LogOn, Tracked, Generated, First, Active, None
  <2> QED
    BY <2>1, <2>5 DEF SeenWasPresented, NeverAhead, Generated
<1>4. ASSUME NEW r \in Requests, Send(r) PROVE Goal
  <2>0. /\ req'[r].pc = "sent" /\ req'[r].token = cookie /\ req'[r].to = 0
        /\ \A q \in Requests \ {r} : req'[q] = req[q]
        /\ cookie # 0
    BY <1>4, SendRecord DEF Send, Base, Others, None
  <2>1. Tracked'
    BY <1>0, <1>4, <2>0 DEF Send, Base, Tracked, Active, Exists
  <2> QED
    BY <1>4, <2>1 DEF Send, Base, SeenWasPresented, NeverAhead, Exists
<1>5. ASSUME NEW r \in Requests, Lookup(r) PROVE Goal
  <2>1. Tracked'
    BY <1>0, <1>5, LookupRecord DEF Lookup, At, Base, Tracked, Active, Others, FollowUp, Exists
  <2> QED
    BY <1>5, <2>1 DEF Lookup, Base, SeenWasPresented, NeverAhead, Exists
<1>6. ASSUME NEW r \in Requests, Unsee(r) PROVE Goal
  <2>1. /\ row'.auth = row.auth /\ row'.prev = row.prev /\ row'.seen \in {row.seen, FALSE}
        /\ Exists' <=> Exists
    <3>1. CASE row' = row
      BY <1>0, <3>1 DEF Row, Exists, NoRow
    <3>2. CASE Exists /\ row' = [row EXCEPT !.seen = FALSE]
      BY <1>0, <3>2 DEF Row, Exists, NoRow, None, Tokens
    <3> QED
      BY <1>6, <3>1, <3>2 DEF Unsee
  <2>2. Tracked'
    BY <1>0, <1>6, <2>1, UnseeRecord DEF Unsee, At, Base, Tracked, Active, Others
  <2> QED
    BY <1>6, <2>1, <2>2 DEF Unsee, Base, SeenWasPresented, NeverAhead
<1>7. ASSUME NEW r \in Requests, See(r) PROVE Goal
  <2>1. /\ row'.auth = row.auth /\ row'.prev = row.prev
        /\ row'.seen => row.seen \/ row.auth = req[r].token
        /\ Exists' <=> Exists
    <3>1. CASE row' = row
      BY <1>0, <3>1 DEF Row, Exists, NoRow
    <3>2. CASE StillCurrent(r) /\ row' = [row EXCEPT !.seen = TRUE]
      BY <1>0, <3>2 DEF Row, StillCurrent, Exists, NoRow, None, Tokens
    <3> QED
      BY <1>7, <3>1, <3>2 DEF See
  <2>2. Tracked'
    <3>1. /\ req'[r].pc = "handle" /\ req'[r].token = req[r].token /\ req'[r].to = req[r].to
          /\ \A q \in Requests \ {r} : req'[q] = req[q]
          /\ req[r].pc = "see"
      BY <1>7, SeeRecord DEF See, At, Base, Others
    <3> QED
      BY <1>0, <1>7, <2>1, <3>1 DEF See, Base, Tracked, Active
  <2>3. req[r].token \in presented
    BY <1>7 DEF See, At, Base, Tracked
  <2> QED
    BY <1>7, <2>1, <2>2, <2>3 DEF See, Base, SeenWasPresented, NeverAhead
<1>8. ASSUME NEW r \in Requests, RefreshSession(r) PROVE Goal
  <2>1. CASE UNCHANGED <<row, rotated_ago, last_token>> /\ (Reply(r, FALSE, None) \/ Reply(r, TRUE, None))
    <3>1. req'[r].pc = "reply" /\ req'[r].to = None /\ \A q \in Requests \ {r} : req'[q] = req[q]
      BY <1>0, <2>1, ReplyIsRecord
    <3>2. Tracked'
      BY <1>0, <1>8, <2>1, <3>1 DEF RefreshSession, Base, Tracked, Active, None, Exists
    <3> QED
      BY <1>8, <2>1, <3>2 DEF RefreshSession, Base, SeenWasPresented, NeverAhead, Exists
  <2>2. CASE /\ MayRotate /\ last_token < MaxToken /\ last_token' = last_token + 1
             /\ row' = Rotated /\ Reply(r, TRUE, last_token + 1)
    <3>1. last_token + 1 \in Tokens
      BY <1>0, <2>2 DEF Tokens
    <3>2. /\ req'[r].pc = "reply" /\ req'[r].to = last_token + 1
          /\ \A q \in Requests \ {r} : req'[q] = req[q]
      BY <1>0, <2>2, <3>1, ReplyIsRecord
    <3>3. /\ row'.auth = last_token + 1 /\ ~row'.seen
          /\ row'.prev = (IF row.seen THEN row.auth ELSE row.prev)
      BY <2>2 DEF Rotated
    <3>4. Tracked'
      BY <1>0, <1>8, <2>2, <3>2, <3>3 DEF RefreshSession, Base, Tracked, Active
    <3> QED
      BY <1>8, <2>2, <3>3, <3>4 DEF RefreshSession, Base, SeenWasPresented, NeverAhead, MayRotate
  <2> QED
    BY <1>8, <2>1, <2>2 DEF RefreshSession
<1>9. ASSUME NEW r \in Requests, LogOff(r) PROVE Goal
  <2>1. req'[r].pc = "reply" /\ req'[r].to = None /\ \A q \in Requests \ {r} : req'[q] = req[q]
    BY <1>0, <1>9, ReplyIsRecord DEF LogOff
  <2>2. row' = row \/ (row' = NoRow /\ ~Exists')
    BY <1>9 DEF LogOff, Exists
  <2>3. Tracked'
    BY <1>0, <1>9, <2>1, <2>2 DEF LogOff, Base, Tracked, Active, None, Exists
  <2> QED
    BY <1>9, <2>2, <2>3 DEF LogOff, Base, SeenWasPresented, NeverAhead, Exists, NoRow
<1>10. ASSUME NEW r \in Requests, Receive(r) PROVE Goal
  <2>0. /\ req'[r].pc = "idle" /\ req'[r].to = 0
        /\ \A q \in Requests \ {r} : req'[q] = req[q]
    BY <1>10, IdleRecord DEF Receive, Base, Others, None
  <2>1. Tracked'
    BY <1>0, <1>10, <2>0 DEF Receive, Base, Tracked, Active, Exists
  <2> QED
    BY <1>10, <2>1 DEF Receive, Base, SeenWasPresented, NeverAhead, Exists
<1>11. ASSUME NEW r \in Requests, Lose(r) PROVE Goal
  <2>0. /\ req'[r].pc = "idle" /\ req'[r].to = 0
        /\ \A q \in Requests \ {r} : req'[q] = req[q]
    BY <1>11, IdleRecord DEF Lose, Base, Others, None
  <2>1. Tracked'
    BY <1>0, <1>11, <2>0 DEF Lose, Base, Tracked, Active, Exists
  <2> QED
    BY <1>11, <2>1 DEF Lose, Base, SeenWasPresented, NeverAhead, Exists
<1>12. CASE Crash
  BY <1>0, <1>12 DEF Crash, Base, Tracked, Active, SeenWasPresented, NeverAhead, Exists
<1>13. CASE Tick
  <2>0. \A q \in Requests : /\ req'[q].pc = req[q].pc /\ req'[q].token = req[q].token
                              /\ req'[q].to = req[q].to
    BY <1>13, TickRecord DEF Base
  <2>u. UNCHANGED <<row, last_token, cookie, old_cookie, presented>>
    BY <1>13 DEF Tick
  <2>1. Tracked'
    BY <2>0, <2>u DEF Base, Tracked, Active, Exists
  <2> QED
    BY <1>13, <2>1 DEF Tick, Base, SeenWasPresented, NeverAhead, Exists
<1>14. CASE UNCHANGED vars
  BY <1>14 DEF vars, Base, Tracked, Active, SeenWasPresented, NeverAhead, Exists
<1> QED
  BY <1>3, <1>4, <1>5, <1>6, <1>7, <1>8, <1>9, <1>10, <1>11, <1>12, <1>13, <1>14 DEF Next, Request

-----------------------------------------------------------------------------
(* As long as no exchange outlasts the safeguard *)

\* The ranges that arithmetic needs.
LEMMA Numbers ==
    TypeOK =>
      /\ Safeguard \in Nat /\ Urgent \in Nat /\ Rotate \in Nat
      /\ 2 * Safeguard <= Urgent /\ Urgent + Safeguard <= Rotate
      /\ rotated_ago \in Nat /\ last_token \in Nat /\ cookie \in Nat /\ old_cookie \in Nat
      /\ row.auth \in Nat /\ row.prev \in Nat /\ row.seen \in BOOLEAN
      /\ Exists => row.auth # None /\ row.prev # None
      /\ \A r \in Requests :
           /\ req[r].age \in Nat /\ req[r].token \in Nat /\ req[r].to \in Nat
           /\ req[r].model.rotated_ago \in Nat
           /\ req[r].sets \in BOOLEAN /\ req[r].model.found \in BOOLEAN /\ req[r].model.seen \in BOOLEAN
<1> SUFFICES ASSUME TypeOK
             PROVE  /\ rotated_ago \in Nat /\ last_token \in Nat /\ cookie \in Nat /\ old_cookie \in Nat
                    /\ row.auth \in Nat /\ row.prev \in Nat /\ row.seen \in BOOLEAN
                    /\ Exists => row.auth # None /\ row.prev # None
                    /\ \A r \in Requests :
                         /\ req[r].age \in Nat /\ req[r].token \in Nat /\ req[r].to \in Nat
                         /\ req[r].model.rotated_ago \in Nat
                         /\ req[r].sets \in BOOLEAN /\ req[r].model.found \in BOOLEAN
                         /\ req[r].model.seen \in BOOLEAN
  BY Times
<1>1. rotated_ago \in Nat /\ last_token \in Nat /\ cookie \in Nat /\ old_cookie \in Nat
  BY Times DEF TypeOK, Ages, Tokens, None
<1>2. /\ row.auth \in Nat /\ row.prev \in Nat /\ row.seen \in BOOLEAN
      /\ Exists => row.auth # None /\ row.prev # None
  <2>1. row \in Row
    BY DEF TypeOK, Row
  <2>2. CASE row = NoRow
    BY <2>2 DEF NoRow, None, Exists
  <2>3. CASE row \in [auth : Tokens, prev : Tokens, seen : BOOLEAN]
    BY <2>3, Times DEF Tokens, None
  <2> QED
    BY <2>1, <2>2, <2>3 DEF Row
<1>3. ASSUME NEW r \in Requests
      PROVE  /\ req[r].age \in Nat /\ req[r].token \in Nat /\ req[r].to \in Nat
             /\ req[r].model.rotated_ago \in Nat
             /\ req[r].sets \in BOOLEAN /\ req[r].model.found \in BOOLEAN
             /\ req[r].model.seen \in BOOLEAN
  <2>1. req[r] \in Record
    BY DEF TypeOK, Record, Model
  <2> QED
    BY <2>1, Times DEF Record, Model, Ages, Tokens, None
<1> QED
  BY <1>1, <1>2, <1>3

\* What holds of a session that exists.
Session == cookie \in {None, row.prev, row.auth} /\ OnItsWay /\ FellBack /\ UpToDate /\ Remembered

\* With the first session nothing is under way but the answer to the login.
LEMMA LogOnIsCalm ==
    ASSUME Base, Base', Calm, NEW r \in Requests, LogOn(r)
    PROVE  Calm'
<1>1. /\ row'.auth = 1 /\ row'.prev = 1 /\ ~row'.seen /\ rotated_ago' = 0
      /\ cookie' = 0 /\ old_cookie' = 0
  BY Numbers DEF LogOn, Generated, First, Base, Tracked, None, browser
<1>2. \A q \in Requests : ~Active(q) /\ req[q].to = 0
  BY Numbers DEF LogOn, Base, Tracked
<1>3. /\ req'[r].pc = "reply" /\ req'[r].to = 1 /\ req'[r].age = req[r].age
      /\ \A q \in Requests \ {r} : req'[q] = req[q]
  <2>1. First \in {None} \cup Tokens
    BY Times DEF LogOn, First, Tokens
  <2>2. req \in [Requests -> Record]
    BY DEF Base, TypeOK, Record, Model
  <2> QED
    BY <2>1, <2>2, ReplyIsRecord DEF LogOn, First
<1>4. \A q \in Requests : ~Active(q)' /\ (Brings(q)' => q = r)
  BY <1>2, <1>3 DEF Active, Brings, At, None
<1>5. req'[r].age \in Nat
  BY <1>3, Numbers DEF Base
<1>6. Young'
  BY <1>3 DEF Calm, Young
<1>7. OnItsWay'
  BY <1>1, <1>3, <1>4, <1>5 DEF OnItsWay
<1>8. FellBack' /\ UpToDate' /\ Remembered'
  BY <1>1, <1>4 DEF FellBack, UpToDate, Remembered
<1> QED
  BY <1>1, <1>6, <1>7, <1>8 DEF Calm, None

\* A request brings what the browser has at that time.
LEMMA SendIsCalm ==
    ASSUME Base, Base', Calm, NEW r \in Requests, Send(r)
    PROVE  Calm'
<1>1. /\ req'[r].pc = "sent" /\ req'[r].token = cookie /\ req'[r].age = 0
      /\ ~req'[r].model.found
      /\ \A q \in Requests \ {r} : req'[q] = req[q]
      /\ UNCHANGED <<row, rotated_ago, cookie, old_cookie>> /\ cookie # None
  BY SendRecord DEF Send, Base, Others, browser
<1>2. Young'
  BY <1>1, Times DEF Calm, Young
<1>3. ASSUME Exists PROVE Session'
  <2>1. Session
    BY <1>3 DEF Calm, Session
  <2>2. OnItsWay'
    BY <1>1, <2>1 DEF Session, OnItsWay, Active, Brings, At
  <2>3. FellBack'
    BY <1>1, <2>1 DEF Session, FellBack, Active, At
  <2>4. UpToDate'
    BY <1>1, <2>1 DEF Session, UpToDate, Active, At
  <2>5. Remembered'
    BY <1>1, <2>1 DEF Session, Remembered, Active
  <2> QED
    BY <1>1, <2>1, <2>2, <2>3, <2>4, <2>5 DEF Session
<1> QED
  BY <1>1, <1>2, <1>3 DEF Calm, Session, Exists

\* A request that arrives finds out where the browser is.
LEMMA LookupIsCalm ==
    ASSUME Base, Base', Calm, NEW r \in Requests, Lookup(r)
    PROVE  Calm'
<1>1. /\ req[r].pc = "sent" /\ Active(r)'
      /\ req'[r].token = req[r].token /\ req'[r].age = req[r].age
      /\ \/ /\ req[r].token \in Accepted
            /\ req'[r].pc = FollowUp(req[r].token)
            /\ req'[r].model.found /\ req'[r].model.seen = row.seen
            /\ req'[r].model.rotated_ago = rotated_ago
         \/ /\ req[r].token \notin Accepted
            /\ req'[r].pc = "handle"
            /\ req'[r].model = req[r].model
      /\ \A q \in Requests \ {r} : req'[q] = req[q]
      /\ UNCHANGED <<row, rotated_ago, cookie, old_cookie>>
  BY LookupRecord DEF Lookup, At, Base, Others, browser, Active, FollowUp
<1>2. Young'
  BY <1>1 DEF Calm, Young
<1>3. ASSUME Exists PROVE Session'
  <2>1. Session /\ Accepted = {row.auth, row.prev}
    BY <1>3 DEF Calm, Session, Accepted
  <2>2. OnItsWay'
    BY <1>1, <2>1 DEF Session, OnItsWay, Active, Brings, At
  <2>3. FellBack'
    BY <1>1, <2>1, Numbers DEF Base, Session, FellBack, Active, At, FollowUp
  <2>4. UpToDate'
    BY <1>1, <2>1, Numbers DEF Base, Session, UpToDate, Active, At, FollowUp
  <2>5. Remembered'
    BY <1>1, <2>1 DEF Session, Remembered, Active
  <2> QED
    BY <1>1, <2>1, <2>2, <2>3, <2>4, <2>5 DEF Session
<1> QED
  BY <1>1, <1>2, <1>3 DEF Calm, Session, Exists

\* Where the browser has the current token, a late request with the one before
\* comes too early after the rotation to take its mark away.
LEMMA UnseeIsCalm ==
    ASSUME Base, Base', Calm, NEW r \in Requests, Unsee(r)
    PROVE  Calm'
<1>1. /\ req[r].pc = "unsee" /\ req'[r].pc = "handle"
      /\ req'[r].token = req[r].token /\ req'[r].age = req[r].age /\ req'[r].model = req[r].model
      /\ \A q \in Requests \ {r} : req'[q] = req[q]
      /\ UNCHANGED <<rotated_ago, cookie, old_cookie>>
  BY UnseeRecord DEF Unsee, At, Base, Others, browser
<1>2. Young'
  BY <1>1 DEF Calm, Young
<1>3. ASSUME Exists PROVE Session'
  <2>1. Session
    BY <1>3 DEF Calm, Session
  <2>2. req[r].token # row.auth
    BY <1>1, <1>3 DEF Base, Tracked
  <2>3. \/ /\ row' = row /\ (rotated_ago <= Urgent \/ row.prev # req[r].token)
        \/ /\ rotated_ago > Urgent /\ ~row'.seen /\ row'.auth = row.auth /\ row'.prev = row.prev
    <3>1. CASE rotated_ago > Urgent /\ row.prev = req[r].token
      <4>1. row' = [row EXCEPT !.seen = FALSE]
        BY <1>3, <3>1 DEF Unsee
      <4> QED
        BY <1>3, <3>1, <4>1 DEF Base, TypeOK, Exists
    <3>2. CASE ~(rotated_ago > Urgent /\ row.prev = req[r].token)
      BY <1>3, <3>2, Numbers DEF Unsee, Base
    <3> QED
      BY <3>1, <3>2
  <2>4. OnItsWay'
    BY <1>1, <2>1, <2>3 DEF Session, OnItsWay, Active, Brings, At
  <2>5. FellBack'
    BY <1>1, <2>1, <2>2, <2>3, Numbers DEF Base, Session, FellBack, Active, At
  <2>6. UpToDate'
    <3>1. cookie = row.auth => row' = row
      BY <1>1, <2>1, <2>2, <2>3, Numbers DEF Base, Calm, Young, Session, UpToDate, Active
    <3> QED
      BY <1>1, <2>1, <2>2, <2>3, <3>1 DEF Session, UpToDate, Active, At
  <2>7. Remembered'
    BY <1>1, <2>1 DEF Session, Remembered, Active
  <2> QED
    BY <1>1, <2>1, <2>3, <2>4, <2>5, <2>6, <2>7 DEF Session
<1>4. Exists' => Exists
  BY DEF Unsee, Exists
<1> QED
  BY <1>2, <1>3, <1>4 DEF Calm, Session

\* Only a request with the current token marks it seen, and then nobody is waiting for it.
LEMMA SeeIsCalm ==
    ASSUME Base, Base', Calm, NEW r \in Requests, See(r)
    PROVE  Calm'
<1>1. /\ req[r].pc = "see" /\ req'[r].pc = "handle"
      /\ req'[r].token = req[r].token /\ req'[r].age = req[r].age
      /\ req'[r].model.rotated_ago = req[r].model.rotated_ago
      /\ req'[r].model.found = req[r].model.found
      /\ \A q \in Requests \ {r} : req'[q] = req[q]
      /\ UNCHANGED <<rotated_ago, cookie, old_cookie>>
  BY SeeRecord DEF See, At, Base, Others, browser
<1>2. Young'
  BY <1>1 DEF Calm, Young
<1>3. ASSUME Exists PROVE Session'
  <2>1. Session
    BY <1>3 DEF Calm, Session
  <2>2. \/ row' = row /\ row.auth # req[r].token
        \/ row.auth = req[r].token /\ row'.seen /\ row'.auth = row.auth /\ row'.prev = row.prev
    <3>1. CASE row.auth = req[r].token
      <4>1. row' = [row EXCEPT !.seen = TRUE]
        BY <1>3, <3>1 DEF See, StillCurrent
      <4> QED
        BY <1>3, <3>1, <4>1 DEF Base, TypeOK, Exists
    <3>2. CASE row.auth # req[r].token
      BY <3>2 DEF See, StillCurrent
    <3> QED
      BY <3>1, <3>2
  <2>3. OnItsWay'
    BY <1>1, <2>1, <2>2 DEF Session, OnItsWay, Active, Brings, At
  <2>4. FellBack'
    BY <1>1, <2>1, <2>2 DEF Session, FellBack, Active, At
  <2>5. UpToDate'
    BY <1>1, <2>1, <2>2 DEF Session, UpToDate, Active, At
  <2>6. Remembered'
    BY <1>1, <2>1 DEF Session, Remembered, Active
  <2> QED
    BY <1>1, <2>1, <2>2, <2>3, <2>4, <2>5, <2>6 DEF Session
<1>4. Exists' => Exists
  BY DEF See, StillCurrent, Exists
<1> QED
  BY <1>2, <1>3, <1>4 DEF Calm, Session

\* A response that carries no token changes nothing that others see.
LEMMA EmptyReplyIsCalm ==
    ASSUME Base, Base', Calm, NEW r \in Requests,
           Reply(r, FALSE, None) \/ Reply(r, TRUE, None),
           UNCHANGED <<row, rotated_ago, cookie, old_cookie>>
    PROVE  Calm'
<1>1. /\ req'[r].pc = "reply" /\ req'[r].to = None /\ req'[r].age = req[r].age
      /\ \A q \in Requests \ {r} : req'[q] = req[q]
  <2>1. req \in [Requests -> Record]
    BY DEF Base, TypeOK, Record, Model
  <2> QED
    BY <2>1, ReplyIsRecord
<1>2. Young'
  BY <1>1 DEF Calm, Young
<1>3. ASSUME Exists PROVE Session'
  <2>1. Session
    BY <1>3 DEF Calm, Session
  <2>2. OnItsWay'
    BY <1>1, <2>1 DEF Session, OnItsWay, Active, Brings, At
  <2>3. FellBack'
    BY <1>1, <2>1 DEF Session, FellBack, Active, At
  <2>4. UpToDate' /\ Remembered'
    BY <1>1, <2>1 DEF Session, UpToDate, Remembered, Active, At
  <2> QED
    BY <1>1, <2>1, <2>2, <2>3, <2>4 DEF Session
<1> QED
  BY <1>2, <1>3 DEF Calm, Session, Exists

\* A request that is too young for the mark it has read rotates nothing: what
\* rotates is a row whose token has been seen, or that is old itself.
LEMMA RotationIsCalm ==
    ASSUME Base, Base', Calm, NEW r \in Requests,
           At(r, "handle"), req[r].model.found, NeedsRotation(r), MayRotate,
           last_token' = last_token + 1, row' = Rotated, rotated_ago' = 0,
           Reply(r, TRUE, last_token + 1),
           UNCHANGED <<cookie, old_cookie>>
    PROVE  Calm'
<1>0. /\ Session /\ Exists /\ Active(r) /\ Young /\ row.auth = last_token
      /\ row.auth # None /\ row.prev # None
  BY Numbers DEF Base, Tracked, Calm, Session, MayRotate, At, Active
<1>1. /\ req'[r].pc = "reply" /\ req'[r].to = last_token + 1 /\ req'[r].age = req[r].age
      /\ \A q \in Requests \ {r} : req'[q] = req[q]
  <2>1. req \in [Requests -> Record] /\ last_token + 1 \in Tokens
    <3>1. last_token' \in 0..MaxToken
      BY DEF Base, TypeOK
    <3> QED
      BY <3>1, Numbers, Times DEF Base, TypeOK, Record, Model, Tokens
  <2> QED
    BY <2>1, ReplyIsRecord
<1>2. /\ row'.auth = last_token + 1 /\ ~row'.seen
      /\ row'.prev = (IF row.seen THEN row.auth ELSE row.prev)
  BY DEF Rotated
<1>3. Young'
  BY <1>0, <1>1 DEF Young
<1>4. ~row.seen => rotated_ago > Safeguard
  BY DEF MayRotate
\* Nothing brings the browser the token that is replaced.
<1>5. \A q \in Requests : ~Brings(q)
  BY <1>0, <1>4, Numbers DEF Base, Session, OnItsWay, Young
\* The token the browser has is still accepted after the rotation.
<1>6. ASSUME row.seen PROVE cookie \in {None, row'.prev}
  <2>1. ~(cookie = row.prev /\ row.prev # row.auth)
    <3> SUFFICES ASSUME cookie = row.prev /\ row.prev # row.auth PROVE FALSE
      OBVIOUS
    <3>1. req[r].model.seen /\ req[r].model.rotated_ago <= Urgent + req[r].age
      BY <1>0, <1>6 DEF Session, FellBack, At
    <3>2. req[r].model.rotated_ago <= Rotate
      BY <1>0, <3>1, Numbers DEF Base, Young
    <3> QED
      BY <3>1, <3>2, Numbers DEF Base, NeedsRotation
  <2> QED
    BY <1>0, <1>2, <1>6, <2>1 DEF Session
<1>7. ASSUME ~row.seen PROVE cookie \in {None, row'.prev}
  <2>1. cookie # row.auth
    <3> SUFFICES ASSUME cookie = row.auth PROVE FALSE
      OBVIOUS
    <3>1. req[r].token # row.auth
      BY <1>0, <1>7 DEF Session, UpToDate, At
    <3>2. rotated_ago <= req[r].age + Safeguard
      BY <1>0, <3>1 DEF Session, UpToDate
    <3>3. rotated_ago <= Urgent /\ ~(rotated_ago <= req[r].age)
      BY <1>0, <1>4, <1>7, <3>2, Numbers DEF Base, Young
    <3>4. req[r].model.rotated_ago <= Urgent
      BY <1>0, <3>3, Numbers DEF Base, Session, Remembered
    <3> QED
      BY <3>4, Numbers DEF Base, NeedsRotation
  <2> QED
    BY <1>0, <1>2, <1>7, <2>1 DEF Session
<1>8. cookie \in {None, row'.prev}
  BY <1>6, <1>7
<1>9. \A q \in Requests : /\ Active(q)' => req'[q].token \in 1..last_token
                          /\ Brings(q)' => q = r
  BY <1>1, <1>5 DEF Base, Tracked, Active, Brings, At
<1>10. cookie <= last_token /\ last_token \in Nat /\ cookie \in Nat
       /\ \A q \in Requests : req'[q].age \in Nat
  BY <1>1, Numbers DEF Base, Tracked
<1>11. OnItsWay'
  BY <1>1, <1>2, <1>9, <1>10 DEF OnItsWay
<1>12. FellBack' /\ UpToDate' /\ Remembered'
  BY <1>2, <1>9, <1>10 DEF FellBack, UpToDate, Remembered
<1> QED
  BY <1>3, <1>8, <1>11, <1>12 DEF Calm

\* A request ends with a rotation or with an answer that carries no token.
LEMMA RefreshIsCalm ==
    ASSUME Base, Base', Calm, NEW r \in Requests, RefreshSession(r)
    PROVE  Calm'
<1>1. CASE /\ req[r].model.found /\ NeedsRotation(r) /\ MayRotate
           /\ last_token' = last_token + 1 /\ row' = Rotated /\ rotated_ago' = 0
           /\ Reply(r, TRUE, last_token + 1)
  BY <1>1, RotationIsCalm DEF RefreshSession, browser
<1>2. CASE UNCHANGED <<row, rotated_ago>> /\ (Reply(r, FALSE, None) \/ Reply(r, TRUE, None))
  BY <1>2, EmptyReplyIsCalm DEF RefreshSession, browser
<1> QED
  BY <1>1, <1>2 DEF RefreshSession

\* After a logout there is no session to be right about.
LEMMA LogOffIsCalm ==
    ASSUME Base, Base', Calm, NEW r \in Requests, LogOff(r)
    PROVE  Calm'
<1>1. CASE row' = row
  BY <1>1, EmptyReplyIsCalm DEF LogOff, browser
<1>2. CASE row' = NoRow
  <2>1. /\ req'[r].age = req[r].age
        /\ \A q \in Requests \ {r} : req'[q] = req[q]
    <3>1. req \in [Requests -> Record]
      BY DEF Base, TypeOK, Record, Model
    <3> QED
      BY <3>1, ReplyIsRecord DEF LogOff
  <2>2. Young'
    BY <2>1 DEF Calm, Young
  <2> QED
    BY <1>2, <2>2 DEF Calm, Exists
<1> QED
  BY <1>1, <1>2 DEF LogOff

\* A response with a token brings the current one, before anything else happened.
LEMMA ReceiveIsCalm ==
    ASSUME Base, Base', Calm, NEW r \in Requests, Receive(r)
    PROVE  Calm'
<1>1. /\ req[r].pc = "reply" /\ req'[r].pc = "idle" /\ req'[r].age = 0
      /\ \A q \in Requests \ {r} : req'[q] = req[q]
      /\ UNCHANGED <<row, rotated_ago>>
      /\ cookie' = IF req[r].sets THEN req[r].to ELSE cookie
      /\ old_cookie' = IF req[r].sets THEN cookie ELSE old_cookie
  BY IdleRecord DEF Receive, At, Base, Others
<1>2. Young'
  BY <1>1, Times DEF Calm, Young
<1>3. ASSUME Exists PROVE Session'
  <2>1. Session /\ row.auth # None /\ row.prev # None
    BY <1>3, Numbers DEF Base, Calm, Session
  <2>2. Remembered'
    BY <1>1, <2>1 DEF Session, Remembered, Active
  <2>3. CASE Brings(r)
    <3>1. /\ cookie' = row.auth /\ old_cookie' = cookie
          /\ \A q \in Requests : ~Brings(q)' /\ (Active(q) => req[q].token # row.auth)
      BY <1>1, <2>1, <2>3 DEF Session, OnItsWay, Brings, At
    <3>2. rotated_ago <= Safeguard
      BY <2>1, <2>3, Numbers DEF Base, Session, OnItsWay, Calm, Young
    <3>3. OnItsWay'
      BY <3>1 DEF OnItsWay
    <3>4. FellBack'
      BY <1>1, <3>1 DEF FellBack
    <3>5. UpToDate'
      <4>1. \A q \in Requests : rotated_ago <= req[q].age + Safeguard
        BY <3>2, Numbers DEF Base
      <4> QED
        BY <1>1, <2>1, <3>1, <4>1 DEF UpToDate, Active, At, Session
    <3> QED
      BY <1>1, <2>2, <3>1, <3>3, <3>4, <3>5 DEF Session
  <2>4. CASE ~Brings(r)
    <3>1. (cookie' = cookie /\ old_cookie' = old_cookie) \/ cookie' = None
      BY <1>1, <2>4, Numbers DEF Base, Brings, At
    <3>2. OnItsWay'
      BY <1>1, <2>1, <3>1 DEF Session, OnItsWay, Active, Brings, At
    <3>3. FellBack'
      BY <1>1, <2>1, <3>1 DEF Session, FellBack, Active, At
    <3>4. UpToDate'
      BY <1>1, <2>1, <3>1 DEF Session, UpToDate, Active, At
    <3> QED
      BY <1>1, <2>1, <2>2, <3>1, <3>2, <3>3, <3>4 DEF Session
  <2> QED
    BY <2>3, <2>4
<1> QED
  BY <1>1, <1>2, <1>3 DEF Calm, Session, Exists

\* What is lost changes nothing that others see.
LEMMA LoseIsCalm ==
    ASSUME Base, Base', Calm, NEW r \in Requests, Lose(r)
    PROVE  Calm'
<1>1. /\ req'[r].pc = "idle" /\ req'[r].age = 0
      /\ \A q \in Requests \ {r} : req'[q] = req[q]
      /\ UNCHANGED <<row, rotated_ago, cookie, old_cookie>>
  BY IdleRecord DEF Lose, Base, Others, browser
<1>2. Young'
  BY <1>1, Times DEF Calm, Young
<1>3. ASSUME Exists PROVE Session'
  <2>1. Session
    BY <1>3 DEF Calm, Session
  <2>2. OnItsWay'
    BY <1>1, <2>1 DEF Session, OnItsWay, Active, Brings, At
  <2>3. FellBack'
    BY <1>1, <2>1 DEF Session, FellBack, Active, At
  <2>4. UpToDate' /\ Remembered'
    BY <1>1, <2>1 DEF Session, UpToDate, Remembered, Active, At
  <2> QED
    BY <1>1, <2>1, <2>2, <2>3, <2>4 DEF Session
<1> QED
  BY <1>1, <1>2, <1>3 DEF Calm, Session, Exists

\* The browser falls back to the previous token, or keeps the current one.
LEMMA CrashIsCalm ==
    ASSUME Base, Base', Calm, Crash
    PROVE  Calm'
<1>1. /\ \A r \in Requests : req'[r] = req[r] /\ req[r].pc = "idle"
      /\ UNCHANGED <<row, rotated_ago, old_cookie>>
      /\ cookie = row.auth /\ cookie' = old_cookie /\ old_cookie # None
  BY DEF Crash, At
<1>2. Young'
  BY <1>1 DEF Calm, Young
<1>3. \A r \in Requests : ~Active(r)' /\ ~Brings(r)' /\ ~At(r, "see")' /\ ~At(r, "unsee")' /\ ~At(r, "handle")'
  BY <1>1 DEF Active, Brings, At
<1>4. ASSUME Exists PROVE Session'
  <2>1. old_cookie \in {row.prev, row.auth}
    BY <1>1, <1>4 DEF Calm, UpToDate
  <2>2. OnItsWay' /\ FellBack' /\ UpToDate' /\ Remembered'
    BY <1>1, <1>3, <2>1 DEF OnItsWay, FellBack, UpToDate, Remembered
  <2> QED
    BY <1>1, <2>1, <2>2 DEF Session
<1> QED
  BY <1>1, <1>2, <1>4 DEF Calm, Session, Exists

\* Rotations and what is under way grow older together.
LEMMA TickIsCalm ==
    ASSUME Base, Base', Calm, Tick, ~slow'
    PROVE  Calm'
<1>1. UNCHANGED <<row, cookie, old_cookie>> /\ (Exists => rotated_ago' = Older(rotated_ago))
  BY DEF Tick, browser
<1>2. ASSUME NEW q \in Requests
      PROVE  /\ req'[q].pc = req[q].pc /\ req'[q].token = req[q].token /\ req'[q].to = req[q].to
             /\ req'[q].sets = req[q].sets
             /\ req'[q].model.found = req[q].model.found /\ req'[q].model.seen = req[q].model.seen
             /\ At(q, "idle") => req'[q].age = req[q].age
             /\ ~At(q, "idle") => req'[q].age = req[q].age + 1 /\ req[q].age < Safeguard
             /\ ~At(q, "idle") /\ req[q].model.found =>
                  req'[q].model.rotated_ago = Older(req[q].model.rotated_ago)
  <2>1. ~At(q, "idle") => ~(req[q].age >= Safeguard)
    BY DEF Tick
  <2> QED
    BY <2>1, TickRecord, Numbers DEF Base, Calm, Young
<1>3. /\ Older(rotated_ago) <= rotated_ago + 1 /\ Older(rotated_ago) \in Nat
      /\ \A q \in Requests : /\ Older(req[q].model.rotated_ago) <= req[q].model.rotated_ago + 1
                             /\ Older(req[q].model.rotated_ago) \in Nat
  <2>1. rotated_ago \in Ages /\ \A q \in Requests : req[q].model.rotated_ago \in Ages
    BY DEF Base, TypeOK
  <2> QED
    BY <2>1, OlderIsAge, Times DEF Ages
<1>4. Young'
  BY <1>2, Numbers DEF Base, Calm, Young
<1>5. ASSUME Exists PROVE Session'
  <2>1. Session /\ rotated_ago' = Older(rotated_ago)
    BY <1>1, <1>5 DEF Calm, Session
  <2>2. OnItsWay'
    BY <1>1, <1>2, <1>3, <2>1, Numbers DEF Base, Session, OnItsWay, Active, Brings, At
  <2>3. FellBack'
    <3>1. SUFFICES ASSUME cookie = row.prev, row.prev # row.auth, NEW q \in Requests
                   PROVE  /\ Active(q)' => req'[q].token # row.auth
                          /\ row.seen =>
                               /\ Active(q)' => req'[q].token = row.prev
                               /\ ~At(q, "see")'
                               /\ At(q, "unsee")' => /\ req'[q].model.found /\ req'[q].model.seen
                                                     /\ req'[q].model.rotated_ago = rotated_ago'
                               /\ At(q, "handle")' /\ req'[q].model.found =>
                                    /\ req'[q].model.seen
                                    /\ req'[q].model.rotated_ago <= Urgent + req'[q].age
      BY <1>1 DEF FellBack
    <3>2. /\ Active(q)' <=> Active(q)
          /\ \A pc : At(q, pc)' <=> At(q, pc)
          /\ req'[q].token = req[q].token
      BY <1>2 DEF Active, At
    <3>3. At(q, "handle") /\ req[q].model.found /\ req[q].model.rotated_ago <= Urgent + req[q].age
            => req'[q].model.rotated_ago <= Urgent + req'[q].age
      BY <1>2, <1>3, Numbers DEF Base, At
    <3>4. req[q].model.found /\ At(q, "unsee") /\ req[q].model.rotated_ago = rotated_ago
            => req'[q].model.rotated_ago = rotated_ago'
      BY <1>2, <2>1 DEF At
    <3> QED
      BY <1>2, <2>1, <3>1, <3>2, <3>3, <3>4 DEF Session, FellBack
  <2>4. UpToDate'
    BY <1>1, <1>2, <1>3, <2>1, Numbers DEF Base, Session, UpToDate, Active, At
  <2>5. Remembered'
    BY <1>1, <1>2, <1>3, <2>1, Numbers DEF Base, Session, Remembered, Active, At
  <2> QED
    BY <1>1, <2>1, <2>2, <2>3, <2>4, <2>5 DEF Session
<1> QED
  BY <1>1, <1>4, <1>5 DEF Calm, Session, Exists

-----------------------------------------------------------------------------
(* The theorems *)

\* No session, no request: the invariant holds.
LEMMA InitInvariant == Init => IInv
<1> SUFFICES ASSUME Init PROVE IInv
  OBVIOUS
<1>1. TypeOK
  <2>1. req \in [Requests -> Record]
    BY IdleIsRecord DEF Init
  <2>2. rotated_ago \in Ages /\ last_token \in 0..MaxToken /\ crashes \in 0..MaxCrashes
    BY Times DEF Init, Ages
  <2> QED
    BY <2>1, <2>2 DEF Init, TypeOK, Record, Model
<1>2. \A r \in Requests : /\ req[r].pc = "idle" /\ req[r].to = 0 /\ req[r].age = 0
  BY DEF Init, Idle, None
<1>3. Tracked /\ Young /\ ~Exists
  BY <1>2, Times DEF Init, Tracked, Young, Active, None, Exists
<1>4. SeenWasPresented /\ NeverAhead
  BY <1>3 DEF Init, SeenWasPresented, NeverAhead, NoRow
<1> QED
  BY <1>1, <1>3, <1>4 DEF IInv, Calm

\* Every step keeps the invariant.
LEMMA NextInvariant == IInv /\ [Next]_vars => IInv'
<1> SUFFICES ASSUME IInv, [Next]_vars PROVE IInv'
  OBVIOUS
<1>1. Base /\ Base'
  BY BaseStep DEF IInv, Base
<1>2. SUFFICES ASSUME ~slow' PROVE Calm'
  BY <1>1 DEF IInv, Base
<1>3. CASE Tick
  <2>1. ~slow
    BY <1>2, <1>3 DEF Tick
  <2> QED
    BY <1>1, <1>2, <1>3, <2>1, TickIsCalm DEF IInv
<1>4. CASE UNCHANGED vars
  BY <1>2, <1>4 DEF vars, IInv, Calm, Young, OnItsWay, FellBack, UpToDate, Remembered, Active, Brings, At, Exists
<1>5. CASE Crash
  BY <1>1, <1>2, <1>5, CrashIsCalm DEF Crash, IInv
<1>6. ASSUME NEW r \in Requests, Request(r) PROVE Calm'
  <2>1. Calm
    BY <1>2, <1>6 DEF Request, LogOn, Send, Lookup, Unsee, See, RefreshSession, LogOff, Receive, Lose, IInv
  <2>2. CASE LogOn(r)
    BY <1>1, <2>1, <2>2, LogOnIsCalm
  <2>3. CASE Send(r)
    BY <1>1, <2>1, <2>3, SendIsCalm
  <2>4. CASE Lookup(r)
    BY <1>1, <2>1, <2>4, LookupIsCalm
  <2>5. CASE Unsee(r)
    BY <1>1, <2>1, <2>5, UnseeIsCalm
  <2>6. CASE See(r)
    BY <1>1, <2>1, <2>6, SeeIsCalm
  <2>7. CASE RefreshSession(r)
    BY <1>1, <2>1, <2>7, RefreshIsCalm
  <2>8. CASE LogOff(r)
    BY <1>1, <2>1, <2>8, LogOffIsCalm
  <2>9. CASE Receive(r)
    BY <1>1, <2>1, <2>9, ReceiveIsCalm
  <2>10. CASE Lose(r)
    BY <1>1, <2>1, <2>10, LoseIsCalm
  <2> QED
    BY <1>6, <2>2, <2>3, <2>4, <2>5, <2>6, <2>7, <2>8, <2>9, <2>10 DEF Request
<1> QED
  BY <1>3, <1>4, <1>5, <1>6 DEF Next

\* The inductive invariant holds of every behaviour.
LEMMA Invariant == Spec => []IInv
BY InitInvariant, NextInvariant, PTL DEF Spec

\* Every state is well typed: the rows, the cookies and the requests of
\* user_auth_token.rb and default_current_user_provider.rb.
THEOREM TypeCorrect == Spec => []TypeOK
<1>1. IInv => TypeOK
  BY DEF IInv
<1> QED
  BY <1>1, Invariant, PTL

\* auth_token_seen is only ever set for a token that a request has brought.
THEOREM OnlyPresentedIsSeen == Spec => []SeenWasPresented
<1>1. IInv => SeenWasPresented
  BY DEF IInv
<1> QED
  BY <1>1, Invariant, PTL

\* prev_auth_token is always one the browser came with, or that of the login.
THEOREM ServerNeverAhead == Spec => []NeverAhead
<1>1. IInv => NeverAhead
  BY DEF IInv
<1> QED
  BY <1>1, Invariant, PTL

\* However many requests are under way, and for all times that satisfy
\* AuthTokensAssumption, the cookie of the browser is accepted as long as no
\* exchange outlasts the safeguard of rotate!.
THEOREM CookieIsAccepted == Spec => []BrowserStaysLoggedIn
<1>1. IInv => BrowserStaysLoggedIn
  BY DEF IInv, Calm, BrowserStaysLoggedIn, Accepted
<1> QED
  BY <1>1, Invariant, PTL

=============================================================================
