---------------------------- MODULE Drafts_proofs ----------------------------
(***************************************************************************)
(* For any number of windows, workers, requests and faults:                *)
(*   - a save that succeeds and was served alone has stored its text where *)
(*     the server finds it, and only a save that was served beside         *)
(*     something else lowers the sequence;                                 *)
(*   - posting ends the draft: the draft of a save that was alone is never *)
(*     ahead of the sequence, and while such a save is served in order     *)
(*     nothing its window sent later has been;                             *)
(*   - in an orderly run a window with the sequence of the server knows    *)
(*     the text it overwrites: whatever replaces the text of a draft that  *)
(*     was saved before raises the sequence above all others' first.       *)
(***************************************************************************)
EXTENDS Drafts, SequenceTheorems, FiniteSetTheorems, TLAPS

Steps == {"select", "upsert", "update", "insert", "exists", "current", "next",
          "check", "destroy"}

SaveSteps == {"select", "upsert", "update", "insert", "exists", "current"}

Statuses == {"none", "conflict", "offline"}

RequestType ==
  [window : Windows, at : Steps \cup Ended \cup {"sent"},
   first : {"select", "next", "check"}, sequence : Nat, force : BOOLEAN,
   base : Nat, status : Statuses, draft_id : Nat, retried : BOOLEAN,
   alone : BOOLEAN, late : BOOLEAN]

ComposerType ==
  [open : BOOLEAN, draftSequence : Nat, draftForceSave : BOOLEAN,
   draftStatus : Statuses, loaded : Nat, saving : Nat, leaving : Nat]

Types ==
  /\ drafts \in [id : Nat, sequence : Nat, data : Nat, revisions : Nat]
  /\ draft_sequences \in Nat
  /\ requests \in Seq(RequestType)
  /\ composers \in [Windows -> ComposerType]
  /\ \A w \in Windows : composers[w].saving <= Len(requests)

\* The steps of Draft.set are those of a save.
SavesSave == \A r \in DOMAIN requests : requests[r].at \in SaveSteps => IsSave(r)

\* While a save counts as alone, nothing else is being served.
AloneIsAlone ==
  \A r \in DOMAIN requests :
    requests[r].at \in SaveSteps /\ requests[r].alone =>
      \A q \in DOMAIN requests : Running(q) => q = r

\* What a save that is alone has read is still so: the draft is there under the
\* id it read, and the sequence is the one it has, once that is written.
NothingChanged ==
  \A r \in DOMAIN requests :
    requests[r].alone =>
      /\ requests[r].at \in {"upsert", "update"} =>
           HasDraft /\ drafts.id = requests[r].draft_id
      /\ requests[r].at = "upsert" => requests[r].sequence > draft_sequences
      /\ requests[r].at \in {"update", "insert"} => requests[r].sequence = draft_sequences

IInv == Types /\ SavesSave /\ AloneIsAlone /\ NothingChanged

-----------------------------------------------------------------------------
LEMMA RequestHasType ==
  ASSUME NEW s \in Seq(RequestType), NEW r \in DOMAIN s
  PROVE  s[r] \in RequestType
OBVIOUS

LEMMA RunningSteps == Types => \A r \in DOMAIN requests : Running(r) <=> requests[r].at \in Steps
<1> SUFFICES ASSUME Types, NEW r \in DOMAIN requests
             PROVE  Running(r) <=> requests[r].at \in Steps
  OBVIOUS
<1>1. requests[r] \in RequestType
  BY RequestHasType DEF Types
<1>2. requests[r].at \in Steps \cup Ended \cup {"sent"}
  BY <1>1 DEF RequestType
<1> QED
  BY <1>2 DEF Running, Steps, Ended, Answered

\* A request as it is after a step that did not serve it.
Undisturbed(q) ==
  /\ q \in DOMAIN requests
  /\ requests'[q].at = requests[q].at
  /\ requests'[q].first = requests[q].first
  /\ requests'[q].sequence = requests[q].sequence
  /\ requests'[q].draft_id = requests[q].draft_id
  /\ requests'[q].alone => requests[q].alone

\* A step that serves nobody, and changes the draft only when nobody is alone.
LEMMA QuietStep ==
  ASSUME IInv, Types',
         \A q \in DOMAIN requests' : requests'[q].at \in Steps => Undisturbed(q),
         \/ UNCHANGED <<drafts, draft_sequences>>
         \/ \A q \in DOMAIN requests' : requests'[q].at \in SaveSteps => ~requests'[q].alone
  PROVE  IInv'
<1>1. \A q \in DOMAIN requests' : Running(q)' <=> requests'[q].at \in Steps
  <2>1. ASSUME NEW q \in DOMAIN requests' PROVE Running(q)' <=> requests'[q].at \in Steps
    <3>1. requests'[q] \in RequestType
      BY RequestHasType DEF Types
    <3>2. requests'[q].at \in Steps \cup Ended \cup {"sent"}
      BY <3>1 DEF RequestType
    <3> QED
      BY <3>2 DEF Running, Steps, Ended, Answered
  <2> QED
    BY <2>1
<1>2. SavesSave'
  BY DEF IInv, SavesSave, IsSave, Undisturbed, Steps, SaveSteps
<1>3. AloneIsAlone'
  BY <1>1, RunningSteps DEF IInv, AloneIsAlone, Undisturbed, Steps, SaveSteps
<1>4. NothingChanged'
  BY DEF IInv, NothingChanged, Undisturbed, Steps, SaveSteps, HasDraft
<1> QED
  BY <1>2, <1>3, <1>4 DEF IInv

LEMMA SameLength ==
  ASSUME NEW s \in Seq(RequestType), NEW t, t = [q \in DOMAIN s |-> t[q]],
         \A q \in DOMAIN s : t[q] \in RequestType
  PROVE  t \in Seq(RequestType) /\ Len(t) = Len(s) /\ DOMAIN t = DOMAIN s
<1>1. DOMAIN s = 1 .. Len(s) /\ Len(s) \in Nat
  BY LenProperties
<1>2. t \in [1 .. Len(s) -> RequestType]
  BY <1>1
<1>3. t \in Seq(RequestType)
  BY <1>1, <1>2, SeqDef
<1> QED
  BY <1>1, <1>2, <1>3, LenProperties

LEMMA InitIInv == Init => IInv
<1> SUFFICES ASSUME Init PROVE IInv
  OBVIOUS
<1>1. MaxRequests \in Nat
  BY DraftsAssumption
<1>2. Types
  BY <1>1, EmptySeq DEF Init, Types, Old, NoDraft, Closed, ComposerType, Statuses
<1>3. DOMAIN requests = {}
  BY DEF Init
<1> QED
  BY <1>2, <1>3 DEF IInv, SavesSave, AloneIsAlone, NothingChanged

-----------------------------------------------------------------------------
(* The browser *)

\* A window sends a request, and its composer changes.
LEMMA SendStep ==
  ASSUME IInv, NEW request \in RequestType, request.at = "sent", Send(request),
         composers' \in [Windows -> ComposerType],
         \A w \in Windows : composers'[w].saving <= Len(requests) + 1,
         UNCHANGED <<drafts, draft_sequences>>
  PROVE  IInv'
<1>1. requests \in Seq(RequestType)
  BY DEF IInv, Types
<1>2. /\ requests' \in Seq(RequestType)
      /\ Len(requests') = Len(requests) + 1
      /\ \A q \in DOMAIN requests' : \/ q \in DOMAIN requests /\ requests'[q] = requests[q]
                                     \/ requests'[q] = request
  BY <1>1, AppendProperties, LenProperties DEF Send
<1>3. Types'
  BY <1>2 DEF IInv, Types
<1> QED
  BY <1>2, <1>3, QuietStep DEF Undisturbed, Steps

\* A composer changes and nothing is sent.
LEMMA ComposerStep ==
  ASSUME IInv, composers' \in [Windows -> ComposerType],
         \A w \in Windows : composers'[w].saving <= Len(requests),
         UNCHANGED <<drafts, draft_sequences, requests>>
  PROVE  IInv'
<1>1. Types'
  BY DEF IInv, Types
<1> QED
  BY <1>1, QuietStep DEF Undisturbed

\* One composer changes, and what it waits for is not beyond n.
LEMMA ComposerSet ==
  ASSUME Types, NEW w \in Windows, NEW c \in ComposerType, NEW n \in Nat, Len(requests) <= n,
         c.saving <= n, composers' = [composers EXCEPT ![w] = c]
  PROVE  /\ composers' \in [Windows -> ComposerType]
         /\ \A v \in Windows : composers'[v].saving <= n
<1>1. composers' \in [Windows -> ComposerType]
  BY DEF Types
<1>2. \A v \in Windows : composers[v].saving \in Nat
  BY DEF Types, ComposerType
<1>3. \A v \in Windows : composers'[v] = IF v = w THEN c ELSE composers[v]
  BY DEF Types
<1>4. Len(requests) \in Nat
  BY LenProperties DEF Types
<1> QED
  BY <1>1, <1>2, <1>3, <1>4 DEF Types

LEMMA RequestFields ==
  ASSUME NEW w \in Windows, NEW f \in {"select", "next", "check"}
  PROVE  Request(w, f) \in RequestType /\ Request(w, f).at = "sent"
BY DEF Request, RequestType, Statuses

LEMMA DisturbedType ==
  ASSUME IInv, NEW q \in DOMAIN requests, requests'[q] = Disturbed(q)
  PROVE  requests'[q] \in RequestType /\ Undisturbed(q)
<1>1. requests[q] \in RequestType
  BY RequestHasType DEF IInv, Types
<1>2. requests'[q] \in {requests[q], [requests[q] EXCEPT !.alone = FALSE]}
  BY DEF Disturbed
<1> QED
  BY <1>1, <1>2 DEF RequestType, Undisturbed

\* A composer that has just been opened
LEMMA OpenedType ==
  ASSUME NEW sequence \in Nat, NEW text \in Nat
  PROVE  /\ [Closed EXCEPT !.open = TRUE, !.draftSequence = sequence, !.loaded = text] \in ComposerType
         /\ [Closed EXCEPT !.open = TRUE, !.draftSequence = sequence, !.loaded = text].saving = 0
BY DEF Closed, ComposerType, Statuses

LEMMA OpenStep == ASSUME IInv, NEW w \in Windows, Open(w) PROVE IInv'
<1>1. /\ requests \in Seq(RequestType) /\ Served \in Nat /\ draft_sequences \in Nat
      /\ composers \in [Windows -> ComposerType]
      /\ Len(requests) \in Nat /\ \A v \in Windows : composers[v].saving <= Len(requests)
  BY LenProperties DEF IInv, Types, Served
<1>2. \A q \in DOMAIN requests : requests'[q] \in RequestType /\ Undisturbed(q)
  <2> SUFFICES ASSUME NEW q \in DOMAIN requests
               PROVE  requests'[q] \in RequestType /\ Undisturbed(q)
    OBVIOUS
  <2>1. requests'[q] = Disturbed(q)
    BY DEF Open
  <2> QED
    BY <1>1, <2>1, DisturbedType
<1>3. requests' \in Seq(RequestType) /\ Len(requests') = Len(requests) /\ DOMAIN requests' = DOMAIN requests
  <2>1. requests' = [q \in DOMAIN requests |-> requests'[q]]
    BY DEF Open
  <2> QED
    BY <1>1, <1>2, <2>1, SameLength
<1>4. composers' \in [Windows -> ComposerType] /\ \A v \in Windows : composers'[v].saving <= Len(requests)
  <2>0. PICK sequence \in 0 .. draft_sequences :
          composers' = [composers EXCEPT ![w] =
            [Closed EXCEPT !.open = TRUE, !.draftSequence = sequence, !.loaded = Served]]
    BY DEF Open
  <2> DEFINE c == [Closed EXCEPT !.open = TRUE, !.draftSequence = sequence,
                                 !.loaded = Served]
  <2>4. c \in ComposerType /\ c.saving = 0
    <3>1. sequence \in Nat /\ Served \in Nat
      BY <1>1
    <3> QED
      BY <3>1, OpenedType, Zenon
  <2>1. c.saving <= Len(requests)
    BY <1>1, <2>4
  <2>2. composers' = [composers EXCEPT ![w] = c]
    BY <2>0
  <2> HIDE DEF c
  <2> QED
    BY <1>1, <2>1, <2>2, <2>4, ComposerSet DEF IInv
<1>5. Types'
  BY <1>3, <1>4 DEF IInv, Types, Open
<1> QED
  BY <1>2, <1>3, <1>5, QuietStep DEF Open

LEMMA SaveDraftStep == ASSUME IInv, NEW w \in Windows, saveDraft(w) PROVE IInv'
<1>1. composers[w] \in ComposerType /\ composers \in [Windows -> ComposerType]
  BY DEF IInv, Types
<1> DEFINE request == [Request(w, "select") EXCEPT
                         !.sequence = composers[w].draftSequence,
                         !.force = composers[w].draftForceSave,
                         !.base = composers[w].loaded,
                         !.status = composers[w].draftStatus]
<1>2. request \in RequestType /\ request.at = "sent"
  BY <1>1 DEF ComposerType, Request, RequestType, Statuses
<1>3. Send(request)
  BY DEF saveDraft
<1>4. Len(requests) \in Nat /\ Len(requests') = Len(requests) + 1
  BY <1>3, LenProperties, AppendProperties DEF IInv, Types, Send
<1>5. /\ composers' \in [Windows -> ComposerType]
      /\ \A v \in Windows : composers'[v].saving <= Len(requests) + 1
  BY <1>1, <1>4 DEF saveDraft, ComposerType, IInv, Types
<1> QED
  BY <1>2, <1>3, <1>5, SendStep DEF saveDraft

LEMMA PostStep == ASSUME IInv, NEW w \in Windows, save(w) PROVE IInv'
<1>1. Len(requests) \in Nat /\ Len(requests') = Len(requests) + 1
  BY LenProperties, AppendProperties DEF IInv, Types, save, Send
<1>2. /\ composers' \in [Windows -> ComposerType]
      /\ \A v \in Windows : composers'[v].saving <= Len(requests) + 1
  <2> DEFINE c == [composers[w] EXCEPT !.leaving = Len(requests')]
  <2>1. composers[w] \in ComposerType /\ composers[w].saving <= Len(requests)
    BY DEF IInv, Types
  <2>2. c \in ComposerType /\ c.saving <= Len(requests) + 1
    BY <1>1, <2>1 DEF ComposerType
  <2>3. composers' = [composers EXCEPT ![w] = c]
    BY DEF save
  <2> HIDE DEF c
  <2>4. Len(requests) + 1 \in Nat /\ Len(requests) <= Len(requests) + 1
    BY <1>1
  <2> QED
    BY <2>2, <2>3, <2>4, ComposerSet DEF IInv
<1> QED
  BY <1>2, RequestFields, SendStep DEF save

LEMMA DestroyDraftStep == ASSUME IInv, NEW w \in Windows, destroyDraft(w) PROVE IInv'
<1> DEFINE request == [Request(w, "check") EXCEPT !.sequence = composers[w].draftSequence]
<1>1. Len(requests) \in Nat /\ Len(requests') = Len(requests) + 1
  BY LenProperties, AppendProperties DEF IInv, Types, destroyDraft, Send
<1>2. /\ composers' \in [Windows -> ComposerType]
      /\ \A v \in Windows : composers'[v].saving <= Len(requests) + 1
  <2> DEFINE c == [composers[w] EXCEPT !.leaving = Len(requests')]
  <2>1. composers[w] \in ComposerType /\ composers[w].saving <= Len(requests)
    BY DEF IInv, Types
  <2>2. c \in ComposerType /\ c.saving <= Len(requests) + 1
    BY <1>1, <2>1 DEF ComposerType
  <2>3. composers' = [composers EXCEPT ![w] = c]
    BY DEF destroyDraft
  <2> HIDE DEF c
  <2>4. Len(requests) + 1 \in Nat /\ Len(requests) <= Len(requests) + 1
    BY <1>1
  <2> QED
    BY <2>2, <2>3, <2>4, ComposerSet DEF IInv
<1>3. composers[w] \in ComposerType
  BY DEF IInv, Types
<1>4. request \in RequestType /\ request.at = "sent"
  BY <1>3 DEF ComposerType, Request, RequestType, Statuses
<1> QED
  BY <1>2, <1>4, SendStep DEF destroyDraft

\* A composer changes and nothing is sent.
LEMMA ComposerSetStep ==
  ASSUME IInv, NEW w \in Windows, NEW c \in ComposerType, c.saving <= Len(requests),
         composers' = [composers EXCEPT ![w] = c],
         UNCHANGED <<drafts, draft_sequences, requests>>
  PROVE  IInv'
<1>1. Len(requests) \in Nat /\ Len(requests) <= Len(requests)
  BY LenProperties DEF IInv, Types
<1> QED
  BY <1>1, ComposerSet, ComposerStep DEF IInv

LEMMA AnswerStep ==
  ASSUME IInv, NEW w \in Windows,
         ignoreConflict(w) \/ Leave(w) \/ Saved(w) \/ SaveRefused(w) \/ Left(w)
  PROVE  IInv'
<1>1. /\ composers[w] \in ComposerType /\ composers[w].saving <= Len(requests)
      /\ Len(requests) \in Nat
  BY LenProperties DEF IInv, Types
<1>2. Closed \in ComposerType /\ Closed.saving = 0
  BY DEF Closed, ComposerType, Statuses
<1>3. CASE ignoreConflict(w)
  <2> DEFINE c == [composers[w] EXCEPT !.draftForceSave = TRUE]
  <2>1. c \in ComposerType /\ c.saving <= Len(requests)
    BY <1>1 DEF ComposerType
  <2>2. composers' = [composers EXCEPT ![w] = c]
    BY <1>3 DEF ignoreConflict
  <2> HIDE DEF c
  <2> QED
    BY <1>3, <2>1, <2>2, ComposerSetStep DEF ignoreConflict
<1>4. CASE Leave(w) \/ Left(w)
  BY <1>1, <1>2, <1>4, ComposerSetStep DEF Leave, Left
<1>5. CASE Saved(w)
  <2> DEFINE r == composers[w].saving
             c == [composers[w] EXCEPT !.saving = 0, !.draftSequence = requests[r].sequence,
                                       !.draftStatus = "none", !.draftForceSave = FALSE]
  <2>1. r \in 1 .. Len(requests)
    BY <1>1, <1>5 DEF Saved, ComposerType
  <2>2. requests[r] \in RequestType
    BY <2>1, ElementOfSeq DEF IInv, Types
  <2>3. requests[r].sequence \in Nat
    BY <2>2 DEF RequestType
  <2>4. c \in ComposerType
    BY <1>1, <2>3 DEF ComposerType, Statuses
  <2>5. c.saving <= Len(requests)
    BY <1>1 DEF ComposerType
  <2>6. composers' = [composers EXCEPT ![w] = c]
    BY <1>5 DEF Saved
  <2> HIDE DEF c
  <2> QED
    BY <1>5, <2>4, <2>5, <2>6, ComposerSetStep DEF Saved
<1>6. CASE SaveRefused(w)
  <2> DEFINE c == [composers[w] EXCEPT !.saving = 0, !.draftStatus = "conflict"]
  <2>1. c \in ComposerType
    BY <1>1 DEF ComposerType, Statuses
  <2>2. c.saving <= Len(requests)
    BY <1>1 DEF ComposerType
  <2>3. composers' = [composers EXCEPT ![w] = c]
    BY <1>6 DEF SaveRefused, SaveFailed
  <2> HIDE DEF c
  <2> QED
    BY <1>6, <2>1, <2>2, <2>3, ComposerSetStep DEF SaveRefused
<1> QED
  BY <1>3, <1>4, <1>5, <1>6

\* Request r becomes x.
LEMMA RequestSet ==
  ASSUME Types, NEW r \in DOMAIN requests, NEW x \in RequestType,
         requests' = [requests EXCEPT ![r] = x]
  PROVE  /\ requests' \in Seq(RequestType)
         /\ Len(requests') = Len(requests)
         /\ DOMAIN requests' = DOMAIN requests
         /\ \A q \in DOMAIN requests : requests'[q] = IF q = r THEN x ELSE requests[q]
<1>1. requests \in Seq(RequestType) /\ DOMAIN requests = 1 .. Len(requests)
  BY LenProperties DEF Types
<1> QED
  BY <1>1, ExceptSeq

LEMMA LoseStep ==
  ASSUME IInv, NEW w \in Windows, NEW r \in DOMAIN requests, Lose(w, r)
  PROVE  IInv'
<1>1. /\ composers[w] \in ComposerType /\ composers[w].saving <= Len(requests)
      /\ Len(requests) \in Nat
  BY LenProperties DEF IInv, Types
<1>2. /\ composers' \in [Windows -> ComposerType]
      /\ \A v \in Windows : composers'[v].saving <= Len(requests)
  <2> DEFINE c == [composers[w] EXCEPT !.saving = 0, !.draftStatus = "offline"]
             d == [composers[w] EXCEPT !.leaving = 0]
  <2>1. c \in ComposerType /\ d \in ComposerType
    BY <1>1 DEF ComposerType, Statuses
  <2>2. c.saving <= Len(requests) /\ d.saving <= Len(requests)
    BY <1>1 DEF ComposerType
  <2>3. composers' = [composers EXCEPT ![w] = c] \/ composers' = [composers EXCEPT ![w] = d]
    BY DEF Lose, NoAnswer, SaveFailed
  <2>4. Len(requests) <= Len(requests)
    BY <1>1
  <2> HIDE DEF c, d
  <2> QED
    BY <1>1, <2>1, <2>2, <2>3, <2>4, ComposerSet DEF IInv
<1>3. requests[r] \in RequestType
  BY RequestHasType DEF IInv, Types
<1>4. CASE requests' = requests
  BY <1>2, <1>4, ComposerStep DEF Lose
<1>5. CASE requests' = [requests EXCEPT ![r].at = "lost"]
  <2> DEFINE x == [requests[r] EXCEPT !.at = "lost"]
  <2>1. x \in RequestType /\ x.at = "lost"
    BY <1>3 DEF RequestType, Ended
  <2>2. requests' = [requests EXCEPT ![r] = x]
    BY <1>5
  <2> HIDE DEF x
  <2>3. /\ requests' \in Seq(RequestType)
        /\ Len(requests') = Len(requests)
        /\ DOMAIN requests' = DOMAIN requests
        /\ \A q \in DOMAIN requests : requests'[q] = IF q = r THEN x ELSE requests[q]
    BY <2>1, <2>2, RequestSet DEF IInv
  <2>4. Types'
    BY <1>2, <2>3 DEF Lose, IInv, Types
  <2>5. \A q \in DOMAIN requests' : requests'[q].at \in Steps => Undisturbed(q)
    BY <2>1, <2>3 DEF Undisturbed, Steps
  <2> QED
    BY <2>4, <2>5, QuietStep DEF Lose
<1> QED
  BY <1>4, <1>5 DEF Lose

-----------------------------------------------------------------------------
(* The server *)

\* Request r is served and becomes x.  If another one counts as alone, then
\* nothing is served at all; so only what r goes on to rely on has to be shown.
LEMMA ServeStep ==
  ASSUME IInv, NEW r \in DOMAIN requests, requests[r].at \in Steps,
         NEW x \in RequestType, requests' = [requests EXCEPT ![r] = x],
         x.alone = requests[r].alone, x.first = requests[r].first,
         x.at \in SaveSteps => requests[r].at \in SaveSteps,
         drafts' \in [id : Nat, sequence : Nat, data : Nat, revisions : Nat],
         draft_sequences' \in Nat,
         composers' \in [Windows -> ComposerType],
         \A w \in Windows : composers'[w].saving <= Len(requests),
         x.alone => /\ x.at \in {"upsert", "update"} => HasDraft' /\ drafts'.id = x.draft_id
                    /\ x.at = "upsert" => x.sequence > draft_sequences'
                    /\ x.at \in {"update", "insert"} => x.sequence = draft_sequences'
  PROVE  IInv'
<1>1. /\ requests' \in Seq(RequestType)
      /\ Len(requests') = Len(requests)
      /\ DOMAIN requests' = DOMAIN requests
      /\ \A q \in DOMAIN requests : requests'[q] = IF q = r THEN x ELSE requests[q]
  BY RequestSet DEF IInv
<1>2. Types'
  BY <1>1 DEF IInv, Types
<1>3. SavesSave'
  BY <1>1 DEF IInv, SavesSave, IsSave
<1>4. \A q \in DOMAIN requests : requests[q].at \in SaveSteps /\ requests[q].alone => q = r
  BY RunningSteps DEF IInv, AloneIsAlone
<1>5. \A q \in DOMAIN requests : Running(q)' => q = r \/ Running(q)
  BY <1>1 DEF Running
<1>6. AloneIsAlone'
  BY <1>1, <1>4, <1>5 DEF IInv, AloneIsAlone
<1>7. NothingChanged'
  BY <1>1, <1>4 DEF NothingChanged, SaveSteps, HasDraft
<1> QED
  BY <1>2, <1>3, <1>6, <1>7 DEF IInv

\* When something else is served, no save that is under way counts as alone.
LEMMA DisturbedSave ==
  ASSUME IInv, NEW q \in DOMAIN requests, requests'[q] = Disturbed(q),
         requests'[q].at \in SaveSteps
  PROVE  ~requests'[q].alone
<1>1. requests[q] \in RequestType /\ requests'[q].at = requests[q].at
  BY RequestHasType, DisturbedType DEF IInv, Types, Undisturbed
<1>2. Running(q) /\ IsSave(q)
  BY <1>1, RunningSteps DEF IInv, SavesSave, SaveSteps, Steps
<1>3. requests'[q] = [requests[q] EXCEPT !.alone = FALSE]
  BY <1>2 DEF Disturbed
<1> QED
  BY <1>1, <1>3 DEF RequestType

LEMMA StartStep == ASSUME IInv, NEW r \in DOMAIN requests, Start(r) PROVE IInv'
<1> DEFINE x == [requests[r] EXCEPT
                   !.at = requests[r].first,
                   !.alone = IsSave(r) => \A y \in DOMAIN requests : ~Running(y),
                   !.late = \E y \in r + 1 .. Len(requests) :
                              /\ requests[y].window = requests[r].window
                              /\ requests[y].at \notin {"sent", "lost"}]
<1>1. requests[r] \in RequestType
  BY RequestHasType DEF IInv, Types
<1>2. /\ x \in RequestType
      /\ x.at = requests[r].first /\ x.first = requests[r].first
      /\ x.alone = (IsSave(r) => \A y \in DOMAIN requests : ~Running(y))
  <2> DEFINE alone == IsSave(r) => \A y \in DOMAIN requests : ~Running(y)
             late == \E y \in r + 1 .. Len(requests) :
                        /\ requests[y].window = requests[r].window
                        /\ requests[y].at \notin {"sent", "lost"}
  <2>1. x = [requests[r] EXCEPT !.at = requests[r].first, !.alone = alone, !.late = late]
    OBVIOUS
  <2>2. alone \in BOOLEAN /\ late \in BOOLEAN
    OBVIOUS
  <2> HIDE DEF alone, late, x
  <2>3. x \in RequestType /\ x.at = requests[r].first /\ x.first = requests[r].first /\ x.alone = alone
    BY <1>1, <2>1, <2>2 DEF RequestType, Steps
  <2> QED
    BY <2>3 DEF alone
<1>3. /\ requests' = [q \in DOMAIN requests |-> requests'[q]]
      /\ requests'[r] = x
      /\ \A q \in DOMAIN requests \ {r} : requests'[q] = Disturbed(q)
  BY DEF Start
<1> HIDE DEF x
<1>4. \A q \in DOMAIN requests \ {r} : requests'[q] \in RequestType /\ Undisturbed(q)
  BY <1>3, DisturbedType
<1>5. requests' \in Seq(RequestType) /\ Len(requests') = Len(requests) /\ DOMAIN requests' = DOMAIN requests
  <2>1. \A q \in DOMAIN requests : requests'[q] \in RequestType
    BY <1>2, <1>3, <1>4
  <2> QED
    BY <1>3, <2>1, SameLength DEF IInv, Types
<1>6. Types'
  BY <1>5 DEF Start, IInv, Types
<1>7. \A q \in DOMAIN requests \ {r} : requests'[q].at \in SaveSteps => ~requests'[q].alone
  BY <1>3, DisturbedSave
<1>8. x.at \in {"select", "next", "check"} /\ (x.at = "select" => IsSave(r))
  BY <1>1, <1>2 DEF RequestType, IsSave
<1>9. SavesSave'
  BY <1>2, <1>3, <1>4, <1>5, <1>8 DEF IInv, SavesSave, IsSave, Undisturbed, SaveSteps
<1>10. AloneIsAlone'
  <2>1. ASSUME x.at \in SaveSteps, x.alone, NEW q \in DOMAIN requests \ {r} PROVE ~Running(q)'
    <3>1. ~Running(q)
      BY <1>2, <1>8, <2>1 DEF SaveSteps
    <3> QED
      BY <1>4, <3>1 DEF Running, Undisturbed
  <2> QED
    BY <1>3, <1>5, <1>7, <2>1 DEF AloneIsAlone
<1>11. NothingChanged'
  BY <1>3, <1>5, <1>7, <1>8 DEF NothingChanged, SaveSteps
<1> QED
  BY <1>6, <1>9, <1>10, <1>11 DEF IInv

LEMMA CleanupStep == ASSUME IInv, cleanup PROVE IInv'
<1>1. requests' = [q \in DOMAIN requests |-> requests'[q]] /\ \A q \in DOMAIN requests : requests'[q] = Disturbed(q)
  BY DEF cleanup
<1>2. \A q \in DOMAIN requests : requests'[q] \in RequestType /\ Undisturbed(q)
  BY <1>1, DisturbedType
<1>3. requests' \in Seq(RequestType) /\ Len(requests') = Len(requests) /\ DOMAIN requests' = DOMAIN requests
  BY <1>1, <1>2, SameLength DEF IInv, Types
<1>4. \A q \in DOMAIN requests : requests'[q].at \in SaveSteps => ~requests'[q].alone
  BY <1>1, DisturbedSave
<1>5. Types'
  BY <1>3 DEF cleanup, IInv, Types, NoDraft
<1> QED
  BY <1>2, <1>3, <1>4, <1>5, QuietStep

\* What ServeStep asks of the rest of the state when a composer does not change.
LEMMA SameComposers ==
  ASSUME IInv, UNCHANGED composers
  PROVE  /\ composers' \in [Windows -> ComposerType]
         /\ \A w \in Windows : composers'[w].saving <= Len(requests)
BY DEF IInv, Types

LEMMA SelectStep == ASSUME IInv, NEW r \in DOMAIN requests, Select(r) PROVE IInv'
<1>1. /\ requests[r] \in RequestType
      /\ drafts \in [id : Nat, sequence : Nat, data : Nat, revisions : Nat]
      /\ draft_sequences \in Nat
  BY RequestHasType DEF IInv, Types
<1>2. requests[r].sequence \in Nat /\ requests[r].at = "select" /\ drafts.id \in Nat
  BY <1>1 DEF RequestType, Select
<1>3. CASE Accepted(r) /\ HasDraft /\ requests' = [requests EXCEPT
             ![r].at = "upsert", ![r].draft_id = drafts.id, ![r].sequence = Following(r)]
  <2> DEFINE x == [requests[r] EXCEPT !.at = "upsert", !.draft_id = drafts.id,
                                      !.sequence = Following(r)]
  <2>1. Following(r) \in Nat /\ Following(r) > draft_sequences
    BY <1>1, <1>2, <1>3 DEF Following, Accepted, Forced
  <2>2. x \in RequestType
    BY <1>1, <1>2, <2>1 DEF RequestType, Steps
  <2>3. /\ x.at = "upsert" /\ x.draft_id = drafts.id /\ x.sequence = Following(r)
        /\ x.alone = requests[r].alone /\ x.first = requests[r].first
    BY <1>1 DEF RequestType
  <2>4. requests' = [requests EXCEPT ![r] = x]
    BY <1>3
  <2> HIDE DEF x
  <2>5. UNCHANGED <<drafts, draft_sequences, composers>>
    BY DEF Select
  <2>6. HasDraft' /\ drafts'.id = x.draft_id /\ x.sequence > draft_sequences'
    BY <1>3, <2>1, <2>3, <2>5 DEF HasDraft
  <2> QED
    BY <1>1, <1>2, <2>2, <2>3, <2>4, <2>5, <2>6, SameComposers, ServeStep DEF Steps, SaveSteps
<1>4. ASSUME NEW step \in {"insert", "conflict", "exists"}, GoOn(r, step),
             step = "insert" => requests[r].sequence = draft_sequences
      PROVE  IInv'
  <2> DEFINE x == [requests[r] EXCEPT !.at = step]
  <2>1. x \in RequestType
    BY <1>1, <1>4 DEF RequestType, Steps, Ended, Answered
  <2>2. /\ x.at = step /\ x.sequence = requests[r].sequence
        /\ x.alone = requests[r].alone /\ x.first = requests[r].first
    BY <1>1 DEF RequestType
  <2>3. requests' = [requests EXCEPT ![r] = x]
    BY <1>4 DEF GoOn
  <2> HIDE DEF x
  <2>4. UNCHANGED <<drafts, draft_sequences, composers>>
    BY DEF Select
  <2>5. /\ x.at \notin {"upsert", "update"}
        /\ x.at = "insert" => x.sequence = draft_sequences'
    BY <1>4, <2>2, <2>4
  <2> QED
    BY <1>1, <1>2, <2>1, <2>2, <2>3, <2>4, <2>5, SameComposers, ServeStep DEF Steps, SaveSteps
<1> QED
  BY <1>3, <1>4 DEF Select, Accepted

\* A step to a place where nothing is relied on.
LEMMA GoOnStep ==
  ASSUME IInv, NEW r \in DOMAIN requests, requests[r].at \in Steps,
         NEW step \in {"current", "destroy"} \cup Ended,
         step = "current" => requests[r].at \in SaveSteps, GoOn(r, step),
         drafts' \in [id : Nat, sequence : Nat, data : Nat, revisions : Nat],
         draft_sequences' \in Nat,
         composers' \in [Windows -> ComposerType],
         \A w \in Windows : composers'[w].saving <= Len(requests)
  PROVE  IInv'
<1> DEFINE x == [requests[r] EXCEPT !.at = step]
<1>1. requests[r] \in RequestType
  BY RequestHasType DEF IInv, Types
<1>2. x \in RequestType /\ x.at = step
  BY <1>1 DEF RequestType, Steps
<1>3. x.alone = requests[r].alone /\ x.first = requests[r].first
  BY <1>1 DEF RequestType
<1>4. requests' = [requests EXCEPT ![r] = x]
  BY DEF GoOn
<1> HIDE DEF x
<1>5. x.at \notin {"upsert", "update", "insert"} /\ (x.at \in SaveSteps => requests[r].at \in SaveSteps)
  BY <1>2 DEF Ended, Answered, SaveSteps
<1> QED
  BY <1>2, <1>3, <1>4, <1>5, ServeStep

LEMMA UpsertStep == ASSUME IInv, NEW r \in DOMAIN requests, Upsert(r) PROVE IInv'
<1> DEFINE x == [requests[r] EXCEPT !.at = "update"]
<1>1. requests[r] \in RequestType /\ requests[r].at = "upsert"
  BY RequestHasType DEF IInv, Types, Upsert
<1>2. x \in RequestType /\ x.at = "update"
  BY <1>1 DEF RequestType, Steps
<1>3. /\ x.alone = requests[r].alone /\ x.first = requests[r].first
      /\ x.sequence = requests[r].sequence /\ x.draft_id = requests[r].draft_id
  BY <1>1 DEF RequestType
<1>4. requests' = [requests EXCEPT ![r] = x]
  BY DEF Upsert, GoOn
<1> HIDE DEF x
<1>5. /\ UNCHANGED <<drafts, composers>> /\ draft_sequences' = requests[r].sequence
      /\ drafts' \in [id : Nat, sequence : Nat, data : Nat, revisions : Nat]
      /\ draft_sequences' \in Nat
  BY <1>1 DEF Upsert, IInv, Types, RequestType
<1>6. x.alone => HasDraft' /\ drafts'.id = x.draft_id /\ x.sequence = draft_sequences'
  BY <1>1, <1>3, <1>5 DEF IInv, NothingChanged, HasDraft
<1> QED
  BY <1>1, <1>2, <1>3, <1>4, <1>5, <1>6, SameComposers, ServeStep DEF Steps, SaveSteps

LEMMA CurrentStep == ASSUME IInv, NEW r \in DOMAIN requests, Current(r) PROVE IInv'
<1> DEFINE x == [requests[r] EXCEPT !.at = "select", !.sequence = draft_sequences,
                                    !.retried = TRUE]
<1>1. requests[r] \in RequestType /\ requests[r].at = "current" /\ draft_sequences \in Nat
  BY RequestHasType DEF IInv, Types, Current
<1>2. x \in RequestType /\ x.at = "select"
  BY <1>1 DEF RequestType, Steps
<1>3. x.alone = requests[r].alone /\ x.first = requests[r].first
  BY <1>1 DEF RequestType
<1>4. requests' = [requests EXCEPT ![r] = x]
  BY DEF Current
<1> HIDE DEF x
<1>5. /\ drafts' \in [id : Nat, sequence : Nat, data : Nat, revisions : Nat]
      /\ draft_sequences' \in Nat /\ UNCHANGED composers
  BY DEF Current, IInv, Types
<1> QED
  BY <1>1, <1>2, <1>3, <1>4, <1>5, SameComposers, ServeStep DEF Steps, SaveSteps

LEMMA UpdateStep == ASSUME IInv, NEW r \in DOMAIN requests, Update(r) PROVE IInv'
<1> DEFINE x == [requests[r] EXCEPT !.at = "saved", !.draft_id = 0]
<1>1. /\ requests[r] \in RequestType /\ requests[r].at = "update" /\ r \in Nat
      /\ drafts \in [id : Nat, sequence : Nat, data : Nat, revisions : Nat]
  BY RequestHasType, LenProperties DEF IInv, Types, Update
<1>2. x \in RequestType /\ x.at = "saved"
  BY <1>1 DEF RequestType, Ended, Answered
<1>3. x.alone = requests[r].alone /\ x.first = requests[r].first
  BY <1>1 DEF RequestType
<1>4. requests' = [requests EXCEPT ![r] = x]
  BY DEF Update
<1> HIDE DEF x
<1>5. Written(r) \in [id : Nat, sequence : Nat, data : Nat, revisions : Nat]
  <2>1. requests[r].sequence \in Nat /\ drafts.revisions + 1 \in Nat
    BY <1>1 DEF RequestType
  <2>2. ASSUME NEW a \in Nat, NEW b \in Nat, NEW c \in Nat
        PROVE  [drafts EXCEPT !.sequence = a, !.data = b, !.revisions = c]
                 \in [id : Nat, sequence : Nat, data : Nat, revisions : Nat]
    BY <1>1, <2>2
  <2> QED
    BY <1>1, <2>1, <2>2 DEF Written
<1>6. /\ drafts' \in [id : Nat, sequence : Nat, data : Nat, revisions : Nat]
      /\ draft_sequences' \in Nat /\ UNCHANGED composers
  BY <1>1, <1>5 DEF Update, IInv, Types
<1> QED
  BY <1>1, <1>2, <1>3, <1>4, <1>6, SameComposers, ServeStep DEF Steps, SaveSteps

LEMMA InsertStep == ASSUME IInv, NEW r \in DOMAIN requests, Insert(r) PROVE IInv'
<1>1. /\ requests[r] \in RequestType /\ r \in Nat
      /\ drafts \in [id : Nat, sequence : Nat, data : Nat, revisions : Nat]
  BY RequestHasType, LenProperties DEF IInv, Types
<1>2. requests[r].sequence \in Nat /\ drafts.id \in Nat /\ drafts.revisions + 1 \in Nat
  BY <1>1 DEF RequestType
<1>3. /\ drafts' \in [id : Nat, sequence : Nat, data : Nat, revisions : Nat]
      /\ draft_sequences' \in Nat /\ UNCHANGED composers
  BY <1>1, <1>2 DEF Insert, IInv, Types
<1> QED
  BY <1>3, SameComposers, GoOnStep DEF Insert, Ended, Answered, Steps

LEMMA OtherSteps ==
  ASSUME IInv, NEW r \in DOMAIN requests,
         Exists(r) \/ NextSequence(r) \/ CheckClear(r) \/ Destroy(r)
  PROVE  IInv'
<1>1. /\ drafts \in [id : Nat, sequence : Nat, data : Nat, revisions : Nat]
      /\ NoDraft \in [id : Nat, sequence : Nat, data : Nat, revisions : Nat]
      /\ draft_sequences \in Nat /\ Advanced \in Nat
  BY DEF IInv, Types, NoDraft, Advanced
<1>2. CASE Exists(r)
  BY <1>1, <1>2, SameComposers, GoOnStep DEF Exists, Ended, Answered, Steps, SaveSteps
<1>3. CASE NextSequence(r)
  BY <1>1, <1>3, SameComposers, GoOnStep DEF NextSequence, Ended, Answered, Steps
<1>4. CASE CheckClear(r)
  BY <1>1, <1>4, SameComposers, GoOnStep DEF CheckClear, Ended, Answered, Steps
<1>5. CASE Destroy(r)
  BY <1>1, <1>5, SameComposers, GoOnStep DEF Destroy, Ended, Answered, Steps
<1> QED
  BY <1>2, <1>3, <1>4, <1>5

LEMMA KillStep == ASSUME IInv, NEW r \in DOMAIN requests, Kill(r) PROVE IInv'
<1>1. requests[r].at \in Steps
  BY RunningSteps DEF Kill, IInv
<1>2. \A w \in Windows : /\ composers'[w] \in ComposerType
                         /\ composers'[w].saving <= Len(requests)
  <2> SUFFICES ASSUME NEW w \in Windows
               PROVE  composers'[w] \in ComposerType /\ composers'[w].saving <= Len(requests)
    OBVIOUS
  <2>1. /\ composers[w] \in ComposerType /\ composers[w].saving <= Len(requests)
        /\ Len(requests) \in Nat
    BY LenProperties DEF IInv, Types
  <2> DEFINE status == IF composers[w].saving = r THEN "offline" ELSE composers[w].draftStatus
             saving == IF composers[w].saving = r THEN 0 ELSE composers[w].saving
             leaving == IF composers[w].leaving = r THEN 0 ELSE composers[w].leaving
             c == [composers[w] EXCEPT !.draftStatus = status, !.saving = saving,
                                       !.leaving = leaving]
  <2>2. status \in Statuses /\ saving \in Nat /\ leaving \in Nat /\ saving <= Len(requests)
    BY <2>1 DEF ComposerType, Statuses
  <2>3. composers'[w] = c
    BY DEF Kill
  <2> HIDE DEF status, saving, leaving
  <2>4. c \in ComposerType /\ c.saving = saving
    BY <2>1, <2>2 DEF ComposerType
  <2> QED
    BY <2>2, <2>3, <2>4
<1>3. composers' \in [Windows -> ComposerType]
  BY <1>2 DEF Kill
<1>4. /\ drafts' \in [id : Nat, sequence : Nat, data : Nat, revisions : Nat]
      /\ draft_sequences' \in Nat /\ GoOn(r, "killed")
  BY DEF Kill, IInv, Types, GoOn
<1> QED
  BY <1>1, <1>2, <1>3, <1>4, GoOnStep DEF Ended

LEMMA NextIInv == IInv /\ [Next]_vars => IInv'
<1> SUFFICES ASSUME IInv, [Next]_vars PROVE IInv'
  OBVIOUS
<1>1. CASE UNCHANGED vars
  <2>1. composers' \in [Windows -> ComposerType] /\ \A w \in Windows : composers'[w].saving <= Len(requests)
    BY <1>1, SameComposers DEF vars
  <2> QED
    BY <1>1, <2>1, ComposerStep DEF vars
<1>2. ASSUME NEW w \in Windows, Browser(w) PROVE IInv'
  BY <1>2, OpenStep, SaveDraftStep, PostStep, DestroyDraftStep, AnswerStep, LoseStep DEF Browser
<1>3. ASSUME NEW r \in DOMAIN requests, Server(r) PROVE IInv'
  BY <1>3, StartStep, SelectStep, UpsertStep, UpdateStep, InsertStep, CurrentStep, OtherSteps,
     KillStep DEF Server
<1> QED
  BY <1>1, <1>2, <1>3, CleanupStep DEF Next

LEMMA SpecIInv == Spec => []IInv
BY InitIInv, NextIInv, PTL DEF Spec

-----------------------------------------------------------------------------
(* Theorems *)

\* Draft.set answers from its last statement.
LEMMA OnlyWritesSave ==
  ASSUME IInv, Next, NEW r \in DOMAIN requests,
         requests[r].at # "saved", requests'[r].at = "saved"
  PROVE  Update(r) \/ Insert(r)
<1>1. requests \in Seq(RequestType) /\ DOMAIN requests = 1 .. Len(requests)
  BY LenProperties DEF IInv, Types
<1>2. requests[r] \in RequestType
  BY RequestHasType DEF IInv, Types
<1>3. ASSUME NEW w \in Windows, Browser(w) PROVE FALSE
  <2>1. ASSUME NEW request, Send(request) PROVE FALSE
    BY <1>1, <2>1, AppendProperties DEF Send
  <2>2. ASSUME NEW q \in DOMAIN requests, Lose(w, q) PROVE FALSE
    BY <1>1, <1>2, <2>2 DEF Lose
  <2>3. ASSUME Open(w) PROVE FALSE
    <3>1. requests'[r] = Disturbed(r)
      BY <2>3 DEF Open
    <3> QED
      BY <3>1, DisturbedType DEF Undisturbed
  <2> QED
    BY <1>3, <2>1, <2>2, <2>3 DEF Browser, saveDraft, save, destroyDraft, ignoreConflict, Leave,
       Saved, SaveRefused, Left
<1>4. ASSUME cleanup PROVE FALSE
  <2>1. requests'[r] = Disturbed(r)
    BY <1>4 DEF cleanup
  <2> QED
    BY <2>1, DisturbedType DEF Undisturbed
<1>5. ASSUME NEW q \in DOMAIN requests, Start(q) PROVE FALSE
  <2>1. CASE q # r
    <3>1. requests'[r] = Disturbed(r)
      BY <1>5, <2>1 DEF Start
    <3> QED
      BY <3>1, DisturbedType DEF Undisturbed
  <2>2. CASE q = r
    <3>1. requests'[r].at = requests[r].first
      BY <1>2, <1>5, <2>2 DEF Start, RequestType
    <3> QED
      BY <1>2, <3>1 DEF RequestType
  <2> QED
    BY <2>1, <2>2
<1>6. ASSUME NEW q \in DOMAIN requests, Server(q), ~Start(q), q # r PROVE FALSE
  BY <1>1, <1>6 DEF Server, Select, Upsert, Update, Insert, Exists, Current, NextSequence,
     CheckClear, Destroy, Kill, GoOn
<1>7. ASSUME Server(r), ~Start(r), ~Update(r), ~Insert(r) PROVE FALSE
  <2>1. ASSUME NEW step, step # "saved", GoOn(r, step) PROVE FALSE
    BY <1>2, <2>1 DEF GoOn, RequestType
  <2>2. ~Upsert(r) /\ ~Exists(r) /\ ~NextSequence(r) /\ ~CheckClear(r) /\ ~Destroy(r) /\ ~Kill(r)
    BY <2>1 DEF Upsert, Exists, NextSequence, CheckClear, Destroy, Kill, GoOn
  <2>3. ~Current(r)
    BY <1>2 DEF Current, RequestType
  <2>4. ~Select(r)
    <3>1. ASSUME requests' = [requests EXCEPT ![r].at = "upsert", ![r].draft_id = drafts.id,
                                              ![r].sequence = Following(r)]
          PROVE  FALSE
      BY <1>2, <3>1 DEF RequestType
    <3> QED
      BY <2>1, <3>1 DEF Select
  <2> QED
    BY <1>7, <2>2, <2>3, <2>4 DEF Server
<1> QED
  BY <1>3, <1>4, <1>5, <1>6, <1>7 DEF Next

\* The text of a save that succeeds is the draft the server shows, if nothing
\* else was served from the save's first statement to its last
\* (draft.rb:50-94, 105-132): nothing that happened before can spoil it.
THEOREM SaveAloneIsServed == Spec => SavedIsServed
<1> DEFINE A == \A r \in DOMAIN requests :
                  requests[r].at # "saved" /\ requests'[r].at = "saved" /\ requests[r].alone =>
                    drafts'.data = r /\ drafts'.sequence = draft_sequences'
<1>1. IInv /\ [Next]_vars => [A]_vars
  <2> SUFFICES ASSUME IInv, Next, NEW r \in DOMAIN requests,
                      requests[r].at # "saved", requests'[r].at = "saved", requests[r].alone
               PROVE  drafts'.data = r /\ drafts'.sequence = draft_sequences'
    OBVIOUS
  <2>1. /\ requests \in Seq(RequestType) /\ DOMAIN requests = 1 .. Len(requests)
        /\ requests[r] \in RequestType
        /\ drafts \in [id : Nat, sequence : Nat, data : Nat, revisions : Nat]
    BY RequestHasType, LenProperties DEF IInv, Types
  <2>2. Update(r) \/ Insert(r)
    BY <2>1, OnlyWritesSave
  <2>3. CASE Update(r)
    <3>1. Matches(r) /\ requests[r].sequence = draft_sequences
      BY <2>3 DEF Update, Matches, IInv, NothingChanged
    <3>2. drafts' = Written(r) /\ UNCHANGED draft_sequences
      BY <2>3, <3>1 DEF Update
    <3> QED
      BY <2>1, <3>1, <3>2 DEF Written
  <2>4. CASE Insert(r)
    BY <2>4 DEF Insert, IInv, NothingChanged
  <2> QED
    BY <2>2, <2>3, <2>4
<1> QED
  BY <1>1, SpecIInv, PTL DEF Spec, SavedIsServed

\* The sequence falls only by a save that was served beside something else
\* (draft.rb:58-63).
THEOREM SequenceGrows == Spec => SequenceNeverDecreases
<1> DEFINE A == draft_sequences' < draft_sequences =>
                  \E r \in DOMAIN requests : requests[r].at = "upsert" /\ ~requests[r].alone
<1>1. IInv /\ [Next]_vars => [A]_vars
  <2> SUFFICES ASSUME IInv, Next, draft_sequences' < draft_sequences PROVE A
    OBVIOUS
  <2>1. draft_sequences \in Nat
    BY DEF IInv, Types
  <2>2. PICK r \in DOMAIN requests : Upsert(r)
    <3>1. ASSUME NEW w \in Windows, Browser(w) PROVE UNCHANGED draft_sequences
      BY <3>1 DEF Browser, Open, saveDraft, save, destroyDraft, ignoreConflict, Leave, Saved,
         SaveRefused, Left, Lose
    <3>2. ASSUME NEW r \in DOMAIN requests, Server(r), ~Upsert(r)
          PROVE  draft_sequences' \in {draft_sequences, draft_sequences + 1}
      BY <3>2 DEF Server, Start, Select, Update, Insert, Exists, Current, NextSequence, Advanced,
         CheckClear, Destroy, Kill
    <3>3. cleanup => UNCHANGED draft_sequences
      BY DEF cleanup
    <3> QED
      BY <2>1, <3>1, <3>2, <3>3 DEF Next
  <2>3. requests[r] \in RequestType
    BY RequestHasType DEF IInv, Types
  <2>4. ~(requests[r].sequence > draft_sequences)
    BY <2>1, <2>2, <2>3 DEF Upsert, RequestType
  <2> QED
    BY <2>2, <2>4 DEF Upsert, IInv, NothingChanged
<1> QED
  BY <1>1, SpecIInv, PTL DEF Spec, SequenceNeverDecreases

-----------------------------------------------------------------------------
(* What posting leaves of the draft, and how far the columns can get *)

\* The requests that have moved the sequence or were about to, and those whose
\* text was stored.
Used == {q \in DOMAIN requests : requests[q].at \in {"upsert", "update", "saved", "posted", "killed"}}
Stored == {q \in DOMAIN requests : requests[q].at = "saved"}

\* The draft and its id are of the start or of a request that was served.
KnownTexts ==
  /\ Len(requests) <= MaxRequests
  /\ drafts.id \in {0, Old} \cup DOMAIN requests
  /\ drafts.data \in {0, Old} \cup Stored

\* Each request takes the sequence at most one further.
Counted ==
  /\ draft_sequences <= 1 + Cardinality(Used)
  /\ drafts.sequence <= 1 + Cardinality(Used)
  /\ drafts.revisions <= 2 + Cardinality(Stored)
  /\ \A r \in DOMAIN requests :
       requests[r].at \in {"upsert", "update", "insert"} =>
         requests[r].sequence <= 1 + Cardinality(Used)

\* The draft of a save that was alone is not ahead of the sequence, and no save
\* that has begun since will take the sequence back behind it.
NotAhead ==
  drafts.data \in DOMAIN requests /\ requests[drafts.data].alone =>
    /\ drafts.sequence <= draft_sequences
    /\ \A r \in DOMAIN requests :
         requests[r].at = "upsert" => drafts.sequence < requests[r].sequence

\* While a save is served alone and in order, no later request of its window has
\* been taken up.
NoneLater ==
  \A r \in DOMAIN requests :
    requests[r].at \in SaveSteps /\ requests[r].alone /\ ~requests[r].late =>
      \A q \in DOMAIN requests :
        r < q /\ requests[q].window = requests[r].window => requests[q].at \in {"sent", "lost"}

GInv == KnownTexts /\ Counted /\ NotAhead /\ NoneLater /\ PostedDraftGone

LEMMA RequestsFinite ==
  ASSUME NEW s \in Seq(RequestType)
  PROVE  /\ DOMAIN s = 1 .. Len(s) /\ Len(s) \in Nat
         /\ \A S \in SUBSET DOMAIN s :
              IsFiniteSet(S) /\ Cardinality(S) \in Nat /\ Cardinality(S) <= Len(s)
<1>1. DOMAIN s = 1 .. Len(s) /\ Len(s) \in Nat
  BY LenProperties
<1>2. IsFiniteSet(1 .. Len(s)) /\ Cardinality(1 .. Len(s)) = Len(s)
  BY <1>1, FS_Interval
<1> QED
  BY <1>1, <1>2, FS_Subset, FS_CardinalityType

\* More requests in a set, and one more at least when q is new in it.
LEMMA Grows ==
  ASSUME NEW S, NEW T, IsFiniteSet(T), S \subseteq T
  PROVE  /\ Cardinality(S) \in Nat /\ Cardinality(T) \in Nat
         /\ Cardinality(S) <= Cardinality(T)
         /\ \A q \in T \ S : Cardinality(S) + 1 <= Cardinality(T)
<1>1. /\ IsFiniteSet(S) /\ Cardinality(S) \in Nat /\ Cardinality(T) \in Nat
      /\ Cardinality(S) <= Cardinality(T)
  BY FS_Subset, FS_CardinalityType
<1>2. ASSUME NEW q \in T \ S PROVE Cardinality(S) + 1 <= Cardinality(T)
  <2>1. S \cup {q} \in SUBSET T /\ Cardinality(S \cup {q}) = Cardinality(S) + 1
    BY <1>1, <1>2, FS_AddElement
  <2> QED
    BY <2>1, FS_Subset
<1> QED
  BY <1>1, <1>2

\* A request that is not served, that is taken up or lost, and that is served
\* without moving the sequence or storing anything.
Untouched(q) ==
  /\ Undisturbed(q)
  /\ requests'[q].late = requests[q].late

Taken(q) ==
  /\ requests[q].at = "sent"
  /\ requests'[q].at \in {"lost", "select", "next", "check"}

Passed(q) ==
  /\ requests[q].at \in Steps
  /\ requests'[q].at \in {"killed", "conflict", "cleared", "select", "insert", "exists",
                          "current", "destroy"}
  /\ requests[q].at \in {"upsert", "update"} => requests'[q].at = "killed"
  /\ requests'[q].at = "insert" => requests'[q].sequence = draft_sequences

LEMMA QuietGone ==
  ASSUME IInv, GInv, IInv', UNCHANGED draft_sequences, drafts' \in {drafts, NoDraft},
         Len(requests') <= MaxRequests, Len(requests) <= Len(requests'),
         \A q \in DOMAIN requests : Untouched(q) \/ Taken(q) \/ Passed(q),
         \A q \in DOMAIN requests : requests'[q].window = requests[q].window,
         \A q \in DOMAIN requests' \ DOMAIN requests : requests'[q].at = "sent",
         NoneLater'
  PROVE  GInv'
<1>1. /\ DOMAIN requests = 1 .. Len(requests) /\ Len(requests) \in Nat
      /\ IsFiniteSet(Used) /\ IsFiniteSet(Stored)
      /\ DOMAIN requests' = 1 .. Len(requests') /\ Len(requests') \in Nat
      /\ IsFiniteSet(Used') /\ IsFiniteSet(Stored')
  <2>1. /\ requests \in Seq(RequestType) /\ requests' \in Seq(RequestType)
        /\ Used \subseteq DOMAIN requests /\ Stored \subseteq DOMAIN requests
        /\ Used' \subseteq DOMAIN requests' /\ Stored' \subseteq DOMAIN requests'
    BY DEF IInv, Types, Used, Stored
  <2> QED
    BY <2>1, RequestsFinite
<1>2. DOMAIN requests \subseteq DOMAIN requests'
  BY <1>1
<1>3. Used \subseteq Used' /\ Stored = Stored'
  BY <1>2 DEF Used, Stored, Untouched, Undisturbed, Taken, Passed, Steps
<1>4. Cardinality(Used) \in Nat /\ Cardinality(Used') \in Nat /\ Cardinality(Used) <= Cardinality(Used')
  BY <1>1, <1>3, Grows
<1>5. /\ drafts \in [id : Nat, sequence : Nat, data : Nat, revisions : Nat]
      /\ draft_sequences \in Nat /\ Cardinality(Stored) \in Nat
      /\ \A q \in DOMAIN requests : requests[q].sequence \in Nat
  BY <1>1, RequestHasType, FS_CardinalityType DEF IInv, Types, RequestType
<1>6. KnownTexts'
  BY <1>2, <1>3 DEF GInv, KnownTexts, NoDraft, Old
<1>7. Counted'
  <2>1. /\ draft_sequences' <= 1 + Cardinality(Used')
        /\ drafts'.sequence <= 1 + Cardinality(Used')
        /\ drafts'.revisions <= 2 + Cardinality(Stored')
    BY <1>3, <1>4, <1>5 DEF GInv, Counted, NoDraft
  <2>2. ASSUME NEW q \in DOMAIN requests', requests'[q].at \in {"upsert", "update", "insert"}
        PROVE  requests'[q].sequence <= 1 + Cardinality(Used')
    <3>1. q \in DOMAIN requests /\ (Untouched(q) \/ (Passed(q) /\ requests'[q].at = "insert"))
      BY <2>2 DEF Taken, Passed
    <3> QED
      BY <1>4, <1>5, <2>1, <2>2, <3>1 DEF GInv, Counted, Untouched, Undisturbed, Passed
  <2> QED
    BY <2>1, <2>2 DEF Counted
<1>8. ASSUME drafts'.data \in DOMAIN requests'
      PROVE  /\ drafts' = drafts /\ drafts.data \in DOMAIN requests
             /\ requests[drafts.data].at = "saved" /\ Untouched(drafts.data)
  <2>1. drafts' = drafts /\ drafts.data \notin {0, Old}
    BY <1>1, <1>8, DraftsAssumption DEF NoDraft, Old
  <2>2. drafts.data \in Stored
    BY <2>1 DEF GInv, KnownTexts
  <2> QED
    BY <2>1, <2>2 DEF Stored, Taken, Passed, Steps
<1>9. NotAhead'
  <2> SUFFICES ASSUME drafts'.data \in DOMAIN requests', requests'[drafts'.data].alone
               PROVE  /\ drafts'.sequence <= draft_sequences'
                      /\ \A r \in DOMAIN requests' :
                           requests'[r].at = "upsert" => drafts'.sequence < requests'[r].sequence
    BY DEF NotAhead
  <2>1. requests[drafts.data].alone
    BY <1>8 DEF Untouched, Undisturbed
  <2>2. \A r \in DOMAIN requests' : requests'[r].at = "upsert" =>
          r \in DOMAIN requests /\ Untouched(r)
    BY DEF Taken, Passed
  <2> QED
    BY <1>8, <2>1, <2>2 DEF GInv, NotAhead, Untouched, Undisturbed
<1>10. PostedDraftGone'
  <2> SUFFICES ASSUME NEW r \in DOMAIN requests', requests'[r].at = "posted",
                      drafts'.data \in 1 .. r - 1
               PROVE  \/ requests'[drafts'.data].window # requests'[r].window
                      \/ requests'[drafts'.data].late
                      \/ ~requests'[drafts'.data].alone
    BY DEF PostedDraftGone
  <2>1. r \in DOMAIN requests /\ requests[r].at = "posted"
    BY DEF Taken, Passed, Untouched, Undisturbed
  <2>2. drafts'.data \in DOMAIN requests'
    BY <1>1
  <2> QED
    BY <1>8, <2>1, <2>2 DEF GInv, PostedDraftGone, Untouched, Undisturbed
<1> QED
  BY <1>6, <1>7, <1>9, <1>10 DEF GInv

\* A step that takes nothing up and serves nobody.
LEMMA IdleGone ==
  ASSUME IInv, GInv, IInv', UNCHANGED draft_sequences, drafts' \in {drafts, NoDraft},
         Len(requests') <= MaxRequests, Len(requests) <= Len(requests'),
         \A q \in DOMAIN requests :
           Untouched(q) \/ (requests[q].at = "sent" /\ requests'[q].at = "lost"),
         \A q \in DOMAIN requests : requests'[q].window = requests[q].window,
         \A q \in DOMAIN requests' \ DOMAIN requests : requests'[q].at = "sent"
  PROVE  GInv'
<1>1. NoneLater'
  <2> SUFFICES ASSUME NEW r \in DOMAIN requests', NEW q \in DOMAIN requests',
                      requests'[r].at \in SaveSteps, requests'[r].alone, ~requests'[r].late,
                      r < q, requests'[q].window = requests'[r].window
               PROVE  requests'[q].at \in {"sent", "lost"}
    BY DEF NoneLater
  <2>1. r \in DOMAIN requests /\ Untouched(r)
    BY DEF SaveSteps
  <2>2. q \in DOMAIN requests => requests[q].at \in {"sent", "lost"}
    BY <2>1 DEF GInv, NoneLater, Untouched, Undisturbed
  <2> QED
    BY <2>2 DEF Untouched, Undisturbed
<1>2. \A q \in DOMAIN requests : Untouched(q) \/ Taken(q) \/ Passed(q)
  BY DEF Taken
<1> QED
  BY <1>1, <1>2, QuietGone

LEMMA DisturbedUntouched ==
  ASSUME IInv, NEW q \in DOMAIN requests, requests'[q] = Disturbed(q)
  PROVE  Untouched(q) /\ requests'[q].window = requests[q].window
<1>1. requests[q] \in RequestType
  BY RequestHasType DEF IInv, Types
<1>2. requests'[q] \in {requests[q], [requests[q] EXCEPT !.alone = FALSE]}
  BY DEF Disturbed
<1> QED
  BY <1>1, <1>2, DisturbedType DEF RequestType, Untouched

LEMMA BrowserGone ==
  ASSUME IInv, GInv, IInv', NEW w \in Windows, Browser(w)
  PROVE  GInv'
<1>1. /\ requests \in Seq(RequestType) /\ Len(requests) \in Nat /\ Len(requests) <= MaxRequests
      /\ DOMAIN requests = 1 .. Len(requests)
  BY RequestsFinite DEF IInv, Types, GInv, KnownTexts
<1>2. ASSUME NEW request, request.at = "sent", Send(request), UNCHANGED <<drafts, draft_sequences>>
      PROVE  GInv'
  <2>1. /\ Len(requests') = Len(requests) + 1 /\ Len(requests) < MaxRequests
        /\ DOMAIN requests' = 1 .. Len(requests) + 1
        /\ requests'[Len(requests) + 1] = request
        /\ \A q \in DOMAIN requests : requests'[q] = requests[q]
    BY <1>1, <1>2 DEF Send
  <2>2. /\ \A q \in DOMAIN requests : Untouched(q)
        /\ \A q \in DOMAIN requests' \ DOMAIN requests : requests'[q].at = "sent"
        /\ Len(requests') <= MaxRequests /\ Len(requests) <= Len(requests')
    BY <1>1, <1>2, <2>1, DraftsAssumption DEF Untouched, Undisturbed
  <2> QED
    BY <1>2, <2>1, <2>2, IdleGone
<1>3. CASE saveDraft(w) \/ save(w) \/ destroyDraft(w)
  BY <1>2, <1>3 DEF saveDraft, save, destroyDraft, Request
<1>4. CASE UNCHANGED requests /\ UNCHANGED <<drafts, draft_sequences>>
  BY <1>1, <1>4, IdleGone DEF Untouched, Undisturbed
<1>5. CASE Open(w)
  <2>1. /\ requests' = [q \in DOMAIN requests |-> requests'[q]]
        /\ \A q \in DOMAIN requests : requests'[q] = Disturbed(q)
    BY <1>5 DEF Open
  <2>2. /\ \A q \in DOMAIN requests : Untouched(q) /\ requests'[q].window = requests[q].window
        /\ \A q \in DOMAIN requests : requests'[q] \in RequestType
    BY <2>1, DisturbedUntouched, DisturbedType
  <2>3. Len(requests') = Len(requests) /\ DOMAIN requests' = DOMAIN requests
    BY <1>1, <2>1, <2>2, SameLength
  <2> QED
    BY <1>1, <1>5, <2>2, <2>3, IdleGone DEF Open
<1>6. ASSUME NEW r \in DOMAIN requests, Lose(w, r), ~UNCHANGED requests PROVE GInv'
  <2> DEFINE x == [requests[r] EXCEPT !.at = "lost"]
  <2>1. requests[r] \in RequestType /\ requests[r].at = "sent" /\ requests' = [requests EXCEPT ![r] = x]
    BY <1>6, RequestHasType DEF IInv, Types, Lose
  <2>2. x \in RequestType /\ x.at = "lost" /\ x.window = requests[r].window
    BY <2>1 DEF RequestType, Ended
  <2> HIDE DEF x
  <2>3. /\ Len(requests') = Len(requests) /\ DOMAIN requests' = DOMAIN requests
        /\ \A q \in DOMAIN requests : requests'[q] = IF q = r THEN x ELSE requests[q]
    BY <2>1, <2>2, RequestSet DEF IInv
  <2>4. /\ \A q \in DOMAIN requests :
             Untouched(q) \/ (requests[q].at = "sent" /\ requests'[q].at = "lost")
        /\ \A q \in DOMAIN requests : requests'[q].window = requests[q].window
    BY <2>1, <2>2, <2>3 DEF Untouched, Undisturbed
  <2> QED
    BY <1>1, <1>6, <2>3, <2>4, IdleGone DEF Lose
<1> QED
  BY <1>3, <1>4, <1>5, <1>6 DEF Browser, ignoreConflict, Leave, Saved, SaveRefused, Left, Lose

LEMMA CleanupGone == ASSUME IInv, GInv, IInv', cleanup PROVE GInv'
<1>1. /\ requests \in Seq(RequestType) /\ Len(requests) \in Nat /\ Len(requests) <= MaxRequests
  BY RequestsFinite DEF IInv, Types, GInv, KnownTexts
<1>2. /\ requests' = [q \in DOMAIN requests |-> requests'[q]]
      /\ \A q \in DOMAIN requests : requests'[q] = Disturbed(q)
  BY DEF cleanup
<1>3. /\ \A q \in DOMAIN requests : Untouched(q) /\ requests'[q].window = requests[q].window
      /\ \A q \in DOMAIN requests : requests'[q] \in RequestType
  BY <1>2, DisturbedUntouched, DisturbedType
<1>4. Len(requests') = Len(requests) /\ DOMAIN requests' = DOMAIN requests
  BY <1>1, <1>2, <1>3, SameLength
<1> QED
  BY <1>1, <1>3, <1>4, IdleGone DEF cleanup

\* A request that is taken up disturbs the others, and is late when it is
\* overtaken.
LEMMA StartGone ==
  ASSUME IInv, GInv, IInv', NEW r \in DOMAIN requests, Start(r)
  PROVE  GInv'
<1>1. /\ requests \in Seq(RequestType) /\ Len(requests) \in Nat /\ Len(requests) <= MaxRequests
      /\ DOMAIN requests = 1 .. Len(requests) /\ requests[r] \in RequestType
  BY RequestsFinite, RequestHasType DEF IInv, Types, GInv, KnownTexts
<1>2. /\ requests' = [q \in DOMAIN requests |-> requests'[q]]
      /\ \A q \in DOMAIN requests \ {r} : requests'[q] = Disturbed(q)
      /\ requests[r].at = "sent" /\ UNCHANGED <<drafts, draft_sequences>>
  BY DEF Start
<1>3. /\ requests'[r].at = requests[r].first /\ requests'[r].window = requests[r].window
      /\ ~requests'[r].late =>
           \A y \in r + 1 .. Len(requests) :
             requests[y].window = requests[r].window => requests[y].at \in {"sent", "lost"}
  <2> DEFINE alone == IsSave(r) => \A y \in DOMAIN requests : ~Running(y)
             late == \E y \in r + 1 .. Len(requests) :
                        /\ requests[y].window = requests[r].window
                        /\ requests[y].at \notin {"sent", "lost"}
  <2>1. requests'[r] = [requests[r] EXCEPT !.at = requests[r].first, !.alone = alone, !.late = late]
    BY DEF Start
  <2> HIDE DEF alone, late
  <2>2. /\ requests'[r].at = requests[r].first /\ requests'[r].window = requests[r].window
        /\ requests'[r].late = late
    BY <1>1, <2>1 DEF RequestType
  <2> QED
    BY <2>2 DEF late
<1>4. requests[r].first \in {"select", "next", "check"}
  BY <1>1 DEF RequestType
<1>5. \A q \in DOMAIN requests \ {r} : Untouched(q) /\ requests'[q].window = requests[q].window
  BY <1>2, DisturbedUntouched
<1>6. Len(requests') = Len(requests) /\ DOMAIN requests' = DOMAIN requests
  BY <1>1, <1>2, RequestsFinite DEF IInv, Types
<1>7. NoneLater'
  <2> SUFFICES ASSUME NEW q \in DOMAIN requests, NEW y \in DOMAIN requests,
                      requests'[q].at \in SaveSteps, requests'[q].alone, ~requests'[q].late,
                      q < y, requests'[y].window = requests'[q].window
               PROVE  requests'[y].at \in {"sent", "lost"}
    BY <1>6 DEF NoneLater
  <2>1. q = r
    BY <1>2, DisturbedSave
  <2>2. y \in r + 1 .. Len(requests) /\ requests[y].window = requests[r].window
    BY <1>1, <1>3, <1>5, <2>1
  <2> QED
    BY <1>1, <1>3, <1>5, <2>1, <2>2 DEF Untouched, Undisturbed
<1>8. \A q \in DOMAIN requests : Untouched(q) \/ Taken(q) \/ Passed(q)
  BY <1>2, <1>3, <1>4, <1>5 DEF Taken
<1> QED
  BY <1>1, <1>2, <1>3, <1>5, <1>6, <1>7, <1>8, QuietGone

\* Request r is served and becomes x: if another one counts as alone, then
\* nothing is served.
LEMMA ServedAlone ==
  ASSUME IInv, GInv, NEW r \in DOMAIN requests, requests[r].at \in Steps,
         NEW x \in RequestType, requests' = [requests EXCEPT ![r] = x],
         x.window = requests[r].window, x.late = requests[r].late, x.alone = requests[r].alone,
         x.at \in SaveSteps => requests[r].at \in SaveSteps
  PROVE  /\ NoneLater'
         /\ Len(requests') = Len(requests) /\ DOMAIN requests' = DOMAIN requests
         /\ \A q \in DOMAIN requests : requests'[q] = IF q = r THEN x ELSE requests[q]
<1>1. /\ Len(requests') = Len(requests) /\ DOMAIN requests' = DOMAIN requests
      /\ \A q \in DOMAIN requests : requests'[q] = IF q = r THEN x ELSE requests[q]
  BY RequestSet DEF IInv
<1>2. NoneLater'
  <2> SUFFICES ASSUME NEW q \in DOMAIN requests, NEW y \in DOMAIN requests,
                      requests'[q].at \in SaveSteps, requests'[q].alone, ~requests'[q].late,
                      q < y, requests'[y].window = requests'[q].window
               PROVE  requests'[y].at \in {"sent", "lost"}
    BY <1>1 DEF NoneLater
  <2>1. DOMAIN requests \subseteq Nat
    BY RequestsFinite DEF IInv, Types
  <2>2. /\ requests[q].at \in SaveSteps /\ requests[q].alone /\ ~requests[q].late
        /\ requests[y].window = requests[q].window
    BY <1>1
  <2>3. q = r
    BY <2>2, RunningSteps DEF IInv, AloneIsAlone
  <2> QED
    BY <1>1, <2>1, <2>2, <2>3 DEF GInv, NoneLater
<1> QED
  BY <1>1, <1>2

\* A step that moves no sequence and stores nothing.
LEMMA PassedGone ==
  ASSUME IInv, GInv, IInv', NEW r \in DOMAIN requests, requests[r].at \in Steps,
         NEW x \in RequestType, requests' = [requests EXCEPT ![r] = x],
         x.window = requests[r].window, x.late = requests[r].late, x.alone = requests[r].alone,
         x.at \in SaveSteps => requests[r].at \in SaveSteps,
         x.at \in {"killed", "conflict", "cleared", "select", "insert", "exists", "current", "destroy"},
         requests[r].at \in {"upsert", "update"} => x.at = "killed",
         x.at = "insert" => x.sequence = draft_sequences,
         UNCHANGED draft_sequences, drafts' \in {drafts, NoDraft}
  PROVE  GInv'
<1>1. /\ NoneLater'
      /\ Len(requests') = Len(requests) /\ DOMAIN requests' = DOMAIN requests
      /\ \A q \in DOMAIN requests : requests'[q] = IF q = r THEN x ELSE requests[q]
  BY ServedAlone
<1>2. Len(requests) \in Nat /\ Len(requests) <= MaxRequests
  BY RequestsFinite DEF IInv, Types, GInv, KnownTexts
<1>3. /\ Passed(r)
      /\ \A q \in DOMAIN requests \ {r} : Untouched(q)
      /\ \A q \in DOMAIN requests : requests'[q].window = requests[q].window
  BY <1>1 DEF Passed, Untouched, Undisturbed
<1> QED
  BY <1>1, <1>2, <1>3, QuietGone

\* A step in which only the place of the request changes.
LEMMA PlaceGone ==
  ASSUME IInv, GInv, IInv', NEW r \in DOMAIN requests, requests[r].at \in Steps,
         NEW step \in {"killed", "conflict", "cleared", "exists", "insert", "current", "destroy"},
         GoOn(r, step),
         step \in {"exists", "insert", "current"} => requests[r].at \in SaveSteps,
         requests[r].at \in {"upsert", "update"} => step = "killed",
         step = "insert" => requests[r].sequence = draft_sequences,
         UNCHANGED draft_sequences, drafts' \in {drafts, NoDraft}
  PROVE  GInv'
<1> DEFINE x == [requests[r] EXCEPT !.at = step]
<1>1. requests[r] \in RequestType
  BY RequestHasType DEF IInv, Types
<1>2. /\ x \in RequestType /\ x.at = step
      /\ x.window = requests[r].window /\ x.late = requests[r].late
      /\ x.alone = requests[r].alone /\ x.sequence = requests[r].sequence
  BY <1>1 DEF RequestType, Steps, Ended, Answered
<1>3. requests' = [requests EXCEPT ![r] = x]
  BY DEF GoOn
<1> HIDE DEF x
<1>4. x.at \in SaveSteps => requests[r].at \in SaveSteps
  BY <1>2 DEF SaveSteps
<1> QED
  BY <1>2, <1>3, <1>4, PassedGone

LEMMA PassingGone ==
  ASSUME IInv, GInv, IInv', NEW r \in DOMAIN requests,
         Exists(r) \/ Current(r) \/ CheckClear(r) \/ Destroy(r) \/ Kill(r)
  PROVE  GInv'
<1>1. CASE Exists(r)
  BY <1>1, PlaceGone DEF Exists, Steps, SaveSteps
<1>2. CASE Current(r)
  <2> DEFINE x == [requests[r] EXCEPT !.at = "select", !.sequence = draft_sequences,
                                      !.retried = TRUE]
  <2>1. requests[r] \in RequestType /\ requests[r].at = "current" /\ draft_sequences \in Nat
    BY <1>2, RequestHasType DEF IInv, Types, Current
  <2>2. /\ x \in RequestType /\ x.at = "select"
        /\ x.window = requests[r].window /\ x.late = requests[r].late
        /\ x.alone = requests[r].alone
    BY <2>1 DEF RequestType, Steps
  <2>3. requests' = [requests EXCEPT ![r] = x] /\ UNCHANGED <<drafts, draft_sequences>>
    BY <1>2 DEF Current
  <2> HIDE DEF x
  <2> QED
    BY <2>1, <2>2, <2>3, PassedGone DEF Steps, SaveSteps
<1>3. CASE CheckClear(r)
  BY <1>3, PlaceGone DEF CheckClear, Steps
<1>4. CASE Destroy(r)
  BY <1>4, PlaceGone DEF Destroy, Steps
<1>5. CASE Kill(r)
  <2>1. requests[r].at \in Steps
    BY <1>5, RunningSteps DEF Kill, IInv
  <2> QED
    BY <1>5, <2>1, PlaceGone DEF Kill, GoOn
<1> QED
  BY <1>1, <1>2, <1>3, <1>4, <1>5

\* Request r moves the sequence, or has stored its text.
LEMMA MovedCounts ==
  ASSUME IInv, IInv', NEW r \in DOMAIN requests, requests[r].at \in Steps,
         DOMAIN requests' = DOMAIN requests,
         \A q \in DOMAIN requests \ {r} : requests'[q] = requests[q],
         requests'[r].at \in {"upsert", "update", "saved", "posted"}
  PROVE  /\ Cardinality(Used) \in Nat /\ Cardinality(Used') \in Nat
         /\ Cardinality(Used) <= Cardinality(Used')
         /\ requests[r].at \in {"select", "next"} => Cardinality(Used) + 1 <= Cardinality(Used')
         /\ Cardinality(Stored) \in Nat /\ Cardinality(Stored') \in Nat
         /\ Cardinality(Stored) <= Cardinality(Stored')
         /\ requests'[r].at = "saved" => Cardinality(Stored) + 1 <= Cardinality(Stored')
         /\ Stored \subseteq Stored' /\ r \notin Stored
<1>1. IsFiniteSet(Used') /\ IsFiniteSet(Stored')
  <2>1. requests' \in Seq(RequestType) /\ Used' \subseteq DOMAIN requests' /\ Stored' \subseteq DOMAIN requests'
    BY DEF IInv, Types, Used, Stored
  <2> QED
    BY <2>1, RequestsFinite
<1>2. Used \subseteq Used' /\ (requests[r].at \in {"select", "next"} => r \in Used' \ Used)
  BY DEF Used
<1>3. Stored \subseteq Stored' /\ r \notin Stored /\ (requests'[r].at = "saved" => r \in Stored')
  BY DEF Stored, Steps
<1> QED
  BY <1>1, <1>2, <1>3, Grows

\* The number of a request is the text of the draft only once it is saved.
LEMMA StoredData ==
  ASSUME IInv, GInv
  PROVE  /\ drafts.data \in DOMAIN requests => drafts.data \in Stored
         /\ \A r \in DOMAIN requests : 1 .. r - 1 \subseteq DOMAIN requests
<1>1. /\ DOMAIN requests = 1 .. Len(requests) /\ Len(requests) \in Nat
      /\ Len(requests) <= MaxRequests
  BY RequestsFinite DEF IInv, Types, GInv, KnownTexts
<1> QED
  BY <1>1, DraftsAssumption DEF GInv, KnownTexts, Old

\* What was read of the sequence comes with one more request that moves it.
LEMMA SelectGone ==
  ASSUME IInv, GInv, IInv', NEW r \in DOMAIN requests, Select(r)
  PROVE  GInv'
<1>1. /\ requests[r] \in RequestType /\ draft_sequences \in Nat
      /\ requests[r].sequence \in Nat /\ requests[r].at = "select"
      /\ drafts \in [id : Nat, sequence : Nat, data : Nat, revisions : Nat]
  BY RequestHasType DEF IInv, Types, Select, RequestType
<1>2. UNCHANGED <<drafts, draft_sequences>>
  BY DEF Select
<1>3. CASE Accepted(r) /\ HasDraft /\ requests' = [requests EXCEPT
             ![r].at = "upsert", ![r].draft_id = drafts.id, ![r].sequence = Following(r)]
  <2> DEFINE x == [requests[r] EXCEPT !.at = "upsert", !.draft_id = drafts.id,
                                      !.sequence = Following(r)]
  <2>1. Following(r) = draft_sequences + 1 /\ Following(r) \in Nat
    BY <1>1, <1>3 DEF Following, Accepted, Forced
  <2>2. /\ x \in RequestType /\ x.at = "upsert" /\ x.sequence = Following(r)
        /\ x.window = requests[r].window /\ x.late = requests[r].late
        /\ x.alone = requests[r].alone
    BY <1>1, <2>1 DEF RequestType, Steps
  <2>3. requests' = [requests EXCEPT ![r] = x]
    BY <1>3
  <2> HIDE DEF x
  <2>4. /\ NoneLater'
        /\ Len(requests') = Len(requests) /\ DOMAIN requests' = DOMAIN requests
        /\ \A q \in DOMAIN requests : requests'[q] = IF q = r THEN x ELSE requests[q]
    BY <1>1, <2>2, <2>3, ServedAlone DEF Steps, SaveSteps
  <2>5. /\ Cardinality(Used) \in Nat /\ Cardinality(Used') \in Nat
        /\ Cardinality(Used) + 1 <= Cardinality(Used')
        /\ Cardinality(Stored) \in Nat /\ Cardinality(Stored') \in Nat
        /\ Cardinality(Stored) <= Cardinality(Stored')
        /\ Stored \subseteq Stored' /\ r \notin Stored
    BY <1>1, <2>2, <2>4, MovedCounts DEF Steps
  <2>6. KnownTexts'
    BY <1>2, <2>4, <2>5 DEF GInv, KnownTexts, Old
  <2>7. Counted'
    <3>1. \A q \in DOMAIN requests : requests[q].sequence \in Nat
      BY RequestHasType DEF IInv, Types, RequestType
    <3>2. /\ draft_sequences' <= 1 + Cardinality(Used')
          /\ drafts'.sequence <= 1 + Cardinality(Used')
          /\ drafts'.revisions <= 2 + Cardinality(Stored')
      BY <1>1, <1>2, <2>5 DEF GInv, Counted
    <3>3. x.sequence <= 1 + Cardinality(Used')
      BY <1>1, <2>1, <2>2, <2>5 DEF GInv, Counted
    <3>4. ASSUME NEW q \in DOMAIN requests \ {r}, requests[q].at \in {"upsert", "update", "insert"}
          PROVE  requests[q].sequence <= 1 + Cardinality(Used')
      BY <2>5, <3>1, <3>4 DEF GInv, Counted
    <3> QED
      BY <2>4, <3>2, <3>3, <3>4 DEF Counted
  <2>8. drafts.data \in DOMAIN requests => drafts.data # r
    BY <2>5, StoredData
  <2>9. NotAhead'
    BY <1>1, <1>2, <2>1, <2>2, <2>4, <2>8 DEF GInv, NotAhead
  <2>10. PostedDraftGone'
    BY <1>1, <1>2, <2>2, <2>4, <2>8, StoredData DEF GInv, PostedDraftGone
  <2> QED
    BY <2>4, <2>6, <2>7, <2>9, <2>10 DEF GInv
<1>4. ASSUME NEW step \in {"insert", "conflict", "exists"}, GoOn(r, step),
             step = "insert" => requests[r].sequence = draft_sequences
      PROVE  GInv'
  BY <1>1, <1>2, <1>4, PlaceGone DEF Steps, SaveSteps
<1> QED
  BY <1>3, <1>4 DEF Select, Accepted

\* The sequence a save writes is greater than that of the draft it replaces.
LEMMA UpsertGone ==
  ASSUME IInv, GInv, IInv', NEW r \in DOMAIN requests, Upsert(r)
  PROVE  GInv'
<1> DEFINE x == [requests[r] EXCEPT !.at = "update"]
<1>1. /\ requests[r] \in RequestType /\ draft_sequences \in Nat /\ requests[r].at = "upsert"
      /\ drafts \in [id : Nat, sequence : Nat, data : Nat, revisions : Nat]
      /\ \A q \in DOMAIN requests : requests[q].sequence \in Nat
  BY RequestHasType DEF IInv, Types, Upsert, RequestType
<1>2. /\ x \in RequestType /\ x.at = "update" /\ x.sequence = requests[r].sequence
      /\ x.window = requests[r].window /\ x.late = requests[r].late
      /\ x.alone = requests[r].alone
  BY <1>1 DEF RequestType, Steps
<1>3. requests' = [requests EXCEPT ![r] = x]
  BY DEF Upsert, GoOn
<1> HIDE DEF x
<1>4. UNCHANGED drafts /\ draft_sequences' = requests[r].sequence
  BY DEF Upsert
<1>5. /\ NoneLater'
      /\ Len(requests') = Len(requests) /\ DOMAIN requests' = DOMAIN requests
      /\ \A q \in DOMAIN requests : requests'[q] = IF q = r THEN x ELSE requests[q]
  BY <1>1, <1>2, <1>3, ServedAlone DEF Steps, SaveSteps
<1>6. /\ Cardinality(Used) \in Nat /\ Cardinality(Used') \in Nat
      /\ Cardinality(Used) <= Cardinality(Used')
      /\ Cardinality(Stored) \in Nat /\ Cardinality(Stored') \in Nat
      /\ Cardinality(Stored) <= Cardinality(Stored')
      /\ Stored \subseteq Stored' /\ r \notin Stored
  BY <1>1, <1>2, <1>5, MovedCounts DEF Steps
<1>7. KnownTexts'
  BY <1>4, <1>5, <1>6 DEF GInv, KnownTexts, Old
<1>8. Counted'
  <2>1. /\ draft_sequences' <= 1 + Cardinality(Used')
        /\ drafts'.sequence <= 1 + Cardinality(Used')
        /\ drafts'.revisions <= 2 + Cardinality(Stored')
    BY <1>1, <1>4, <1>6 DEF GInv, Counted
  <2>2. ASSUME NEW q \in DOMAIN requests, requests'[q].at \in {"upsert", "update", "insert"}
        PROVE  requests'[q].sequence <= 1 + Cardinality(Used')
    <3>1. requests[q].at \in {"upsert", "update", "insert"} /\ requests'[q].sequence = requests[q].sequence
      BY <1>1, <1>2, <1>5, <2>2
    <3>2. requests[q].sequence <= 1 + Cardinality(Used)
      BY <3>1 DEF GInv, Counted
    <3>3. requests[q].sequence \in Nat
      BY <1>1
    <3> QED
      BY <1>6, <3>1, <3>2, <3>3
  <2> QED
    BY <1>5, <2>1, <2>2 DEF Counted
<1>9. drafts.data \in DOMAIN requests => drafts.data # r
  BY <1>6, StoredData
<1>10. NotAhead'
  BY <1>1, <1>2, <1>4, <1>5, <1>9 DEF GInv, NotAhead
<1>11. PostedDraftGone'
  BY <1>2, <1>4, <1>5, <1>9, StoredData DEF GInv, PostedDraftGone
<1> QED
  BY <1>5, <1>7, <1>8, <1>10, <1>11 DEF GInv

\* A save that is alone when it stores its text has the sequence of the row, and
\* nothing its window sent later was served.
LEMMA StoreGone ==
  ASSUME IInv, GInv, IInv', NEW r \in DOMAIN requests, requests[r].at \in {"update", "insert"},
         NEW x \in RequestType, requests' = [requests EXCEPT ![r] = x], x.at = "saved",
         x.window = requests[r].window, x.late = requests[r].late, x.alone = requests[r].alone,
         UNCHANGED draft_sequences,
         \/ UNCHANGED drafts
         \/ /\ drafts'.id \in {drafts.id, r} /\ drafts'.data = r
            /\ drafts'.sequence = requests[r].sequence
            /\ drafts'.revisions = drafts.revisions + 1
  PROVE  GInv'
<1>1. /\ requests[r] \in RequestType /\ draft_sequences \in Nat
      /\ drafts \in [id : Nat, sequence : Nat, data : Nat, revisions : Nat]
      /\ \A q \in DOMAIN requests : requests[q].sequence \in Nat
  BY RequestHasType DEF IInv, Types, RequestType
<1>2. /\ NoneLater'
      /\ Len(requests') = Len(requests) /\ DOMAIN requests' = DOMAIN requests
      /\ \A q \in DOMAIN requests : requests'[q] = IF q = r THEN x ELSE requests[q]
  BY <1>1, ServedAlone DEF Steps, SaveSteps
<1>3. /\ Cardinality(Used) \in Nat /\ Cardinality(Used') \in Nat
      /\ Cardinality(Used) <= Cardinality(Used')
      /\ Cardinality(Stored) \in Nat /\ Cardinality(Stored') \in Nat
      /\ Cardinality(Stored) + 1 <= Cardinality(Stored')
      /\ Stored \subseteq Stored' /\ r \notin Stored
  BY <1>1, <1>2, MovedCounts DEF Steps
<1>4. r \in Stored'
  BY <1>2 DEF Stored
<1>5. KnownTexts'
  BY <1>2, <1>3, <1>4 DEF GInv, KnownTexts, Old
<1>6. Counted'
  <2>1. /\ draft_sequences' <= 1 + Cardinality(Used')
        /\ drafts'.sequence <= 1 + Cardinality(Used')
        /\ drafts'.revisions <= 2 + Cardinality(Stored')
    BY <1>1, <1>3 DEF GInv, Counted
  <2>2. ASSUME NEW q \in DOMAIN requests, requests'[q].at \in {"upsert", "update", "insert"}
        PROVE  requests'[q].sequence <= 1 + Cardinality(Used')
    <3>1. requests[q].at \in {"upsert", "update", "insert"} /\ requests'[q].sequence = requests[q].sequence
      BY <1>1, <1>2, <2>2
    <3>2. requests[q].sequence <= 1 + Cardinality(Used)
      BY <3>1 DEF GInv, Counted
    <3>3. requests[q].sequence \in Nat
      BY <1>1
    <3> QED
      BY <1>3, <3>1, <3>2, <3>3
  <2> QED
    BY <1>2, <2>1, <2>2 DEF Counted
<1>7. CASE UNCHANGED drafts
  <2>1. drafts.data \in DOMAIN requests => drafts.data # r
    BY <1>3, StoredData
  <2>2. NotAhead'
    BY <1>2, <1>7, <2>1 DEF GInv, NotAhead
  <2>3. PostedDraftGone'
    BY <1>2, <1>7, <2>1, StoredData DEF GInv, PostedDraftGone
  <2> QED
    BY <1>2, <1>5, <1>6, <2>2, <2>3 DEF GInv
<1>8. CASE drafts'.data = r /\ drafts'.sequence = requests[r].sequence
  <2>1. NotAhead'
    <3> SUFFICES ASSUME requests[r].alone
                 PROVE  /\ drafts'.sequence <= draft_sequences'
                        /\ \A q \in DOMAIN requests :
                             requests'[q].at = "upsert" => drafts'.sequence < requests'[q].sequence
      BY <1>2, <1>8 DEF NotAhead
    <3>1. requests[r].sequence = draft_sequences
      BY DEF IInv, NothingChanged
    <3>2. \A q \in DOMAIN requests : requests[q].at \in Steps => q = r
      BY RunningSteps DEF IInv, AloneIsAlone, SaveSteps
    <3>3. \A q \in DOMAIN requests : requests'[q].at # "upsert"
      BY <1>2, <3>2 DEF Steps
    <3> QED
      BY <1>1, <1>8, <3>1, <3>3
  <2>2. PostedDraftGone'
    <3> SUFFICES ASSUME NEW q \in DOMAIN requests, requests'[q].at = "posted", r \in 1 .. q - 1,
                        requests'[r].window = requests'[q].window, ~x.late, x.alone
                 PROVE  FALSE
      BY <1>2, <1>8 DEF PostedDraftGone
    <3>1. q \in Nat /\ r \in Nat
      BY RequestsFinite DEF IInv, Types
    <3>2. r < q /\ requests[q].at = "posted" /\ requests[q].window = requests[r].window
      BY <1>2, <3>1
    <3> QED
      BY <3>2 DEF GInv, NoneLater, SaveSteps
  <2> QED
    BY <1>2, <1>5, <1>6, <2>1, <2>2 DEF GInv
<1> QED
  BY <1>7, <1>8

LEMMA WriteGone ==
  ASSUME IInv, GInv, IInv', NEW r \in DOMAIN requests, Update(r) \/ Insert(r)
  PROVE  GInv'
<1>1. /\ requests[r] \in RequestType
      /\ drafts \in [id : Nat, sequence : Nat, data : Nat, revisions : Nat]
  BY RequestHasType DEF IInv, Types
<1>2. CASE Update(r)
  <2> DEFINE x == [requests[r] EXCEPT !.at = "saved", !.draft_id = 0]
  <2>1. /\ x \in RequestType /\ x.at = "saved"
        /\ x.window = requests[r].window /\ x.late = requests[r].late
        /\ x.alone = requests[r].alone
    BY <1>1 DEF RequestType, Ended, Answered
  <2>2. requests' = [requests EXCEPT ![r] = x]
    BY <1>2 DEF Update
  <2> HIDE DEF x
  <2>3. UNCHANGED drafts \/ (/\ drafts'.id = drafts.id /\ drafts'.data = r
                             /\ drafts'.sequence = requests[r].sequence
                             /\ drafts'.revisions = drafts.revisions + 1)
    BY <1>1, <1>2 DEF Update, Written
  <2> QED
    BY <1>2, <2>1, <2>2, <2>3, StoreGone DEF Update
<1>3. CASE Insert(r)
  <2> DEFINE x == [requests[r] EXCEPT !.at = "saved"]
  <2>1. /\ x \in RequestType /\ x.at = "saved"
        /\ x.window = requests[r].window /\ x.late = requests[r].late
        /\ x.alone = requests[r].alone
    BY <1>1 DEF RequestType, Ended, Answered
  <2>2. requests' = [requests EXCEPT ![r] = x]
    BY <1>3 DEF Insert, GoOn
  <2> HIDE DEF x
  <2>3. /\ drafts'.id \in {drafts.id, r} /\ drafts'.data = r
        /\ drafts'.sequence = requests[r].sequence
        /\ drafts'.revisions = drafts.revisions + 1
    BY <1>3 DEF Insert
  <2> QED
    BY <1>3, <2>1, <2>2, <2>3, StoreGone DEF Insert
<1> QED
  BY <1>2, <1>3

\* The draft that outlives a post is ahead of the sequence.
LEMMA PostGone ==
  ASSUME IInv, GInv, IInv', NEW r \in DOMAIN requests, NextSequence(r)
  PROVE  GInv'
<1> DEFINE x == [requests[r] EXCEPT !.at = "posted"]
<1>1. /\ requests[r] \in RequestType /\ draft_sequences \in Nat /\ requests[r].at = "next"
      /\ drafts \in [id : Nat, sequence : Nat, data : Nat, revisions : Nat]
      /\ \A q \in DOMAIN requests : requests[q].sequence \in Nat
  BY RequestHasType DEF IInv, Types, NextSequence, RequestType
<1>2. /\ x \in RequestType /\ x.at = "posted"
      /\ x.window = requests[r].window /\ x.late = requests[r].late
      /\ x.alone = requests[r].alone
  BY <1>1 DEF RequestType, Ended, Answered
<1>3. requests' = [requests EXCEPT ![r] = x]
  BY DEF NextSequence, GoOn
<1> HIDE DEF x
<1>4. /\ draft_sequences' = draft_sequences + 1
      /\ drafts' = IF drafts.sequence < draft_sequences + 1 THEN NoDraft ELSE drafts
  BY DEF NextSequence, Advanced, Superseded
<1>5. /\ NoneLater'
      /\ Len(requests') = Len(requests) /\ DOMAIN requests' = DOMAIN requests
      /\ \A q \in DOMAIN requests : requests'[q] = IF q = r THEN x ELSE requests[q]
  BY <1>1, <1>2, <1>3, ServedAlone DEF Steps, SaveSteps
<1>6. /\ Cardinality(Used) \in Nat /\ Cardinality(Used') \in Nat
      /\ Cardinality(Used) + 1 <= Cardinality(Used')
      /\ Cardinality(Stored) \in Nat /\ Cardinality(Stored') \in Nat
      /\ Cardinality(Stored) <= Cardinality(Stored')
      /\ Stored \subseteq Stored' /\ r \notin Stored
  BY <1>1, <1>2, <1>5, MovedCounts DEF Steps
<1>7. KnownTexts'
  BY <1>4, <1>5, <1>6 DEF GInv, KnownTexts, Old, NoDraft
<1>8. Counted'
  <2>1. /\ draft_sequences' <= 1 + Cardinality(Used')
        /\ drafts'.sequence <= 1 + Cardinality(Used')
        /\ drafts'.revisions <= 2 + Cardinality(Stored')
    BY <1>1, <1>4, <1>6 DEF GInv, Counted, NoDraft
  <2>2. ASSUME NEW q \in DOMAIN requests, requests'[q].at \in {"upsert", "update", "insert"}
        PROVE  requests'[q].sequence <= 1 + Cardinality(Used')
    <3>1. requests[q].at \in {"upsert", "update", "insert"} /\ requests'[q].sequence = requests[q].sequence
      BY <1>1, <1>2, <1>5, <2>2
    <3>2. requests[q].sequence <= 1 + Cardinality(Used)
      BY <3>1 DEF GInv, Counted
    <3>3. requests[q].sequence \in Nat
      BY <1>1
    <3> QED
      BY <1>6, <3>1, <3>2, <3>3
  <2> QED
    BY <1>5, <2>1, <2>2 DEF Counted
<1>9. ASSUME drafts'.data \in DOMAIN requests PROVE ~requests'[drafts'.data].alone
  <2>1. 0 \notin DOMAIN requests
    BY RequestsFinite DEF IInv, Types
  <2>2. drafts' = drafts /\ ~(drafts.sequence < draft_sequences + 1)
    BY <1>4, <1>9, <2>1 DEF NoDraft
  <2>3. drafts.data # r
    BY <1>6, <1>9, <2>2, StoredData
  <2>4. ~requests[drafts.data].alone
    BY <1>1, <1>9, <2>2 DEF GInv, NotAhead
  <2> QED
    BY <1>5, <1>9, <2>2, <2>3, <2>4
<1>10. NotAhead'
  BY <1>5, <1>9 DEF NotAhead
<1>11. PostedDraftGone'
  BY <1>5, <1>9, StoredData DEF PostedDraftGone
<1> QED
  BY <1>5, <1>7, <1>8, <1>10, <1>11 DEF GInv

LEMMA InitGInv == Init => GInv
<1> SUFFICES ASSUME Init PROVE GInv
  OBVIOUS
<1>1. /\ MaxRequests \in Nat /\ Old \in Nat /\ DOMAIN requests = {} /\ Len(requests) = 0
      /\ drafts \in {NoDraft, [id |-> Old, sequence |-> 1, data |-> Old, revisions |-> 2]}
      /\ draft_sequences \in {0, 1}
  BY DraftsAssumption DEF Init, Old
<1>2. Used = {} /\ Stored = {} /\ Cardinality(Used) = 0 /\ Cardinality(Stored) = 0
  BY <1>1, FS_EmptySet DEF Used, Stored
<1>3. KnownTexts
  BY <1>1, <1>2 DEF KnownTexts, NoDraft
<1>4. Counted
  BY <1>1, <1>2 DEF Counted, NoDraft
<1> QED
  BY <1>1, <1>3, <1>4 DEF GInv, NotAhead, NoneLater, PostedDraftGone

LEMMA NextGInv == IInv /\ GInv /\ IInv' /\ [Next]_vars => GInv'
<1> SUFFICES ASSUME IInv, GInv, IInv', [Next]_vars PROVE GInv'
  OBVIOUS
<1>1. CASE UNCHANGED vars
  BY <1>1 DEF vars, GInv, KnownTexts, Counted, NotAhead, NoneLater, PostedDraftGone, Used, Stored
<1>2. ASSUME NEW r \in DOMAIN requests, Server(r) PROVE GInv'
  BY <1>2, StartGone, SelectGone, UpsertGone, WriteGone, PassingGone, PostGone DEF Server
<1> QED
  BY <1>1, <1>2, BrowserGone, CleanupGone DEF Next

LEMMA SpecGInv == Spec => [](IInv /\ GInv)
<1>1. Init => IInv /\ GInv
  BY InitIInv, InitGInv
<1>2. IInv /\ GInv /\ [Next]_vars => (IInv /\ GInv)'
  BY NextIInv, NextGInv
<1> QED
  BY <1>1, <1>2, PTL DEF Spec

\* Once a window has posted, what it sent before is no draft any more, unless its
\* save was served beside something else or after the post: next! destroys
\* every draft that is not ahead of the sequence (draft_sequence.rb:23).
THEOREM PostingEndsDraft == Spec => []PostedDraftGone
BY SpecGInv, PTL DEF GInv

\* The sequence and the revisions grow by at most one with each request, and the
\* ids and texts are those of requests (draft.rb:50-94, draft_sequence.rb:5-30).
THEOREM DraftsTypeCorrect == Spec => []TypeOK
<1>1. IInv /\ GInv => TypeOK
  <2> SUFFICES ASSUME IInv, GInv PROVE TypeOK
    OBVIOUS
  <2>1. /\ DOMAIN requests = 1 .. Len(requests) /\ Len(requests) \in Nat
        /\ Len(requests) <= MaxRequests /\ MaxRequests \in Nat
        /\ Cardinality(Used) \in Nat /\ Cardinality(Used) <= Len(requests)
        /\ Cardinality(Stored) \in Nat /\ Cardinality(Stored) <= Len(requests)
        /\ Stored \subseteq DOMAIN requests
    <3>1. Used \subseteq DOMAIN requests /\ Stored \subseteq DOMAIN requests
      BY DEF Used, Stored
    <3> QED
      BY <3>1, RequestsFinite, DraftsAssumption DEF IInv, Types, GInv, KnownTexts
  <2>2. /\ drafts \in [id : Nat, sequence : Nat, data : Nat, revisions : Nat]
        /\ draft_sequences \in Nat
    BY DEF IInv, Types
  <2>3. draft_sequences \in 0 .. SequenceBound /\ drafts.sequence \in 0 .. SequenceBound
    BY <2>1, <2>2 DEF GInv, Counted, SequenceBound
  <2>4. drafts.revisions \in 0 .. MaxRequests + 2
    BY <2>1, <2>2 DEF GInv, Counted
  <2>5. drafts.id \in Texts /\ drafts.data \in Texts
    BY <2>1, <2>2 DEF GInv, KnownTexts, Texts, Old
  <2>6. drafts \in [id : Texts, sequence : 0 .. SequenceBound, data : Texts,
                    revisions : 0 .. MaxRequests + 2]
    BY <2>2, <2>3, <2>4, <2>5
  <2>7. \A w \in Windows : composers[w].saving \in 0 .. Len(requests)
    BY <2>1 DEF IInv, Types, ComposerType
  <2>8. \A r \in DOMAIN requests : requests[r].window \in Windows
    BY RequestHasType DEF IInv, Types, RequestType
  <2> QED
    BY <2>3, <2>6, <2>7, <2>8 DEF TypeOK
<1> QED
  BY <1>1, SpecGInv, PTL

-----------------------------------------------------------------------------
(* What a window knows of the draft it overwrites *)

\* A save has moved the sequence and not stored its text yet.
Pending == \E r \in DOMAIN requests : requests[r].at = "update"

Seen(w, base) ==
  \/ drafts.data = base
  \/ drafts.data \in DOMAIN requests /\ requests[drafts.data].window = w

\* A save of window w with sequence c is refused, or it meets a draft that the
\* window has loaded or sent, or that was saved only once.
UpToDate(w, base, c) ==
  /\ c <= draft_sequences
  /\ Pending => c < draft_sequences
  /\ c = draft_sequences /\ drafts.data # 0 /\ drafts.revisions # 1 => Seen(w, base)

\* The sequences with which a window saves, is saving, or will save once it has
\* its answer, as long as none of its saves failed.
IsView(w, base, c) ==
  \/ /\ composers[w].open /\ composers[w].draftStatus = "none" /\ composers[w].saving = 0
     /\ base = composers[w].loaded /\ c = composers[w].draftSequence
  \/ \E r \in DOMAIN requests :
       /\ IsSave(r) /\ requests[r].status = "none"
       /\ requests[r].at = "sent" \/ (requests[r].at = "select" /\ ~requests[r].retried)
       /\ w = requests[r].window /\ base = requests[r].base /\ c = requests[r].sequence
  \/ \E r \in DOMAIN requests :
       /\ requests[r].at = "saved"
       /\ w = requests[r].window /\ base = 0 /\ c = requests[r].sequence

ViewsUpToDate ==
  \A w \in Windows, base \in Nat, c \in Nat : IsView(w, base, c) => UpToDate(w, base, c)

\* So it is while requests are served one at a time and in order.
InStep ==
  /\ ~Pending /\ drafts.data # 0 => drafts.sequence = draft_sequences
  /\ ViewsUpToDate
  /\ \A r \in DOMAIN requests :
       /\ requests[r].at \in {"upsert", "update"} /\ requests[r].status = "none" /\ ~requests[r].force =>
            (drafts.data # 0 /\ drafts.revisions # 1 => Seen(requests[r].window, requests[r].base))
       /\ requests[r].at \in {"insert", "current"} \/ (requests[r].at = "select" /\ requests[r].retried) =>
            ~HasDraft

Kept ==
  /\ faults \in [losses : Nat, kills : Nat]
  /\ \A r \in DOMAIN requests :
       requests[r].at = "sent" => requests[r].alone /\ ~requests[r].late /\ ~requests[r].retried
  /\ \A w \in Windows : composers[w].saving # 0 => requests[composers[w].saving].window = w

OInv == Kept /\ (Orderly => InStep)

LEMMA SavingIsRequest ==
  ASSUME IInv, NEW w \in Windows, composers[w].saving # 0
  PROVE  composers[w].saving \in DOMAIN requests
<1>1. DOMAIN requests = 1 .. Len(requests) /\ Len(requests) \in Nat
  BY RequestsFinite DEF IInv, Types
<1>2. composers[w] \in ComposerType /\ composers[w].saving <= Len(requests)
  BY DEF IInv, Types
<1>3. composers[w].saving \in Nat
  BY <1>2 DEF ComposerType
<1> QED
  BY <1>1, <1>2, <1>3

LEMMA UpToDateStep ==
  ASSUME IInv, IInv', NEW w \in Windows, NEW base \in Nat, NEW c \in Nat, UpToDate(w, base, c),
         DOMAIN requests \subseteq DOMAIN requests',
         \A q \in DOMAIN requests : requests'[q].window = requests[q].window,
         \/ UNCHANGED draft_sequences /\ drafts' \in {drafts, NoDraft} /\ (Pending' => Pending)
         \/ draft_sequences' > draft_sequences
         \/ UNCHANGED draft_sequences /\ drafts'.revisions = 1 /\ ~Pending'
         \/ UNCHANGED draft_sequences /\ Pending /\ ~Pending'
  PROVE  UpToDate(w, base, c)'
<1>1. draft_sequences \in Nat /\ draft_sequences' \in Nat
  BY DEF IInv, Types
<1> QED
  BY <1>1 DEF UpToDate, Seen, NoDraft

LEMMA InitOInv == Init => OInv
<1> SUFFICES ASSUME Init PROVE OInv
  OBVIOUS
<1>1. /\ DOMAIN requests = {} /\ \A w \in Windows : composers[w] = Closed
      /\ ~Pending /\ (drafts.data # 0 => drafts.sequence = draft_sequences)
  BY DEF Init, Pending, NoDraft
<1>2. Kept
  BY <1>1 DEF Init, Kept, Closed
<1>3. InStep
  BY <1>1 DEF InStep, ViewsUpToDate, IsView, Closed
<1> QED
  BY <1>2, <1>3 DEF OInv

\* A step that serves nobody and starts no request, in an orderly run.
LEMMA IdleInStep ==
  ASSUME IInv, OInv, IInv', Kept', Orderly' => Orderly,
         UNCHANGED draft_sequences, drafts' \in {drafts, NoDraft},
         DOMAIN requests \subseteq DOMAIN requests',
         Orderly' => \A q \in DOMAIN requests :
                       requests'[q] = requests[q] \/ (requests[q].at = "sent" /\ requests'[q].at = "lost"),
         \A q \in DOMAIN requests : requests'[q].window = requests[q].window,
         \A q \in DOMAIN requests' \ DOMAIN requests : requests'[q].at = "sent",
         Orderly' => \A w \in Windows, base \in Nat, c \in Nat :
                       IsView(w, base, c)' => UpToDate(w, base, c)
  PROVE  OInv'
<1> SUFFICES ASSUME Orderly' PROVE InStep'
  BY DEF OInv
<1>1. InStep
  BY DEF OInv
<1>2. Pending' <=> Pending
  BY DEF Pending
<1>3. ViewsUpToDate'
  <2> SUFFICES ASSUME NEW w \in Windows, NEW base \in Nat, NEW c \in Nat, IsView(w, base, c)'
               PROVE  UpToDate(w, base, c)'
    BY DEF ViewsUpToDate
  <2>1. UpToDate(w, base, c)
    OBVIOUS
  <2> QED
    BY <1>2, <2>1, UpToDateStep
<1>4. ~Pending' /\ drafts'.data # 0 => drafts'.sequence = draft_sequences'
  BY <1>1, <1>2 DEF InStep, NoDraft
<1>5. ASSUME NEW r \in DOMAIN requests'
      PROVE  /\ requests'[r].at \in {"upsert", "update"} /\ requests'[r].status = "none" /\ ~requests'[r].force =>
                  (drafts'.data # 0 /\ drafts'.revisions # 1 => Seen(requests[r].window, requests[r].base)')
             /\ requests'[r].at \in {"insert", "current"} \/ (requests'[r].at = "select" /\ requests'[r].retried) =>
                  ~HasDraft'
  <2>1. CASE r \in DOMAIN requests /\ requests'[r] = requests[r]
    BY <1>1, <2>1 DEF InStep, Seen, HasDraft, NoDraft
  <2>2. CASE requests'[r].at \in {"sent", "lost"}
    BY <2>2
  <2> QED
    BY <2>1, <2>2
<1> QED
  BY <1>3, <1>4, <1>5 DEF InStep

\* What a window sends is what it would have sent before.
LEMMA SendInStep ==
  ASSUME IInv, OInv, IInv', NEW w \in Windows, NEW request \in RequestType,
         request.window = w, request.at = "sent",
         request.alone, ~request.late, ~request.retried,
         Send(request), UNCHANGED <<drafts, draft_sequences, faults>>,
         NEW c \in ComposerType, composers' = [composers EXCEPT ![w] = c],
         \/ c.saving = composers[w].saving
         \/ c.saving = Len(requests) + 1,
         c.open = composers[w].open, c.draftStatus = composers[w].draftStatus,
         c.loaded = composers[w].loaded,
         c.saving = composers[w].saving => c.draftSequence = composers[w].draftSequence,
         request.first = "select" =>
           /\ composers[w].open /\ composers[w].saving = 0
           /\ request.status = composers[w].draftStatus
           /\ request.base = composers[w].loaded /\ request.sequence = composers[w].draftSequence
  PROVE  OInv'
<1>1. /\ DOMAIN requests = 1 .. Len(requests) /\ Len(requests) \in Nat
      /\ DOMAIN requests' = 1 .. Len(requests) + 1
      /\ requests'[Len(requests) + 1] = request
      /\ \A q \in DOMAIN requests : requests'[q] = requests[q]
  BY RequestsFinite DEF Send, IInv, Types
<1>2. /\ composers'[w] = c
      /\ \A v \in Windows \ {w} : composers'[v] = composers[v]
      /\ \A v \in Windows : composers[v].saving <= Len(requests) /\ composers[v].saving \in Nat
  BY DEF IInv, Types, ComposerType
<1>3. Kept'
  <2>1. ASSUME NEW v \in Windows, composers'[v].saving # 0
        PROVE  requests'[composers'[v].saving].window = v
    <3>1. CASE v = w /\ c.saving = Len(requests) + 1
      BY <1>1, <1>2, <3>1
    <3>2. CASE composers'[v].saving = composers[v].saving
      <4>1. composers[v].saving \in DOMAIN requests
        BY <1>1, <1>2, <2>1, <3>2
      <4> QED
        BY <1>1, <2>1, <3>2, <4>1 DEF OInv, Kept
    <3> QED
      BY <1>2, <3>1, <3>2
  <2>2. \A q \in DOMAIN requests' :
          requests'[q].at = "sent" => requests'[q].alone /\ ~requests'[q].late /\ ~requests'[q].retried
    <3>1. \A q \in DOMAIN requests' : q \in DOMAIN requests \/ q = Len(requests) + 1
      BY <1>1
    <3> QED
      BY <1>1, <3>1 DEF OInv, Kept
  <2> QED
    BY <2>1, <2>2 DEF OInv, Kept
<1>4. Orderly' => Orderly
  BY <1>1 DEF Orderly
<1>5. ASSUME Orderly', NEW v \in Windows, NEW base \in Nat, NEW d \in Nat, IsView(v, base, d)'
      PROVE  UpToDate(v, base, d)
  <2>1. IsView(v, base, d)
    <3>1. CASE /\ composers'[v].open /\ composers'[v].draftStatus = "none"
               /\ composers'[v].saving = 0
               /\ base = composers'[v].loaded /\ d = composers'[v].draftSequence
      BY <1>1, <1>2, <3>1 DEF IsView
    <3>2. ASSUME NEW r \in DOMAIN requests',
                 requests'[r].first = "select", requests'[r].status = "none",
                 requests'[r].at = "sent" \/ (requests'[r].at = "select" /\ ~requests'[r].retried),
                 v = requests'[r].window, base = requests'[r].base, d = requests'[r].sequence
          PROVE  IsView(v, base, d)
      <4>1. CASE r \in DOMAIN requests
        BY <1>1, <3>2, <4>1 DEF IsView, IsSave
      <4>2. CASE r = Len(requests) + 1
        BY <1>1, <3>2, <4>2 DEF IsView
      <4> QED
        BY <1>1, <4>1, <4>2
    <3>3. ASSUME NEW r \in DOMAIN requests', requests'[r].at = "saved",
                 v = requests'[r].window, base = 0, d = requests'[r].sequence
          PROVE  IsView(v, base, d)
      <4>1. r \in DOMAIN requests
        BY <1>1, <3>3
      <4> QED
        BY <1>1, <3>3, <4>1 DEF IsView
    <3> QED
      BY <1>5, <3>1, <3>2, <3>3 DEF IsView, IsSave
  <2> QED
    BY <1>4, <1>5, <2>1 DEF OInv, InStep, ViewsUpToDate
<1>6. /\ DOMAIN requests \subseteq DOMAIN requests'
      /\ \A q \in DOMAIN requests : requests'[q].window = requests[q].window
      /\ \A q \in DOMAIN requests' \ DOMAIN requests : requests'[q].at = "sent"
  BY <1>1
<1> QED
  BY <1>1, <1>3, <1>4, <1>5, <1>6, IdleInStep

\* A composer changes, and a request may be lost.
LEMMA ComposerInStep ==
  ASSUME IInv, OInv, IInv', NEW w \in Windows, NEW c \in ComposerType,
         composers' = [composers EXCEPT ![w] = c], c.saving \in {0, composers[w].saving},
         Orderly /\ c.open /\ c.draftStatus = "none" /\ c.saving = 0 =>
           UpToDate(w, c.loaded, c.draftSequence),
         UNCHANGED <<drafts, draft_sequences>>,
         faults' \in [losses : Nat, kills : Nat], faults'.kills = faults.kills,
         DOMAIN requests' = DOMAIN requests,
         \A q \in DOMAIN requests :
           \/ requests'[q] = requests[q]
           \/ requests[q].at = "sent" /\ requests'[q].at = "lost",
         \A q \in DOMAIN requests : /\ requests'[q].window = requests[q].window
                                   /\ requests'[q].alone = requests[q].alone
                                   /\ requests'[q].late = requests[q].late
  PROVE  OInv'
<1>1. /\ composers'[w] = c
      /\ \A v \in Windows \ {w} : composers'[v] = composers[v]
  BY DEF IInv, Types
<1>2. Kept'
  <2>1. ASSUME NEW v \in Windows, composers'[v].saving # 0
        PROVE  requests'[composers'[v].saving].window = v
    <3>1. composers'[v].saving = composers[v].saving
      BY <1>1, <2>1
    <3>3. composers[v].saving \in DOMAIN requests
      BY <2>1, <3>1, SavingIsRequest
    <3> QED
      BY <2>1, <3>1, <3>3 DEF OInv, Kept
  <2> QED
    BY <2>1 DEF OInv, Kept
<1>3. Orderly' => Orderly
  BY DEF Orderly
<1>4. ASSUME Orderly', NEW v \in Windows, NEW base \in Nat, NEW d \in Nat, IsView(v, base, d)'
      PROVE  UpToDate(v, base, d)
  <2>1. CASE /\ composers'[v].open /\ composers'[v].draftStatus = "none"
             /\ composers'[v].saving = 0
             /\ base = composers'[v].loaded /\ d = composers'[v].draftSequence
    <3>1. CASE v = w
      BY <1>1, <1>3, <1>4, <2>1, <3>1
    <3>2. CASE v # w
      <4>1. IsView(v, base, d)
        BY <1>1, <2>1, <3>2 DEF IsView
      <4> QED
        BY <1>3, <1>4, <4>1 DEF OInv, InStep, ViewsUpToDate
    <3> QED
      BY <3>1, <3>2
  <2>2. ASSUME NEW r \in DOMAIN requests, IsSave(r)', requests'[r].status = "none",
               requests'[r].at = "sent" \/ (requests'[r].at = "select" /\ ~requests'[r].retried),
               v = requests'[r].window, base = requests'[r].base, d = requests'[r].sequence
        PROVE  IsView(v, base, d)
    <3>1. requests'[r] = requests[r]
      BY <2>2
    <3> QED
      BY <2>2, <3>1 DEF IsView, IsSave
  <2>3. ASSUME NEW r \in DOMAIN requests, requests'[r].at = "saved",
               v = requests'[r].window, base = 0, d = requests'[r].sequence
        PROVE  IsView(v, base, d)
    <3>1. requests'[r] = requests[r]
      BY <2>3
    <3> QED
      BY <2>3, <3>1 DEF IsView
  <2> QED
    BY <1>3, <1>4, <2>1, <2>2, <2>3 DEF IsView, OInv, InStep, ViewsUpToDate
<1> QED
  BY <1>2, <1>3, <1>4, IdleInStep

LEMMA BrowserInStep ==
  ASSUME IInv, OInv, IInv', NEW w \in Windows, Browser(w), ~Open(w)
  PROVE  OInv'
<1>1. /\ composers[w] \in ComposerType /\ composers[w].saving <= Len(requests)
      /\ Len(requests) \in Nat /\ DOMAIN requests = 1 .. Len(requests)
      /\ faults \in [losses : Nat, kills : Nat]
  BY RequestsFinite DEF IInv, Types, OInv, Kept
<1>2. /\ Orderly /\ composers[w].open /\ composers[w].draftStatus = "none" /\ composers[w].saving = 0 =>
           UpToDate(w, composers[w].loaded, composers[w].draftSequence)
      /\ composers[w].loaded \in Nat /\ composers[w].draftSequence \in Nat
  <2>1. composers[w].loaded \in Nat /\ composers[w].draftSequence \in Nat
    BY <1>1 DEF ComposerType
  <2>2. composers[w].open /\ composers[w].draftStatus = "none" /\ composers[w].saving = 0 =>
          IsView(w, composers[w].loaded, composers[w].draftSequence)
    BY DEF IsView
  <2> QED
    BY <2>1, <2>2 DEF OInv, InStep, ViewsUpToDate
<1>3. ASSUME NEW c \in ComposerType, composers' = [composers EXCEPT ![w] = c],
             c.saving \in {0, composers[w].saving},
             Orderly /\ c.open /\ c.draftStatus = "none" /\ c.saving = 0 =>
               UpToDate(w, c.loaded, c.draftSequence),
             UNCHANGED <<drafts, draft_sequences, requests, faults>>
      PROVE  OInv'
  BY <1>1, <1>3, ComposerInStep
<1>4. Closed \in ComposerType /\ ~Closed.open /\ Closed.saving = 0
  BY DEF Closed, ComposerType, Statuses
<1>5. CASE saveDraft(w)
  <2> DEFINE request == [Request(w, "select") EXCEPT
                           !.sequence = composers[w].draftSequence,
                           !.force = composers[w].draftForceSave,
                           !.base = composers[w].loaded,
                           !.status = composers[w].draftStatus]
             c == [composers[w] EXCEPT !.saving = Len(requests) + 1,
                                       !.draftSequence = composers[w].draftSequence + 1]
  <2>1. /\ request \in RequestType /\ request.at = "sent" /\ request.window = w
        /\ request.alone /\ ~request.late /\ ~request.retried
        /\ request.status = composers[w].draftStatus
        /\ request.base = composers[w].loaded /\ request.sequence = composers[w].draftSequence
    BY <1>1 DEF ComposerType, Request, RequestType, Statuses
  <2>2. Send(request) /\ Ready(w) /\ composers[w].saving = 0
    BY <1>5 DEF saveDraft
  <2>3. Len(requests') = Len(requests) + 1
    BY <1>1, <2>2 DEF Send, IInv, Types
  <2>4. composers' = [composers EXCEPT ![w] = c]
    BY <1>5, <2>3 DEF saveDraft
  <2>5. Len(requests) + 1 \in Nat /\ composers[w].draftSequence + 1 \in Nat
    BY <1>1, <1>2
  <2>6. /\ c \in ComposerType /\ c.saving = Len(requests) + 1
        /\ c.open = composers[w].open /\ c.draftStatus = composers[w].draftStatus
        /\ c.loaded = composers[w].loaded
    BY <1>1, <2>5 DEF ComposerType
  <2> HIDE DEF request, c
  <2>7. c.saving # composers[w].saving
    BY <1>1, <2>6, <2>2
  <2> QED
    BY <1>5, <2>1, <2>2, <2>4, <2>6, <2>7, SendInStep DEF saveDraft, Ready
<1>6. ASSUME NEW f \in {"next", "check"}, NEW n \in Nat,
             Send([Request(w, f) EXCEPT !.sequence = n]),
             composers' = [composers EXCEPT ![w].leaving = Len(requests')],
             UNCHANGED <<drafts, draft_sequences, faults>>
      PROVE  OInv'
  <2> DEFINE request == [Request(w, f) EXCEPT !.sequence = n]
             c == [composers[w] EXCEPT !.leaving = Len(requests')]
  <2>1. /\ request \in RequestType /\ request.at = "sent" /\ request.window = w
        /\ request.alone /\ ~request.late /\ ~request.retried /\ request.first # "select"
    BY <1>6 DEF Request, RequestType, Statuses
  <2>2. Len(requests') \in Nat
    BY <1>1, <1>6 DEF Send, IInv, Types
  <2>3. /\ c \in ComposerType /\ c.saving = composers[w].saving
        /\ c.open = composers[w].open /\ c.draftStatus = composers[w].draftStatus
        /\ c.loaded = composers[w].loaded /\ c.draftSequence = composers[w].draftSequence
    BY <1>1, <2>2 DEF ComposerType
  <2>4. /\ Send(request) /\ composers' = [composers EXCEPT ![w] = c]
        /\ UNCHANGED <<drafts, draft_sequences, faults>>
    BY <1>6
  <2> HIDE DEF request, c
  <2> QED
    BY <2>1, <2>3, <2>4, SendInStep
<1>7. CASE save(w)
  <2> DEFINE sent == Request(w, "next")
  <2>1. sent.sequence = 0 /\ sent = [q \in DOMAIN sent |-> sent[q]]
    BY DEF Request
  <2> HIDE DEF sent
  <2>2. sent = [sent EXCEPT !.sequence = 0]
    BY <2>1
  <2>3. Send([sent EXCEPT !.sequence = 0])
    BY <1>7, <2>2 DEF save, sent
  <2> QED
    BY <1>6, <1>7, <2>3 DEF save, sent
<1>8. CASE destroyDraft(w)
  <2>1. Send([Request(w, "check") EXCEPT !.sequence = composers[w].draftSequence])
    BY <1>8 DEF destroyDraft
  <2> QED
    BY <1>2, <1>6, <1>8, <2>1 DEF destroyDraft
<1>9. CASE ignoreConflict(w)
  <2> DEFINE c == [composers[w] EXCEPT !.draftForceSave = TRUE]
  <2>1. c \in ComposerType /\ c.saving = composers[w].saving /\ c.draftStatus # "none"
    BY <1>1, <1>9 DEF ComposerType, ignoreConflict
  <2>2. composers' = [composers EXCEPT ![w] = c]
    BY <1>9 DEF ignoreConflict
  <2> HIDE DEF c
  <2> QED
    BY <1>3, <1>9, <2>1, <2>2 DEF ignoreConflict
<1>10. CASE Leave(w) \/ Left(w)
  BY <1>3, <1>4, <1>10 DEF Leave, Left
<1>11. CASE SaveRefused(w)
  <2> DEFINE c == [composers[w] EXCEPT !.saving = 0, !.draftStatus = "conflict"]
  <2>1. c \in ComposerType /\ c.saving = 0 /\ c.draftStatus # "none"
    BY <1>1 DEF ComposerType, Statuses
  <2>2. composers' = [composers EXCEPT ![w] = c]
    BY <1>11 DEF SaveRefused, SaveFailed
  <2> HIDE DEF c
  <2> QED
    BY <1>3, <1>11, <2>1, <2>2 DEF SaveRefused
<1>12. CASE Saved(w)
  <2> DEFINE r == composers[w].saving
             c == [composers[w] EXCEPT !.saving = 0, !.draftSequence = requests[r].sequence,
                                       !.draftStatus = "none", !.draftForceSave = FALSE]
  <2>1. r \in DOMAIN requests /\ requests[r].at = "saved" /\ r # 0
    BY <1>1, <1>12 DEF Saved, ComposerType
  <2>2. requests[r] \in RequestType /\ requests[r].window = w
    BY <2>1, RequestHasType DEF IInv, Types, OInv, Kept
  <2>3. requests[r].sequence \in Nat
    BY <2>2 DEF RequestType
  <2>4. /\ c \in ComposerType /\ c.saving = 0 /\ c.loaded = composers[w].loaded
        /\ c.draftSequence = requests[r].sequence
    BY <1>1, <2>3 DEF ComposerType, Statuses
  <2>5. composers' = [composers EXCEPT ![w] = c]
    BY <1>12 DEF Saved
  <2>6. IsView(w, 0, requests[r].sequence)
    BY <2>1, <2>2 DEF IsView
  <2> HIDE DEF c, r
  <2>7. Orderly => UpToDate(w, c.loaded, c.draftSequence)
    BY <2>3, <2>4, <2>6 DEF OInv, InStep, ViewsUpToDate, UpToDate, Seen
  <2> QED
    BY <1>3, <1>12, <2>4, <2>5, <2>7 DEF Saved
<1>13. ASSUME NEW r \in DOMAIN requests, Lose(w, r) PROVE OInv'
  <2> DEFINE c == [composers[w] EXCEPT !.saving = 0, !.draftStatus = "offline"]
             d == [composers[w] EXCEPT !.leaving = 0]
             x == [requests[r] EXCEPT !.at = "lost"]
  <2>1. /\ c \in ComposerType /\ d \in ComposerType
        /\ c.saving = 0 /\ c.draftStatus # "none" /\ d.saving = composers[w].saving
        /\ d.open = composers[w].open /\ d.draftStatus = composers[w].draftStatus
        /\ d.loaded = composers[w].loaded /\ d.draftSequence = composers[w].draftSequence
    BY <1>1 DEF ComposerType, Statuses
  <2>2. composers' = [composers EXCEPT ![w] = c] \/ composers' = [composers EXCEPT ![w] = d]
    BY <1>13 DEF Lose, NoAnswer, SaveFailed
  <2>3. requests[r] \in RequestType
    BY RequestHasType DEF IInv, Types
  <2>4. /\ x \in RequestType /\ x.at = "lost" /\ x.window = requests[r].window
        /\ x.alone = requests[r].alone /\ x.late = requests[r].late
    BY <2>3 DEF RequestType, Ended
  <2>5. requests' = requests \/ (requests[r].at = "sent" /\ requests' = [requests EXCEPT ![r] = x])
    BY <1>13 DEF Lose
  <2> HIDE DEF c, d, x
  <2>6. /\ DOMAIN requests' = DOMAIN requests
        /\ \A q \in DOMAIN requests :
             \/ requests'[q] = requests[q]
             \/ requests[q].at = "sent" /\ requests'[q].at = "lost"
        /\ \A q \in DOMAIN requests : /\ requests'[q].window = requests[q].window
                                      /\ requests'[q].alone = requests[q].alone
                                      /\ requests'[q].late = requests[q].late
    BY <2>4, <2>5, RequestSet DEF IInv
  <2>7. faults' \in [losses : Nat, kills : Nat] /\ faults'.kills = faults.kills
    BY <1>1, <1>13 DEF Lose
  <2> QED
    BY <1>2, <1>13, <2>1, <2>2, <2>6, <2>7, ComposerInStep DEF Lose
<1> QED
  BY <1>5, <1>7, <1>8, <1>9, <1>10, <1>11, <1>12, <1>13 DEF Browser

\* What else is served leaves no trace in an orderly run, because it may not
\* overlap with a save.
LEMMA DisturbedInStep ==
  ASSUME IInv, OInv, NEW q \in DOMAIN requests, requests'[q] = Disturbed(q)
  PROVE  /\ requests'[q].window = requests[q].window
         /\ requests'[q].late = requests[q].late /\ requests'[q].at = requests[q].at
         /\ requests'[q].alone => requests'[q] = requests[q]
         /\ requests'[q].at = "sent" => requests'[q] = requests[q]
<1>1. requests[q] \in RequestType
  BY RequestHasType DEF IInv, Types
<1>2. requests[q].at = "sent" => requests'[q] = requests[q]
  BY DEF Disturbed, Running
<1>3. requests'[q] \in {requests[q], [requests[q] EXCEPT !.alone = FALSE]}
  BY DEF Disturbed
<1> QED
  BY <1>1, <1>2, <1>3 DEF RequestType

LEMMA OpenInStep ==
  ASSUME IInv, OInv, IInv', NEW w \in Windows, Open(w)
  PROVE  OInv'
<1>1. /\ requests' = [q \in DOMAIN requests |-> requests'[q]]
      /\ \A q \in DOMAIN requests : requests'[q] = Disturbed(q)
      /\ DOMAIN requests' = DOMAIN requests
  BY DEF Open
<1>2. \A q \in DOMAIN requests :
        /\ requests'[q].window = requests[q].window
        /\ requests'[q].late = requests[q].late /\ requests'[q].at = requests[q].at
        /\ requests'[q].alone => requests'[q] = requests[q]
        /\ requests'[q].at = "sent" => requests'[q] = requests[q]
  BY <1>1, DisturbedInStep
<1>0. PICK sequence \in 0 .. draft_sequences :
        /\ Served = 0 \/ sequence = draft_sequences
        /\ composers' = [composers EXCEPT ![w] =
             [Closed EXCEPT !.open = TRUE, !.draftSequence = sequence, !.loaded = Served]]
  <2>1. draft_sequences \in Nat
    BY DEF IInv, Types
  <2>2. PICK sequence \in 0 .. draft_sequences :
          /\ draft_sequences <= sequence + IF Served = 0 THEN MaxAge ELSE 0
          /\ composers' = [composers EXCEPT ![w] =
               [Closed EXCEPT !.open = TRUE, !.draftSequence = sequence, !.loaded = Served]]
    BY DEF Open
  <2>3. Served = 0 \/ sequence = draft_sequences
    BY <2>1, <2>2
  <2> QED
    BY <2>2, <2>3
<1> DEFINE c == [Closed EXCEPT !.open = TRUE, !.draftSequence = sequence, !.loaded = Served]
<1>3. /\ composers'[w] = c /\ c.saving = 0 /\ c.draftSequence = sequence /\ c.loaded = Served
      /\ \A v \in Windows \ {w} : composers'[v] = composers[v]
      /\ UNCHANGED <<drafts, draft_sequences, faults>>
  BY <1>0 DEF Open, Closed, IInv, Types
<1> HIDE DEF c
<1>4. Kept'
  <2>1. ASSUME NEW v \in Windows, composers'[v].saving # 0
        PROVE  requests'[composers'[v].saving].window = v
    <3>1. composers'[v].saving = composers[v].saving
      BY <1>3, <2>1
    <3>3. composers[v].saving \in DOMAIN requests
      BY <2>1, <3>1, SavingIsRequest
    <3> QED
      BY <1>2, <2>1, <3>1, <3>3 DEF OInv, Kept
  <2> QED
    BY <1>1, <1>2, <1>3, <2>1 DEF OInv, Kept
<1>5. ASSUME Orderly'
      PROVE  /\ Orderly /\ ~Pending
             /\ \A q \in DOMAIN requests : requests'[q] = requests[q]
  <2>1. \A q \in DOMAIN requests : requests'[q] = requests[q]
    BY <1>1, <1>2, <1>5 DEF Orderly
  <2>2. Orderly
    BY <1>1, <1>3, <1>5, <2>1 DEF Orderly
  <2>3. ~Pending
    BY <1>1, <1>5, <2>1, DisturbedSave DEF Pending, Orderly, SaveSteps
  <2> QED
    BY <2>1, <2>2, <2>3
<1>6. ASSUME Orderly', NEW v \in Windows, NEW base \in Nat, NEW d \in Nat, IsView(v, base, d)'
      PROVE  UpToDate(v, base, d)
  <2>1. CASE v = w /\ base = Served /\ d = sequence
    BY <1>0, <1>5, <1>6, <2>1 DEF OInv, InStep, UpToDate, Seen, Served, IInv, Types
  <2>2. CASE IsView(v, base, d)
    BY <1>5, <1>6, <2>2 DEF OInv, InStep, ViewsUpToDate
  <2> QED
    BY <1>1, <1>3, <1>5, <1>6, <2>1, <2>2 DEF IsView, IsSave
<1> QED
  BY <1>1, <1>2, <1>3, <1>4, <1>5, <1>6, IdleInStep

LEMMA CleanupInStep == ASSUME IInv, OInv, IInv', cleanup PROVE OInv'
<1>1. /\ requests' = [q \in DOMAIN requests |-> requests'[q]]
      /\ \A q \in DOMAIN requests : requests'[q] = Disturbed(q)
      /\ DOMAIN requests' = DOMAIN requests
      /\ drafts' = NoDraft /\ UNCHANGED <<draft_sequences, composers, faults>>
  BY DEF cleanup
<1>2. \A q \in DOMAIN requests :
        /\ requests'[q].window = requests[q].window
        /\ requests'[q].late = requests[q].late /\ requests'[q].at = requests[q].at
        /\ requests'[q].alone => requests'[q] = requests[q]
        /\ requests'[q].at = "sent" => requests'[q] = requests[q]
  BY <1>1, DisturbedInStep
<1>3. Kept'
  <2>1. \A v \in Windows : composers[v].saving # 0 => composers[v].saving \in DOMAIN requests
    BY SavingIsRequest
  <2> QED
    BY <1>1, <1>2, <2>1 DEF OInv, Kept
<1>4. ASSUME Orderly'
      PROVE  Orderly /\ \A q \in DOMAIN requests : requests'[q] = requests[q]
  BY <1>1, <1>2, <1>4 DEF Orderly
<1>5. ASSUME Orderly', NEW v \in Windows, NEW base \in Nat, NEW d \in Nat, IsView(v, base, d)'
      PROVE  UpToDate(v, base, d)
  <2>1. IsView(v, base, d)
    BY <1>1, <1>4, <1>5 DEF IsView, IsSave
  <2> QED
    BY <1>4, <1>5, <2>1 DEF OInv, InStep, ViewsUpToDate
<1> QED
  BY <1>1, <1>2, <1>3, <1>4, <1>5, IdleInStep

\* A request is taken up with what it carried.
LEMMA StartInStep ==
  ASSUME IInv, OInv, IInv', NEW r \in DOMAIN requests, Start(r)
  PROVE  OInv'
<1>1. /\ DOMAIN requests' = DOMAIN requests /\ requests[r] \in RequestType
      /\ \A q \in DOMAIN requests \ {r} : requests'[q] = Disturbed(q)
      /\ requests[r].at = "sent" /\ UNCHANGED <<drafts, draft_sequences, composers, faults>>
  BY RequestHasType DEF Start, IInv, Types
<1>2. /\ requests'[r].at = requests[r].first /\ requests'[r].window = requests[r].window
      /\ requests'[r].first = requests[r].first /\ requests'[r].retried = requests[r].retried
      /\ requests'[r].status = requests[r].status /\ requests'[r].base = requests[r].base
      /\ requests'[r].sequence = requests[r].sequence
  <2> DEFINE alone == IsSave(r) => \A y \in DOMAIN requests : ~Running(y)
             late == \E y \in r + 1 .. Len(requests) :
                        /\ requests[y].window = requests[r].window
                        /\ requests[y].at \notin {"sent", "lost"}
  <2>1. requests'[r] = [requests[r] EXCEPT !.at = requests[r].first, !.alone = alone, !.late = late]
    BY DEF Start
  <2> HIDE DEF alone, late
  <2> QED
    BY <1>1, <2>1 DEF RequestType
<1>3. requests'[r].at \in {"select", "next", "check"} /\ ~requests[r].retried
      /\ requests[r].alone /\ ~requests[r].late
  BY <1>1, <1>2 DEF RequestType, OInv, Kept
<1>4. \A q \in DOMAIN requests \ {r} :
        /\ requests'[q].window = requests[q].window
        /\ requests'[q].late = requests[q].late /\ requests'[q].at = requests[q].at
        /\ requests'[q].alone => requests'[q] = requests[q]
        /\ requests'[q].at = "sent" => requests'[q] = requests[q]
  BY <1>1, DisturbedInStep
<1>5. Kept'
  <2>1. \A v \in Windows : composers[v].saving # 0 => composers[v].saving \in DOMAIN requests
    BY SavingIsRequest
  <2> QED
    BY <1>1, <1>2, <1>3, <1>4, <2>1 DEF OInv, Kept
<1> SUFFICES ASSUME Orderly' PROVE InStep'
  BY <1>5 DEF OInv
<1>6. \A q \in DOMAIN requests \ {r} : requests'[q] = requests[q]
  BY <1>1, <1>4 DEF Orderly
<1>7. Orderly /\ InStep
  BY <1>1, <1>3, <1>6 DEF Orderly, OInv
<1>8. Pending' <=> Pending
  BY <1>1, <1>3, <1>6 DEF Pending
<1>9. ViewsUpToDate'
  <2> SUFFICES ASSUME NEW w \in Windows, NEW base \in Nat, NEW c \in Nat, IsView(w, base, c)'
               PROVE  UpToDate(w, base, c)'
    BY DEF ViewsUpToDate
  <2>1. IsView(w, base, c)
    BY <1>1, <1>2, <1>3, <1>6 DEF IsView, IsSave
  <2>2. UpToDate(w, base, c)
    BY <1>7, <2>1 DEF InStep, ViewsUpToDate
  <2> QED
    BY <1>1, <1>2, <1>4, <1>8, <2>2, UpToDateStep
<1>10. ASSUME NEW q \in DOMAIN requests
       PROVE  /\ requests'[q].at \in {"upsert", "update"} /\ requests'[q].status = "none" /\ ~requests'[q].force =>
                   (drafts'.data # 0 /\ drafts'.revisions # 1 => Seen(requests[q].window, requests[q].base)')
              /\ requests'[q].at \in {"insert", "current"} \/ (requests'[q].at = "select" /\ requests'[q].retried) =>
                   ~HasDraft'
  <2>1. CASE q = r
    BY <1>2, <1>3, <2>1
  <2>2. CASE q # r
    BY <1>1, <1>2, <1>6, <1>7, <2>2 DEF InStep, Seen, HasDraft
  <2> QED
    BY <2>1, <2>2
<1> QED
  BY <1>1, <1>7, <1>8, <1>9, <1>10 DEF InStep

\* x is request r at another step.
SameRequest(r, x) ==
  /\ x \in RequestType /\ x.at # "sent"
  /\ x.window = requests[r].window /\ x.first = requests[r].first
  /\ x.late = requests[r].late /\ x.alone = requests[r].alone
  /\ x.status = requests[r].status /\ x.base = requests[r].base /\ x.force = requests[r].force

\* Request r is served and becomes x: no save is served beside it.
LEMMA ServedView ==
  ASSUME IInv, OInv, NEW r \in DOMAIN requests, requests[r].at \in Steps,
         NEW x, SameRequest(r, x), requests' = [requests EXCEPT ![r] = x],
         x.at = "select" => x.retried,
         UNCHANGED <<composers, faults>>
  PROVE  /\ DOMAIN requests' = DOMAIN requests
         /\ \A q \in DOMAIN requests : requests'[q] = IF q = r THEN x ELSE requests[q]
         /\ \A q \in DOMAIN requests : requests'[q].window = requests[q].window
         /\ Kept' /\ (Orderly' <=> Orderly)
         /\ Orderly => \A q \in DOMAIN requests \ {r} : requests[q].at \notin SaveSteps
         /\ Orderly => /\ Pending <=> requests[r].at = "update"
                       /\ Pending' <=> x.at = "update"
         /\ \A w \in Windows, base \in Nat, c \in Nat :
              IsView(w, base, c)' =>
                \/ IsView(w, base, c)
                \/ x.at = "saved" /\ w = requests[r].window /\ c = x.sequence
<1>1. /\ DOMAIN requests' = DOMAIN requests
      /\ \A q \in DOMAIN requests : requests'[q] = IF q = r THEN x ELSE requests[q]
  BY RequestSet DEF IInv, SameRequest
<1>2. \A q \in DOMAIN requests : requests'[q].window = requests[q].window
  BY <1>1 DEF SameRequest
<1>3. Kept'
  <2>1. \A v \in Windows : composers[v].saving # 0 => composers[v].saving \in DOMAIN requests
    BY SavingIsRequest
  <2> QED
    BY <1>1, <1>2, <2>1 DEF OInv, Kept, SameRequest
<1>4. Orderly' <=> Orderly
  BY <1>1 DEF Orderly, SameRequest
<1>5. ASSUME Orderly, NEW q \in DOMAIN requests \ {r} PROVE requests[q].at \notin SaveSteps
  <2>1. Running(r)
    BY RunningSteps DEF IInv
  <2> QED
    BY <1>5, <2>1 DEF IInv, AloneIsAlone, Orderly
<1>6. Orderly => /\ Pending <=> requests[r].at = "update"
                 /\ Pending' <=> x.at = "update"
  BY <1>1, <1>5 DEF Pending, SaveSteps
<1>7. ASSUME NEW w \in Windows, NEW base \in Nat, NEW c \in Nat, IsView(w, base, c)'
      PROVE  \/ IsView(w, base, c)
             \/ x.at = "saved" /\ w = requests[r].window /\ c = x.sequence
  BY <1>1, <1>7 DEF IsView, IsSave, SameRequest
<1> QED
  BY <1>1, <1>2, <1>3, <1>4, <1>5, <1>6, <1>7

\* A step that moves no sequence and stores nothing.
LEMMA QuietInStep ==
  ASSUME IInv, OInv, IInv', NEW r \in DOMAIN requests,
         requests[r].at \in Steps \ {"update"},
         NEW x, SameRequest(r, x), requests' = [requests EXCEPT ![r] = x],
         x.at = "select" => x.retried, x.at \notin {"upsert", "update", "saved"},
         Orderly /\ x.at \in {"insert", "current", "select"} => ~HasDraft',
         UNCHANGED <<draft_sequences, composers, faults>>, drafts' \in {drafts, NoDraft}
  PROVE  OInv'
<1>1. /\ DOMAIN requests' = DOMAIN requests
      /\ \A q \in DOMAIN requests : requests'[q] = IF q = r THEN x ELSE requests[q]
      /\ \A q \in DOMAIN requests : requests'[q].window = requests[q].window
      /\ Kept' /\ (Orderly' <=> Orderly)
      /\ Orderly => \A q \in DOMAIN requests \ {r} : requests[q].at \notin SaveSteps
      /\ Orderly => (Pending <=> requests[r].at = "update") /\ (Pending' <=> x.at = "update")
      /\ \A w \in Windows, base \in Nat, c \in Nat :
           IsView(w, base, c)' =>
             \/ IsView(w, base, c)
             \/ x.at = "saved" /\ w = requests[r].window /\ c = x.sequence
  BY ServedView
<1> SUFFICES ASSUME Orderly, InStep PROVE InStep'
  BY <1>1 DEF OInv
<1>2. ~Pending /\ ~Pending'
  BY <1>1
<1>3. ViewsUpToDate'
  <2> SUFFICES ASSUME NEW w \in Windows, NEW base \in Nat, NEW c \in Nat, IsView(w, base, c)'
               PROVE  UpToDate(w, base, c)'
    BY DEF ViewsUpToDate
  <2>1. UpToDate(w, base, c)
    BY <1>1 DEF InStep, ViewsUpToDate
  <2> QED
    BY <1>1, <1>2, <2>1, UpToDateStep
<1>4. \A q \in DOMAIN requests : requests'[q].at \in SaveSteps => q = r
  BY <1>1
<1> QED
  BY <1>1, <1>2, <1>3, <1>4 DEF InStep, NoDraft, SaveSteps

LEMMA PlaceInStep ==
  ASSUME IInv, OInv, IInv', NEW r \in DOMAIN requests,
         requests[r].at \in Steps \ {"update"},
         NEW step \in {"conflict", "cleared", "exists", "insert", "current", "destroy"},
         GoOn(r, step),
         Orderly /\ step \in {"insert", "current"} => ~HasDraft',
         UNCHANGED <<draft_sequences, composers, faults>>, drafts' \in {drafts, NoDraft}
  PROVE  OInv'
<1> DEFINE x == [requests[r] EXCEPT !.at = step]
<1>1. requests[r] \in RequestType
  BY RequestHasType DEF IInv, Types
<1>2. SameRequest(r, x) /\ x.at = step
  BY <1>1 DEF SameRequest, RequestType, Steps, Ended, Answered
<1>3. requests' = [requests EXCEPT ![r] = x]
  BY DEF GoOn
<1> HIDE DEF x
<1> QED
  BY <1>2, <1>3, QuietInStep

LEMMA PassingInStep ==
  ASSUME IInv, OInv, IInv', NEW r \in DOMAIN requests,
         Exists(r) \/ Current(r) \/ CheckClear(r) \/ Destroy(r) \/ Kill(r)
  PROVE  OInv'
<1>1. CASE Exists(r)
  BY <1>1, PlaceInStep DEF Exists, Steps, HasDraft
<1>2. CASE Current(r)
  <2> DEFINE x == [requests[r] EXCEPT !.at = "select", !.sequence = draft_sequences,
                                      !.retried = TRUE]
  <2>1. requests[r] \in RequestType /\ requests[r].at = "current" /\ draft_sequences \in Nat
    BY <1>2, RequestHasType DEF IInv, Types, Current
  <2>2. SameRequest(r, x) /\ x.at = "select" /\ x.retried
    BY <2>1 DEF SameRequest, RequestType, Steps
  <2>3. /\ requests' = [requests EXCEPT ![r] = x]
        /\ UNCHANGED <<drafts, draft_sequences, composers, faults>>
    BY <1>2 DEF Current
  <2> HIDE DEF x
  <2>4. Orderly => ~HasDraft'
    BY <2>1, <2>3 DEF OInv, InStep, HasDraft
  <2> QED
    BY <2>1, <2>2, <2>3, <2>4, QuietInStep DEF Steps
<1>3. CASE CheckClear(r)
  BY <1>3, PlaceInStep DEF CheckClear, Steps
<1>4. CASE Destroy(r)
  BY <1>4, PlaceInStep DEF Destroy, Steps
<1>5. CASE Kill(r)
  <2> DEFINE x == [requests[r] EXCEPT !.at = "killed"]
  <2>1. requests[r] \in RequestType
    BY RequestHasType DEF IInv, Types
  <2>2. x \in RequestType /\ x.at = "killed" /\ x.window = requests[r].window
    BY <2>1 DEF RequestType, Ended, Answered
  <2>3. requests' = [requests EXCEPT ![r] = x]
    BY <1>5 DEF Kill
  <2> HIDE DEF x
  <2>4. /\ DOMAIN requests' = DOMAIN requests
        /\ \A q \in DOMAIN requests : requests'[q] = IF q = r THEN x ELSE requests[q]
    BY <2>2, <2>3, RequestSet DEF IInv
  <2>5. faults' \in [losses : Nat, kills : Nat] /\ faults'.kills # 0
    <3>1. faults \in [losses : Nat, kills : Nat] /\ faults' = [faults EXCEPT !.kills = faults.kills + 1]
      BY <1>5 DEF Kill, OInv, Kept
    <3>2. faults.kills + 1 \in Nat /\ faults.kills + 1 # 0
      BY <3>1
    <3> QED
      BY <3>1, <3>2
  <2>6. \A w \in Windows : composers'[w].saving \in {0, composers[w].saving}
    <3> SUFFICES ASSUME NEW w \in Windows PROVE composers'[w].saving \in {0, composers[w].saving}
      OBVIOUS
    <3>1. composers[w] \in ComposerType
      BY DEF IInv, Types
    <3> DEFINE status == IF composers[w].saving = r THEN "offline" ELSE composers[w].draftStatus
               saving == IF composers[w].saving = r THEN 0 ELSE composers[w].saving
               leaving == IF composers[w].leaving = r THEN 0 ELSE composers[w].leaving
    <3>2. composers'[w] = [composers[w] EXCEPT !.draftStatus = status, !.saving = saving,
                                               !.leaving = leaving]
      BY <1>5 DEF Kill
    <3>3. composers'[w].saving = saving
      <4> HIDE DEF status, saving, leaving
      <4> QED
        BY <3>1, <3>2 DEF ComposerType
    <3> QED
      BY <3>3
  <2>7. \A w \in Windows : composers[w].saving # 0 => composers[w].saving \in DOMAIN requests
    BY SavingIsRequest
  <2>8. Kept'
    BY <2>2, <2>4, <2>5, <2>6, <2>7 DEF OInv, Kept
  <2> QED
    BY <2>5, <2>8 DEF OInv, Orderly
<1> QED
  BY <1>1, <1>2, <1>3, <1>4, <1>5

\* A save that meets a draft its window does not know, with the sequence the
\* window had for it, does not exist.
LEMMA SelectInStep ==
  ASSUME IInv, OInv, IInv', NEW r \in DOMAIN requests, Select(r)
  PROVE  OInv'
<1>1. /\ requests[r] \in RequestType /\ draft_sequences \in Nat
      /\ requests[r].sequence \in Nat /\ requests[r].base \in Nat /\ requests[r].window \in Windows
      /\ requests[r].at = "select" /\ IsSave(r)
      /\ drafts \in [id : Nat, sequence : Nat, data : Nat, revisions : Nat]
  BY RequestHasType DEF IInv, Types, Select, RequestType, SavesSave, SaveSteps
<1>2. UNCHANGED <<drafts, draft_sequences, composers, faults>>
  BY DEF Select
<1>3. CASE Accepted(r) /\ HasDraft /\ requests' = [requests EXCEPT
             ![r].at = "upsert", ![r].draft_id = drafts.id, ![r].sequence = Following(r)]
  <2> DEFINE x == [requests[r] EXCEPT !.at = "upsert", !.draft_id = drafts.id,
                                      !.sequence = Following(r)]
  <2>1. Following(r) \in Nat
    BY <1>1, <1>3 DEF Following, Accepted, Forced
  <2>2. SameRequest(r, x) /\ x.at = "upsert"
    BY <1>1, <2>1 DEF SameRequest, RequestType, Steps
  <2>3. requests' = [requests EXCEPT ![r] = x]
    BY <1>3
  <2> HIDE DEF x
  <2>4. /\ DOMAIN requests' = DOMAIN requests
        /\ \A q \in DOMAIN requests : requests'[q] = IF q = r THEN x ELSE requests[q]
        /\ \A q \in DOMAIN requests : requests'[q].window = requests[q].window
        /\ Kept' /\ (Orderly' <=> Orderly)
        /\ Orderly => \A q \in DOMAIN requests \ {r} : requests[q].at \notin SaveSteps
        /\ Orderly => (Pending <=> requests[r].at = "update") /\ (Pending' <=> x.at = "update")
        /\ \A w \in Windows, base \in Nat, c \in Nat :
             IsView(w, base, c)' =>
               \/ IsView(w, base, c)
               \/ x.at = "saved" /\ w = requests[r].window /\ c = x.sequence
    BY <1>1, <1>2, <2>2, <2>3, ServedView DEF Steps
  <2> SUFFICES ASSUME Orderly, InStep PROVE InStep'
    BY <2>4 DEF OInv
  <2>5. ~Pending /\ ~Pending'
    BY <1>1, <2>2, <2>4
  <2>6. ViewsUpToDate'
    <3> SUFFICES ASSUME NEW w \in Windows, NEW base \in Nat, NEW c \in Nat, IsView(w, base, c)'
                 PROVE  UpToDate(w, base, c)'
      BY DEF ViewsUpToDate
    <3>1. UpToDate(w, base, c)
      BY <2>2, <2>4 DEF InStep, ViewsUpToDate
    <3> QED
      BY <1>2, <2>4, <2>5, <3>1, UpToDateStep
  <2>7. ASSUME requests[r].status = "none", ~requests[r].force, drafts.data # 0, drafts.revisions # 1
        PROVE  Seen(requests[r].window, requests[r].base)
    <3>1. requests[r].sequence = draft_sequences
      BY <1>3, <2>7 DEF Accepted, Forced
    <3>2. ~requests[r].retried
      BY <1>1, <1>3 DEF InStep
    <3>3. IsView(requests[r].window, requests[r].base, requests[r].sequence)
      BY <1>1, <2>7, <3>2 DEF IsView
    <3> QED
      BY <1>1, <2>7, <3>1, <3>3 DEF InStep, ViewsUpToDate, UpToDate
  <2>8. \A q \in DOMAIN requests : requests'[q].at \in SaveSteps => q = r
    BY <2>4
  <2>9. Seen(requests[r].window, requests[r].base) =>
          drafts'.data = x.base \/ (/\ drafts'.data \in DOMAIN requests'
                                  /\ requests'[drafts'.data].window = x.window)
    BY <1>2, <2>2, <2>4 DEF Seen, SameRequest
  <2>10. ASSUME NEW q \in DOMAIN requests'
         PROVE  /\ requests'[q].at \in {"upsert", "update"} /\ requests'[q].status = "none" /\ ~requests'[q].force =>
                     (drafts'.data # 0 /\ drafts'.revisions # 1 => Seen(requests[q].window, requests[q].base)')
                /\ requests'[q].at \in {"insert", "current"} \/ (requests'[q].at = "select" /\ requests'[q].retried) =>
                     ~HasDraft'
    <3>1. CASE q # r
      BY <2>4, <2>8, <3>1 DEF SaveSteps
    <3>2. CASE q = r
      <4>1. requests'[q] = x
        BY <2>4, <3>2
      <4> QED
        BY <1>2, <2>2, <2>7, <2>9, <4>1 DEF SameRequest, Seen
    <3> QED
      BY <3>1, <3>2
  <2> QED
    BY <1>2, <2>5, <2>6, <2>10 DEF InStep
<1>4. ASSUME NEW step \in {"insert", "conflict", "exists"}, GoOn(r, step),
             step = "insert" => ~HasDraft
      PROVE  OInv'
  BY <1>1, <1>2, <1>4, PlaceInStep DEF Steps, HasDraft
<1> QED
  BY <1>3, <1>4 DEF Select

\* Nobody else has the sequence a save writes.
LEMMA UpsertInStep ==
  ASSUME IInv, OInv, IInv', NEW r \in DOMAIN requests, Upsert(r)
  PROVE  OInv'
<1> DEFINE x == [requests[r] EXCEPT !.at = "update"]
<1>1. requests[r] \in RequestType /\ requests[r].at = "upsert" /\ requests[r].sequence \in Nat
      /\ draft_sequences \in Nat
  BY RequestHasType DEF IInv, Types, Upsert, RequestType
<1>2. SameRequest(r, x) /\ x.at = "update"
  BY <1>1 DEF SameRequest, RequestType, Steps
<1>3. requests' = [requests EXCEPT ![r] = x]
  BY DEF Upsert, GoOn
<1> HIDE DEF x
<1>4. UNCHANGED <<drafts, composers, faults>> /\ draft_sequences' = requests[r].sequence
  BY DEF Upsert
<1>5. /\ DOMAIN requests' = DOMAIN requests
      /\ \A q \in DOMAIN requests : requests'[q] = IF q = r THEN x ELSE requests[q]
      /\ \A q \in DOMAIN requests : requests'[q].window = requests[q].window
      /\ Kept' /\ (Orderly' <=> Orderly)
      /\ Orderly => \A q \in DOMAIN requests \ {r} : requests[q].at \notin SaveSteps
      /\ Orderly => (Pending <=> requests[r].at = "update") /\ (Pending' <=> x.at = "update")
      /\ \A w \in Windows, base \in Nat, c \in Nat :
           IsView(w, base, c)' =>
             \/ IsView(w, base, c)
             \/ x.at = "saved" /\ w = requests[r].window /\ c = x.sequence
  BY <1>1, <1>2, <1>3, <1>4, ServedView DEF Steps
<1> SUFFICES ASSUME Orderly, InStep PROVE InStep'
  BY <1>5 DEF OInv
<1>6. draft_sequences' > draft_sequences
  BY <1>1, <1>4 DEF IInv, NothingChanged, Orderly
<1>7. ViewsUpToDate'
  <2> SUFFICES ASSUME NEW w \in Windows, NEW base \in Nat, NEW c \in Nat, IsView(w, base, c)'
               PROVE  UpToDate(w, base, c)'
    BY DEF ViewsUpToDate
  <2>1. UpToDate(w, base, c)
    BY <1>2, <1>5 DEF InStep, ViewsUpToDate
  <2> QED
    BY <1>5, <1>6, <2>1, UpToDateStep
<1>8. \A q \in DOMAIN requests : requests'[q].at \in SaveSteps => q = r
  BY <1>5
<1>9. ASSUME NEW q \in DOMAIN requests'
      PROVE  /\ requests'[q].at \in {"upsert", "update"} /\ requests'[q].status = "none" /\ ~requests'[q].force =>
                  (drafts'.data # 0 /\ drafts'.revisions # 1 => Seen(requests[q].window, requests[q].base)')
             /\ requests'[q].at \in {"insert", "current"} \/ (requests'[q].at = "select" /\ requests'[q].retried) =>
                  ~HasDraft'
  <2>1. CASE q # r
    BY <1>5, <1>8, <2>1 DEF SaveSteps
  <2>2. CASE q = r
    <3>1. requests'[q] = x
      BY <1>5, <2>2
    <3> QED
      BY <1>1, <1>2, <1>4, <1>5, <2>2, <3>1 DEF InStep, SameRequest, Seen
  <2> QED
    BY <2>1, <2>2
<1> QED
  BY <1>2, <1>5, <1>7, <1>9 DEF InStep

\* A save stores its text: over one whose sequence it has passed, or as the first.
LEMMA StoreInStep ==
  ASSUME IInv, OInv, IInv', NEW r \in DOMAIN requests, requests[r].at \in {"update", "insert"},
         NEW x, SameRequest(r, x), requests' = [requests EXCEPT ![r] = x], x.at = "saved",
         x.sequence = requests[r].sequence,
         UNCHANGED <<draft_sequences, composers, faults>>,
         Orderly => /\ drafts'.data = r /\ drafts'.sequence = draft_sequences
                    /\ requests[r].sequence = draft_sequences
                    /\ requests[r].at = "insert" => drafts'.revisions = 1
  PROVE  OInv'
<1>1. /\ DOMAIN requests' = DOMAIN requests
      /\ \A q \in DOMAIN requests : requests'[q] = IF q = r THEN x ELSE requests[q]
      /\ \A q \in DOMAIN requests : requests'[q].window = requests[q].window
      /\ Kept' /\ (Orderly' <=> Orderly)
      /\ Orderly => \A q \in DOMAIN requests \ {r} : requests[q].at \notin SaveSteps
      /\ Orderly => (Pending <=> requests[r].at = "update") /\ (Pending' <=> x.at = "update")
      /\ \A w \in Windows, base \in Nat, c \in Nat :
           IsView(w, base, c)' =>
             \/ IsView(w, base, c)
             \/ x.at = "saved" /\ w = requests[r].window /\ c = x.sequence
  <2>1. requests[r].at \in Steps /\ (x.at = "select" => x.retried) /\ UNCHANGED <<composers, faults>>
    BY DEF Steps
  <2> QED
    BY <2>1, ServedView
<1> SUFFICES ASSUME Orderly, InStep PROVE InStep'
  BY <1>1 DEF OInv
<1>2. ~Pending' /\ (requests[r].at = "update" => Pending)
  BY <1>1
<1>3. ViewsUpToDate'
  <2> SUFFICES ASSUME NEW w \in Windows, NEW base \in Nat, NEW c \in Nat, IsView(w, base, c)'
               PROVE  UpToDate(w, base, c)'
    BY DEF ViewsUpToDate
  <2>1. CASE IsView(w, base, c)
    <3>1. UpToDate(w, base, c)
      BY <2>1 DEF InStep, ViewsUpToDate
    <3> QED
      BY <1>1, <1>2, <3>1, UpToDateStep
  <2>2. CASE w = requests[r].window /\ c = draft_sequences
    <3>1. drafts'.data \in DOMAIN requests' /\ requests'[drafts'.data].window = w
      BY <1>1, <2>2
    <3>2. c <= draft_sequences'
      BY <2>2 DEF IInv, Types
    <3> QED
      BY <1>2, <3>1, <3>2 DEF UpToDate, Seen
  <2> QED
    BY <1>1, <2>1, <2>2
<1>4. \A q \in DOMAIN requests' : requests'[q].at \notin SaveSteps
  BY <1>1 DEF SaveSteps
<1> QED
  BY <1>3, <1>4 DEF InStep, SaveSteps

LEMMA WriteInStep ==
  ASSUME IInv, OInv, IInv', NEW r \in DOMAIN requests, Update(r) \/ Insert(r)
  PROVE  OInv'
<1>1. /\ requests[r] \in RequestType
      /\ drafts \in [id : Nat, sequence : Nat, data : Nat, revisions : Nat]
      /\ (Orderly => requests[r].alone /\ InStep)
  BY RequestHasType DEF IInv, Types, Orderly, OInv
<1>2. CASE Update(r)
  <2> DEFINE x == [requests[r] EXCEPT !.at = "saved", !.draft_id = 0]
  <2>1. SameRequest(r, x) /\ x.at = "saved" /\ x.sequence = requests[r].sequence
    BY <1>1 DEF SameRequest, RequestType, Ended, Answered
  <2>2. requests' = [requests EXCEPT ![r] = x] /\ requests[r].at = "update"
    BY <1>2 DEF Update
  <2> HIDE DEF x
  <2>3. Orderly => Matches(r) /\ requests[r].sequence = draft_sequences
    BY <1>1, <2>2 DEF IInv, NothingChanged, Matches
  <2>4. Orderly => drafts'.data = r /\ drafts'.sequence = requests[r].sequence
    BY <1>1, <1>2, <2>3 DEF Update, Written
  <2> QED
    BY <1>2, <2>1, <2>2, <2>3, <2>4, StoreInStep DEF Update
<1>3. CASE Insert(r)
  <2> DEFINE x == [requests[r] EXCEPT !.at = "saved"]
  <2>1. SameRequest(r, x) /\ x.at = "saved" /\ x.sequence = requests[r].sequence
    BY <1>1 DEF SameRequest, RequestType, Ended, Answered
  <2>2. requests' = [requests EXCEPT ![r] = x] /\ requests[r].at = "insert"
    BY <1>3 DEF Insert, GoOn
  <2> HIDE DEF x
  <2>3. Orderly => requests[r].sequence = draft_sequences /\ drafts = NoDraft
    BY <1>1, <2>2 DEF IInv, NothingChanged, InStep, HasDraft
  <2>4. /\ drafts'.data = r /\ drafts'.sequence = requests[r].sequence
        /\ drafts'.revisions = drafts.revisions + 1
    BY <1>3 DEF Insert
  <2>5. Orderly => drafts'.revisions = 1
    BY <2>3, <2>4 DEF NoDraft
  <2> QED
    BY <1>3, <2>1, <2>2, <2>3, <2>4, <2>5, StoreInStep DEF Insert
<1> QED
  BY <1>2, <1>3

\* A post leaves no draft and passes every sequence.
LEMMA PostInStep ==
  ASSUME IInv, OInv, IInv', NEW r \in DOMAIN requests, NextSequence(r)
  PROVE  OInv'
<1> DEFINE x == [requests[r] EXCEPT !.at = "posted"]
<1>1. /\ requests[r] \in RequestType /\ requests[r].at = "next" /\ draft_sequences \in Nat
      /\ drafts \in [id : Nat, sequence : Nat, data : Nat, revisions : Nat]
  BY RequestHasType DEF IInv, Types, NextSequence
<1>2. SameRequest(r, x) /\ x.at = "posted"
  BY <1>1 DEF SameRequest, RequestType, Ended, Answered
<1>3. requests' = [requests EXCEPT ![r] = x]
  BY DEF NextSequence, GoOn
<1> HIDE DEF x
<1>4. /\ draft_sequences' = draft_sequences + 1
      /\ drafts' = IF drafts.sequence < draft_sequences + 1 THEN NoDraft ELSE drafts
      /\ UNCHANGED <<composers, faults>>
  BY DEF NextSequence, Advanced, Superseded
<1>5. /\ DOMAIN requests' = DOMAIN requests
      /\ \A q \in DOMAIN requests : requests'[q] = IF q = r THEN x ELSE requests[q]
      /\ \A q \in DOMAIN requests : requests'[q].window = requests[q].window
      /\ Kept' /\ (Orderly' <=> Orderly)
      /\ Orderly => \A q \in DOMAIN requests \ {r} : requests[q].at \notin SaveSteps
      /\ Orderly => (Pending <=> requests[r].at = "update") /\ (Pending' <=> x.at = "update")
      /\ \A w \in Windows, base \in Nat, c \in Nat :
           IsView(w, base, c)' =>
             \/ IsView(w, base, c)
             \/ x.at = "saved" /\ w = requests[r].window /\ c = x.sequence
  BY <1>1, <1>2, <1>3, <1>4, ServedView DEF Steps
<1> SUFFICES ASSUME Orderly, InStep PROVE InStep'
  BY <1>5 DEF OInv
<1>6. drafts'.data = 0
  <2>1. ~Pending
    BY <1>1, <1>5
  <2> QED
    BY <1>1, <1>4, <2>1 DEF InStep, NoDraft
<1>7. ViewsUpToDate'
  <2> SUFFICES ASSUME NEW w \in Windows, NEW base \in Nat, NEW c \in Nat, IsView(w, base, c)'
               PROVE  UpToDate(w, base, c)'
    BY DEF ViewsUpToDate
  <2>1. UpToDate(w, base, c)
    BY <1>2, <1>5 DEF InStep, ViewsUpToDate
  <2>2. draft_sequences' > draft_sequences
    BY <1>1, <1>4
  <2> QED
    BY <1>5, <2>1, <2>2, UpToDateStep
<1>8. \A q \in DOMAIN requests' : requests'[q].at \notin SaveSteps
  BY <1>2, <1>5 DEF SaveSteps
<1> QED
  BY <1>6, <1>7, <1>8 DEF InStep, SaveSteps

LEMMA NextOInv == IInv /\ OInv /\ IInv' /\ [Next]_vars => OInv'
<1> SUFFICES ASSUME IInv, OInv, IInv', [Next]_vars PROVE OInv'
  OBVIOUS
<1>1. CASE UNCHANGED vars
  BY <1>1 DEF vars, OInv, Kept, Orderly, InStep, ViewsUpToDate, IsView, UpToDate, Seen, Pending,
              IsSave, HasDraft
<1>2. ASSUME NEW r \in DOMAIN requests, Server(r) PROVE OInv'
  BY <1>2, StartInStep, SelectInStep, UpsertInStep, WriteInStep, PassingInStep, PostInStep DEF Server
<1> QED
  BY <1>1, <1>2, OpenInStep, BrowserInStep, CleanupInStep DEF Next

LEMMA SpecOInv == Spec => [](IInv /\ OInv)
<1>1. Init => IInv /\ OInv
  BY InitIInv, InitOInv
<1>2. IInv /\ OInv /\ [Next]_vars => (IInv /\ OInv)'
  BY NextIInv, NextOInv
<1> QED
  BY <1>1, <1>2, PTL DEF Spec

\* The text of the draft becomes another one only by a save.
LEMMA OnlyWritesReplace ==
  ASSUME IInv, Next, drafts'.data \notin {0, drafts.data}
  PROVE  \E r \in DOMAIN requests : drafts'.data = r /\ (Update(r) \/ Insert(r))
<1>1. drafts \in [id : Nat, sequence : Nat, data : Nat, revisions : Nat]
  BY DEF IInv, Types
<1>2. ASSUME NEW w \in Windows, Browser(w) PROVE FALSE
  BY <1>2 DEF Browser, Open, saveDraft, save, destroyDraft, ignoreConflict, Leave, Saved,
     SaveRefused, Left, Lose
<1>3. ASSUME cleanup PROVE FALSE
  BY <1>3 DEF cleanup, NoDraft
<1>4. ASSUME NEW r \in DOMAIN requests, Server(r)
      PROVE  drafts'.data = r /\ (Update(r) \/ Insert(r))
  <2>1. Update(r) \/ Insert(r)
    <3>1. drafts' # drafts /\ drafts' # NoDraft
      BY DEF NoDraft
    <3>2. ~Destroy(r) /\ ~NextSequence(r)
      BY <3>1 DEF Destroy, NextSequence
    <3> QED
      BY <1>4, <3>1, <3>2 DEF Server, Start, Select, Upsert, Exists, Current, CheckClear, Kill
  <2>2. Update(r) => drafts'.data = r
    BY <1>1 DEF Update, Written
  <2>3. Insert(r) => drafts'.data = r
    BY DEF Insert
  <2> QED
    BY <2>1, <2>2, <2>3
<1> QED
  BY <1>2, <1>3, <1>4 DEF Next

\* As long as requests are served one at a time and in order and no worker died,
\* a save that is not forced replaces a text its window has not seen only if
\* that was the first save of the draft or the window's save before failed
\* (draft.rb:52-94, composer.js 1362-1372).
THEOREM OverwritesAreSeen == Spec => BlindOverwriteIsBounded
<1> DEFINE A == BlindOverwrite /\ Orderly => drafts.revisions = 1 \/ requests[Sender].status # "none"
<1>1. IInv /\ OInv /\ [Next]_vars => [A]_vars
  <2> SUFFICES ASSUME IInv, OInv, Next, BlindOverwrite, Orderly,
                      drafts.revisions # 1, requests[Sender].status = "none"
               PROVE  FALSE
    OBVIOUS
  <2>1. /\ drafts.data # 0 /\ drafts'.data \notin {0, drafts.data}
        /\ ~requests[Sender].force /\ ~Known(Sender, drafts.data)
    BY DEF BlindOverwrite
  <2>2. PICK r \in DOMAIN requests : drafts'.data = r /\ (Update(r) \/ Insert(r))
    BY <2>1, OnlyWritesReplace
  <2>3. InStep
    BY DEF OInv
  <2>4. CASE Update(r)
    BY <2>1, <2>2, <2>3, <2>4 DEF InStep, Update, Seen, Known, Sender
  <2>5. CASE Insert(r)
    BY <2>1, <2>3, <2>5 DEF InStep, Insert, HasDraft, NoDraft
  <2> QED
    BY <2>2, <2>4, <2>5
<1> QED
  BY <1>1, SpecOInv, PTL DEF Spec, BlindOverwriteIsBounded
=============================================================================
