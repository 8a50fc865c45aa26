------------------------------- MODULE Drafts -------------------------------
(***************************************************************************)
(* The drafts of one user for one draft key: the browser windows in which  *)
(* a composer is open on that key (frontend composer.js), the requests     *)
(* they send, and the statements with which DraftsController, Draft and    *)
(* DraftSequence serve them.  The statements of Draft.set and Draft.clear  *)
(* commit one by one, so requests served at the same time interleave       *)
(* between them; DraftSequence.next! runs in the transaction of the post   *)
(* and locks the row of draft_sequences, so it is one step.                *)
(*                                                                         *)
(* The text of a draft is the number of the request that carried it.       *)
(* UserStat's draft count, upload references and backups of long drafts    *)
(* are left out.                                                           *)
(***************************************************************************)
EXTENDS Naturals, Sequences, FiniteSets

CONSTANTS
  Windows,       \* browser windows in which the user is signed in
  MaxRequests,   \* bound: requests sent in one behaviour
  Workers,       \* requests and jobs the server works on at the same time
  MaxAge,        \* bound: how far the sequence of a page is behind
  MaxFaults,     \* bound: requests or answers lost on the network, workers killed
  InitialDraft   \* the user has a draft, saved twice, when all this starts

ASSUME DraftsAssumption ==
  /\ {MaxRequests, Workers, MaxAge, MaxFaults} \subseteq Nat
  /\ InitialDraft \in BOOLEAN

VARIABLES
  drafts,           \* the row of drafts, or NoDraft
  draft_sequences,  \* the sequence of the row of draft_sequences, 0 without one
  composers,        \* the composer of each window
  requests,         \* every request sent so far
  faults            \* losses and kills so far

vars == <<drafts, draft_sequences, composers, requests, faults>>

\* Text and id of the draft that is there from the start.
Old == MaxRequests + 1

NoDraft == [id |-> 0, sequence |-> 0, data |-> 0, revisions |-> 0]

Closed ==
  [open |-> FALSE, draftSequence |-> 0, draftForceSave |-> FALSE,
   draftStatus |-> "none", loaded |-> 0, saving |-> 0, leaving |-> 0]

Init ==
  /\ draft_sequences = IF InitialDraft THEN 1 ELSE 0
  /\ drafts = IF InitialDraft
                THEN [id |-> Old, sequence |-> 1, data |-> Old, revisions |-> 2]
                ELSE NoDraft
  /\ composers = [w \in Windows |-> Closed]
  /\ requests = <<>>
  /\ faults = [losses |-> 0, kills |-> 0]

-----------------------------------------------------------------------------
(* The browser. *)

Answered == {"saved", "conflict", "posted", "cleared"}
Ended == Answered \union {"lost", "killed"}

Running(r) == requests[r].at \notin Ended \union {"sent"}

\* Somebody is there to serve another request or run another job.
WorkerFree == Cardinality({r \in DOMAIN requests : Running(r)}) < Workers

IsSave(r) == requests[r].first = "select"

\* request q when something else is served
Disturbed(q) ==
  IF Running(q) /\ IsSave(q) THEN [requests[q] EXCEPT !.alone = FALSE] ELSE requests[q]

\* Draft.get: the text the server shows for the key, 0 for none.
Served == IF drafts.sequence = draft_sequences THEN drafts.data ELSE 0

\* The user opens the composer; a show that races with a save answers an error.
\* Without a draft the sequence is that of the page, which may be an old one.
Open(w) ==
  /\ WorkerFree
  /\ ~composers[w].open
  /\ \E sequence \in 0 .. draft_sequences :
       /\ draft_sequences <= sequence + IF Served = 0 THEN MaxAge ELSE 0
       /\ composers' = [composers EXCEPT ![w] =
            [Closed EXCEPT !.open = TRUE, !.draftSequence = sequence, !.loaded = Served]]
  /\ requests' = [q \in DOMAIN requests |-> Disturbed(q)]
  /\ UNCHANGED <<drafts, draft_sequences, faults>>

\* What every request carries; a save adds fields of its own.
Request(w, firstStep) ==
  [window |-> w, at |-> "sent", first |-> firstStep, sequence |-> 0, force |-> FALSE,
   base |-> 0, status |-> "none", draft_id |-> 0, retried |-> FALSE,
   alone |-> TRUE, late |-> FALSE]

Send(request) ==
  /\ Len(requests) < MaxRequests
  /\ requests' = Append(requests, request)

Ready(w) == composers[w].open /\ composers[w].leaving = 0

\* Composer#saveDraft: count the sequence up without waiting for the answer.
saveDraft(w) ==
  /\ Ready(w)
  /\ composers[w].saving = 0
  /\ Send([Request(w, "select") EXCEPT
             !.sequence = composers[w].draftSequence,
             !.force = composers[w].draftForceSave,
             !.base = composers[w].loaded,
             !.status = composers[w].draftStatus])
  /\ composers' = [composers EXCEPT ![w].saving = Len(requests'),
                                    ![w].draftSequence = @ + 1]
  /\ UNCHANGED <<drafts, draft_sequences, faults>>

\* Composer#save: post the text.  Drafts are disabled from here on, but a save
\* that is on its way is not waited for.
save(w) ==
  /\ Ready(w)
  /\ Send(Request(w, "next"))
  /\ composers' = [composers EXCEPT ![w].leaving = Len(requests')]
  /\ UNCHANGED <<drafts, draft_sequences, faults>>

\* ComposerService#destroyDraft: throw the text away, after the running save.
destroyDraft(w) ==
  /\ Ready(w)
  /\ composers[w].saving = 0
  /\ Send([Request(w, "check") EXCEPT !.sequence = composers[w].draftSequence])
  /\ composers' = [composers EXCEPT ![w].leaving = Len(requests')]
  /\ UNCHANGED <<drafts, draft_sequences, faults>>

\* The user answers the conflict dialog with "ignore".
ignoreConflict(w) ==
  /\ Ready(w)
  /\ composers[w].draftStatus = "conflict"
  /\ ~composers[w].draftForceSave
  /\ composers' = [composers EXCEPT ![w].draftForceSave = TRUE]
  /\ UNCHANGED <<drafts, draft_sequences, requests, faults>>

\* The window is closed or reloaded; its requests go on.
Leave(w) ==
  /\ composers[w].open
  /\ composers' = [composers EXCEPT ![w] = Closed]
  /\ UNCHANGED <<drafts, draft_sequences, requests, faults>>

\* saveDraft's then: take the sequence of the server.
Saved(w) ==
  LET r == composers[w].saving
  IN  /\ r # 0
      /\ requests[r].at = "saved"
      /\ composers' = [composers EXCEPT
           ![w] = [@ EXCEPT !.saving = 0, !.draftSequence = requests[r].sequence,
                            !.draftStatus = "none", !.draftForceSave = FALSE]]
      /\ UNCHANGED <<drafts, draft_sequences, requests, faults>>

\* saveDraft's catch: the sequence stays counted up.
SaveFailed(w, status) ==
  composers' = [composers EXCEPT ![w].saving = 0, ![w].draftStatus = status]

SaveRefused(w) ==
  /\ composers[w].saving # 0
  /\ requests[composers[w].saving].at = "conflict"
  /\ SaveFailed(w, "conflict")
  /\ UNCHANGED <<drafts, draft_sequences, requests, faults>>

\* The post is created or the draft cleared: close the composer.
Left(w) ==
  /\ composers[w].leaving # 0
  /\ requests[composers[w].leaving].at \in {"posted", "cleared"}
  /\ composers' = [composers EXCEPT ![w] = Closed]
  /\ UNCHANGED <<drafts, draft_sequences, requests, faults>>

\* The window gets no answer from request r, and goes on: drafts that could
\* not be saved are "offline", a post or a discard that failed is undone.
NoAnswer(w, r) ==
  \/ /\ composers[w].saving = r
     /\ SaveFailed(w, "offline")
  \/ /\ composers[w].leaving = r
     /\ composers' = [composers EXCEPT ![w].leaving = 0]

\* The network loses a request before it is served, or its answer.
Lose(w, r) ==
  /\ faults.losses + faults.kills < MaxFaults
  /\ requests[r].at \in Answered \union {"sent"}
  /\ NoAnswer(w, r)
  /\ requests' = IF requests[r].at = "sent"
                   THEN [requests EXCEPT ![r].at = "lost"] ELSE requests
  /\ faults' = [faults EXCEPT !.losses = @ + 1]
  /\ UNCHANGED <<drafts, draft_sequences>>

Browser(w) ==
  \/ Open(w) \/ saveDraft(w) \/ save(w) \/ destroyDraft(w) \/ ignoreConflict(w)
  \/ Leave(w) \/ Saved(w) \/ SaveRefused(w) \/ Left(w)
  \/ \E r \in DOMAIN requests : Lose(w, r)

-----------------------------------------------------------------------------
(* The server. *)

\* A worker takes the request up, not always in the order sent.  The fields
\* alone and late are history: whether anything else was served beside a save,
\* and whether a later request of the window was served before this one.
Start(r) ==
  /\ requests[r].at = "sent"
  /\ WorkerFree
  /\ requests' = [q \in DOMAIN requests |->
       IF q = r
         THEN [requests[r] EXCEPT
                 !.at = requests[r].first,
                 !.alone = IsSave(r) => \A x \in DOMAIN requests : ~Running(x),
                 !.late = \E x \in r + 1 .. Len(requests) :
                            /\ requests[x].window = requests[r].window
                            /\ requests[x].at \notin {"sent", "lost"}]
         ELSE Disturbed(q)]
  /\ UNCHANGED <<drafts, draft_sequences, composers, faults>>

\* Request r goes on at the step.
GoOn(r, step) == requests' = [requests EXCEPT ![r].at = step]

HasDraft == drafts # NoDraft

Forced(r) == requests[r].force /\ ~requests[r].retried

\* The sequence Draft.set writes over an existing draft.
Following(r) == (IF Forced(r) THEN draft_sequences ELSE requests[r].sequence) + 1

Accepted_Always_M(r) == HasDraft \/ requests[r].sequence = draft_sequences

Accepted(r) == (Forced(r) /\ HasDraft) \/ requests[r].sequence = draft_sequences

\* Draft.set's first statement, and what it decides.
Select(r) ==
  /\ requests[r].at = "select"
  /\ \/ /\ Accepted(r)
        /\ HasDraft
        /\ requests' = [requests EXCEPT ![r].at = "upsert", ![r].draft_id = drafts.id,
                                        ![r].sequence = Following(r)]
     \/ /\ Accepted(r)
        /\ ~HasDraft
        /\ GoOn(r, "insert")
     \/ /\ ~Accepted(r)
        /\ GoOn(r, IF requests[r].retried THEN "conflict" ELSE "exists")
  /\ UNCHANGED <<drafts, draft_sequences, composers, faults>>

\* DraftSequence.upsert: the sequence is what this request says, whatever it
\* has become since Select.
Upsert(r) ==
  /\ requests[r].at = "upsert"
  /\ draft_sequences' = requests[r].sequence
  /\ GoOn(r, "update")
  /\ UNCHANGED <<drafts, composers, faults>>

Written_KeepsSequence_M(r) == [drafts EXCEPT !.data = r, !.revisions = @ + 1]

Written(r) == [drafts EXCEPT !.sequence = requests[r].sequence,
                             !.data = r, !.revisions = @ + 1]

Matches(r) == HasDraft /\ drafts.id = requests[r].draft_id

\* UPDATE drafts ... WHERE id = draft_id, of no row when the draft is gone.
Update(r) ==
  /\ requests[r].at = "update"
  /\ drafts' = IF Matches(r) THEN Written(r) ELSE drafts
  /\ requests' = [requests EXCEPT ![r].at = "saved", ![r].draft_id = 0]
  /\ UNCHANGED <<draft_sequences, composers, faults>>

\* INSERT INTO drafts ... ON CONFLICT DO UPDATE.
Insert(r) ==
  /\ requests[r].at = "insert"
  /\ drafts' = [id |-> IF HasDraft THEN drafts.id ELSE r,
                sequence |-> requests[r].sequence, data |-> r,
                revisions |-> drafts.revisions + 1]
  /\ GoOn(r, "saved")
  /\ UNCHANGED <<draft_sequences, composers, faults>>

\* DraftsController#create rescues OutOfSequence: a draft that is there is a
\* conflict, otherwise the text is saved with the current sequence.
Exists(r) ==
  /\ requests[r].at = "exists"
  /\ GoOn(r, IF HasDraft THEN "conflict" ELSE "current")
  /\ UNCHANGED <<drafts, draft_sequences, composers, faults>>

Current(r) ==
  /\ requests[r].at = "current"
  /\ requests' = [requests EXCEPT ![r].at = "select", ![r].sequence = draft_sequences,
                                  ![r].retried = TRUE]
  /\ UNCHANGED <<drafts, draft_sequences, composers, faults>>

Superseded_OffByOne_M(sequence) == drafts.sequence < sequence - 1

\* The drafts next! destroys once it has advanced the sequence.
Superseded(sequence) == drafts.sequence < sequence

Advanced_Restarts_M == 1

Advanced_Twice_M == draft_sequences + 2

Advanced == draft_sequences + 1

\* DraftSequence.next! in the transaction that creates the post.
NextSequence(r) ==
  /\ requests[r].at = "next"
  /\ draft_sequences' = Advanced
  /\ drafts' = IF Superseded(Advanced) THEN NoDraft ELSE drafts
  /\ GoOn(r, "posted")
  /\ UNCHANGED <<composers, faults>>

\* Draft.clear: the sequence is checked, then the draft there is destroyed.  A
\* wrong sequence is rescued by the controller, which answers success.
CheckClear(r) ==
  /\ requests[r].at = "check"
  /\ GoOn(r, IF requests[r].sequence = draft_sequences THEN "destroy" ELSE "cleared")
  /\ UNCHANGED <<drafts, draft_sequences, composers, faults>>

Destroy(r) ==
  /\ requests[r].at = "destroy"
  /\ drafts' = NoDraft
  /\ GoOn(r, "cleared")
  /\ UNCHANGED <<draft_sequences, composers, faults>>

\* Draft.cleanup!, a daily job, destroys a draft that fell behind.
cleanup ==
  /\ WorkerFree
  /\ HasDraft
  /\ drafts.sequence < draft_sequences
  /\ drafts' = NoDraft
  /\ requests' = [q \in DOMAIN requests |-> Disturbed(q)]
  /\ UNCHANGED <<draft_sequences, composers, faults>>

\* The worker dies; the proxy answers its window with an error.
Kill(r) ==
  /\ faults.losses + faults.kills < MaxFaults
  /\ Running(r)
  /\ requests' = [requests EXCEPT ![r].at = "killed"]
  /\ composers' = [w \in Windows |->
       [composers[w] EXCEPT
          !.draftStatus = IF composers[w].saving = r THEN "offline" ELSE @,
          !.saving = IF @ = r THEN 0 ELSE @,
          !.leaving = IF @ = r THEN 0 ELSE @]]
  /\ faults' = [faults EXCEPT !.kills = @ + 1]
  /\ UNCHANGED <<drafts, draft_sequences>>

Server(r) ==
  \/ Start(r) \/ Select(r) \/ Upsert(r) \/ Update(r) \/ Insert(r) \/ Exists(r)
  \/ Current(r) \/ NextSequence(r) \/ CheckClear(r) \/ Destroy(r) \/ Kill(r)

Next ==
  \/ \E w \in Windows : Browser(w)
  \/ \E r \in DOMAIN requests : Server(r)
  \/ cleanup

Spec == Init /\ [][Next]_vars

-----------------------------------------------------------------------------
(* Properties. *)

Texts == 0 .. Old
SequenceBound == MaxRequests + 1

\* Every column and field keeps to its range; each request moves the sequence
\* by at most one (draft_sequence.rb next!, draft.rb set).
TypeOK ==
  /\ drafts \in [id : Texts, sequence : 0 .. SequenceBound, data : Texts,
                 revisions : 0 .. MaxRequests + 2]
  /\ draft_sequences \in 0 .. SequenceBound
  /\ \A w \in Windows : composers[w].saving \in 0 .. Len(requests)
  /\ \A r \in DOMAIN requests : requests[r].window \in Windows

\* The draft that is now d is text a window sent itself or loaded on opening.
Known(r, d) == d = requests[r].base \/ (d \in DOMAIN requests /\ requests[d].window = requests[r].window)

Sender == drafts'.data

\* A save puts its text in the place of a text its window has never seen, and
\* the user did not say that conflicts are to be ignored.
BlindOverwrite ==
  /\ drafts.data # 0
  /\ drafts'.data \notin {0, drafts.data}
  /\ ~requests[Sender].force
  /\ ~Known(Sender, drafts.data)

\* Requests were served one at a time and in the order sent, and no worker died.
Orderly ==
  /\ faults.kills = 0
  /\ \A r \in DOMAIN requests : requests[r].alone /\ ~requests[r].late

\* "Draft is being edited in another window": if requests were served one at a
\* time and in order, a save overwrites what another window saved only if that
\* was the first save of the draft, which leaves the sequence alone, or if the
\* window's own save before failed, which leaves its sequence counted up
\* (draft.rb:52-94, composer.js 1362-1372).
BlindOverwriteIsBounded ==
  [][BlindOverwrite /\ Orderly =>
       drafts.revisions = 1 \/ requests[Sender].status # "none"]_vars

\* The sequence never returns to a value it had before, so an answer or a page
\* of that time cannot pass for a current one, unless by a save that was served
\* beside another request (draft.rb:58-63).
SequenceNeverDecreases ==
  [][draft_sequences' < draft_sequences =>
       \E r \in DOMAIN requests : requests[r].at = "upsert" /\ ~requests[r].alone]_vars

\* Text sent before the window posted is no draft any more, unless its save was
\* served beside the post or after it (draft_sequence.rb:23,
\* spec/models/draft_spec.rb:260).
PostedDraftGone ==
  \A r \in DOMAIN requests :
    requests[r].at = "posted" /\ drafts.data \in 1 .. r - 1 =>
      \/ requests[drafts.data].window # requests[r].window
      \/ requests[drafts.data].late
      \/ ~requests[drafts.data].alone

\* A save that is answered with success and was served alone has stored its
\* text, and it is the draft the server shows: whatever requests that overlapped
\* or died before left behind (draft.rb:50-94, 105-132).
SavedIsServed ==
  [][\A r \in DOMAIN requests :
       requests[r].at # "saved" /\ requests'[r].at = "saved" /\ requests[r].alone =>
         drafts'.data = r /\ drafts'.sequence = draft_sequences']_vars
=============================================================================
