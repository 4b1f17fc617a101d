---------------------------- MODULE AgentReviews ----------------------------
(***************************************************************************)
(* The agent runs of student 2 (stays) and student 3 (transport): a run on *)
(* the Multi-Agent Server suggests listings, a person ticks some of them   *)
(* on a page, and the backend records the decision and then adds what was  *)
(* approved to the trip, one listing after the other.  The backends keep   *)
(* nothing: a review is a GET, a POST and one write per listing, and it    *)
(* never looks at the status of the run it reads.                          *)
(*                                                                         *)
(* A result is a list, here a set of suggestions that carry their places;  *)
(* a correction keeps the places of what it keeps, which nobody reads.     *)
(* There are two readings of it: the server proposes every item up to      *)
(* MAX_PROPOSED_ACTIONS, the backends drop the items without a reason and  *)
(* number the others anew.  Both call an item by these numbers.            *)
(*                                                                         *)
(* A listing is its id as the Worker writes it.  Student 2 takes no notice *)
(* of its case when it looks an id up among those of the tools, and does   *)
(* when it drops repeats; any set of ids may be grounded.                  *)
(***************************************************************************)
EXTENDS Naturals, FiniteSets, TLC

CONSTANTS Runs, Listings,
          Reviewers,  \* who decides on the page and ...
          Callers,    \* ... who calls the backend's route directly
          MaxResult,      \* how long a Worker's list may get
          MaxSuggestions, \* ... how long the output schema lets it be
          MaxProposed,    \* MAX_PROPOSED_ACTIONS
          NoAnswer

Places == 1..MaxResult
Suggestions == [place : Places, listing : Listings, reason : BOOLEAN]
Results == {list \in SUBSET Suggestions :
              /\ \E length \in 0..MaxResult : {s.place : s \in list} = 1..length
              /\ \A s1, s2 \in list : s1.place = s2.place => s1 = s2}

ASSUME ReviewsAssumption == /\ MaxResult \in Nat /\ MaxSuggestions \in Nat
                            /\ MaxProposed \in Nat /\ MaxSuggestions <= MaxProposed

People == Reviewers \cup Callers

VARIABLES phase, shown, decision, approved,  \* the runs, RunLifecycle
          feature,   \* the feature that started a run
          onTrip,    \* whether it was started for a trip
          result,    \* what the Worker last answered
          grounded,  \* listings the tools of its last attempt returned
          basis,     \* the ticks of the page whose decision counts
          requests,  \* what each reviewer's request does next
          sent,      \* how often a listing was sent to the run's trip
          answer     \* the answer to the decision that counts

server == <<phase, shown, decision, approved>>
given == <<feature, onTrip>>
worker == <<result, grounded>>
vars == <<server, given, worker, basis, requests, sent, answer>>

Server == INSTANCE RunLifecycle WITH Actions <- Suggestions

Verdict == {"approve", "partial", "correct", "reject"}
Decision == [verdict : Verdict, ticked : SUBSET Places, overview : BOOLEAN,
             count : BOOLEAN, form : BOOLEAN]
Idle == [at |-> "idle"]
Request ==
  {Idle}
  \cup [at : {"read"}, run : Runs, sends : Decision]
  \cup [at : {"post"}, run : Runs, sends : Decision, kept : SUBSET Suggestions]
  \cup [at : {"save"}, run : Runs, left : SUBSET Listings, saved : SUBSET Listings,
        errors : SUBSET Listings]

ListingsOf(list) == {s.listing : s \in list}
At(list, places) == {s \in list : s.place \in places}
GroundedIn(list, r) == {s \in list : s.listing \in grounded[r]}

\* The two readings of a result, and the numbers a backend gives what it reads.
Proposed(list) == {s \in list : s.place <= MaxProposed}
Readable(list) == {s \in list : s.reason}
Number(list, s) == Cardinality({t.place : t \in Readable(list)} \cap 1..s.place)
Numbers(list, part) == {Number(list, s) : s \in part}
Numbered(list, numbers) == {s \in Readable(list) : Number(list, s) \in numbers}

Init == /\ Server!Init
        /\ feature \in [Runs -> {"stays", "transport"}]
        /\ onTrip \in [Runs -> BOOLEAN]
        /\ result = [r \in Runs |-> {}]
        /\ grounded = [r \in Runs |-> {}]
        /\ basis = [r \in Runs |-> NoAnswer]
        /\ requests = [u \in People |-> Idle]
        /\ sent = [r \in Runs |-> [l \in Listings |-> 0]]
        /\ answer = [r \in Runs |-> NoAnswer]

Becomes(u, request) == requests' = [requests EXCEPT ![u] = request]

-----------------------------------------------------------------------------
(* The Multi-Agent Server                                                  *)

StartRun(r) == Server!Create(r) /\ UNCHANGED <<given, worker, basis, requests, sent, answer>>

\* A Worker attempt: every attempt replaces the answer and the tool trace.
WorkerAnswers(r, list, found) ==
  /\ phase[r] = "active"
  /\ result' = [result EXCEPT ![r] = list]
  /\ grounded' = [grounded EXCEPT ![r] = found]
  /\ UNCHANGED <<server, given, basis, requests, sent, answer>>

RunSettles(r) == /\ \/ /\ Server!Move(r, "active", "awaiting")
                       /\ shown' = [shown EXCEPT ![r] = Proposed(result[r])]
                       /\ UNCHANGED <<decision, approved>>
                    \/ Server!Fail(r)
                 /\ UNCHANGED <<given, worker, basis, requests, sent, answer>>

\* Numbers are taken for places of what the run proposes; a corrected result has to
\* keep the output schema.
ServerDecides(r, verdict, ticked, kept) ==
  \/ verdict = "approve" /\ Server!Approve(r)
  \/ /\ verdict = "partial"
     /\ ticked \subseteq {s.place : s \in shown[r]}
     /\ Server!AcceptPart(r)
     /\ approved'[r] = At(shown[r], ticked)
  \/ /\ verdict = "correct"
     /\ kept = Readable(kept) /\ Cardinality(kept) <= MaxSuggestions
     /\ Server!Move(r, "awaiting", "completed") /\ Server!Decide(r, "correct", kept)
  \/ verdict = "reject" /\ Server!Reject(r)

-----------------------------------------------------------------------------
(* The pages                                                               *)

\* Which suggestions have a tick box on the page.
Tickable(r) == GroundedIn(Readable(result[r]), r)
Offered(r) ==
  Numbers(result[r], IF feature[r] = "stays" THEN Readable(result[r]) ELSE Tickable(r))

\* Mutant: "Approve ticked" is sent as an approval whatever is ticked.
FormVerdict_All(r, button, ticked) == button

\* What the buttons of the page send: fewer ticks than boxes make an approval partial.
FormVerdict(r, button, ticked) ==
  IF button = "approve" /\ ticked /= Offered(r) THEN "partial" ELSE button

\* A page shows its form only for a run that waits for its decision; a listing no
\* tool returned has no box to tick.  What nobody reads of a form is left out.
FormSends(u, r, button, ticked, overview, count) ==
  /\ phase[r] = "awaiting"
  /\ ticked \subseteq Numbers(result[r], Tickable(r))
  /\ feature[r] = "stays" /\ button = "approve" /\ Offered(r) /= {} => ticked /= {}
  /\ overview => button = "correct" /\ ticked = {}
  /\ button = "reject" => ticked = {}
  /\ count => feature[r] = "transport" /\ onTrip[r]
  /\ Becomes(u, [at |-> "read", run |-> r, sends |->
                  [verdict |-> FormVerdict(r, button, ticked), ticked |-> ticked,
                   overview |-> overview, count |-> count, form |-> TRUE]])
  /\ UNCHANGED <<server, given, worker, basis, sent, answer>>

\* The route is public: a caller without the page may send any decision at any time.
\* What the route ignores is left out.
CallerSends(u, r, sends) ==
  /\ phase[r] /= "none"
  /\ ~sends.form
  /\ sends.overview => sends.verdict = "correct" /\ sends.ticked = {}
  /\ sends.verdict \in {"approve", "reject"} => sends.ticked = {}
  /\ sends.count => feature[r] = "transport" /\ onTrip[r] /\ sends.verdict /= "reject"
  /\ Becomes(u, [at |-> "read", run |-> r, sends |-> sends])
  /\ UNCHANGED <<server, given, worker, basis, sent, answer>>

-----------------------------------------------------------------------------
(* POST .../agent-runs/{run_id}/review                                     *)

\* Mutant: how many travel is never asked.
CountMissing_Never(r, sends) == FALSE

\* Student 3: what is added to a trip needs the number of travellers.
CountMissing(r, sends) ==
  /\ feature[r] = "transport"
  /\ sends.verdict /= "reject"
  /\ onTrip[r]
  /\ Tickable(r) /= {}
  /\ ~sends.count

\* Mutant: the ids are sent in place of the suggestions.
Kept_Ids(r, sends) == IF sends.verdict = "correct" THEN ListingsOf(result[r]) ELSE {}

\* review_body: a correction without ticks keeps every item as it is.
Kept(r, sends) ==
  IF sends.verdict /= "correct" THEN {}
  ELSE IF sends.ticked = {} THEN result[r] ELSE Numbered(result[r], sends.ticked)

ReviewReads(u) ==
  LET request == requests[u]
      r == request.run
      sends == request.sends
  IN  /\ request.at = "read"
      /\ sends.ticked \subseteq Numbers(result[r], Readable(result[r]))
      /\ sends.verdict = "partial" => sends.ticked /= {}
      /\ sends.verdict = "correct" => sends.ticked /= {} \/ sends.overview
      /\ ~CountMissing(r, sends)
      /\ Becomes(u, [at |-> "post", run |-> r, sends |-> sends, kept |-> Kept(r, sends)])
      /\ UNCHANGED <<server, given, worker, basis, sent, answer>>

\* What is added once the decision is confirmed.
Saving(r, sends, list) ==
  [at |-> "save", run |-> r, saved |-> {}, errors |-> {},
   left |-> IF onTrip[r] /\ (feature[r] = "stays" \/ sends.count)
            THEN ListingsOf(list) ELSE {}]

Basis(sends) == IF sends.form THEN sends.ticked ELSE NoAnswer

ReviewPosts(u) ==
  LET request == requests[u]
      r == request.run
  IN  /\ request.at = "post"
      /\ ServerDecides(r, request.sends.verdict, request.sends.ticked, request.kept)
      /\ basis' = [basis EXCEPT ![r] = Basis(request.sends)]
      /\ Becomes(u, Saving(r, request.sends, approved'[r]))
      /\ UNCHANGED <<given, worker, sent, answer>>

\* The decision is carried out, but its answer does not arrive: nothing is added.
ReviewUnheard(u) ==
  LET request == requests[u]
      r == request.run
  IN  /\ request.at = "post"
      /\ ServerDecides(r, request.sends.verdict, request.sends.ticked, request.kept)
      /\ basis' = [basis EXCEPT ![r] = Basis(request.sends)]
      /\ Becomes(u, Idle)
      /\ UNCHANGED <<given, worker, sent, answer>>

SaveRefuses(u, l) ==
  /\ requests[u].at = "save"
  /\ l \in requests[u].left \ grounded[requests[u].run]
  /\ Becomes(u, [requests[u] EXCEPT !.left = @ \ {l}, !.errors = @ \cup {l}])
  /\ UNCHANGED <<server, given, worker, basis, sent, answer>>

\* Mutant: a write that is not confirmed is tried again.
SaveWrites_Retries(u, l) ==
  /\ requests[u].at = "save"
  /\ l \in requests[u].left \cap grounded[requests[u].run]
  /\ sent' = [sent EXCEPT ![requests[u].run][l] = @ + 1]
  /\ \/ Becomes(u, [requests[u] EXCEPT !.left = @ \ {l}, !.saved = @ \cup {l}])
     \/ Becomes(u, requests[u])
  /\ UNCHANGED <<server, given, worker, basis, answer>>

\* A write that fails, or is not confirmed, is reported; the others go on.
SaveWrites(u, l) ==
  /\ requests[u].at = "save"
  /\ l \in requests[u].left \cap grounded[requests[u].run]
  /\ sent' = [sent EXCEPT ![requests[u].run][l] = @ + 1]
  /\ \/ Becomes(u, [requests[u] EXCEPT !.left = @ \ {l}, !.saved = @ \cup {l}])
     \/ Becomes(u, [requests[u] EXCEPT !.left = @ \ {l}, !.errors = @ \cup {l}])
  /\ UNCHANGED <<server, given, worker, basis, answer>>

Answers(u) ==
  /\ requests[u].at = "save"
  /\ requests[u].left = {}
  /\ answer' = [answer EXCEPT ![requests[u].run] =
                  [saved |-> requests[u].saved, errors |-> requests[u].errors]]
  /\ Becomes(u, Idle)
  /\ UNCHANGED <<server, given, worker, basis, sent>>

\* A refusal, an answer that cannot be shown, or a backend that stops.
Refuse(u) == /\ requests[u] /= Idle
             /\ Becomes(u, Idle)
             /\ UNCHANGED <<server, given, worker, basis, sent, answer>>

-----------------------------------------------------------------------------
Sends(u, r) ==
  /\ requests[u] = Idle
  /\ \/ /\ u \in Reviewers
        /\ \E button \in {"approve", "correct", "reject"}, ticked \in SUBSET Places,
              overview, count \in BOOLEAN : FormSends(u, r, button, ticked, overview, count)
     \/ u \in Callers /\ \E sends \in Decision : CallerSends(u, r, sends)

Step(u) ==
  \/ \E r \in Runs : Sends(u, r)
  \/ ReviewReads(u) \/ ReviewPosts(u) \/ ReviewUnheard(u)
  \/ \E l \in Listings : SaveRefuses(u, l) \/ SaveWrites(u, l)
  \/ Answers(u) \/ Refuse(u)

Next == \/ \E u \in People : Step(u)
        \/ \E r \in Runs : \/ StartRun(r) \/ RunSettles(r)
                           \/ \E list \in Results, found \in SUBSET Listings :
                                WorkerAnswers(r, list, found)

Spec == Init /\ [][Next]_vars

-----------------------------------------------------------------------------
\* The runs and the requests in flight.
TypeOK ==
  /\ phase \in [Runs -> {"none", "active", "awaiting", "completed", "rejected", "failed"}]
  /\ shown \in [Runs -> SUBSET Suggestions]
  /\ decision \in [Runs -> Verdict \cup {"none"}]
  /\ approved \in [Runs -> SUBSET Suggestions]
  /\ feature \in [Runs -> {"stays", "transport"}]
  /\ onTrip \in [Runs -> BOOLEAN]
  /\ result \in [Runs -> SUBSET Suggestions]
  /\ grounded \in [Runs -> SUBSET Listings]
  /\ basis \in [Runs -> (SUBSET Places) \cup {NoAnswer}]
  /\ requests \in [People -> Request]
  /\ sent \in [Runs -> [Listings -> Nat]]
  /\ answer \in [Runs -> [saved : SUBSET Listings, errors : SUBSET Listings] \cup {NoAnswer}]

\* "Only grounded ids are pinned" (agents.py), only for a run that was started for
\* a trip, only what the recorded decision approved, and each id once: also when two
\* people decide on the run, or a result names an id twice, with and without a reason.
AddedOnlyApproved ==
  \A r \in Runs, l \in Listings : sent[r][l] > 0 =>
    /\ sent[r][l] = 1
    /\ phase[r] = "completed" /\ onTrip[r]
    /\ l \in ListingsOf(approved[r]) \cap grounded[r]

\* "One failure does not undo the others or the decision": the answer to the
\* recorded decision names every approved listing that the page offered, as saved
\* or as failed, and claims nothing saved that was not sent.
AnswersTellAll ==
  \A r \in Runs : answer[r] /= NoAnswer =>
    /\ \A l \in answer[r].saved : sent[r][l] > 0
    /\ onTrip[r] /\ basis[r] /= NoAnswer =>
         ListingsOf(GroundedIn(Readable(approved[r]), r))
           \subseteq answer[r].saved \cup answer[r].errors

\* frontend-service.md of student 2: "all ticked is an approval, some ticked is sent
\* as a partial acceptance": what the trip may get is what was ticked on the page,
\* although an approval is sent without numbers and a part is resolved by the server.
\* This is true of a result the page shows as it is proposed; where the backend drops
\* an item, or the server does, the numbers of the two no longer agree.
TickedOnly ==
  \A r \in Runs :
    /\ decision[r] \in {"approve", "partial"} /\ basis[r] /= NoAnswer
    /\ Readable(result[r]) = Proposed(result[r])
    => GroundedIn(approved[r], r) = Numbered(result[r], basis[r])

\* From the ticks on the page to the writes on the trip: what is added was approved,
\* grounded and added once, and what was approved is what was ticked.
AddedAsTicked == TypeOK /\ AddedOnlyApproved /\ TickedOnly

\* For TLC: nothing tells one listing from another.
Interchangeable == Permutations(Listings)
=============================================================================
