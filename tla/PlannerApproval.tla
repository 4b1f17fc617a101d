--------------------------- MODULE PlannerApproval ---------------------------
(***************************************************************************)
(* Student 4's Smart Planner between the Multi-Agent Server, which keeps   *)
(* the run and the one human decision on it (RunLifecycle), and Student 1, *)
(* which keeps the activities of a trip.  The backend holds no state: a    *)
(* review is a GET, a POST of the decision and one PUT per activity, and   *)
(* people review, regenerate and edit the trip at the same time.           *)
(*                                                                         *)
(* The changes a run puts before the human are the activity cards of its   *)
(* result.  What the trip holds is anyone's to change at any time, so a    *)
(* read of it may find any of the cards; a PUT is counted when it is sent. *)
(***************************************************************************)
EXTENDS Naturals, FiniteSets, TLC

CONSTANTS Runs, Activities,
          Users,
          Styles,   \* whether a review stages one decision per card
          MaxLate,  \* how many calls may be under way after their caller gave up
          NoRun

ASSUME PlannerAssumption == /\ Styles \subseteq BOOLEAN
                            /\ MaxLate \in Nat
                            /\ NoRun \notin Runs

VARIABLES phase, shown, decision, approved,  \* RunLifecycle
          sound,      \* whether a run's result is grounded and passed its checks
          parent,     \* metadata: the run a run replaces
          requests,   \* what each user's request does next
          mail,       \* calls whose caller gave up and that still may arrive
          sent        \* how often a review has sent a PUT for an activity

server == <<phase, shown, decision, approved>>
vars == <<phase, shown, decision, approved, sound, parent, requests, mail, sent>>

Server == INSTANCE RunLifecycle WITH Actions <- Activities

Idle == [at |-> "idle"]
Verdict == {"approve", "correct", "reject"}
Request ==
  {Idle}
  \cup [at : {"check"}, run : Runs, verdict : Verdict, cards : SUBSET Activities,
        staged : BOOLEAN]
  \cup [at : {"decide"}, run : Runs, verdict : Verdict, cards : SUBSET Activities,
        staged : BOOLEAN, existing : SUBSET Activities]
  \cup [at : {"save"}, run : Runs, left : (SUBSET Activities) \ {{}}, staged : BOOLEAN,
        existing : SUBSET Activities]
  \cup [at : {"reject", "start"}, run : Runs]
Message == [to : {"review"}, run : Runs, verdict : Verdict, cards : SUBSET Activities]
           \cup [to : {"runs"}, parent : Runs]

Init == /\ Server!Init
        /\ sound = [r \in Runs |-> FALSE]
        /\ parent = [r \in Runs |-> NoRun]
        /\ requests = [u \in Users |-> Idle]
        /\ mail = {}
        /\ sent = [r \in Runs |-> [a \in Activities |-> 0]]

Becomes(u, request) == requests' = [requests EXCEPT ![u] = request]

\* The caller of a call times out; the call itself may still arrive.
GivesUp(u, message) == /\ Cardinality(mail) < MaxLate
                       /\ mail' = mail \cup {message}
                       /\ Becomes(u, Idle)
                       /\ UNCHANGED <<server, sound, parent, sent>>

-----------------------------------------------------------------------------
(* The Multi-Agent Server                                                  *)

StartRun(r) == /\ Server!Create(r)
               /\ UNCHANGED <<sound, parent, requests, mail, sent>>

ServerWorks(r) ==
  /\ \/ Server!Fail(r) /\ UNCHANGED sound
     \/ Server!Present(r) /\ \E good \in BOOLEAN : sound' = [sound EXCEPT ![r] = good]
  /\ UNCHANGED <<parent, requests, mail, sent>>

\* The decision the backend posts.
ServerDecides(r, verdict, cards) ==
  \/ verdict = "approve" /\ Server!Approve(r)
  \/ verdict = "correct" /\ Server!Correct(r) /\ approved'[r] = cards
  \/ verdict = "reject" /\ Server!Reject(r)

-----------------------------------------------------------------------------
(* POST /activity/planner/runs/{run_id}/review                             *)

\* Mutant: a correction may keep any activity.
Retains_Any(r, kept) == TRUE

\* Cards a correction may keep.
Retains(r, kept) == kept \subseteq shown[r]

\* GET the run; the selected cards must be in the answer the reviewer keeps,
\* which is the original one unless the reviewer corrects it.
ReviewReads(u, r, kept, cards, corrects, staged) ==
  /\ requests[u] = Idle
  /\ phase[r] = "awaiting"
  /\ sound[r]
  /\ IF corrects THEN Retains(r, kept) /\ ~staged ELSE kept = shown[r]
  /\ cards \subseteq kept
  /\ kept /= {} \/ staged => cards /= {}
  /\ LET verdict == IF corrects \/ cards /= shown[r] THEN "correct" ELSE "approve"
     IN  Becomes(u, IF cards = {}
                    THEN [at |-> "decide", run |-> r, verdict |-> verdict, cards |-> {},
                          staged |-> staged, existing |-> {}]
                    ELSE [at |-> "check", run |-> r, verdict |-> verdict, cards |-> cards,
                          staged |-> staged])
  /\ UNCHANGED <<server, sound, parent, mail, sent>>

RejectReads(u, r) ==
  /\ requests[u] = Idle
  /\ phase[r] = "awaiting"
  /\ Becomes(u, [at |-> "decide", run |-> r, verdict |-> "reject", cards |-> {},
                 staged |-> FALSE, existing |-> {}])
  /\ UNCHANGED <<server, sound, parent, mail, sent>>

\* The activities the trip has before the decision is recorded.
Preflight(u, existing) ==
  LET request == requests[u]
  IN  /\ request.at = "check"
      /\ existing \subseteq request.cards
      /\ Becomes(u, [at |-> "decide", run |-> request.run, verdict |-> request.verdict,
                     cards |-> request.cards, staged |-> request.staged,
                     existing |-> existing])
      /\ UNCHANGED <<server, sound, parent, mail, sent>>

\* Mutant: the request does not end with its last card.
Saving_Endless(request, left) ==
  [at |-> "save", run |-> request.run, left |-> left, staged |-> request.staged,
   existing |-> request.existing]

\* What the request does once its decision is confirmed.
Saving(request, left) ==
  IF left = {} THEN Idle
  ELSE [at |-> "save", run |-> request.run, left |-> left, staged |-> request.staged,
        existing |-> request.existing]

\* Mutant: a run someone else has closed is taken for confirmed.
Decides_IgnoresConflict(u) ==
  LET request == requests[u]
  IN  /\ request.at = "decide"
      /\ IF phase[request.run] = "awaiting"
         THEN ServerDecides(request.run, request.verdict, request.cards)
         ELSE UNCHANGED server
      /\ Becomes(u, Saving(request, request.cards))
      /\ UNCHANGED <<sound, parent, mail, sent>>

Decides(u) ==
  LET request == requests[u]
  IN  /\ request.at = "decide"
      /\ ServerDecides(request.run, request.verdict, request.cards)
      /\ Becomes(u, Saving(request, request.cards))
      /\ UNCHANGED <<sound, parent, mail, sent>>

\* The POST times out and nothing is saved.
DecisionUnheard(u) ==
  /\ requests[u].at = "decide"
  /\ GivesUp(u, [to |-> "review", run |-> requests[u].run,
                 verdict |-> requests[u].verdict, cards |-> requests[u].cards])

Sends(u, a) == /\ requests[u].at = "save"
               /\ a \in requests[u].left
               /\ requests[u].staged \/ a \notin requests[u].existing
               /\ sent' = [sent EXCEPT ![requests[u].run][a] = @ + 1]

SaveSkips(u, a) ==
  /\ requests[u].at = "save"
  /\ a \in requests[u].left \cap requests[u].existing
  /\ ~requests[u].staged
  /\ Becomes(u, Saving(requests[u], requests[u].left \ {a}))
  /\ UNCHANGED <<server, sound, parent, mail, sent>>

\* Mutant: an addition that is not confirmed is tried again.
SavePuts_Retries(u, a) ==
  /\ Sends(u, a)
  /\ \E confirmed \in BOOLEAN :
       Becomes(u, IF confirmed THEN Saving(requests[u], requests[u].left \ {a})
                               ELSE requests[u])
  /\ UNCHANGED <<server, sound, parent, mail>>

\* A PUT that is not confirmed is reported, never repeated, and the others go on.
SavePuts(u, a) ==
  /\ Sends(u, a)
  /\ Becomes(u, Saving(requests[u], requests[u].left \ {a}))
  /\ UNCHANGED <<server, sound, parent, mail>>

-----------------------------------------------------------------------------
(* POST /activity/planner/runs/{run_id}/regenerate                         *)

RegenerateReads(u, r) ==
  /\ requests[u] = Idle
  /\ phase[r] = "awaiting"
  /\ Becomes(u, [at |-> "reject", run |-> r])
  /\ UNCHANGED <<server, sound, parent, mail, sent>>

\* Mutant: the replacement is started whatever became of the rejection.
RegenerateRejects_Unconfirmed(u) ==
  /\ requests[u].at = "reject"
  /\ IF phase[requests[u].run] = "awaiting" THEN Server!Reject(requests[u].run)
                                            ELSE UNCHANGED server
  /\ Becomes(u, [at |-> "start", run |-> requests[u].run])
  /\ UNCHANGED <<sound, parent, mail, sent>>

RegenerateRejects(u) ==
  /\ requests[u].at = "reject"
  /\ Server!Reject(requests[u].run)
  /\ Becomes(u, [at |-> "start", run |-> requests[u].run])
  /\ UNCHANGED <<sound, parent, mail, sent>>

RejectionUnheard(u) ==
  /\ requests[u].at = "reject"
  /\ GivesUp(u, [to |-> "review", run |-> requests[u].run, verdict |-> "reject", cards |-> {}])

RegenerateStarts(u, r) ==
  /\ requests[u].at = "start"
  /\ Server!Create(r)
  /\ parent' = [parent EXCEPT ![r] = requests[u].run]
  /\ Becomes(u, Idle)
  /\ UNCHANGED <<sound, mail, sent>>

StartUnheard(u) == /\ requests[u].at = "start"
                   /\ GivesUp(u, [to |-> "runs", parent |-> requests[u].run])

\* The request ends with an error, or with the backend, at any point.
Refuse(u) == /\ requests[u] /= Idle
             /\ Becomes(u, Idle)
             /\ UNCHANGED <<server, sound, parent, mail, sent>>

-----------------------------------------------------------------------------
(* Calls that arrive after their caller gave up                            *)

LateDecision(m) == /\ m.to = "review"
                   /\ ServerDecides(m.run, m.verdict, m.cards)
                   /\ UNCHANGED <<sound, parent>>

LateStart(m, r) == /\ m.to = "runs"
                   /\ Server!Create(r)
                   /\ parent' = [parent EXCEPT ![r] = m.parent]
                   /\ UNCHANGED sound

Arrives(m) == /\ LateDecision(m) \/ \E r \in Runs : LateStart(m, r)
              /\ mail' = mail \ {m}
              /\ UNCHANGED <<requests, sent>>

-----------------------------------------------------------------------------
UserStep(u) ==
  \/ \E r \in Runs : \/ \E kept, cards \in SUBSET Activities, corrects \in BOOLEAN,
                           staged \in Styles : ReviewReads(u, r, kept, cards, corrects, staged)
                     \/ RejectReads(u, r) \/ RegenerateReads(u, r) \/ RegenerateStarts(u, r)
  \/ \E existing \in SUBSET Activities : Preflight(u, existing)
  \/ Decides(u) \/ DecisionUnheard(u)
  \/ \E a \in Activities : SaveSkips(u, a) \/ SavePuts(u, a)
  \/ RegenerateRejects(u) \/ RejectionUnheard(u) \/ StartUnheard(u)
  \/ Refuse(u)

Next == \/ \E u \in Users : UserStep(u)
        \/ \E r \in Runs : StartRun(r) \/ ServerWorks(r)
        \/ \E m \in mail : Arrives(m)

Spec == Init /\ [][Next]_vars

-----------------------------------------------------------------------------
\* The server's runs and the requests in flight.
TypeOK ==
  /\ phase \in [Runs -> {"none", "active", "awaiting", "completed", "rejected", "failed"}]
  /\ shown \in [Runs -> SUBSET Activities]
  /\ decision \in [Runs -> Verdict \cup {"none"}]
  /\ approved \in [Runs -> SUBSET Activities]
  /\ sound \in [Runs -> BOOLEAN]
  /\ parent \in [Runs -> Runs \cup {NoRun}]
  /\ requests \in [Users -> Request]
  /\ mail \subseteq Message
  /\ sent \in [Runs -> [Activities -> Nat]]

\* backend-service-api.md of student 4: "After the shared server confirms
\* completion and the approved result" the backend adds what was approved.  A
\* review that lost to another one, or to a regeneration, adds nothing.
AddedOnlyApproved ==
  \A r \in Runs, a \in Activities :
    sent[r][a] > 0 => phase[r] = "completed" /\ a \in approved[r]

\* "... calls the existing Student 1 activity itinerary API once per selected
\* item", also when two people approve the same run or a call is not answered.
OncePerItem == \A r \in Runs, a \in Activities : sent[r][a] <= 1

\* "Corrections may retain only activity IDs present in the original Worker
\* result", and a result with failed checks can only be rejected: the server
\* alone accepts any correction of any run.
ApprovedWereShown ==
  \A r \in Runs : approved[r] \subseteq (IF sound[r] THEN shown[r] ELSE {})

\* From what was shown to what is on the trip: an addition was approved by the
\* recorded decision, what that approved had been shown, and it is added once.
AddedAsDecided == TypeOK /\ AddedOnlyApproved /\ ApprovedWereShown /\ OncePerItem

\* A run is replaced at most once, and only after its rejection was recorded,
\* whoever else reviews or regenerates it meanwhile.
OneReplacement ==
  /\ \A r \in Runs : parent[r] /= NoRun => phase[parent[r]] = "rejected"
  /\ \A r1, r2 \in Runs : parent[r1] = parent[r2] /\ parent[r1] /= NoRun => r1 = r2

\* For TLC: users, activities and runs are told apart by nothing but their state.
Symmetry == Permutations(Users) \cup Permutations(Activities) \cup Permutations(Runs)
=============================================================================
