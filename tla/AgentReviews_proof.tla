-------------------------- MODULE AgentReviews_proof --------------------------
(***************************************************************************)
(* TLAPS proofs about AgentReviews, for any runs, listings and people, any *)
(* results of the Workers and any overlap of reviews.                      *)
(***************************************************************************)
EXTENDS AgentReviews, FiniteSetTheorems, TLAPS

Closed == {"completed", "rejected"}

-----------------------------------------------------------------------------
(* Types                                                                   *)

ServerTyped ==
  /\ phase \in [Runs -> {"none", "active", "awaiting", "completed", "rejected", "failed"}]
  /\ shown \in [Runs -> SUBSET Suggestions]
  /\ decision \in [Runs -> Verdict \cup {"none"}]
  /\ approved \in [Runs -> SUBSET Suggestions]

LEMMA SuggestionTyped == \A s \in Suggestions : s.place \in Places /\ s.listing \in Listings
BY DEF Suggestions

\* What a request has when it goes on.
LEMMA RequestTyped ==
  ASSUME NEW request \in Request
  PROVE  /\ request.at \in {"read", "post", "save"} => request.run \in Runs
         /\ request.at \in {"read", "post"} =>
              /\ request.sends \in Decision
              /\ request.sends.verdict \in Verdict /\ request.sends.ticked \in SUBSET Places
              /\ request.sends.form \in BOOLEAN /\ request.sends.count \in BOOLEAN
         /\ request.at = "post" => request.kept \in SUBSET Suggestions
         /\ request.at = "save" =>
              /\ request \in [at : {"save"}, run : Runs, left : SUBSET Listings,
                              saved : SUBSET Listings, errors : SUBSET Listings]
              /\ request.left \in SUBSET Listings /\ request.saved \in SUBSET Listings
              /\ request.errors \in SUBSET Listings
         /\ request /= Idle => request.at \in {"read", "post", "save"}
BY DEF Request, Idle, Decision

LEMMA IdleTyped == Idle \in Request /\ Idle.at = "idle"
BY DEF Request, Idle

\* A decision that the server carries out: what it leaves of the run.
Outcome(r, verdict, ticked, kept) ==
  \E p \in Closed, acts \in SUBSET Suggestions :
    /\ phase' = [phase EXCEPT ![r] = p]
    /\ approved' = [approved EXCEPT ![r] = acts]
    /\ p = "completed" \/ acts = {}
    /\ verdict = "approve" => acts = shown[r]
    /\ verdict = "partial" => acts = At(shown[r], ticked)
    /\ verdict = "correct" => acts = kept
    /\ verdict = "reject" => acts = {}

LEMMA DecisionFacts ==
  ASSUME ServerTyped, NEW r \in Runs, NEW verdict \in Verdict, NEW ticked,
         NEW kept, verdict = "correct" => kept \in SUBSET Suggestions,
         ServerDecides(r, verdict, ticked, kept)
  PROVE  /\ phase[r] = "awaiting"
         /\ Outcome(r, verdict, ticked, kept)
         /\ decision' = [decision EXCEPT ![r] = verdict]
         /\ UNCHANGED shown
<1>1. CASE verdict = "approve" /\ Server!Approve(r)
  BY <1>1 DEF ServerTyped, Server!Approve, Server!Move, Server!Decide, Closed, Outcome
<1>2. CASE verdict = "partial" /\ Server!AcceptPart(r) /\ approved'[r] = At(shown[r], ticked)
  <2>1. PICK acts \in (SUBSET shown[r]) \ {{}} : Server!Decide(r, "partial", acts)
    BY <1>2 DEF Server!AcceptPart
  <2>2. acts = At(shown[r], ticked) /\ acts \in SUBSET Suggestions
    BY <1>2, <2>1 DEF Server!Decide, ServerTyped
  <2> QED
    BY <1>2, <2>1, <2>2 DEF Server!AcceptPart, Server!Move, Server!Decide, Closed, Outcome
<1>3. CASE verdict = "correct" /\ Server!Move(r, "awaiting", "completed")
                             /\ Server!Decide(r, "correct", kept)
  BY <1>3 DEF Server!Move, Server!Decide, Closed, Outcome
<1>4. CASE verdict = "reject" /\ Server!Reject(r)
  BY <1>4 DEF Server!Reject, Server!Move, Server!Decide, Closed, Outcome
<1> QED
  BY <1>1, <1>2, <1>3, <1>4 DEF ServerDecides

LEMMA InitTyped == Init => TypeOK
BY IdleTyped DEF Init, TypeOK, Server!Init

\* A request that becomes another one while nothing else changes.
LEMMA BecomeTyped ==
  ASSUME TypeOK, NEW u \in People, NEW request \in Request, Becomes(u, request),
         UNCHANGED <<server, given, worker, basis, sent, answer>>
  PROVE  TypeOK'
BY DEF TypeOK, Becomes, server, given, worker

\* What is kept of a result, and what is to be added, is of the result.
LEMMA ListsTyped ==
  ASSUME NEW list \in SUBSET Suggestions
  PROVE  /\ ListingsOf(list) \in SUBSET Listings
         /\ \A places : At(list, places) \in SUBSET list
         /\ \A r : GroundedIn(list, r) \in SUBSET list
         /\ Readable(list) \in SUBSET list /\ Proposed(list) \in SUBSET list
         /\ \A numbers : Numbered(list, numbers) \in SUBSET list
BY SuggestionTyped DEF ListingsOf, At, GroundedIn, Readable, Proposed, Numbered

LEMMA KeptTyped ==
  ASSUME NEW r \in Runs, NEW sends, result[r] \in SUBSET Suggestions
  PROVE  Kept(r, sends) \in SUBSET result[r]
BY ListsTyped DEF Kept

LEMMA SavingTyped ==
  ASSUME NEW r \in Runs, NEW sends, NEW list \in SUBSET Suggestions
  PROVE  Saving(r, sends, list) \in Request
<1>1. (IF onTrip[r] /\ (feature[r] = "stays" \/ sends.count) THEN ListingsOf(list) ELSE {})
        \in SUBSET Listings
  BY ListsTyped
<1> QED
  BY <1>1 DEF Saving, Request

\* A run of the server or of its Worker.
LEMMA RunStepTyped ==
  ASSUME TypeOK, NEW r \in Runs,
         \/ StartRun(r) \/ RunSettles(r)
         \/ \E list \in Results, found \in SUBSET Listings : WorkerAnswers(r, list, found)
  PROVE  TypeOK'
<1>1. CASE StartRun(r)
  BY <1>1 DEF StartRun, TypeOK, Server!Create, Server!Move, given, worker
<1>2. CASE RunSettles(r)
  <2>1. ServerTyped'
    <3>1. CASE Server!Move(r, "active", "awaiting")
               /\ shown' = [shown EXCEPT ![r] = Proposed(result[r])]
               /\ UNCHANGED <<decision, approved>>
      <4>1. Proposed(result[r]) \in SUBSET Suggestions
        BY ListsTyped DEF TypeOK
      <4> QED
        BY <3>1, <4>1 DEF TypeOK, ServerTyped, Server!Move
    <3>2. CASE Server!Fail(r)
      BY <3>2 DEF TypeOK, ServerTyped, Server!Fail, Server!Move
    <3> QED
      BY <1>2, <3>1, <3>2 DEF RunSettles
  <2> QED
    BY <1>2, <2>1 DEF RunSettles, TypeOK, ServerTyped, given, worker
<1>3. CASE \E list \in Results, found \in SUBSET Listings : WorkerAnswers(r, list, found)
  BY <1>3 DEF WorkerAnswers, TypeOK, Results, server, given
<1> QED
  BY <1>1, <1>2, <1>3

\* What a decision leaves, whether its answer is heard or not.
LEMMA ReviewTyped ==
  ASSUME TypeOK, NEW u \in People, ReviewPosts(u) \/ ReviewUnheard(u)
  PROVE  TypeOK'
<1> DEFINE request == requests[u]
           r == request.run
<1>1. /\ request.at = "post"
      /\ ServerDecides(r, request.sends.verdict, request.sends.ticked, request.kept)
      /\ basis' = [basis EXCEPT ![r] = Basis(request.sends)]
      /\ UNCHANGED <<given, worker, sent, answer>>
      /\ Becomes(u, Idle) \/ Becomes(u, Saving(r, request.sends, approved'[r]))
  BY DEF ReviewPosts, ReviewUnheard
<1>2. request \in Request
  BY DEF TypeOK
<1>3. /\ r \in Runs /\ request.sends.verdict \in Verdict
      /\ request.sends.ticked \in SUBSET Places /\ request.kept \in SUBSET Suggestions
  BY <1>1, <1>2, RequestTyped
<1>4. ServerTyped
  BY DEF TypeOK, ServerTyped
<1>5. ServerTyped'
  <2> HIDE DEF request, r
  <2>1. PICK p \in Closed, acts \in SUBSET Suggestions :
          phase' = [phase EXCEPT ![r] = p] /\ approved' = [approved EXCEPT ![r] = acts]
    BY <1>1, <1>3, <1>4, DecisionFacts DEF Outcome
  <2>2. decision' = [decision EXCEPT ![r] = request.sends.verdict] /\ UNCHANGED shown
    BY <1>1, <1>3, <1>4, DecisionFacts
  <2> QED
    BY <1>3, <1>4, <2>1, <2>2 DEF ServerTyped, Closed
<1>6. basis' \in [Runs -> (SUBSET Places) \cup {NoAnswer}]
  BY <1>1, <1>3 DEF TypeOK, Basis
<1>7. requests' \in [People -> Request]
  <2>1. Saving(r, request.sends, approved'[r]) \in Request
    BY <1>3, <1>5, SavingTyped DEF ServerTyped
  <2> HIDE DEF r, request
  <2> QED
    BY <1>1, <2>1, IdleTyped DEF TypeOK, Becomes
<1> QED
  BY <1>1, <1>5, <1>6, <1>7 DEF TypeOK, ServerTyped, given, worker

LEMMA StepTyped ==
  ASSUME TypeOK, NEW u \in People, Step(u)
  PROVE  TypeOK'
<1>0. requests[u] \in Request
  BY DEF TypeOK
<1>1. ASSUME NEW r \in Runs, Sends(u, r) PROVE TypeOK'
  <2>1. ASSUME NEW button \in {"approve", "correct", "reject"}, NEW ticked \in SUBSET Places,
               NEW overview \in BOOLEAN, NEW count \in BOOLEAN,
               FormSends(u, r, button, ticked, overview, count)
        PROVE  TypeOK'
    <3> DEFINE sends == [verdict |-> FormVerdict(r, button, ticked), ticked |-> ticked,
                         overview |-> overview, count |-> count, form |-> TRUE]
    <3>1. sends \in Decision
      BY DEF Decision, FormVerdict, Verdict
    <3>2. [at |-> "read", run |-> r, sends |-> sends] \in Request
      BY <3>1 DEF Request
    <3> QED
      BY <2>1, <3>2, BecomeTyped DEF FormSends
  <2>2. ASSUME NEW sends \in Decision, CallerSends(u, r, sends) PROVE TypeOK'
    <3>1. [at |-> "read", run |-> r, sends |-> sends] \in Request
      BY DEF Request
    <3> QED
      BY <2>2, <3>1, BecomeTyped DEF CallerSends
  <2> QED
    BY <1>1, <2>1, <2>2 DEF Sends
<1>2. CASE ReviewReads(u)
  <2> DEFINE r == requests[u].run
             sends == requests[u].sends
  <2>1. requests[u].at = "read" /\ r \in Runs /\ sends \in Decision
    BY <1>0, <1>2, RequestTyped DEF ReviewReads
  <2>2. Kept(r, sends) \in SUBSET Suggestions
    BY <2>1, KeptTyped DEF TypeOK
  <2>3. [at |-> "post", run |-> r, sends |-> sends, kept |-> Kept(r, sends)] \in Request
    BY <2>1, <2>2 DEF Request
  <2> QED
    BY <1>2, <2>3, BecomeTyped DEF ReviewReads
<1>3. CASE ReviewPosts(u) \/ ReviewUnheard(u)
  BY <1>3, ReviewTyped
<1>4. ASSUME NEW l \in Listings, SaveRefuses(u, l) PROVE TypeOK'
  <2>1. [requests[u] EXCEPT !.left = @ \ {l}, !.errors = @ \cup {l}] \in Request
    BY <1>0, <1>4, RequestTyped DEF SaveRefuses, Request
  <2> QED
    BY <1>4, <2>1, BecomeTyped DEF SaveRefuses
<1>5. ASSUME NEW l \in Listings, SaveWrites(u, l) PROVE TypeOK'
  <2>1. /\ [requests[u] EXCEPT !.left = @ \ {l}, !.errors = @ \cup {l}] \in Request
        /\ [requests[u] EXCEPT !.left = @ \ {l}, !.saved = @ \cup {l}] \in Request
    BY <1>0, <1>5, RequestTyped DEF SaveWrites, Request
  <2>2. requests' \in [People -> Request]
    BY <1>5, <2>1 DEF SaveWrites, Becomes, TypeOK
  <2>3. sent' \in [Runs -> [Listings -> Nat]]
    BY <1>0, <1>5, RequestTyped DEF SaveWrites, TypeOK
  <2> QED
    BY <1>5, <2>2, <2>3 DEF SaveWrites, TypeOK, server, given, worker
<1>6. CASE Answers(u)
  <2>1. requests[u].run \in Runs
        /\ [saved |-> requests[u].saved, errors |-> requests[u].errors]
             \in [saved : SUBSET Listings, errors : SUBSET Listings]
    BY <1>0, <1>6, RequestTyped DEF Answers
  <2> QED
    BY <1>6, <2>1, IdleTyped DEF Answers, Becomes, TypeOK, server, given, worker
<1>7. CASE Refuse(u)
  BY <1>7, IdleTyped, BecomeTyped DEF Refuse
<1> QED
  BY <1>1, <1>2, <1>3, <1>4, <1>5, <1>6, <1>7 DEF Step

LEMMA NextTyped == TypeOK /\ [Next]_vars => TypeOK'
<1> SUFFICES ASSUME TypeOK, [Next]_vars PROVE TypeOK'
  OBVIOUS
<1>1. CASE UNCHANGED vars
  BY <1>1 DEF vars, server, given, worker, TypeOK
<1> QED
  BY <1>1, StepTyped, RunStepTyped DEF Next

LEMMA AlwaysTyped == Spec => []TypeOK
BY InitTyped, NextTyped, PTL DEF Spec

-----------------------------------------------------------------------------
(* The inductive invariant                                                 *)

\* A list has one suggestion at each place, from the first to the last.
Listed(list) == /\ \E n \in Nat : {s.place : s \in list} = 1..n
                /\ \A s1, s2 \in list : s1.place = s2.place => s1 = s2

\* The three promises, of one run.
Added(r) == \A l \in Listings : sent[r][l] > 0 =>
  /\ sent[r][l] = 1
  /\ phase[r] = "completed" /\ onTrip[r]
  /\ l \in ListingsOf(approved[r]) \cap grounded[r]
Ticked(r) == decision[r] \in {"approve", "partial"} /\ basis[r] /= NoAnswer =>
  (Readable(result[r]) = Proposed(result[r]) =>
     GroundedIn(approved[r], r) = Numbered(result[r], basis[r]))
Told(r) == answer[r] /= NoAnswer =>
  /\ \A l \in answer[r].saved : sent[r][l] > 0
  /\ onTrip[r] /\ basis[r] /= NoAnswer =>
       ListingsOf(GroundedIn(Readable(approved[r]), r))
         \subseteq answer[r].saved \cup answer[r].errors

\* Before its one decision a run has nothing on its trip, and from the moment it
\* waits for that decision its result is what was shown.
RunSound(r) ==
  /\ Added(r) /\ Ticked(r) /\ Told(r)
  /\ phase[r] \in {"awaiting"} \cup Closed => shown[r] = Proposed(result[r])
  /\ phase[r] \notin Closed => decision[r] = "none" /\ answer[r] = NoAnswer
                               /\ \A l \in Listings : sent[r][l] = 0
  /\ Listed(result[r])

\* What came from a page was ticked in a result that cannot change any more.
FormSound(request) ==
  request.at \in {"read", "post"} /\ request.sends.form =>
    /\ phase[request.run] \in {"awaiting"} \cup Closed
    /\ request.sends.ticked \subseteq Numbers(result[request.run], Tickable(request.run))
    /\ request.sends.verdict = "approve" => request.sends.ticked = Offered(request.run)
    /\ request.at = "post" => /\ ~CountMissing(request.run, request.sends)
                              /\ request.kept \subseteq result[request.run]

\* Who adds to a trip still has what was not sent, and has told all the rest.
SaveSound(request) ==
  request.at = "save" =>
    /\ phase[request.run] \in Closed
    /\ request.left \subseteq ListingsOf(approved[request.run])
    /\ request.left /= {} => onTrip[request.run] /\ phase[request.run] = "completed"
    /\ \A l \in request.left : sent[request.run][l] = 0
    /\ \A l \in request.saved : sent[request.run][l] > 0
    /\ onTrip[request.run] /\ basis[request.run] /= NoAnswer =>
         ListingsOf(GroundedIn(Readable(approved[request.run]), request.run))
           \subseteq request.left \cup request.saved \cup request.errors

OneSaver == \A u, v \in People : requests[u].at = "save" /\ requests[v].at = "save"
                                 /\ requests[u].run = requests[v].run => u = v

Inv == /\ \A r \in Runs : RunSound(r)
       /\ \A u \in People : FormSound(requests[u]) /\ SaveSound(requests[u])
       /\ OneSaver

\* What the promises about a run depend on, and what those about a request do.
RunSame(r) ==
  /\ phase'[r] = phase[r] /\ shown'[r] = shown[r] /\ decision'[r] = decision[r]
  /\ approved'[r] = approved[r] /\ onTrip'[r] = onTrip[r] /\ feature'[r] = feature[r]
  /\ result'[r] = result[r] /\ grounded'[r] = grounded[r] /\ basis'[r] = basis[r]
  /\ sent'[r] = sent[r] /\ answer'[r] = answer[r]
FormFrame(r) ==
  /\ phase[r] \in {"awaiting"} \cup Closed => phase'[r] \in {"awaiting"} \cup Closed
  /\ onTrip'[r] = onTrip[r] /\ feature'[r] = feature[r]
  /\ result'[r] = result[r] /\ grounded'[r] = grounded[r]
SaveFrame(r) ==
  /\ phase'[r] = phase[r] /\ approved'[r] = approved[r] /\ onTrip'[r] = onTrip[r]
  /\ grounded'[r] = grounded[r] /\ basis'[r] = basis[r] /\ sent'[r] = sent[r]

LEMMA RunKeeps ==
  ASSUME NEW r \in Runs, RunSame(r), RunSound(r)
  PROVE  RunSound(r)'
BY DEF RunSame, RunSound, Added, Ticked, Told, GroundedIn, Readable, Proposed, Numbered, Number,
       Listed

LEMMA FormKeeps ==
  ASSUME NEW request, FormFrame(request.run), FormSound(request)
  PROVE  FormSound(request)'
BY DEF FormFrame, FormSound, GroundedIn, Offered, CountMissing, Tickable, Readable, Numbers,
       Number

LEMMA SaveKeeps ==
  ASSUME NEW request, SaveFrame(request.run), SaveSound(request)
  PROVE  SaveSound(request)'
BY DEF SaveFrame, SaveSound, GroundedIn, Readable

LEMMA SameFrames == \A r : RunSame(r) => FormFrame(r) /\ SaveFrame(r)
BY DEF RunSame, FormFrame, SaveFrame

LEMMA InitHolds == Init => Inv
<1> SUFFICES ASSUME Init PROVE Inv
  OBVIOUS
<1>1. \A u \in People : requests[u] = Idle
  BY DEF Init
<1>2. \A u \in People : FormSound(requests[u]) /\ SaveSound(requests[u])
  BY <1>1, IdleTyped DEF FormSound, SaveSound
<1>3. OneSaver
  BY <1>1, IdleTyped DEF OneSaver
<1>4. ASSUME NEW r \in Runs PROVE RunSound(r)
  <2>1. Listed(result[r])
    <3>1. {s.place : s \in result[r]} = 1..0
      BY DEF Init
    <3> QED
      BY <3>1 DEF Listed
  <2> QED
    BY <2>1 DEF Init, Server!Init, RunSound, Added, Ticked, Told, Closed
<1> QED
  BY <1>2, <1>3, <1>4 DEF Inv

\* A request that becomes another sound one; only a request that adds goes on adding.
LEMMA BecomeHolds ==
  ASSUME TypeOK, Inv, NEW u \in People, NEW request, Becomes(u, request),
         FormSound(request), SaveSound(request),
         request.at = "save" => requests[u].at = "save" /\ request.run = requests[u].run,
         UNCHANGED <<server, given, worker, basis, sent, answer>>
  PROVE  Inv'
<1>1. \A v \in People : requests'[v] = IF v = u THEN request ELSE requests[v]
  BY DEF TypeOK, Becomes
<1>2. \A r : RunSame(r)
  BY DEF RunSame, server, given, worker
<1>3. \A r \in Runs : RunSound(r)'
  BY <1>2, RunKeeps DEF Inv
<1>4. ASSUME NEW v \in People PROVE FormSound(requests[v])' /\ SaveSound(requests[v])'
  <2>1. FormSound(requests'[v]) /\ SaveSound(requests'[v])
    BY <1>1 DEF Inv
  <2>2. PICK next : next = requests'[v]
    OBVIOUS
  <2>3. FormSound(next)' /\ SaveSound(next)'
    BY <1>2, <2>1, <2>2, SameFrames, FormKeeps, SaveKeeps
  <2> QED
    BY <2>2, <2>3 DEF FormSound, SaveSound
<1>5. OneSaver'
  BY <1>1 DEF Inv, OneSaver
<1> QED
  BY <1>3, <1>4, <1>5 DEF Inv

LEMMA IdleSound == FormSound(Idle) /\ SaveSound(Idle)
BY IdleTyped DEF FormSound, SaveSound

\* A page sends what is ticked in the result of a run that waits; what a caller sends
\* is no form.
LEMMA SendHolds ==
  ASSUME TypeOK, Inv, NEW u \in People, NEW r \in Runs, Sends(u, r)
  PROVE  Inv'
<1>1. ASSUME NEW button, NEW ticked, NEW overview, NEW count,
             FormSends(u, r, button, ticked, overview, count)
      PROVE  Inv'
  <2> DEFINE sends == [verdict |-> FormVerdict(r, button, ticked), ticked |-> ticked,
                       overview |-> overview, count |-> count, form |-> TRUE]
             request == [at |-> "read", run |-> r, sends |-> sends]
  <2>1. /\ request.at = "read" /\ request.run = r /\ request.sends = sends
        /\ sends.ticked = ticked /\ sends.verdict = FormVerdict(r, button, ticked)
    OBVIOUS
  <2>2. sends.verdict = "approve" => ticked = Offered(r)
    BY DEF FormVerdict
  <2>3. phase[r] = "awaiting" /\ ticked \subseteq Numbers(result[r], Tickable(r))
    BY <1>1 DEF FormSends
  <2>4. Becomes(u, request) /\ UNCHANGED <<server, given, worker, basis, sent, answer>>
    BY <1>1 DEF FormSends
  <2> HIDE DEF request, sends
  <2>5. FormSound(request) /\ SaveSound(request)
    BY <2>1, <2>2, <2>3 DEF FormSound, SaveSound
  <2> QED
    BY <2>1, <2>4, <2>5, BecomeHolds
<1>2. ASSUME NEW sends \in Decision, CallerSends(u, r, sends) PROVE Inv'
  <2> DEFINE request == [at |-> "read", run |-> r, sends |-> sends]
  <2>1. request.at = "read" /\ ~request.sends.form
    BY <1>2 DEF CallerSends
  <2>2. Becomes(u, request) /\ UNCHANGED <<server, given, worker, basis, sent, answer>>
    BY <1>2 DEF CallerSends
  <2> HIDE DEF request
  <2>3. FormSound(request) /\ SaveSound(request)
    BY <2>1 DEF FormSound, SaveSound
  <2> QED
    BY <2>1, <2>2, <2>3, BecomeHolds
<1> QED
  BY <1>1, <1>2 DEF Sends

LEMMA ReadHolds ==
  ASSUME TypeOK, Inv, NEW u \in People, ReviewReads(u)
  PROVE  Inv'
<1> DEFINE r == requests[u].run
           sends == requests[u].sends
           request == [at |-> "post", run |-> r, sends |-> sends, kept |-> Kept(r, sends)]
<1>1. /\ requests[u].at = "read" /\ ~CountMissing(r, sends)
      /\ Becomes(u, request) /\ UNCHANGED <<server, given, worker, basis, sent, answer>>
  BY DEF ReviewReads
<1>2. requests[u] \in Request /\ r \in Runs /\ result[r] \in SUBSET Suggestions
  BY <1>1, RequestTyped DEF TypeOK
<1>3. Kept(r, sends) \subseteq result[r]
  BY <1>2, KeptTyped
<1>4. request.at = "post" /\ request.run = r /\ request.sends = sends /\ request.kept = Kept(r, sends)
  OBVIOUS
<1>5. FormSound(requests[u])
  BY DEF Inv
<1> HIDE DEF request
<1>6. FormSound(request) /\ SaveSound(request)
  BY <1>1, <1>3, <1>4, <1>5 DEF FormSound, SaveSound
<1> QED
  BY <1>1, <1>4, <1>6, BecomeHolds

\* What no tool returned is reported and stays off the trip.
LEMMA RefusalHolds ==
  ASSUME TypeOK, Inv, NEW u \in People, NEW l \in Listings, SaveRefuses(u, l)
  PROVE  Inv'
<1> DEFINE old == requests[u]
           request == [old EXCEPT !.left = @ \ {l}, !.errors = @ \cup {l}]
<1>1. /\ old.at = "save" /\ l \in old.left
      /\ Becomes(u, request) /\ UNCHANGED <<server, given, worker, basis, sent, answer>>
  BY DEF SaveRefuses
<1>2. old \in [at : {"save"}, run : Runs, left : SUBSET Listings,
               saved : SUBSET Listings, errors : SUBSET Listings]
  BY <1>1, RequestTyped DEF TypeOK
<1>3. /\ request.at = "save" /\ request.run = old.run /\ request.saved = old.saved
      /\ request.left = old.left \ {l} /\ request.errors = old.errors \cup {l}
  BY <1>2
<1>4. SaveSound(old)
  BY DEF Inv
<1> HIDE DEF request
<1>5. FormSound(request) /\ SaveSound(request)
  BY <1>1, <1>3, <1>4 DEF FormSound, SaveSound
<1> QED
  BY <1>1, <1>3, <1>5, BecomeHolds

\* A listing is sent once: nobody else adds to the trip of this run.
LEMMA WriteHolds ==
  ASSUME TypeOK, Inv, NEW u \in People, NEW l \in Listings, SaveWrites(u, l)
  PROVE  Inv'
<1> PICK old : old = requests[u]
  OBVIOUS
<1> PICK r : r = old.run
  OBVIOUS
<1> DEFINE good == [old EXCEPT !.left = @ \ {l}, !.saved = @ \cup {l}]
           bad == [old EXCEPT !.left = @ \ {l}, !.errors = @ \cup {l}]
<1>1. /\ old.at = "save" /\ l \in old.left /\ l \in grounded[r]
      /\ sent' = [sent EXCEPT ![r][l] = @ + 1]
      /\ Becomes(u, good) \/ Becomes(u, bad)
      /\ UNCHANGED <<server, given, worker, basis, answer>>
  BY DEF SaveWrites
<1>2. /\ old \in [at : {"save"}, run : Runs, left : SUBSET Listings,
                  saved : SUBSET Listings, errors : SUBSET Listings]
      /\ r \in Runs
  BY <1>1, RequestTyped DEF TypeOK
<1>3. PICK next : /\ \A v \in People : requests'[v] = IF v = u THEN next ELSE requests[v]
                  /\ next.at = "save" /\ next.run = r /\ next.left = old.left \ {l}
                  /\ next.saved \cup next.errors = old.saved \cup old.errors \cup {l}
                  /\ next.saved \subseteq old.saved \cup {l}
  <2>1. /\ good.at = "save" /\ good.run = r /\ good.left = old.left \ {l}
        /\ good.saved = old.saved \cup {l} /\ good.errors = old.errors
        /\ bad.at = "save" /\ bad.run = r /\ bad.left = old.left \ {l}
        /\ bad.saved = old.saved /\ bad.errors = old.errors \cup {l}
    BY <1>2
  <2> HIDE DEF good, bad
  <2>2. \E next \in {good, bad} : requests' = [requests EXCEPT ![u] = next]
    BY <1>1 DEF Becomes
  <2> QED
    BY <2>1, <2>2 DEF TypeOK
<1>4. SaveSound(old) /\ RunSound(r)
  BY <1>2 DEF Inv
<1>5. /\ phase[r] = "completed" /\ onTrip[r] /\ l \in ListingsOf(approved[r])
      /\ sent[r][l] = 0
  BY <1>1, <1>4 DEF SaveSound
<1>6. /\ sent'[r] = [sent[r] EXCEPT ![l] = @ + 1]
      /\ \A other \in Runs \ {r} : sent'[other] = sent[other]
  BY <1>1, <1>2 DEF TypeOK
<1>7. sent'[r][l] = 1 /\ \A other \in Listings \ {l} : sent'[r][other] = sent[r][other]
  BY <1>2, <1>5, <1>6 DEF TypeOK
<1>8. UNCHANGED <<phase, shown, decision, approved, feature, onTrip, result, grounded, basis, answer>>
  BY <1>1 DEF server, given, worker
<1>9. ASSUME NEW other \in Runs PROVE RunSound(other)'
  <2>1. CASE other /= r
    BY <1>6, <1>8, <2>1, RunKeeps DEF RunSame, Inv
  <2>2. CASE other = r
    <3>1. Added(r)'
      BY <1>1, <1>4, <1>5, <1>7, <1>8 DEF RunSound, Added
    <3>2. Ticked(r)'
      BY <1>4, <1>8 DEF RunSound, Ticked, GroundedIn, Numbered, Number, Readable, Proposed
    <3>3. \A m \in Listings : sent[r][m] > 0 => sent'[r][m] > 0
      BY <1>7
    <3>4. answer[r] \in [saved : SUBSET Listings, errors : SUBSET Listings] \cup {NoAnswer}
      BY <1>2 DEF TypeOK
    <3>5. Told(r)'
      BY <1>4, <1>8, <3>3, <3>4 DEF RunSound, Told, GroundedIn, Readable
    <3> QED
      BY <1>4, <1>5, <1>8, <2>2, <3>1, <3>2, <3>5 DEF RunSound, Closed
  <2> QED
    BY <2>1, <2>2
<1>10. FormSound(next)' /\ SaveSound(next)'
  <2>1. \A m \in next.left : sent'[r][m] = 0
    BY <1>2, <1>3, <1>4, <1>7 DEF SaveSound
  <2>2. \A m \in next.saved : sent'[r][m] > 0
    BY <1>2, <1>3, <1>4, <1>7 DEF SaveSound
  <2>3. phase[r] \in Closed /\ next.left \subseteq ListingsOf(approved[r])
    BY <1>1, <1>3, <1>4 DEF SaveSound
  <2>4. onTrip[r] /\ basis[r] /= NoAnswer =>
          ListingsOf(GroundedIn(Readable(approved[r]), r)) \subseteq next.left \cup next.saved \cup next.errors
    <3>1. onTrip[r] /\ basis[r] /= NoAnswer =>
            ListingsOf(GroundedIn(Readable(approved[r]), r)) \subseteq old.left \cup old.saved \cup old.errors
      BY <1>1, <1>4 DEF SaveSound
    <3>2. old.left \cup old.saved \cup old.errors = next.left \cup next.saved \cup next.errors
      BY <1>1, <1>3
    <3> QED
      BY <3>1, <3>2
  <2>5. SaveSound(next)'
    BY <1>3, <1>5, <1>8, <2>1, <2>2, <2>3, <2>4 DEF SaveSound, GroundedIn, Readable
  <2> QED
    BY <1>3, <2>5 DEF FormSound
<1>11. ASSUME NEW v \in People PROVE FormSound(requests[v])' /\ SaveSound(requests[v])'
  <2>1. CASE v = u
    <3>1. requests'[v] = next
      BY <1>3, <2>1
    <3> QED
      BY <1>10, <3>1 DEF FormSound, SaveSound
  <2>2. CASE v /= u
    <3>1. PICK request : request = requests[v] /\ request = requests'[v] /\ request \in Request
      BY <1>3, <2>2 DEF TypeOK
    <3>2. FormSound(request)'
      BY <1>8, <3>1, FormKeeps DEF FormFrame, Inv
    <3>3. CASE request.at = "save"
      <4>1. request.run /= r /\ request.run \in Runs
        BY <1>1, <2>2, <3>1, <3>3, RequestTyped DEF Inv, OneSaver
      <4>2. SaveFrame(request.run) /\ SaveSound(request)
        BY <1>6, <1>8, <3>1, <4>1 DEF SaveFrame, Inv
      <4>3. SaveSound(request)'
        BY <4>2, SaveKeeps
      <4> QED
        BY <3>1, <3>2, <4>3 DEF FormSound, SaveSound
    <3>4. CASE request.at /= "save"
      BY <3>1, <3>2, <3>4 DEF FormSound, SaveSound
    <3> QED
      BY <3>3, <3>4
  <2> QED
    BY <2>1, <2>2
<1>12. OneSaver'
  BY <1>1, <1>3 DEF Inv, OneSaver
<1> QED
  BY <1>9, <1>11, <1>12 DEF Inv

\* The answer to the decision that counts is written down, and its request is over.
LEMMA AnswerHolds ==
  ASSUME TypeOK, Inv, NEW u \in People, Answers(u)
  PROVE  Inv'
<1> PICK old : old = requests[u]
  OBVIOUS
<1> PICK r : r = old.run
  OBVIOUS
<1>1. /\ old.at = "save" /\ old.left = {}
      /\ answer' = [answer EXCEPT ![r] = [saved |-> old.saved, errors |-> old.errors]]
      /\ UNCHANGED <<phase, shown, decision, approved, feature, onTrip, result, grounded, basis, sent>>
  BY DEF Answers, server, given, worker
<1>2. r \in Runs
  BY <1>1, RequestTyped DEF TypeOK
<1>3. SaveSound(old) /\ RunSound(r)
  BY <1>2 DEF Inv
<1>4. \A v \in People : requests'[v] = IF v = u THEN Idle ELSE requests[v]
  BY DEF Answers, Becomes, TypeOK
<1>5. ASSUME NEW other \in Runs PROVE RunSound(other)'
  <2>1. CASE other /= r
    <3>1. answer'[other] = answer[other]
      BY <1>1, <2>1 DEF TypeOK
    <3> QED
      BY <1>1, <3>1, RunKeeps DEF RunSame, Inv
  <2>2. CASE other = r
    <3>1. answer'[r] = [saved |-> old.saved, errors |-> old.errors]
      BY <1>1, <1>2 DEF TypeOK
    <3>2. answer'[r].saved = old.saved /\ answer'[r].errors = old.errors
      BY <3>1
    <3>3. Added(r)' /\ Ticked(r)'
      BY <1>1, <1>3 DEF RunSound, Added, Ticked, GroundedIn, Numbered, Number, Readable, Proposed
    <3>4. Told(r)'
      BY <1>1, <1>3, <3>2 DEF SaveSound, Told, GroundedIn, Readable
    <3>5. phase[r] \in Closed
      BY <1>1, <1>3 DEF SaveSound
    <3> QED
      BY <1>1, <1>3, <2>2, <3>3, <3>4, <3>5 DEF RunSound
  <2> QED
    BY <2>1, <2>2
<1>6. ASSUME NEW v \in People PROVE FormSound(requests[v])' /\ SaveSound(requests[v])'
  <2>1. PICK request : request = requests'[v]
    OBVIOUS
  <2>2. FormSound(request) /\ SaveSound(request)
    BY <1>4, <2>1, IdleSound DEF Inv
  <2>3. FormSound(request)' /\ SaveSound(request)'
    BY <1>1, <2>2, FormKeeps, SaveKeeps DEF FormFrame, SaveFrame
  <2> QED
    BY <2>1, <2>3 DEF FormSound, SaveSound
<1>7. OneSaver'
  BY <1>4, IdleTyped DEF Inv, OneSaver
<1> QED
  BY <1>5, <1>6, <1>7 DEF Inv

\* The server and the Worker change a run nobody can have decided or ticked.
LEMMA RunStepHolds ==
  ASSUME TypeOK, Inv, NEW r \in Runs,
         \/ StartRun(r) \/ RunSettles(r)
         \/ \E list \in Results, found \in SUBSET Listings : WorkerAnswers(r, list, found)
  PROVE  Inv'
<1>1. /\ phase[r] \in {"none", "active"}
      /\ \E p \in {"active", "awaiting", "failed"} : phase' = [phase EXCEPT ![r] = p]
      /\ UNCHANGED <<decision, approved, feature, onTrip, basis, requests, sent, answer>>
  BY DEF StartRun, RunSettles, WorkerAnswers, Server!Create, Server!Fail,
         Server!Move, server, given, TypeOK
<1>2. /\ \A other \in Runs \ {r} : shown'[other] = shown[other] /\ result'[other] = result[other]
                                   /\ grounded'[other] = grounded[other]
      /\ phase'[r] = "awaiting" => shown'[r] = Proposed(result'[r])
      /\ Listed(result'[r])
  <2>1. CASE StartRun(r)
    BY <2>1 DEF StartRun, Server!Create, Server!Move, worker, TypeOK, Inv, RunSound
  <2>2. CASE RunSettles(r)
    <3>1. UNCHANGED <<result, grounded>>
      BY <2>2 DEF RunSettles, worker
    <3>2. CASE Server!Move(r, "active", "awaiting")
               /\ shown' = [shown EXCEPT ![r] = Proposed(result[r])]
      BY <3>1, <3>2 DEF TypeOK, Inv, RunSound
    <3>3. CASE Server!Fail(r)
      BY <3>1, <3>3 DEF Server!Fail, Server!Move, TypeOK, Inv, RunSound
    <3> QED
      BY <2>2, <3>2, <3>3 DEF RunSettles
  <2>3. ASSUME NEW list \in Results, NEW found \in SUBSET Listings, WorkerAnswers(r, list, found)
        PROVE  /\ \A other \in Runs \ {r} : shown'[other] = shown[other] /\ result'[other] = result[other]
                                            /\ grounded'[other] = grounded[other]
               /\ phase'[r] = "awaiting" => shown'[r] = Proposed(result'[r])
               /\ Listed(result'[r])
    <3>1. Listed(list)
      BY ReviewsAssumption DEF Results, Listed
    <3> QED
      BY <2>3, <3>1 DEF WorkerAnswers, server, TypeOK, Inv, RunSound
  <2> QED
    BY <2>1, <2>2, <2>3
<1>3. \A other \in Runs \ {r} : RunSame(other)
  BY <1>1, <1>2 DEF RunSame, TypeOK
<1>4. phase'[r] \in {"active", "awaiting", "failed"} /\ RunSound(r)
  BY <1>1 DEF TypeOK, Inv
<1>5. ASSUME NEW other \in Runs PROVE RunSound(other)'
  <2>1. CASE other /= r
    BY <1>3, <2>1, RunKeeps DEF Inv
  <2>2. CASE other = r
    <3>1. decision'[r] = "none" /\ answer'[r] = NoAnswer /\ \A l \in Listings : sent'[r][l] = 0
      BY <1>1, <1>4 DEF RunSound, Closed
    <3>2. Added(r)' /\ Ticked(r)' /\ Told(r)'
      BY <3>1 DEF Added, Ticked, Told
    <3> QED
      BY <1>2, <1>4, <2>2, <3>1, <3>2 DEF RunSound, Closed
  <2> QED
    BY <2>1, <2>2
<1>6. ASSUME NEW v \in People PROVE FormSound(requests[v])' /\ SaveSound(requests[v])'
  <2>1. PICK request : request = requests[v] /\ request = requests'[v] /\ request \in Request
    BY <1>1 DEF TypeOK
  <2>2. FormSound(request) /\ SaveSound(request)
    BY <2>1 DEF Inv
  <2>3. CASE request.run \in Runs \ {r}
    <3>1. FormSound(request)' /\ SaveSound(request)'
      BY <1>3, <2>2, <2>3, SameFrames, FormKeeps, SaveKeeps
    <3> QED
      BY <2>1, <3>1 DEF FormSound, SaveSound
  <2>4. CASE request.run \notin Runs \ {r}
    <3>1. request.at = "save" \/ (request.at \in {"read", "post"} /\ request.sends.form)
            => request.run = r /\ phase[r] \in {"awaiting"} \cup Closed
      BY <2>1, <2>2, <2>4, RequestTyped DEF FormSound, SaveSound
    <3>2. ~(request.at = "save" \/ (request.at \in {"read", "post"} /\ request.sends.form))
      BY <1>1, <3>1 DEF Closed
    <3> QED
      BY <2>1, <3>2 DEF FormSound, SaveSound
  <2> QED
    BY <2>3, <2>4
<1>7. OneSaver'
  BY <1>1 DEF Inv, OneSaver
<1> QED
  BY <1>5, <1>6, <1>7 DEF Inv

\* A result that is shown as it is proposed: the numbers of the page are the places.
LEMMA NumberIsPlace ==
  ASSUME NEW list \in SUBSET Suggestions, Listed(list), Readable(list) = Proposed(list),
         NEW s \in Proposed(list)
  PROVE  Number(list, s) = s.place
<1>1. PICK n \in Nat : {t.place : t \in list} = 1..n
  BY DEF Listed
<1>2. s \in list /\ s.place \in 1..n /\ s.place <= MaxProposed
  BY <1>1 DEF Proposed
<1>3. {t.place : t \in Proposed(list)} \cap 1..s.place = 1..s.place
  <2>1. ASSUME NEW p \in 1..s.place PROVE p \in {t.place : t \in Proposed(list)}
    <3>1. p \in 1..n /\ p <= MaxProposed
      BY <1>2, ReviewsAssumption
    <3>2. PICK t \in list : t.place = p
      BY <1>1, <3>1
    <3> QED
      BY <3>1, <3>2 DEF Proposed
  <2> QED
    BY <2>1
<1>4. Cardinality(1..s.place) = s.place
  BY <1>2, FS_Interval
<1> QED
  BY <1>3, <1>4 DEF Number

\* What was ticked is then what is approved.
LEMMA TickedAsSent ==
  ASSUME NEW r \in Runs, NEW ticked, NEW verdict \in {"approve", "partial"}, NEW acts,
         result[r] \in SUBSET Suggestions, Listed(result[r]),
         Readable(result[r]) = Proposed(result[r]),
         feature[r] \in {"stays", "transport"},
         ticked \subseteq Numbers(result[r], Tickable(r)),
         verdict = "approve" => ticked = Offered(r) /\ acts = Proposed(result[r]),
         verdict = "partial" => acts = At(Proposed(result[r]), ticked)
  PROVE  GroundedIn(acts, r) = Numbered(result[r], ticked)
<1> PICK list : list = Proposed(result[r])
  OBVIOUS
<1>0. Readable(result[r]) = list /\ \A s \in list : Number(result[r], s) = s.place
  BY NumberIsPlace
<1>1. Numbered(result[r], ticked) = At(list, ticked)
  BY <1>0 DEF Numbered, At
<1>2. \A s \in list : s.place \in ticked => s.listing \in grounded[r]
  <2>0. \A s1, s2 \in list : s1.place = s2.place => s1 = s2
    BY DEF Listed, Proposed
  <2>1. ASSUME NEW s \in list, s.place \in ticked PROVE s.listing \in grounded[r]
    <3>1. PICK t \in GroundedIn(list, r) : s.place = Number(result[r], t)
      BY <1>0, <2>1 DEF Numbers, Tickable
    <3>2. t \in list /\ t.place = s.place
      BY <1>0, <3>1 DEF GroundedIn
    <3>3. s = t
      BY <2>0, <3>2
    <3> QED
      BY <3>1, <3>3 DEF GroundedIn
  <2> QED
    BY <2>1
<1>3. CASE verdict = "partial"
  BY <1>1, <1>2, <1>3 DEF GroundedIn, At
<1>4. CASE verdict = "approve"
  <2>1. \A s \in list : s.listing \in grounded[r] => s.place \in ticked
    BY <1>0, <1>4 DEF Offered, Numbers, Tickable, GroundedIn
  <2> QED
    BY <1>1, <1>2, <1>4, <2>1 DEF GroundedIn, At
<1> QED
  BY <1>3, <1>4

\* What the backend sets out to add covers what the page offered and the decision
\* approved: nothing is left out for want of a number of travellers.
LEMMA SavingCovers ==
  ASSUME NEW r \in Runs, NEW sends, NEW acts, feature[r] \in {"stays", "transport"},
         onTrip[r], ~CountMissing(r, sends), acts \subseteq result[r],
         sends.verdict = "reject" => acts = {}
  PROVE  ListingsOf(GroundedIn(Readable(acts), r)) \subseteq Saving(r, sends, acts).left
<1>1. CASE feature[r] = "stays" \/ sends.count
  BY <1>1 DEF Saving, ListingsOf, GroundedIn, Readable
<1>2. CASE feature[r] = "transport" /\ ~sends.count
  <2>1. sends.verdict = "reject" \/ Tickable(r) = {}
    BY <1>2 DEF CountMissing
  <2>2. GroundedIn(Readable(acts), r) = {}
    BY <2>1 DEF Tickable, GroundedIn, Readable
  <2> QED
    BY <2>2 DEF ListingsOf
<1> QED
  BY <1>1, <1>2

\* The one decision on a run: nothing was on its trip, and what may get there now is
\* what was ticked.
LEMMA DecideHolds ==
  ASSUME TypeOK, Inv, NEW u \in People, ReviewPosts(u) \/ ReviewUnheard(u)
  PROVE  Inv'
<1> PICK old : old = requests[u]
  OBVIOUS
<1> PICK r : r = old.run
  OBVIOUS
<1> PICK sends : sends = old.sends
  OBVIOUS
<1>1. /\ old.at = "post"
      /\ ServerDecides(r, sends.verdict, sends.ticked, old.kept)
      /\ basis' = [basis EXCEPT ![r] = Basis(sends)]
      /\ Becomes(u, Idle) \/ Becomes(u, Saving(r, sends, approved'[r]))
      /\ UNCHANGED <<feature, onTrip, result, grounded, sent, answer>>
  BY DEF ReviewPosts, ReviewUnheard, given, worker
<1>2. /\ r \in Runs /\ sends.verdict \in Verdict /\ old.kept \in SUBSET Suggestions
      /\ ServerTyped /\ feature[r] \in {"stays", "transport"}
  BY <1>1, RequestTyped DEF TypeOK, ServerTyped
<1>3. PICK p \in Closed, acts \in SUBSET Suggestions :
        /\ phase' = [phase EXCEPT ![r] = p]
        /\ approved' = [approved EXCEPT ![r] = acts]
        /\ p = "completed" \/ acts = {}
        /\ sends.verdict = "approve" => acts = shown[r]
        /\ sends.verdict = "partial" => acts = At(shown[r], sends.ticked)
        /\ sends.verdict = "correct" => acts = old.kept
        /\ sends.verdict = "reject" => acts = {}
  <2>1. Outcome(r, sends.verdict, sends.ticked, old.kept)
    BY <1>1, <1>2, DecisionFacts
  <2> QED
    BY <2>1 DEF Outcome
<1>4. phase[r] = "awaiting" /\ decision' = [decision EXCEPT ![r] = sends.verdict] /\ UNCHANGED shown
  BY <1>1, <1>2, DecisionFacts
<1>5. /\ phase'[r] = p /\ approved'[r] = acts /\ decision'[r] = sends.verdict
      /\ basis'[r] = Basis(sends)
      /\ \A other \in Runs \ {r} : RunSame(other)
  <2>1. phase'[r] = p /\ \A other \in Runs \ {r} : phase'[other] = phase[other]
    BY <1>2, <1>3 DEF TypeOK
  <2>2. approved'[r] = acts /\ \A other \in Runs \ {r} : approved'[other] = approved[other]
    BY <1>2, <1>3 DEF TypeOK
  <2>3. decision'[r] = sends.verdict /\ \A other \in Runs \ {r} : decision'[other] = decision[other]
    BY <1>2, <1>4 DEF TypeOK
  <2>4. basis'[r] = Basis(sends) /\ \A other \in Runs \ {r} : basis'[other] = basis[other]
    BY <1>1, <1>2 DEF TypeOK
  <2> QED
    BY <1>1, <1>4, <2>1, <2>2, <2>3, <2>4 DEF RunSame
<1>6. RunSound(r) /\ FormSound(old)
  BY <1>2 DEF Inv
<1>7. /\ shown[r] = Proposed(result[r]) /\ answer[r] = NoAnswer /\ Listed(result[r])
      /\ \A l \in Listings : sent[r][l] = 0
  BY <1>4, <1>6 DEF RunSound, Closed
<1>8. basis'[r] /= NoAnswer =>
        /\ sends.form /\ basis'[r] = sends.ticked
        /\ sends.ticked \subseteq Numbers(result[r], Tickable(r))
        /\ sends.verdict = "approve" => sends.ticked = Offered(r)
        /\ ~CountMissing(r, sends) /\ old.kept \subseteq result[r]
  BY <1>1, <1>5, <1>6 DEF FormSound, Basis
<1>9. ASSUME NEW other \in Runs PROVE RunSound(other)'
  <2>1. CASE other /= r
    BY <1>5, <2>1, RunKeeps DEF Inv
  <2>2. CASE other = r
    <3>1. Added(r)' /\ Told(r)'
      BY <1>1, <1>7 DEF Added, Told
    <3>2. ASSUME sends.verdict \in {"approve", "partial"}, basis'[r] /= NoAnswer,
                 Readable(result[r]) = Proposed(result[r])
          PROVE  GroundedIn(acts, r) = Numbered(result[r], sends.ticked)
      <4>1. result[r] \in SUBSET Suggestions
        BY <1>2 DEF TypeOK
      <4> QED
        BY <1>2, <1>3, <1>7, <1>8, <3>2, <4>1, TickedAsSent
    <3>3. Ticked(r)'
      BY <1>1, <1>5, <1>8, <3>2 DEF Ticked, GroundedIn, Numbered, Number, Readable, Proposed
    <3> QED
      BY <1>1, <1>3, <1>4, <1>5, <1>7, <2>2, <3>1, <3>3 DEF RunSound
  <2> QED
    BY <2>1, <2>2
<1>10. PICK next : /\ \A v \in People : requests'[v] = IF v = u THEN next ELSE requests[v]
                   /\ next \in {Idle, Saving(r, sends, acts)}
  <2>1. \E next \in {Idle, Saving(r, sends, acts)} : requests' = [requests EXCEPT ![u] = next]
    BY <1>1, <1>5 DEF Becomes
  <2> QED
    BY <2>1 DEF TypeOK
<1>11. /\ next.at /= "read" /\ next.at /= "post"
       /\ next.at = "save" => /\ next = Saving(r, sends, acts)
                              /\ next.run = r /\ next.saved = {} /\ next.errors = {}
                              /\ next.left = {} \/ (onTrip[r] /\ next.left = ListingsOf(acts))
  BY <1>10, IdleTyped DEF Saving
<1>12. FormSound(next)' /\ SaveSound(next)'
  <2>1. CASE next.at = "save"
    <3>1. next.left /= {} => onTrip[r] /\ p = "completed" /\ next.left = ListingsOf(acts)
      BY <1>3, <1>11, <2>1 DEF ListingsOf
    <3>2. next.left \subseteq Listings
      BY <1>11, <2>1, ListsTyped
    <3>3. ASSUME onTrip[r], basis'[r] /= NoAnswer
          PROVE  ListingsOf(GroundedIn(Readable(acts), r)) \subseteq next.left
      <4>1. acts \subseteq result[r]
        BY <1>2, <1>3, <1>7, <1>8, <3>3 DEF Verdict, At, Proposed
      <4> QED
        BY <1>2, <1>3, <1>8, <1>11, <2>1, <3>3, <4>1, SavingCovers
    <3>4. GroundedIn(Readable(approved[r]), r)' = GroundedIn(Readable(acts), r)
      BY <1>1, <1>5 DEF GroundedIn, Readable
    <3>5. onTrip[r] /\ basis'[r] /= NoAnswer =>
            ListingsOf(GroundedIn(Readable(approved[r]), r))' \subseteq next.left
      BY <3>3, <3>4 DEF ListingsOf
    <3>6. SaveSound(next)'
      BY <1>1, <1>3, <1>5, <1>7, <1>11, <2>1, <3>1, <3>2, <3>5 DEF SaveSound
    <3> QED
      BY <1>11, <3>6 DEF FormSound
  <2>2. CASE next.at /= "save"
    BY <1>11, <2>2 DEF FormSound, SaveSound
  <2> QED
    BY <2>1, <2>2
<1>13. ASSUME NEW v \in People PROVE FormSound(requests[v])' /\ SaveSound(requests[v])'
  <2>1. CASE v = u
    <3>1. requests'[v] = next
      BY <1>10, <2>1
    <3> QED
      BY <1>12, <3>1 DEF FormSound, SaveSound
  <2>2. CASE v /= u
    <3>1. PICK request : request = requests[v] /\ request = requests'[v] /\ request \in Request
      BY <1>10, <2>2 DEF TypeOK
    <3>2. FormSound(request) /\ SaveSound(request)
      BY <3>1 DEF Inv
    <3>3. \A any : any \in Runs => FormFrame(any)
      BY <1>1, <1>3, <1>4, <1>5, SameFrames DEF FormFrame
    <3>4. FormSound(request)'
      BY <3>1, <3>2, <3>3, FormKeeps, RequestTyped DEF FormSound
    <3>5. SaveSound(request)'
      <4>1. CASE request.at = "save"
        <5>1. request.run \in Runs \ {r}
          BY <1>4, <3>1, <3>2, <4>1, RequestTyped DEF SaveSound, Closed
        <5> QED
          BY <1>5, <3>2, <5>1, SameFrames, SaveKeeps
      <4>2. CASE request.at /= "save"
        BY <4>2 DEF SaveSound
      <4> QED
        BY <4>1, <4>2
    <3> QED
      BY <3>1, <3>4, <3>5 DEF FormSound, SaveSound
  <2> QED
    BY <2>1, <2>2
<1>14. \A v \in People : requests[v].at = "save" => requests[v].run /= r
  BY <1>4 DEF Inv, SaveSound, Closed
<1>15. OneSaver'
  BY <1>10, <1>11, <1>14 DEF Inv, OneSaver
<1> QED
  BY <1>9, <1>13, <1>15 DEF Inv

LEMMA StepHolds ==
  ASSUME TypeOK, Inv, NEW u \in People, Step(u)
  PROVE  Inv'
<1>1. CASE Refuse(u)
  BY <1>1, IdleSound, IdleTyped, BecomeHolds DEF Refuse
<1> QED
  BY <1>1, SendHolds, ReadHolds, DecideHolds, RefusalHolds, WriteHolds, AnswerHolds DEF Step

LEMMA NextHolds == TypeOK /\ Inv /\ [Next]_vars => Inv'
<1> SUFFICES ASSUME TypeOK, Inv, [Next]_vars PROVE Inv'
  OBVIOUS
<1>1. CASE UNCHANGED vars
  <2>1. \A r : RunSame(r)
    BY <1>1 DEF vars, server, given, worker, RunSame
  <2>2. \A r \in Runs : RunSound(r)'
    BY <2>1, RunKeeps DEF Inv
  <2>3. ASSUME NEW v \in People PROVE FormSound(requests[v])' /\ SaveSound(requests[v])'
    <3>1. PICK request : request = requests[v] /\ request = requests'[v]
      BY <1>1 DEF vars
    <3>2. FormSound(request)' /\ SaveSound(request)'
      BY <2>1, <3>1, SameFrames, FormKeeps, SaveKeeps DEF Inv
    <3> QED
      BY <3>1, <3>2 DEF FormSound, SaveSound
  <2>4. OneSaver'
    BY <1>1 DEF vars, Inv, OneSaver
  <2> QED
    BY <2>2, <2>3, <2>4 DEF Inv
<1> QED
  BY <1>1, StepHolds, RunStepHolds DEF Next

LEMMA AlwaysSound == Spec => [](TypeOK /\ Inv)
BY InitTyped, InitHolds, NextTyped, NextHolds, PTL DEF Spec

-----------------------------------------------------------------------------
(* The promises                                                            *)

LEMMA SoundAdds == TypeOK /\ Inv => AddedAsTicked /\ AnswersTellAll
<1> SUFFICES ASSUME TypeOK, Inv PROVE AddedAsTicked /\ AnswersTellAll
  OBVIOUS
<1>1. \A r \in Runs : Added(r) /\ Ticked(r) /\ Told(r)
  BY DEF Inv, RunSound
<1>2. AddedOnlyApproved
  BY <1>1 DEF AddedOnlyApproved, Added
<1>3. TickedOnly
  BY <1>1 DEF TickedOnly, Ticked
<1>4. AnswersTellAll
  BY <1>1 DEF AnswersTellAll, Told
<1> QED
  BY <1>2, <1>3, <1>4 DEF AddedAsTicked

\* However many people review a run at once, and whatever the Worker suggested: what
\* the trip gets is grounded, was approved, is sent once, and is what was ticked on
\* the page whose decision counts (agents.py, review_run and add_to_trip).
THEOREM TripGetsWhatWasTicked == Spec => []AddedAsTicked
<1>1. TypeOK /\ Inv => AddedAsTicked
  BY SoundAdds
<1> QED
  BY <1>1, AlwaysSound, PTL

\* The answer to the recorded decision names every approved listing the page offered,
\* as saved or as failed, and nothing as saved that was not sent.
THEOREM AnswersAreComplete == Spec => []AnswersTellAll
<1>1. TypeOK /\ Inv => AnswersTellAll
  BY SoundAdds
<1> QED
  BY <1>1, AlwaysSound, PTL
=============================================================================
