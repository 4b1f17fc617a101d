------------------------ MODULE PlannerApproval_proof ------------------------
(***************************************************************************)
(* TLAPS proofs about PlannerApproval, for any number of runs, activities, *)
(* reviewers and calls that arrive late.                                   *)
(***************************************************************************)
EXTENDS PlannerApproval, TLAPS

Presented(r) == phase[r] \in {"awaiting", "completed", "rejected"}

\* A decision under way is about a run that has been presented, whose result no
\* longer changes, and keeps what the reviewer read.
Fits(request) ==
  /\ Presented(request.run)
  /\ request.cards \subseteq shown[request.run]
  /\ request.verdict = "reject" => request.cards = {}
  /\ request.verdict /= "reject" => sound[request.run]

ReviewInv ==
  /\ \A u \in Users : requests[u].at \in {"check", "decide"} => Fits(requests[u])
  /\ \A u \in Users : requests[u].at = "reject" => Presented(requests[u].run)
  /\ \A m \in mail : m.to = "review" => Fits(m)
  /\ \A r \in Runs : approved[r] /= {} => phase[r] = "completed"
  /\ ApprovedWereShown

\* A run is closed by one request only, which then sends each addition once.
SaveInv ==
  /\ \A u \in Users : requests[u].at = "save" =>
       /\ phase[requests[u].run] = "completed"
       /\ requests[u].left \subseteq approved[requests[u].run]
       /\ \A a \in requests[u].left : sent[requests[u].run][a] = 0
  /\ \A u, v \in Users : requests[u].at = "save" /\ requests[v].at = "save" /\ u /= v =>
       requests[u].run /= requests[v].run
  /\ AddedOnlyApproved
  /\ OncePerItem

\* A rejected run is either replaced, or about to be replaced by one call.
Replaces(parentRun) == /\ phase[parentRun] = "rejected"
                       /\ \A r \in Runs : parent[r] /= parentRun

ReplaceInv ==
  /\ \A u \in Users : requests[u].at = "start" => Replaces(requests[u].run)
  /\ \A m \in mail : m.to = "runs" => Replaces(m.parent)
  /\ \A u, v \in Users : requests[u].at = "start" /\ requests[v].at = "start" /\ u /= v =>
       requests[u].run /= requests[v].run
  /\ \A u \in Users, m \in mail : requests[u].at = "start" /\ m.to = "runs" =>
       requests[u].run /= m.parent
  /\ OneReplacement

IInv == TypeOK /\ ReviewInv /\ SaveInv /\ ReplaceInv

-----------------------------------------------------------------------------
(* What one call of the Multi-Agent Server changes.                        *)

LEMMA CreateEffect ==
  ASSUME NEW r \in Runs, Server!Create(r)
  PROVE  /\ phase[r] = "none" /\ phase' = [phase EXCEPT ![r] = "active"]
         /\ UNCHANGED <<shown, decision, approved>>
BY DEF Server!Create, Server!Move

\* A decision that fits closes the run and signs off at least its own cards,
\* and nothing that was not shown.
LEMMA DecisionEffect ==
  ASSUME TypeOK, NEW request, request.run \in Runs, request.cards \subseteq Activities,
         Fits(request), ServerDecides(request.run, request.verdict, request.cards)
  PROVE  LET r == request.run
         IN  /\ phase[r] = "awaiting" /\ shown' = shown
             /\ phase' = [phase EXCEPT ![r] = IF request.verdict = "reject" THEN "rejected"
                                                                          ELSE "completed"]
             /\ decision' \in [Runs -> Verdict \cup {"none"}]
             /\ approved' \in [Runs -> SUBSET Activities]
             /\ \A s \in Runs \ {r} : approved'[s] = approved[s]
             /\ request.cards \subseteq approved'[r]
             /\ approved'[r] \subseteq shown[r]
             /\ request.verdict = "reject" => approved'[r] = {}
<1> DEFINE r == request.run
<1>1. CASE request.verdict = "approve" /\ Server!Approve(r)
  BY <1>1 DEF TypeOK, Fits, Presented, Verdict, Server!Approve, Server!Move, Server!Decide
<1>2. CASE request.verdict = "correct" /\ Server!Correct(r) /\ approved'[r] = request.cards
  <2>1. PICK acts \in SUBSET Activities : Server!Decide(r, "correct", acts)
    BY <1>2 DEF Server!Correct
  <2>2. Server!Move(r, "awaiting", "completed")
    BY <1>2 DEF Server!Correct
  <2> QED
    BY <1>2, <2>1, <2>2 DEF TypeOK, Fits, Presented, Verdict, Server!Move, Server!Decide
<1>3. CASE request.verdict = "reject" /\ Server!Reject(r)
  BY <1>3 DEF TypeOK, Fits, Presented, Verdict, Server!Reject, Server!Move, Server!Decide
<1> QED
  BY <1>1, <1>2, <1>3 DEF ServerDecides

\* A decision leaves every other request and every call under way as it was.
LEMMA DecisionKeeps ==
  ASSUME IInv, NEW request, request.run \in Runs, request.cards \subseteq Activities,
         Fits(request), ServerDecides(request.run, request.verdict, request.cards),
         UNCHANGED <<sound, parent, sent>>
  PROVE  /\ \A old : Fits(old) /\ old.run \in Runs => Fits(old)'
         /\ \A r \in Runs : phase[r] = "completed" =>
              phase'[r] = "completed" /\ approved'[r] = approved[r]
         /\ \A r \in Runs : Replaces(r) => Replaces(r)'
         /\ \A r \in Runs : Presented(r) => Presented(r)'
         /\ \A r \in Runs : approved'[r] /= {} => phase'[r] = "completed"
         /\ ApprovedWereShown' /\ AddedOnlyApproved' /\ OncePerItem' /\ OneReplacement'
         /\ \A a \in Activities : sent[request.run][a] = 0
<1> DEFINE r == request.run
<1> USE DecisionEffect DEF IInv
<1>0. TypeOK /\ phase \in [Runs -> {"none", "active", "awaiting", "completed", "rejected", "failed"}]
  BY DEF TypeOK
<1>1. \A old : Fits(old) /\ old.run \in Runs => Fits(old)'
  BY <1>0 DEF Fits, Presented
<1>2. \A s \in Runs : phase[s] = "completed" =>
        phase'[s] = "completed" /\ approved'[s] = approved[s]
  BY <1>0
<1>3. \A s \in Runs : Replaces(s) => Replaces(s)'
  BY <1>0 DEF Replaces
<1>4. \A s \in Runs : approved'[s] /= {} => phase'[s] = "completed"
  BY <1>0 DEF ReviewInv
<1>5. ApprovedWereShown'
  BY <1>0 DEF ReviewInv, ApprovedWereShown, Fits, Presented
<1>6. AddedOnlyApproved' /\ OncePerItem'
  BY <1>0, <1>2 DEF SaveInv, AddedOnlyApproved, OncePerItem
<1>7. OneReplacement'
  BY <1>0 DEF ReplaceInv, OneReplacement, TypeOK
<1>8. \A a \in Activities : sent[r][a] = 0
  <2> SUFFICES ASSUME NEW a \in Activities PROVE sent[r][a] = 0
    OBVIOUS
  <2>1. sent[r][a] \in Nat
    BY DEF TypeOK
  <2>2. ~(sent[r][a] > 0)
    BY <1>0 DEF SaveInv, AddedOnlyApproved
  <2> QED
    BY <2>1, <2>2
<1>9. \A s \in Runs : Presented(s) => Presented(s)'
  BY <1>0 DEF Presented
<1> QED
  BY <1>1, <1>2, <1>3, <1>4, <1>5, <1>6, <1>7, <1>8, <1>9

-----------------------------------------------------------------------------
(* What a request does between its calls.                                  *)

LEMMA InitInv == Init => IInv
BY DEF Init, Server!Init, IInv, TypeOK, ReviewInv, SaveInv, ReplaceInv, AddedOnlyApproved,
       OncePerItem, ApprovedWereShown, OneReplacement, Request, Idle, Verdict

\* A request may read, forget, and go on with what it may already save.
LEMMA RequestKeeps ==
  ASSUME IInv, NEW u \in Users, NEW request \in Request,
         Becomes(u, request), UNCHANGED <<server, sound, parent, mail, sent>>,
         request.at \in {"check", "decide"} => Fits(request),
         request.at = "reject" => Presented(request.run),
         request.at = "save" => /\ requests[u].at = "save"
                                /\ request.run = requests[u].run
                                /\ request.left \subseteq requests[u].left,
         request.at /= "start"
  PROVE  IInv'
<1> USE DEF IInv, Becomes, server
<1>1. TypeOK'
  BY DEF TypeOK
<1>2. ReviewInv'
  BY DEF ReviewInv, ApprovedWereShown, Fits, Presented, TypeOK
<1>3. SaveInv'
  BY DEF SaveInv, AddedOnlyApproved, OncePerItem, TypeOK
<1>4. ReplaceInv'
  BY DEF ReplaceInv, OneReplacement, Replaces, TypeOK
<1> QED
  BY <1>1, <1>2, <1>3, <1>4

\* A caller may give up a decision that fits, or the start of a replacement.
LEMMA GiveUpKeeps ==
  ASSUME IInv, NEW u \in Users, NEW message \in Message, GivesUp(u, message),
         message.to = "review" => Fits(message),
         message.to = "runs" => /\ requests[u].at = "start"
                                /\ message.parent = requests[u].run
  PROVE  IInv'
<1> USE DEF IInv, Becomes, server, GivesUp
<1>0. Idle \in Request /\ Idle.at = "idle"
  BY DEF Request, Idle
<1>1. TypeOK'
  BY <1>0 DEF TypeOK
<1>2. ReviewInv'
  BY <1>0 DEF ReviewInv, ApprovedWereShown, Fits, Presented, TypeOK
<1>3. SaveInv'
  BY <1>0 DEF SaveInv, AddedOnlyApproved, OncePerItem, TypeOK
<1>4. ReplaceInv'
  BY <1>0 DEF ReplaceInv, OneReplacement, Replaces, TypeOK
<1> QED
  BY <1>1, <1>2, <1>3, <1>4

-----------------------------------------------------------------------------
(* Every step.                                                             *)

LEMMA SavingType ==
  ASSUME NEW request, request.run \in Runs, request.staged \in BOOLEAN,
         request.existing \subseteq Activities, NEW left \in SUBSET Activities
  PROVE  /\ Saving(request, left) \in Request
         /\ Saving(request, left).at \in {"idle", "save"}
         /\ Saving(request, left).at = "save" =>
              Saving(request, left).run = request.run /\ Saving(request, left).left = left
BY DEF Saving, Request, Idle

\* What a request carries at each of its calls.
LEMMA RequestTypes ==
  ASSUME TypeOK, NEW u \in Users
  PROVE  /\ requests[u] \in Request
         /\ requests[u].at \in {"idle", "check", "decide", "save", "reject", "start"}
         /\ requests[u].at /= "idle" => requests[u].run \in Runs
         /\ requests[u].at \in {"check", "decide"} =>
              /\ requests[u].verdict \in Verdict
              /\ requests[u].cards \subseteq Activities
              /\ requests[u].staged \in BOOLEAN
         /\ requests[u].at \in {"decide", "save"} =>
              /\ requests[u].existing \subseteq Activities
              /\ requests[u].staged \in BOOLEAN
         /\ requests[u].at = "save" => requests[u].left \subseteq Activities
BY DEF TypeOK, Request, Idle

LEMMA ServerStep ==
  ASSUME IInv, NEW r \in Runs, StartRun(r) \/ ServerWorks(r)
  PROVE  IInv'
<1> USE DEF IInv
<1>1. /\ phase[r] \in {"none", "active"}
      /\ \E to \in {"active", "awaiting", "failed"} : phase' = [phase EXCEPT ![r] = to]
      /\ \A s \in Runs \ {r} : shown'[s] = shown[s] /\ sound'[s] = sound[s]
      /\ shown' \in [Runs -> SUBSET Activities] /\ sound' \in [Runs -> BOOLEAN]
      /\ UNCHANGED <<decision, approved, parent, requests, mail, sent>>
  <2>1. CASE StartRun(r)
    BY <2>1, CreateEffect DEF StartRun, TypeOK
  <2>2. CASE ServerWorks(r) /\ Server!Fail(r) /\ UNCHANGED sound
    BY <2>2 DEF ServerWorks, Server!Fail, Server!Move, TypeOK
  <2>3. CASE /\ ServerWorks(r) /\ Server!Present(r)
             /\ \E good \in BOOLEAN : sound' = [sound EXCEPT ![r] = good]
    <3>1. PICK acts \in SUBSET Activities : shown' = [shown EXCEPT ![r] = acts]
      BY <2>3 DEF Server!Present
    <3>2. Server!Move(r, "active", "awaiting") /\ UNCHANGED <<decision, approved>>
      BY <2>3 DEF Server!Present
    <3> QED
      BY <2>3, <3>1, <3>2 DEF ServerWorks, Server!Move, TypeOK
  <2> QED
    BY <2>1, <2>2, <2>3 DEF ServerWorks
<1>2. TypeOK'
  BY <1>1 DEF TypeOK
<1>3. ReviewInv'
  <2>1. \A old : Fits(old) /\ old.run \in Runs => Fits(old)'
    BY <1>1 DEF Fits, Presented, TypeOK
  <2>2. \A u \in Users : requests[u].at \in {"check", "decide"} => Fits(requests[u])'
    BY <1>1, <2>1, RequestTypes DEF ReviewInv
  <2>3. \A m \in mail : m.to = "review" => Fits(m)'
    BY <1>1, <2>1 DEF ReviewInv, TypeOK, Message
  <2>4. approved[r] = {}
    BY <1>1 DEF ReviewInv
  <2> QED
    BY <1>1, <2>2, <2>3, <2>4 DEF ReviewInv, ApprovedWereShown, Fits, Presented, TypeOK
<1>4. SaveInv'
  BY <1>1, RequestTypes DEF SaveInv, AddedOnlyApproved, OncePerItem, TypeOK
<1>5. ReplaceInv'
  <2>1. \A s \in Runs : Replaces(s) => Replaces(s)'
    BY <1>1 DEF Replaces, TypeOK
  <2>2. \A u \in Users : requests[u].at = "start" => Replaces(requests[u].run)'
    BY <1>1, <2>1, RequestTypes DEF ReplaceInv
  <2>3. \A m \in mail : m.to = "runs" => Replaces(m.parent)'
    BY <1>1, <2>1 DEF ReplaceInv, TypeOK, Message
  <2>4. OneReplacement'
    BY <1>1 DEF ReplaceInv, OneReplacement, TypeOK
  <2> QED
    BY <1>1, <2>2, <2>3, <2>4 DEF ReplaceInv, Replaces
<1> QED
  BY <1>2, <1>3, <1>4, <1>5

\* A recorded decision, whose caller now saves what it approved.
LEMMA DecidesStep ==
  ASSUME IInv, NEW u \in Users, Decides(u)
  PROVE  IInv'
<1> DEFINE request == requests[u]
           next == Saving(request, request.cards)
<1> USE DEF IInv
<1>1. /\ request.at = "decide" /\ ServerDecides(request.run, request.verdict, request.cards)
      /\ requests' = [requests EXCEPT ![u] = next]
      /\ UNCHANGED <<sound, parent, mail, sent>>
  BY DEF Decides, Becomes
<1>2. request.run \in Runs /\ request.cards \subseteq Activities
  BY <1>1, RequestTypes
<1>3. Fits(request)
  BY <1>1 DEF ReviewInv
<1>4. next \in Request /\ next.at \in {"idle", "save"}
  BY <1>1, <1>2, RequestTypes, SavingType
<1>5. next.at = "save" => next.run = request.run /\ next.left = request.cards
  BY <1>1, <1>2, RequestTypes, SavingType
<1>6. next.at = "save" => request.cards /= {}
  BY DEF Saving, Idle
<1> HIDE DEF next, request
<1>7. /\ \A old : Fits(old) /\ old.run \in Runs => Fits(old)'
      /\ \A r \in Runs : phase[r] = "completed" =>
           phase'[r] = "completed" /\ approved'[r] = approved[r]
      /\ \A r \in Runs : Replaces(r) => Replaces(r)'
      /\ \A r \in Runs : Presented(r) => Presented(r)'
      /\ \A r \in Runs : approved'[r] /= {} => phase'[r] = "completed"
      /\ ApprovedWereShown' /\ AddedOnlyApproved' /\ OncePerItem' /\ OneReplacement'
      /\ \A a \in Activities : sent[request.run][a] = 0
  BY <1>1, <1>2, <1>3, DecisionKeeps
<1>8. /\ phase[request.run] = "awaiting" /\ shown' = shown
      /\ phase' = [phase EXCEPT ![request.run] = IF request.verdict = "reject"
                                                 THEN "rejected" ELSE "completed"]
      /\ decision' \in [Runs -> Verdict \cup {"none"}]
      /\ approved' \in [Runs -> SUBSET Activities]
      /\ request.cards \subseteq approved'[request.run]
  BY <1>1, <1>2, <1>3, DecisionEffect
<1>9. TypeOK'
  BY <1>1, <1>2, <1>4, <1>8 DEF TypeOK
<1>10. requests'[u] = next /\ \A v \in Users \ {u} : requests'[v] = requests[v]
  BY <1>1 DEF TypeOK
<1>11. ReviewInv'
  <2>1. \A v \in Users : (requests[v].at \in {"check", "decide"} => Fits(requests[v]))'
    <3> SUFFICES ASSUME NEW v \in Users, requests'[v].at \in {"check", "decide"}
                 PROVE  Fits(requests[v])'
      OBVIOUS
    <3>1. requests'[v] = requests[v] /\ Fits(requests[v]) /\ requests[v].run \in Runs
      BY <1>4, <1>10, RequestTypes DEF ReviewInv
    <3> QED
      BY <1>7, <3>1 DEF Fits, Presented
  <2>2. \A m \in mail : m.to = "review" => Fits(m)'
    BY <1>7 DEF ReviewInv, TypeOK, Message
  <2>3. \A v \in Users : (requests[v].at = "reject" => Presented(requests[v].run))'
    <3> SUFFICES ASSUME NEW v \in Users, requests'[v].at = "reject"
                 PROVE  Presented(requests[v].run)'
      OBVIOUS
    <3>1. requests'[v] = requests[v] /\ Presented(requests[v].run) /\ requests[v].run \in Runs
      BY <1>4, <1>10, RequestTypes DEF ReviewInv
    <3> QED
      BY <1>7, <3>1 DEF Presented
  <2> QED
    BY <1>1, <1>7, <2>1, <2>2, <2>3 DEF ReviewInv, Fits, Presented
<1>12. SaveInv'
  <2>1. next.at = "save" => phase'[request.run] = "completed"
    BY <1>2, <1>3, <1>6, <1>8 DEF Fits, Presented, TypeOK
  <2>2. ASSUME NEW v \in Users \ {u}, requests'[v].at = "save"
        PROVE  /\ phase'[requests[v].run] = "completed"
               /\ requests[v].left \subseteq approved'[requests[v].run]
               /\ \A a \in requests[v].left : sent[requests[v].run][a] = 0
               /\ requests[v].run /= request.run
    BY <1>7, <1>8, <1>10, <2>2, RequestTypes DEF SaveInv
  <2>3. ASSUME NEW v \in Users, NEW w \in Users, v /= w,
               requests'[v].at = "save", requests'[w].at = "save"
        PROVE  requests'[v].run /= requests'[w].run
    BY <1>5, <1>10, <2>2, <2>3 DEF SaveInv
  <2>4. ASSUME NEW v \in Users, requests'[v].at = "save"
        PROVE  /\ phase'[requests'[v].run] = "completed"
               /\ requests'[v].left \subseteq approved'[requests'[v].run]
               /\ \A a \in requests'[v].left : sent'[requests'[v].run][a] = 0
    BY <1>1, <1>2, <1>5, <1>7, <1>8, <1>10, <2>1, <2>2, <2>4
  <2> QED
    BY <1>7, <2>3, <2>4 DEF SaveInv
<1>13. ReplaceInv'
  <2>1. \A v \in Users : requests'[v].at = "start" => requests[v].at = "start" /\ requests'[v] = requests[v]
    BY <1>4, <1>10
  <2>2. \A v \in Users : (requests[v].at = "start" => Replaces(requests[v].run))'
    <3> SUFFICES ASSUME NEW v \in Users, requests'[v].at = "start"
                 PROVE  Replaces(requests[v].run)'
      OBVIOUS
    <3>1. requests'[v] = requests[v] /\ Replaces(requests[v].run) /\ requests[v].run \in Runs
      BY <2>1, RequestTypes DEF ReplaceInv
    <3> QED
      BY <1>7, <3>1 DEF Replaces
  <2>3. \A m \in mail : m.to = "runs" => Replaces(m.parent)'
    BY <1>7 DEF ReplaceInv, TypeOK, Message
  <2> QED
    BY <1>1, <1>7, <2>1, <2>2, <2>3 DEF ReplaceInv, Replaces
<1> QED
  BY <1>9, <1>11, <1>12, <1>13

\* An addition is sent for the run this request alone has closed.
LEMMA SavePutsStep ==
  ASSUME IInv, NEW u \in Users, NEW a \in Activities, SavePuts(u, a)
  PROVE  IInv'
<1> DEFINE request == requests[u]
           next == Saving(request, request.left \ {a})
<1> USE DEF IInv
<1>1. /\ request.at = "save" /\ a \in request.left
      /\ sent' = [sent EXCEPT ![request.run][a] = @ + 1]
      /\ requests' = [requests EXCEPT ![u] = next]
      /\ UNCHANGED <<phase, shown, decision, approved, sound, parent, mail>>
  BY DEF SavePuts, Sends, Becomes, server
<1>2. request.run \in Runs /\ request.left \subseteq Activities
  BY <1>1, RequestTypes
<1>3. /\ next \in Request /\ next.at \in {"idle", "save"}
      /\ next.at = "save" => next.run = request.run /\ next.left = request.left \ {a}
  BY <1>1, <1>2, RequestTypes, SavingType
<1> HIDE DEF next
<1>4. requests'[u] = next /\ \A v \in Users \ {u} : requests'[v] = requests[v]
  BY <1>1 DEF TypeOK
<1>5. /\ phase[request.run] = "completed" /\ request.left \subseteq approved[request.run]
      /\ sent[request.run][a] = 0
  BY <1>1 DEF SaveInv
<1>6. /\ sent'[request.run][a] = 1
      /\ \A r \in Runs, b \in Activities :
           r /= request.run \/ b /= a => sent'[r][b] = sent[r][b]
      /\ sent' \in [Runs -> [Activities -> Nat]]
  BY <1>1, <1>2, <1>5 DEF TypeOK
<1>7. TypeOK'
  BY <1>1, <1>3, <1>6 DEF TypeOK
<1>8. ReviewInv'
  BY <1>1, <1>3, <1>4 DEF ReviewInv, Fits, Presented, ApprovedWereShown
<1>9. SaveInv'
  <2>1. AddedOnlyApproved' /\ OncePerItem'
    BY <1>1, <1>2, <1>5, <1>6 DEF SaveInv, AddedOnlyApproved, OncePerItem, TypeOK
  <2>2. \A v \in Users : requests'[v].at = "save" =>
          /\ requests[v].at = "save" /\ requests'[v].run = requests[v].run
          /\ requests'[v].left \subseteq requests[v].left
          /\ v = u => a \notin requests'[v].left
    BY <1>1, <1>3, <1>4
  <2>3. ASSUME NEW v \in Users, requests'[v].at = "save", NEW b \in requests'[v].left
        PROVE  sent'[requests'[v].run][b] = 0
    BY <1>1, <1>6, <2>2, <2>3, RequestTypes DEF SaveInv
  <2> QED
    BY <1>1, <2>1, <2>2, <2>3 DEF SaveInv
<1>10. ReplaceInv'
  BY <1>1, <1>3, <1>4 DEF ReplaceInv, Replaces, OneReplacement
<1> QED
  BY <1>7, <1>8, <1>9, <1>10

LEMMA SaveSkipsStep ==
  ASSUME IInv, NEW u \in Users, NEW a \in Activities, SaveSkips(u, a)
  PROVE  IInv'
<1> DEFINE next == Saving(requests[u], requests[u].left \ {a})
<1>1. requests[u].at = "save" /\ a \in requests[u].left /\ Becomes(u, next)
      /\ UNCHANGED <<server, sound, parent, mail, sent>>
  BY DEF SaveSkips
<1>2. /\ next \in Request /\ next.at \in {"idle", "save"}
      /\ next.at = "save" => next.run = requests[u].run /\ next.left = requests[u].left \ {a}
  <2>1. /\ requests[u].run \in Runs /\ requests[u].staged \in BOOLEAN
        /\ requests[u].existing \subseteq Activities
        /\ requests[u].left \ {a} \in SUBSET Activities
    BY <1>1, RequestTypes DEF IInv
  <2> QED
    BY <2>1, SavingType
<1> HIDE DEF next
<1> QED
  BY <1>1, <1>2, RequestKeeps

\* A rejection recorded by a regeneration, which now owes the replacement.
LEMMA RegenerateRejectsStep ==
  ASSUME IInv, NEW u \in Users, RegenerateRejects(u)
  PROVE  IInv'
<1> DEFINE r == requests[u].run
           call == [run |-> r, verdict |-> "reject", cards |-> {}]
           next == [at |-> "start", run |-> r]
<1> USE DEF IInv
<1>1. /\ requests[u].at = "reject" /\ Server!Reject(r)
      /\ requests' = [requests EXCEPT ![u] = next]
      /\ UNCHANGED <<sound, parent, mail, sent>>
  BY DEF RegenerateRejects, Becomes
<1>2. r \in Runs
  BY <1>1, RequestTypes
<1>3. phase[r] = "awaiting"
  BY <1>1 DEF Server!Reject, Server!Move
<1>4. /\ call.run = r /\ call.verdict = "reject" /\ call.cards = {}
      /\ Fits(call) /\ ServerDecides(call.run, call.verdict, call.cards)
  BY <1>1, <1>3 DEF Fits, Presented, ServerDecides
<1>5. next \in Request /\ next.at = "start" /\ next.run = r
  BY <1>2 DEF Request
<1> HIDE DEF r, call, next
<1>6. /\ \A old : Fits(old) /\ old.run \in Runs => Fits(old)'
      /\ \A s \in Runs : phase[s] = "completed" =>
           phase'[s] = "completed" /\ approved'[s] = approved[s]
      /\ \A s \in Runs : Replaces(s) => Replaces(s)'
      /\ \A s \in Runs : Presented(s) => Presented(s)'
      /\ \A s \in Runs : approved'[s] /= {} => phase'[s] = "completed"
      /\ ApprovedWereShown' /\ AddedOnlyApproved' /\ OncePerItem' /\ OneReplacement'
  BY <1>1, <1>2, <1>4, DecisionKeeps
<1>7. /\ shown' = shown /\ phase' = [phase EXCEPT ![r] = "rejected"]
      /\ decision' \in [Runs -> Verdict \cup {"none"}]
      /\ approved' \in [Runs -> SUBSET Activities]
  BY <1>1, <1>2, <1>4, DecisionEffect
<1>8. requests'[u] = next /\ \A v \in Users \ {u} : requests'[v] = requests[v]
  BY <1>1 DEF TypeOK
<1>9. TypeOK'
  BY <1>1, <1>5, <1>7 DEF TypeOK
<1>10. ReviewInv'
  <2>1. \A v \in Users : (requests[v].at \in {"check", "decide"} => Fits(requests[v]))'
    <3> SUFFICES ASSUME NEW v \in Users, requests'[v].at \in {"check", "decide"}
                 PROVE  Fits(requests[v])'
      OBVIOUS
    <3>1. requests'[v] = requests[v] /\ Fits(requests[v]) /\ requests[v].run \in Runs
      BY <1>5, <1>8, RequestTypes DEF ReviewInv
    <3> QED
      BY <1>6, <3>1 DEF Fits, Presented
  <2>2. \A m \in mail : m.to = "review" => Fits(m)'
    BY <1>6 DEF ReviewInv, TypeOK, Message
  <2>3. \A v \in Users : (requests[v].at = "reject" => Presented(requests[v].run))'
    <3> SUFFICES ASSUME NEW v \in Users, requests'[v].at = "reject"
                 PROVE  Presented(requests[v].run)'
      OBVIOUS
    <3>1. requests'[v] = requests[v] /\ Presented(requests[v].run) /\ requests[v].run \in Runs
      BY <1>5, <1>8, RequestTypes DEF ReviewInv
    <3> QED
      BY <1>6, <3>1 DEF Presented
  <2> QED
    BY <1>1, <1>6, <2>1, <2>2, <2>3 DEF ReviewInv, Fits, Presented
<1>11. SaveInv'
  <2>1. ASSUME NEW v \in Users, requests'[v].at = "save"
        PROVE  requests'[v] = requests[v] /\ requests[v].run \in Runs
    BY <1>5, <1>8, <2>1, RequestTypes
  <2> QED
    BY <1>1, <1>6, <2>1 DEF SaveInv
<1>12. ReplaceInv'
  <2>1. /\ \A v \in Users : requests[v].at = "start" => requests[v].run /= r
        /\ \A m \in mail : m.to = "runs" => m.parent /= r
        /\ \A s \in Runs : parent[s] /= r
    BY <1>2, <1>3, PlannerAssumption DEF ReplaceInv, Replaces, OneReplacement, TypeOK
  <2>2. \A v \in Users : (requests[v].at = "start" => Replaces(requests[v].run))'
    <3> SUFFICES ASSUME NEW v \in Users, requests'[v].at = "start"
                 PROVE  Replaces(requests[v].run)'
      OBVIOUS
    <3>1. CASE v = u
      BY <1>1, <1>2, <1>5, <1>7, <1>8, <2>1, <3>1 DEF Replaces, TypeOK
    <3>2. CASE v /= u
      <4>1. requests'[v] = requests[v] /\ Replaces(requests[v].run) /\ requests[v].run \in Runs
        BY <1>8, <3>2, RequestTypes DEF ReplaceInv
      <4> QED
        BY <1>6, <4>1 DEF Replaces
    <3> QED
      BY <3>1, <3>2
  <2>3. \A m \in mail : m.to = "runs" => Replaces(m.parent)'
    BY <1>6 DEF ReplaceInv, TypeOK, Message
  <2> QED
    BY <1>1, <1>5, <1>6, <1>8, <2>1, <2>2, <2>3 DEF ReplaceInv, Replaces
<1> QED
  BY <1>9, <1>10, <1>11, <1>12

\* The replacement of a run that has none.
LEMMA RegenerateStartsStep ==
  ASSUME IInv, NEW u \in Users, NEW r \in Runs, RegenerateStarts(u, r)
  PROVE  IInv'
<1> USE DEF IInv
<1>0. Idle \in Request /\ Idle.at = "idle"
  BY DEF Request, Idle
<1>1. /\ requests[u].at = "start" /\ parent' = [parent EXCEPT ![r] = requests[u].run]
      /\ requests' = [requests EXCEPT ![u] = Idle]
      /\ UNCHANGED <<sound, mail, sent>>
      /\ phase[r] = "none" /\ phase' = [phase EXCEPT ![r] = "active"]
      /\ UNCHANGED <<shown, decision, approved>>
  BY CreateEffect DEF RegenerateStarts, Becomes
<1>2. requests[u].run \in Runs /\ Replaces(requests[u].run)
  BY <1>1, RequestTypes DEF ReplaceInv
<1>3. requests'[u] = Idle /\ \A v \in Users \ {u} : requests'[v] = requests[v]
  BY <1>1 DEF TypeOK
<1>4. TypeOK'
  BY <1>0, <1>1, <1>2 DEF TypeOK
<1>5. ReviewInv'
  BY <1>0, <1>1, <1>3, RequestTypes DEF ReviewInv, Fits, Presented, ApprovedWereShown, TypeOK, Message
<1>6. SaveInv'
  BY <1>0, <1>1, <1>3, RequestTypes DEF SaveInv, AddedOnlyApproved, OncePerItem, TypeOK
<1>7. ReplaceInv'
  <2>1. \A s \in Runs : parent'[s] = IF s = r THEN requests[u].run ELSE parent[s]
    BY <1>1 DEF TypeOK
  <2>2. \A s \in Runs : Replaces(s) /\ s /= requests[u].run => Replaces(s)'
    BY <1>1, <1>2, <2>1 DEF Replaces, TypeOK
  <2>3. OneReplacement'
    BY <1>1, <1>2, <2>1 DEF ReplaceInv, OneReplacement, Replaces, TypeOK
  <2>4. \A v \in Users : (requests[v].at = "start" => Replaces(requests[v].run))'
    <3> SUFFICES ASSUME NEW v \in Users, requests'[v].at = "start"
                 PROVE  Replaces(requests[v].run)'
      OBVIOUS
    <3>1. /\ requests'[v] = requests[v] /\ Replaces(requests[v].run)
          /\ requests[v].run \in Runs /\ requests[v].run /= requests[u].run
      BY <1>0, <1>1, <1>3, RequestTypes DEF ReplaceInv
    <3> QED
      BY <2>2, <3>1 DEF Replaces
  <2>5. \A m \in mail : m.to = "runs" => Replaces(m.parent)'
    BY <1>1, <2>2 DEF ReplaceInv, TypeOK, Message
  <2> QED
    BY <1>0, <1>1, <1>3, <2>3, <2>4, <2>5 DEF ReplaceInv, Replaces
<1> QED
  BY <1>4, <1>5, <1>6, <1>7

LEMMA LateStartStep ==
  ASSUME IInv, NEW m \in mail, NEW r \in Runs, LateStart(m, r),
         mail' = mail \ {m}, UNCHANGED <<requests, sent>>
  PROVE  IInv'
<1> USE DEF IInv
<1>1. /\ m.to = "runs" /\ parent' = [parent EXCEPT ![r] = m.parent]
      /\ UNCHANGED <<sound, requests, sent>> /\ mail' = mail \ {m}
      /\ phase[r] = "none" /\ phase' = [phase EXCEPT ![r] = "active"]
      /\ UNCHANGED <<shown, decision, approved>>
  BY CreateEffect DEF LateStart
<1>2. m = [to |-> "runs", parent |-> m.parent] /\ m.parent \in Runs /\ Replaces(m.parent)
  BY <1>1 DEF ReplaceInv, TypeOK, Message
<1>4. TypeOK'
  BY <1>1, <1>2 DEF TypeOK
<1>5. ReviewInv'
  BY <1>1, RequestTypes DEF ReviewInv, Fits, Presented, ApprovedWereShown, TypeOK, Message
<1>6. SaveInv'
  BY <1>1, RequestTypes DEF SaveInv, AddedOnlyApproved, OncePerItem, TypeOK
<1>7. ReplaceInv'
  <2>1. \A s \in Runs : parent'[s] = IF s = r THEN m.parent ELSE parent[s]
    BY <1>1 DEF TypeOK
  <2>2. \A s \in Runs : Replaces(s) /\ s /= m.parent => Replaces(s)'
    BY <1>1, <1>2, <2>1 DEF Replaces, TypeOK
  <2>3. OneReplacement'
    BY <1>1, <1>2, <2>1 DEF ReplaceInv, OneReplacement, Replaces, TypeOK
  <2>4. \A v \in Users : requests[v].at = "start" => Replaces(requests[v].run)'
    BY <1>1, <2>2, RequestTypes DEF ReplaceInv
  <2>5. \A n \in mail' : n.to = "runs" => n.parent /= m.parent /\ Replaces(n.parent)'
    <3>1. \A n \in mail : n.to = "runs" =>
            n = [to |-> "runs", parent |-> n.parent] /\ n.parent \in Runs
      BY DEF TypeOK, Message
    <3> QED
      BY <1>1, <1>2, <2>2, <3>1 DEF ReplaceInv
  <2> QED
    BY <1>1, <2>3, <2>4, <2>5 DEF ReplaceInv, Replaces
<1> QED
  BY <1>4, <1>5, <1>6, <1>7

LEMMA LateDecisionStep ==
  ASSUME IInv, NEW m \in mail, LateDecision(m),
         mail' = mail \ {m}, UNCHANGED <<requests, sent>>
  PROVE  IInv'
<1> USE DEF IInv
<1>1. /\ m.to = "review" /\ ServerDecides(m.run, m.verdict, m.cards)
      /\ UNCHANGED <<sound, parent, requests, sent>> /\ mail' = mail \ {m}
  BY DEF LateDecision
<1>2. m.run \in Runs /\ m.cards \subseteq Activities /\ Fits(m)
  BY <1>1 DEF ReviewInv, TypeOK, Message
<1>3. /\ \A old : Fits(old) /\ old.run \in Runs => Fits(old)'
      /\ \A s \in Runs : phase[s] = "completed" =>
           phase'[s] = "completed" /\ approved'[s] = approved[s]
      /\ \A s \in Runs : Replaces(s) => Replaces(s)'
      /\ \A s \in Runs : Presented(s) => Presented(s)'
      /\ \A s \in Runs : approved'[s] /= {} => phase'[s] = "completed"
      /\ ApprovedWereShown' /\ AddedOnlyApproved' /\ OncePerItem' /\ OneReplacement'
  BY <1>1, <1>2, DecisionKeeps
<1>4. /\ shown' = shown /\ decision' \in [Runs -> Verdict \cup {"none"}]
      /\ approved' \in [Runs -> SUBSET Activities]
      /\ phase' = [phase EXCEPT ![m.run] = IF m.verdict = "reject" THEN "rejected"
                                                                   ELSE "completed"]
  BY <1>1, <1>2, DecisionEffect
<1>5. TypeOK'
  BY <1>1, <1>4 DEF TypeOK
<1>6. ReviewInv'
  <2>1. \A v \in Users : requests[v].at \in {"check", "decide"} => Fits(requests[v])'
    BY <1>3, RequestTypes DEF ReviewInv
  <2>2. \A n \in mail : n.to = "review" => Fits(n)'
    BY <1>3 DEF ReviewInv, TypeOK, Message
  <2>3. \A v \in Users : (requests[v].at = "reject" => Presented(requests[v].run))'
    <3> SUFFICES ASSUME NEW v \in Users, requests'[v].at = "reject"
                 PROVE  Presented(requests[v].run)'
      OBVIOUS
    <3>1. requests'[v] = requests[v] /\ Presented(requests[v].run) /\ requests[v].run \in Runs
      BY <1>1, RequestTypes DEF ReviewInv
    <3> QED
      BY <1>3, <3>1 DEF Presented
  <2> QED
    BY <1>1, <1>3, <2>1, <2>2, <2>3 DEF ReviewInv, Fits, Presented
<1>7. SaveInv'
  BY <1>1, <1>3, RequestTypes DEF SaveInv
<1>8. ReplaceInv'
  <2>1. \A v \in Users : requests[v].at = "start" => Replaces(requests[v].run)'
    BY <1>3, RequestTypes DEF ReplaceInv
  <2>2. \A n \in mail : n.to = "runs" => Replaces(n.parent)'
    BY <1>3 DEF ReplaceInv, TypeOK, Message
  <2> QED
    BY <1>1, <1>3, <2>1, <2>2 DEF ReplaceInv, Replaces
<1> QED
  BY <1>5, <1>6, <1>7, <1>8

LEMMA UserSteps ==
  ASSUME IInv, NEW u \in Users, UserStep(u)
  PROVE  IInv'
<1> USE DEF IInv
<1>0. Idle \in Request /\ Idle.at = "idle"
  BY DEF Request, Idle
<1>1. ASSUME NEW r \in Runs, NEW kept \in SUBSET Activities, NEW cards \in SUBSET Activities,
             NEW corrects \in BOOLEAN, NEW staged \in Styles,
             ReviewReads(u, r, kept, cards, corrects, staged)
      PROVE  IInv'
  <2> DEFINE verdict == IF corrects \/ cards /= shown[r] THEN "correct" ELSE "approve"
             decide == [at |-> "decide", run |-> r, verdict |-> verdict, cards |-> {},
                        staged |-> staged, existing |-> {}]
             check == [at |-> "check", run |-> r, verdict |-> verdict, cards |-> cards,
                       staged |-> staged]
  <2>1. staged \in BOOLEAN
    BY PlannerAssumption
  <2>2. decide \in Request /\ check \in Request
    BY <2>1 DEF Request, Verdict
  <2>3. phase[r] = "awaiting" /\ sound[r] /\ cards \subseteq shown[r]
    BY <1>1 DEF ReviewReads, Retains
  <2>4. Fits(decide) /\ Fits(check)
    BY <2>3 DEF Fits, Presented
  <2>5. \/ Becomes(u, decide)
        \/ Becomes(u, check)
    BY <1>1 DEF ReviewReads
  <2>6. UNCHANGED <<server, sound, parent, mail, sent>>
    BY <1>1 DEF ReviewReads
  <2>7. decide.at = "decide" /\ check.at = "check"
    OBVIOUS
  <2> HIDE DEF decide, check
  <2> QED
    BY <2>2, <2>4, <2>5, <2>6, <2>7, RequestKeeps
<1>2. ASSUME NEW r \in Runs, RejectReads(u, r) PROVE IInv'
  <2> DEFINE next == [at |-> "decide", run |-> r, verdict |-> "reject", cards |-> {},
                      staged |-> FALSE, existing |-> {}]
  <2>1. next \in Request /\ Fits(next) /\ next.at = "decide"
    BY <1>2 DEF RejectReads, Request, Verdict, Fits, Presented
  <2>2. Becomes(u, next) /\ UNCHANGED <<server, sound, parent, mail, sent>>
    BY <1>2 DEF RejectReads
  <2> HIDE DEF next
  <2> QED
    BY <2>1, <2>2, RequestKeeps
<1>3. ASSUME NEW r \in Runs, RegenerateReads(u, r) PROVE IInv'
  <2> DEFINE next == [at |-> "reject", run |-> r]
  <2>1. next \in Request /\ Presented(next.run) /\ next.at = "reject"
    BY <1>3 DEF RegenerateReads, Request, Presented
  <2>2. Becomes(u, next) /\ UNCHANGED <<server, sound, parent, mail, sent>>
    BY <1>3 DEF RegenerateReads
  <2> HIDE DEF next
  <2> QED
    BY <2>1, <2>2, RequestKeeps
<1>4. ASSUME NEW existing \in SUBSET Activities, Preflight(u, existing) PROVE IInv'
  <2> DEFINE old == requests[u]
             next == [at |-> "decide", run |-> old.run, verdict |-> old.verdict,
                      cards |-> old.cards, staged |-> old.staged, existing |-> existing]
  <2>1. old.at = "check" /\ Becomes(u, next) /\ UNCHANGED <<server, sound, parent, mail, sent>>
    BY <1>4 DEF Preflight
  <2>2. next \in Request /\ next.at = "decide"
    BY <2>1, RequestTypes DEF Request
  <2>3. Fits(next)
    BY <2>1 DEF ReviewInv, Fits
  <2> HIDE DEF next
  <2> QED
    BY <2>1, <2>2, <2>3, RequestKeeps
<1>5. CASE DecisionUnheard(u)
  <2> DEFINE message == [to |-> "review", run |-> requests[u].run,
                         verdict |-> requests[u].verdict, cards |-> requests[u].cards]
  <2>1. requests[u].at = "decide" /\ GivesUp(u, message)
    BY <1>5 DEF DecisionUnheard
  <2>2. message \in Message /\ message.to = "review"
    BY <2>1, RequestTypes DEF Message
  <2>3. Fits(message)
    BY <2>1 DEF ReviewInv, Fits
  <2> HIDE DEF message
  <2> QED
    BY <2>1, <2>2, <2>3, GiveUpKeeps
<1>6. CASE RejectionUnheard(u)
  <2> DEFINE message == [to |-> "review", run |-> requests[u].run, verdict |-> "reject",
                         cards |-> {}]
  <2>1. requests[u].at = "reject" /\ GivesUp(u, message)
    BY <1>6 DEF RejectionUnheard
  <2>2. message \in Message /\ message.to = "review"
    BY <2>1, RequestTypes DEF Message, Verdict
  <2>3. Fits(message)
    BY <2>1 DEF ReviewInv, Fits
  <2> HIDE DEF message
  <2> QED
    BY <2>1, <2>2, <2>3, GiveUpKeeps
<1>7. CASE StartUnheard(u)
  <2> DEFINE message == [to |-> "runs", parent |-> requests[u].run]
  <2>1. requests[u].at = "start" /\ GivesUp(u, message)
    BY <1>7 DEF StartUnheard
  <2>2. message \in Message /\ message.to = "runs" /\ message.parent = requests[u].run
    BY <2>1, RequestTypes DEF Message
  <2> HIDE DEF message
  <2> QED
    BY <2>1, <2>2, GiveUpKeeps
<1>8. CASE Refuse(u)
  BY <1>0, <1>8, RequestKeeps DEF Refuse
<1> QED
  BY <1>1, <1>2, <1>3, <1>4, <1>5, <1>6, <1>7, <1>8, DecidesStep, SavePutsStep, SaveSkipsStep,
     RegenerateRejectsStep, RegenerateStartsStep DEF UserStep

LEMMA StepInv == IInv /\ [Next]_vars => IInv'
<1> SUFFICES ASSUME IInv, [Next]_vars PROVE IInv'
  OBVIOUS
<1>1. ASSUME NEW m \in mail, Arrives(m) PROVE IInv'
  <2>1. CASE LateDecision(m)
    BY <1>1, <2>1, LateDecisionStep DEF Arrives
  <2>2. ASSUME NEW r \in Runs, LateStart(m, r) PROVE IInv'
    BY <1>1, <2>2, LateStartStep DEF Arrives
  <2> QED
    BY <1>1, <2>1, <2>2 DEF Arrives
<1>2. CASE UNCHANGED vars
  BY <1>2 DEF vars, server, IInv, TypeOK, ReviewInv, SaveInv, ReplaceInv, Fits, Presented,
              Replaces, AddedOnlyApproved, OncePerItem, ApprovedWereShown, OneReplacement
<1> QED
  BY <1>1, <1>2, ServerStep, UserSteps DEF Next

-----------------------------------------------------------------------------
(* The theorems.                                                           *)

LEMMA InvHolds == Spec => []IInv
BY InitInv, StepInv, PTL DEF Spec

\* The server's runs and the requests in flight keep their types.
THEOREM TypeCorrect == Spec => []TypeOK
BY InvHolds, PTL DEF IInv

\* Whoever else reviews or regenerates a run, and whichever calls are lost or
\* late, the trip is sent only what the recorded decision approved.
THEOREM OnlyApprovedIsAdded == Spec => []AddedOnlyApproved
<1>1. IInv => AddedOnlyApproved
  BY DEF IInv, SaveInv
<1> QED
  BY <1>1, InvHolds, PTL

\* The trip is sent an approved item at most once.
THEOREM ItemsAreSentOnce == Spec => []OncePerItem
<1>1. IInv => OncePerItem
  BY DEF IInv, SaveInv
<1> QED
  BY <1>1, InvHolds, PTL

\* What is approved was in a sound result that was shown, although the server
\* itself would accept any correction.
THEOREM ApprovalsWereShown == Spec => []ApprovedWereShown
<1>1. IInv => ApprovedWereShown
  BY DEF IInv, ReviewInv
<1> QED
  BY <1>1, InvHolds, PTL

\* A run is replaced at most once, after its rejection.
THEOREM ReplacedOnce == Spec => []OneReplacement
<1>1. IInv => OneReplacement
  BY DEF IInv, ReplaceInv
<1> QED
  BY <1>1, InvHolds, PTL

\* The chain from what was shown to what is added holds as a whole, for any number
\* of people, runs and late calls.
THEOREM AdditionsAreDecided == Spec => []AddedAsDecided
BY TypeCorrect, OnlyApprovedIsAdded, ApprovalsWereShown, ItemsAreSentOnce, PTL DEF AddedAsDecided
=============================================================================
