---------------------------- MODULE RunLifecycle ----------------------------
(***************************************************************************)
(* What a client of the Multi-Agent Server may rely on about a run: it is  *)
(* active until the server either fails it or hands it to a human, one     *)
(* human decision closes it for good, and a decision that does not correct *)
(* the result signs off nothing but what the human was shown.              *)
(***************************************************************************)
CONSTANTS Runs,     \* run ids
          Actions   \* changes a run may propose

VARIABLES phase,     \* what a client that polls the run sees
          shown,     \* the changes put before the human
          decision,  \* the human's decision
          approved   \* the changes the human signed off

runVars == <<phase, shown, decision, approved>>

Init == /\ phase = [r \in Runs |-> "none"]
        /\ shown = [r \in Runs |-> {}]
        /\ decision = [r \in Runs |-> "none"]
        /\ approved = [r \in Runs |-> {}]

Move(r, from, to) == /\ phase[r] = from
                     /\ phase' = [phase EXCEPT ![r] = to]

Create(r) == Move(r, "none", "active") /\ UNCHANGED <<shown, decision, approved>>

Present(r) == /\ Move(r, "active", "awaiting")
              /\ \E acts \in SUBSET Actions : shown' = [shown EXCEPT ![r] = acts]
              /\ UNCHANGED <<decision, approved>>

Fail(r) == Move(r, "active", "failed") /\ UNCHANGED <<shown, decision, approved>>

Decide(r, d, acts) == /\ decision' = [decision EXCEPT ![r] = d]
                      /\ approved' = [approved EXCEPT ![r] = acts]
                      /\ UNCHANGED shown

Approve(r) == Move(r, "awaiting", "completed") /\ Decide(r, "approve", shown[r])

Correct(r) == /\ Move(r, "awaiting", "completed")
              /\ \E acts \in SUBSET Actions : Decide(r, "correct", acts)

AcceptPart(r) == /\ Move(r, "awaiting", "completed")
                 /\ \E acts \in (SUBSET shown[r]) \ {{}} : Decide(r, "partial", acts)

Reject(r) == Move(r, "awaiting", "rejected") /\ Decide(r, "reject", {})

Next == \E r \in Runs : \/ Create(r) \/ Present(r) \/ Fail(r)
                        \/ Approve(r) \/ Correct(r) \/ AcceptPart(r) \/ Reject(r)

Spec == Init /\ [][Next]_runVars
=============================================================================
