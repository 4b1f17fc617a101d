------------------------------ MODULE Parts_proof ------------------------------
(***************************************************************************)
(* TLAPS proofs about parts that MCParts and MCServices check side by side,  *)
(* each for itself: the calls of one run of a model (ToolLoop), what an      *)
(* assistant tells of them (GroundedAnswers), student 2's catalogue of stays *)
(* (StayCatalogue), what a trip costs (TripCosts), student 4's catalogue     *)
(* (ActivityCatalogue) and the search of it (CatalogueSearch), the           *)
(* tick-lists of trips (TripPicker), and the validation loop (AgenticLoop).  *)
(***************************************************************************)
EXTENDS ToolLoop, AgenticLoop, GroundedAnswers, StayCatalogue, TripCosts, CatalogueSearch,
        TripPicker, FiniteSetTheorems, TLAPS

-----------------------------------------------------------------------------
(* ToolLoop: for every catalogue and every limit                           *)

Sent(c) == \E i \in DOMAIN trace : trace[i].call = c /\ trace[i].status /= "rejected"

\* The trace of the run under way: what it has sent, what it still waits for.
TraceInv ==
  /\ \A c \in Calls : c \in executed <=> Sent(c)
  /\ at = "tool" => trace[Len(trace)].status /= "rejected"
  /\ at \notin Ended => Len(trace) <= MaxCalls
  /\ UncertainEndsRun
  /\ CallsBounded

RunInv == ToolTypeOK /\ TraceInv

\* What the run under way was told of a call, and what it was not.
Acknowledged(c) == \E i \in DOMAIN trace : trace[i].call = c /\ trace[i].status = "success"
Unheard(c) == \E i \in DOMAIN trace : /\ trace[i].call = c /\ trace[i].status /= "rejected"
                                      /\ ~trace[i].answered

\* A call of which the run knows neither a success nor an open end came back as an
\* error whenever it was sent, and a write that the run has not sent was sent at most
\* once in each earlier one.  With a caller that asks again only after a run without
\* tool calls, the run under way is the only one that has sent anything.
CallCounts(c) ==
  /\ c \in executed => received[c].sent > 0
  /\ ~Acknowledged(c) /\ ~Unheard(c) => received[c].errors = received[c].sent
  /\ asking.by = "others" => (received[c].sent > 0 => c \in executed)
WriteCounts(c) ==
  /\ received[c].sent <= asking.runs /\ received[c].sent <= received[c].errors + 1
  /\ c \notin executed => received[c].sent < asking.runs
  /\ asking.by = "others" => received[c].sent <= 1
Pending ==
  at = "tool" =>
    /\ trace[Len(trace)].call = Head(reply) /\ trace[Len(trace)].status = "error"
    /\ ~Acknowledged(Head(reply)) => received[Head(reply)].sent = received[Head(reply)].errors + 1
CallerInv ==
  /\ Pending
  /\ \A c \in Calls : CallCounts(c)
  /\ \A c \in Calls \ ReadOnly : WriteCounts(c)

-----------------------------------------------------------------------------
Counts == [sent : Nat, errors : Nat]

LEMMA CountTypes ==
  ASSUME NEW r \in [Calls -> Counts], NEW h \in Calls
  PROVE  /\ [r EXCEPT ![h].sent = @ + 1] \in [Calls -> Counts]
         /\ [r EXCEPT ![h].sent = @ + 1][h].sent = r[h].sent + 1
         /\ [r EXCEPT ![h].sent = @ + 1][h].errors = r[h].errors
         /\ \A c \in Calls : c /= h => [r EXCEPT ![h].sent = @ + 1][c] = r[c]
         /\ [r EXCEPT ![h].errors = @ + 1] \in [Calls -> Counts]
         /\ [r EXCEPT ![h].errors = @ + 1][h].sent = r[h].sent
         /\ [r EXCEPT ![h].errors = @ + 1][h].errors = r[h].errors + 1
         /\ \A c \in Calls : c /= h => [r EXCEPT ![h].errors = @ + 1][c] = r[c]
<1> DEFINE s == [r[h] EXCEPT !.sent = @ + 1]
           e == [r[h] EXCEPT !.errors = @ + 1]
<1>1. r[h] \in Counts
  OBVIOUS
<1>2. s \in Counts /\ s.sent = r[h].sent + 1 /\ s.errors = r[h].errors
  BY <1>1 DEF Counts
<1>3. e \in Counts /\ e.sent = r[h].sent /\ e.errors = r[h].errors + 1
  BY <1>1 DEF Counts
<1>4. [r EXCEPT ![h].sent = @ + 1] = [r EXCEPT ![h] = s] /\ [r EXCEPT ![h].errors = @ + 1] = [r EXCEPT ![h] = e]
  OBVIOUS
<1> HIDE DEF s, e
<1> QED
  BY <1>2, <1>3, <1>4

LEMMA AskingTypes ==
  ASSUME NEW a \in [by : Callers, runs : Nat]
  PROVE  /\ [a EXCEPT !.runs = @ + 1] \in [by : Callers, runs : Nat]
         /\ [a EXCEPT !.runs = @ + 1].by = a.by
         /\ [a EXCEPT !.runs = @ + 1].runs = a.runs + 1
OBVIOUS

LEMMA InitRun == ToolInit => RunInv
<1> SUFFICES ASSUME ToolInit PROVE RunInv
  OBVIOUS
<1> USE DEF ToolInit
<1>1. turn \in 1 .. MaxTurns /\ corrections \in 0 .. MaxCorrections
  BY ToolAssumption
<1>2. ToolTypeOK
  <2>1. reply \in Seq(Calls) /\ trace \in Seq(Entry)
    OBVIOUS
  <2>2. received \in [Calls -> [sent : Nat, errors : Nat]] /\ asking \in [by : Callers, runs : Nat]
    OBVIOUS
  <2> QED
    BY <1>1, <2>1, <2>2 DEF ToolTypeOK
<1>3. Len(trace) = 0 /\ DOMAIN trace = {} /\ MaxCalls \in Nat
  BY ToolAssumption
<1>4. TraceInv
  BY <1>3 DEF TraceInv, Sent, UncertainEndsRun, CallsBounded, Ended
<1> QED
  BY <1>2, <1>4 DEF RunInv

\* The trace grows by the call at the head of the reply.
LEMMA TracedFacts ==
  ASSUME trace \in Seq(Entry), reply \in Seq(Calls), reply /= <<>>,
         NEW status \in {"success", "error", "rejected"}, Traced(status)
  PROVE  /\ Head(reply) \in Calls
         /\ trace' \in Seq(Entry)
         /\ Len(trace) \in Nat
         /\ Len(trace') = Len(trace) + 1
         /\ DOMAIN trace' = 1 .. (Len(trace) + 1) /\ DOMAIN trace = 1 .. Len(trace)
         /\ trace'[Len(trace) + 1] = [call |-> Head(reply), status |-> status,
                                      answered |-> FALSE]
         /\ \A i \in 1 .. Len(trace) : trace'[i] = trace[i]
<1>1. Head(reply) \in Calls
  OBVIOUS
<1>2. [call |-> Head(reply), status |-> status, answered |-> FALSE] \in Entry
  BY <1>1 DEF Entry
<1> QED
  BY <1>1, <1>2 DEF Traced

\* A call that is traced but not sent leaves what was sent as it was.
LEMMA RefusalKeeps ==
  ASSUME RunInv, at = "calls", reply /= <<>>, Traced("rejected"), UNCHANGED executed,
         at' \in {"calls", "failed"},
         at' = "calls" => WithinLimit
  PROVE  TraceInv'
<1> USE DEF RunInv
<1>1. trace \in Seq(Entry) /\ reply \in Seq(Calls)
  BY DEF ToolTypeOK
<1>2. /\ Len(trace) \in Nat /\ Len(trace') = Len(trace) + 1
      /\ DOMAIN trace' = 1 .. (Len(trace) + 1) /\ DOMAIN trace = 1 .. Len(trace)
      /\ trace'[Len(trace) + 1] = [call |-> Head(reply), status |-> "rejected",
                                   answered |-> FALSE]
      /\ \A i \in 1 .. Len(trace) : trace'[i] = trace[i]
  BY <1>1, TracedFacts
<1>3. \A c \in Calls : Sent(c) <=> Sent(c)'
  BY <1>2 DEF Sent
<1>4. \A c \in Calls : c \in executed' <=> Sent(c)'
  BY <1>3 DEF TraceInv
<1>5. UncertainEndsRun'
  BY <1>2 DEF TraceInv, UncertainEndsRun
<1>6. Len(trace) <= MaxCalls /\ MaxCalls \in Nat
  BY ToolAssumption DEF TraceInv, Ended
<1>7. CallsBounded' /\ (at' \notin Ended => Len(trace') <= MaxCalls)
  BY <1>2, <1>6 DEF CallsBounded, WithinLimit, Ended
<1> QED
  BY <1>4, <1>5, <1>7 DEF TraceInv

\* Steps that leave the trace and what was sent alone.
LEMMA OtherKeeps ==
  ASSUME RunInv, UNCHANGED <<trace, executed>>, at \notin Ended,
         at' \in {"chat", "calls", "format"} \cup Ended,
         at = "tool" => at' = "failed"
  PROVE  TraceInv'
<1> USE DEF RunInv
<1>1. \A c \in Calls : c \in executed' <=> Sent(c)'
  BY DEF TraceInv, Sent
<1>2. Len(trace') = Len(trace) /\ Len(trace) \in Nat /\ MaxCalls \in Nat
  BY ToolAssumption DEF ToolTypeOK
<1>3. UncertainEndsRun'
  BY DEF TraceInv, UncertainEndsRun, Ended
<1>4. Len(trace) <= MaxCalls
  BY DEF TraceInv
<1>5. CallsBounded'
  BY <1>2, <1>4 DEF CallsBounded
<1> QED
  BY <1>1, <1>2, <1>3, <1>4, <1>5 DEF TraceInv, Ended

LEMMA SendsKeeps ==
  ASSUME RunInv, Sends
  PROVE  ToolTypeOK' /\ TraceInv'
<1> USE DEF RunInv
<1>1. /\ trace \in Seq(Entry) /\ reply \in Seq(Calls) /\ reply /= <<>> /\ Traced("error")
      /\ at = "calls" /\ at' = "tool" /\ executed' = executed \cup {Head(reply)}
  BY DEF ToolTypeOK, Sends
<1>2. /\ Head(reply) \in Calls /\ trace' \in Seq(Entry)
      /\ Len(trace) \in Nat /\ Len(trace') = Len(trace) + 1
      /\ DOMAIN trace' = 1 .. (Len(trace) + 1) /\ DOMAIN trace = 1 .. Len(trace)
      /\ trace'[Len(trace) + 1] = [call |-> Head(reply), status |-> "error",
                                   answered |-> FALSE]
      /\ \A i \in 1 .. Len(trace) : trace'[i] = trace[i]
  BY <1>1, TracedFacts
<1>3. ToolTypeOK'
  <2>1. Head(reply) \in Known \cap Valid
    BY DEF Sends, Allowed
  <2>2. received' \in [Calls -> [sent : Nat, errors : Nat]]
    BY <1>2, CountTypes DEF Sends, ToolTypeOK, Counts
  <2>3. trace' /= <<>>
    BY <1>2
  <2> QED
    BY <1>1, <1>2, <2>1, <2>2, <2>3 DEF Sends, ToolTypeOK
<1>4. \A c \in Calls : Sent(c)' <=> Sent(c) \/ c = Head(reply)
  BY <1>2 DEF Sent
<1>5. \A c \in Calls : c \in executed' <=> Sent(c)'
  BY <1>1, <1>4 DEF TraceInv
<1>6. Len(trace) < MaxCalls /\ MaxCalls \in Nat
  BY ToolAssumption DEF Sends, Allowed, WithinLimit
<1>7. CallsBounded' /\ Len(trace') <= MaxCalls
  BY <1>2, <1>6 DEF CallsBounded
<1>8. UncertainEndsRun'
  BY <1>1, <1>2 DEF TraceInv, UncertainEndsRun
<1>9. trace'[Len(trace')].status /= "rejected"
  BY <1>2
<1> QED
  BY <1>3, <1>5, <1>7, <1>8, <1>9 DEF TraceInv

LEMMA ReturnsKeeps ==
  ASSUME RunInv, Returns
  PROVE  ToolTypeOK' /\ TraceInv'
<1> USE DEF RunInv
<1>1. PICK outcome \in {"success", "error"}, large \in BOOLEAN :
        /\ trace' = [trace EXCEPT ![Len(trace)] =
                       [@ EXCEPT !.status = outcome, !.answered = ~large]]
        /\ IF large THEN at' = "failed" /\ UNCHANGED reply
                    ELSE at' = "calls" /\ reply' = Tail(reply)
        /\ received' = IF outcome = "error" THEN [received EXCEPT ![Head(reply)].errors = @ + 1]
                                            ELSE received
  BY DEF Returns
<1> DEFINE e == [trace[Len(trace)] EXCEPT !.status = outcome, !.answered = ~large]
<1>2. /\ at = "tool" /\ reply /= <<>> /\ trace /= <<>>
      /\ trace \in Seq(Entry) /\ reply \in Seq(Calls)
      /\ UNCHANGED <<turn, executed, corrections, rechecked, asking>>
  BY DEF Returns, ToolTypeOK
<1>3. /\ Len(trace) \in Nat \ {0} /\ DOMAIN trace = 1 .. Len(trace)
      /\ \A i \in 1 .. Len(trace) : trace[i] \in Entry
  BY <1>2
<1>4. /\ trace' \in Seq(Entry) /\ Len(trace') = Len(trace) /\ DOMAIN trace' = DOMAIN trace
      /\ \A i \in 1 .. Len(trace) :
           /\ trace'[i].call = trace[i].call
           /\ i /= Len(trace) => trace'[i] = trace[i]
      /\ trace'[Len(trace)].status = outcome
      /\ trace'[Len(trace)].answered = ~large
  <2>1. trace[Len(trace)] \in Entry
    BY <1>3
  <2>2. /\ e \in Entry /\ e.call = trace[Len(trace)].call
        /\ e.status = outcome /\ e.answered = ~large
    BY <2>1 DEF Entry
  <2>3. trace' = [trace EXCEPT ![Len(trace)] = e]
    BY <1>1
  <2> HIDE DEF e
  <2>4. trace' \in Seq(Entry) /\ Len(trace') = Len(trace) /\ DOMAIN trace' = DOMAIN trace
    BY <1>2, <1>3, <2>2, <2>3
  <2>5. trace'[Len(trace)] = e /\ \A i \in 1 .. Len(trace) : i /= Len(trace) => trace'[i] = trace[i]
    <3>1. trace \in [1 .. Len(trace) -> Entry] /\ Len(trace) \in 1 .. Len(trace)
      BY <1>2, <1>3
    <3> QED
      BY <2>3, <3>1
  <2> QED
    BY <2>2, <2>4, <2>5
<1> HIDE DEF e
<1>5. ToolTypeOK'
  <2>1. Tail(reply) \in Seq(Calls)
    BY <1>2
  <2>2. reply' \in Seq(Calls) /\ at' \in {"calls", "failed"}
    BY <1>1, <1>2, <2>1
  <2>3. Head(reply) \in Calls
    BY <1>2
  <2>4. received' \in [Calls -> [sent : Nat, errors : Nat]]
    BY <1>1, <2>3, CountTypes DEF ToolTypeOK, Counts
  <2> QED
    BY <1>2, <1>4, <2>2, <2>4 DEF ToolTypeOK, Ended
<1>6. \A c \in Calls : Sent(c) <=> Sent(c)'
  <2>1. trace[Len(trace)].status /= "rejected"
    BY <1>2 DEF TraceInv
  <2> QED
    BY <1>1, <1>3, <1>4, <2>1 DEF Sent
<1>7. UncertainEndsRun'
  BY <1>1, <1>2, <1>3, <1>4 DEF TraceInv, UncertainEndsRun
<1>8. Len(trace) <= MaxCalls /\ MaxCalls \in Nat
  BY <1>2, ToolAssumption DEF TraceInv, Ended
<1>9. CallsBounded'
  <2>1. Len(trace') = Len(trace) /\ Len(trace) \in Nat
    BY <1>3, <1>4
  <2> QED
    BY <1>8, <2>1 DEF CallsBounded
<1>10. at' /= "tool" /\ Len(trace') <= MaxCalls
  BY <1>1, <1>4, <1>8
<1> QED
  BY <1>2, <1>5, <1>6, <1>7, <1>9, <1>10 DEF TraceInv

LEMMA RunStep == RunInv /\ [ToolNext]_ToolVars => RunInv'
<1> SUFFICES ASSUME RunInv, [ToolNext]_ToolVars PROVE ToolTypeOK' /\ TraceInv'
  BY DEF RunInv
<1> USE DEF RunInv
<1>0. /\ MaxTurns \in Nat \ {0} /\ MaxCorrections \in Nat
      /\ reply \in Seq(Calls) /\ trace \in Seq(Entry)
  BY ToolAssumption DEF ToolTypeOK
<1>1. CASE Answers
  <2>1. at' \in {"chat", "format"} \cup Ended /\ turn' \in 1 .. MaxTurns /\ rechecked' \in BOOLEAN
    <3>1. turn \in 1 .. MaxTurns /\ rechecked \in BOOLEAN
      BY DEF ToolTypeOK
    <3>2. CASE NeedsRecheck
      <4>1. rechecked' = TRUE /\ Turn
        BY <1>1, <3>2 DEF Answers
      <4>2. turn /= MaxTurns => turn + 1 \in 1 .. MaxTurns
        BY <1>0, <3>1
      <4> QED
        BY <3>1, <4>1, <4>2 DEF Turn, Ended
    <3>3. CASE ~NeedsRecheck
      BY <1>1, <3>1, <3>3 DEF Answers, Ended
    <3> QED
      BY <3>2, <3>3
  <2>2. ToolTypeOK'
    BY <1>1, <2>1 DEF Answers, ToolTypeOK, Ended
  <2> QED
    BY <1>1, <2>1, <2>2, OtherKeeps DEF Answers, Ended
<1>2. CASE Formats
  <2>1. ToolTypeOK'
    BY <1>2 DEF Formats, ToolTypeOK, Ended
  <2> QED
    BY <1>2, <2>1, OtherKeeps DEF Formats, Ended
<1>3. ASSUME NEW n \in 1 .. MaxReply, NEW calls \in [1 .. n -> Calls], Asks(calls)
      PROVE  ToolTypeOK' /\ TraceInv'
  <2>1. n \in Nat /\ calls \in Seq(Calls)
    BY ToolAssumption
  <2>2. ToolTypeOK'
    BY <1>3, <2>1 DEF Asks, ToolTypeOK
  <2> QED
    BY <1>3, <2>2, OtherKeeps DEF Asks, Ended
<1>4. CASE Rejects
  <2>1. trace' \in Seq(Entry)
    BY <1>0, <1>4, TracedFacts DEF Rejects
  <2>2. ToolTypeOK'
    BY <1>4, <2>1 DEF Rejects, ToolTypeOK, Ended
  <2> QED
    BY <1>4, <2>2, RefusalKeeps DEF Rejects
<1>5. CASE Corrects
  <2>1. trace' \in Seq(Entry)
    BY <1>0, <1>5, TracedFacts DEF Corrects
  <2>0. Tail(reply) \in Seq(Calls)
    BY <1>0, <1>5 DEF Corrects
  <2>2. reply' \in Seq(Calls) /\ at' \in {"calls", "failed"} /\ corrections' \in 0 .. MaxCorrections
    <3>1. corrections \in 0 .. MaxCorrections /\ at = "calls"
      BY <1>5 DEF Corrects, ToolTypeOK
    <3>2. CASE corrections = MaxCorrections
      BY <1>0, <1>5, <3>1, <3>2 DEF Corrects
    <3>3. CASE corrections /= MaxCorrections
      BY <1>0, <1>5, <2>0, <3>1, <3>3 DEF Corrects
    <3> QED
      BY <3>2, <3>3
  <2>3. ToolTypeOK'
    BY <1>5, <2>1, <2>2 DEF Corrects, ToolTypeOK, Ended
  <2> QED
    BY <1>5, <2>2, <2>3, RefusalKeeps DEF Corrects, Allowed
<1>6. CASE Sends
  BY <1>6, SendsKeeps
<1>7. CASE Returns
  BY <1>7, ReturnsKeeps
<1>8. CASE EndsReply
  <2>1. ToolTypeOK'
    BY <1>0, <1>8 DEF EndsReply, Turn, ToolTypeOK, Ended
  <2> QED
    BY <1>8, <2>1, OtherKeeps DEF EndsReply, Turn, Ended
<1>9. CASE Fails
  <2>1. ToolTypeOK'
    BY <1>9 DEF Fails, ToolTypeOK, Ended
  <2> QED
    BY <1>9, <2>1, OtherKeeps DEF Fails, Ended
<1>10. CASE AsksAgain
  <2>1. Len(trace') = 0 /\ DOMAIN trace' = {} /\ MaxCalls \in Nat
    BY <1>10, ToolAssumption DEF AsksAgain, StartsRun
  <2>2. reply' \in Seq(Calls) /\ trace' \in Seq(Entry)
    BY <1>10 DEF AsksAgain, StartsRun
  <2>3. ToolTypeOK'
    <3>1. turn' \in 1 .. MaxTurns /\ corrections' \in 0 .. MaxCorrections
      BY <1>0, <1>10 DEF AsksAgain, StartsRun
    <3>2. asking' \in [by : Callers, runs : Nat]
      BY <1>10, AskingTypes DEF AsksAgain, ToolTypeOK
    <3>3. at' = "chat" /\ executed' = {} /\ rechecked' = FALSE /\ received' = received
      BY <1>10 DEF AsksAgain, StartsRun
    <3> QED
      BY <2>2, <3>1, <3>2, <3>3 DEF ToolTypeOK
  <2>4. TraceInv'
    BY <1>10, <2>1 DEF AsksAgain, StartsRun, TraceInv, Sent, UncertainEndsRun, CallsBounded,
                       Ended
  <2> QED
    BY <2>3, <2>4
<1>11. CASE UNCHANGED ToolVars
  BY <1>11 DEF ToolVars, ToolTypeOK, TraceInv, Sent, UncertainEndsRun, CallsBounded
<1> QED
  BY <1>1, <1>2, <1>3, <1>4, <1>5, <1>6, <1>7, <1>8, <1>9, <1>10, <1>11 DEF ToolNext

\* A write that the run has not sent came back as an error whenever it was.
LEMMA SendsCounts ==
  ASSUME RunInv, CallerInv, Sends
  PROVE  CallerInv'
<1>0. Head(reply) \in Calls
  BY TracedFacts DEF Sends, RunInv, ToolTypeOK
<1> PICK h \in Calls : h = Head(reply)
  BY <1>0
<1>1. /\ at = "calls" /\ Traced("error") /\ reply /= <<>> /\ trace \in Seq(Entry) /\ reply \in Seq(Calls)
      /\ executed' = executed \cup {h} /\ received' = [received EXCEPT ![h].sent = @ + 1]
      /\ asking' = asking /\ reply' = reply /\ at' = "tool" /\ Len(trace') = Len(trace) + 1
      /\ received \in [Calls -> [sent : Nat, errors : Nat]]
      /\ asking \in [by : Callers, runs : Nat]
      /\ h \in ReadOnly \/ h \notin executed
  BY DEF Sends, Allowed, Repeats, Traced, RunInv, ToolTypeOK
<1>2. /\ DOMAIN trace' = 1 .. (Len(trace) + 1) /\ DOMAIN trace = 1 .. Len(trace)
      /\ trace'[Len(trace) + 1] = [call |-> h, status |-> "error", answered |-> FALSE]
      /\ \A i \in 1 .. Len(trace) : trace'[i] = trace[i]
      /\ Len(trace) \in Nat
  BY <1>1, TracedFacts
<1>3. Unheard(h)'
  BY <1>2 DEF Unheard
<1>4. ASSUME NEW c \in Calls, c /= h
      PROVE  (Acknowledged(c)' <=> Acknowledged(c)) /\ (Unheard(c)' <=> Unheard(c))
  BY <1>2, <1>4 DEF Acknowledged, Unheard
<1>5. /\ received'[h].sent = received[h].sent + 1 /\ received'[h].errors = received[h].errors
      /\ \A c \in Calls : c /= h => received'[c] = received[c]
      /\ received[h].sent \in Nat /\ received[h].errors \in Nat
  BY <1>1, CountTypes DEF Counts
<1>6. \A c \in Calls : CallCounts(c)'
  <2>1. CallCounts(h)'
    BY <1>1, <1>3, <1>5 DEF CallerInv, CallCounts
  <2>2. ASSUME NEW c \in Calls, c /= h PROVE CallCounts(c)'
    BY <1>1, <1>4, <1>5, <2>2 DEF CallerInv, CallCounts
  <2> QED
    BY <2>1, <2>2
<1>7. ~Unheard(h) /\ (h \notin executed => ~Acknowledged(h))
  BY <1>1, <1>2 DEF RunInv, TraceInv, Sent, UncertainEndsRun, Acknowledged, Unheard
<1>8. h \notin ReadOnly => WriteCounts(h)'
  <2> SUFFICES ASSUME h \notin ReadOnly PROVE WriteCounts(h)'
    OBVIOUS
  <2>1. received[h].errors = received[h].sent /\ (asking.by = "others" => ~(received[h].sent > 0))
    BY <1>1, <1>2, <1>7 DEF CallerInv, CallCounts
  <2>2. received[h].sent < asking.runs /\ asking.runs \in Nat
    BY <1>1, <1>2 DEF CallerInv, WriteCounts
  <2> QED
    BY <1>1, <1>5, <2>1, <2>2 DEF WriteCounts
<1>9. \A c \in Calls \ ReadOnly : c /= h => WriteCounts(c)'
  BY <1>1, <1>5 DEF CallerInv, WriteCounts
<1>10. Pending'
  <2>2. Acknowledged(h)' <=> Acknowledged(h)
    BY <1>2 DEF Acknowledged
  <2>3. ~Acknowledged(h) => received[h].sent = received[h].errors
    BY <1>2, <1>7 DEF CallerInv, CallCounts
  <2> QED
    BY <1>1, <1>2, <1>5, <2>2, <2>3 DEF Pending
<1> QED
  BY <1>2, <1>6, <1>8, <1>9, <1>10 DEF CallerInv

LEMMA ReturnsCounts ==
  ASSUME RunInv, CallerInv, Returns
  PROVE  CallerInv'
<1>0. Head(reply) \in Calls
  BY DEF Returns, RunInv, ToolTypeOK
<1> PICK h \in Calls : h = Head(reply)
  BY <1>0
<1> PICK n : n = Len(trace)
  OBVIOUS
<1>1. PICK outcome \in {"success", "error"}, large \in BOOLEAN :
        /\ trace' = [trace EXCEPT ![n] = [@ EXCEPT !.status = outcome, !.answered = ~large]]
        /\ received' = IF outcome = "error" THEN [received EXCEPT ![h].errors = @ + 1] ELSE received
  BY DEF Returns
<1>2. /\ at = "tool" /\ reply /= <<>> /\ trace /= <<>> /\ trace \in Seq(Entry) /\ reply \in Seq(Calls)
      /\ executed' = executed /\ asking' = asking
      /\ received \in [Calls -> [sent : Nat, errors : Nat]] /\ asking \in [by : Callers, runs : Nat]
      /\ trace[n].call = h /\ trace[n].status = "error" /\ at' /= "tool"
      /\ ~Acknowledged(h) => received[h].sent = received[h].errors + 1
  BY DEF Returns, RunInv, ToolTypeOK, CallerInv, Pending
<1>3. /\ n \in Nat \ {0} /\ DOMAIN trace = 1 .. n /\ h \in Calls
      /\ trace \in [1 .. n -> Entry]
  BY <1>2
<1>4. /\ DOMAIN trace' = 1 .. n /\ trace'[n].call = h /\ trace'[n].status = outcome
      /\ \A i \in 1 .. n : i /= n => trace'[i] = trace[i]
  <2>1. trace[n] \in Entry
    BY <1>3
  <2>2. \A e : e = [trace[n] EXCEPT !.status = outcome, !.answered = ~large] =>
               e.call = trace[n].call /\ e.status = outcome
    BY <2>1 DEF Entry
  <2>3. PICK e : e = [trace[n] EXCEPT !.status = outcome, !.answered = ~large]
    OBVIOUS
  <2>4. trace' = [trace EXCEPT ![n] = e]
    BY <1>1, <2>3
  <2>5. trace'[n] = e /\ DOMAIN trace' = 1 .. n /\ \A i \in 1 .. n : i /= n => trace'[i] = trace[i]
    BY <1>3, <2>4
  <2> QED
    BY <1>2, <2>2, <2>3, <2>5
<1>5. ASSUME NEW c \in Calls, c /= h
      PROVE  (Acknowledged(c)' <=> Acknowledged(c)) /\ (Unheard(c)' <=> Unheard(c))
  BY <1>2, <1>3, <1>4, <1>5 DEF Acknowledged, Unheard
<1>6. /\ received'[h].sent = received[h].sent
      /\ received'[h].errors = IF outcome = "error" THEN received[h].errors + 1 ELSE received[h].errors
      /\ \A c \in Calls : c /= h => received'[c] = received[c]
      /\ received[h].sent \in Nat /\ received[h].errors \in Nat
  BY <1>1, <1>2, CountTypes DEF Counts
<1>7. Acknowledged(h)' <=> Acknowledged(h) \/ outcome = "success"
  <2>1. ASSUME NEW i \in 1 .. n, trace[i].call = h, trace[i].status = "success"
        PROVE  trace'[i].call = h /\ trace'[i].status = "success"
    BY <1>2, <1>4, <2>1
  <2>2. ASSUME NEW i \in 1 .. n, trace'[i].status = "success", trace'[i].call = h
        PROVE  outcome = "success" \/ (trace[i].call = h /\ trace[i].status = "success")
    BY <1>4, <2>2
  <2>3. n \in 1 .. n
    BY <1>3
  <2> QED
    BY <1>3, <1>4, <2>1, <2>2, <2>3 DEF Acknowledged
<1>8. CallCounts(h)'
  BY <1>2, <1>3, <1>6, <1>7 DEF CallerInv, CallCounts
<1>9. ASSUME NEW c \in Calls, c /= h PROVE CallCounts(c)'
  BY <1>2, <1>5, <1>6, <1>9 DEF CallerInv, CallCounts
<1>10. ASSUME NEW c \in Calls \ ReadOnly PROVE WriteCounts(c)'
  <2>1. WriteCounts(c) /\ received[c].sent \in Nat /\ received[c].errors \in Nat
    BY <1>2 DEF CallerInv
  <2>2. /\ received'[c].sent = received[c].sent /\ received'[c].errors \in Nat
        /\ received'[c].errors >= received[c].errors
    BY <1>6, <2>1
  <2> QED
    BY <1>2, <2>1, <2>2 DEF WriteCounts
<1>11. Pending'
  BY <1>2 DEF Pending
<1> QED
  BY <1>8, <1>9, <1>10, <1>11 DEF CallerInv

\* A new run forgets what the last one sent: nothing, or only what came back as errors.
LEMMA AsksCounts ==
  ASSUME RunInv, CallerInv, AsksAgain
  PROVE  CallerInv'
<1>1. /\ at = "answered" /\ at' = "chat" /\ executed' = {} /\ trace' = <<>> /\ received' = received
      /\ asking' = [asking EXCEPT !.runs = @ + 1] /\ MayAskAgain
      /\ received \in [Calls -> [sent : Nat, errors : Nat]] /\ asking \in [by : Callers, runs : Nat]
  BY DEF AsksAgain, StartsRun, RunInv, ToolTypeOK
<1>2. asking'.by = asking.by /\ asking'.runs = asking.runs + 1 /\ asking.runs \in Nat
  BY <1>1, AskingTypes
<1>3. ASSUME NEW c \in Calls PROVE ~Acknowledged(c) /\ ~Unheard(c)
  <2>0. \A i \in DOMAIN trace : trace[i].status /= "success"
    <3>1. CASE asking.by = "trip assistant"
      BY <1>1, <3>1 DEF MayAskAgain
    <3>2. CASE asking.by /= "trip assistant"
      <4>1. trace = <<>>
        BY <1>1, <3>2 DEF MayAskAgain
      <4> QED
        BY <4>1
    <3> QED
      BY <3>1, <3>2
  <2>1. ~Acknowledged(c)
    BY <2>0 DEF Acknowledged
  <2>2. UncertainEndsRun /\ at \notin {"tool", "failed"}
    BY <1>1 DEF RunInv, TraceInv
  <2>3. ~Unheard(c)
    BY <2>2 DEF UncertainEndsRun, Unheard
  <2> QED
    BY <2>1, <2>3
<1>4. ASSUME NEW c \in Calls PROVE received[c].errors = received[c].sent /\ received[c] \in [sent : Nat, errors : Nat]
  BY <1>1, <1>3 DEF CallerInv, CallCounts
<1>5. asking.by = "others" => \A c \in Calls : c \notin executed
  BY <1>1 DEF MayAskAgain, RunInv, TraceInv, Sent
<1>6. ASSUME NEW c \in Calls PROVE CallCounts(c)'
  BY <1>1, <1>2, <1>4, <1>5 DEF CallerInv, CallCounts
<1>7. ASSUME NEW c \in Calls \ ReadOnly PROVE WriteCounts(c)'
  BY <1>1, <1>2, <1>4 DEF CallerInv, WriteCounts
<1> QED
  BY <1>1, <1>6, <1>7 DEF CallerInv, Pending

\* A call that is refused is not told as one that was sent.
LEMMA RefusesCounts ==
  ASSUME RunInv, CallerInv, Rejects \/ Corrects
  PROVE  CallerInv'
<1>1. /\ at = "calls" /\ at' /= "tool" /\ Traced("rejected") /\ reply /= <<>>
      /\ UNCHANGED <<executed, asking, received>> /\ trace \in Seq(Entry) /\ reply \in Seq(Calls)
  BY DEF Rejects, Corrects, RunInv, ToolTypeOK
<1>2. /\ DOMAIN trace' = 1 .. (Len(trace) + 1) /\ DOMAIN trace = 1 .. Len(trace) /\ Len(trace) \in Nat
      /\ trace'[Len(trace) + 1] = [call |-> Head(reply), status |-> "rejected", answered |-> FALSE]
      /\ \A i \in 1 .. Len(trace) : trace'[i] = trace[i]
  BY <1>1, TracedFacts
<1>3. \A c \in Calls : (Acknowledged(c)' <=> Acknowledged(c)) /\ (Unheard(c)' <=> Unheard(c))
  BY <1>2 DEF Acknowledged, Unheard
<1> QED
  BY <1>1, <1>3 DEF CallerInv, Pending, CallCounts, WriteCounts

LEMMA CallerStep ==
  RunInv /\ CallerInv /\ [ToolNext]_ToolVars => CallerInv'
<1> SUFFICES ASSUME RunInv, CallerInv, [ToolNext]_ToolVars PROVE CallerInv'
  OBVIOUS
<1>1. ASSUME UNCHANGED <<trace, executed, asking, received>>, at' /= "tool" PROVE CallerInv'
  BY <1>1 DEF CallerInv, Pending, CallCounts, WriteCounts, Acknowledged, Unheard
<1>2. CASE UNCHANGED ToolVars
  BY <1>2 DEF ToolVars, CallerInv, Pending, CallCounts, WriteCounts, Acknowledged, Unheard
<1>3. CASE Answers \/ Formats \/ EndsReply \/ Fails
  BY <1>1, <1>3 DEF Answers, Formats, EndsReply, Fails, Turn, Ended
<1>4. ASSUME NEW n \in 1 .. MaxReply, NEW calls \in [1 .. n -> Calls], Asks(calls) PROVE CallerInv'
  BY <1>1, <1>4 DEF Asks
<1> QED
  BY <1>2, <1>3, <1>4, SendsCounts, ReturnsCounts, AsksCounts, RefusesCounts DEF ToolNext

-----------------------------------------------------------------------------
(* The theorems.                                                           *)

LEMMA RunHolds == ToolSpec => []RunInv
BY InitRun, RunStep, PTL DEF ToolSpec

LEMMA CallerHolds == ToolSpec => [](RunInv /\ CallerInv)
<1>1. ToolInit => CallerInv
  <2> SUFFICES ASSUME ToolInit PROVE CallerInv
    OBVIOUS
  <2>1. /\ at = "chat" /\ trace = <<>> /\ executed = {} /\ asking.runs = 1
        /\ \A c \in Calls : received[c].sent = 0 /\ received[c].errors = 0
    BY DEF ToolInit
  <2> QED
    BY <2>1 DEF CallerInv, Pending, CallCounts, WriteCounts
<1>2. (RunInv /\ CallerInv) /\ [ToolNext]_ToolVars => (RunInv /\ CallerInv)'
  BY RunStep, CallerStep
<1> QED
  BY <1>1, <1>2, InitRun, PTL DEF ToolSpec

\* The run, its trace and what was sent keep their types.
THEOREM TypeCorrect == ToolSpec => []ToolTypeOK
BY RunHolds, PTL DEF RunInv

\* A call whose result the model has not seen is the last one of its run.
THEOREM UncertainIsLast == ToolSpec => []UncertainEndsRun
<1>1. RunInv => UncertainEndsRun
  BY DEF RunInv, TraceInv
<1> QED
  BY <1>1, RunHolds, PTL

\* No mix of calls, corrections and turns exceeds the call limit.
THEOREM CallsAreBounded == ToolSpec => []CallsBounded
<1>1. RunInv => CallsBounded
  BY DEF RunInv, TraceInv
<1> QED
  BY <1>1, RunHolds, PTL

\* For every caller: no write call is sent twice in a run, nor again once it was
\* acknowledged; and by others than the trip assistant not twice at all.
THEOREM WritesAreSentOnce == ToolSpec => []WritesSentOnce
<1>1. RunInv /\ CallerInv => WritesSentOnce
  BY DEF RunInv, ToolTypeOK, Callers, CallerInv, WriteCounts, WritesSentOnce
<1> QED
  BY <1>1, CallerHolds, PTL

\* For every caller: the trace tells what was sent, but what the trip assistant's first
\* run sent and had back as errors only.
THEOREM TraceIsComplete == ToolSpec => []TraceTellsCalls
<1>1. ASSUME RunInv, CallerInv PROVE TraceTellsCalls
  <2>1. ASSUME NEW c \in Calls, Sent(c) PROVE received[c].sent > 0
    BY <1>1, <2>1 DEF RunInv, TraceInv, CallerInv, CallCounts
  <2>2. ASSUME NEW c \in Calls, received[c].sent > 0, ~Sent(c)
        PROVE  asking.by = "trip assistant" /\ received[c].errors = received[c].sent
    <3>1. c \notin executed
      BY <1>1, <2>2 DEF RunInv, TraceInv
    <3>2. ~Acknowledged(c) /\ ~Unheard(c)
      BY <2>2 DEF Sent, Acknowledged, Unheard
    <3>3. asking.by \in Callers
      BY <1>1 DEF RunInv, ToolTypeOK
    <3> QED
      BY <1>1, <2>2, <3>1, <3>2, <3>3 DEF CallerInv, CallCounts, Callers
  <2> QED
    BY <2>1, <2>2 DEF TraceTellsCalls, Sent
<1> QED
  BY <1>1, CallerHolds, PTL

\* For every caller: whatever mix of calls, failures and attempts, the trace accounts
\* for every call, as far as TraceTellsCalls says, and the limits hold.
THEOREM CallsAreAccounted == ToolSpec => []RunIsAccounted
BY TypeCorrect, CallsAreBounded, UncertainIsLast, TraceIsComplete, PTL DEF RunIsAccounted

-----------------------------------------------------------------------------
(* GroundedAnswers: for any listings, any number of calls, any others      *)

EnvelopeCodes == {"none", "REFUSED", "WRITE_OUTCOME_UNKNOWN", "PROVIDER_UNAVAILABLE"}
Codes == EnvelopeCodes \cup {"INVALID_OR_UNAVAILABLE_RESULT", "RESULT_TOO_LARGE"}
Entries == [tool: CatalogueTools, id: Ids \cup {0}, attempt: {1, 2}, ok: BOOLEAN, code: Codes,
            ids: SUBSET Ids]
Memories == [entry: Entries, applied: BOOLEAN]
CallTypes == [at: {"none", "sent", "served"}, tool: CatalogueTools, id: Ids \cup {0},
              reply: {"none", "done", "refused", "failed"}, ids: SUBSET Ids, applied: BOOLEAN]
Shown == Ids \X (Contents \cup {"unread"})
AssistTypes == [who: Assistants, at: {"idle", "running", "answered", "complete", "failed", "unheard"},
                attempt: {1, 2}, answer: SUBSET Ids, left: SUBSET Ids,
                shown: SUBSET Shown, told: SUBSET Entries]

AnswerTypes == /\ listed \in [Ids -> Contents]
               /\ call \in CallTypes
               /\ call.at /= "none" => call.id \in Ids
               /\ made \in SUBSET Entries
               /\ assist \in AssistTypes
               /\ past \in SUBSET Memories
               /\ there \in SUBSET Ids
               /\ since \in [Ids -> SUBSET Contents]

\* What a call that was served did, as far as its reply tells.
CallInv == call.at = "served" => /\ call.tool \in WriteTools /\ call.reply = "done" => call.applied
                                 /\ call.applied => call.reply /= "refused"

\* Every write of this attempt is among its calls, and none of an earlier one was
\* acknowledged; nothing is under way once there is an answer, and a call that is when
\* the run has failed was told as unfinished by those who tell.
WriteInv ==
  /\ assist.at = "idle" => made = {} /\ past = {} /\ call.at = "none"
  /\ assist.at \in {"answered", "complete"} => call.at = "none"
  /\ assist.at = "failed" /\ assist.who \in {"stays", "activities"} /\ call.at /= "none" =>
       Unfinished(call) \in assist.told
  /\ assist.at \in {"running", "answered"} =>
       \A c \in past : \/ c.entry.attempt = assist.attempt /\ c.entry \in made
                       \/ c.entry.attempt < assist.attempt /\ ~c.entry.ok
  /\ \A c \in made : c.attempt = assist.attempt
  /\ WritesAreTold

\* What is there now, or was looked up, was there since the question; what is shown
\* was stored since the answer.
ShownInv ==
  /\ assist.at \in {"running", "answered"} =>
       /\ Here \subseteq there /\ call.ids \subseteq there
       /\ \A c \in made : c.ids \subseteq there
  /\ call.at = "none" => call.ids = {}
  /\ assist.at = "idle" => assist.shown = {}
  /\ assist.at = "running" => assist.shown = {}
  /\ assist.at = "answered" /\ assist.who = "trips" => assist.shown = {}
  /\ assist.at = "answered" =>
       /\ \A id \in Ids : listed[id] \in since[id]
       /\ \A s \in assist.shown : /\ s[1] \in there /\ s[2] \in since[s[1]] \ {"gone"}
                                  /\ assist.who = "transport" => s[2] = "open"
  /\ ShownIsReal

IInv == AnswerTypes /\ CallInv /\ OutcomeIsKnown /\ WriteInv /\ ShownInv

-----------------------------------------------------------------------------
LEMMA TypesAtFirst == AnswerInit => AnswerTypes
BY ListingsAreKnown DEF AnswerInit, AnswerTypes, CallTypes, AssistTypes, NoCall, NoAssist,
   CatalogueTools, Assistants, Never, Contents, Entries, Memories, Shown

LEMMA InitHolds == AnswerInit => IInv
<1> SUFFICES ASSUME AnswerInit PROVE IInv
  OBVIOUS
<1>1. AnswerTypes
  BY TypesAtFirst
<1>2. CallInv /\ OutcomeIsKnown
  BY DEF AnswerInit, CallInv, OutcomeIsKnown, NoCall
<1>3. WriteInv
  BY DEF AnswerInit, WriteInv, WritesAreTold, NoCall, NoAssist
<1>4. ShownInv
  BY DEF AnswerInit, ShownInv, ShownIsReal, NoAssist, NoCall
<1> QED
  BY <1>1, <1>2, <1>3, <1>4 DEF IInv

-----------------------------------------------------------------------------
(* The types.                                                              *)

LEMMA EnvelopeType ==
  ASSUME AnswerTypes
  PROVE  Envelope(call) \in [ok: BOOLEAN, code: EnvelopeCodes, ids: SUBSET Ids]
BY DEF AnswerTypes, CallTypes, Envelope, EnvelopeCodes

LEMMA EntryTypes ==
  ASSUME AnswerTypes
  PROVE  /\ Returned(call) \in Entries /\ Unfinished(call) \in Entries
         /\ [Returned(call) EXCEPT !.code = "RESULT_TOO_LARGE", !.ids = {}] \in Entries
<1>1. call.tool \in CatalogueTools /\ call.id \in Ids \cup {0} /\ assist.attempt \in {1, 2}
  BY DEF AnswerTypes, CallTypes, AssistTypes
<1>2. Returned(call) \in Entries
  BY <1>1, EnvelopeType DEF Returned, TraceOf, Entries, Codes
<1>3. Unfinished(call) \in Entries
  BY <1>1 DEF Unfinished, TraceOf, Entries, Codes
<1>4. [Returned(call) EXCEPT !.code = "RESULT_TOO_LARGE", !.ids = {}] \in Entries
  BY <1>2 DEF Entries, Codes
<1> QED
  BY <1>2, <1>3, <1>4

LEMMA RememberTypes ==
  ASSUME AnswerTypes, NEW entry \in Entries, Remembers(call, entry)
  PROVE  past' \in SUBSET Memories
<1>1. [entry |-> entry, applied |-> call.applied] \in Memories
  BY DEF Memories, AnswerTypes, CallTypes
<1> QED
  BY <1>1 DEF Remembers, AnswerTypes

LEMMA EndTypes ==
  ASSUME AnswerTypes, NEW how \in {"complete", "failed", "unheard"},
         NEW shown \in SUBSET Shown, NEW told \in SUBSET Entries, Ends(how, shown, told)
  PROVE  AnswerTypes'
BY DEF AnswerTypes, Ends, Assists, AssistTypes

LEMMA TypesKept ==
  ASSUME AnswerTypes, [AnswerNext]_AnswerVars
  PROVE  AnswerTypes'
<1> USE DEF AnswerTypes
<1>0. {} \in SUBSET Shown /\ {} \in SUBSET Entries
  OBVIOUS
<1>1. CASE UNCHANGED AnswerVars
  BY <1>1 DEF AnswerVars
<1>2. ASSUME NEW w \in Assistants, Questioned(w) PROVE AnswerTypes'
  BY <1>2 DEF Questioned, AssistTypes, Here
<1>3. ASSUME NEW t \in Tools, NEW id \in Ids, ModelCalls(t, id) PROVE AnswerTypes'
  BY <1>3, ToolsAreKnown DEF ModelCalls, SendsCall, NoCall, CallTypes, CatalogueTools
<1>4. ASSUME NEW r \in {"done", "refused", "failed"}, NEW a \in BOOLEAN, ServiceServes(r, a)
      PROVE  AnswerTypes'
  <2>1. listed' \in [Ids -> Contents]
    BY <1>4 DEF ServiceServes, Serves, WrittenAs, Contents
  <2>2. call' \in CallTypes /\ call'.id \in Ids
    <3>1. call.at = "sent" /\ call' = [call EXCEPT !.at = "served", !.reply = r, !.applied = a,
             !.ids = IF r = "done" THEN ReplyIds(call.tool, call.id) ELSE {}]
      BY <1>4 DEF ServiceServes, Serves
    <3>2. r = "done" => ReplyIds(call.tool, call.id) \subseteq Ids
      <4> SUFFICES ASSUME call.tool /= "search", r = "done" PROVE call.id \in Ids
        BY DEF ReplyIds
      <4> QED
        BY <1>4 DEF ServiceServes, Serves, Possible, CallTypes
    <3> QED
      BY <3>1, <3>2 DEF CallTypes
  <2>3. there' \in SUBSET Ids /\ since' \in [Ids -> SUBSET Contents]
    BY <1>4, <2>1 DEF ServiceServes, Notes, Here
  <2> QED
    BY <1>4, <2>1, <2>2, <2>3 DEF ServiceServes
<1>5. CASE CallReturns
  <2>1. made' \in SUBSET Entries /\ past' \in SUBSET Memories
    BY <1>5, EntryTypes, RememberTypes DEF CallReturns
  <2>2. call' \in CallTypes /\ call'.at = "none"
    BY <1>5 DEF CallReturns, CallTypes, NoCall, CatalogueTools
  <2> QED
    BY <1>5, <2>1, <2>2 DEF CallReturns
<1>6. CASE RunFails
  <2> DEFINE told == PassedOn(made \cup (IF call.at = "none" THEN {} ELSE {Unfinished(call)}))
  <2>1. told \in SUBSET Entries
    BY EntryTypes DEF PassedOn
  <2>2. Ends("failed", {}, told)
    BY <1>6 DEF RunFails
  <2> HIDE DEF told
  <2> QED
    BY <1>0, <2>1, <2>2, EndTypes
<1>18. CASE ResultTooLarge
  <2> DEFINE entry == [Returned(call) EXCEPT !.code = "RESULT_TOO_LARGE", !.ids = {}]
  <2>1. /\ assist' = [assist EXCEPT !.at = "failed", !.told = PassedOn(made \cup {entry})]
        /\ Remembers(call, entry) /\ made' = {} /\ call' = NoCall
        /\ UNCHANGED <<listed, meanwhile, there, since>>
    BY <1>18 DEF ResultTooLarge
  <2>2. entry \in Entries
    BY EntryTypes
  <2> HIDE DEF entry
  <2>3. past' \in SUBSET Memories
    BY <2>1, <2>2, RememberTypes
  <2>4. PassedOn(made \cup {entry}) \in SUBSET Entries
    BY <2>2 DEF PassedOn
  <2>5. assist' \in AssistTypes
    BY <2>1, <2>4 DEF AssistTypes
  <2>6. call' \in CallTypes /\ call'.at = "none"
    BY <2>1 DEF CallTypes, NoCall, CatalogueTools
  <2> QED
    BY <2>1, <2>3, <2>5, <2>6
<1>7. CASE GivesUp
  BY <1>0, <1>7, EndTypes DEF GivesUp
<1>8. ASSUME NEW ids \in SUBSET Ids, ModelAnswers(ids) PROVE AnswerTypes'
  BY <1>8 DEF ModelAnswers, AssistTypes
<1>9. CASE TriesAgain
  BY <1>9 DEF TriesAgain, AssistTypes
<1>10. CASE FromMemory
  BY <1>0, <1>10, EndTypes DEF FromMemory
<1>11. CASE ShowsOptions
  <2>1. {<<id, "unread">> : id \in assist.answer \cap LookedUp("trips", made)} \subseteq Shown
    BY DEF AssistTypes, Shown
  <2> QED
    BY <1>11, <2>1, EndTypes DEF ShowsOptions
<1>12. CASE ShowsWords
  BY <1>0, <1>12, EndTypes DEF ShowsWords
<1>13. CASE Ungrounded
  BY <1>0, <1>13, EndTypes DEF Ungrounded, PassedOn
<1>14. CASE ShowsRecords
  BY <1>14, EndTypes DEF ShowsRecords, AssistTypes
<1>15. ASSUME NEW id \in Ids, Resolves(id) PROVE AnswerTypes'
  <2>1. <<id, listed[id]>> \in Shown
    BY DEF Shown
  <2> QED
    BY <1>15, <2>1 DEF Resolves, Assists, AssistTypes
<1>16. ASSUME NEW id \in Ids, CannotRead(id) PROVE AnswerTypes'
  <2>1. CASE assist.who = "activities"
    BY <1>16, <2>1 DEF CannotRead, Assists, AssistTypes
  <2>2. CASE assist.who /= "activities"
    BY <1>0, <1>16, <2>2, EndTypes DEF CannotRead
  <2> QED
    BY <2>1, <2>2
<1>17. ASSUME NEW id \in Ids, NEW c \in Contents, MeanwhileChange(id, c) PROVE AnswerTypes'
  BY <1>17 DEF MeanwhileChange, OthersChange, Notes, Here
<1> QED
  BY <1>1, <1>2, <1>3, <1>4, <1>5, <1>6, <1>7, <1>8, <1>9, <1>10, <1>11, <1>12, <1>13, <1>14,
     <1>15, <1>16, <1>17, <1>18 DEF AnswerNext

-----------------------------------------------------------------------------
(* The writes.                                                             *)

\* An answer given at the end of a run or an attempt tells of every write in it.
LEMMA EndTellsWrites ==
  ASSUME AnswerTypes, WriteInv, NEW how \in {"complete", "failed", "unheard"},
         NEW shown, NEW told, Ends(how, shown, told),
         assist.at \in {"running", "answered"}, how = "complete" => call.at = "none",
         how = "complete" => told = made,
         how = "failed" /\ assist.who \in {"stays", "activities"} =>
           made \subseteq told /\ (call.at /= "none" => Unfinished(call) \in told)
  PROVE  WriteInv'
<1>1. /\ assist' = [assist EXCEPT !.at = how, !.shown = shown, !.told = told, !.answer = {}, !.left = {}]
      /\ made' = {} /\ past' = past /\ call' = call
  BY DEF Ends, Assists
<1>2. assist'.at = how /\ assist'.attempt = assist.attempt /\ assist'.told = told /\ assist'.who = assist.who
  BY <1>1 DEF AnswerTypes, AssistTypes
<1>3. WritesAreTold'
  <2> SUFFICES ASSUME assist'.at = "complete" \/ (assist'.at = "failed" /\ assist'.who \in {"stays", "activities"}),
                      NEW c \in past, c.applied
               PROVE  c.entry \in told \/ (c.entry.attempt < assist.attempt /\ ~c.entry.ok)
    BY <1>1, <1>2 DEF WritesAreTold
  <2> QED
    BY <1>2 DEF WriteInv
<1>4. Unfinished(call)' = Unfinished(call)
  BY <1>1, <1>2 DEF Unfinished, TraceOf
<1> QED
  BY <1>1, <1>2, <1>3, <1>4 DEF WriteInv

LEMMA WritesKept ==
  ASSUME AnswerTypes, CallInv, OutcomeIsKnown, WriteInv, [AnswerNext]_AnswerVars
  PROVE  CallInv' /\ OutcomeIsKnown' /\ WriteInv'
<1> DEFINE Kept == CallInv' /\ OutcomeIsKnown' /\ WriteInv'
<1> SUFFICES Kept
  OBVIOUS
<1>1. ASSUME UNCHANGED <<call, made, past>>,
             assist'.at = assist.at, assist'.attempt = assist.attempt,
             assist'.told = assist.told, assist'.who = assist.who
      PROVE  Kept
  <2>1. Unfinished(call)' = Unfinished(call)
    BY <1>1 DEF Unfinished, TraceOf
  <2> QED
    BY <1>1, <2>1 DEF CallInv, OutcomeIsKnown, WriteInv, WritesAreTold
<1>2. CASE UNCHANGED AnswerVars
  BY <1>1, <1>2 DEF AnswerVars
<1>3. ASSUME NEW w \in Assistants, Questioned(w) PROVE Kept
  <2>1. /\ assist'.at = "running" /\ assist.at = "idle" /\ UNCHANGED <<call, made, past>>
    BY <1>3 DEF Questioned, AnswerTypes, AssistTypes
  <2> QED
    BY <2>1 DEF CallInv, OutcomeIsKnown, WriteInv, WritesAreTold
<1>4. ASSUME NEW t \in Tools, NEW id \in Ids, ModelCalls(t, id) PROVE Kept
  BY <1>4 DEF ModelCalls, SendsCall, NoCall, CallInv, OutcomeIsKnown, WriteInv, WritesAreTold
<1>5. ASSUME NEW r \in {"done", "refused", "failed"}, NEW a \in BOOLEAN, ServiceServes(r, a)
      PROVE  Kept
  <2>1. /\ call'.at = "served" /\ call'.tool = call.tool /\ call'.reply = r /\ call'.applied = a
        /\ call'.id = call.id /\ call.at = "sent" /\ UNCHANGED <<made, assist, past>>
    BY <1>5 DEF ServiceServes, Serves, AnswerTypes, CallTypes
  <2>2. CallInv'
    BY <1>5, <2>1 DEF ServiceServes, Serves, CallInv
  <2>3. Unfinished(call)' = Unfinished(call)
    BY <2>1 DEF Unfinished, TraceOf
  <2> QED
    BY <2>1, <2>2, <2>3 DEF OutcomeIsKnown, WriteInv, WritesAreTold
<1>20. ASSUME NEW entry, Remembers(call, entry),
              call.tool \in WriteTools => /\ entry.ok => call.applied
                                          /\ ~entry.ok /\ entry.code \notin Uncertain => ~call.applied
       PROVE  OutcomeIsKnown'
  BY <1>20 DEF Remembers, OutcomeIsKnown
<1>21. /\ Returned(call).ok = Envelope(call).ok /\ Returned(call).code = Envelope(call).code
       /\ Returned(call).attempt = assist.attempt /\ Unfinished(call).attempt = assist.attempt
       /\ ~Unfinished(call).ok /\ Unfinished(call).code \in Uncertain
  BY DEF Returned, Unfinished, TraceOf, Uncertain
<1>22. call.at = "served" /\ call.tool \in WriteTools =>
         /\ Envelope(call).ok => call.applied
         /\ ~Envelope(call).ok /\ Envelope(call).code \notin Uncertain => ~call.applied
  BY DEF Envelope, CallInv, Uncertain
<1>6. CASE CallReturns
  <2>1. /\ call.at = "served" /\ call' = NoCall /\ UNCHANGED assist
        /\ IF assist.at = "running"
           THEN made' = made \cup {Returned(call)} /\ Remembers(call, Returned(call))
           ELSE UNCHANGED made /\ Remembers(call, Unfinished(call))
    BY <1>6 DEF CallReturns
  <2>2. CallInv' /\ call'.at = "none"
    BY <2>1 DEF CallInv, NoCall
  <2>3. OutcomeIsKnown'
    BY <1>20, <1>21, <1>22, <2>1
  <2>4. assist.at \notin {"idle", "answered", "complete"}
    BY <2>1 DEF WriteInv
  <2>5. CASE assist.at = "running"
    <3>1. past' \subseteq past \cup {[entry |-> Returned(call), applied |-> call.applied]}
      BY <2>1, <2>5 DEF Remembers
    <3> QED
      BY <1>21, <2>1, <2>2, <2>3, <2>5, <3>1 DEF WriteInv, WritesAreTold
  <2>6. CASE assist.at /= "running"
    <3>1. past' \subseteq past \cup {[entry |-> Unfinished(call), applied |-> call.applied]}
      BY <2>1, <2>6 DEF Remembers
    <3>2. assist.at = "failed" /\ assist.who \in {"stays", "activities"} => Unfinished(call) \in assist.told
      BY <2>1 DEF WriteInv
    <3>3. WritesAreTold'
      BY <2>1, <2>4, <3>1, <3>2 DEF WriteInv, WritesAreTold
    <3> QED
      BY <2>1, <2>2, <2>3, <2>4, <2>6, <3>3 DEF WriteInv
  <2> QED
    BY <2>5, <2>6
<1>23. CASE ResultTooLarge
  <2> DEFINE entry == [Returned(call) EXCEPT !.code = "RESULT_TOO_LARGE", !.ids = {}]
  <2>1. /\ assist.at = "running" /\ call.at = "served" /\ made' = {} /\ call' = NoCall
        /\ assist' = [assist EXCEPT !.at = "failed", !.told = PassedOn(made \cup {entry})]
        /\ Remembers(call, entry)
    BY <1>23 DEF ResultTooLarge
  <2>2. entry.ok = Envelope(call).ok /\ entry.code \in Uncertain /\ entry.attempt = assist.attempt
    BY DEF Returned, TraceOf, Uncertain
  <2> HIDE DEF entry
  <2>3. OutcomeIsKnown'
    BY <1>20, <1>22, <2>1, <2>2
  <2>4. CallInv' /\ call'.at = "none"
    BY <2>1 DEF CallInv, NoCall
  <2>5. /\ assist'.at = "failed" /\ assist'.told = PassedOn(made \cup {entry})
        /\ assist'.who = assist.who /\ assist'.attempt = assist.attempt
    BY <2>1 DEF AnswerTypes, AssistTypes
  <2>6. past' \subseteq past \cup {[entry |-> entry, applied |-> call.applied]}
    BY <2>1 DEF Remembers
  <2>7. WritesAreTold'
    <3> SUFFICES ASSUME assist.who \in {"stays", "activities"}, NEW c \in past', c.applied
                 PROVE  c.entry \in assist'.told \/ (c.entry.attempt < assist'.attempt /\ ~c.entry.ok)
      BY <2>5 DEF WritesAreTold
    <3>1. assist'.told = made \cup {entry}
      BY <2>5 DEF PassedOn
    <3>2. CASE c \in past
      BY <2>1, <2>5, <3>1, <3>2 DEF WriteInv
    <3>3. CASE c = [entry |-> entry, applied |-> call.applied]
      <4>1. c.entry = entry
        BY <3>3
      <4> QED
        BY <3>1, <4>1
    <3> QED
      BY <2>6, <3>2, <3>3
  <2> QED
    BY <2>1, <2>3, <2>4, <2>5, <2>7 DEF WriteInv
<1>7. ASSUME NEW ids \in SUBSET Ids, ModelAnswers(ids) PROVE Kept
  <2>1. /\ assist'.at = "answered" /\ assist'.attempt = assist.attempt /\ assist.at = "running"
        /\ call.at = "none" /\ UNCHANGED <<call, made, past>>
    BY <1>7 DEF ModelAnswers, AnswerTypes, AssistTypes
  <2> QED
    BY <2>1 DEF CallInv, OutcomeIsKnown, WriteInv, WritesAreTold
<1>8. CASE TriesAgain
  <2>1. /\ assist.at = "answered" /\ assist.attempt = 1 /\ Succeeded(made) = {}
        /\ assist'.at = "running" /\ assist'.attempt = 2 /\ made' = {} /\ UNCHANGED <<call, past>>
    BY <1>8 DEF TriesAgain, AnswerTypes, AssistTypes
  <2>2. \A c \in past : c.entry.attempt < 2 /\ ~c.entry.ok
    BY <2>1 DEF WriteInv, Succeeded, AnswerTypes, Memories, Entries
  <2> QED
    BY <2>1, <2>2 DEF CallInv, OutcomeIsKnown, WriteInv, WritesAreTold
<1>9. ASSUME NEW how \in {"complete", "failed", "unheard"}, NEW shown, NEW told, Ends(how, shown, told),
             assist.at \in {"running", "answered"}, how = "complete" => call.at = "none",
             how = "complete" => told = made,
             how = "failed" /\ assist.who \in {"stays", "activities"} =>
               made \subseteq told /\ (call.at /= "none" => Unfinished(call) \in told)
      PROVE  Kept
  <2>1. WriteInv'
    BY <1>9, EndTellsWrites
  <2> QED
    BY <1>9, <2>1 DEF Ends, Assists, CallInv, OutcomeIsKnown
<1>10. CASE RunFails
  <2> DEFINE told == PassedOn(made \cup (IF call.at = "none" THEN {} ELSE {Unfinished(call)}))
  <2>1. assist.at = "running" /\ Ends("failed", {}, told)
    BY <1>10 DEF RunFails
  <2>2. assist.who \in {"stays", "activities"} =>
          made \subseteq told /\ (call.at /= "none" => Unfinished(call) \in told)
    BY DEF PassedOn
  <2> HIDE DEF told
  <2> QED
    BY <1>9, <2>1, <2>2
<1>11. CASE GivesUp
  BY <1>9, <1>11 DEF GivesUp
<1>12. CASE FromMemory
  BY <1>9, <1>12 DEF FromMemory, WriteInv
<1>13. CASE ShowsOptions
  BY <1>9, <1>13 DEF ShowsOptions, WriteInv
<1>14. CASE ShowsWords
  BY <1>9, <1>14 DEF ShowsWords, WriteInv
<1>15. CASE Ungrounded
  BY <1>9, <1>15 DEF Ungrounded, PassedOn, WriteInv
<1>16. CASE ShowsRecords
  BY <1>9, <1>16 DEF ShowsRecords, Resolving, WriteInv
<1>17. ASSUME NEW id \in Ids, Resolves(id) PROVE Kept
  BY <1>1, <1>17 DEF Resolves, Assists, AnswerTypes, AssistTypes
<1>18. ASSUME NEW id \in Ids, CannotRead(id) PROVE Kept
  <2>1. CASE assist.who = "activities"
    BY <1>1, <1>18, <2>1 DEF CannotRead, Assists, AnswerTypes, AssistTypes
  <2>2. CASE assist.who /= "activities"
    BY <1>9, <1>18, <2>2 DEF CannotRead, Resolving, WriteInv
  <2> QED
    BY <2>1, <2>2
<1>19. ASSUME NEW id \in Ids, NEW c \in Contents, MeanwhileChange(id, c) PROVE Kept
  BY <1>1, <1>19 DEF MeanwhileChange, OthersChange
<1> QED
  BY <1>2, <1>3, <1>4, <1>5, <1>6, <1>7, <1>8, <1>10, <1>11, <1>12, <1>13, <1>14, <1>15, <1>16,
     <1>17, <1>18, <1>19, <1>23 DEF AnswerNext

-----------------------------------------------------------------------------
(* What is shown.                                                          *)

\* A listing of which this may be said was there since the question, and the record
\* beside it was stored since the answer.
Real(s) == /\ s[1] \in there
           /\ s[2] /= "unread" => /\ s[2] \in since[s[1]] \ {"gone"}
                                  /\ assist.who = "transport" => s[2] = "open"

LEMMA EndShowsReal ==
  ASSUME AnswerTypes, ShownInv, NEW how \in {"complete", "failed", "unheard"},
         NEW shown, NEW told, Ends(how, shown, told),
         how = "complete" => \A s \in shown : Real(s)
  PROVE  ShownInv'
<1>1. /\ assist'.at = how /\ assist'.shown = shown /\ assist'.who = assist.who
      /\ there' = there /\ since' = since /\ call' = call
  BY DEF Ends, Assists, AnswerTypes, AssistTypes
<1>2. ShownIsReal'
  BY <1>1 DEF ShownIsReal, Real
<1> QED
  BY <1>1, <1>2 DEF ShownInv

\* The ids in a reply are of listings that are there before the call or after it.
LEMMA RepliesAreThere ==
  ASSUME AnswerTypes, NEW r \in {"done", "refused", "failed"}, NEW a \in BOOLEAN, ServiceServes(r, a)
  PROVE  call'.ids \subseteq Here \cup Here'
<1>1. /\ call.at = "sent" /\ (r = "done" => Possible(call.tool, call.id))
      /\ (r = "done" /\ call.tool \in WriteTools => a)
      /\ listed' = IF a THEN [listed EXCEPT ![call.id] = WrittenAs(call.tool)] ELSE listed
      /\ call'.ids = IF r = "done" THEN ReplyIds(call.tool, call.id) ELSE {}
  BY DEF ServiceServes, Serves, AnswerTypes, CallTypes
<1>2. call.id \in Ids
  BY <1>1 DEF AnswerTypes
<1>3. CASE r /= "done"
  BY <1>1, <1>3
<1>4. CASE r = "done" /\ call.tool = "search"
  BY <1>1, <1>4 DEF ReplyIds, Here
<1>5. CASE r = "done" /\ call.tool = "create"
  <2>1. listed'[call.id] = "open"
    BY <1>1, <1>2, <1>5 DEF WriteTools, WrittenAs, AnswerTypes
  <2> QED
    BY <1>1, <1>2, <1>5, <2>1 DEF ReplyIds, Here
<1>6. CASE r = "done" /\ call.tool \notin {"search", "create"}
  BY <1>1, <1>2, <1>6 DEF ReplyIds, Possible, Here
<1> QED
  BY <1>3, <1>4, <1>5, <1>6

LEMMA ShownKept ==
  ASSUME AnswerTypes, WriteInv, ShownInv, [AnswerNext]_AnswerVars
  PROVE  ShownInv'
<1>1. CASE UNCHANGED AnswerVars
  BY <1>1 DEF AnswerVars, ShownInv, ShownIsReal, Here
<1>2. ASSUME NEW w \in Assistants, Questioned(w) PROVE ShownInv'
  <2>1. /\ assist'.at = "running" /\ assist'.shown = assist.shown /\ assist.at = "idle"
        /\ there' = Here /\ UNCHANGED <<listed, call, made>>
    BY <1>2 DEF Questioned, AnswerTypes, AssistTypes
  <2>2. made = {} /\ assist.shown = {} /\ call.at = "none"
    BY <2>1 DEF WriteInv, ShownInv
  <2>3. call.ids = {}
    BY <2>2 DEF ShownInv
  <2> QED
    BY <2>1, <2>2, <2>3 DEF ShownInv, ShownIsReal, Here
<1>3. ASSUME NEW t \in Tools, NEW id \in Ids, ModelCalls(t, id) PROVE ShownInv'
  BY <1>3 DEF ModelCalls, SendsCall, NoCall, ShownInv, ShownIsReal, Here
<1>4. ASSUME NEW r \in {"done", "refused", "failed"}, NEW a \in BOOLEAN, ServiceServes(r, a)
      PROVE  ShownInv'
  <2>1. /\ there' = there \cup Here' /\ UNCHANGED <<made, assist>>
        /\ call.at = "sent" /\ call'.at = "served"
    BY <1>4 DEF ServiceServes, Serves, Notes, AnswerTypes, CallTypes
  <2>2. assist.at \notin {"idle", "answered", "complete"}
    BY <2>1 DEF WriteInv
  <2>3. call'.ids \subseteq Here \cup Here'
    BY <1>4, RepliesAreThere
  <2> QED
    BY <2>1, <2>2, <2>3 DEF ShownInv, ShownIsReal
<1>5. CASE CallReturns
  <2>1. /\ made' = IF assist.at = "running" THEN made \cup {Returned(call)} ELSE made
        /\ call' = NoCall /\ UNCHANGED <<listed, assist, there, since>>
    BY <1>5 DEF CallReturns
  <2>2. Returned(call).ids \subseteq call.ids
    BY DEF Returned, TraceOf, Envelope
  <2> QED
    BY <2>1, <2>2 DEF ShownInv, ShownIsReal, Here, NoCall
<1>18. CASE ResultTooLarge
  <2>1. /\ assist'.at = "failed" /\ call' = NoCall /\ UNCHANGED <<listed, there, since>>
    BY <1>18 DEF ResultTooLarge, AnswerTypes, AssistTypes
  <2> QED
    BY <2>1 DEF ShownInv, ShownIsReal, NoCall
<1>6. ASSUME NEW ids \in SUBSET Ids, ModelAnswers(ids) PROVE ShownInv'
  <2>1. /\ assist'.at = "answered" /\ assist.at = "running" /\ assist'.shown = assist.shown
        /\ since' = [id \in Ids |-> {listed[id]}] /\ UNCHANGED <<listed, call, made, there>>
    BY <1>6 DEF ModelAnswers, AnswerTypes, AssistTypes
  <2> QED
    BY <2>1 DEF ShownInv, ShownIsReal, Here
<1>7. CASE TriesAgain
  <2>1. /\ assist.at = "answered" /\ assist'.at = "running" /\ assist'.shown = assist.shown
        /\ made' = {} /\ UNCHANGED <<listed, call, there, since>> /\ Succeeded(made) = {}
    BY <1>7 DEF TriesAgain, AnswerTypes, AssistTypes
  <2>2. assist.shown = {}
    BY <1>7 DEF TriesAgain, ShownInv
  <2> QED
    BY <2>1, <2>2 DEF ShownInv, ShownIsReal, Here
<1>8. CASE RunFails
  BY <1>8, EndShowsReal DEF RunFails
<1>9. CASE GivesUp
  BY <1>9, EndShowsReal DEF GivesUp
<1>10. CASE FromMemory
  BY <1>10, EndShowsReal DEF FromMemory
<1>11. CASE ShowsOptions
  <2>1. \A s \in {<<id, "unread">> : id \in assist.answer \cap LookedUp("trips", made)} : Real(s)
    BY <1>11 DEF ShowsOptions, LookedUp, Succeeded, ShownInv, Real
  <2> QED
    BY <1>11, <2>1, EndShowsReal DEF ShowsOptions
<1>12. CASE ShowsWords
  BY <1>12, EndShowsReal DEF ShowsWords
<1>13. CASE Ungrounded
  BY <1>13, EndShowsReal DEF Ungrounded
<1>14. CASE ShowsRecords
  <2>1. \A s \in assist.shown : Real(s)
    BY <1>14 DEF ShowsRecords, Resolving, ShownInv, Real
  <2> QED
    BY <1>14, <2>1, EndShowsReal DEF ShowsRecords
<1>15. ASSUME NEW id \in Ids, Resolves(id) PROVE ShownInv'
  <2>1. /\ assist.at = "answered" /\ assist'.at = assist.at /\ assist'.who = assist.who
        /\ assist.who /= "trips"
        /\ assist'.shown = IF listed[id] = "open" \/ (assist.who = "activities" /\ listed[id] = "full")
                           THEN assist.shown \cup {<<id, listed[id]>>} ELSE assist.shown
        /\ UNCHANGED <<listed, call, made, there, since>>
    BY <1>15 DEF Resolves, Resolving, Assists, AnswerTypes, AssistTypes
  <2> QED
    BY <2>1 DEF ShownInv, ShownIsReal, Here
<1>16. ASSUME NEW id \in Ids, CannotRead(id) PROVE ShownInv'
  <2>1. CASE assist.who = "activities"
    BY <1>16, <2>1 DEF CannotRead, Assists, AnswerTypes, AssistTypes, ShownInv, ShownIsReal, Here
  <2>2. CASE assist.who /= "activities"
    BY <1>16, <2>2, EndShowsReal DEF CannotRead
  <2> QED
    BY <2>1, <2>2
<1>17. ASSUME NEW id \in Ids, NEW c \in Contents, MeanwhileChange(id, c) PROVE ShownInv'
  <2>1. /\ there' = there \cup Here' /\ listed' = [listed EXCEPT ![id] = c]
        /\ since' = IF assist.at = "answered" THEN [i \in Ids |-> since[i] \cup {listed'[i]}] ELSE since
        /\ UNCHANGED <<call, made, assist>> /\ assist.at \in {"running", "answered"}
    BY <1>17 DEF MeanwhileChange, OthersChange, Notes
  <2>2. \A i \in Ids : since[i] \subseteq since'[i] /\ (assist.at = "answered" => listed'[i] \in since'[i])
    BY <2>1 DEF AnswerTypes
  <2>3. \A s \in assist.shown : s[1] \in Ids
    BY DEF AnswerTypes, AssistTypes, Shown
  <2> QED
    BY <2>1, <2>2, <2>3 DEF ShownInv, ShownIsReal
<1> QED
  BY <1>1, <1>2, <1>3, <1>4, <1>5, <1>6, <1>7, <1>8, <1>9, <1>10, <1>11, <1>12, <1>13, <1>14,
     <1>15, <1>16, <1>17, <1>18 DEF AnswerNext

-----------------------------------------------------------------------------
(* The theorems.                                                           *)

LEMMA Inductive == AnswerSpec => []IInv
<1>1. AnswerInit => IInv
  BY InitHolds
<1>2. IInv /\ [AnswerNext]_AnswerVars => IInv'
  BY TypesKept, WritesKept, ShownKept DEF IInv
<1> QED
  BY <1>1, <1>2, PTL DEF AnswerSpec

\* The error of a tool call tells truly whether a write was made, unless it is one of
\* the three that leave it open.
THEOREM OutcomesAreKnown == AnswerSpec => []OutcomeIsKnown
BY Inductive, PTL DEF IInv

\* However many calls the model makes, whichever attempt they belong to and wherever the
\* run breaks off, no write goes unmentioned in the answer or in the error of student 2
\* or 4, but an unacknowledged one of the first attempt.
THEOREM EveryWriteIsTold == AnswerSpec => []WritesAreTold
<1>1. IInv => WritesAreTold
  BY DEF IInv, WriteInv
<1> QED
  BY Inductive, <1>1, PTL

\* Whatever others do to the listings while the model works, nothing is shown that
\* was never there.
THEOREM NothingMadeUp == AnswerSpec => []ShownIsReal
<1>1. IInv => ShownIsReal
  BY DEF IInv, ShownInv
<1> QED
  BY Inductive, <1>1, PTL

\* Whoever asked is told all writes, and of each truly whether it was made, or no more
\* than that its call failed, when the run broke off during it or nobody knows.
THEOREM WritesAreToldTruly == AnswerSpec => []ToldIsTrue
BY OutcomesAreKnown, EveryWriteIsTold, PTL DEF ToldIsTrue

-----------------------------------------------------------------------------
(* Sets of numbers: least members, and so induction                        *)

Below == {p \in Nat \X Nat : p[1] < p[2]}

\* Every set of numbers has a least one.
LEMMA Least ==
  ASSUME NEW T \in SUBSET Nat, T # {}
  PROVE \E x \in T : \A y \in T : x <= y
<1>1. IsWellFoundedOn(Below, Nat)
  BY NatLessThanWellFounded DEF OpToRel, Below
<1>2. PICK x \in T : \A y \in T : <<y, x>> \notin Below
  BY <1>1, WFMin
<1>3. ASSUME NEW y \in T, y < x PROVE FALSE
  <2>1. <<y, x>> \in Nat \X Nat /\ <<y, x>>[1] = y /\ <<y, x>>[2] = x
    OBVIOUS
  <2>2. <<y, x>> \in Below
    BY <1>3, <2>1, Zenon DEF Below
  <2> QED
    BY <1>2, <2>2
<1>4. \A y \in T : x <= y
  BY <1>3
<1> QED
  BY <1>4

LEMMA Induction ==
  ASSUME NEW T \in SUBSET Nat, 0 \in T, \A n \in T : n+1 \in T
  PROVE T = Nat
<1>1. CASE Nat \ T # {}
  <2>1. PICK x \in Nat \ T : \A y \in Nat \ T : x <= y
    BY <1>1, Least
  <2>2. x # 0 /\ x-1 \in Nat /\ x-1 \in T
    BY <2>1
  <2> QED BY <2>1, <2>2
<1> QED BY <1>1

\* The members of a set below a number, and the first so many members of the set.
Under(S, x) == {y \in S : y < x}
First(S, n) == {x \in S : Cardinality(Under(S, x)) < n}

LEMMA UnderFinite ==
  ASSUME NEW S \in SUBSET Nat, IsFiniteSet(S), NEW x
  PROVE  IsFiniteSet(Under(S, x)) /\ Cardinality(Under(S, x)) \in Nat
<1>1. Under(S, x) \in SUBSET S
  BY DEF Under
<1>2. IsFiniteSet(Under(S, x))
  BY <1>1, FS_Subset, Zenon
<1> QED
  BY <1>2, FS_CardinalityType

\* Without its least member a set has one member less below each other one.
LEMMA WithoutLeast ==
  ASSUME NEW S \in SUBSET Nat, IsFiniteSet(S), NEW a \in S, \A y \in S : a <= y
  PROVE  /\ Cardinality(Under(S, a)) = 0
         /\ \A x \in S \ {a} : Cardinality(Under(S, x)) = Cardinality(Under(S \ {a}, x)) + 1
<1>1. Under(S, a) = {}
  <2>1. \A y \in S : y \in Nat /\ a \in Nat /\ ~(y < a)
    OBVIOUS
  <2> QED
    BY <2>1 DEF Under
<1>2. ASSUME NEW x \in S \ {a}
      PROVE  Cardinality(Under(S, x)) = Cardinality(Under(S \ {a}, x)) + 1
  <2>1. a < x
    BY <1>2
  <2>2. Under(S, x) = Under(S \ {a}, x) \cup {a} /\ a \notin Under(S \ {a}, x)
    BY <2>1 DEF Under
  <2>3. IsFiniteSet(Under(S \ {a}, x))
    BY FS_RemoveElement, UnderFinite
  <2> QED
    BY <2>2, <2>3, FS_AddElement
<1> QED
  BY <1>1, <1>2, FS_EmptySet

LEMMA FirstWithoutLeast ==
  ASSUME NEW S \in SUBSET Nat, IsFiniteSet(S), NEW a \in S, \A y \in S : a <= y,
         NEW n \in Nat \ {0}
  PROVE  /\ First(S, n) = First(S \ {a}, n - 1) \cup {a}
         /\ Cardinality(First(S, n)) = Cardinality(First(S \ {a}, n - 1)) + 1
<1> PICK R : R = S \ {a}
  OBVIOUS
<1>1. \A x \in S : Cardinality(Under(R, x)) \in Nat
  BY FS_RemoveElement, UnderFinite
<1>2. \A x \in R : Cardinality(Under(S, x)) < n <=> Cardinality(Under(R, x)) < n - 1
  BY <1>1, WithoutLeast
<1>3. First(S, n) = First(R, n - 1) \cup {a} /\ a \notin First(R, n - 1)
  <2>1. Cardinality(Under(S, a)) < n
    BY WithoutLeast
  <2>2. R \subseteq S /\ a \notin R /\ \A x \in S : x = a \/ x \in R
    OBVIOUS
  <2> QED
    BY <1>2, <2>1, <2>2 DEF First
<1>4. IsFiniteSet(R) /\ First(R, n - 1) \in SUBSET R
  BY FS_RemoveElement DEF First
<1>5. IsFiniteSet(First(R, n - 1))
  BY <1>4, FS_Subset, Zenon
<1>6. Cardinality(First(R, n - 1) \cup {a}) = Cardinality(First(R, n - 1)) + 1
  BY <1>3, <1>5, FS_AddElement
<1> QED
  BY <1>3, <1>6

\* There are n first members, unless the set is smaller.
LEMMA FirstSize ==
  ASSUME NEW F \in SUBSET Nat, IsFiniteSet(F), NEW n \in Nat
  PROVE  Cardinality(First(F, n)) = IF Cardinality(F) < n THEN Cardinality(F) ELSE n
<1> DEFINE Holds(S, m) == Cardinality(First(S, m)) = IF Cardinality(S) < m THEN Cardinality(S) ELSE m
           Sized == {k \in Nat : \A S \in SUBSET Nat, m \in Nat :
                       IsFiniteSet(S) /\ Cardinality(S) = k => Holds(S, m)}
<1>1. 0 \in Sized
  <2> SUFFICES ASSUME NEW S \in SUBSET Nat, NEW m \in Nat, IsFiniteSet(S), Cardinality(S) = 0
               PROVE  Holds(S, m)
    OBVIOUS
  <2>1. S = {} /\ First(S, m) = {} /\ Cardinality(First(S, m)) = 0
    BY FS_EmptySet DEF First
  <2> QED
    BY <2>1
<1>2. ASSUME NEW k \in Sized PROVE k + 1 \in Sized
  <2> SUFFICES ASSUME NEW S \in SUBSET Nat, NEW m \in Nat, IsFiniteSet(S), Cardinality(S) = k + 1
               PROVE  Holds(S, m)
    OBVIOUS
  <2>1. S # {}
    BY FS_EmptySet
  <2>2. PICK a \in S : \A y \in S : a <= y
    BY <2>1, Least
  <2>3. S \ {a} \in SUBSET Nat /\ IsFiniteSet(S \ {a}) /\ Cardinality(S \ {a}) = k
    <3>1. k \in Nat
      OBVIOUS
    <3> HIDE DEF Sized
    <3>2. IsFiniteSet(S \ {a}) /\ Cardinality(S \ {a}) = Cardinality(S) - 1
      BY FS_RemoveElement
    <3> QED
      BY <3>1, <3>2
  <2>4. CASE m = 0
    <3>1. First(S, m) = {}
      BY <2>4, UnderFinite DEF First
    <3> QED
      BY <2>4, <3>1, FS_EmptySet
  <2>5. CASE m # 0
    <3>1. m - 1 \in Nat /\ Holds(S \ {a}, m - 1)
      BY <2>3, <2>5
    <3>2. Cardinality(First(S, m)) = Cardinality(First(S \ {a}, m - 1)) + 1
      BY <2>2, <2>5, FirstWithoutLeast
    <3> QED
      BY <2>3, <2>5, <3>1, <3>2
  <2> QED
    BY <2>4, <2>5
<1>3. Sized = Nat
  BY <1>1, <1>2, Induction
<1>4. Cardinality(F) \in Sized
  BY <1>3, FS_CardinalityType
<1> QED
  BY <1>4

-----------------------------------------------------------------------------
(* StayCatalogue: for any stays, clients, edits, searches and size of a page *)

SomeColumns == UNION {[some -> Nat] : some \in SUBSET AllColumns}

JobStates == {"idle", "load", "saved", "done", "delete"}
Job == [at : JobStates, id : StayIds \cup {0}, body : SomeColumns, seen : SomeColumns,
        left : SUBSET {PlaceColumns, RoomColumns}, alone : BOOLEAN, answer : SomeColumns]

IsSearch(s) == \E a, q, n, ids, calm :
                 s = [at |-> a, query |-> q, total |-> n, shown |-> ids, quiet |-> calm]

StayTypes == /\ stays \in [StayIds -> SomeColumns] /\ IsSearch(search)
             /\ jobs \in [Clients -> Job]
             /\ deleted \in SUBSET StayIds /\ unsure \in SUBSET StayIds

\* What is stored: whole rows of one place each, and nothing that was deleted.
RowSound(id) ==
  /\ Lives(id) => Whole(stays[id])
  /\ Lives(id) => CountryOf[stays[id].city] = stays[id].country \/ id \in unsure
  /\ id \in deleted => ~Lives(id)

\* Row b has what row a has.
Keeps(a, b) == \A c \in DOMAIN a : c \in DOMAIN b /\ b[c] = a[c]

\* An edit under way is of a row that has not come back; as long as nobody else wrote
\* the row, what it has read is what is stored, and then what it sent.
JobSound(job) ==
  /\ job.at \in {"load", "saved", "delete"} => job.id \in StayIds
  /\ job.at \in {"load", "saved", "done"} => job.body \in Bodies
  /\ job.at = "load" =>
       /\ Lives(job.id) \/ job.id \in deleted
       /\ HasRooms(job.seen) /\ Lives(job.id) => HasRooms(stays[job.id])
       /\ job.alone => Lives(job.id) /\ Keeps(job.seen, stays[job.id])
  /\ job.at = "saved" /\ job.alone => Keeps(job.body, stays[job.id])
  /\ job.at = "done" /\ job.alone => Keeps(job.body, job.answer)

\* What was counted and shown is what the search finds, while nobody writes.
SearchSound ==
  search.at \in {"rows", "done"} =>
    /\ search.query \in Queries
    /\ search.quiet => search.total = Cardinality(Found(search.query))
    /\ search.quiet /\ search.at = "done" => search.shown = First(Found(search.query), Page)

StayInv == /\ StayTypes /\ SearchSound
           /\ \A id \in StayIds : RowSound(id)
           /\ \A e \in Clients : JobSound(jobs[e])

LEMMA SearchWritten ==
  ASSUME NEW s, IsSearch(s), NEW t, t = [s EXCEPT !.quiet = FALSE]
  PROVE  IsSearch(t) /\ ~t.quiet /\ t.query = s.query /\ t.at = s.at
<1>1. PICK a, q, n, ids, calm :
        s = [at |-> a, query |-> q, total |-> n, shown |-> ids, quiet |-> calm]
  BY DEF IsSearch
<1>2. t = [at |-> a, query |-> q, total |-> n, shown |-> ids, quiet |-> FALSE]
  BY <1>1
<1> QED
  BY <1>1, <1>2 DEF IsSearch

LEMMA SearchIdle == IsSearch(NoSearch)
BY DEF IsSearch, NoSearch

LEMMA GoneTyped == Gone \in SomeColumns /\ DOMAIN Gone = {}
BY DEF Gone, SomeColumns

LEMMA RowIsSome == \A row : IsRow(row) => row \in SomeColumns
BY DEF IsRow, SomeColumns

LEMMA LivingRow == \A row \in SomeColumns : DOMAIN row /= {} => row /= Gone
BY GoneTyped

LEMMA RowTyped ==
  ASSUME NEW row \in SomeColumns
  PROVE  /\ DOMAIN row \in SUBSET AllColumns
         /\ row = [c \in DOMAIN row |-> row[c]]
         /\ \A c \in DOMAIN row : row[c] \in Nat
BY DEF SomeColumns

LEMMA PlusTyped ==
  ASSUME NEW a \in SomeColumns, NEW b \in SomeColumns
  PROVE  /\ Plus(a, b) \in SomeColumns
         /\ DOMAIN Plus(a, b) = DOMAIN a \cup DOMAIN b
         /\ \A c \in DOMAIN b : Plus(a, b)[c] = b[c]
         /\ \A c \in DOMAIN a \ DOMAIN b : Plus(a, b)[c] = a[c]
<1>1. Plus(a, b) \in [DOMAIN a \cup DOMAIN b -> Nat]
  BY RowTyped DEF Plus
<1>2. DOMAIN a \cup DOMAIN b \in SUBSET AllColumns
  BY RowTyped
<1>3. Plus(a, b) \in SomeColumns
  BY <1>1, <1>2 DEF SomeColumns
<1> QED
  BY <1>1, <1>3 DEF Plus

LEMMA NothingAdded ==
  ASSUME NEW a \in SomeColumns, NEW b \in SomeColumns, DOMAIN b = {}
  PROVE  Plus(a, b) = a
<1>1. a = [c \in DOMAIN a |-> a[c]]
  BY RowTyped
<1> QED
  BY <1>1 DEF Plus

LEMMA OnlyTyped ==
  ASSUME NEW some, NEW row \in SomeColumns
  PROVE  /\ Only(some, row) \in SomeColumns
         /\ DOMAIN Only(some, row) = DOMAIN row \cap some
         /\ Keeps(Only(some, row), row)
<1>1. Only(some, row) \in [DOMAIN row \cap some -> Nat]
  BY RowTyped DEF Only
<1>2. DOMAIN row \cap some \in SUBSET AllColumns
  BY RowTyped
<1>3. Only(some, row) \in SomeColumns
  BY <1>1, <1>2 DEF SomeColumns
<1> QED
  BY <1>1, <1>3 DEF Only, Keeps

\* What an edit writes: of what it sent, what differs from what it read; and with the
\* first word of rooms, both columns of the rooms.
LEMMA WrittenFacts ==
  ASSUME NEW body \in SomeColumns, NEW seen \in SomeColumns
  PROVE  LET newly == ColumnsWritten(body, seen)
         IN  /\ newly \in SomeColumns
             /\ \A c \in DOMAIN newly : IF c \in DOMAIN body THEN newly[c] = body[c]
                  ELSE c \in RoomColumns /\ ~HasRooms(seen) /\ newly[c] = 0
             /\ \A c \in DOMAIN body : c \in DOMAIN newly \/ (c \in DOMAIN seen /\ body[c] = seen[c])
             /\ RoomColumns \cap DOMAIN newly /= {} /\ ~HasRooms(seen)
                  => RoomColumns \subseteq DOMAIN newly
<1> DEFINE sent == {d \in DOMAIN body : d \notin DOMAIN seen \/ body[d] /= seen[d]}
           added == IF DOMAIN body \cap RoomColumns /= {} /\ ~HasRooms(seen) THEN RoomColumns ELSE {}
           newly == ColumnsWritten(body, seen)
<1>1. newly = [c \in sent \cup added |-> IF c \in DOMAIN body THEN body[c] ELSE 0]
  BY DEF ColumnsWritten
<1>2. sent \subseteq DOMAIN body /\ added \subseteq RoomColumns /\ RoomColumns \subseteq AllColumns
  BY DEF AllColumns
<1>3. sent \cup added \in SUBSET AllColumns
  BY <1>2, RowTyped
<1>4. newly \in [sent \cup added -> Nat]
  BY <1>1, RowTyped
<1>5. newly \in SomeColumns /\ DOMAIN newly = sent \cup added
  BY <1>3, <1>4 DEF SomeColumns
<1>6. \A c \in DOMAIN newly : IF c \in DOMAIN body THEN newly[c] = body[c]
                  ELSE c \in RoomColumns /\ ~HasRooms(seen) /\ newly[c] = 0
  BY <1>1, <1>5
<1>7. \A c \in DOMAIN body : c \in DOMAIN newly \/ (c \in DOMAIN seen /\ body[c] = seen[c])
  BY <1>5
<1>8. RoomColumns \cap DOMAIN newly /= {} /\ ~HasRooms(seen) => RoomColumns \subseteq DOMAIN newly
  BY <1>5
<1> QED
  BY <1>5, <1>6, <1>7, <1>8

-----------------------------------------------------------------------------
(* The invariant holds                                                     *)

LEMMA NoEditSound == NoEdit \in Job /\ JobSound(NoEdit) /\ NoEdit.at = "idle"
BY GoneTyped DEF NoEdit, Job, JobStates, JobSound

\* What others' steps leave of what an edit relies on.
LEMMA JobKeeps ==
  ASSUME NEW job, JobSound(job),
         job.at \in {"load", "saved", "delete"} => stays'[job.id] = stays[job.id],
         deleted \subseteq deleted'
  PROVE  JobSound(job)'
BY DEF JobSound, Lives

\* A step of one request that writes nothing.
LEMMA TurnHolds ==
  ASSUME StayInv, NEW e \in Clients, NEW next \in Job, JobSound(next),
         jobs' = [jobs EXCEPT ![e] = next], UNCHANGED <<stays, search, deleted, unsure>>
  PROVE  StayInv'
<1>1. \A f \in Clients : jobs'[f] = IF f = e THEN next ELSE jobs[f]
  BY DEF StayInv, StayTypes
<1>2. ASSUME NEW f \in Clients PROVE JobSound(jobs[f])'
  <2>1. PICK job : job = jobs'[f]
    OBVIOUS
  <2>2. JobSound(job)
    BY <1>1, <2>1 DEF StayInv
  <2>3. JobSound(job)'
    BY <2>2, JobKeeps
  <2> QED
    BY <2>1, <2>3 DEF JobSound
<1>3. StayTypes'
  BY DEF StayInv, StayTypes
<1>4. \A id \in StayIds : RowSound(id)'
  BY DEF StayInv, RowSound, Lives
<1>5. SearchSound'
  BY DEF StayInv, SearchSound, Found, First, Under, Lives
<1> QED
  BY <1>2, <1>3, <1>4, <1>5 DEF StayInv

\* A step that writes a row, and tells everybody who is at work on it.
LEMMA TellHolds ==
  ASSUME StayInv, NEW id \in StayIds, NEW e \in Clients, NEW next \in Job, Tell(id, e, next),
         stays' \in [StayIds -> SomeColumns],
         \A other \in StayIds \ {id} : stays'[other] = stays[other],
         RowSound(id)', JobSound(next)',
         deleted \subseteq deleted', deleted' \in SUBSET (deleted \cup {id}),
         unsure \subseteq unsure', unsure' \in SUBSET StayIds,
         \/ \A f \in Clients : jobs[f].id /= id
         \/ /\ Lives(id)' \/ id \in deleted'
            /\ Lives(id)' => Lives(id) /\ DOMAIN stays[id] \subseteq DOMAIN stays'[id]
  PROVE  StayInv'
<1>1. \A f \in Clients : jobs'[f] = IF f = e THEN next
                                   ELSE IF jobs[f].id = id THEN [jobs[f] EXCEPT !.alone = FALSE]
                                   ELSE jobs[f]
  BY DEF Tell
<1>2. ASSUME NEW f \in Clients PROVE JobSound(jobs[f])' /\ jobs'[f] \in Job
  <2>1. PICK old : old = jobs[f] /\ old \in Job /\ JobSound(old)
    BY DEF StayInv, StayTypes
  <2>2. PICK job : job = jobs'[f]
    OBVIOUS
  <2>3. CASE f = e
    BY <1>1, <2>3 DEF JobSound
  <2>4. CASE f /= e /\ old.id /= id
    <3>1. job = old /\ (job.at \in {"load", "saved", "delete"} => stays'[job.id] = stays[job.id])
      BY <1>1, <2>1, <2>2, <2>4 DEF JobSound
    <3>2. JobSound(job)'
      BY <2>1, <3>1, JobKeeps
    <3> QED
      BY <2>1, <2>2, <3>1, <3>2 DEF JobSound
  <2>5. CASE f /= e /\ old.id = id
    <3>1. job = [old EXCEPT !.alone = FALSE]
      BY <1>1, <2>1, <2>2, <2>5
    <3>2. /\ job \in Job /\ job.at = old.at /\ job.id = id /\ job.body = old.body
          /\ job.seen = old.seen /\ ~job.alone
      BY <2>1, <2>5, <3>1 DEF Job
    <3>3. Lives(id)' => Lives(id) /\ DOMAIN stays[id] \subseteq DOMAIN stays'[id]
      BY <2>1, <2>5
    <3>4. Lives(id)' \/ id \in deleted'
      BY <2>1, <2>5
    <3>5. HasRooms(stays[id]) /\ Lives(id)' => HasRooms(stays'[id])
      BY <3>3 DEF HasRooms
    <3>6. JobSound(job)'
      BY <2>1, <2>5, <3>2, <3>3, <3>4, <3>5 DEF JobSound
    <3> QED
      BY <2>2, <3>2, <3>6 DEF JobSound
  <2> QED
    BY <2>3, <2>4, <2>5
<1>3. jobs' \in [Clients -> Job]
  BY <1>2 DEF Tell
<1>4. StayTypes' /\ ~search'.quiet /\ search'.query = search.query /\ search'.at = search.at
  BY <1>3, SearchWritten DEF StayInv, StayTypes, Tell
<1>5. ASSUME NEW other \in StayIds PROVE RowSound(other)'
  <2>1. CASE other /= id
    BY <2>1 DEF StayInv, RowSound, Lives
  <2> QED
    BY <2>1
<1>6. SearchSound'
  BY <1>4 DEF StayInv, SearchSound
<1> QED
  BY <1>2, <1>4, <1>5, <1>6 DEF StayInv

LEMMA NewStayFacts ==
  NewStay \in SomeColumns /\ Whole(NewStay) /\ CountryOf[NewStay.city] = NewStay.country /\ NewStay /= Gone
<1>1. NewStay \in SomeColumns /\ Whole(NewStay) /\ CountryOf[NewStay.city] = NewStay.country
  BY StaysAssumption, RowIsSome
<1>2. "price" \in DOMAIN NewStay
  BY <1>1 DEF Whole, StayColumns
<1> QED
  BY <1>1, <1>2, GoneTyped

LEMMA CreateHolds ==
  ASSUME StayInv, NEW e \in Clients, NEW id \in StayIds, Create(e, id)
  PROVE  StayInv'
<1>1. stays' \in [StayIds -> SomeColumns] /\ stays'[id] = NewStay
      /\ \A other \in StayIds \ {id} : stays'[other] = stays[other]
  BY NewStayFacts DEF Create, StayInv, StayTypes
<1>2. RowSound(id)'
  BY <1>1, NewStayFacts DEF Create, RowSound, Lives
<1>3. JobSound(NoEdit)'
  BY NoEditSound DEF JobSound
<1> QED
  BY <1>1, <1>2, <1>3, NoEditSound, TellHolds DEF Create, StayInv, StayTypes

LEMMA ChangeHolds ==
  ASSUME StayInv, NEW e \in Clients, NEW id \in StayIds, NEW body \in Bodies, Change(e, id, body)
  PROVE  StayInv'
<1> DEFINE next == [NoEdit EXCEPT !.at = "load", !.id = id, !.body = body,
       !.seen = Only(StayColumns, stays[id]),
       !.left = {s \in {PlaceColumns, RoomColumns} : s \cap DOMAIN body /= {}}]
<1>1. stays[id] \in SomeColumns /\ body \in SomeColumns /\ Lives(id)
  BY StaysAssumption, RowIsSome DEF Change, StayInv, StayTypes
<1>2. /\ next.at = "load" /\ next.id = id /\ next.body = body
      /\ next.seen = Only(StayColumns, stays[id])
      /\ next \in Job
  BY <1>1, OnlyTyped, NoEditSound DEF NoEdit, Job, JobStates
<1>3. jobs' = [jobs EXCEPT ![e] = next] /\ UNCHANGED <<stays, search, deleted, unsure>>
  BY DEF Change
<1> HIDE DEF next
<1>4. ~HasRooms(next.seen) /\ Keeps(next.seen, stays[id])
  <2>1. DOMAIN next.seen = DOMAIN stays[id] \cap StayColumns /\ Keeps(next.seen, stays[id])
    BY <1>1, <1>2, OnlyTyped
  <2>2. "rooms" \in RoomColumns /\ "rooms" \notin StayColumns
    BY DEF RoomColumns, StayColumns
  <2> QED
    BY <2>1, <2>2 DEF HasRooms
<1>5. JobSound(next)
  BY <1>1, <1>2, <1>4 DEF JobSound
<1> QED
  BY <1>2, <1>3, <1>5, TurnHolds

LEMMA LoadedKeeps ==
  ASSUME NEW seen \in SomeColumns, NEW row \in SomeColumns, NEW section, Keeps(seen, row)
  PROVE  Keeps(Plus(seen, Only(section, row)), row)
<1> DEFINE part == Only(section, row)
           sum == Plus(seen, part)
<1>1. part \in SomeColumns /\ Keeps(part, row)
  BY OnlyTyped
<1> HIDE DEF part
<1>2. /\ DOMAIN sum = DOMAIN seen \cup DOMAIN part
      /\ \A c \in DOMAIN part : sum[c] = part[c]
      /\ \A c \in DOMAIN seen \ DOMAIN part : sum[c] = seen[c]
  BY <1>1, PlusTyped
<1> HIDE DEF sum
<1> QED
  BY <1>1, <1>2 DEF Keeps, sum, part

LEMMA LoadHolds ==
  ASSUME StayInv, NEW e \in Clients, NEW section \in {PlaceColumns, RoomColumns}, Load(e, section)
  PROVE  StayInv'
<1> PICK old : old = jobs[e] /\ old \in Job /\ JobSound(old) /\ old.at = "load"
  BY DEF Load, StayInv, StayTypes
<1> PICK row : row = stays[old.id] /\ row \in SomeColumns /\ old.id \in StayIds
  BY DEF JobSound, StayInv, StayTypes
<1> DEFINE next == [old EXCEPT !.left = @ \ {section}, !.seen = Plus(@, Only(section, row))]
<1>1. Turns(e, NoEdit) \/ Turns(e, next)
  BY DEF Load
<1>2. CASE Turns(e, NoEdit)
  BY <1>2, NoEditSound, TurnHolds DEF Turns
<1>3. CASE Turns(e, next)
  <2>1. Only(section, row) \in SomeColumns /\ old.seen \in SomeColumns
    BY OnlyTyped DEF Job
  <2>2. /\ next.at = "load" /\ next.id = old.id /\ next.body = old.body /\ next.alone = old.alone
        /\ next.seen = Plus(old.seen, Only(section, row)) /\ next \in Job
    BY <2>1, PlusTyped DEF Job
  <2> HIDE DEF next
  <2>3. Lives(old.id) => Whole(row)
    BY DEF StayInv, RowSound
  <2>4. DOMAIN next.seen = DOMAIN old.seen \cup DOMAIN Only(section, row)
        /\ DOMAIN Only(section, row) \subseteq DOMAIN row
    <3>1. DOMAIN Only(section, row) = DOMAIN row \cap section
      BY OnlyTyped
    <3>2. DOMAIN Plus(old.seen, Only(section, row)) = DOMAIN old.seen \cup DOMAIN Only(section, row)
      BY <2>1, PlusTyped
    <3> QED
      BY <2>2, <3>1, <3>2
  <2>5. HasRooms(next.seen) /\ Lives(old.id) => HasRooms(row)
    <3>1. CASE HasRooms(old.seen)
      BY <3>1 DEF JobSound
    <3>2. CASE ~HasRooms(old.seen)
      <4>1. HasRooms(next.seen) => \E c \in RoomColumns : c \in DOMAIN row
        BY <2>4, <3>2 DEF HasRooms
      <4>2. Lives(old.id) /\ RoomColumns \cap DOMAIN row /= {} => HasRooms(row)
        BY <2>3 DEF Whole
      <4> QED
        BY <4>1, <4>2
    <3> QED
      BY <3>1, <3>2
  <2>6. Keeps(old.seen, row) => Keeps(next.seen, row)
    BY <2>1, <2>2, LoadedKeeps
  <2>7. JobSound(next)
    BY <2>2, <2>5, <2>6 DEF JobSound
  <2> QED
    BY <1>3, <2>2, <2>7, TurnHolds DEF Turns
<1> QED
  BY <1>1, <1>2, <1>3

\* The row that an edit leaves: each column is as it was, or as sent, or a new null of
\* rooms that there were none of; who read what was stored leaves all it sent.
EditedRow(before, body, seen, row) ==
  /\ row \in SomeColumns /\ row /= Gone /\ Whole(row)
  /\ DOMAIN before \subseteq DOMAIN row
  /\ \A c \in DOMAIN row :
       \/ c \in DOMAIN before /\ row[c] = before[c]
       \/ c \notin DOMAIN before /\ row[c] = 0 /\ c \in RoomColumns
       \/ c \in DOMAIN body /\ row[c] = body[c]
  /\ Keeps(seen, before) => Keeps(body, row)

LEMMA EditLeaves ==
  ASSUME NEW before \in SomeColumns, Whole(before), NEW body \in SomeColumns,
         NEW seen \in SomeColumns, HasRooms(seen) => HasRooms(before),
         RoomColumns \cap DOMAIN ColumnsWritten(body, seen) /= {} /\ ~HasRooms(seen) => ~HasRooms(before)
  PROVE  EditedRow(before, body, seen, Plus(before, ColumnsWritten(body, seen)))
<1> DEFINE newly == ColumnsWritten(body, seen)
           row == Plus(before, newly)
<1>1. /\ newly \in SomeColumns
      /\ \A c \in DOMAIN newly : IF c \in DOMAIN body THEN newly[c] = body[c]
           ELSE c \in RoomColumns /\ ~HasRooms(seen) /\ newly[c] = 0
      /\ \A c \in DOMAIN body : c \in DOMAIN newly \/ (c \in DOMAIN seen /\ body[c] = seen[c])
      /\ RoomColumns \cap DOMAIN newly /= {} /\ ~HasRooms(seen) => RoomColumns \subseteq DOMAIN newly
  BY WrittenFacts
<1> HIDE DEF newly
<1>2. /\ row \in SomeColumns /\ DOMAIN row = DOMAIN before \cup DOMAIN newly
      /\ \A c \in DOMAIN newly : row[c] = newly[c]
      /\ \A c \in DOMAIN before \ DOMAIN newly : row[c] = before[c]
  BY <1>1, PlusTyped
<1> HIDE DEF row
<1>3. RoomColumns \cap DOMAIN row /= {} => HasRooms(row)
  <2>1. CASE RoomColumns \cap DOMAIN before /= {} \/ HasRooms(seen)
    BY <1>2, <2>1 DEF Whole, HasRooms
  <2>2. CASE RoomColumns \cap DOMAIN before = {} /\ ~HasRooms(seen)
    BY <1>1, <1>2, <2>2 DEF HasRooms
  <2> QED
    BY <2>1, <2>2
<1>4. Whole(row) /\ row /= Gone
  <2>1. StayColumns \cup PlaceColumns \subseteq DOMAIN row
    BY <1>2 DEF Whole
  <2>2. DOMAIN row /= {}
    BY <2>1 DEF StayColumns
  <2> QED
    BY <1>2, <1>3, <2>1, <2>2, LivingRow DEF Whole
<1>5. ASSUME NEW c \in DOMAIN row
      PROVE  \/ c \in DOMAIN before /\ row[c] = before[c]
             \/ c \notin DOMAIN before /\ row[c] = 0 /\ c \in RoomColumns
             \/ c \in DOMAIN body /\ row[c] = body[c]
  <2>1. CASE c \in DOMAIN newly /\ c \notin DOMAIN body
    <3>1. c \in RoomColumns /\ ~HasRooms(seen) /\ row[c] = 0
      BY <1>1, <1>2, <2>1
    <3>2. ~HasRooms(before)
      BY <2>1, <3>1 DEF newly
    <3>3. c \notin DOMAIN before
      BY <3>1, <3>2 DEF Whole
    <3> QED
      BY <3>1, <3>3
  <2> QED
    BY <1>1, <1>2, <2>1
<1>6. Keeps(seen, before) => Keeps(body, row)
  BY <1>1, <1>2 DEF Keeps
<1> QED
  BY <1>2, <1>4, <1>5, <1>6 DEF EditedRow, row, newly

LEMMA CommitHolds ==
  ASSUME StayInv, NEW e \in Clients, Commit(e)
  PROVE  StayInv'
<1> PICK old : old = jobs[e] /\ old \in Job /\ JobSound(old) /\ old.at = "load"
  BY DEF Commit, StayInv, StayTypes
<1> PICK id : id = old.id /\ id \in StayIds
  BY DEF JobSound
<1> PICK newly : newly = ColumnsWritten(old.body, old.seen)
  OBVIOUS
<1> PICK next : next = [old EXCEPT !.at = "saved"]
  OBVIOUS
<1>1. CASE Refuses(e, newly)
  BY <1>1, NoEditSound, TurnHolds DEF Commit, Turns
<1>2. CASE ~Refuses(e, newly)
  <2>1. /\ stays' = IF DOMAIN newly = {} THEN stays ELSE [stays EXCEPT ![id] = Plus(@, newly)]
        /\ unsure' = IF \/ "country" \in DOMAIN old.body /\ "city" \notin DOMAIN old.body
                        \/ DOMAIN old.body \cap PlaceColumns /= {} /\ ~old.alone
                     THEN unsure \cup {id} ELSE unsure
        /\ Tell(id, e, next)
        /\ UNCHANGED <<requests, deleted>>
    BY <1>2 DEF Commit
  <2>2. /\ next \in Job /\ next.at = "saved" /\ next.id = id /\ next.body = old.body
        /\ next.alone = old.alone
    BY DEF Job, JobStates
  <2>3. old.body \in SomeColumns /\ old.seen \in SomeColumns /\ old.body \in Bodies
    BY DEF Job, JobSound
  <2>4. unsure \subseteq unsure' /\ unsure' \in SUBSET StayIds
    BY <2>1 DEF StayInv, StayTypes
  <2>5. CASE ~Lives(id)
    <3>1. DOMAIN newly = {}
      BY <1>2, <2>5 DEF Refuses
    <3>2. stays' = stays /\ ~Lives(id)' /\ id \in deleted' /\ ~old.alone
      BY <2>1, <2>5, <3>1 DEF JobSound, Lives
    <3>3. RowSound(id)' /\ JobSound(next)'
      BY <2>2, <2>3, <3>2 DEF RowSound, JobSound
    <3> QED
      BY <2>1, <2>2, <2>4, <3>2, <3>3, TellHolds DEF StayInv, StayTypes
  <2>6. CASE Lives(id)
    <3> PICK before : before = stays[id] /\ before \in SomeColumns /\ before /= Gone
      BY <2>6 DEF StayInv, StayTypes, Lives
    <3> PICK row : row = Plus(before, newly)
      OBVIOUS
    <3>0. Whole(before)
      BY <2>6 DEF StayInv, RowSound
    <3>1. EditedRow(before, old.body, old.seen, row)
      <4>1. HasRooms(old.seen) => HasRooms(before)
        BY <2>6 DEF JobSound
      <4>2. RoomColumns \cap DOMAIN newly /= {} /\ ~HasRooms(old.seen) => ~HasRooms(before)
        BY <1>2 DEF Refuses
      <4> QED
        BY <2>3, <3>0, <4>1, <4>2, EditLeaves
    <3>2. DOMAIN newly = {} => row = before
      BY <2>3, WrittenFacts, NothingAdded
    <3>3. stays' = [stays EXCEPT ![id] = row]
      BY <2>1, <3>2 DEF StayInv, StayTypes
    <3>4. /\ stays' \in [StayIds -> SomeColumns] /\ stays'[id] = row /\ Lives(id)'
          /\ \A other \in StayIds \ {id} : stays'[other] = stays[other]
      BY <3>1, <3>3 DEF EditedRow, StayInv, StayTypes, Lives
    <3>5. /\ "city" \in DOMAIN before /\ "country" \in DOMAIN before
          /\ "city" \in DOMAIN row /\ "country" \in DOMAIN row
          /\ "city" \notin RoomColumns /\ "country" \notin RoomColumns
          /\ CountryOf[before.city] = before.country \/ id \in unsure
      BY <2>6, <3>0, <3>1 DEF EditedRow, StayInv, RowSound, Whole, PlaceColumns, RoomColumns
    <3>6. CountryOf[row.city] = row.country \/ id \in unsure'
      <4>1. CASE DOMAIN old.body \cap PlaceColumns = {}
        <5>1. "city" \notin DOMAIN old.body /\ "country" \notin DOMAIN old.body
          BY <4>1 DEF PlaceColumns
        <5> QED
          BY <2>4, <3>1, <3>5, <5>1 DEF EditedRow
      <4>2. CASE ~old.alone /\ DOMAIN old.body \cap PlaceColumns /= {}
        BY <2>1, <4>2
      <4>3. CASE old.alone /\ "city" \in DOMAIN old.body
        <5>1. "country" \in DOMAIN old.body /\ CountryOf[old.body.city] = old.body.country
          BY <2>3, <4>3, StaysAssumption
        <5>2. row.city = old.body.city /\ row.country = old.body.country
          BY <3>1, <4>3, <5>1 DEF EditedRow, Keeps, JobSound
        <5> QED
          BY <5>1, <5>2
      <4>4. CASE "city" \notin DOMAIN old.body /\ "country" \in DOMAIN old.body
        BY <2>1, <4>4
      <4> QED
        BY <4>1, <4>2, <4>3, <4>4 DEF PlaceColumns
    <3>7. id \notin deleted
      BY <2>6 DEF StayInv, RowSound
    <3>8. RowSound(id)'
      BY <2>1, <3>1, <3>4, <3>6, <3>7 DEF EditedRow, RowSound
    <3>9. JobSound(next)'
      BY <2>2, <2>3, <3>1, <3>4 DEF EditedRow, JobSound
    <3> QED
      BY <2>1, <2>2, <2>4, <2>6, <3>1, <3>4, <3>8, <3>9, TellHolds DEF EditedRow, StayInv, StayTypes
  <2> QED
    BY <2>5, <2>6
<1> QED
  BY <1>1, <1>2

LEMMA ReadsBackHolds ==
  ASSUME StayInv, NEW e \in Clients, ReadsBack(e) \/ Unnamed(e)
  PROVE  StayInv'
<1> PICK old : old = jobs[e] /\ old \in Job /\ JobSound(old) /\ old.at = "saved"
  BY DEF ReadsBack, Unnamed, StayInv, StayTypes
<1> PICK next : next = [old EXCEPT !.at = "done", !.answer = stays[old.id]]
  OBVIOUS
<1>1. old.id \in StayIds /\ stays[old.id] \in SomeColumns
  BY DEF JobSound, StayInv, StayTypes
<1>2. /\ next \in Job /\ next.at = "done" /\ next.alone = old.alone /\ next.body = old.body
      /\ next.answer = stays[old.id]
  BY <1>1 DEF Job, JobStates
<1>3. JobSound(next)
  BY <1>2 DEF JobSound
<1>4. Turns(e, NoEdit) \/ Turns(e, next)
  BY DEF ReadsBack, Unnamed
<1> QED
  BY <1>2, <1>3, <1>4, NoEditSound, TurnHolds DEF Turns

LEMMA StartsDeleteHolds ==
  ASSUME StayInv, NEW e \in Clients, NEW id \in StayIds, StartsDelete(e, id)
  PROVE  StayInv'
<1> PICK next : next = [NoEdit EXCEPT !.at = "delete", !.id = id]
  OBVIOUS
<1>1. next \in Job /\ next.at = "delete" /\ next.id = id
  BY NoEditSound DEF NoEdit, Job, JobStates
<1>2. JobSound(next)
  BY <1>1 DEF JobSound
<1> QED
  BY <1>1, <1>2, TurnHolds DEF StartsDelete

LEMMA DeletesHolds ==
  ASSUME StayInv, NEW e \in Clients, Deletes(e)
  PROVE  StayInv'
<1> PICK id : id = jobs[e].id /\ id \in StayIds
  BY DEF Deletes, StayInv, StayTypes, JobSound
<1>1. /\ stays' \in [StayIds -> SomeColumns] /\ stays'[id] = Gone
      /\ \A other \in StayIds \ {id} : stays'[other] = stays[other]
      /\ deleted' = deleted \cup {id} /\ UNCHANGED unsure /\ Tell(id, e, NoEdit)
  BY GoneTyped DEF Deletes, StayInv, StayTypes
<1>2. RowSound(id)' /\ ~Lives(id)'
  BY <1>1 DEF RowSound, Lives
<1>3. JobSound(NoEdit)'
  BY NoEditSound DEF JobSound
<1> QED
  BY <1>1, <1>2, <1>3, NoEditSound, TellHolds DEF StayInv, StayTypes

\* Samples come only where there is no row at all; nobody is at work then.
LEMMA RestartHolds ==
  ASSUME StayInv, NEW id \in StayIds, Restart(id)
  PROVE  StayInv'
<1>1. /\ stays' = stays \/ stays' = [stays EXCEPT ![id] = NewStay]
      /\ id \notin deleted /\ jobs' = [e \in Clients |-> NoEdit] /\ search' = NoSearch
      /\ UNCHANGED <<deleted, unsure>>
  BY DEF Restart
<1>2. /\ stays' \in [StayIds -> SomeColumns]
      /\ stays'[id] = stays[id] \/ stays'[id] = NewStay
      /\ \A other \in StayIds \ {id} : stays'[other] = stays[other]
  BY <1>1, NewStayFacts DEF StayInv, StayTypes
<1>3. ASSUME NEW other \in StayIds PROVE RowSound(other)'
  <2>1. CASE stays'[other] = stays[other]
    BY <1>1, <2>1 DEF StayInv, RowSound, Lives
  <2>2. CASE other = id /\ stays'[id] = NewStay
    BY <1>1, <2>2, NewStayFacts DEF RowSound, Lives
  <2> QED
    BY <1>2, <2>1, <2>2
<1>4. \A e \in Clients : JobSound(jobs[e])'
  BY <1>1, NoEditSound DEF JobSound
<1>5. StayTypes'
  BY <1>1, <1>2, NoEditSound, SearchIdle DEF StayInv, StayTypes
<1>6. SearchSound'
  BY <1>1 DEF SearchSound, NoSearch
<1> QED
  BY <1>3, <1>4, <1>5, <1>6 DEF StayInv

LEMMA SearchHolds ==
  ASSUME StayInv, Rows \/ \E q \in Queries : Count(q)
  PROVE  StayInv'
<1>1. UNCHANGED <<stays, jobs, deleted, unsure>>
  BY DEF Rows, Count
<1>2. /\ IsSearch(search') => StayTypes'
      /\ \A id \in StayIds : RowSound(id)'
      /\ \A e \in Clients : JobSound(jobs[e])'
  <2>1. \A id \in StayIds : RowSound(id)'
    BY <1>1 DEF StayInv, RowSound, Lives
  <2>2. \A e \in Clients : JobSound(jobs[e])'
    BY <1>1 DEF StayInv, JobSound, Lives
  <2> QED
    BY <1>1, <2>1, <2>2 DEF StayInv, StayTypes
<1>4. ASSUME Rows PROVE SearchSound' /\ IsSearch(search')
  <2>1. PICK old : old = search /\ old.at = "rows" /\ IsSearch(old)
    BY <1>4 DEF Rows, StayInv, StayTypes
  <2>2. PICK found : found = Found(old.query)
    OBVIOUS
  <2>3. PICK a, q, n, ids, calm :
          old = [at |-> a, query |-> q, total |-> n, shown |-> ids, quiet |-> calm]
    BY <2>1 DEF IsSearch
  <2>4. search' = [old EXCEPT !.at = "done", !.shown = First(found, Page)]
    BY <1>4, <2>1, <2>2 DEF Rows, First, Under
  <2>5. search' = [at |-> "done", query |-> q, total |-> n, shown |-> First(found, Page), quiet |-> calm]
    BY <2>3, <2>4
  <2>6. q \in Queries /\ (calm => n = Cardinality(found)) /\ found = Found(q)
    BY <2>1, <2>2, <2>3 DEF StayInv, SearchSound
  <2>7. Found(search.query)' = found
    BY <1>1, <2>5, <2>6 DEF Found, Lives
  <2> QED
    BY <2>5, <2>6, <2>7 DEF SearchSound, IsSearch
<1>5. ASSUME NEW q \in Queries, Count(q) PROVE SearchSound' /\ IsSearch(search')
  <2>1. PICK found : found = Found(q)
    OBVIOUS
  <2>2. search' = [NoSearch EXCEPT !.at = "rows", !.query = q, !.total = Cardinality(found)]
    BY <1>5, <2>1 DEF Count
  <2>3. search' = [at |-> "rows", query |-> q, total |-> Cardinality(found), shown |-> {}, quiet |-> TRUE]
    BY <2>2 DEF NoSearch
  <2>4. Found(search.query)' = found
    BY <1>1, <2>1, <2>3 DEF Found, Lives
  <2> QED
    BY <2>3, <2>4 DEF SearchSound, IsSearch
<1> QED
  BY <1>2, <1>4, <1>5 DEF StayInv

LEMMA StayStep ==
  ASSUME StayInv, [StayNext]_StayVars
  PROVE  StayInv'
<1>1. CASE StayNext
  <2>1. ASSUME NEW e \in Clients, NEW id \in StayIds, NEW b \in Bodies,
               Create(e, id) \/ StartsDelete(e, id) \/ Change(e, id, b)
        PROVE  StayInv'
    BY <2>1, CreateHolds, StartsDeleteHolds, ChangeHolds
  <2>2. ASSUME NEW e \in Clients, NEW id \in StayIds, Create(e, id) \/ StartsDelete(e, id)
        PROVE  StayInv'
    BY <2>2, CreateHolds, StartsDeleteHolds
  <2>3. ASSUME NEW e \in Clients, NEW s \in {PlaceColumns, RoomColumns}, Load(e, s)
        PROVE  StayInv'
    BY <2>3, LoadHolds
  <2>4. ASSUME NEW e \in Clients, Commit(e) \/ ReadsBack(e) \/ Unnamed(e) \/ Deletes(e)
        PROVE  StayInv'
    BY <2>4, CommitHolds, ReadsBackHolds, DeletesHolds
  <2>5. ASSUME NEW id \in StayIds, Restart(id) PROVE StayInv'
    BY <2>5, RestartHolds
  <2>6. ASSUME Rows \/ \E q \in Queries : Count(q) PROVE StayInv'
    BY <2>6, SearchHolds
  <2> QED
    BY <1>1, <2>1, <2>2, <2>3, <2>4, <2>5, <2>6 DEF StayNext
<1>2. CASE UNCHANGED StayVars
  <2>1. ASSUME NEW e \in Clients PROVE JobSound(jobs[e])'
    BY <1>2 DEF StayInv, StayVars, JobSound, Lives
  <2>2. \A id \in StayIds : RowSound(id)'
    BY <1>2 DEF StayInv, StayVars, RowSound, Lives
  <2>3. SearchSound'
    BY <1>2 DEF StayInv, StayVars, SearchSound, Found, Lives
  <2>4. StayTypes'
    BY <1>2 DEF StayInv, StayVars, StayTypes
  <2> QED
    BY <2>1, <2>2, <2>3, <2>4 DEF StayInv
<1> QED
  BY <1>1, <1>2

LEMMA StayStart ==
  ASSUME StayInit
  PROVE  StayInv
<1>1. \A id \in StayIds : stays[id] = Gone \/ stays[id] = NewStay
  BY DEF StayInit
<1>2. stays \in [StayIds -> SomeColumns] /\ jobs \in [Clients -> Job]
  BY NewStayFacts, GoneTyped, NoEditSound DEF StayInit
<1>3. StayTypes
  BY <1>2, SearchIdle DEF StayInit, StayTypes
<1>4. \A id \in StayIds : RowSound(id)
  BY <1>1, NewStayFacts DEF StayInit, RowSound, Lives
<1>5. \A e \in Clients : JobSound(jobs[e])
  BY NoEditSound DEF StayInit
<1>6. SearchSound
  BY DEF StayInit, SearchSound, NoSearch
<1> QED
  BY <1>3, <1>4, <1>5, <1>6 DEF StayInv

-----------------------------------------------------------------------------
(* What the invariant says of the runs' properties                         *)

\* What a search should find.
Fits(q) == {id \in StayIds :
              /\ Lives(id) /\ DOMAIN q.match \cup DOMAIN q.least \subseteq DOMAIN stays[id]
              /\ \A c \in DOMAIN q.match : stays[id][c] = q.match[c]
              /\ \A c \in DOMAIN q.least : stays[id][c] >= q.least[c]}
Rest(q) == {id \in Fits(q) : q.rooms => HasRooms(stays[id])}

LEMMA FoundIsRest ==
  ASSUME StayInv, NEW q \in Queries
  PROVE  Found(q) = Rest(q)
<1>1. ASSUME NEW id \in StayIds, Lives(id) PROVE id \in Found(q) <=> id \in Rest(q)
  <2> PICK row : row = stays[id] /\ row \in SomeColumns /\ Whole(row)
    BY <1>1 DEF StayInv, StayTypes, RowSound
  <2> PICK columns : columns = DOMAIN q.match \cup DOMAIN q.least
    OBVIOUS
  <2>1. \A c \in DOMAIN row : row[c] \in Nat
    BY RowTyped
  <2>2. \A c \in DOMAIN q.least : q.least[c] \in Nat \ {0}
    BY StaysAssumption
  <2>3. columns \subseteq DOMAIN row /\ columns \cap RoomColumns /= {} => HasRooms(row)
    BY DEF Whole
  <2>4. \A c \in DOMAIN q.least : c \in DOMAIN row /\ row[c] >= q.least[c] => row[c] /= 0
    BY <2>1, <2>2
  <2>5. Matches(q, row) <=>
          /\ columns \subseteq DOMAIN row
          /\ \A c \in DOMAIN q.match : row[c] = q.match[c]
          /\ \A c \in DOMAIN q.least : row[c] >= q.least[c]
          /\ q.rooms => HasRooms(row)
    <3>1. ASSUME Matches(q, row) PROVE columns \subseteq DOMAIN row
      BY <3>1 DEF Matches
    <3>2. ASSUME columns \subseteq DOMAIN row
          PROVE  Joined(q, row) <=> (q.rooms => HasRooms(row))
      BY <2>3, <3>2 DEF Joined
    <3>3. \A c \in DOMAIN q.match : c \in columns
      OBVIOUS
    <3>4. \A c \in DOMAIN q.least : c \in columns
      OBVIOUS
    <3> QED
      BY <2>4, <3>1, <3>2, <3>3, <3>4 DEF Matches
  <2> QED
    BY <1>1, <2>5 DEF Found, Rest, Fits
<1>2. Found(q) \subseteq StayIds /\ Rest(q) \subseteq StayIds
      /\ \A id \in Found(q) \cup Rest(q) : Lives(id)
  BY DEF Found, Rest, Fits
<1> QED
  BY <1>1, <1>2

LEMMA SearchAnswers ==
  ASSUME StayInv
  PROVE  SearchIsExact
<1>1. SUFFICES ASSUME search.at = "done", search.quiet
      PROVE  /\ search.total = Cardinality(Rest(search.query))
             /\ search.shown \subseteq Rest(search.query)
             /\ Cardinality(search.shown) = IF search.total < Page THEN search.total ELSE Page
  BY DEF SearchIsExact, Rest, Fits
<1> PICK found : found = Found(search.query)
  OBVIOUS
<1>2. search.query \in Queries /\ search.total = Cardinality(found) /\ search.shown = First(found, Page)
  BY <1>1 DEF StayInv, SearchSound
<1>3. found = Rest(search.query)
  BY <1>2, FoundIsRest
<1>4. found \in SUBSET StayIds /\ StayIds \in SUBSET Nat /\ IsFiniteSet(StayIds) /\ Page \in Nat
  BY StaysAssumption DEF Found
<1>5. IsFiniteSet(found) /\ found \in SUBSET Nat
  BY <1>4, FS_Subset, Zenon
<1>6. Cardinality(First(found, Page)) = IF Cardinality(found) < Page THEN Cardinality(found) ELSE Page
  BY <1>4, <1>5, FirstSize
<1> QED
  BY <1>2, <1>3, <1>6 DEF First

LEMMA StayInvTells ==
  ASSUME StayInv
  PROVE  StaysAreTrue
<1>1. PlaceIsOne
  BY DEF StayInv, RowSound, PlaceIsOne
<1>2. AnswerHasWhatWasSent
  BY DEF StayInv, JobSound, Keeps, AnswerHasWhatWasSent
<1> QED
  BY <1>1, <1>2, SearchAnswers DEF StaysAreTrue

\* Every step writes only what an edit of that row sent.
SentOnly == 
  /\ \A id \in deleted : ~Lives(id)'
  /\ \A id \in StayIds : Lives(id) /\ Lives(id)' =>
       \A c \in DOMAIN stays'[id] :
         \/ c \in DOMAIN stays[id] /\ stays'[id][c] = stays[id][c]
         \/ c \notin DOMAIN stays[id] /\ stays'[id][c] = 0
         \/ \E e \in Clients : /\ jobs[e].id = id /\ c \in DOMAIN jobs[e].body
                               /\ stays'[id][c] = jobs[e].body[c]

LEMMA CommitWritesSent ==
  ASSUME StayInv, NEW e \in Clients, Commit(e)
  PROVE  SentOnly
<1> PICK old : old = jobs[e] /\ old \in Job /\ JobSound(old) /\ old.at = "load"
  BY DEF Commit, StayInv, StayTypes
<1> PICK id : id = old.id /\ id \in StayIds
  BY DEF JobSound
<1> PICK newly : newly = ColumnsWritten(old.body, old.seen)
  OBVIOUS
<1>1. CASE stays' = stays
  BY <1>1 DEF SentOnly, StayInv, StayTypes, RowSound, Lives
<1>2. CASE stays' = [stays EXCEPT ![id] = Plus(@, newly)] /\ ~Refuses(e, newly) /\ DOMAIN newly /= {}
  <2>1. old.body \in SomeColumns /\ old.seen \in SomeColumns /\ Lives(id)
    BY <1>2 DEF Job, Refuses
  <2> PICK before : before = stays[id] /\ before \in SomeColumns /\ Whole(before)
    BY <2>1 DEF StayInv, StayTypes, RowSound
  <2> PICK row : row = Plus(before, newly)
    OBVIOUS
  <2>2. EditedRow(before, old.body, old.seen, row)
    <3>1. HasRooms(old.seen) => HasRooms(before)
      BY <2>1 DEF JobSound
    <3>2. RoomColumns \cap DOMAIN newly /= {} /\ ~HasRooms(old.seen) => ~HasRooms(before)
      BY <1>2 DEF Refuses
    <3> QED
      BY <2>1, <3>1, <3>2, EditLeaves
  <2>3. stays'[id] = row /\ \A other \in StayIds \ {id} : stays'[other] = stays[other]
    BY <1>2 DEF StayInv, StayTypes
  <2>4. ASSUME NEW other \in deleted PROVE ~Lives(other)'
    <3>1. other /= id /\ other \in StayIds /\ ~Lives(other)
      BY <2>1 DEF StayInv, StayTypes, RowSound
    <3> QED
      BY <2>3, <3>1 DEF Lives
  <2>5. ASSUME NEW c \in DOMAIN row
        PROVE  \/ c \in DOMAIN before /\ row[c] = before[c]
               \/ c \notin DOMAIN before /\ row[c] = 0
               \/ c \in DOMAIN old.body /\ row[c] = old.body[c]
    BY <2>2 DEF EditedRow
  <2>6. ASSUME NEW other \in StayIds, NEW c \in DOMAIN stays'[other]
        PROVE  \/ c \in DOMAIN stays[other] /\ stays'[other][c] = stays[other][c]
               \/ c \notin DOMAIN stays[other] /\ stays'[other][c] = 0
               \/ /\ old.id = other /\ c \in DOMAIN old.body
                  /\ stays'[other][c] = old.body[c]
    BY <2>3, <2>5
  <2> QED
    BY <2>4, <2>6 DEF SentOnly
<1>3. CASE Refuses(e, newly)
  BY <1>1, <1>3 DEF Commit, Turns
<1>4. CASE ~Refuses(e, newly)
  <2>1. stays' = IF DOMAIN newly = {} THEN stays ELSE [stays EXCEPT ![id] = Plus(@, newly)]
    BY <1>4 DEF Commit
  <2> QED
    BY <1>1, <1>2, <1>4, <2>1
<1> QED
  BY <1>3, <1>4

LEMMA StepWritesSent ==
  ASSUME StayInv, [StayNext]_StayVars
  PROVE  SentOnly
<1>1. ASSUME UNCHANGED stays PROVE SentOnly
  BY <1>1 DEF SentOnly, StayInv, StayTypes, RowSound, Lives
<1>2. ASSUME NEW id \in StayIds, NEW row,
             stays' = [stays EXCEPT ![id] = row], row = Gone \/ (~Lives(id) /\ id \notin deleted)
      PROVE  SentOnly
  <2>1. stays'[id] = row /\ \A other \in StayIds \ {id} : stays'[other] = stays[other]
    BY <1>2 DEF StayInv, StayTypes
  <2>2. ASSUME NEW other \in deleted PROVE ~Lives(other)'
    <3>1. other \in StayIds /\ ~Lives(other)
      BY DEF StayInv, StayTypes, RowSound
    <3> QED
      BY <1>2, <2>1, <3>1 DEF Lives
  <2> QED
    BY <1>2, <2>1, <2>2 DEF SentOnly, Lives
<1>3. CASE StayNext
  <2>1. ASSUME NEW e \in Clients, NEW id \in StayIds, Create(e, id) PROVE SentOnly
    BY <1>2, <2>1 DEF Create
  <2>2. ASSUME NEW e \in Clients, NEW id \in StayIds, NEW b \in Bodies,
               StartsDelete(e, id) \/ Change(e, id, b)
        PROVE  SentOnly
    BY <1>1, <2>2 DEF StartsDelete, Change
  <2>3. ASSUME NEW e \in Clients, NEW id \in StayIds, StartsDelete(e, id) PROVE SentOnly
    BY <1>1, <2>3 DEF StartsDelete
  <2>4. ASSUME NEW e \in Clients, NEW s \in {PlaceColumns, RoomColumns}, Load(e, s) PROVE SentOnly
    BY <1>1, <2>4 DEF Load, Turns
  <2>5. ASSUME NEW e \in Clients, Commit(e) PROVE SentOnly
    BY <2>5, CommitWritesSent
  <2>6. ASSUME NEW e \in Clients, ReadsBack(e) \/ Unnamed(e) PROVE SentOnly
    BY <1>1, <2>6 DEF ReadsBack, Unnamed, Turns
  <2>7. ASSUME NEW e \in Clients, Deletes(e) PROVE SentOnly
    <3>1. jobs[e].id \in StayIds /\ stays' = [stays EXCEPT ![jobs[e].id] = Gone]
      BY <2>7 DEF Deletes, StayInv, JobSound
    <3> QED
      BY <1>2, <3>1
  <2>8. ASSUME NEW id \in StayIds, Restart(id) PROVE SentOnly
    BY <1>1, <1>2, <2>8 DEF Restart
  <2>9. ASSUME Rows \/ \E q \in Queries : Count(q) PROVE SentOnly
    BY <1>1, <2>9 DEF Rows, Count
  <2> QED
    BY <1>3, <2>1, <2>2, <2>3, <2>4, <2>5, <2>6, <2>7, <2>8, <2>9 DEF StayNext
<1>4. CASE UNCHANGED StayVars
  BY <1>1, <1>4 DEF StayVars
<1> QED
  BY <1>3, <1>4

\* Whatever requests overlap, a stored city lies in its country unless somebody named
\* the place by halves, an edit answers with all that it sent, and a search finds
\* exactly the rows that fit it, as many on a page as its total promises.
THEOREM StaysStayTrue == StayInit /\ [][StayNext]_StayVars => []StaysAreTrue
<1>1. StayInit => StayInv
  BY StayStart
<1>2. StayInv /\ [StayNext]_StayVars => StayInv'
  BY StayStep
<1>3. StayInv => StaysAreTrue
  BY StayInvTells
<1> QED
  BY <1>1, <1>2, <1>3, PTL

\* No step of any request changes a column that no edit of that row sent, and nothing
\* brings a deleted stay back.
THEOREM StaysChangeAsSent == StayInit /\ [][StayNext]_StayVars => OnlySentColumnsChange
<1>1. StayInit => StayInv
  BY StayStart
<1>2. StayInv /\ [StayNext]_StayVars => StayInv'
  BY StayStep
<1>3. StayInv /\ [StayNext]_StayVars => SentOnly
  BY StepWritesSent
<1>4. SentOnly <=>
        (/\ \A id \in deleted : ~Lives(id)'
         /\ \A id \in StayIds : Lives(id) /\ Lives(id)' =>
              \A c \in DOMAIN stays'[id] :
                \/ c \in DOMAIN stays[id] /\ stays'[id][c] = stays[id][c]
                \/ c \notin DOMAIN stays[id] /\ stays'[id][c] = 0
                \/ \E e \in Clients : /\ jobs[e].id = id /\ c \in DOMAIN jobs[e].body
                                      /\ stays'[id][c] = jobs[e].body[c])
  BY DEF SentOnly
<1> QED
  BY <1>1, <1>2, <1>3, <1>4, PTL DEF OnlySentColumnsChange

-----------------------------------------------------------------------------
(* TripCosts: for any listings, prices and weights, however often they change *)

Pin == [listing : Listings, weight : Nat, active : BOOLEAN]
Cost == [listing : Listings, amount : Nat]
PricingOf == {Pricing[k] : k \in Kinds}
Unpriced == {"idle", "expenses", "transport", "accommodation", "activities", "finish", "done",
             "ask", "analysed", "refused"}
SummaryType ==
  [at : Unpriced \cup PricingOf, own : BOOLEAN, actual : SUBSET {"own", "foreign"},
   got : [Kinds -> [status : {"unread", "unavailable", "available"}, counted : SUBSET Cost]],
   left : SUBSET Pin, counted : SUBSET Cost, tools : BOOLEAN, attempt : {0, 1, 2}]
History == [always : SUBSET Listings, ever : SUBSET Listings, priced : [Listings -> SUBSET Nat],
            weighed : [Listings -> SUBSET Nat], existed : BOOLEAN]

CostTypes ==
  /\ prices \in [Listings -> Nat]
  /\ DOMAIN pins \in SUBSET Listings /\ pins \in [DOMAIN pins -> Nat]
  /\ trip \in BOOLEAN /\ spent \in SUBSET {"own", "foreign"}
  /\ summary \in SummaryType /\ during \in History

\* What is true now was seen by the history of the reading.
NowSeen ==
  /\ \A l \in Listings : /\ prices[l] \in during.priced[l]
                         /\ l \in DOMAIN pins => pins[l] \in during.weighed[l]
                         /\ Active(l) => l \in during.ever
                         /\ l \in during.always => Active(l)
  /\ trip => during.existed

\* A cost that was on the trip, at a price and for as many as it was then.
TrueCost(seen, c) ==
  /\ c.listing \in seen.ever
  /\ \E p \in seen.priced[c.listing], w \in seen.weighed[c.listing] :
       p /= 0 /\ c.amount = IF c.listing \in Shared THEN p ELSE p * w
\* The costs of a kind, each listing once.
TrueCosts(seen, kind, costs) ==
  /\ \A c \in costs : KindOf[c.listing] = kind /\ TrueCost(seen, c)
  /\ \A c, d \in costs : c.listing = d.listing => c = d
\* Nothing of a kind that was on the trip all the while is missing.
AllOf(seen, kind, listings) == {l \in seen.always : KindOf[l] = kind} \subseteq listings

\* The pins that are still to be priced, as they were read.
TruePins(seen, kind, left, costs) ==
  /\ \A pin \in left : /\ KindOf[pin.listing] = kind /\ pin.weight \in seen.weighed[pin.listing]
                       /\ pin.active => pin.listing \in seen.ever
                       /\ \A c \in costs : c.listing /= pin.listing
  /\ \A pin, other \in left : pin.listing = other.listing => pin = other

Listed(costs) == {c.listing : c \in costs}
ActiveOf(left) == {pin.listing : pin \in {one \in left : one.active}}

\* An answer of a service that could tell, and the answer that is being worked out.
AnswerSound(s, seen) ==
  \A k \in Kinds : s.got[k].status = "available" =>
    /\ s.at /= "idle" /\ seen.existed /\ TrueCosts(seen, k, s.got[k].counted)
    /\ AllOf(seen, k, Listed(s.got[k].counted))
WorkSound(s, seen) ==
  /\ s.at \in Unpriced => s.left = {} /\ s.counted = {}
  /\ \A k \in Kinds : s.at = Pricing[k] =>
       /\ seen.existed /\ TrueCosts(seen, k, s.counted) /\ TruePins(seen, k, s.left, s.counted)
       /\ AllOf(seen, k, Listed(s.counted) \cup ActiveOf(s.left))
AnalysisSound(s) == s.at = "ask" => ~s.tools

CostInv == CostTypes /\ NowSeen /\ AnswerSound(summary, during) /\ WorkSound(summary, during)
           /\ AnalysisSound(summary)

\* What a history that only grows leaves true.
Later(seen, later) ==
  /\ later.always \subseteq seen.always /\ seen.ever \subseteq later.ever
  /\ \A l \in Listings : /\ seen.priced[l] \subseteq later.priced[l]
                         /\ seen.weighed[l] \subseteq later.weighed[l]
  /\ seen.existed => later.existed

LEMMA LaterSound ==
  ASSUME NEW s \in SummaryType, NEW seen \in History, NEW later \in History, Later(seen, later),
         AnswerSound(s, seen), WorkSound(s, seen)
  PROVE  AnswerSound(s, later) /\ WorkSound(s, later)
<1>1. ASSUME NEW k \in Kinds, NEW costs \in SUBSET Cost, TrueCosts(seen, k, costs)
      PROVE  TrueCosts(later, k, costs)
  <2>1. \A c \in costs : c.listing \in Listings
    BY DEF Cost
  <2>2. \A c \in costs : TrueCost(seen, c) => TrueCost(later, c)
    BY <2>1 DEF TrueCost, Later
  <2> QED
    BY <1>1, <2>2 DEF TrueCosts
<1>2. ASSUME NEW k \in Kinds, NEW listings, AllOf(seen, k, listings)
      PROVE  AllOf(later, k, listings)
  BY <1>2 DEF AllOf, Later
<1>3. ASSUME NEW k \in Kinds, TruePins(seen, k, s.left, s.counted)
      PROVE  TruePins(later, k, s.left, s.counted)
  <2>1. \A pin \in s.left : pin.listing \in Listings
    BY DEF SummaryType, Pin
  <2> QED
    BY <1>3, <2>1 DEF TruePins, Later
<1>4. s.counted \in SUBSET Cost /\ \A k \in Kinds : s.got[k].counted \in SUBSET Cost
  BY DEF SummaryType
<1>5. AnswerSound(s, later)
  BY <1>1, <1>2, <1>4 DEF AnswerSound, Later
<1>6. WorkSound(s, later)
  BY <1>1, <1>2, <1>3, <1>4 DEF WorkSound, Later
<1> QED
  BY <1>5, <1>6

LEMMA StepNames ==
  /\ \A k \in Kinds : Pricing[k] \notin Unpriced /\ k \in Unpriced /\ After[k] \in Unpriced
                      /\ k /= "idle" /\ k /= "ask" /\ After[k] /= "idle" /\ After[k] /= "ask"
  /\ \A j, k \in Kinds : Pricing[j] = Pricing[k] => j = k
BY DEF Kinds, Pricing, Unpriced, After

\* Somebody changes the trip, its pins, a listing or the expenses.
LEMMA ChangedHolds ==
  ASSUME CostInv, Watched, UNCHANGED summary, prices' \in [Listings -> Nat],
         DOMAIN pins' \in SUBSET Listings, pins' \in [DOMAIN pins' -> Nat],
         trip' \in BOOLEAN, spent' \in SUBSET {"own", "foreign"}
  PROVE  CostInv'
<1> PICK seen : seen = during /\ seen \in History
  BY DEF CostInv, CostTypes
<1> PICK later : later = during'
  OBVIOUS
<1>1. later = [always |-> seen.always \cap {l \in Listings : Active(l)'},
               ever |-> seen.ever \cup {l \in Listings : Active(l)'},
               priced |-> [l \in Listings |-> seen.priced[l] \cup {prices'[l]}],
               weighed |-> [l \in Listings |->
                 seen.weighed[l] \cup IF l \in DOMAIN pins' THEN {pins'[l]} ELSE {}],
               existed |-> seen.existed \/ trip']
  BY DEF Watched
<1>2. /\ later.always = seen.always \cap {l \in Listings : Active(l)'}
      /\ later.ever = seen.ever \cup {l \in Listings : Active(l)'}
      /\ later.priced = [l \in Listings |-> seen.priced[l] \cup {prices'[l]}]
      /\ later.weighed = [l \in Listings |->
                 seen.weighed[l] \cup IF l \in DOMAIN pins' THEN {pins'[l]} ELSE {}]
      /\ later.existed = (seen.existed \/ trip')
  BY <1>1
<1>3. later \in History
  <2>1. later.priced \in [Listings -> SUBSET Nat]
    BY <1>2 DEF History
  <2>2. later.weighed \in [Listings -> SUBSET Nat]
    BY <1>2 DEF History
  <2>3. later.always \in SUBSET Listings /\ later.ever \in SUBSET Listings /\ later.existed \in BOOLEAN
    BY <1>2 DEF History
  <2> QED
    BY <1>1, <2>1, <2>2, <2>3 DEF History
<1>4. Later(seen, later)
  BY <1>2 DEF Later
<1>5. NowSeen'
  BY <1>2 DEF NowSeen
<1>6. AnswerSound(summary, later) /\ WorkSound(summary, later)
  BY <1>3, <1>4, LaterSound DEF CostInv, CostTypes
<1>7. AnswerSound(summary, during)' /\ WorkSound(summary, during)' /\ AnalysisSound(summary)'
  BY <1>6 DEF AnswerSound, WorkSound, AnalysisSound, CostInv
<1>8. CostTypes'
  BY <1>3 DEF CostInv, CostTypes
<1> QED
  BY <1>5, <1>7, <1>8 DEF CostInv

\* The summary goes on, and nobody changes anything.
LEMMA GoesHolds ==
  ASSUME CostInv, NEW next \in SummaryType, Goes(next), UNCHANGED during,
         AnswerSound(next, during), WorkSound(next, during), AnalysisSound(next)
  PROVE  CostInv'
<1>1. summary' = next /\ UNCHANGED <<prices, pins, cancelled, trip, spent, during>>
  BY DEF Goes
<1>2. CostTypes'
  BY <1>1 DEF CostInv, CostTypes
<1>3. NowSeen'
  BY <1>1 DEF CostInv, NowSeen, Active
<1>4. AnswerSound(summary, during)' /\ WorkSound(summary, during)' /\ AnalysisSound(summary)'
  BY <1>1 DEF AnswerSound, WorkSound, AnalysisSound
<1> QED
  BY <1>2, <1>3, <1>4 DEF CostInv

\* A service has answered, or it could not tell.
LEMMA SettledHolds ==
  ASSUME CostInv, NEW k \in Kinds, summary.at \in {k, Pricing[k]},
         NEW result \in [status : {"unread", "unavailable", "available"}, counted : SUBSET Cost],
         result.status = "available" =>
           /\ during.existed /\ TrueCosts(during, k, result.counted)
           /\ AllOf(during, k, Listed(result.counted)),
         Goes(Settled(k, result)), UNCHANGED during
  PROVE  CostInv'
<1> PICK old : old = summary /\ old \in SummaryType
  BY DEF CostInv, CostTypes
<1> PICK next : next = [old EXCEPT !.at = After[k], !.got[k] = result, !.left = {}, !.counted = {}]
  OBVIOUS
<1>1. /\ next.at = After[k] /\ next.left = {} /\ next.counted = {}
      /\ next.got = [old.got EXCEPT ![k] = result]
  BY DEF SummaryType
<1>2. next \in SummaryType
  BY <1>1, StepNames DEF SummaryType
<1>3. AnswerSound(next, during)
  <2>1. \A j \in Kinds : next.got[j] = IF j = k THEN result ELSE old.got[j]
    BY <1>1 DEF SummaryType
  <2> QED
    BY <1>1, <2>1, StepNames DEF AnswerSound, CostInv
<1>4. WorkSound(next, during) /\ AnalysisSound(next)
  BY <1>1, StepNames DEF WorkSound, AnalysisSound
<1> QED
  BY <1>2, <1>3, <1>4, GoesHolds DEF Settled

LEMMA PinsHolds ==
  ASSUME CostInv, NEW l \in Listings, NEW w \in 1..MaxWeight, Pins(l, w)
  PROVE  CostInv'
<1>1. w \in Nat
  OBVIOUS
<1>2. pins' = [m \in DOMAIN pins \cup {l} |-> IF m = l THEN w ELSE pins[m]]
  BY DEF Pins
<1>3. DOMAIN pins' \in SUBSET Listings /\ pins' \in [DOMAIN pins' -> Nat]
  BY <1>1, <1>2 DEF CostInv, CostTypes
<1>4. Watched /\ UNCHANGED <<summary, prices, trip, spent>>
  BY DEF Pins, Changes
<1> QED
  BY <1>3, <1>4, ChangedHolds DEF CostInv, CostTypes

LEMMA OthersHold ==
  ASSUME CostInv,
         \/ \E l \in Listings : Unpins(l) \/ \E p \in 0..MaxPrice : Reprices(l, p)
         \/ DeletesTrip \/ \E c \in {"own", "foreign"} : Spends(c)
  PROVE  CostInv'
<1>1. ASSUME NEW l \in Listings, Unpins(l) PROVE CostInv'
  <2>1. pins' = [m \in DOMAIN pins \ {l} |-> pins[m]] /\ Watched
        /\ UNCHANGED <<summary, prices, trip, spent>>
    BY <1>1 DEF Unpins, Changes
  <2>2. DOMAIN pins' \in SUBSET Listings /\ pins' \in [DOMAIN pins' -> Nat]
    BY <2>1 DEF CostInv, CostTypes
  <2> QED
    BY <2>1, <2>2, ChangedHolds DEF CostInv, CostTypes
<1>2. ASSUME NEW l \in Listings, NEW p \in 0..MaxPrice, Reprices(l, p) PROVE CostInv'
  <2>1. prices' = [prices EXCEPT ![l] = p] /\ Watched /\ p \in Nat
        /\ UNCHANGED <<summary, pins, trip, spent>>
    BY <1>2 DEF Reprices, Changes
  <2>2. prices' \in [Listings -> Nat]
    BY <2>1 DEF CostInv, CostTypes
  <2> QED
    BY <2>1, <2>2, ChangedHolds DEF CostInv, CostTypes
<1>3. CASE DeletesTrip
  <2>1. pins' = [l \in {} |-> 1] /\ trip' = FALSE /\ Watched /\ UNCHANGED <<summary, prices, spent>>
    BY <1>3 DEF DeletesTrip, Changes
  <2>2. DOMAIN pins' \in SUBSET Listings /\ pins' \in [DOMAIN pins' -> Nat]
    BY <2>1
  <2> QED
    BY <2>1, <2>2, ChangedHolds DEF CostInv, CostTypes
<1>4. ASSUME NEW c \in {"own", "foreign"}, Spends(c) PROVE CostInv'
  <2>1. spent' = spent \cup {c} /\ Watched /\ UNCHANGED <<summary, prices, pins, trip>>
    BY <1>4 DEF Spends, Changes
  <2>2. spent' \in SUBSET {"own", "foreign"}
    BY <2>1 DEF CostInv, CostTypes
  <2> QED
    BY <2>1, <2>2, ChangedHolds DEF CostInv, CostTypes
<1> QED
  BY <1>1, <1>2, <1>3, <1>4

\* A summary begins, and looks only at what is true from then on.
LEMMA ReadBudgetHolds ==
  ASSUME CostInv, NEW own \in BOOLEAN, ReadBudget(own)
  PROVE  CostInv'
<1> PICK old : old = summary /\ old \in SummaryType /\ old.at = "idle"
  BY DEF CostInv, CostTypes, ReadBudget
<1> PICK next : next = [old EXCEPT !.at = "expenses", !.own = own]
  OBVIOUS
<1>1. /\ summary' = next /\ during' = Looking
      /\ UNCHANGED <<prices, pins, cancelled, trip, spent>>
  BY DEF ReadBudget, Goes
<1>2. /\ next \in SummaryType /\ next.at = "expenses" /\ next.got = old.got
      /\ next.left = old.left /\ next.counted = old.counted
  BY DEF SummaryType, Unpriced
<1>3. /\ Looking.always = {l \in Listings : Active(l)} /\ Looking.ever = {l \in Listings : Active(l)}
      /\ Looking.priced = [l \in Listings |-> {prices[l]}]
      /\ Looking.weighed = [l \in Listings |-> IF l \in DOMAIN pins THEN {pins[l]} ELSE {}]
      /\ Looking.existed = trip
  BY DEF Looking
<1>4. Looking \in History
  <2>1. Looking.priced \in [Listings -> SUBSET Nat] /\ Looking.weighed \in [Listings -> SUBSET Nat]
    BY <1>3 DEF CostInv, CostTypes
  <2>2. /\ Looking.always \in SUBSET Listings /\ Looking.ever \in SUBSET Listings
        /\ Looking.existed \in BOOLEAN
    BY <1>3 DEF CostInv, CostTypes
  <2> QED
    BY <2>1, <2>2 DEF Looking, History
<1>5. CostTypes'
  BY <1>1, <1>2, <1>4 DEF CostInv, CostTypes
<1>6. NowSeen'
  BY <1>1, <1>3 DEF NowSeen, Active
<1>7. \A k \in Kinds : next.got[k].status /= "available"
  BY <1>2 DEF CostInv, AnswerSound
<1>8. AnswerSound(summary, during)'
  BY <1>1, <1>7 DEF AnswerSound
<1>9. WorkSound(summary, during)'
  BY <1>1, <1>2, StepNames DEF WorkSound, CostInv, Unpriced
<1>10. AnalysisSound(summary)'
  BY <1>1, <1>2 DEF AnalysisSound
<1> QED
  BY <1>5, <1>6, <1>8, <1>9, <1>10 DEF CostInv

\* Steps that count nothing and settle nothing.
LEMMA PassingHolds ==
  ASSUME CostInv, ReadExpenses \/ Calculates
  PROVE  CostInv'
<1> PICK old : old = summary /\ old \in SummaryType /\ old.at \in {"expenses", "finish"}
  BY DEF CostInv, CostTypes, ReadExpenses, Calculates
<1>1. ASSUME NEW next \in SummaryType, Goes(next), UNCHANGED during,
             next.at \in {"transport", "done"}, next.got = old.got, next.left = old.left,
             next.counted = old.counted
      PROVE  CostInv'
  <2>1. AnswerSound(next, during) /\ AnalysisSound(next)
    BY <1>1 DEF AnswerSound, AnalysisSound, CostInv
  <2>2. WorkSound(next, during)
    BY <1>1, StepNames DEF WorkSound, CostInv, Unpriced
  <2> QED
    BY <1>1, <2>1, <2>2, GoesHolds
<1>2. CASE ReadExpenses
  <2> PICK next : next = [old EXCEPT !.at = "transport", !.actual = spent]
    OBVIOUS
  <2>1. /\ next \in SummaryType /\ next.at = "transport" /\ next.got = old.got
        /\ next.left = old.left /\ next.counted = old.counted
    BY DEF SummaryType, Unpriced, CostInv, CostTypes
  <2> QED
    BY <1>1, <1>2, <2>1 DEF ReadExpenses
<1>3. CASE Calculates
  <2> PICK next : next = [old EXCEPT !.at = "done"]
    OBVIOUS
  <2>1. /\ next \in SummaryType /\ next.at = "done" /\ next.got = old.got
        /\ next.left = old.left /\ next.counted = old.counted
    BY DEF SummaryType, Unpriced
  <2> QED
    BY <1>1, <1>3, <2>1 DEF Calculates
<1> QED
  BY <1>2, <1>3

LEMMA CannotTellHolds ==
  ASSUME CostInv, NEW k \in Kinds, CannotTell(k)
  PROVE  CostInv'
<1>1. Unavailable \in [status : {"unread", "unavailable", "available"}, counted : SUBSET Cost]
      /\ Unavailable.status = "unavailable"
  BY DEF Unavailable
<1> QED
  BY <1>1, SettledHolds DEF CannotTell

\* The pins as they are now.
PinsRead(kind) == {[listing |-> l, weight |-> pins[l], active |-> l \notin cancelled] :
                     l \in {m \in DOMAIN pins : KindOf[m] = kind}}

LEMMA PinsReadTrue ==
  ASSUME CostInv, NEW k \in Kinds
  PROVE  /\ PinsRead(k) \in SUBSET Pin /\ TruePins(during, k, PinsRead(k), {})
         /\ AllOf(during, k, ActiveOf(PinsRead(k)))
<1>1. ASSUME NEW pin \in PinsRead(k)
      PROVE  /\ pin \in Pin /\ KindOf[pin.listing] = k /\ pin.listing \in DOMAIN pins
             /\ pin = [listing |-> pin.listing, weight |-> pins[pin.listing],
                       active |-> pin.listing \notin cancelled]
  <2> PICK l \in {m \in DOMAIN pins : KindOf[m] = k} :
        pin = [listing |-> l, weight |-> pins[l], active |-> l \notin cancelled]
    BY DEF PinsRead
  <2>1. l \in Listings /\ pins[l] \in Nat
    BY DEF CostInv, CostTypes
  <2> QED
    BY <2>1 DEF Pin
<1>2. PinsRead(k) \in SUBSET Pin
  BY <1>1
<1>3. TruePins(during, k, PinsRead(k), {})
  <2>1. ASSUME NEW pin \in PinsRead(k)
        PROVE  /\ KindOf[pin.listing] = k /\ pin.weight \in during.weighed[pin.listing]
               /\ pin.active => pin.listing \in during.ever
    <3>1. pin.listing \in Listings /\ pin.weight = pins[pin.listing]
          /\ pin.active = (pin.listing \notin cancelled)
      BY <1>1 DEF Pin
    <3> QED
      BY <1>1, <3>1 DEF CostInv, NowSeen, Active
  <2>2. \A pin, other \in PinsRead(k) : pin.listing = other.listing => pin = other
    BY <1>1
  <2> QED
    BY <2>1, <2>2 DEF TruePins
<1>4. ASSUME NEW l \in during.always, KindOf[l] = k PROVE l \in ActiveOf(PinsRead(k))
  <2> PICK pin : pin = [listing |-> l, weight |-> pins[l], active |-> l \notin cancelled]
    OBVIOUS
  <2>1. l \in Listings /\ Active(l)
    BY DEF CostInv, CostTypes, History, NowSeen
  <2>2. pin \in PinsRead(k)
    BY <1>4, <2>1 DEF PinsRead, Active
  <2>3. pin.active /\ pin.listing = l
    BY <2>1 DEF Active
  <2> QED
    BY <2>2, <2>3 DEF ActiveOf
<1> QED
  BY <1>2, <1>3, <1>4 DEF AllOf

LEMMA ReadPinsHolds ==
  ASSUME CostInv, NEW k \in Kinds, ReadPins(k)
  PROVE  CostInv'
<1> PICK old : old = summary /\ old \in SummaryType /\ old.at = k
  BY DEF CostInv, CostTypes, ReadPins
<1> PICK next : next = [old EXCEPT !.at = Pricing[k], !.left = PinsRead(k)]
  OBVIOUS
<1>1. Goes(next) /\ trip /\ UNCHANGED during
  BY DEF ReadPins, PinsRead
<1>2. /\ next \in SummaryType /\ next.at = Pricing[k] /\ next.got = old.got
      /\ next.left = PinsRead(k) /\ next.counted = old.counted
  <2>1. PinsRead(k) \in SUBSET Pin /\ Pricing[k] \in PricingOf
    BY PinsReadTrue DEF PricingOf
  <2> QED
    BY <2>1 DEF SummaryType
<1>3. old.counted = {} /\ during.existed
  BY <1>1, StepNames DEF CostInv, WorkSound, NowSeen
<1>4. AnswerSound(next, during)
  BY <1>2, StepNames DEF AnswerSound, CostInv, Unpriced
<1>5. WorkSound(next, during)
  <2>1. TrueCosts(during, k, {}) /\ Listed({}) = {}
    BY DEF TrueCosts, Listed
  <2>2. \A j \in Kinds : next.at = Pricing[j] => j = k
    BY <1>2, StepNames
  <2>3. next.at \notin Unpriced
    BY <1>2, StepNames
  <2> QED
    BY <1>2, <1>3, <2>1, <2>2, <2>3, PinsReadTrue DEF WorkSound
<1>6. AnalysisSound(next)
  BY <1>2, StepNames DEF AnalysisSound, Unpriced
<1> QED
  BY <1>1, <1>2, <1>4, <1>5, <1>6, GoesHolds

LEMMA AddsHolds ==
  ASSUME CostInv, NEW k \in Kinds, Adds(k)
  PROVE  CostInv'
<1> PICK result : result = [status |-> IF summary.own THEN "available" ELSE "unavailable",
                            counted |-> summary.counted]
  OBVIOUS
<1>1. result \in [status : {"unread", "unavailable", "available"}, counted : SUBSET Cost]
      /\ result.counted = summary.counted
  BY DEF CostInv, CostTypes, SummaryType
<1>2. /\ during.existed /\ TrueCosts(during, k, summary.counted)
      /\ AllOf(during, k, Listed(summary.counted) \cup ActiveOf({}))
  BY DEF Adds, CostInv, WorkSound
<1>3. ActiveOf({}) = {}
  BY DEF ActiveOf
<1>4. AllOf(during, k, Listed(result.counted))
  BY <1>1, <1>2, <1>3
<1> QED
  BY <1>1, <1>2, <1>4, SettledHolds DEF Adds

\* What one pin adds is a price of its listing, for as many as it was read for.
LEMMA AmountTrue ==
  ASSUME CostInv, NEW k \in Kinds, NEW pin \in Pin, KindOf[pin.listing] = k,
         prices[pin.listing] /= 0
  PROVE  LET p == prices[pin.listing]
         IN  p \in Nat /\ Amount(k, pin) \in Nat
             /\ Amount(k, pin) = IF pin.listing \in Shared THEN p ELSE p * pin.weight
<1> PICK p : p = prices[pin.listing] /\ p \in Nat
  BY DEF CostInv, CostTypes, Pin
<1> PICK w : w = pin.weight /\ w \in Nat
  BY DEF Pin
<1>1. p * 1 = p /\ p * w \in Nat
  OBVIOUS
<1>2. k = "accommodation" => pin.listing \notin Shared
  BY CostAssumption
<1>3. Amount(k, pin) = IF pin.listing \in Shared THEN p ELSE p * w
  <2>1. CASE k = "transport"
    BY <1>1, <2>1 DEF Amount, TransportAmount
  <2>2. CASE k = "accommodation"
    BY <1>1, <1>2, <2>2 DEF Amount, StayAmount
  <2>3. CASE k = "activities"
    BY <1>1, <2>3 DEF Amount, ActivityAmount
  <2> QED
    BY <2>1, <2>2, <2>3 DEF Kinds
<1> QED
  BY <1>1, <1>3

LEMMA PriceOneHolds ==
  ASSUME CostInv, NEW k \in Kinds, NEW pin \in summary.left, PriceOne(k, pin)
  PROVE  CostInv'
<1> PICK old : old = summary /\ old \in SummaryType /\ old.at = Pricing[k]
  BY DEF CostInv, CostTypes, PriceOne
<1>1. /\ during.existed /\ TrueCosts(during, k, old.counted)
      /\ TruePins(during, k, old.left, old.counted)
      /\ AllOf(during, k, Listed(old.counted) \cup ActiveOf(old.left))
  BY DEF CostInv, WorkSound
<1>2. pin \in Pin /\ KindOf[pin.listing] = k /\ pin.listing \in Listings
  BY <1>1 DEF SummaryType, TruePins, Pin
<1>3. CASE prices[pin.listing] = 0
  <2>1. Unavailable \in [status : {"unread", "unavailable", "available"}, counted : SUBSET Cost]
        /\ Unavailable.status = "unavailable"
    BY DEF Unavailable
  <2> QED
    BY <1>3, <2>1, SettledHolds DEF PriceOne
<1>4. CASE prices[pin.listing] /= 0
  <2> PICK c : c = [listing |-> pin.listing, amount |-> Amount(k, pin)]
    OBVIOUS
  <2> PICK costs : costs = IF pin.active THEN old.counted \cup {c} ELSE old.counted
    OBVIOUS
  <2> PICK next : next = [old EXCEPT !.left = @ \ {pin}, !.counted = costs]
    OBVIOUS
  <2>1. Goes(next) /\ UNCHANGED during
    BY <1>4 DEF PriceOne
  <2>2. c \in Cost /\ c.listing = pin.listing /\ KindOf[c.listing] = k
    BY <1>2, <1>4, AmountTrue DEF Cost
  <2>3. /\ next \in SummaryType /\ next.at = old.at /\ next.got = old.got
        /\ next.left = old.left \ {pin} /\ next.counted = costs /\ next.tools = old.tools
    BY <2>2 DEF SummaryType
  <2>4. pin.active => TrueCost(during, c)
    <3>1. pin.active => pin.listing \in during.ever
      BY <1>1 DEF TruePins
    <3>2. pin.weight \in during.weighed[pin.listing] /\ prices[pin.listing] \in during.priced[pin.listing]
      BY <1>1, <1>2 DEF TruePins, CostInv, NowSeen
    <3>3. c.amount = IF pin.listing \in Shared THEN prices[pin.listing]
                     ELSE prices[pin.listing] * pin.weight
      BY <1>2, <1>4, AmountTrue
    <3> QED
      BY <1>4, <2>2, <3>1, <3>2, <3>3 DEF TrueCost
  <2>5. TrueCosts(during, k, costs)
    BY <1>1, <2>2, <2>4 DEF TrueCosts, TruePins
  <2>6. TruePins(during, k, old.left \ {pin}, costs)
    BY <1>1, <2>2 DEF TruePins
  <2>7. AllOf(during, k, Listed(costs) \cup ActiveOf(old.left \ {pin}))
    <3>1. ASSUME NEW l, l \in Listed(old.counted) \cup ActiveOf(old.left)
          PROVE  l \in Listed(costs) \cup ActiveOf(old.left \ {pin})
      BY <2>2, <3>1 DEF Listed, ActiveOf
    <3> QED
      BY <1>1, <3>1 DEF AllOf
  <2>8. AnswerSound(next, during) /\ AnalysisSound(next)
    BY <2>3 DEF AnswerSound, AnalysisSound, CostInv
  <2>9. WorkSound(next, during)
    <3>1. \A j \in Kinds : next.at = Pricing[j] => j = k
      BY <2>3, StepNames
    <3>2. next.at \notin Unpriced
      BY <2>3, StepNames
    <3> QED
      BY <1>1, <2>3, <2>5, <2>6, <2>7, <3>1, <3>2 DEF WorkSound
  <2> QED
    BY <2>1, <2>3, <2>8, <2>9, GoesHolds
<1> QED
  BY <1>3, <1>4

\* An answer with tools is the last one.
LEMMA AnsweredHolds ==
  ASSUME CostInv, NEW a, NEW t \in BOOLEAN, Answered(a, t)
  PROVE  CostInv'
<1> PICK old : old = summary /\ old \in SummaryType /\ old.at = "ask" /\ ~old.tools
  BY DEF CostInv, CostTypes, Answered, AnalysisSound
<1> PICK again : again = (a /= "grounded" /\ old.attempt = 1 /\ SecondAsk(a, t)) /\ again \in BOOLEAN
  OBVIOUS
<1> PICK then : then = CASE a = "grounded" -> "analysed"
                     [] a /= "grounded" /\ old.attempt = 1 /\ SecondAsk(a, t) -> "ask"
                     [] OTHER -> "refused"
  OBVIOUS
<1> PICK tried : tried = IF a /= "grounded" /\ old.attempt = 1 /\ SecondAsk(a, t) THEN 2 ELSE old.attempt
  OBVIOUS
<1> PICK next : next = [old EXCEPT !.tools = @ \/ t, !.at = then, !.attempt = tried]
  OBVIOUS
<1>1. then \in {"analysed", "refused", "ask"} /\ (then = "ask" => ~t) /\ tried \in {0, 1, 2}
  BY DEF SecondAsk, SummaryType
<1>2. /\ next \in SummaryType /\ next.at = then /\ next.got = old.got /\ next.left = old.left
      /\ next.counted = old.counted /\ next.tools = (old.tools \/ t)
  BY <1>1 DEF SummaryType, Unpriced
<1>3. Goes(next) /\ UNCHANGED during
  BY DEF Answered
<1>4. AnswerSound(next, during) /\ AnalysisSound(next)
  BY <1>1, <1>2 DEF AnswerSound, AnalysisSound, CostInv
<1>5. WorkSound(next, during)
  BY <1>1, <1>2, StepNames DEF WorkSound, CostInv, Unpriced
<1> QED
  BY <1>2, <1>3, <1>4, <1>5, GoesHolds

LEMMA CostStep ==
  ASSUME CostInv, [CostNext]_CostVars
  PROVE  CostInv'
<1>1. CASE CostNext
  <2>1. ASSUME NEW k \in Kinds, ReadPins(k) \/ Adds(k) \/ \E pin \in summary.left : PriceOne(k, pin)
        PROVE  CostInv'
    BY <2>1, ReadPinsHolds, AddsHolds, PriceOneHolds
  <2>2. CASE TransportUnavailable \/ StaysUnavailable \/ ActivitiesUnavailable
    BY <2>2, CannotTellHolds DEF TransportUnavailable, StaysUnavailable, ActivitiesUnavailable, Kinds
  <2>3. CASE ReadExpenses \/ Calculates \/ \E own \in BOOLEAN : ReadBudget(own)
    BY <2>3, PassingHolds, ReadBudgetHolds
  <2>4. ASSUME NEW l \in Listings, NEW w \in 1..MaxWeight, Pins(l, w) PROVE CostInv'
    BY <2>4, PinsHolds
  <2>5. ASSUME NEW a, NEW t \in BOOLEAN, Answered(a, t) PROVE CostInv'
    BY <2>5, AnsweredHolds
  <2> QED
    BY <1>1, <2>1, <2>2, <2>3, <2>4, <2>5, OthersHold DEF CostNext
<1>2. CASE UNCHANGED CostVars
  <2>1. CostTypes'
    BY <1>2 DEF CostInv, CostTypes, CostVars
  <2>2. NowSeen'
    BY <1>2 DEF CostInv, NowSeen, Active, CostVars
  <2>3. AnswerSound(summary, during)' /\ WorkSound(summary, during)' /\ AnalysisSound(summary)'
    BY <1>2 DEF CostInv, AnswerSound, WorkSound, AnalysisSound, CostVars
  <2> QED
    BY <2>1, <2>2, <2>3 DEF CostInv
<1> QED
  BY <1>1, <1>2

LEMMA CostStart ==
  ASSUME CostInit
  PROVE  CostInv
<1>1. \A k \in Kinds : Fresh.got[k].status = "unread"
  BY DEF Fresh, Unread
<1>2. /\ summary \in SummaryType /\ summary.got = Fresh.got
      /\ summary.left = {} /\ summary.counted = {} /\ ~summary.tools /\ summary.at \in {"idle", "ask"}
  <2>1. Unread \in [status : {"unread", "unavailable", "available"}, counted : SUBSET Cost]
    BY DEF Unread
  <2>2. [k \in Kinds |-> Unread] \in
          [Kinds -> [status : {"unread", "unavailable", "available"}, counted : SUBSET Cost]]
    BY <2>1
  <2>3. Fresh \in SummaryType /\ Fresh.at = "idle" /\ Fresh.left = {} /\ Fresh.counted = {} /\ ~Fresh.tools
    BY <2>2 DEF Fresh, SummaryType, Unpriced
  <2>4. /\ Analysing \in SummaryType /\ Analysing.at = "ask" /\ Analysing.got = Fresh.got
        /\ Analysing.left = {} /\ Analysing.counted = {} /\ ~Analysing.tools
    BY <2>3 DEF Analysing, SummaryType, Unpriced
  <2> QED
    BY <2>3, <2>4 DEF CostInit
<1>3. pins \in [DOMAIN pins -> Nat] /\ DOMAIN pins \in SUBSET Listings /\ prices \in [Listings -> Nat]
      /\ trip = TRUE /\ spent = {} /\ during = Looking
  <2>1. PICK held \in SUBSET Listings : pins \in [held -> {1}]
    BY DEF CostInit
  <2> QED
    BY <2>1 DEF CostInit
<1>4. /\ Looking.always = {l \in Listings : Active(l)} /\ Looking.ever = {l \in Listings : Active(l)}
      /\ Looking.priced = [l \in Listings |-> {prices[l]}]
      /\ Looking.weighed = [l \in Listings |-> IF l \in DOMAIN pins THEN {pins[l]} ELSE {}]
      /\ Looking.existed = trip
  BY DEF Looking
<1>5. Looking \in History
  <2>1. Looking.priced \in [Listings -> SUBSET Nat] /\ Looking.weighed \in [Listings -> SUBSET Nat]
    BY <1>3, <1>4
  <2>2. /\ Looking.always \in SUBSET Listings /\ Looking.ever \in SUBSET Listings
        /\ Looking.existed \in BOOLEAN
    BY <1>3, <1>4
  <2> QED
    BY <2>1, <2>2 DEF Looking, History
<1>6. CostTypes
  BY <1>2, <1>3, <1>5 DEF CostTypes
<1>7. NowSeen
  BY <1>3, <1>4 DEF NowSeen
<1>8. AnswerSound(summary, during)
  BY <1>1, <1>2 DEF AnswerSound
<1>9. WorkSound(summary, during) /\ AnalysisSound(summary)
  BY <1>2, StepNames DEF WorkSound, AnalysisSound, Unpriced
<1> QED
  BY <1>6, <1>7, <1>8, <1>9 DEF CostInv

\* The invariant at the end of a summary.
LEMMA CostInvTells ==
  ASSUME CostInv
  PROVE  SummaryIsTrue
<1>1. ASSUME NEW c \in Committed(summary)
      PROVE  \E k \in Kinds : /\ summary.got[k].status = "available" /\ c \in summary.got[k].counted
                              /\ TrueCosts(during, k, summary.got[k].counted)
  BY <1>1 DEF Committed, CostInv, AnswerSound
<1>2. CountedWasThere
  <2>1. ASSUME NEW c \in Committed(summary) PROVE TrueCost(during, c)
    BY <1>1 DEF TrueCosts
  <2>2. ASSUME NEW c \in Committed(summary), NEW d \in Committed(summary), d.listing = c.listing
        PROVE  d = c
    <3>1. PICK k \in Kinds : /\ c \in summary.got[k].counted
                             /\ TrueCosts(during, k, summary.got[k].counted)
      BY <1>1
    <3>2. PICK j \in Kinds : /\ d \in summary.got[j].counted
                             /\ TrueCosts(during, j, summary.got[j].counted)
      BY <1>1
    <3>3. j = k
      BY <2>2, <3>1, <3>2 DEF TrueCosts
    <3> QED
      BY <2>2, <3>1, <3>2, <3>3 DEF TrueCosts
  <2> QED
    BY <2>1, <2>2 DEF CountedWasThere, TrueCost
<1>3. CompleteMissesNothing
  <2> SUFFICES ASSUME Complete(summary)
               PROVE  during.existed /\ during.always \subseteq {c.listing : c \in Committed(summary)}
    BY DEF CompleteMissesNothing
  <2>1. \A k \in Kinds : /\ summary.got[k].status = "available" /\ during.existed
                         /\ AllOf(during, k, Listed(summary.got[k].counted))
    BY DEF Complete, CostInv, AnswerSound
  <2>2. ASSUME NEW l \in during.always PROVE l \in {c.listing : c \in Committed(summary)}
    <3>1. l \in Listings /\ KindOf[l] \in Kinds
      BY CostAssumption DEF CostInv, CostTypes, History
    <3>2. PICK c \in summary.got[KindOf[l]].counted : c.listing = l
      BY <2>1, <3>1 DEF AllOf, Listed
    <3>3. c \in Committed(summary)
      BY <2>1, <3>1, <3>2 DEF Committed
    <3> QED
      BY <3>2, <3>3
  <2>3. "transport" \in Kinds
    BY DEF Kinds
  <2> QED
    BY <2>1, <2>2, <2>3
<1>4. NoRetryAfterTools
  BY DEF CostInv, AnalysisSound, NoRetryAfterTools
<1> QED
  BY <1>2, <1>3, <1>4 DEF SummaryIsTrue

\* However trips, pins, prices and expenses change while a summary is made, what it counts
\* was on the trip, once and at a price it had; a summary that says it is complete
\* misses nothing that was there all the while; and an analysis is not asked for again
\* after tools ran.
THEOREM SummaryStaysTrue == CostInit /\ [][CostNext]_CostVars => []SummaryIsTrue
<1>1. CostInit => CostInv
  BY CostStart
<1>2. CostInv /\ [CostNext]_CostVars => CostInv'
  BY CostStep
<1>3. CostInv => SummaryIsTrue
  BY CostInvTells
<1> QED
  BY <1>1, <1>2, <1>3, PTL

-----------------------------------------------------------------------------
(* ActivityCatalogue: for any samples, bodies and number of requests       *)

\* Every row that nobody mixed can be read; an alias is a sample's; whoever has looked a
\* row up has looked at one that exists.
CatalogueInv ==
  /\ DOMAIN acts = ActivityIds /\ DOMAIN edits = Editors
  /\ aliases \in [ActivityIds -> ActivityIds]
  /\ written \in Nat \ {0} /\ gone \in SUBSET ActivityIds
  /\ \A e \in Editors : edits[e].at = "read" => edits[e].of \in ActivityIds
  /\ SoundUnlessMixed /\ DeletedStaysGone
  /\ \A id \in ActivityIds : aliases[id] = id \/ (aliases[id] \in Samples /\ id \notin Samples)
  /\ base = "up" => \A m \in Samples : m \notin gone => Stored(m)

LEMMA RowFacts ==
  ASSUME NEW b, IsBody(b), NEW w \in Nat \ {0}
  PROVE  /\ RowFrom(b, w) /= Missing /\ BodyOf(RowFrom(b, w)) = b /\ Readable(RowFrom(b, w))
<1> PICK row : row = RowFrom(b, w)
  OBVIOUS
<1>1. /\ row.name = b.name /\ row.price = b.price /\ row.lasts = b.lasts /\ row.least = b.least
      /\ row.most = b.most /\ row.active = b.active /\ row.cats = b.cats
      /\ row.slots = [s \in Slots |-> IF s \in b.slots THEN w ELSE 0]
      /\ "cats" \in DOMAIN row
  BY DEF RowFrom
<1>2. SlotsOf(row) = b.slots
  BY <1>1 DEF SlotsOf, IsBody
<1>3. row /= Missing
  BY <1>1 DEF Missing
<1>4. BodyOf(row) = b
  BY <1>1, <1>2 DEF BodyOf, IsBody, Body
<1>5. Readable(row)
  BY <1>1, <1>2 DEF Readable, IsBody
<1> QED
  BY <1>3, <1>4, <1>5

LEMMA MergedIsRow == \A now, saw, body, writer : Merged(now, saw, body, writer) /= Missing
<1> TAKE now, saw, body, writer
<1>1. "cats" \in DOMAIN Merged(now, saw, body, writer) /\ "cats" \notin DOMAIN Missing
  BY DEF Merged, Missing
<1> QED
  BY <1>1

\* A request that wrote what it read leaves exactly what it sent.
LEMMA MergedAlone ==
  ASSUME NEW saw, NEW b, IsBody(b), NEW w \in Nat \ {0}
  PROVE  Merged(saw, saw, b, w) = RowFrom(b, w)
<1>1. \A now, wanted : Column(now, now, wanted) = wanted
  BY DEF Column
<1>2. (saw.cats \ saw.cats) \cup b.cats = b.cats
  OBVIOUS
<1> QED
  BY <1>1, <1>2 DEF Merged, RowFrom

LEMMA CreateActivityHolds ==
  ASSUME CatalogueInv, NEW id \in ActivityIds, NEW body \in Payloads, CreateActivity(id, body)
  PROVE  CatalogueInv'
<1> PICK row : row = RowFrom(body, written + 1)
  OBVIOUS
<1>1. acts' = [acts EXCEPT ![id] = row] /\ written' = written + 1 /\ id \notin gone
      /\ UNCHANGED <<aliases, edits, gone, mixed, base>>
  BY DEF CreateActivity
<1>2. written + 1 \in Nat \ {0} /\ row /= Missing /\ Readable(row)
  BY RowFacts, CatalogueAssumption DEF CatalogueInv
<1>3. \A other \in ActivityIds : acts'[other] = IF other = id THEN row ELSE acts[other]
  BY <1>1 DEF CatalogueInv
<1>4. SoundUnlessMixed'
  BY <1>1, <1>2, <1>3 DEF CatalogueInv, SoundUnlessMixed, Stored
<1>5. DeletedStaysGone'
  BY <1>1, <1>3, <1>2 DEF CatalogueInv, DeletedStaysGone, Stored, ActivityIds
<1>6. base' = "up" => \A m \in Samples : m \notin gone' => Stored(m)'
  BY <1>1, <1>2, <1>3 DEF CatalogueInv, Stored, ActivityIds
<1> QED
  BY <1>1, <1>2, <1>4, <1>5, <1>6 DEF CatalogueInv

LEMMA LookUpHolds ==
  ASSUME CatalogueInv, NEW e \in Editors, NEW id \in ActivityIds, LookUp(e, id)
  PROVE  CatalogueInv'
<1>1. Resolved(id) \in ActivityIds
  BY DEF CatalogueInv, Resolved
<1>2. \A f \in Editors : edits'[f].at = "read" => edits'[f].of \in ActivityIds
  BY <1>1 DEF LookUp, CatalogueInv
<1>3. DOMAIN edits' = Editors /\ UNCHANGED <<acts, aliases, written, gone, mixed, base>>
  BY DEF LookUp, CatalogueInv
<1>4. SoundUnlessMixed' /\ DeletedStaysGone'
  BY <1>3 DEF CatalogueInv, SoundUnlessMixed, DeletedStaysGone, Stored
<1> QED
  BY <1>2, <1>3, <1>4 DEF CatalogueInv, Stored

LEMMA QuietFacts == Quiet.at /= "read"
BY DEF Quiet

LEMMA ReplaceHolds ==
  ASSUME CatalogueInv, NEW e \in Editors, NEW body \in Payloads, Replace(e, body)
  PROVE  CatalogueInv'
<1> PICK id : id = edits[e].of /\ id \in ActivityIds
  BY DEF Replace, CatalogueInv
<1> PICK saw : saw = edits[e].saw
  OBVIOUS
<1>1. /\ written' = written + 1 /\ written + 1 \in Nat \ {0} /\ UNCHANGED <<aliases, gone, base>>
      /\ edits' = [edits EXCEPT ![e] = Quiet]
  BY DEF Replace, CatalogueInv
<1>2. DOMAIN edits' = Editors /\ \A f \in Editors : edits'[f].at = "read" => edits'[f].of \in ActivityIds
  BY <1>1, QuietFacts DEF CatalogueInv
<1>3. CASE Refused(acts[id], saw, body)
  <2>1. UNCHANGED <<acts, mixed>>
    BY <1>3 DEF Replace
  <2>2. SoundUnlessMixed' /\ DeletedStaysGone'
    BY <1>1, <2>1 DEF CatalogueInv, SoundUnlessMixed, DeletedStaysGone, Stored
  <2> QED
    BY <1>1, <1>2, <2>1, <2>2 DEF CatalogueInv, Stored
<1>4. CASE ~Refused(acts[id], saw, body)
  <2> PICK row : row = Merged(acts[id], saw, body, written + 1)
    OBVIOUS
  <2>1. /\ acts' = [acts EXCEPT ![id] = row] /\ acts[id] /= Missing
        /\ mixed' = IF acts[id] = saw THEN mixed \ {id} ELSE mixed \cup {id}
    BY <1>4 DEF Replace, Refused
  <2>2. row /= Missing
    BY MergedIsRow
  <2>3. acts[id] = saw => Readable(row)
    BY <1>1, MergedAlone, RowFacts, CatalogueAssumption
  <2>4. DOMAIN acts' = ActivityIds
        /\ \A other \in ActivityIds : acts'[other] = IF other = id THEN row ELSE acts[other]
    BY <2>1 DEF CatalogueInv
  <2>5. SoundUnlessMixed'
    BY <2>1, <2>2, <2>3, <2>4 DEF CatalogueInv, SoundUnlessMixed, Stored
  <2>6. DeletedStaysGone'
    BY <1>1, <2>1, <2>2, <2>4 DEF CatalogueInv, DeletedStaysGone, Stored
  <2>7. base' = "up" => \A m \in Samples : m \notin gone' => Stored(m)'
    BY <1>1, <2>2, <2>4 DEF CatalogueInv, Stored, ActivityIds
  <2> QED
    BY <1>1, <1>2, <2>4, <2>5, <2>6, <2>7 DEF CatalogueInv
<1> QED
  BY <1>3, <1>4

LEMMA DeleteHolds ==
  ASSUME CatalogueInv, NEW e \in Editors, Delete(e)
  PROVE  CatalogueInv'
<1> PICK id : id = edits[e].of /\ id \in ActivityIds
  BY DEF Delete, CatalogueInv
<1>1. /\ written' = written + 1 /\ written + 1 \in Nat \ {0} /\ UNCHANGED <<aliases, mixed, base>>
      /\ edits' = [edits EXCEPT ![e] = Quiet] /\ gone' = gone \cup {id}
      /\ acts' = [acts EXCEPT ![id] = Missing]
  BY DEF Delete, CatalogueInv
<1>2. DOMAIN edits' = Editors /\ \A f \in Editors : edits'[f].at = "read" => edits'[f].of \in ActivityIds
  BY <1>1, QuietFacts DEF CatalogueInv
<1>3. DOMAIN acts' = ActivityIds
      /\ \A other \in ActivityIds : acts'[other] = IF other = id THEN Missing ELSE acts[other]
  BY <1>1 DEF CatalogueInv
<1>4. SoundUnlessMixed'
  BY <1>1, <1>3 DEF CatalogueInv, SoundUnlessMixed, Stored
<1>5. DeletedStaysGone'
  BY <1>1, <1>3 DEF CatalogueInv, DeletedStaysGone, Stored
<1>6. base' = "up" => \A m \in Samples : m \notin gone' => Stored(m)'
  BY <1>1, <1>3 DEF CatalogueInv, Stored, ActivityIds
<1> QED
  BY <1>1, <1>2, <1>3, <1>4, <1>5, <1>6 DEF CatalogueInv

LEMMA CrashBaseHolds ==
  ASSUME CatalogueInv, CrashBase
  PROVE  CatalogueInv'
<1>1. /\ base' = "down" /\ edits' = [e \in Editors |-> Quiet]
      /\ UNCHANGED <<acts, aliases, written, gone, mixed>>
  BY DEF CrashBase
<1>2. SoundUnlessMixed' /\ DeletedStaysGone'
  BY <1>1 DEF CatalogueInv, SoundUnlessMixed, DeletedStaysGone, Stored
<1> QED
  BY <1>1, <1>2, QuietFacts DEF CatalogueInv

LEMMA CohortIsSamples == Cohort \in SUBSET Samples
<1> PICK all : all = (\A m \in Samples : Cardinality(Copies(m)) = 1) /\ all \in BOOLEAN
  OBVIOUS
<1> PICK old : /\ old = (/\ \A m \in Historical : Cardinality(Copies(m)) = 1
                         /\ \A m \in Samples \ Historical : Copies(m) = {})
               /\ old \in BOOLEAN
  OBVIOUS
<1>1. Cohort = CASE all -> Samples [] old -> Historical [] OTHER -> {}
  BY DEF Cohort
<1>2. Cohort \in {Samples, Historical, {}}
  BY <1>1
<1> QED
  BY <1>2, CatalogueAssumption

\* Each row that the migration moves gets a sample's id as its alias.
LEMMA MovedTo ==
  ASSUME NEW id, NEW m \in Cohort, id \in Copies(m)
  PROVE  LET n == CHOOSE n \in Cohort : id \in Copies(n)
         IN  /\ n \in Cohort /\ n \in Samples /\ id \in Copies(n)
             /\ id \in ActivityIds /\ id \notin Samples
<1>1. \E n \in Cohort : id \in Copies(n)
  OBVIOUS
<1>2. id \in ActivityIds /\ id \notin Samples
  BY DEF Copies
<1> HIDE DEF Cohort, Copies
<1> QED
  BY <1>1, <1>2, CohortIsSamples

\* What a start leaves of the rows.
LEMMA MigrateLeaves ==
  ASSUME CatalogueInv, Migrate
  PROVE  /\ UNCHANGED <<edits, written, gone, mixed>> /\ base' /= "up"
         /\ \/ UNCHANGED <<acts, aliases>>
            \/ /\ DOMAIN acts' = ActivityIds /\ aliases' = AliasesAfter
               /\ \A id \in ActivityIds :
                    \/ acts'[id] = Missing /\ \E m \in Cohort : id \in Copies(m)
                    \/ /\ id \in Cohort /\ ~Stored(id) /\ acts'[id] = RowFrom(SamplePayload[id], 1)
                    \/ /\ acts'[id] = acts[id] /\ ~\E m \in Cohort : id \in Copies(m)
                       /\ id \in Cohort => Stored(id)
<1>1. CASE UNCHANGED <<acts, aliases>>
  BY <1>1 DEF Migrate
<1>2. CASE acts' = [id \in ActivityIds |->
               CASE \E m \in Cohort : id \in Copies(m) -> Missing
                 [] id \in Cohort /\ ~Stored(id) -> RowFrom(SamplePayload[id], 1)
                 [] OTHER -> acts[id]] /\ aliases' = AliasesAfter
  <2>1. \A m \in Cohort : Copies(m) \cap Cohort = {}
    BY CohortIsSamples DEF Copies
  <2>2. ASSUME NEW id \in ActivityIds
        PROVE  \/ acts'[id] = Missing /\ \E m \in Cohort : id \in Copies(m)
               \/ id \in Cohort /\ ~Stored(id) /\ acts'[id] = RowFrom(SamplePayload[id], 1)
               \/ /\ acts'[id] = acts[id] /\ ~\E m \in Cohort : id \in Copies(m)
                  /\ id \in Cohort => Stored(id)
    <3> PICK moved : moved = (\E m \in Cohort : id \in Copies(m)) /\ moved \in BOOLEAN
      OBVIOUS
    <3> PICK comes : comes = (id \in Cohort /\ ~Stored(id)) /\ comes \in BOOLEAN
      OBVIOUS
    <3>1. moved => ~comes
      BY <2>1
    <3>2. acts'[id] = CASE moved -> Missing [] comes -> RowFrom(SamplePayload[id], 1) [] OTHER -> acts[id]
      BY <1>2
    <3> QED
      BY <3>1, <3>2
  <2> QED
    BY <1>2, <2>2 DEF Migrate
<1> QED
  BY <1>1, <1>2 DEF Migrate

LEMMA AliasesKept ==
  ASSUME CatalogueInv
  PROVE  /\ AliasesAfter \in [ActivityIds -> ActivityIds]
         /\ \A id \in ActivityIds : AliasesAfter[id] = id \/ (AliasesAfter[id] \in Samples /\ id \notin Samples)
<1>1. ASSUME NEW id \in ActivityIds
      PROVE  /\ AliasesAfter[id] \in ActivityIds
             /\ AliasesAfter[id] = id \/ (AliasesAfter[id] \in Samples /\ id \notin Samples)
  <2>1. CASE \E m \in Cohort : id \in Copies(m)
    <3>1. AliasesAfter[id] \in Samples /\ id \notin Samples
      BY <2>1, MovedTo DEF AliasesAfter
    <3> QED
      BY <3>1 DEF ActivityIds
  <2>2. CASE ~\E m \in Cohort : id \in Copies(m)
    BY <2>2 DEF AliasesAfter, CatalogueInv
  <2> QED
    BY <2>1, <2>2
<1> QED
  BY <1>1 DEF AliasesAfter

LEMMA MigrateHolds ==
  ASSUME CatalogueInv, Migrate
  PROVE  CatalogueInv'
<1>1. UNCHANGED <<edits, written, gone, mixed>> /\ base' /= "up"
  BY MigrateLeaves
<1>2. CASE UNCHANGED <<acts, aliases>>
  <2>1. SoundUnlessMixed' /\ DeletedStaysGone'
    BY <1>1, <1>2 DEF CatalogueInv, SoundUnlessMixed, DeletedStaysGone, Stored
  <2> QED
    BY <1>1, <1>2, <2>1 DEF CatalogueInv
<1>3. CASE /\ DOMAIN acts' = ActivityIds /\ aliases' = AliasesAfter
           /\ \A id \in ActivityIds :
                \/ acts'[id] = Missing \/ acts'[id] = acts[id]
                \/ (id \in Cohort /\ acts'[id] = RowFrom(SamplePayload[id], 1))
  <2>1. \A m \in Samples : Readable(RowFrom(SamplePayload[m], 1))
    BY RowFacts, CatalogueAssumption
  <2>2. SoundUnlessMixed'
    BY <1>1, <1>3, <2>1, CohortIsSamples DEF CatalogueInv, SoundUnlessMixed, Stored
  <2>3. DeletedStaysGone'
    <3>1. ASSUME NEW id \in gone \ Samples, id \in ActivityIds PROVE ~Stored(id)'
      BY <1>3, <3>1, CohortIsSamples DEF CatalogueInv, DeletedStaysGone, Stored
    <3> QED
      BY <1>1, <3>1 DEF CatalogueInv, DeletedStaysGone
  <2> QED
    BY <1>1, <1>3, <2>2, <2>3, AliasesKept DEF CatalogueInv
<1>4. \/ UNCHANGED <<acts, aliases>>
      \/ /\ DOMAIN acts' = ActivityIds /\ aliases' = AliasesAfter
         /\ \A id \in ActivityIds :
                \/ acts'[id] = Missing \/ acts'[id] = acts[id]
                \/ (id \in Cohort /\ acts'[id] = RowFrom(SamplePayload[id], 1))
  <2>1. \/ UNCHANGED <<acts, aliases>>
        \/ /\ DOMAIN acts' = ActivityIds /\ aliases' = AliasesAfter
           /\ \A id \in ActivityIds :
                \/ acts'[id] = Missing /\ \E m \in Cohort : id \in Copies(m)
                \/ /\ id \in Cohort /\ ~Stored(id) /\ acts'[id] = RowFrom(SamplePayload[id], 1)
                \/ /\ acts'[id] = acts[id] /\ ~\E m \in Cohort : id \in Copies(m)
                   /\ id \in Cohort => Stored(id)
    BY MigrateLeaves, Zenon
  <2> QED
    BY <2>1
<1> QED
  BY <1>2, <1>3, <1>4

LEMMA SeedSamplesHolds ==
  ASSUME CatalogueInv, SeedSamples
  PROVE  CatalogueInv'
<1>1. /\ UNCHANGED <<aliases, edits, written, gone, mixed>> /\ DOMAIN acts' = ActivityIds
      /\ \A id \in ActivityIds : acts'[id] = IF id \in Samples /\ ~Stored(id)
                                             THEN RowFrom(SamplePayload[id], 1) ELSE acts[id]
  BY DEF SeedSamples
<1>2. \A m \in Samples : Readable(RowFrom(SamplePayload[m], 1)) /\ RowFrom(SamplePayload[m], 1) /= Missing
  BY RowFacts, CatalogueAssumption
<1>3. SoundUnlessMixed'
  BY <1>1, <1>2 DEF CatalogueInv, SoundUnlessMixed, Stored
<1>4. DeletedStaysGone'
  BY <1>1 DEF CatalogueInv, DeletedStaysGone, Stored
<1>5. \A m \in Samples : Stored(m)'
  BY <1>1, <1>2 DEF Stored, ActivityIds
<1> QED
  BY <1>1, <1>3, <1>4, <1>5 DEF CatalogueInv

LEMMA CatalogueStep ==
  ASSUME CatalogueInv, [CatalogueNext]_CatalogueVars
  PROVE  CatalogueInv'
<1>1. CASE CatalogueNext
  BY <1>1, CreateActivityHolds, LookUpHolds, ReplaceHolds, DeleteHolds, CrashBaseHolds,
     MigrateHolds, SeedSamplesHolds DEF CatalogueNext
<1>2. CASE UNCHANGED CatalogueVars
  <2>1. SoundUnlessMixed' /\ DeletedStaysGone'
    BY <1>2 DEF CatalogueInv, CatalogueVars, SoundUnlessMixed, DeletedStaysGone, Stored
  <2> QED
    BY <1>2, <2>1 DEF CatalogueInv, CatalogueVars, Stored
<1> QED
  BY <1>1, <1>2

LEMMA CatalogueStart ==
  ASSUME CatalogueInit
  PROVE  CatalogueInv
<1>1. PICK legacy \in SUBSET LegacyIds, copies \in [LegacyIds -> Samples] :
        acts = [id \in ActivityIds |->
                 IF id \in legacy THEN RowFrom(SamplePayload[copies[id]], 1) ELSE Missing]
  BY DEF CatalogueInit
<1>2. \A m \in Samples : Readable(RowFrom(SamplePayload[m], 1))
  BY RowFacts, CatalogueAssumption
<1>3. SoundUnlessMixed
  BY <1>1, <1>2 DEF SoundUnlessMixed, Stored
<1>4. DeletedStaysGone
  BY DEF CatalogueInit, DeletedStaysGone
<1> QED
  BY <1>1, <1>3, <1>4, QuietFacts DEF CatalogueInit, CatalogueInv

LEMMA CatalogueInvTells ==
  ASSUME CatalogueInv
  PROVE  CatalogueIsSound
<1>1. ASSUME base = "up", NEW id \in LegacyIds \cup Samples,
             (aliases[id] /= id \/ id \in Samples) /\ Resolved(id) \notin gone
      PROVE  Stored(Resolved(id))
  <2>1. id \in ActivityIds
    BY DEF ActivityIds
  <2>2. Resolved(id) \in Samples
    BY <1>1, <2>1 DEF CatalogueInv, Resolved
  <2> QED
    BY <1>1, <2>2 DEF CatalogueInv
<1>2. HandedOutIdsAnswer
  BY <1>1 DEF HandedOutIdsAnswer
<1> QED
  BY <1>2 DEF CatalogueInv, CatalogueIsSound

\* A row goes only by a deletion, or to its sample.
RowKept(id) ==
  Stored(id) /\ acts'[id] = Missing =>
    \/ id \in gone'
    \/ /\ aliases'[id] \in Samples
       /\ acts'[aliases'[id]] /= Missing
       /\ ~Stored(aliases'[id]) => BodyOf(acts'[aliases'[id]]) = BodyOf(acts[id])

LEMMA MigrateKeeps ==
  ASSUME CatalogueInv, Migrate, NEW id \in ActivityIds
  PROVE  RowKept(id)
<1> SUFFICES ASSUME Stored(id), acts'[id] = Missing
             PROVE  /\ aliases'[id] \in Samples
                    /\ acts'[aliases'[id]] /= Missing
                    /\ ~Stored(aliases'[id]) => BodyOf(acts'[aliases'[id]]) = BodyOf(acts[id])
  BY DEF RowKept
<1>1. /\ aliases' = AliasesAfter
      /\ \A other \in ActivityIds :
           \/ acts'[other] = Missing /\ \E m \in Cohort : other \in Copies(m)
           \/ /\ other \in Cohort /\ ~Stored(other) /\ acts'[other] = RowFrom(SamplePayload[other], 1)
           \/ /\ acts'[other] = acts[other] /\ ~\E m \in Cohort : other \in Copies(m)
              /\ other \in Cohort => Stored(other)
  <2>1. ~(UNCHANGED acts)
    BY DEF Stored
  <2> QED
    BY <2>1, MigrateLeaves
<1>2. \E m \in Cohort : id \in Copies(m)
  <2>1. \A m \in Samples : RowFrom(SamplePayload[m], 1) /= Missing
    BY RowFacts, CatalogueAssumption
  <2> QED
    BY <1>1, <2>1, CohortIsSamples DEF Stored
<1>3. PICK n : n = aliases'[id] /\ n \in Cohort /\ n \in Samples /\ id \in Copies(n)
  BY <1>1, <1>2, MovedTo DEF AliasesAfter
<1>4. n \in ActivityIds /\ ~\E m \in Cohort : n \in Copies(m)
  BY <1>3 DEF ActivityIds, Copies
<1>5. RowFrom(SamplePayload[n], 1) /= Missing /\ BodyOf(RowFrom(SamplePayload[n], 1)) = SamplePayload[n]
  BY <1>3, RowFacts, CatalogueAssumption
<1>6. BodyOf(acts[id]) = SamplePayload[n]
  BY <1>3 DEF Copies
<1>7. acts'[n] /= Missing /\ (~Stored(n) => acts'[n] = RowFrom(SamplePayload[n], 1))
  BY <1>1, <1>3, <1>4, <1>5 DEF Stored
<1> QED
  BY <1>3, <1>5, <1>6, <1>7

LEMMA StepKeepsRows ==
  ASSUME CatalogueInv, [CatalogueNext]_CatalogueVars, NEW id \in ActivityIds
  PROVE  RowKept(id)
<1>1. ASSUME UNCHANGED acts PROVE RowKept(id)
  BY <1>1 DEF RowKept, Stored
<1>2. ASSUME NEW other \in ActivityIds, NEW body \in Payloads, CreateActivity(other, body)
      PROVE  RowKept(id)
  <2>1. RowFrom(body, written + 1) /= Missing
    BY RowFacts, CatalogueAssumption DEF CatalogueInv
  <2> QED
    BY <1>2, <2>1 DEF CreateActivity, RowKept, Stored, CatalogueInv
<1>3. ASSUME NEW e \in Editors, NEW body \in Payloads, Replace(e, body)
      PROVE  RowKept(id)
  <2>1. UNCHANGED acts \/ \E other, row : row /= Missing /\ acts' = [acts EXCEPT ![other] = row]
    BY <1>3, MergedIsRow DEF Replace
  <2> QED
    BY <1>1, <2>1 DEF RowKept, Stored, CatalogueInv
<1>4. ASSUME NEW e \in Editors, Delete(e) PROVE RowKept(id)
  BY <1>4 DEF Delete, RowKept, Stored, CatalogueInv
<1>5. CASE SeedSamples
  <2>1. \A m \in Samples : RowFrom(SamplePayload[m], 1) /= Missing
    BY RowFacts, CatalogueAssumption
  <2> QED
    BY <1>5, <2>1 DEF SeedSamples, RowKept, Stored
<1>6. ASSUME NEW e \in Editors, NEW other \in ActivityIds, LookUp(e, other) PROVE RowKept(id)
  BY <1>1, <1>6 DEF LookUp
<1>7. CASE CrashBase
  BY <1>1, <1>7 DEF CrashBase
<1>8. CASE UNCHANGED CatalogueVars
  BY <1>1, <1>8 DEF CatalogueVars
<1> QED
  BY <1>2, <1>3, <1>4, <1>5, <1>6, <1>7, <1>8, MigrateKeeps DEF CatalogueNext

\* Over overlapping replaces, deletions, restarts and the migration of an older release:
\* what nobody mixed can be read back, ids that clients hold go on answering, and what
\* was deleted stays gone, unless it is a sample.
THEOREM CatalogueStaysSound == CatalogueInit /\ [][CatalogueNext]_CatalogueVars => []CatalogueIsSound
<1>1. CatalogueInit => CatalogueInv
  BY CatalogueStart
<1>2. CatalogueInv /\ [CatalogueNext]_CatalogueVars => CatalogueInv'
  BY CatalogueStep
<1>3. CatalogueInv => CatalogueIsSound
  BY CatalogueInvTells
<1> QED
  BY <1>1, <1>2, <1>3, PTL

\* No start and no request loses a row that nobody deleted: the migration only moves
\* one to a sample's id, where it answers with what it held.
THEOREM NoRowIsLost == CatalogueInit /\ [][CatalogueNext]_CatalogueVars => RowsAreKept
<1>1. CatalogueInit => CatalogueInv
  BY CatalogueStart
<1>2. CatalogueInv /\ [CatalogueNext]_CatalogueVars => CatalogueInv'
  BY CatalogueStep
<1>3. CatalogueInv /\ [CatalogueNext]_CatalogueVars => \A id \in ActivityIds : RowKept(id)
  BY StepKeepsRows
<1>4. (\A id \in ActivityIds : RowKept(id)) <=>
        \A id \in ActivityIds : Stored(id) /\ acts'[id] = Missing =>
          \/ id \in gone'
          \/ /\ aliases'[id] \in Samples
             /\ acts'[aliases'[id]] /= Missing
             /\ ~Stored(aliases'[id]) => BodyOf(acts'[aliases'[id]]) = BodyOf(acts[id])
  BY DEF RowKept
<1> QED
  BY <1>1, <1>2, <1>3, <1>4, PTL DEF RowsAreKept

-----------------------------------------------------------------------------
(* TripPicker: for any trips and details of pins, any number of requests    *)
(* and whatever others do meanwhile                                         *)

Pinnings == [AllTrips -> Details \cup {None}]
PickerTypes ==
  /\ trips \in SUBSET AllTrips /\ pinned \in Pinnings /\ moments \in SUBSET Pinnings
  /\ picker \in [kind: ListingKinds, at: {"idle", "reading", "rows", "shown", "failed"},
                 listed: SUBSET AllTrips, holders: SUBSET AllTrips,
                 left: SUBSET (AllTrips \cup {"list", "holders"}),
                 rows: Pinnings, wrote: SUBSET (AllTrips \X (Details \cup {None}))]

Reads == {"reading", "rows"}
\* Only trips that exist hold something, and what they hold now is remembered.
NowInv == /\ \A t \in AllTrips : pinned[t] /= None => t \in trips
          /\ picker.at \in Reads => pinned \in moments

\* Whoever was found to hold the listing did so at one moment; whoever was not found
\* did not at some moment; a row that was read was stored at some moment.
HoldersWere == \E p \in moments : \A t \in picker.holders : p[t] /= None
OthersWereNot == \A t \in AllTrips \ picker.holders : \E p \in moments : p[t] = None
RowsWere == \A t \in AllTrips : picker.rows[t] /= None => \E p \in moments : p[t] = picker.rows[t]
RowsRead == \A t \in picker.holders \ picker.left : \E p \in moments : p[t] = picker.rows[t]

ReadInv ==
  picker.at \in Reads \cup {"shown"} =>
    /\ HoldersWere /\ RowsWere
    /\ (picker.at = "reading" /\ "holders" \in picker.left) \/ OthersWereNot
    /\ picker.at /= "reading" /\ picker.kind = "transport" => RowsRead
    /\ picker.at = "shown" => picker.left = {}

PickerInv == PickerTypes /\ NowInv /\ ReadInv

-----------------------------------------------------------------------------
LEMMA PickerStart == PickerInit => PickerInv
BY DEF PickerInit, PickerInv, PickerTypes, NowInv, ReadInv, NoPicker, Pinnings, ListingKinds, None, Reads

\* A request begins with no knowledge but of what is stored now.
LEMMA ListBegins ==
  ASSUME PickerInv, NEW kind \in ListingKinds, NEW mine \in SUBSET (AllTrips \X (Details \cup {None})),
         pinned' \in Pinnings, \A t \in AllTrips : pinned'[t] /= None => t \in trips,
         picker' = Starts(kind, mine), moments' = {pinned'}, trips' = trips
  PROVE  PickerInv'
<1>1. /\ picker'.at = "reading" /\ picker'.holders = {} /\ picker'.left = {"list", "holders"}
      /\ picker'.rows = [t \in AllTrips |-> None] /\ picker'.kind = kind
  BY DEF Starts, NoPicker
<1>2. PickerTypes'
  BY DEF PickerInv, PickerTypes, Starts, NoPicker, Pinnings, ListingKinds, None
<1>3. NowInv' /\ ReadInv'
  BY <1>1 DEF NowInv, ReadInv, HoldersWere, OthersWereNot, RowsWere, RowsRead, Reads
<1> QED
  BY <1>2, <1>3 DEF PickerInv

\* Others leave what was read as true as it was.
LEMMA OthersPinHolds ==
  ASSUME PickerInv, NEW stored \in Pinnings, NEW now \in SUBSET AllTrips,
         \A t \in AllTrips : stored[t] /= None => t \in now, Others(stored, now)
  PROVE  PickerInv'
<1>1. /\ pinned' = stored /\ trips' = now /\ moments' = moments \cup {stored}
      /\ picker' = picker /\ picker.at \in Reads
  BY DEF Others, Reads
<1>2. PickerTypes'
  BY <1>1 DEF PickerInv, PickerTypes
<1>3. NowInv'
  BY <1>1 DEF NowInv
<1>4. ReadInv'
  BY <1>1 DEF PickerInv, ReadInv, HoldersWere, OthersWereNot, RowsWere, RowsRead
<1> QED
  BY <1>2, <1>3, <1>4 DEF PickerInv

\* A pin of a trip there is leaves only trips that exist with one.
LEMMA PinHolds ==
  ASSUME PickerInv, NEW t \in trips, NEW d \in Details \cup {None}
  PROVE  /\ [pinned EXCEPT ![t] = d] \in Pinnings
         /\ \A u \in AllTrips : [pinned EXCEPT ![t] = d][u] /= None => u \in trips
BY DEF PickerInv, PickerTypes, NowInv, Pinnings

LEMMA PickerStep == PickerInv /\ [PickerNext]_PickerVars => PickerInv'
<1> SUFFICES ASSUME PickerInv, [PickerNext]_PickerVars PROVE PickerInv'
  OBVIOUS
<1>1. CASE UNCHANGED PickerVars
  BY <1>1 DEF PickerVars, PickerInv, PickerTypes, NowInv, ReadInv, HoldersWere, OthersWereNot, RowsWere, RowsRead
<1>2. ASSUME NEW k \in ListingKinds, Opens(k) PROVE PickerInv'
  BY <1>2, ListBegins DEF Opens, PickerInv, PickerTypes, NowInv
<1>3. ASSUME NEW k \in ListingKinds, NEW t \in AllTrips, NEW d \in Details \cup {None}, Writes(k, t, d)
      PROVE  PickerInv'
  <2>1. /\ t \in trips /\ pinned' = [pinned EXCEPT ![t] = d] /\ picker' = Starts(k, {<<t, d>>})
        /\ moments' = {pinned'} /\ trips' = trips
    BY <1>3 DEF Writes
  <2>2. {<<t, d>>} \in SUBSET (AllTrips \X (Details \cup {None}))
    OBVIOUS
  <2> QED
    BY <2>1, <2>2, PinHolds, ListBegins
<1>4. ASSUME NEW k \in ListingKinds, NEW t \in AllTrips, NEW d \in Details \cup {None}, WriteFails(k, t, d)
      PROVE  PickerInv'
  <2>1. /\ \/ pinned' = pinned
           \/ (t \in trips /\ pinned' = [pinned EXCEPT ![t] = d])
        /\ picker' = [Starts(k, {}) EXCEPT !.at = "failed"]
        /\ moments' = {pinned'} /\ trips' = trips
    BY <1>4 DEF WriteFails
  <2>2. pinned' \in Pinnings /\ \A u \in AllTrips : pinned'[u] /= None => u \in trips
    BY <2>1, PinHolds DEF PickerInv, PickerTypes, NowInv
  <2>3. PickerTypes'
    BY <2>1, <2>2 DEF PickerInv, PickerTypes, Starts, NoPicker, Pinnings, ListingKinds, None
  <2>4. picker'.at = "failed"
    BY <2>1 DEF Starts, NoPicker
  <2> QED
    BY <2>1, <2>2, <2>3, <2>4 DEF PickerInv, NowInv, ReadInv, Reads
<1>5. CASE ReadsTrips
  <2>1. /\ picker' = [picker EXCEPT !.listed = trips, !.left = @ \ {"list"}] /\ picker.at = "reading"
        /\ UNCHANGED <<trips, pinned, moments>>
    BY <1>5 DEF ReadsTrips, PickerGoes
  <2>2. PickerTypes'
    BY <2>1 DEF PickerInv, PickerTypes
  <2>3. /\ picker'.at = "reading" /\ picker'.holders = picker.holders /\ picker'.rows = picker.rows
        /\ "holders" \in picker.left => "holders" \in picker'.left
    BY <2>1 DEF PickerInv, PickerTypes
  <2> QED
    BY <2>1, <2>2, <2>3 DEF PickerInv, NowInv, ReadInv, HoldersWere, OthersWereNot, RowsWere, Reads
<1>6. CASE ReadsHolders
  <2>1. /\ picker' = [picker EXCEPT !.holders = Holders, !.left = @ \ {"holders"}] /\ picker.at = "reading"
        /\ UNCHANGED <<trips, pinned, moments>>
    BY <1>6 DEF ReadsHolders, PickerGoes
  <2>2. PickerTypes'
    BY <2>1 DEF PickerInv, PickerTypes, Holders
  <2>3. picker'.at = "reading" /\ picker'.holders = Holders /\ picker'.rows = picker.rows
    BY <2>1 DEF PickerInv, PickerTypes
  <2>4. pinned \in moments /\ RowsWere
    BY <2>1 DEF PickerInv, NowInv, ReadInv, Reads
  <2>5. HoldersWere' /\ OthersWereNot' /\ RowsWere'
    BY <2>1, <2>3, <2>4 DEF HoldersWere, OthersWereNot, RowsWere, Holders, PickerInv, NowInv
  <2> QED
    BY <2>1, <2>2, <2>3, <2>5 DEF PickerInv, NowInv, ReadInv, Reads
<1>7. CASE AsksRows
  <2>1. /\ picker' = [picker EXCEPT !.at = "rows", !.left = picker.holders]
        /\ picker.at = "reading" /\ picker.left = {} /\ UNCHANGED <<trips, pinned, moments>>
    BY <1>7 DEF AsksRows, PickerGoes
  <2>2. PickerTypes'
    BY <2>1 DEF PickerInv, PickerTypes
  <2>3. /\ picker'.at = "rows" /\ picker'.holders = picker.holders /\ picker'.rows = picker.rows
        /\ picker'.left = picker.holders
    BY <2>1 DEF PickerInv, PickerTypes
  <2> QED
    BY <2>1, <2>2, <2>3 DEF PickerInv, NowInv, ReadInv, HoldersWere, OthersWereNot, RowsWere, RowsRead, Reads
<1>8. ASSUME NEW t \in AllTrips, ReadsRow(t) PROVE PickerInv'
  <2>1. /\ picker' = [picker EXCEPT !.rows[t] = pinned[t], !.left = @ \ {t}]
        /\ picker.at = "rows" /\ UNCHANGED <<trips, pinned, moments>>
    BY <1>8 DEF ReadsRow, PickerGoes
  <2>2. PickerTypes'
    BY <2>1 DEF PickerInv, PickerTypes, Pinnings
  <2>3. /\ picker'.at = "rows" /\ picker'.holders = picker.holders /\ picker'.kind = picker.kind
        /\ picker'.rows = [picker.rows EXCEPT ![t] = pinned[t]] /\ picker'.left = picker.left \ {t}
    BY <2>1 DEF PickerInv, PickerTypes
  <2>4. /\ pinned \in moments /\ HoldersWere /\ OthersWereNot /\ RowsWere
        /\ picker.kind = "transport" => RowsRead
    BY <2>1 DEF PickerInv, NowInv, ReadInv, Reads
  <2>5. RowsWere' /\ (picker.kind = "transport" => RowsRead')
    BY <2>1, <2>3, <2>4 DEF RowsWere, RowsRead, PickerInv, PickerTypes, Pinnings
  <2> QED
    BY <2>1, <2>2, <2>3, <2>4, <2>5 DEF PickerInv, NowInv, ReadInv, HoldersWere, OthersWereNot, Reads
<1>9. CASE LookupFails
  <2>1. CASE picker.at = "rows" /\ picker.kind = "stay" /\ \E t \in picker.left : PickerGoes([picker EXCEPT !.left = @ \ {t}])
    <3>1. PICK t \in picker.left : picker' = [picker EXCEPT !.left = @ \ {t}]
      BY <2>1 DEF PickerGoes
    <3>2. UNCHANGED <<trips, pinned, moments>>
      BY <2>1 DEF PickerGoes
    <3>3. PickerTypes'
      BY <3>1, <3>2 DEF PickerInv, PickerTypes
    <3>4. /\ picker'.at = "rows" /\ picker'.holders = picker.holders /\ picker'.rows = picker.rows
          /\ picker'.kind = "stay"
      BY <2>1, <3>1 DEF PickerInv, PickerTypes
    <3> QED
      BY <2>1, <3>2, <3>3, <3>4 DEF PickerInv, NowInv, ReadInv, HoldersWere, OthersWereNot, RowsWere, Reads
  <2>2. CASE PickerGoes([picker EXCEPT !.at = "failed"])
    <3>1. PickerTypes' /\ picker'.at = "failed" /\ UNCHANGED <<trips, pinned, moments>>
      BY <2>2 DEF PickerGoes, PickerInv, PickerTypes
    <3> QED
      BY <3>1 DEF PickerInv, NowInv, ReadInv, Reads
  <2> QED
    BY <1>9, <2>1, <2>2 DEF LookupFails
<1>10. CASE ShowsList
  <2>1. /\ picker' = [picker EXCEPT !.at = "shown"] /\ picker.at = "rows" /\ picker.left = {}
        /\ UNCHANGED <<trips, pinned, moments>>
    BY <1>10 DEF ShowsList, PickerGoes
  <2>2. PickerTypes'
    BY <2>1 DEF PickerInv, PickerTypes
  <2>3. /\ picker'.at = "shown" /\ picker'.holders = picker.holders /\ picker'.rows = picker.rows
        /\ picker'.left = {} /\ picker'.kind = picker.kind
    BY <2>1 DEF PickerInv, PickerTypes
  <2> QED
    BY <2>1, <2>2, <2>3 DEF PickerInv, NowInv, ReadInv, HoldersWere, OthersWereNot, RowsWere, RowsRead, Reads
<1>11. ASSUME NEW t \in AllTrips, NEW d \in Details \cup {None}, OthersPin(t, d) PROVE PickerInv'
  <2>1. t \in trips /\ Others([pinned EXCEPT ![t] = d], trips)
    BY <1>11 DEF OthersPin
  <2> QED
    BY <2>1, PinHolds, OthersPinHolds DEF PickerInv, PickerTypes
<1>12. ASSUME NEW t \in AllTrips, TripGoes(t) PROVE PickerInv'
  <2>1. t \in trips /\ Others([pinned EXCEPT ![t] = None], trips \ {t})
    BY <1>12 DEF TripGoes
  <2>2. /\ [pinned EXCEPT ![t] = None] \in Pinnings
        /\ \A u \in AllTrips : [pinned EXCEPT ![t] = None][u] /= None => u \in trips \ {t}
    BY <2>1 DEF PickerInv, PickerTypes, NowInv, Pinnings
  <2> QED
    BY <2>1, <2>2, OthersPinHolds DEF PickerInv, PickerTypes
<1>13. ASSUME NEW t \in AllTrips, TripComes(t) PROVE PickerInv'
  BY <1>13, OthersPinHolds DEF TripComes, PickerInv, PickerTypes, NowInv
<1> QED
  BY <1>1, <1>2, <1>3, <1>4, <1>5, <1>6, <1>7, <1>8, <1>9, <1>10, <1>11, <1>12, <1>13 DEF PickerNext

LEMMA PickerHolds == PickerSpec => []PickerInv
BY PickerStart, PickerStep, PTL DEF PickerSpec

-----------------------------------------------------------------------------

\* Every tick, every missing tick and every date beside one was so at some moment of
\* the request, for each kind of listing and whoever else works on the trips.
THEOREM TicksAreTrue == PickerSpec => []PickerShowsTruth
<1>1. PickerInv => PickerShowsTruth
  <2> SUFFICES ASSUME PickerInv, picker.at = "shown", NEW t \in picker.listed
               PROVE  /\ t \in Ticked => /\ \E p \in moments : p[t] /= None
                                         /\ picker.rows[t] /= None => \E p \in moments : p[t] = picker.rows[t]
                      /\ t \notin Ticked => \E p \in moments : p[t] = None
    BY DEF PickerShowsTruth
  <2>1. HoldersWere /\ OthersWereNot /\ RowsWere /\ (picker.kind = "transport" => RowsRead) /\ picker.left = {}
    BY DEF PickerInv, ReadInv, Reads
  <2>2. t \in AllTrips
    BY DEF PickerInv, PickerTypes
  <2> QED
    BY <2>1, <2>2 DEF Ticked, HoldersWere, OthersWereNot, RowsWere, RowsRead
<1> QED
  BY PickerHolds, <1>1, PTL

\* All ticks of one list were true together.
THEOREM TicksAreOfOneMoment == PickerSpec => []TickedTogether
<1>1. PickerInv => TickedTogether
  BY DEF PickerInv, ReadInv, Reads, TickedTogether, Ticked, HoldersWere
<1> QED
  BY PickerHolds, <1>1, PTL

\* The list that answers a tick or an untick shows it, unless somebody undid it.
THEOREM WritesAreShown == PickerSpec => []OwnWriteShows
<1>1. PickerInv => OwnWriteShows
  <2> SUFFICES ASSUME PickerInv, picker.at = "shown", NEW w \in picker.wrote, w[1] \in picker.listed,
                      \A p \in moments : p[w[1]] = w[2]
               PROVE  (w[1] \in Ticked <=> w[2] /= None) /\ picker.rows[w[1]] \in {w[2], None}
    BY DEF OwnWriteShows
  <2>1. HoldersWere /\ OthersWereNot /\ RowsWere /\ (picker.kind = "transport" => RowsRead) /\ picker.left = {}
    BY DEF PickerInv, ReadInv, Reads
  <2>2. w[1] \in AllTrips
    BY DEF PickerInv, PickerTypes
  <2> QED
    BY <2>1, <2>2 DEF Ticked, HoldersWere, OthersWereNot, RowsWere, RowsRead
<1> QED
  BY PickerHolds, <1>1, PTL

\* A tick-list is as true as reads of its own, one after the other, can make it.
THEOREM ListsAreTrue == PickerSpec => []PickerIsTrue
BY TicksAreTrue, TicksAreOfOneMoment, WritesAreShown, PTL DEF PickerIsTrue

-----------------------------------------------------------------------------
(* AgenticLoop: the items of a plan, and what holds of every run            *)

ItemKinds == {"loop", "ready", "check", "nfr", "step", "rule", "probe", "read", "latency", "repeat",
          "compare", "error", "case", "run", "file", "list", "gh", "selection"}
Words == ItemKinds \cup {"nothing", "first", "second", "a", "b", "id", "pre", "post", "files", "health",
                    "selected", "export", "report", "status", "smoke", "security", "off",
                    "identity", "profile", "workflow", "hook"}
Owners == Nat \X Words
AnyItem == [kind : ItemKinds, name : Owners, gate : Owners, whenShut : {"drop", "skip"},
            needs : SUBSET Owners, saves : SUBSET Owners, of : Nat]
LoopRow == [item : AnyItem, out : {"OK", "SKIP", "NOTE", "FAIL"}, answer : {"right", "wrong", "unsaved", "absent", "gone", "unasked"}]
Decisions == {"none", "Accept", "Partially Accept", "Reject", "Deferred"}
Releases == {"none", "PENDING", "READY", "NOT READY"}
LoopRecord ==
  [mode : Modes, interactive : BOOLEAN, left : Seq(AnyItem), rows : Seq(LoopRow),
   saved : SUBSET Owners, failures : Nat, at : {"act", "decide", "done", "crashed"},
   decision : Decisions, release : Releases, exit : {0, 1}]

InList(s) == {s[i] : i \in DOMAIN s}
Plan == PlanOf(loop.mode)
Passed == Len(Plan) - Len(loop.left)
Selection == Lone("selection", Place("selection"))

\* What never goes unanswered for want of a tool or of a finished run.
AlwaysAnswered(item) == "absent" \notin WorldAnswers(item)

\* Each item comes after the one that gates it and the ones that save what it needs.
LinkedAfter(plan, before) ==
  \A p \in DOMAIN plan :
    /\ plan[p].gate \in {Ungated} \cup before
         \/ \E q \in 1..(p - 1) : plan[q].name = plan[p].gate /\ AlwaysAnswered(plan[q])
    /\ \A v \in plan[p].needs : \E q \in 1..(p - 1) : v \in plan[q].saves /\ AlwaysAnswered(plan[q])

\* Plans in which an item may be passed over.
Linked == {"services", "mcp", "cloud"}
PlanFits(mode, plan) ==
  /\ plan \in Seq(AnyItem)
  /\ mode \in Linked => LinkedAfter(plan, {})
  /\ mode /= "mcp" => \A x \in InList(plan) : x.needs /= {} =>
       /\ x.whenShut = "skip" /\ x.gate /= Ungated
       /\ \A y \in InList(plan) : x.gate = y.name => x.needs \subseteq y.needs \cup y.saves
  /\ mode \notin Linked => \A x \in InList(plan) : x.whenShut = "drop"
  /\ mode = "mcp" => \A x \in InList(plan) : /\ x.kind = "read" => x.of \in InList(Registry)
                                             /\ x.whenShut = "drop"
  /\ mode = "cloud" => \A x \in InList(plan) : x.of = 0

\* What is reported above: a failure, or a service that was not started.
Cause == \E j \in DOMAIN loop.rows : \/ loop.rows[j].out = "FAIL"
                                     \/ loop.rows[j].item.of \in InList(Registry) \ ValidatedOnes

PlanInv ==
  /\ Len(loop.left) <= Len(Plan)
  /\ \A k \in DOMAIN loop.left : loop.left[k] = Plan[Passed + k]
RowInv ==
  \A i \in DOMAIN loop.rows : LET row == loop.rows[i] IN
    /\ row.item \in InList(Plan) \/ (row.item = Selection /\ loop.at \in {"decide", "done"})
    /\ row.answer \in (WorldAnswers(row.item) \ {"raises"}) \cup {"unasked"}
    /\ row.out = IF row.answer = "unasked" THEN "SKIP" ELSE Outcome(row.item, row.answer)
SavedInv ==
  \A v \in Owners : v \in loop.saved <=>
    \E i \in DOMAIN loop.rows : loop.rows[i].answer = "right" /\ v \in loop.rows[i].item.saves
\* Every item that was passed has its row, or the reason why not has one.
PassedInv ==
  loop.mode \in Linked =>
    \A p \in 1..Passed : Cause \/ \E i \in DOMAIN loop.rows : loop.rows[i].item = Plan[p]
EndInv ==
  /\ loop.at \in {"decide", "done"} => loop.left = <<>>
  /\ loop.at \in {"decide", "done"} /\ loop.failures = 0 =>
       \A i \in DOMAIN loop.rows : loop.rows[i].out /= "FAIL"
  /\ loop.at = "done" /\ loop.exit = 0 => loop.failures = 0
  /\ loop.release = "READY" => /\ loop.at = "done" /\ loop.mode = "cloud"
                               /\ loop.decision = "Accept" /\ loop.failures = 0
LoopInv == /\ loop \in LoopRecord /\ PlanInv /\ RowInv /\ SavedInv /\ NothingUnfilled
           /\ SkipsHaveCause /\ PassedInv /\ EndInv

-----------------------------------------------------------------------------
(* Plans put one after another                                              *)

\* The plans up to the n-th, one after another.
UpToRule(plans, f, n) ==
  f = [k \in 0..n |-> IF k = 0 THEN <<>> ELSE f[k - 1] \o plans[k]]

LEMMA UpToExists ==
  ASSUME NEW plans, NEW n \in Nat
  PROVE  \E f : UpToRule(plans, f, n)
<1> DEFINE T == {m \in Nat : \E f : UpToRule(plans, f, m)}
<1>1. 0 \in T
  <2>1. UpToRule(plans, [k \in 0..0 |-> <<>>], 0)
    BY DEF UpToRule
  <2> QED
    BY <2>1
<1>2. ASSUME NEW m \in T PROVE m + 1 \in T
  <2>1. PICK f : UpToRule(plans, f, m)
    OBVIOUS
  <2> DEFINE g == [k \in 0..(m + 1) |-> IF k <= m THEN f[k] ELSE f[m] \o plans[m + 1]]
  <2>2. m \in Nat /\ 0 \in 0..(m + 1) /\ g[0] = <<>>
    BY <2>1 DEF UpToRule
  <2>3. ASSUME NEW k \in 1..(m + 1) PROVE g[k] = g[k - 1] \o plans[k]
    <3>1. CASE k = m + 1
      BY <2>2, <3>1
    <3>2. CASE k # m + 1
      <4>1. k <= m /\ k \in 0..m /\ k # 0 /\ k - 1 <= m /\ k - 1 \in 0..(m + 1) /\ k \in 0..(m + 1)
        BY <2>2, <3>2
      <4>2. f[k] = f[k - 1] \o plans[k]
        BY <2>1, <4>1 DEF UpToRule
      <4> QED
        BY <4>1, <4>2
    <3> QED
      BY <3>1, <3>2
  <2>4. \A k \in 0..(m + 1) : g[k] = IF k = 0 THEN <<>> ELSE g[k - 1] \o plans[k]
    <3> HIDE DEF g
    <3>1. \A k \in 0..(m + 1) : k = 0 \/ k \in 1..(m + 1)
      BY <2>2
    <3> QED
      BY <2>2, <2>3, <3>1
  <2>5. UpToRule(plans, g, m + 1)
    <3>1. g = [k \in 0..(m + 1) |-> g[k]]
      OBVIOUS
    <3> HIDE DEF g
    <3> QED
      BY <2>4, <3>1 DEF UpToRule
  <2> QED
    BY <2>2, <2>5
<1> QED
  BY <1>1, <1>2, Induction

LEMMA EachOfClosed ==
  ASSUME NEW Q, <<>> \in Q, \A a, b \in Q : a \o b \in Q, NEW plans \in Seq(Q)
  PROVE  EachOf(plans) \in Q
<1> DEFINE N == Len(plans)
           f == CHOOSE upTo : UpToRule(plans, upTo, N)
           T == {n \in Nat : n <= N => f[n] \in Q}
<1>1. N \in Nat /\ \A k \in 1..N : plans[k] \in Q
  OBVIOUS
<1>2. EachOf(plans) = f[N]
  BY DEF EachOf, UpToRule
<1>3. UpToRule(plans, f, N)
  BY <1>1, UpToExists
<1> HIDE DEF N, f
<1>4. \A k \in 0..N : f[k] = IF k = 0 THEN <<>> ELSE f[k - 1] \o plans[k]
  BY <1>3 DEF UpToRule
<1>5. 0 \in T
  BY <1>1, <1>4
<1>6. ASSUME NEW n \in T PROVE n + 1 \in T
  BY <1>1, <1>4
<1>7. N \in T
  BY <1>1, <1>5, <1>6, Induction
<1> QED
  BY <1>1, <1>2, <1>7

\* What holds of each item by itself, it holds of the plans one after another.
LEMMA EachOfListed ==
  ASSUME NEW S, NEW plans \in Seq(Seq(S))
  PROVE  EachOf(plans) \in Seq(S)
<1> DEFINE Q == Seq(S)
<1>1. <<>> \in Q /\ \A a, b \in Q : a \o b \in Q
  OBVIOUS
<1> HIDE DEF Q
<1>2. plans \in Seq(Q)
  BY DEF Q
<1> QED
  BY <1>1, <1>2, EachOfClosed DEF Q

LEMMA JoinedLinked ==
  ASSUME NEW before, NEW a \in Seq(AnyItem), NEW b \in Seq(AnyItem),
         LinkedAfter(a, before), LinkedAfter(b, before)
  PROVE  a \o b \in Seq(AnyItem) /\ LinkedAfter(a \o b, before)
<1> DEFINE c == a \o b
           m == Len(a)
<1>1. /\ c \in Seq(AnyItem) /\ m \in Nat /\ Len(b) \in Nat /\ Len(c) = m + Len(b)
      /\ \A p \in 1..m : c[p] = a[p]
      /\ \A p \in 1..Len(b) : c[m + p] = b[p]
  OBVIOUS
<1> HIDE DEF c, m
<1>2. ASSUME NEW p \in DOMAIN c
      PROVE  /\ c[p].gate \in {Ungated} \cup before
                  \/ \E q \in 1..(p - 1) : c[q].name = c[p].gate /\ AlwaysAnswered(c[q])
             /\ \A v \in c[p].needs : \E q \in 1..(p - 1) : v \in c[q].saves /\ AlwaysAnswered(c[q])
  <2>1. CASE p <= m
    <3>1. p \in 1..m /\ p \in DOMAIN a /\ c[p] = a[p] /\ \A q \in 1..(p - 1) : c[q] = a[q]
      BY <1>1, <2>1 DEF m
    <3> QED
      BY <3>1 DEF LinkedAfter
  <2>2. CASE p > m
    <3> DEFINE r == p - m
    <3>1. r \in 1..Len(b) /\ r \in DOMAIN b /\ c[p] = b[r]
      BY <1>1, <2>2
    <3>2. ASSUME NEW q \in 1..(r - 1) PROVE m + q \in 1..(p - 1) /\ c[m + q] = b[q]
      <4>1. m + q \in 1..(p - 1) /\ q \in 1..Len(b)
        BY <1>1, <2>2, <3>1
      <4> QED
        BY <1>1, <4>1
    <3> HIDE DEF r
    <3>3. /\ b[r].gate \in {Ungated} \cup before
               \/ \E q \in 1..(r - 1) : b[q].name = b[r].gate /\ AlwaysAnswered(b[q])
          /\ \A v \in b[r].needs : \E q \in 1..(r - 1) : v \in b[q].saves /\ AlwaysAnswered(b[q])
      BY <3>1 DEF LinkedAfter
    <3> QED
      BY <3>1, <3>2, <3>3
  <2>3. p \in Nat
    BY <1>1
  <2> QED
    BY <1>1, <2>1, <2>2, <2>3
<1>3. LinkedAfter(c, before)
  BY <1>2 DEF LinkedAfter
<1> QED
  BY <1>1, <1>3 DEF c

LEMMA EachOfLinked ==
  ASSUME NEW before, NEW plans \in Seq(Seq(AnyItem)),
         \A i \in DOMAIN plans : LinkedAfter(plans[i], before)
  PROVE  LinkedAfter(EachOf(plans), before)
<1> DEFINE Q == {q \in Seq(AnyItem) : LinkedAfter(q, before)}
<1>1. <<>> \in Q
  BY DEF LinkedAfter
<1>2. \A a, b \in Q : a \o b \in Q
  BY JoinedLinked
<1>3. plans \in Seq(Q)
  <2>1. \A i \in 1..Len(plans) : plans[i] \in Q
    OBVIOUS
  <2> HIDE DEF Q
  <2> QED
    BY <2>1
<1> HIDE DEF Q
<1>4. EachOf(plans) \in Q
  BY <1>1, <1>2, <1>3, EachOfClosed
<1> QED
  BY <1>4 DEF Q

LEMMA HeadLinked ==
  ASSUME NEW x \in AnyItem, NEW q \in Seq(AnyItem), x.gate = Ungated, x.needs = {}, AlwaysAnswered(x),
         LinkedAfter(q, {x.name})
  PROVE  <<x>> \o q \in Seq(AnyItem) /\ LinkedAfter(<<x>> \o q, {})
<1> DEFINE c == <<x>> \o q
<1>1. /\ c \in Seq(AnyItem) /\ Len(c) = Len(q) + 1 /\ Len(q) \in Nat /\ c[1] = x
      /\ \A p \in 1..Len(q) : c[p + 1] = q[p]
  OBVIOUS
<1> HIDE DEF c
<1>2. ASSUME NEW p \in DOMAIN c
      PROVE  /\ c[p].gate \in {Ungated} \cup {}
                  \/ \E r \in 1..(p - 1) : c[r].name = c[p].gate /\ AlwaysAnswered(c[r])
             /\ \A v \in c[p].needs : \E r \in 1..(p - 1) : v \in c[r].saves /\ AlwaysAnswered(c[r])
  <2>1. CASE p = 1
    BY <1>1, <2>1
  <2>2. CASE p # 1
    <3> DEFINE k == p - 1
    <3>1. k \in 1..Len(q) /\ k \in DOMAIN q /\ c[p] = q[k] /\ 1 \in 1..(p - 1)
      BY <1>1, <2>2
    <3>2. \A r \in 1..(k - 1) : r + 1 \in 1..(p - 1) /\ c[r + 1] = q[r]
      BY <1>1, <2>2, <3>1
    <3> HIDE DEF k
    <3>3. /\ q[k].gate \in {Ungated} \cup {x.name}
               \/ \E r \in 1..(k - 1) : q[r].name = q[k].gate /\ AlwaysAnswered(q[r])
          /\ \A v \in q[k].needs : \E r \in 1..(k - 1) : v \in q[r].saves /\ AlwaysAnswered(q[r])
      BY <3>1 DEF LinkedAfter
    <3>4. c[p].gate \in {Ungated} \cup {} \/ \E r \in 1..(p - 1) : c[r].name = c[p].gate /\ AlwaysAnswered(c[r])
      <4>1. CASE q[k].gate = x.name
        BY <1>1, <3>1, <4>1
      <4>2. CASE q[k].gate = Ungated
        BY <3>1, <4>2
      <4>3. CASE \E r \in 1..(k - 1) : q[r].name = q[k].gate /\ AlwaysAnswered(q[r])
        BY <3>1, <3>2, <4>3
      <4> QED
        BY <3>3, <4>1, <4>2, <4>3
    <3>5. \A v \in c[p].needs : \E r \in 1..(p - 1) : v \in c[r].saves /\ AlwaysAnswered(c[r])
      BY <3>1, <3>2, <3>3
    <3> QED
      BY <3>4, <3>5
  <2> QED
    BY <2>1, <2>2
<1>3. LinkedAfter(c, {})
  BY <1>2 DEF LinkedAfter
<1> QED
  BY <1>1, <1>3 DEF c

-----------------------------------------------------------------------------
(* The plans of the modes                                                   *)

LEMMA ItemFacts ==
  \A kind \in ItemKinds, name \in Owners, gate \in Owners, whenShut \in {"drop", "skip"},
     needs \in SUBSET Owners, saves \in SUBSET Owners, of \in Nat :
       LET x == Item(kind, name, gate, whenShut, needs, saves, of) IN
       /\ x \in AnyItem /\ x.kind = kind /\ x.name = name /\ x.gate = gate /\ x.whenShut = whenShut
       /\ x.needs = needs /\ x.saves = saves /\ x.of = of
BY DEF Item, AnyItem

LEMMA NameFacts ==
  /\ Ungated \in Owners
  /\ \A x \in Words : Place(x) \in Owners /\ Place(x)[1] = 0
  /\ \A s \in Nat, x \in Words : <<s, x>> \in Owners
  /\ {} \in SUBSET Owners
<1>1. \A s \in Nat, x \in Words : <<s, x>> \in Owners
  BY DEF Owners
<1>2. 0 \in Nat /\ "nothing" \in Words
  BY DEF Words
<1>3. Ungated \in Owners
  BY <1>1, <1>2 DEF Ungated
<1>4. \A x \in Words : Place(x) \in Owners /\ Place(x)[1] = 0
  BY <1>1, <1>2 DEF Place
<1> QED
  BY <1>1, <1>3, <1>4

LEMMA GatedFacts ==
  ASSUME NEW kind \in ItemKinds, NEW name \in Owners, NEW gate \in Owners
  PROVE  LET x == Gated(kind, name, gate) IN
         /\ x \in AnyItem /\ x.kind = kind /\ x.name = name /\ x.gate = gate /\ x.whenShut = "drop"
         /\ x.needs = {} /\ x.saves = {} /\ x.of = 0
BY ItemFacts, NameFacts DEF Gated

LEMMA LoneFacts ==
  ASSUME NEW kind \in ItemKinds, NEW name \in Owners
  PROVE  LET x == Lone(kind, name) IN
         /\ x \in AnyItem /\ x.kind = kind /\ x.name = name /\ x.gate = Ungated /\ x.whenShut = "drop"
         /\ x.needs = {} /\ x.saves = {} /\ x.of = 0
BY ItemFacts, NameFacts DEF Lone

\* Only these four kinds may find nothing to judge.
LEMMA AnswersFacts ==
  ASSUME NEW x, x.kind \notin {"loop", "gh", "run", "selection"}
  PROVE  AlwaysAnswered(x)
BY DEF AlwaysAnswered, WorldAnswers

\* The words that plans are written in.
LEMMA KindFacts ==
  "loop" \in ItemKinds /\ "ready" \in ItemKinds /\ "check" \in ItemKinds /\ "nfr" \in ItemKinds /\
  "step" \in ItemKinds /\ "rule" \in ItemKinds /\ "probe" \in ItemKinds /\ "read" \in ItemKinds /\
  "latency" \in ItemKinds /\ "repeat" \in ItemKinds /\ "compare" \in ItemKinds /\ "error" \in ItemKinds /\
  "case" \in ItemKinds /\ "run" \in ItemKinds /\ "file" \in ItemKinds /\ "list" \in ItemKinds /\
  "gh" \in ItemKinds /\ "selection" \in ItemKinds
BY DEF ItemKinds

LEMMA OwnerFacts ==
  ASSUME NEW s \in Nat
  PROVE  <<s, "loop">> \in Owners /\ <<s, "ready">> \in Owners /\
         <<s, "check">> \in Owners /\ <<s, "nfr">> \in Owners /\
         <<s, "first">> \in Owners /\ <<s, "second">> \in Owners /\
         <<s, "rule">> \in Owners /\ <<s, "a">> \in Owners /\ <<s, "b">> \in Owners /\
         <<s, "probe">> \in Owners /\ <<s, "read">> \in Owners /\
         <<s, "latency">> \in Owners /\ <<s, "repeat">> \in Owners /\
         <<s, "compare">> \in Owners /\ <<s, "error">> \in Owners /\
         <<s, "id">> \in Owners /\ <<s, "case">> \in Owners /\ <<s, "run">> \in Owners /\
         <<s, "pre">> \in Owners /\ <<s, "post">> \in Owners
<1>1. \A x \in {"loop", "ready", "check", "nfr", "first", "second", "rule", "a", "b", "probe", "read", "latency", "repeat", "compare", "error", "id", "case", "run", "pre", "post"} : x \in Words
  BY DEF Words, ItemKinds
<1>2. \A x \in Words : <<s, x>> \in Owners
  BY DEF Owners
<1> QED
  BY <1>1, <1>2

LEMMA ServiceItems ==
  ASSUME NEW s \in Nat \ {0}
  PROVE  /\ ServicePlan(s) \in Seq(AnyItem)
         /\ LinkedAfter(ServicePlan(s), {})
         /\ \A x \in InList(ServicePlan(s)) : x.name[1] = s
         /\ \A x \in InList(ServicePlan(s)) : x.needs /= {} =>
              /\ x.whenShut = "skip" /\ x.gate[1] = s
              /\ \A y \in InList(ServicePlan(s)) : x.gate = y.name => x.needs \subseteq y.needs \cup y.saves
<1>1. CASE s \notin ValidatedOnes
  <2> DEFINE x == Item("loop", <<s, "loop">>, Ungated, "drop", {}, {}, s)
  <2>1. x \in AnyItem /\ x.gate = Ungated /\ x.needs = {} /\ x.name = <<s, "loop">>
    <3>1. /\ <<s, "loop">> \in Owners /\ Ungated \in Owners /\ "loop" \in ItemKinds /\ s \in Nat
          /\ {} \in SUBSET Owners /\ "drop" \in {"drop", "skip"}
      BY NameFacts, KindFacts, OwnerFacts
    <3> QED
      BY <3>1, ItemFacts
  <2>2. ServicePlan(s) = <<x>>
    BY <1>1 DEF ServicePlan
  <2> HIDE DEF x
  <2> QED
    BY <2>1, <2>2 DEF LinkedAfter, InList
<1>2. CASE s \in ValidatedOnes
  <2> DEFINE ready == Lone("ready", <<s, "ready">>)
             check == Gated("check", <<s, "check">>, <<s, "ready">>)
             nfr == Gated("nfr", <<s, "nfr">>, <<s, "check">>)
             first == FlowStep(s, 1, {}, {<<s, "a">>})
             second == FlowStep(s, 2, {<<s, "a">>}, {<<s, "b">>})
             rule == Item("rule", <<s, "rule">>, <<s, "second">>, "skip", {<<s, "a">>, <<s, "b">>}, {}, s)
  <2>1. /\ <<s, "ready">> \in Owners /\ <<s, "check">> \in Owners /\ <<s, "nfr">> \in Owners
        /\ <<s, "first">> \in Owners /\ <<s, "second">> \in Owners /\ <<s, "rule">> \in Owners
        /\ <<s, "a">> \in Owners /\ <<s, "b">> \in Owners /\ Ungated \in Owners
        /\ "ready" \in ItemKinds /\ "check" \in ItemKinds /\ "nfr" \in ItemKinds /\ "step" \in ItemKinds
        /\ "rule" \in ItemKinds
    BY NameFacts, OwnerFacts, KindFacts
  <2>2. /\ ready \in AnyItem /\ ready.name = <<s, "ready">> /\ ready.gate = Ungated
        /\ ready.needs = {} /\ AlwaysAnswered(ready)
    <3>1. ready.kind = "ready" /\ ready.name = <<s, "ready">> /\ ready.gate = Ungated /\ ready.needs = {}
      BY DEF Lone, Item
    <3>2. ready \in AnyItem
      BY <2>1, LoneFacts
    <3> QED
      BY <3>1, <3>2, AnswersFacts
  <2>3. /\ check \in AnyItem /\ check.name = <<s, "check">> /\ check.gate = <<s, "ready">>
        /\ check.needs = {} /\ AlwaysAnswered(check)
    <3>1. /\ check.kind = "check" /\ check.name = <<s, "check">> /\ check.gate = <<s, "ready">>
          /\ check.needs = {}
      BY DEF Gated, Item
    <3>2. check \in AnyItem
      BY <2>1, GatedFacts
    <3> QED
      BY <3>1, <3>2, AnswersFacts
  <2>4. /\ nfr \in AnyItem /\ nfr.name = <<s, "nfr">> /\ nfr.gate = <<s, "check">> /\ nfr.needs = {}
    <3>1. nfr.name = <<s, "nfr">> /\ nfr.gate = <<s, "check">> /\ nfr.needs = {}
      BY DEF Gated, Item
    <3>2. nfr \in AnyItem
      BY <2>1, GatedFacts
    <3> QED
      BY <3>1, <3>2
  <2>5. /\ first \in AnyItem /\ first.name = <<s, "first">> /\ first.gate = <<s, "ready">>
        /\ first.needs = {} /\ first.saves = {<<s, "a">>} /\ AlwaysAnswered(first)
    <3>1. first = Item("step", <<s, "first">>, <<s, "ready">>, "drop", {}, {<<s, "a">>}, s)
      BY DEF FlowStep, StepName
    <3>2. {<<s, "a">>} \in SUBSET Owners /\ {} \in SUBSET Owners /\ s \in Nat /\ "drop" \in {"drop", "skip"}
      BY <2>1
    <3>3. first \in AnyItem
      BY <2>1, <3>1, <3>2, ItemFacts
    <3>4. /\ first.name = <<s, "first">> /\ first.gate = <<s, "ready">>
          /\ first.needs = {} /\ first.saves = {<<s, "a">>} /\ first.kind = "step"
      BY <3>1 DEF Item
    <3> QED
      BY <3>3, <3>4, AnswersFacts
  <2>6. /\ second \in AnyItem /\ second.name = <<s, "second">> /\ second.gate = <<s, "first">>
        /\ second.needs = {<<s, "a">>} /\ second.saves = {<<s, "b">>} /\ AlwaysAnswered(second)
        /\ second.whenShut = "skip"
    <3>1. second = Item("step", <<s, "second">>, <<s, "first">>, "skip", {<<s, "a">>}, {<<s, "b">>}, s)
      BY DEF FlowStep, StepName
    <3>2. /\ {<<s, "a">>} \in SUBSET Owners /\ {<<s, "b">>} \in SUBSET Owners /\ s \in Nat
          /\ "skip" \in {"drop", "skip"}
      BY <2>1
    <3>3. second \in AnyItem
      BY <2>1, <3>1, <3>2, ItemFacts
    <3> HIDE DEF second
    <3>4. /\ second.name = <<s, "second">> /\ second.gate = <<s, "first">> /\ second.kind = "step"
          /\ second.whenShut = "skip"
      BY <3>1 DEF Item
    <3>5. second.needs = {<<s, "a">>} /\ second.saves = {<<s, "b">>}
      BY <3>1, Zenon DEF Item
    <3> QED
      BY <3>3, <3>4, <3>5, AnswersFacts
  <2>7. /\ rule \in AnyItem /\ rule.name = <<s, "rule">> /\ rule.gate = <<s, "second">>
        /\ rule.needs = {<<s, "a">>, <<s, "b">>} /\ rule.whenShut = "skip"
    <3>1. /\ {<<s, "a">>, <<s, "b">>} \in SUBSET Owners /\ {} \in SUBSET Owners /\ s \in Nat
          /\ "skip" \in {"drop", "skip"}
      BY <2>1
    <3>2. rule \in AnyItem
      BY <2>1, <3>1, ItemFacts
    <3> QED
      BY <3>2 DEF Item
  <2>8. ServicePlan(s) = <<ready, check, nfr, first, second, rule>>
    BY <1>2 DEF ServicePlan
  <2> HIDE DEF ready, check, nfr, first, second, rule
  <2> DEFINE plan == <<ready, check, nfr, first, second, rule>>
  <2>9. /\ plan \in Seq(AnyItem) /\ DOMAIN plan = 1..6
        /\ plan[1] = ready /\ plan[2] = check /\ plan[3] = nfr /\ plan[4] = first
        /\ plan[5] = second /\ plan[6] = rule
    BY <2>2, <2>3, <2>4, <2>5, <2>6, <2>7
  <2> HIDE DEF plan
  <2>10. LinkedAfter(plan, {})
    <3> SUFFICES ASSUME NEW p \in 1..6
                 PROVE  /\ plan[p].gate = Ungated
                             \/ \E q \in 1..(p - 1) : plan[q].name = plan[p].gate /\ AlwaysAnswered(plan[q])
                        /\ \A v \in plan[p].needs : \E q \in 1..(p - 1) : v \in plan[q].saves /\ AlwaysAnswered(plan[q])
      BY <2>9 DEF LinkedAfter
    <3>1. p = 1 \/ p = 2 \/ p = 3 \/ p = 4 \/ p = 5 \/ p = 6
      OBVIOUS
    <3>2. CASE p = 1
      BY <2>2, <2>9, <3>2
    <3>3. CASE p = 2
      BY <2>2, <2>3, <2>9, <3>3
    <3>4. CASE p = 3
      BY <2>3, <2>4, <2>9, <3>4
    <3>5. CASE p = 4
      BY <2>2, <2>5, <2>9, <3>5
    <3>6. CASE p = 5
      BY <2>5, <2>6, <2>9, <3>6
    <3>7. CASE p = 6
      BY <2>5, <2>6, <2>7, <2>9, <3>7
    <3> QED
      BY <3>1, <3>2, <3>3, <3>4, <3>5, <3>6, <3>7
  <2>11. InList(plan) = {ready, check, nfr, first, second, rule}
    BY <2>9 DEF InList
  <2>12. \A x \in InList(plan) : x.name[1] = s
    BY <2>1, <2>2, <2>3, <2>4, <2>5, <2>6, <2>7, <2>11
  <2>13. ASSUME NEW x \in InList(plan), x.needs /= {}
         PROVE  /\ x.whenShut = "skip" /\ x.gate[1] = s
                /\ \A y \in InList(plan) : x.gate = y.name => x.needs \subseteq y.needs \cup y.saves
    <3>1. x = second \/ x = rule
      BY <2>2, <2>3, <2>4, <2>5, <2>11, <2>13
    <3>2. \A y \in InList(plan) : y.name = <<s, "first">> => y = first
      BY <2>2, <2>3, <2>4, <2>5, <2>6, <2>7, <2>11
    <3>3. \A y \in InList(plan) : y.name = <<s, "second">> => y = second
      BY <2>2, <2>3, <2>4, <2>5, <2>6, <2>7, <2>11
    <3> QED
      BY <2>1, <2>5, <2>6, <2>7, <3>1, <3>2, <3>3
  <2>14. plan = ServicePlan(s)
    BY <2>8 DEF plan
  <2> QED
    BY <2>9, <2>10, <2>12, <2>13, <2>14
<1> QED
  BY <1>1, <1>2

LEMMA ToolItems ==
  ASSUME NEW s \in Nat \ {0}
  PROVE  /\ ToolPlan(s) \in Seq(AnyItem)
         /\ LinkedAfter(ToolPlan(s), {Place("list")})
         /\ \A x \in InList(ToolPlan(s)) : (x.kind = "read" => x.of = s) /\ x.whenShut = "drop"
<1> DEFINE probe == Gated("probe", <<s, "probe">>, Place("list"))
           read == Item("read", <<s, "read">>, Place("list"), "drop", {}, {<<s, "id">>}, s)
           latency == Gated("latency", <<s, "latency">>, <<s, "read">>)
           repeat == Gated("repeat", <<s, "repeat">>, <<s, "read">>)
           compare == Gated("compare", <<s, "compare">>, <<s, "read">>)
           error == Item("error", <<s, "error">>, Place("list"), "drop", {<<s, "id">>}, {}, 0)
<1>1. /\ <<s, "probe">> \in Owners /\ <<s, "read">> \in Owners /\ <<s, "latency">> \in Owners
      /\ <<s, "repeat">> \in Owners /\ <<s, "compare">> \in Owners /\ <<s, "error">> \in Owners
      /\ <<s, "id">> \in Owners /\ Place("list") \in Owners
      /\ {<<s, "id">>} \in SUBSET Owners /\ {} \in SUBSET Owners /\ s \in Nat /\ 0 \in Nat
      /\ "drop" \in {"drop", "skip"}
      /\ "probe" \in ItemKinds /\ "read" \in ItemKinds /\ "latency" \in ItemKinds /\ "repeat" \in ItemKinds
      /\ "compare" \in ItemKinds /\ "error" \in ItemKinds
  <2>1. "list" \in Words
    BY KindFacts DEF Words
  <2> QED
    BY <2>1, NameFacts, OwnerFacts, KindFacts
<1>2. /\ probe \in AnyItem /\ probe.gate = Place("list") /\ probe.needs = {} /\ probe.kind = "probe"
      /\ probe.whenShut = "drop"
  <2>1. probe \in AnyItem
    BY <1>1, GatedFacts
  <2> QED
    BY <2>1 DEF Gated, Item
<1>3. /\ read \in AnyItem /\ read.gate = Place("list") /\ read.needs = {} /\ read.kind = "read"
      /\ read.name = <<s, "read">> /\ read.of = s /\ read.whenShut = "drop" /\ <<s, "id">> \in read.saves
      /\ AlwaysAnswered(read)
  <2>1. read \in AnyItem
    BY <1>1, ItemFacts
  <2>2. /\ read.gate = Place("list") /\ read.needs = {} /\ read.kind = "read"
        /\ read.name = <<s, "read">> /\ read.of = s /\ read.whenShut = "drop" /\ <<s, "id">> \in read.saves
    BY DEF Item
  <2> QED
    BY <2>1, <2>2, AnswersFacts
<1>4. /\ latency \in AnyItem /\ latency.gate = <<s, "read">> /\ latency.needs = {}
      /\ latency.kind = "latency" /\ latency.whenShut = "drop"
  <2>1. latency \in AnyItem
    BY <1>1, GatedFacts
  <2> QED
    BY <2>1 DEF Gated, Item
<1>5. /\ repeat \in AnyItem /\ repeat.gate = <<s, "read">> /\ repeat.needs = {}
      /\ repeat.kind = "repeat" /\ repeat.whenShut = "drop"
  <2>1. repeat \in AnyItem
    BY <1>1, GatedFacts
  <2> QED
    BY <2>1 DEF Gated, Item
<1>6. /\ compare \in AnyItem /\ compare.gate = <<s, "read">> /\ compare.needs = {}
      /\ compare.kind = "compare" /\ compare.whenShut = "drop"
  <2>1. compare \in AnyItem
    BY <1>1, GatedFacts
  <2> QED
    BY <2>1 DEF Gated, Item
<1>7. /\ error \in AnyItem /\ error.gate = Place("list") /\ error.needs = {<<s, "id">>}
      /\ error.kind = "error" /\ error.whenShut = "drop"
  <2>1. error \in AnyItem
    BY <1>1, ItemFacts
  <2> QED
    BY <2>1 DEF Item
<1>8. ReadRows(s) = <<latency, repeat, compare>>
  BY DEF ReadRows
<1>9. ToolPlan(s) = <<probe, read>> \o ReadRows(s) \o <<error>>
  BY DEF ToolPlan
<1> HIDE DEF probe, read, latency, repeat, compare, error
<1> DEFINE plan == <<probe, read, latency, repeat, compare, error>>
<1>10. ToolPlan(s) = plan
  <2> DEFINE joined == <<probe, read>> \o <<latency, repeat, compare>> \o <<error>>
  <2>1. joined \in Seq({probe, read, latency, repeat, compare, error}) /\ Len(joined) = 6
    OBVIOUS
  <2>2. /\ joined[1] = probe /\ joined[2] = read /\ joined[3] = latency /\ joined[4] = repeat
        /\ joined[5] = compare /\ joined[6] = error
    OBVIOUS
  <2>3. /\ plan \in Seq({probe, read, latency, repeat, compare, error}) /\ Len(plan) = 6
        /\ plan[1] = probe /\ plan[2] = read /\ plan[3] = latency /\ plan[4] = repeat
        /\ plan[5] = compare /\ plan[6] = error
    OBVIOUS
  <2>4. ToolPlan(s) = joined
    BY <1>8, <1>9
  <2> HIDE DEF joined, plan
  <2>5. \A i \in 1..6 : i = 1 \/ i = 2 \/ i = 3 \/ i = 4 \/ i = 5 \/ i = 6
    OBVIOUS
  <2>6. \A i \in 1..6 : joined[i] = plan[i]
    BY <2>2, <2>3, <2>5
  <2> QED
    BY <2>1, <2>3, <2>4, <2>6
<1>11. /\ plan \in Seq(AnyItem) /\ DOMAIN plan = 1..6
       /\ plan[1] = probe /\ plan[2] = read /\ plan[3] = latency /\ plan[4] = repeat
       /\ plan[5] = compare /\ plan[6] = error
  BY <1>2, <1>3, <1>4, <1>5, <1>6, <1>7
<1> HIDE DEF plan
<1>12. LinkedAfter(plan, {Place("list")})
  <2> SUFFICES ASSUME NEW p \in 1..6
               PROVE  /\ plan[p].gate \in {Ungated} \cup {Place("list")}
                           \/ \E q \in 1..(p - 1) : plan[q].name = plan[p].gate /\ AlwaysAnswered(plan[q])
                      /\ \A v \in plan[p].needs : \E q \in 1..(p - 1) : v \in plan[q].saves /\ AlwaysAnswered(plan[q])
    BY <1>11 DEF LinkedAfter
  <2>1. p = 1 \/ p = 2 \/ p = 3 \/ p = 4 \/ p = 5 \/ p = 6
    OBVIOUS
  <2>2. CASE p = 1
    BY <1>2, <1>11, <2>2
  <2>3. CASE p = 2
    BY <1>3, <1>11, <2>3
  <2>4. CASE p = 3
    BY <1>3, <1>4, <1>11, <2>4
  <2>5. CASE p = 4
    BY <1>3, <1>5, <1>11, <2>5
  <2>6. CASE p = 5
    BY <1>3, <1>6, <1>11, <2>6
  <2>7. CASE p = 6
    BY <1>3, <1>7, <1>11, <2>7
  <2> QED
    BY <2>1, <2>2, <2>3, <2>4, <2>5, <2>6, <2>7
<1>13. InList(plan) = {probe, read, latency, repeat, compare, error}
  BY <1>11 DEF InList
<1>14. \A x \in InList(plan) : (x.kind = "read" => x.of = s) /\ x.whenShut = "drop"
  BY <1>2, <1>3, <1>4, <1>5, <1>6, <1>7, <1>13
<1> QED
  BY <1>10, <1>11, <1>12, <1>14

\* Items that need nothing and are dropped where their gate is shut.
Plain == {x \in AnyItem : x.needs = {} /\ x.whenShut = "drop"}
Checks == {x \in Plain : x.of = 0}

LEMMA CheckFacts ==
  ASSUME NEW kind \in ItemKinds, NEW name \in Owners, NEW gate \in Owners
  PROVE  Gated(kind, name, gate) \in Checks /\ Lone(kind, name) \in Checks
BY GatedFacts, LoneFacts DEF Checks, Plain

LEMMA PlaceFacts ==
  /\ Place("list") \in Owners /\ Place("ready") \in Owners /\ Place("gh") \in Owners
  /\ Place("hook") \in Owners /\ Place("files") \in Owners /\ Place("health") \in Owners
  /\ Place("selected") \in Owners /\ Place("export") \in Owners /\ Place("report") \in Owners
  /\ Place("status") \in Owners /\ Place("smoke") \in Owners /\ Place("security") \in Owners
  /\ Place("off") \in Owners /\ Place("identity") \in Owners /\ Place("profile") \in Owners
  /\ Place("workflow") \in Owners /\ Place("selection") \in Owners
<1>1. \A x \in {"list", "ready", "gh", "hook", "files", "health", "selected", "export", "report",
                "status", "smoke", "security", "off", "identity", "profile", "workflow",
                "selection"} : x \in Words
  BY DEF Words, ItemKinds
<1>2. \A x \in Words : Place(x) \in Owners
  BY NameFacts
<1> QED
  BY <1>1, <1>2

LEMMA SmallPlans ==
  /\ \A s \in Nat \ {0} : /\ CasePlan(s) \in Seq(Plain) /\ RunPlan(s) \in Seq(Plain)
                          /\ TestingPlan(s) \in Seq(Plain)
  /\ MultiAgentPlan \in Seq(Plain)
  /\ Lone("file", Place("ready")) \in Plain /\ Lone("gh", Place("gh")) \in Plain
  /\ Lone("file", Place("hook")) \in Plain
<1> Checks \subseteq Plain
  BY DEF Checks
<1>1. ASSUME NEW s \in Nat \ {0} PROVE CasePlan(s) \in Seq(Plain)
  <2>1. /\ Gated("case", <<s, "case">>, Place("ready")) \in Plain
        /\ Gated("latency", <<s, "latency">>, <<s, "case">>) \in Plain
        /\ Gated("repeat", <<s, "repeat">>, <<s, "case">>) \in Plain
    BY OwnerFacts, KindFacts, PlaceFacts, CheckFacts
  <2> QED
    BY <2>1 DEF CasePlan
<1>2. ASSUME NEW s \in Nat \ {0} PROVE RunPlan(s) \in Seq(Plain)
  <2>1. Gated("run", <<s, "run">>, Place("gh")) \in Plain
    BY OwnerFacts, KindFacts, PlaceFacts, CheckFacts
  <2> QED
    BY <2>1 DEF RunPlan
<1>3. ASSUME NEW s \in Nat \ {0} PROVE TestingPlan(s) \in Seq(Plain)
  <2>1. Lone("file", <<s, "pre">>) \in Plain /\ Lone("file", <<s, "post">>) \in Plain
    BY OwnerFacts, KindFacts, CheckFacts
  <2> QED
    BY <1>2, <2>1 DEF TestingPlan
<1>4. MultiAgentPlan \in Seq(Plain)
  <2>1. /\ Lone("file", Place("files")) \in Plain /\ Lone("list", Place("health")) \in Plain
        /\ Gated("list", Place("ready"), Place("health")) \in Plain
        /\ Gated("case", Place("selected"), Place("ready")) \in Plain
        /\ Gated("file", Place("export"), Place("selected")) \in Plain
    BY KindFacts, PlaceFacts, CheckFacts
  <2> QED
    BY <2>1 DEF MultiAgentPlan
<1>5. /\ Lone("file", Place("ready")) \in Plain /\ Lone("gh", Place("gh")) \in Plain
      /\ Lone("file", Place("hook")) \in Plain
  BY KindFacts, PlaceFacts, CheckFacts
<1> QED
  BY <1>1, <1>2, <1>3, <1>4, <1>5

\* What a deployment is judged by, each once the report is there.
CloudNames == {"report", "status", "smoke", "security", "off", "profile"}

LEMMA CloudItems ==
  /\ CloudPlan \in Seq(Checks)
  /\ LinkedAfter(CloudPlan, {})
  /\ \A name \in CloudNames :
       \E p \in DOMAIN CloudPlan : CloudPlan[p].name = Place(name) /\ AlwaysAnswered(CloudPlan[p])
<1> DEFINE report == ReportSource
           status == Gated("file", Place("status"), Place("report"))
           smoke == Gated("file", Place("smoke"), Place("report"))
           security == Gated("file", Place("security"), Place("report"))
           off == Gated("file", Place("off"), Place("report"))
           identity == Lone("file", Place("identity"))
           profile == Lone("file", Place("profile"))
           workflow == Lone("run", Place("workflow"))
           All == {report, status, smoke, security, off, identity, profile, workflow}
<1>1. All \subseteq Checks
  <2>1. "file" \in ItemKinds /\ "run" \in ItemKinds
    BY KindFacts
  <2> QED
    BY <2>1, PlaceFacts, CheckFacts DEF ReportSource
<1>2. /\ report.kind = "file" /\ report.gate = Ungated /\ report.name = Place("report")
      /\ status.kind = "file" /\ status.gate = Place("report") /\ status.name = Place("status")
      /\ smoke.kind = "file" /\ smoke.gate = Place("report") /\ smoke.name = Place("smoke")
      /\ security.kind = "file" /\ security.gate = Place("report") /\ security.name = Place("security")
      /\ off.kind = "file" /\ off.gate = Place("report") /\ off.name = Place("off")
      /\ identity.gate = Ungated /\ workflow.gate = Ungated
      /\ profile.kind = "file" /\ profile.gate = Ungated /\ profile.name = Place("profile")
  BY DEF ReportSource, Lone, Gated, Item
<1>3. [i \in 1..4 |-> Gated("file", Place(<<"status", "smoke", "security", "off">>[i]), Place("report"))]
      = <<status, smoke, security, off>>
  OBVIOUS
<1>4. CloudPlan = <<report>> \o <<status, smoke, security, off>> \o <<identity, profile, workflow>>
  BY <1>3 DEF CloudPlan
<1> HIDE DEF report, status, smoke, security, off, identity, profile, workflow, All
<1> DEFINE plan == <<report>> \o <<status, smoke, security, off>> \o <<identity, profile, workflow>>
<1>5. /\ plan \in Seq(All) /\ Len(plan) = 8 /\ DOMAIN plan = 1..8
      /\ plan[1] = report /\ plan[2] = status /\ plan[3] = smoke /\ plan[4] = security
      /\ plan[5] = off /\ plan[6] = identity /\ plan[7] = profile /\ plan[8] = workflow
  BY DEF All
<1>6. CloudPlan = plan
  BY <1>4
<1> HIDE DEF plan
<1>7. /\ AlwaysAnswered(report) /\ AlwaysAnswered(status) /\ AlwaysAnswered(smoke) /\ AlwaysAnswered(security) /\ AlwaysAnswered(off)
      /\ AlwaysAnswered(profile)
  BY <1>2, AnswersFacts
<1>8. \A p \in 1..8 : plan[p].needs = {}
  <2>1. \A x \in All : x.needs = {}
    BY <1>1 DEF Checks, Plain
  <2>2. /\ report \in All /\ status \in All /\ smoke \in All /\ security \in All /\ off \in All
        /\ identity \in All /\ profile \in All /\ workflow \in All
    BY DEF All
  <2>3. \A p \in 1..8 : p = 1 \/ p = 2 \/ p = 3 \/ p = 4 \/ p = 5 \/ p = 6 \/ p = 7 \/ p = 8
    OBVIOUS
  <2> QED
    BY <1>5, <2>1, <2>2, <2>3
<1>9. \A p \in 1..8 : plan[p].gate = Ungated
        \/ \E q \in 1..(p - 1) : plan[q].name = plan[p].gate /\ AlwaysAnswered(plan[q])
  <2>1. \A p \in 1..8 : p = 1 \/ p = 6 \/ p = 7 \/ p = 8 \/ p \in 2..5
    OBVIOUS
  <2>2. ASSUME NEW p \in 2..5 PROVE \E q \in 1..(p - 1) : plan[q].name = plan[p].gate /\ AlwaysAnswered(plan[q])
    <3>1. 1 \in 1..(p - 1)
      OBVIOUS
    <3>2. p = 2 \/ p = 3 \/ p = 4 \/ p = 5
      OBVIOUS
    <3>3. plan[p].gate = Place("report")
      BY <1>2, <1>5, <3>2
    <3> QED
      BY <1>2, <1>5, <1>7, <3>1, <3>3
  <2> QED
    BY <1>2, <1>5, <2>1, <2>2
<1>10. plan \in Seq(Checks)
  BY <1>1, <1>5
<1>11. LinkedAfter(plan, {})
  BY <1>5, <1>8, <1>9 DEF LinkedAfter
<1>12. ASSUME NEW name \in CloudNames
       PROVE  \E p \in DOMAIN plan : plan[p].name = Place(name) /\ AlwaysAnswered(plan[p])
  BY <1>2, <1>5, <1>7 DEF CloudNames
<1> QED
  BY <1>6, <1>10, <1>11, <1>12

\* One plan for each service.
LEMMA PlansFacts ==
  /\ Registry \in Seq(Nat \ {0}) /\ DOMAIN Registry = 1..Len(Registry) /\ Len(Registry) \in Nat
  /\ \A i \in DOMAIN Registry : Registry[i] \in Nat \ {0} /\ Registry[i] \in InList(Registry)
BY LoopAssumption DEF InList

LEMMA ServicesFit == PlanFits("services", PlanOf("services"))
<1> DEFINE plans == [i \in DOMAIN Registry |-> ServicePlan(Registry[i])]
           S == {x \in AnyItem : \E s \in InList(Registry) : x \in InList(ServicePlan(s))}
           plan == EachOf(plans)
<1>1. PlanOf("services") = plan
  BY DEF PlanOf
<1>2. plans \in Seq(Seq(AnyItem)) /\ \A i \in DOMAIN plans : LinkedAfter(plans[i], {})
  BY PlansFacts, ServiceItems
<1>3. plans \in Seq(Seq(S))
  <2>1. ASSUME NEW i \in DOMAIN Registry PROVE plans[i] \in Seq(S)
    <3> DEFINE p == ServicePlan(Registry[i])
    <3>1. p \in Seq(AnyItem) /\ plans[i] = p
      BY PlansFacts, ServiceItems
    <3>2. ASSUME NEW k \in 1..Len(p) PROVE p[k] \in S
      <4>1. p[k] \in AnyItem /\ p[k] \in InList(p) /\ Registry[i] \in InList(Registry)
        BY <3>1, PlansFacts DEF InList
      <4> QED
        BY <4>1
    <3> HIDE DEF p, S
    <3> QED
      BY <3>1, <3>2
  <2> QED
    BY <2>1, PlansFacts
<1> HIDE DEF plans, S
<1>4. plan \in Seq(AnyItem) /\ LinkedAfter(plan, {}) /\ plan \in Seq(S)
  BY <1>2, <1>3, EachOfLinked, EachOfListed
<1> HIDE DEF plan
<1>5. \A x \in InList(plan) : x \in AnyItem /\ \E s \in InList(Registry) : x \in InList(ServicePlan(s))
  BY <1>4 DEF InList, S
<1>6. \A s \in InList(Registry) : s \in Nat \ {0}
  BY PlansFacts DEF InList
<1>7. ASSUME NEW x \in InList(plan), x.needs /= {}
      PROVE  /\ x.whenShut = "skip" /\ x.gate /= Ungated
             /\ \A y \in InList(plan) : x.gate = y.name => x.needs \subseteq y.needs \cup y.saves
  <2>1. PICK s \in InList(Registry) : x \in InList(ServicePlan(s))
    BY <1>5
  <2>2. /\ x.whenShut = "skip" /\ x.gate[1] = s
        /\ \A y \in InList(ServicePlan(s)) : x.gate = y.name => x.needs \subseteq y.needs \cup y.saves
    BY <1>6, <1>7, <2>1, ServiceItems
  <2>3. x.gate /= Ungated
    BY <1>6, <2>1, <2>2 DEF Ungated
  <2>4. ASSUME NEW y \in InList(plan), x.gate = y.name PROVE x.needs \subseteq y.needs \cup y.saves
    <3>1. PICK t \in InList(Registry) : y \in InList(ServicePlan(t))
      BY <1>5
    <3>2. y.name[1] = t
      BY <1>6, <3>1, ServiceItems
    <3> QED
      BY <2>2, <2>4, <3>1, <3>2
  <2> QED
    BY <2>2, <2>3, <2>4
<1> QED
  BY <1>1, <1>4, <1>7 DEF PlanFits, Linked

LEMMA ToolsFit == PlanFits("mcp", PlanOf("mcp"))
<1> DEFINE plans == [i \in DOMAIN Registry |-> ToolPlan(Registry[i])]
           S == {x \in AnyItem : (x.kind = "read" => x.of \in InList(Registry)) /\ x.whenShut = "drop"}
           head == Lone("list", Place("list"))
           plan == <<head>> \o EachOf(plans)
<1>1. PlanOf("mcp") = plan
  BY DEF PlanOf
<1>2. plans \in Seq(Seq(AnyItem)) /\ \A i \in DOMAIN plans : LinkedAfter(plans[i], {Place("list")})
  <2>1. \A i \in DOMAIN Registry :
          ToolPlan(Registry[i]) \in Seq(AnyItem) /\ LinkedAfter(ToolPlan(Registry[i]), {Place("list")})
    BY PlansFacts, ToolItems
  <2>2. \A i \in 1..Len(Registry) : plans[i] \in Seq(AnyItem) /\ LinkedAfter(plans[i], {Place("list")})
    BY <2>1, PlansFacts
  <2>3. plans = [i \in 1..Len(Registry) |-> plans[i]] /\ Len(Registry) \in Nat
    BY PlansFacts
  <2> HIDE DEF plans
  <2>4. plans \in Seq(Seq(AnyItem)) /\ DOMAIN plans = 1..Len(Registry)
    BY <2>2, <2>3
  <2> QED
    BY <2>2, <2>4
<1>3. plans \in Seq(Seq(S))
  <2>1. ASSUME NEW i \in DOMAIN Registry PROVE plans[i] \in Seq(S)
    <3> DEFINE p == ToolPlan(Registry[i])
    <3>1. /\ p \in Seq(AnyItem) /\ plans[i] = p /\ Registry[i] \in InList(Registry)
          /\ \A x \in InList(p) : (x.kind = "read" => x.of = Registry[i]) /\ x.whenShut = "drop"
      BY PlansFacts, ToolItems
    <3>2. \A k \in 1..Len(p) : p[k] \in S
      <4> HIDE DEF p
      <4> QED
        BY <3>1 DEF InList
    <3> HIDE DEF p, S
    <3> QED
      BY <3>1, <3>2
  <2> QED
    BY <2>1, PlansFacts
<1>4. head \in AnyItem /\ head.kind = "list" /\ head.gate = Ungated /\ head.needs = {}
      /\ head.name = Place("list") /\ head.whenShut = "drop"
  BY KindFacts, PlaceFacts, LoneFacts
<1>5. AlwaysAnswered(head) /\ head \in S
  BY <1>4, AnswersFacts
<1> HIDE DEF plans, S, head
<1>6. EachOf(plans) \in Seq(AnyItem) /\ LinkedAfter(EachOf(plans), {head.name}) /\ EachOf(plans) \in Seq(S)
  BY <1>2, <1>3, <1>4, EachOfLinked, EachOfListed
<1>7. plan \in Seq(AnyItem) /\ LinkedAfter(plan, {}) /\ plan \in Seq(S)
  <2>1. plan \in Seq(AnyItem) /\ LinkedAfter(plan, {})
    BY <1>4, <1>5, <1>6, HeadLinked
  <2> QED
    BY <1>5, <1>6, <2>1
<1> HIDE DEF plan
<1>8. \A x \in InList(plan) : (x.kind = "read" => x.of \in InList(Registry)) /\ x.whenShut = "drop"
  BY <1>7 DEF InList, S
<1> QED
  BY <1>1, <1>7, <1>8 DEF PlanFits, Linked

LEMMA PlainFit ==
  ASSUME NEW mode, mode \notin Linked, NEW plan \in Seq(Plain)
  PROVE  PlanFits(mode, plan)
<1>1. \A x \in InList(plan) : x \in Plain
  BY DEF InList
<1>2. plan \in Seq(AnyItem)
  BY DEF Plain
<1> QED
  BY <1>1, <1>2 DEF PlanFits, Linked, Plain

LEMMA EveryPlanFits ==
  ASSUME NEW mode \in Modes
  PROVE  PlanFits(mode, PlanOf(mode))
<1>1. CASE mode = "services"
  BY <1>1, ServicesFit
<1>2. CASE mode = "mcp"
  BY <1>2, ToolsFit
<1>3. CASE mode = "cloud"
  <2>1. PlanOf(mode) = CloudPlan
    BY <1>3 DEF PlanOf
  <2>2. CloudPlan \in Seq(AnyItem) /\ \A x \in InList(CloudPlan) : x \in Checks
    BY CloudItems DEF Checks, Plain, InList
  <2> QED
    BY <1>3, <2>1, <2>2, CloudItems DEF PlanFits, Linked, Checks, Plain
<1>4. CASE mode = "rag"
  <2> DEFINE plans == [i \in DOMAIN Registry |-> CasePlan(Registry[i])]
  <2>1. PlanOf(mode) = <<Lone("file", Place("ready"))>> \o EachOf(plans)
    BY <1>4 DEF PlanOf
  <2>2. plans \in Seq(Seq(Plain))
    BY PlansFacts, SmallPlans
  <2> HIDE DEF plans
  <2>3. EachOf(plans) \in Seq(Plain)
    BY <2>2, EachOfListed
  <2>4. PlanOf(mode) \in Seq(Plain)
    BY <2>1, <2>3, SmallPlans
  <2> QED
    BY <1>4, <2>4, PlainFit DEF Linked
<1>5. CASE mode = "ci"
  <2> DEFINE plans == [i \in DOMAIN Registry |-> RunPlan(Registry[i])]
  <2>1. PlanOf(mode) = <<Lone("gh", Place("gh"))>> \o EachOf(plans)
    BY <1>5 DEF PlanOf
  <2>2. plans \in Seq(Seq(Plain))
    BY PlansFacts, SmallPlans
  <2> HIDE DEF plans
  <2>3. EachOf(plans) \in Seq(Plain)
    BY <2>2, EachOfListed
  <2>4. PlanOf(mode) \in Seq(Plain)
    BY <2>1, <2>3, SmallPlans
  <2> QED
    BY <1>5, <2>4, PlainFit DEF Linked
<1>6. CASE mode = "testing"
  <2> DEFINE plans == [i \in DOMAIN Registry |-> TestingPlan(Registry[i])]
  <2>1. PlanOf(mode) = <<Lone("file", Place("hook")), Lone("gh", Place("gh"))>> \o EachOf(plans)
    BY <1>6 DEF PlanOf
  <2>2. plans \in Seq(Seq(Plain))
    BY PlansFacts, SmallPlans
  <2> HIDE DEF plans
  <2>3. EachOf(plans) \in Seq(Plain)
    BY <2>2, EachOfListed
  <2>4. PlanOf(mode) \in Seq(Plain)
    BY <2>1, <2>3, SmallPlans
  <2> QED
    BY <1>6, <2>4, PlainFit DEF Linked
<1>7. CASE mode = "multi-agent"
  BY <1>7, SmallPlans, PlainFit DEF PlanOf, Linked
<1> QED
  BY <1>1, <1>2, <1>3, <1>4, <1>5, <1>6, <1>7 DEF Modes

-----------------------------------------------------------------------------
(* AgenticLoop: any registry, whatever the world answers                    *)

Had(v) == \E i \in DOMAIN loop.rows : loop.rows[i].answer = "right" /\ v \in loop.rows[i].item.saves

LEMMA PlanFacts ==
  ASSUME LoopInv
  PROVE  /\ Plan \in Seq(AnyItem) /\ PlanFits(loop.mode, Plan)
         /\ Len(Plan) \in Nat /\ DOMAIN Plan = 1..Len(Plan)
         /\ Len(loop.left) \in Nat /\ Passed \in 0..Len(Plan)
         /\ loop.left \in Seq(AnyItem) /\ loop.rows \in Seq(LoopRow)
         /\ Len(loop.rows) \in Nat /\ DOMAIN loop.rows = 1..Len(loop.rows)
<1>1. loop.mode \in Modes /\ loop.left \in Seq(AnyItem) /\ loop.rows \in Seq(LoopRow)
  BY DEF LoopInv, LoopRecord
<1>2. PlanFits(loop.mode, Plan)
  BY <1>1, EveryPlanFits DEF Plan
<1>3. Plan \in Seq(AnyItem)
  BY <1>2 DEF PlanFits
<1>4. Len(loop.left) <= Len(Plan)
  BY DEF LoopInv, PlanInv
<1> QED
  BY <1>1, <1>2, <1>3, <1>4 DEF Passed

LEMMA HeadFacts ==
  ASSUME LoopInv, loop.left /= <<>>
  PROVE  /\ Passed + 1 \in DOMAIN Plan /\ Head(loop.left) = Plan[Passed + 1]
         /\ Head(loop.left) \in AnyItem /\ Head(loop.left) \in InList(Plan)
         /\ Tail(loop.left) \in Seq(AnyItem)
         /\ loop'.mode = loop.mode /\ loop'.left = Tail(loop.left) =>
              PlanInv' /\ Passed' = Passed + 1 /\ Plan' = Plan
<1> DEFINE left == loop.left
<1>1. /\ left \in Seq(AnyItem) /\ Len(left) \in Nat /\ Len(Plan) \in Nat /\ Len(left) <= Len(Plan)
      /\ DOMAIN Plan = 1..Len(Plan) /\ Passed = Len(Plan) - Len(left)
      /\ \A k \in DOMAIN left : left[k] = Plan[Passed + k]
      /\ Passed \in Nat /\ left /= <<>>
  BY PlanFacts DEF LoopInv, PlanInv, Passed
<1> HIDE DEF left
<1>2. /\ Len(left) >= 1 /\ Head(left) = left[1] /\ Head(left) \in AnyItem /\ 1 \in DOMAIN left
      /\ Tail(left) \in Seq(AnyItem) /\ Len(Tail(left)) = Len(left) - 1
      /\ \A k \in 1..(Len(left) - 1) : k + 1 \in DOMAIN left /\ Tail(left)[k] = left[k + 1]
  BY <1>1
<1>3. Passed + 1 \in DOMAIN Plan /\ Head(left) = Plan[Passed + 1]
  BY <1>1, <1>2
<1>4. Head(left) \in InList(Plan)
  BY <1>3 DEF InList
<1>5. ASSUME loop'.mode = loop.mode, loop'.left = Tail(left)
      PROVE  PlanInv' /\ Passed' = Passed + 1 /\ Plan' = Plan
  <2>1. Plan' = Plan
    BY <1>5 DEF Plan
  <2>2. Passed' = Passed + 1
    <3>1. Passed' = Len(Plan) - Len(Tail(left))
      BY <1>5, <2>1 DEF Passed, left
    <3> QED
      BY <1>1, <1>2, <3>1
  <2>3. Len(loop'.left) <= Len(Plan)
    BY <1>1, <1>2, <1>5
  <2>4. \A k \in DOMAIN loop'.left : loop'.left[k] = Plan[Passed + 1 + k]
    <3>1. DOMAIN loop'.left = 1..(Len(left) - 1)
      BY <1>2, <1>5
    <3>2. \A k \in 1..(Len(left) - 1) : Passed + (k + 1) = Passed + 1 + k
      BY <1>1
    <3> QED
      BY <1>1, <1>2, <1>5, <3>1, <3>2
  <2> QED
    BY <2>1, <2>2, <2>3, <2>4 DEF PlanInv
<1> QED
  BY <1>2, <1>3, <1>4, <1>5 DEF left

LEMMA WorldFacts ==
  ASSUME NEW item
  PROVE  /\ WorldAnswers(item) \subseteq {"right", "wrong", "unsaved", "absent", "gone", "raises"}
         /\ \A answer : /\ Outcome(item, answer) \in {"OK", "SKIP", "NOTE", "FAIL"}
                        /\ Outcome(item, answer) = "OK" <=> answer = "right"
                        /\ answer \notin {"right", "absent"} /\ item.kind /= "selection" =>
                             Outcome(item, answer) = "FAIL"
<1>1. WorldAnswers(item) \subseteq {"right", "wrong", "unsaved", "absent", "gone", "raises"}
  BY DEF WorldAnswers
<1>2. ASSUME NEW answer
      PROVE  /\ Outcome(item, answer) \in {"OK", "SKIP", "NOTE", "FAIL"}
             /\ Outcome(item, answer) = "OK" <=> answer = "right"
             /\ answer \notin {"right", "absent"} /\ item.kind /= "selection" =>
                  Outcome(item, answer) = "FAIL"
  BY DEF Outcome
<1> QED
  BY <1>1, <1>2

\* What a row says of an item that is always answered.
LEMMA AnswerFacts ==
  ASSUME LoopInv, NEW i \in DOMAIN loop.rows
  PROVE  LET row == loop.rows[i] IN
         /\ row.out = "OK" <=> row.answer = "right"
         /\ row.answer = "unasked" => Cause
         /\ AlwaysAnswered(row.item) /\ ~Cause => row.answer = "right" /\ row.out = "OK"
<1> DEFINE row == loop.rows[i]
<1>1. /\ row.answer \in (WorldAnswers(row.item) \ {"raises"}) \cup {"unasked"}
      /\ row.out = IF row.answer = "unasked" THEN "SKIP" ELSE Outcome(row.item, row.answer)
  BY DEF LoopInv, RowInv
<1>2. row.out = "OK" <=> row.answer = "right"
  BY <1>1, WorldFacts
<1>3. ASSUME row.answer = "unasked" PROVE Cause
  <2>1. PICK j \in 1..i : \/ loop.rows[j].out = "FAIL"
                          \/ loop.rows[j].item.of \in {Registry[k] : k \in DOMAIN Registry} \ ValidatedOnes
    BY <1>3 DEF LoopInv, SkipsHaveCause
  <2>2. j \in DOMAIN loop.rows
    BY <2>1, PlanFacts
  <2> QED
    BY <2>1, <2>2 DEF Cause, InList
<1>4. ASSUME AlwaysAnswered(row.item), ~Cause PROVE row.answer = "right"
  <2>1. row.answer /= "unasked" /\ row.answer /= "absent"
    BY <1>1, <1>3, <1>4 DEF AlwaysAnswered
  <2>2. row.item.kind /= "selection"
    BY <1>4 DEF AlwaysAnswered, WorldAnswers
  <2>3. row.out /= "FAIL"
    BY <1>4 DEF Cause
  <2> QED
    BY <1>1, <2>1, <2>2, <2>3, WorldFacts
<1> QED
  BY <1>2, <1>3, <1>4

\* An item that is gated by what has been answered rightly is let through.
LEMMA ShutHasCause ==
  ASSUME LoopInv, loop.left /= <<>>, loop.mode \in Linked, ~GateHolds(Head(loop.left))
  PROVE  Cause
<1> SUFFICES ASSUME ~Cause PROVE FALSE
  OBVIOUS
<1> DEFINE item == Head(loop.left)
<1>1. Passed + 1 \in DOMAIN Plan /\ item = Plan[Passed + 1] /\ Passed \in Nat
  BY HeadFacts, PlanFacts
<1>2. item.gate /= Ungated
  BY DEF GateHolds
<1>3. LinkedAfter(Plan, {})
  BY PlanFacts DEF PlanFits
<1>4. PICK q \in 1..(Passed + 1 - 1) : Plan[q].name = item.gate /\ AlwaysAnswered(Plan[q])
  BY <1>1, <1>2, <1>3 DEF LinkedAfter
<1>5. q \in 1..Passed
  BY <1>1, <1>4
<1>6. PICK i \in DOMAIN loop.rows : loop.rows[i].item = Plan[q]
  BY <1>5 DEF LoopInv, PassedInv
<1>7. loop.rows[i].answer = "right" /\ loop.rows[i].out = "OK"
  BY <1>4, <1>6, AnswerFacts
<1>8. i \in RowsOf(item.gate)
  BY <1>4, <1>6 DEF RowsOf
<1> QED
  BY <1>7, <1>8 DEF GateHolds

LEMMA LackHasCause ==
  ASSUME LoopInv, loop.left /= <<>>, LacksInput(Head(loop.left))
  PROVE  Cause
<1> SUFFICES ASSUME ~Cause PROVE FALSE
  OBVIOUS
<1> DEFINE item == Head(loop.left)
<1>1. Passed + 1 \in DOMAIN Plan /\ item = Plan[Passed + 1] /\ Passed \in Nat /\ item \in AnyItem
  BY HeadFacts, PlanFacts
<1>2. loop.mode \in Linked
  BY DEF LacksInput, Linked
<1>3. PICK v \in item.needs : v \notin loop.saved
  BY DEF LacksInput
<1>4. LinkedAfter(Plan, {})
  BY <1>2, PlanFacts DEF PlanFits
<1>5. PICK q \in 1..(Passed + 1 - 1) : v \in Plan[q].saves /\ AlwaysAnswered(Plan[q])
  BY <1>1, <1>3, <1>4 DEF LinkedAfter
<1>6. q \in 1..Passed
  BY <1>1, <1>5
<1>7. PICK i \in DOMAIN loop.rows : loop.rows[i].item = Plan[q]
  BY <1>2, <1>6 DEF LoopInv, PassedInv
<1>8. loop.rows[i].answer = "right" /\ v \in loop.rows[i].item.saves
  BY <1>5, <1>7, AnswerFacts
<1>9. v \in Owners
  BY <1>1, <1>3 DEF AnyItem
<1> QED
  BY <1>3, <1>8, <1>9 DEF LoopInv, SavedInv

\* Whatever is asked has been given what it needs.
LEMMA AskedIsFed ==
  ASSUME LoopInv, loop.at = "act", loop.left /= <<>>,
         GateHolds(Head(loop.left)), ~LacksInput(Head(loop.left))
  PROVE  \A v \in Head(loop.left).needs : Had(v)
<1> DEFINE item == Head(loop.left)
<1> SUFFICES ASSUME NEW v \in item.needs PROVE Had(v)
  OBVIOUS
<1>1. item \in AnyItem /\ item \in InList(Plan) /\ v \in Owners
  BY HeadFacts DEF AnyItem
<1>2. CASE loop.mode = "mcp"
  <2>1. v \in loop.saved
    BY <1>2 DEF LacksInput
  <2> QED
    BY <1>1, <2>1 DEF LoopInv, SavedInv, Had
<1>3. CASE loop.mode /= "mcp"
  <2>1. /\ item.whenShut = "skip" /\ item.gate /= Ungated
        /\ \A y \in InList(Plan) : item.gate = y.name => item.needs \subseteq y.needs \cup y.saves
    BY <1>1, <1>3, PlanFacts DEF PlanFits
  <2>2. PICK i \in RowsOf(item.gate) : loop.rows[i].out = "OK"
    BY <2>1 DEF GateHolds
  <2>3. i \in DOMAIN loop.rows /\ loop.rows[i].item.name = item.gate
    BY <2>2 DEF RowsOf
  <2>4. loop.rows[i].answer = "right" /\ loop.rows[i].item \in InList(Plan)
    BY <2>2, <2>3, AnswerFacts DEF LoopInv, RowInv
  <2>5. v \in loop.rows[i].item.needs \/ v \in loop.rows[i].item.saves
    BY <2>1, <2>3, <2>4
  <2>6. CASE v \in loop.rows[i].item.saves
    BY <2>3, <2>4, <2>6 DEF Had
  <2>7. CASE v \in loop.rows[i].item.needs
    <3>1. v \in SavedBefore(i)
      BY <2>3, <2>4, <2>7 DEF LoopInv, NothingUnfilled, Asked
    <3>2. PICK j \in 1..(i - 1) : loop.rows[j].answer = "right" /\ v \in loop.rows[j].item.saves
      BY <3>1 DEF SavedBefore
    <3>3. j \in DOMAIN loop.rows
      BY <2>3, <3>2, PlanFacts
    <3> QED
      BY <3>2, <3>3 DEF Had
  <2> QED
    BY <2>5, <2>6, <2>7
<1> QED
  BY <1>2, <1>3

\* One row more, of the item at the head of what is left.
LEMMA RowAdded ==
  ASSUME LoopInv, loop.at = "act", loop.left /= <<>>,
         NEW answer \in (WorldAnswers(Head(loop.left)) \ {"raises"}) \cup {"unasked"},
         NEW out, out = (IF answer = "unasked" THEN "SKIP" ELSE Outcome(Head(loop.left), answer)),
         answer /= "unasked" => \A v \in Head(loop.left).needs : Had(v),
         answer = "unasked" => Cause \/ Head(loop.left).of \in InList(Registry) \ ValidatedOnes,
         loop' = [loop EXCEPT
           !.left = Tail(@),
           !.rows = Append(@, [item |-> Head(loop.left), out |-> out, answer |-> answer]),
           !.saved = IF answer = "right" THEN @ \cup Head(loop.left).saves ELSE @]
  PROVE  LoopInv'
<1> DEFINE item == Head(loop.left)
           row == [item |-> item, out |-> out, answer |-> answer]
           n == Len(loop.rows)
           saved == IF answer = "right" THEN loop.saved \cup item.saves ELSE loop.saved
<1>1. /\ loop \in LoopRecord /\ loop.rows \in Seq(LoopRow) /\ n \in Nat /\ DOMAIN loop.rows = 1..n
      /\ item \in AnyItem /\ item \in InList(Plan) /\ Tail(loop.left) \in Seq(AnyItem)
      /\ item = Plan[Passed + 1] /\ Passed \in Nat /\ Passed + 1 \in DOMAIN Plan
  BY HeadFacts, PlanFacts DEF LoopInv
<1>2. out \in {"OK", "SKIP", "NOTE", "FAIL"}
      /\ answer \in {"right", "wrong", "unsaved", "absent", "gone", "unasked"}
  BY WorldFacts
<1>3. row \in LoopRow /\ row.item = item /\ row.out = out /\ row.answer = answer
  BY <1>1, <1>2 DEF LoopRow
<1>4. saved \in SUBSET Owners
  BY <1>1 DEF LoopRecord, AnyItem
<1>5. loop' = [loop EXCEPT !.left = Tail(loop.left), !.rows = Append(loop.rows, row), !.saved = saved]
  BY <1>1 DEF LoopRecord
<1> HIDE DEF row, n, saved, item
<1>6. /\ Append(loop.rows, row) \in Seq(LoopRow) /\ DOMAIN Append(loop.rows, row) = 1..(n + 1)
      /\ \A i \in 1..n : Append(loop.rows, row)[i] = loop.rows[i]
      /\ Append(loop.rows, row)[n + 1] = row
  BY <1>1, <1>3 DEF n
<1>7. /\ loop' \in LoopRecord /\ loop'.left = Tail(loop.left) /\ loop'.mode = loop.mode
      /\ loop'.rows = Append(loop.rows, row) /\ loop'.saved = saved /\ loop'.at = "act"
      /\ loop'.release = loop.release
  BY <1>1, <1>4, <1>5, <1>6 DEF LoopRecord
<1>8. /\ DOMAIN loop'.rows = 1..(n + 1) /\ loop'.rows[n + 1] = row
      /\ \A i \in 1..n : i \in 1..(n + 1) /\ i \in DOMAIN loop.rows /\ loop'.rows[i] = loop.rows[i]
      /\ \A i \in 1..(n + 1) : i \in 1..n \/ i = n + 1
      /\ n + 1 \in 1..(n + 1)
  BY <1>1, <1>6, <1>7
<1>9. PlanInv' /\ Passed' = Passed + 1 /\ Plan' = Plan
  BY <1>7, HeadFacts
<1>10. RowInv'
  <2>1. ASSUME NEW i \in DOMAIN loop'.rows
        PROVE  LET r == loop'.rows[i] IN
               /\ r.item \in InList(Plan)
               /\ r.answer \in (WorldAnswers(r.item) \ {"raises"}) \cup {"unasked"}
               /\ r.out = IF r.answer = "unasked" THEN "SKIP" ELSE Outcome(r.item, r.answer)
    <3>1. CASE i \in 1..n
      BY <1>8, <3>1 DEF LoopInv, RowInv
    <3>2. CASE i = n + 1
      <4>1. loop'.rows[i] = row
        BY <1>8, <3>2
      <4> QED
        BY <1>1, <1>3, <4>1 DEF item
    <3> QED
      BY <1>8, <3>1, <3>2
  <2> QED
    BY <1>9, <2>1 DEF RowInv, InList
<1>11. Cause => Cause'
  BY <1>1, <1>8 DEF Cause
<1>12. SkipsHaveCause'
  <2> SUFFICES ASSUME NEW i \in DOMAIN loop'.rows, loop'.rows[i].answer = "unasked"
               PROVE  \E j \in 1..i :
                        \/ loop'.rows[j].out = "FAIL"
                        \/ loop'.rows[j].item.of \in {Registry[k] : k \in DOMAIN Registry} \ ValidatedOnes
    BY DEF SkipsHaveCause
  <2>1. CASE i \in 1..n
    <3>1. loop.rows[i].answer = "unasked" /\ i \in DOMAIN loop.rows
      BY <1>8, <2>1
    <3>2. PICK j \in 1..i : \/ loop.rows[j].out = "FAIL"
                            \/ loop.rows[j].item.of \in {Registry[k] : k \in DOMAIN Registry} \ ValidatedOnes
      BY <3>1 DEF LoopInv, SkipsHaveCause
    <3>3. j \in 1..n
      BY <1>1, <2>1, <3>2
    <3> QED
      BY <1>8, <3>2, <3>3
  <2>2. CASE i = n + 1
    <3>1. answer = "unasked"
      BY <1>3, <1>8, <2>2
    <3>2. CASE Cause
      <4>1. PICK j \in 1..n : \/ loop.rows[j].out = "FAIL"
                              \/ loop.rows[j].item.of \in InList(Registry) \ ValidatedOnes
        BY <1>1, <3>2 DEF Cause
      <4>2. j \in 1..i /\ loop'.rows[j] = loop.rows[j]
        BY <1>1, <1>8, <2>2, <4>1
      <4> QED
        BY <4>1, <4>2 DEF InList
    <3>3. CASE item.of \in InList(Registry) \ ValidatedOnes
      <4>1. i \in 1..i /\ loop'.rows[i].item.of \in InList(Registry) \ ValidatedOnes
        BY <1>1, <1>3, <1>8, <2>2, <3>3
      <4> QED
        BY <4>1 DEF InList
    <3> QED
      BY <3>1, <3>2, <3>3 DEF item
  <2> QED
    BY <1>8, <2>1, <2>2
<1>13. NothingUnfilled'
  <2> SUFFICES ASSUME NEW i \in DOMAIN loop'.rows, loop'.rows[i].answer /= "unasked",
                      NEW v \in loop'.rows[i].item.needs
               PROVE  \E j \in 1..(i - 1) : loop'.rows[j].answer = "right" /\ v \in loop'.rows[j].item.saves
    BY DEF NothingUnfilled, Asked, SavedBefore
  <2>1. CASE i \in 1..n
    <3>1. i \in Asked /\ v \in loop.rows[i].item.needs
      BY <1>8, <2>1 DEF Asked
    <3>2. v \in SavedBefore(i)
      BY <3>1 DEF LoopInv, NothingUnfilled
    <3>3. PICK j \in 1..(i - 1) : loop.rows[j].answer = "right" /\ v \in loop.rows[j].item.saves
      BY <3>2 DEF SavedBefore
    <3>4. j \in 1..n
      BY <1>1, <2>1, <3>3
    <3> QED
      BY <1>8, <3>3, <3>4
  <2>2. CASE i = n + 1
    <3>1. answer /= "unasked" /\ v \in item.needs
      BY <1>3, <1>8, <2>2
    <3>2. PICK j \in 1..n : loop.rows[j].answer = "right" /\ v \in loop.rows[j].item.saves
      BY <1>1, <3>1 DEF Had, item
    <3>3. j \in 1..(i - 1)
      BY <1>1, <2>2, <3>2
    <3> QED
      BY <1>8, <3>2, <3>3
  <2> QED
    BY <1>8, <2>1, <2>2
<1>14. SavedInv'
  <2> SUFFICES ASSUME NEW v \in Owners
               PROVE  v \in loop'.saved <=>
                        \E i \in DOMAIN loop'.rows : loop'.rows[i].answer = "right" /\ v \in loop'.rows[i].item.saves
    BY DEF SavedInv
  <2>1. v \in loop.saved <=> \E i \in 1..n : loop.rows[i].answer = "right" /\ v \in loop.rows[i].item.saves
    BY <1>1 DEF LoopInv, SavedInv
  <2>2. v \in loop'.saved <=> v \in loop.saved \/ (answer = "right" /\ v \in item.saves)
    BY <1>7 DEF saved
  <2> QED
    BY <1>3, <1>8, <2>1, <2>2
<1>15. PassedInv'
  <2> SUFFICES ASSUME loop.mode \in Linked, NEW p \in 1..(Passed + 1)
               PROVE  Cause' \/ \E i \in DOMAIN loop'.rows : loop'.rows[i].item = Plan[p]
    BY <1>7, <1>9 DEF PassedInv
  <2>1. CASE p = Passed + 1
    <3>1. loop'.rows[n + 1].item = Plan[p] /\ n + 1 \in DOMAIN loop'.rows
      BY <1>1, <1>3, <1>8, <2>1
    <3> QED
      BY <3>1
  <2>2. CASE p \in 1..Passed
    <3>1. Cause \/ \E i \in 1..n : loop.rows[i].item = Plan[p]
      BY <1>1, <2>2 DEF LoopInv, PassedInv
    <3> QED
      BY <1>8, <1>11, <3>1
  <2>3. p = Passed + 1 \/ p \in 1..Passed
    BY <1>1
  <2> QED
    BY <2>1, <2>2, <2>3
<1>16. EndInv'
  BY <1>7 DEF LoopInv, EndInv
<1> QED
  BY <1>7, <1>9, <1>10, <1>12, <1>13, <1>14, <1>15, <1>16 DEF LoopInv

LEMMA DropHolds ==
  ASSUME LoopInv, Drop
  PROVE  LoopInv'
<1> DEFINE item == Head(loop.left)
<1>1. /\ loop.at = "act" /\ loop.left /= <<>> /\ ~GateHolds(item)
      /\ loop' = [loop EXCEPT !.left = Tail(@)]
  BY DEF Drop
<1>2. /\ loop \in LoopRecord /\ Tail(loop.left) \in Seq(AnyItem) /\ Passed \in Nat
  BY <1>1, HeadFacts, PlanFacts DEF LoopInv
<1>3. /\ loop' \in LoopRecord /\ loop'.left = Tail(loop.left) /\ loop'.mode = loop.mode
      /\ loop'.rows = loop.rows /\ loop'.saved = loop.saved /\ loop'.at = loop.at
      /\ loop'.release = loop.release /\ loop'.failures = loop.failures /\ loop'.exit = loop.exit
  BY <1>1, <1>2 DEF LoopRecord
<1>4. PlanInv' /\ Passed' = Passed + 1 /\ Plan' = Plan
  BY <1>1, <1>3, HeadFacts
<1>5. RowInv' /\ SavedInv' /\ NothingUnfilled' /\ SkipsHaveCause' /\ (Cause => Cause')
  BY <1>3, <1>4 DEF LoopInv, RowInv, SavedInv, NothingUnfilled, SkipsHaveCause, Asked, SavedBefore, Cause
<1>6. PassedInv'
  <2> SUFFICES ASSUME loop.mode \in Linked, NEW p \in 1..(Passed + 1)
               PROVE  Cause' \/ \E i \in DOMAIN loop'.rows : loop'.rows[i].item = Plan[p]
    BY <1>3, <1>4 DEF PassedInv
  <2>1. Cause
    BY <1>1, ShutHasCause
  <2> QED
    BY <1>5, <2>1
<1>7. EndInv'
  BY <1>1, <1>3 DEF LoopInv, EndInv
<1> QED
  BY <1>3, <1>4, <1>5, <1>6, <1>7 DEF LoopInv

LEMMA SkipHolds ==
  ASSUME LoopInv, Skip
  PROVE  LoopInv'
<1> DEFINE item == Head(loop.left)
<1>1. /\ loop.at = "act" /\ loop.left /= <<>>
      /\ IF GateHolds(item) THEN LacksInput(item) \/ NotStarted(item) ELSE item.whenShut = "skip"
      /\ Report(item, "SKIP", "unasked")
  BY DEF Skip
<1>2. loop \in LoopRecord /\ item \in InList(Plan) /\ PlanFits(loop.mode, Plan)
  BY <1>1, HeadFacts, PlanFacts DEF LoopInv
<1>3. Cause \/ item.of \in InList(Registry) \ ValidatedOnes
  <2>1. CASE ~GateHolds(item)
    <3>1. loop.mode \in Linked
      BY <1>1, <1>2, <2>1 DEF PlanFits
    <3> QED
      BY <1>1, <2>1, <3>1, ShutHasCause
  <2>2. CASE LacksInput(item)
    BY <1>1, <2>2, LackHasCause
  <2>3. CASE NotStarted(item)
    BY <1>2, <2>3 DEF NotStarted, PlanFits
  <2> QED
    BY <1>1, <2>1, <2>2, <2>3
<1>4. loop' = [loop EXCEPT
         !.left = Tail(@),
         !.rows = Append(@, [item |-> Head(loop.left), out |-> "SKIP", answer |-> "unasked"]),
         !.saved = IF "unasked" = "right" THEN @ \cup Head(loop.left).saves ELSE @]
  BY <1>1, <1>2 DEF Report, LoopRecord
<1> QED
  BY <1>1, <1>3, <1>4, RowAdded

LEMMA AskHolds ==
  ASSUME LoopInv, NEW answer \in {"right", "wrong", "unsaved", "absent", "raises", "gone"}, Ask(answer)
  PROVE  LoopInv'
<1> DEFINE item == Head(loop.left)
<1>1. /\ loop.at = "act" /\ loop.left /= <<>> /\ GateHolds(item) /\ ~LacksInput(item)
      /\ answer \in WorldAnswers(item)
      /\ IF answer = "raises" THEN loop' = [loop EXCEPT !.at = "crashed", !.exit = 1]
         ELSE loop' = [loop EXCEPT
                !.left = Tail(@),
                !.rows = Append(@, [item |-> item, out |-> Outcome(item, answer), answer |-> answer]),
                !.saved = IF answer = "right" THEN @ \cup item.saves ELSE @]
  BY DEF Ask
<1>2. loop \in LoopRecord
  BY DEF LoopInv
<1>3. CASE answer = "raises"
  <2>0. loop' = [loop EXCEPT !.at = "crashed", !.exit = 1]
    BY <1>1, <1>3
  <2>1. /\ loop' \in LoopRecord /\ loop'.left = loop.left /\ loop'.mode = loop.mode
        /\ loop'.rows = loop.rows /\ loop'.saved = loop.saved /\ loop'.at = "crashed"
        /\ loop'.release = loop.release
    <3> HIDE DEF item
    <3> QED
      BY <1>2, <2>0 DEF LoopRecord
  <2>2. Plan' = Plan /\ Passed' = Passed
    BY <2>1 DEF Plan, Passed
  <2>3. PlanInv' /\ SavedInv' /\ NothingUnfilled' /\ SkipsHaveCause' /\ PassedInv'
    BY <2>1, <2>2 DEF LoopInv, PlanInv, SavedInv, NothingUnfilled, SkipsHaveCause, Asked, SavedBefore,
                      PassedInv, Cause
  <2>4. RowInv'
    BY <1>1, <2>1, <2>2 DEF LoopInv, RowInv
  <2>5. EndInv'
    BY <1>1, <2>1 DEF LoopInv, EndInv
  <2> QED
    BY <2>1, <2>3, <2>4, <2>5 DEF LoopInv
<1>4. CASE answer /= "raises"
  <2>1. \A v \in item.needs : Had(v)
    BY <1>1, AskedIsFed
  <2> QED
    BY <1>1, <1>4, <2>1, RowAdded
<1> QED
  BY <1>3, <1>4

LEMMA AdviseHolds ==
  ASSUME LoopInv, NEW answer \in {"right", "wrong", "unsaved", "absent", "raises", "gone"}, Advise(answer)
  PROVE  LoopInv'
<1> DEFINE n == Len(loop.rows)
           row == [item |-> Selection, out |-> Outcome(Selection, answer), answer |-> answer]
           failed == {i \in DOMAIN loop.rows : loop.rows[i].out = "FAIL"}
           rows == IF loop.mode /= "mcp" THEN loop.rows ELSE Append(loop.rows, row)
<1>1. /\ loop.at = "act" /\ loop.left = <<>> /\ answer \in WorldAnswers(Selection)
      /\ loop' = [loop EXCEPT !.at = "decide", !.failures = Cardinality(failed), !.rows = rows]
  BY DEF Advise, Selection, LoopInv, LoopRecord
<1>2. /\ loop \in LoopRecord /\ loop.rows \in Seq(LoopRow) /\ n \in Nat /\ DOMAIN loop.rows = 1..n
  BY PlanFacts DEF LoopInv
<1>3. /\ Selection \in AnyItem /\ Selection.kind = "selection" /\ Selection.needs = {}
      /\ Selection.saves = {}
  BY KindFacts, PlaceFacts, LoneFacts DEF Selection
<1>4. answer \in {"right", "wrong", "absent"}
  BY <1>1, <1>3 DEF WorldAnswers
<1>5. Outcome(Selection, answer) \in {"OK", "SKIP", "NOTE"}
  BY <1>3, <1>4 DEF Outcome
<1>6. /\ row \in LoopRow /\ row.item = Selection /\ row.answer = answer
      /\ row.out = Outcome(Selection, answer)
  BY <1>3, <1>4, <1>5 DEF LoopRow
<1>7. /\ IsFiniteSet(failed) /\ Cardinality(failed) \in Nat
      /\ Cardinality(failed) = 0 => failed = {}
  <2>1. IsFiniteSet(1..n)
    BY <1>2, FS_Interval
  <2>2. failed \subseteq 1..n
    BY <1>2
  <2>3. IsFiniteSet(failed)
    BY <2>1, <2>2, FS_Subset
  <2> QED
    BY <2>3, FS_CardinalityType, FS_EmptySet
<1> HIDE DEF n, row
<1>8. /\ rows \in Seq(LoopRow)
      /\ \A i \in 1..n : i \in DOMAIN rows /\ rows[i] = loop.rows[i]
      /\ \A i \in DOMAIN rows : i \in 1..n \/ rows[i] = row
  <2>1. CASE loop.mode /= "mcp"
    BY <1>2, <2>1
  <2>2. CASE loop.mode = "mcp"
    <3>1. /\ Append(loop.rows, row) \in Seq(LoopRow) /\ DOMAIN Append(loop.rows, row) = 1..(n + 1)
          /\ \A i \in 1..n : Append(loop.rows, row)[i] = loop.rows[i]
          /\ Append(loop.rows, row)[n + 1] = row
      BY <1>2, <1>6 DEF n
    <3>2. \A i \in 1..(n + 1) : i \in 1..n \/ i = n + 1
      BY <1>2
    <3>3. \A i \in 1..n : i \in 1..(n + 1)
      BY <1>2
    <3> QED
      BY <2>2, <3>1, <3>2, <3>3
  <2> QED
    BY <2>1, <2>2
<1> HIDE DEF rows, failed
<1>9. /\ loop' \in LoopRecord /\ loop'.left = loop.left /\ loop'.mode = loop.mode
      /\ loop'.rows = rows /\ loop'.saved = loop.saved /\ loop'.at = "decide"
      /\ loop'.release = loop.release /\ loop'.failures = Cardinality(failed)
  BY <1>1, <1>2, <1>7, <1>8 DEF LoopRecord
<1>10. Plan' = Plan /\ Passed' = Passed
  BY <1>9 DEF Plan, Passed
<1>11. PlanInv'
  BY <1>9, <1>10 DEF LoopInv, PlanInv
<1>12. RowInv'
  <2>1. ASSUME NEW i \in DOMAIN rows
        PROVE  LET r == rows[i] IN
               /\ r.item \in InList(Plan) \/ r.item = Selection
               /\ r.answer \in (WorldAnswers(r.item) \ {"raises"}) \cup {"unasked"}
               /\ r.out = IF r.answer = "unasked" THEN "SKIP" ELSE Outcome(r.item, r.answer)
    <3>1. CASE i \in 1..n
      BY <1>2, <1>8, <3>1 DEF LoopInv, RowInv
    <3>2. CASE rows[i] = row
      BY <1>1, <1>4, <1>6, <3>2
    <3> QED
      BY <1>8, <3>1, <3>2
  <2> QED
    BY <1>9, <1>10, <2>1 DEF RowInv
<1>13. SavedInv'
  <2> SUFFICES ASSUME NEW v \in Owners
               PROVE  v \in loop'.saved <=>
                        \E i \in DOMAIN loop'.rows : loop'.rows[i].answer = "right" /\ v \in loop'.rows[i].item.saves
    BY DEF SavedInv
  <2>1. v \in loop.saved <=> \E i \in 1..n : loop.rows[i].answer = "right" /\ v \in loop.rows[i].item.saves
    BY <1>2 DEF LoopInv, SavedInv
  <2> QED
    BY <1>3, <1>6, <1>8, <1>9, <2>1
<1>14. NothingUnfilled'
  <2> SUFFICES ASSUME NEW i \in DOMAIN rows, rows[i].answer /= "unasked",
                      NEW v \in rows[i].item.needs
               PROVE  \E j \in 1..(i - 1) : rows[j].answer = "right" /\ v \in rows[j].item.saves
    BY <1>9 DEF NothingUnfilled, Asked, SavedBefore
  <2>1. i \in 1..n
    BY <1>3, <1>6, <1>8
  <2>2. v \in SavedBefore(i)
    BY <1>2, <1>8, <2>1 DEF LoopInv, NothingUnfilled, Asked
  <2>3. PICK j \in 1..(i - 1) : loop.rows[j].answer = "right" /\ v \in loop.rows[j].item.saves
    BY <2>2 DEF SavedBefore
  <2>4. j \in 1..n
    BY <1>2, <2>1, <2>3
  <2> QED
    BY <1>8, <2>3, <2>4
<1>15. SkipsHaveCause'
  <2> SUFFICES ASSUME NEW i \in DOMAIN rows, rows[i].answer = "unasked"
               PROVE  \E j \in 1..i :
                        \/ rows[j].out = "FAIL"
                        \/ rows[j].item.of \in {Registry[k] : k \in DOMAIN Registry} \ ValidatedOnes
    BY <1>9 DEF SkipsHaveCause
  <2>1. i \in 1..n
    BY <1>4, <1>6, <1>8
  <2>2. PICK j \in 1..i : \/ loop.rows[j].out = "FAIL"
                          \/ loop.rows[j].item.of \in {Registry[k] : k \in DOMAIN Registry} \ ValidatedOnes
    BY <1>2, <1>8, <2>1 DEF LoopInv, SkipsHaveCause
  <2>3. j \in 1..n
    BY <1>2, <2>1, <2>2
  <2> QED
    BY <1>8, <2>2, <2>3
<1>16. PassedInv'
  <2> SUFFICES ASSUME loop.mode \in Linked, NEW p \in 1..Passed
               PROVE  Cause' \/ \E i \in DOMAIN rows : rows[i].item = Plan[p]
    BY <1>9, <1>10 DEF PassedInv
  <2>1. CASE Cause
    BY <1>2, <1>8, <1>9, <2>1 DEF Cause
  <2>2. CASE \E i \in 1..n : loop.rows[i].item = Plan[p]
    BY <1>8, <2>2
  <2> QED
    BY <1>2, <2>1, <2>2 DEF LoopInv, PassedInv
<1>17. EndInv'
  <2>1. ASSUME Cardinality(failed) = 0, NEW i \in DOMAIN rows
        PROVE  rows[i].out /= "FAIL"
    <3>1. CASE i \in 1..n
      BY <1>2, <1>7, <1>8, <2>1, <3>1 DEF failed
    <3>2. CASE rows[i] = row
      BY <1>5, <1>6, <3>2
    <3> QED
      BY <1>8, <3>1, <3>2
  <2>2. loop.release /= "READY"
    BY <1>1 DEF LoopInv, EndInv
  <2> QED
    BY <1>1, <1>9, <2>1, <2>2 DEF EndInv
<1> QED
  BY <1>9, <1>11, <1>12, <1>13, <1>14, <1>15, <1>16, <1>17 DEF LoopInv

LEMMA ExitFacts ==
  \A failures \in Nat : LET exit == IF failures > 0 THEN 1 ELSE 0 IN
    exit \in {0, 1} /\ (exit = 0 => failures = 0)
OBVIOUS

LEMMA RowsKept ==
  ASSUME loop'.rows = loop.rows, NothingUnfilled
  PROVE  NothingUnfilled'
BY DEF NothingUnfilled, Asked, SavedBefore

LEMMA ConcludeHolds ==
  ASSUME LoopInv, NEW decision \in {"Accept", "Partially Accept", "Reject", "Deferred"}, Conclude(decision)
  PROVE  LoopInv'
<1> DEFINE release == IF loop.mode = "cloud" THEN ReleaseDecision(decision, loop.failures) ELSE loop.release
           exit == IF loop.failures > 0 THEN 1 ELSE 0
<1>1. loop.at = "decide" /\ loop \in LoopRecord /\ loop.failures \in Nat
  BY DEF LoopInv, LoopRecord, Conclude
<1>2. loop' = [loop EXCEPT !.at = "done", !.decision = decision, !.release = release, !.exit = exit]
  BY <1>1 DEF Conclude, LoopRecord
<1>3. /\ release \in Releases
      /\ release = "READY" => loop.mode = "cloud" /\ decision = "Accept" /\ loop.failures = 0
  <2>1. loop.release \in Releases /\ loop.release /= "READY"
    BY <1>1 DEF LoopInv, LoopRecord, EndInv
  <2> QED
    BY <2>1 DEF ReleaseDecision, Releases
<1>4. exit \in {0, 1} /\ (exit = 0 => loop.failures = 0)
  BY <1>1, ExitFacts
<1> HIDE DEF release, exit
<1>5. /\ loop' \in LoopRecord /\ loop'.left = loop.left /\ loop'.mode = loop.mode
      /\ loop'.rows = loop.rows /\ loop'.saved = loop.saved /\ loop'.at = "done"
      /\ loop'.release = release /\ loop'.failures = loop.failures /\ loop'.exit = exit
      /\ loop'.decision = decision
  BY <1>1, <1>2, <1>3, <1>4 DEF LoopRecord, Decisions
<1>6. Plan' = Plan /\ Passed' = Passed
  BY <1>5 DEF Plan, Passed
<1>7. PlanInv' /\ SavedInv' /\ NothingUnfilled' /\ SkipsHaveCause' /\ PassedInv'
  <2>1. PlanInv'
    BY <1>5, <1>6 DEF LoopInv, PlanInv
  <2>2. SavedInv'
    BY <1>5 DEF LoopInv, SavedInv
  <2>3. NothingUnfilled'
    BY <1>5, RowsKept DEF LoopInv
  <2>4. SkipsHaveCause'
    BY <1>5 DEF LoopInv, SkipsHaveCause
  <2>5. PassedInv'
    BY <1>5, <1>6 DEF LoopInv, PassedInv, Cause
  <2> QED
    BY <2>1, <2>2, <2>3, <2>4, <2>5
<1>8. RowInv'
  BY <1>5, <1>6 DEF LoopInv, RowInv
<1>9. EndInv'
  BY <1>1, <1>3, <1>4, <1>5 DEF LoopInv, EndInv
<1> QED
  BY <1>5, <1>7, <1>8, <1>9 DEF LoopInv

LEMMA LoopStart ==
  ASSUME LoopInit
  PROVE  LoopInv
<1>1. PICK mode \in Modes, interactive \in BOOLEAN :
        loop = [mode |-> mode, interactive |-> interactive, left |-> PlanOf(mode), rows |-> <<>>,
                saved |-> {}, failures |-> 0, at |-> "act", decision |-> "none",
                release |-> "none", exit |-> 0]
  BY DEF LoopInit
<1>2. PlanOf(mode) \in Seq(AnyItem)
  BY EveryPlanFits DEF PlanFits
<1>3. /\ loop.left = PlanOf(mode) /\ loop.mode = mode /\ loop.rows = <<>> /\ loop.saved = {}
      /\ loop.at = "act" /\ loop.release = "none"
  BY <1>1
<1>4. loop \in LoopRecord
  <2>1. <<>> \in Seq(LoopRow)
    OBVIOUS
  <2> QED
    BY <1>1, <1>2, <2>1 DEF LoopRecord, Decisions, Releases
<1>5. Plan = loop.left /\ Passed = 0
  <2>1. Plan = loop.left
    BY <1>3 DEF Plan
  <2>2. Len(loop.left) \in Nat
    BY <1>2, <1>3
  <2> QED
    BY <2>1, <2>2 DEF Passed
<1>6. PlanInv
  <2>1. Len(loop.left) \in Nat /\ DOMAIN loop.left = 1..Len(loop.left)
    BY <1>2, <1>3
  <2> QED
    BY <1>5, <2>1 DEF PlanInv
<1>7. DOMAIN loop.rows = {}
  BY <1>3
<1>8. RowInv /\ SavedInv /\ NothingUnfilled /\ SkipsHaveCause
  BY <1>3, <1>7 DEF RowInv, SavedInv, NothingUnfilled, SkipsHaveCause, Asked
<1>9. PassedInv
  BY <1>5 DEF PassedInv
<1>10. EndInv
  BY <1>3 DEF EndInv
<1> QED
  BY <1>4, <1>6, <1>8, <1>9, <1>10 DEF LoopInv

LEMMA LoopStep ==
  ASSUME LoopInv, [LoopNext]_loop
  PROVE  LoopInv'
<1>1. CASE Drop
  BY <1>1, DropHolds
<1>2. CASE Skip
  BY <1>2, SkipHolds
<1>3. ASSUME NEW a \in {"right", "wrong", "unsaved", "absent", "raises", "gone"}, Ask(a)
      PROVE  LoopInv'
  BY <1>3, AskHolds
<1>4. ASSUME NEW a \in {"right", "wrong", "unsaved", "absent", "raises", "gone"}, Advise(a)
      PROVE  LoopInv'
  BY <1>4, AdviseHolds
<1>5. ASSUME NEW d \in {"Accept", "Partially Accept", "Reject", "Deferred"}, Conclude(d)
      PROVE  LoopInv'
  BY <1>5, ConcludeHolds
<1>6. CASE UNCHANGED loop
  <2>1. Plan' = Plan /\ Passed' = Passed
    BY <1>6 DEF Plan, Passed
  <2> QED
    BY <1>6, <2>1 DEF LoopInv, PlanInv, RowInv, SavedInv, NothingUnfilled, SkipsHaveCause, Asked,
                      SavedBefore, PassedInv, Cause, EndInv
<1> QED
  BY <1>1, <1>2, <1>3, <1>4, <1>5, <1>6 DEF LoopNext

LEMMA LoopTells ==
  ASSUME LoopInv
  PROVE  FailuresAreTold
<1>1. ZeroExitMeansSound
  <2> SUFFICES ASSUME loop.at = "done", loop.exit = 0, NEW i \in DOMAIN loop.rows,
                      loop.rows[i].answer /= "unasked", loop.rows[i].item.kind /= "selection",
                      loop.rows[i].answer \notin {"right", "absent"}
               PROVE  FALSE
    BY DEF ZeroExitMeansSound, Asked
  <2>1. loop.rows[i].out /= "FAIL"
    BY DEF LoopInv, EndInv
  <2>2. loop.rows[i].out = Outcome(loop.rows[i].item, loop.rows[i].answer)
    BY DEF LoopInv, RowInv
  <2> QED
    BY <2>1, <2>2, WorldFacts
<1>2. ReadyWasEarned
  <2> SUFFICES ASSUME loop.release = "READY"
               PROVE  /\ loop.decision = "Accept"
                      /\ \A name \in CloudNames :
                           \E i \in RowsOf(Place(name)) : loop.rows[i].answer = "right"
    BY DEF ReadyWasEarned, CloudNames
  <2>1. /\ loop.at = "done" /\ loop.mode = "cloud" /\ loop.decision = "Accept" /\ loop.failures = 0
        /\ loop.left = <<>> /\ \A i \in DOMAIN loop.rows : loop.rows[i].out /= "FAIL"
    BY DEF LoopInv, EndInv
  <2>2. Plan = CloudPlan
    BY <2>1 DEF Plan, PlanOf
  <2>3. Passed = Len(Plan) /\ DOMAIN Plan = 1..Len(Plan)
    <3>1. Len(Plan) \in Nat /\ DOMAIN Plan = 1..Len(Plan)
      BY PlanFacts
    <3>2. Len(loop.left) = 0
      BY <2>1
    <3> QED
      BY <3>1, <3>2 DEF Passed
  <2>4. ~Cause
    <3>1. 0 \notin InList(Registry)
      BY LoopAssumption DEF InList
    <3>2. \A x \in InList(Plan) : x.of = 0
      BY <2>1, PlanFacts DEF PlanFits
    <3>3. Selection.of = 0
      BY KindFacts, PlaceFacts, LoneFacts DEF Selection
    <3>4. \A j \in DOMAIN loop.rows : loop.rows[j].item.of = 0
      BY <3>2, <3>3 DEF LoopInv, RowInv
    <3> QED
      BY <2>1, <3>1, <3>4 DEF Cause
  <2>5. ASSUME NEW name \in CloudNames
        PROVE  \E i \in RowsOf(Place(name)) : loop.rows[i].answer = "right"
    <3>1. PICK p \in DOMAIN Plan : Plan[p].name = Place(name) /\ AlwaysAnswered(Plan[p])
      BY <2>2, CloudItems
    <3>2. PICK i \in DOMAIN loop.rows : loop.rows[i].item = Plan[p]
      BY <2>1, <2>3, <2>4 DEF LoopInv, PassedInv, Linked
    <3>3. loop.rows[i].answer = "right"
      BY <2>4, <3>1, <3>2, AnswerFacts
    <3>4. i \in RowsOf(Place(name))
      BY <3>1, <3>2 DEF RowsOf
    <3> QED
      BY <3>3, <3>4
  <2> QED
    BY <2>1, <2>5
<1> QED
  BY <1>1, <1>2 DEF LoopInv, FailuresAreTold

\* agentic_loop.py: whatever the registry, the answers and the decision, a wrong
\* answer is a failure of the report and of the exit code, what was not asked
\* has its cause above it, and READY was accepted over a report that passed.
THEOREM FailuresStayTold == LoopInit /\ [][LoopNext]_loop => []FailuresAreTold
<1>1. LoopInit => LoopInv
  BY LoopStart
<1>2. LoopInv /\ [LoopNext]_loop => LoopInv'
  BY LoopStep
<1>3. LoopInv => FailuresAreTold
  BY LoopTells
<1> QED
  BY <1>1, <1>2, <1>3, PTL


-----------------------------------------------------------------------------
(* CatalogueSearch: for any prices, names and schedules                     *)

TenRule(f) == f = [n \in Nat |-> IF n = 0 THEN 1 ELSE 10 * f[n - 1]]
\* The powers up to the m-th.
TenUpTo(g, m) ==
  /\ g = [n \in 0..m |-> g[n]] /\ \A n \in 0..m : g[n] \in Nat
  /\ g[0] = 1 /\ \A n \in 0..m : n > 0 => g[n] = 10 * g[n - 1]

LEMMA TenUpToAgree ==
  ASSUME NEW n \in Nat, NEW m1 \in Nat, NEW m2 \in Nat, n <= m1, n <= m2,
         NEW g1, TenUpTo(g1, m1), NEW g2, TenUpTo(g2, m2)
  PROVE  g1[n] = g2[n]
<1> DEFINE Same == {k \in Nat : k <= m1 /\ k <= m2 => g1[k] = g2[k]}
<1>1. 0 \in Same
  BY DEF TenUpTo
<1>2. ASSUME NEW k \in Same PROVE k + 1 \in Same
  <2> SUFFICES ASSUME k + 1 <= m1, k + 1 <= m2 PROVE g1[k + 1] = g2[k + 1]
    OBVIOUS
  <2>1. k \in Nat /\ k <= m1 /\ k <= m2 /\ g1[k] = g2[k]
    OBVIOUS
  <2>2. PICK l \in Nat : l = k + 1 /\ l \in 0..m1 /\ l \in 0..m2 /\ l - 1 = k /\ l > 0
    BY <2>1
  <2>3. g1[l] = 10 * g1[l - 1] /\ g2[l] = 10 * g2[l - 1]
    BY <2>2 DEF TenUpTo
  <2> QED
    BY <2>1, <2>2, <2>3
<1> HIDE DEF Same
<1>3. Same = Nat
  <2>1. Same \in SUBSET Nat
    BY DEF Same
  <2> QED
    BY <1>1, <1>2, <2>1, Induction
<1> QED
  BY <1>3 DEF Same

LEMMA TenUpToExists ==
  ASSUME NEW m \in Nat
  PROVE  \E g : TenUpTo(g, m)
<1> DEFINE Some == {k \in Nat : \E g : TenUpTo(g, k)}
<1>1. 0 \in Some
  <2>1. TenUpTo([n \in 0..0 |-> 1], 0)
    BY DEF TenUpTo
  <2> QED
    BY <2>1
<1>2. ASSUME NEW k \in Some PROVE k + 1 \in Some
  <2>1. k \in Nat
    OBVIOUS
  <2>2. PICK g : TenUpTo(g, k)
    OBVIOUS
  <2> DEFINE h == [n \in 0..k + 1 |-> IF n = k + 1 THEN 10 * g[k] ELSE g[n]]
  <2>3. \A n \in 0..k + 1 : h[n] \in Nat
    BY <2>1, <2>2 DEF TenUpTo
  <2>4. h[0] = 1
    BY <2>1, <2>2 DEF TenUpTo
  <2>5. ASSUME NEW n \in 0..k + 1, n > 0 PROVE h[n] = 10 * h[n - 1]
    <3>1. n - 1 \in 0..k /\ n - 1 /= k + 1 /\ n - 1 \in 0..k + 1
      BY <2>1, <2>5
    <3>2. h[n - 1] = g[n - 1]
      BY <3>1
    <3>3. CASE n = k + 1
      BY <2>1, <3>2, <3>3
    <3>4. CASE n /= k + 1
      <4>1. n \in 0..k
        BY <2>1, <3>4
      <4> QED
        BY <2>2, <2>5, <3>2, <3>4, <4>1 DEF TenUpTo
    <3> QED
      BY <3>3, <3>4
  <2>6. h = [n \in 0..k + 1 |-> h[n]]
    OBVIOUS
  <2> HIDE DEF h
  <2>7. TenUpTo(h, k + 1)
    BY <2>3, <2>4, <2>5, <2>6 DEF TenUpTo
  <2> QED
    BY <2>1, <2>7
<1> HIDE DEF Some
<1>3. Some = Nat
  <2>1. Some \in SUBSET Nat
    BY DEF Some
  <2> QED
    BY <1>1, <1>2, <2>1, Induction
<1> QED
  BY <1>3 DEF Some

\* The recursion that defines the powers of ten has a solution.
LEMMA TenToExists == TenRule(TenTo)
<1> DEFINE up(m) == CHOOSE g : TenUpTo(g, m)
           f == [n \in Nat |-> up(n)[n]]
<1>1. \A m \in Nat : TenUpTo(up(m), m)
  BY TenUpToExists
<1> HIDE DEF up
<1>2. ASSUME NEW n \in Nat PROVE f[n] = IF n = 0 THEN 1 ELSE 10 * f[n - 1]
  <2>1. CASE n = 0
    BY <1>1, <2>1 DEF TenUpTo
  <2>2. CASE n /= 0
    <3>1. n - 1 \in Nat /\ n - 1 <= n /\ n \in 0..n /\ n > 0
      BY <2>2
    <3>2. up(n)[n] = 10 * up(n)[n - 1]
      BY <1>1, <3>1 DEF TenUpTo
    <3>3. up(n)[n - 1] = up(n - 1)[n - 1]
      BY <1>1, <3>1, TenUpToAgree
    <3> QED
      BY <2>2, <3>1, <3>2, <3>3
  <2> QED
    BY <2>1, <2>2
<1>3. TenRule(f)
  <2> HIDE DEF f
  <2>1. f = [n \in Nat |-> f[n]]
    BY DEF f
  <2> QED
    BY <1>2, <2>1 DEF TenRule
<1>4. TenTo = CHOOSE h : TenRule(h)
  BY DEF TenTo, TenRule
<1> QED
  BY <1>3, <1>4

LEMMA TenFacts ==
  /\ TenTo[0] = 1
  /\ \A n \in Nat : TenTo[n] \in Nat \ {0} /\ TenTo[n + 1] = 10 * TenTo[n] /\ n < TenTo[n]
<1>1. \A n \in Nat : TenTo[n] = IF n = 0 THEN 1 ELSE 10 * TenTo[n - 1]
  BY TenToExists DEF TenRule
<1>2. \A n \in Nat : TenTo[n + 1] = 10 * TenTo[n]
  <2>1. \A n \in Nat : n + 1 \in Nat /\ n + 1 /= 0 /\ n + 1 - 1 = n
    OBVIOUS
  <2> QED
    BY <1>1, <2>1
<1> DEFINE Large == {n \in Nat : TenTo[n] \in Nat \ {0} /\ n < TenTo[n]}
<1>3. 0 \in Large
  BY <1>1
<1>4. ASSUME NEW n \in Large PROVE n + 1 \in Large
  BY <1>2
<1>5. Large = Nat
  <2> HIDE DEF Large
  <2>1. Large \in SUBSET Nat
    BY DEF Large
  <2> QED
    BY <1>3, <1>4, <2>1, Induction
<1> QED
  BY <1>1, <1>2, <1>5

LEMMA TenGrows ==
  ASSUME NEW m \in Nat, NEW n \in Nat, m <= n
  PROVE  TenTo[m] <= TenTo[n]
<1> DEFINE Far == {k \in Nat : TenTo[m] <= TenTo[m + k]}
<1>1. 0 \in Far
  BY TenFacts
<1>2. ASSUME NEW k \in Far PROVE k + 1 \in Far
  <2>1. k \in Nat /\ TenTo[m] <= TenTo[m + k] /\ m + k \in Nat /\ m + (k + 1) = m + k + 1
    OBVIOUS
  <2>2. TenTo[m + k + 1] = 10 * TenTo[m + k] /\ TenTo[m + k] \in Nat /\ TenTo[m] \in Nat
    BY <2>1, TenFacts
  <2> QED
    BY <2>1, <2>2
<1>3. Far = Nat
  <2> HIDE DEF Far
  <2>1. Far \in SUBSET Nat
    BY DEF Far
  <2> QED
    BY <1>1, <1>2, <2>1, Induction
<1>4. n - m \in Nat /\ m + (n - m) = n
  OBVIOUS
<1>5. n - m \in Far
  BY <1>3, <1>4
<1> QED
  BY <1>4, <1>5

\* The number of digits.
LEMMA DigitsFacts ==
  ASSUME NEW n \in Nat
  PROVE  /\ Digits(n) \in Nat \ {0} /\ n < TenTo[Digits(n)]
         /\ Digits(n) = 1 \/ n >= TenTo[Digits(n) - 1]
<1> DEFINE Enough == {k \in 1..n + 1 : n < TenTo[k]}
<1>1. n + 1 \in Enough
  <2>1. n + 1 \in Nat /\ n + 1 < TenTo[n + 1] /\ TenTo[n + 1] \in Nat
    BY TenFacts
  <2> QED
    BY <2>1
<1>2. PICK k \in Enough : \A l \in Enough : k <= l
  <2>1. Enough \in SUBSET Nat /\ Enough # {}
    BY <1>1
  <2> HIDE DEF Enough
  <2> QED
    BY <2>1, Least
<1>3. k = 1 \/ n >= TenTo[k - 1]
  <2> SUFFICES ASSUME k /= 1 PROVE n >= TenTo[k - 1]
    OBVIOUS
  <2>1. k - 1 \in 1..n + 1 /\ ~(k <= k - 1) /\ k - 1 \in Nat
    OBVIOUS
  <2>2. ~(n < TenTo[k - 1])
    BY <1>2, <2>1
  <2> QED
    BY <2>1, <2>2, TenFacts
<1>4. \E l \in 1..n + 1 : n < TenTo[l] /\ (l = 1 \/ n >= TenTo[l - 1])
  BY <1>2, <1>3
<1>5. Digits(n) \in 1..n + 1 /\ n < TenTo[Digits(n)] /\ (Digits(n) = 1 \/ n >= TenTo[Digits(n) - 1])
  BY <1>4 DEF Digits
<1> QED
  BY <1>5

-----------------------------------------------------------------------------
LEMMA MoreTimes ==
  ASSUME NEW d \in Nat, NEW a \in Nat, NEW b \in Nat, a < b
  PROVE  d * a + d <= d * b
<1>1. PICK c \in Nat : b = a + 1 + c
  <2>1. b - a - 1 \in Nat /\ b = a + 1 + (b - a - 1)
    OBVIOUS
  <2> QED
    BY <2>1
<1>2. d * (a + 1 + c) = d * a + d + d * c /\ d * c \in Nat /\ d * a \in Nat
  OBVIOUS
<1> QED
  BY <1>1, <1>2

LEMMA Quotient ==
  ASSUME NEW p \in Nat, NEW d \in Nat \ {0}
  PROVE  /\ p \div d \in Nat /\ (p % d) \in 0..d - 1 /\ p = d * (p \div d) + (p % d)
         /\ \A q \in Nat, r \in 0..d - 1 : p = d * q + r => q = p \div d
<1>1. p \div d \in Nat /\ (p % d) \in 0..d - 1 /\ p = d * (p \div d) + (p % d)
  OBVIOUS
<1>2. ASSUME NEW q \in Nat, NEW r \in 0..d - 1, p = d * q + r PROVE q = p \div d
  <2> PICK e \in Nat : e = p \div d
    BY <1>1
  <2> PICK f \in 0..d - 1 : f = (p % d)
    BY <1>1
  <2>1. d * q + r = d * e + f /\ d * q \in Nat /\ d * e \in Nat
    BY <1>1, <1>2
  <2>2. ~(q < e)
    BY <2>1, MoreTimes
  <2>3. ~(e < q)
    BY <2>1, MoreTimes
  <2> QED
    BY <2>2, <2>3
<1> QED
  BY <1>1, <1>2

LEMMA QuotientIs ==
  ASSUME NEW p \in Nat, NEW d \in Nat \ {0}, NEW q \in Nat, NEW r \in 0..d - 1, p = d * q + r
  PROVE  p \div d = q
BY Quotient

\* A number without its last places.
Cut(p, n) == p \div TenTo[n]

LEMMA LastDigit ==
  ASSUME NEW q \in Nat
  PROVE  q \div 10 \in Nat /\ (q % 10) \in 0..9 /\ q = 10 * (q \div 10) + (q % 10)
OBVIOUS

\* One place more is cut when the quotient loses its last digit.
LEMMA DivideOn ==
  ASSUME NEW p \in Nat, NEW d \in Nat \ {0}
  PROVE  p \div (10 * d) = (p \div d) \div 10
<1>1. PICK q \in Nat : q = p \div d
  BY Quotient
<1>2. PICK r \in 0..d - 1 : p = d * q + r
  BY <1>1, Quotient
<1>3. PICK e \in Nat : e = q \div 10
  BY <1>1, LastDigit
<1>4. PICK f \in 0..9 : q = 10 * e + f
  BY <1>1, <1>3, LastDigit
<1>5. d * f \in Nat /\ d * f <= d * 9 /\ d * 9 = 9 * d /\ d * e \in Nat
  <2>1. d * f <= d * 9
    <3>1. CASE f = 9
      BY <3>1
    <3>2. CASE f < 9
      <4>1. f \in Nat /\ d \in Nat
        BY <1>4
      <4>2. d * f + d <= d * 9
        BY <3>2, <4>1, MoreTimes
      <4> QED
        BY <4>1, <4>2
    <3> QED
      BY <1>4, <3>1, <3>2
  <2> QED
    BY <1>3, <1>4, <2>1
<1>6. PICK g \in Nat : g = d * f
  BY <1>5
<1>7. g + r \in 0..10 * d - 1
  BY <1>2, <1>5, <1>6
<1>8. d * (10 * e + f) = (10 * d) * e + d * f
  BY <1>3, <1>4
<1>9. p = (10 * d) * e + (g + r)
  <2>1. p = d * (10 * e + f) + r
    BY <1>2, <1>4
  <2>2. (10 * d) * e \in Nat
    BY <1>3
  <2> QED
    BY <1>2, <1>6, <1>8, <2>1, <2>2
<1>10. 10 * d \in Nat \ {0}
  OBVIOUS
<1>12. PICK h \in Nat \ {0} : h = 10 * d
  BY <1>10
<1>13. PICK k \in 0..h - 1 : k = g + r
  BY <1>7, <1>12
<1>14. p = h * e + k
  BY <1>9, <1>12, <1>13
<1>15. p \div h = e
  BY <1>3, <1>12, <1>13, <1>14, QuotientIs
<1>11. e = p \div (10 * d)
  BY <1>12, <1>15
<1> QED
  BY <1>1, <1>3, <1>11

LEMMA CutRule ==
  ASSUME NEW p \in Nat, NEW n \in Nat
  PROVE  /\ Cut(p, n) \in Nat /\ (Cut(p, n) % 10) \in 0..9
         /\ Cut(p, n) = 10 * Cut(p, n + 1) + (Cut(p, n) % 10)
         /\ p < TenTo[n] => Cut(p, n) = 0
<1>1. PICK d \in Nat \ {0} : d = TenTo[n] /\ TenTo[n + 1] = 10 * d
  BY TenFacts
<1>2. PICK q \in Nat : q = p \div d
  BY <1>1, Quotient
<1>3. q \div 10 = p \div (10 * d)
  BY <1>1, <1>2, DivideOn
<1>4. Cut(p, n) = q /\ Cut(p, n + 1) = q \div 10
  BY <1>1, <1>2, <1>3 DEF Cut
<1>5. q \div 10 \in Nat /\ (q % 10) \in 0..9 /\ q = 10 * (q \div 10) + (q % 10)
  BY <1>2, LastDigit
<1>6. ASSUME p < d PROVE q = 0
  <2>1. p \in 0..d - 1 /\ d * 0 = 0 /\ d \in Nat
    BY <1>1, <1>6
  <2>2. p = d * 0 + p
    BY <2>1
  <2>3. p \div d = 0
    BY <1>1, <2>1, <2>2, QuotientIs
  <2> QED
    BY <1>2, <2>3
<1> QED
  BY <1>1, <1>2, <1>4, <1>5, <1>6

LEMMA CutWhole == \A p \in Nat : Cut(p, 0) = p
BY TenFacts DEF Cut

LEMMA CutOrder ==
  ASSUME NEW a \in Nat, NEW b \in Nat, a <= b, NEW n \in Nat
  PROVE  Cut(a, n) <= Cut(b, n)
<1>1. PICK d \in Nat \ {0} : d = TenTo[n]
  BY TenFacts
<1>2. PICK p \in Nat : p = a \div d
  BY <1>1, Quotient
<1>3. PICK q \in Nat : q = b \div d
  BY <1>1, Quotient
<1>4. PICK r \in 0..d - 1 : a = d * p + r
  BY <1>1, <1>2, Quotient
<1>5. PICK s \in 0..d - 1 : b = d * q + s
  BY <1>1, <1>3, Quotient
<1>6. d * p \in Nat /\ d * q \in Nat /\ d \in Nat
  BY <1>1, <1>2, <1>3
<1>7. ASSUME q < p PROVE FALSE
  <2>1. d * q + d <= d * p
    BY <1>2, <1>3, <1>6, <1>7, MoreTimes
  <2> QED
    BY <1>1, <1>4, <1>5, <1>6, <2>1
<1> QED
  BY <1>1, <1>2, <1>3, <1>7 DEF Cut

\* Of two numbers written with equally many digits the smaller one has the smaller
\* digit where they first differ.
InDigits(p, size) == [i \in 1..size |-> Cut(p, size - i) % 10]
LEMMA DigitsOrder ==
  ASSUME NEW a \in Nat, NEW b \in Nat, a < b, NEW size \in Nat, b < TenTo[size]
  PROVE  \E i \in 1..size : /\ InDigits(a, size)[i] < InDigits(b, size)[i]
                            /\ \A j \in 1..i - 1 : InDigits(a, size)[j] = InDigits(b, size)[j]
<1> DEFINE Differ == {i \in 0..size : Cut(a, size - i) /= Cut(b, size - i)}
<1>1. size \in Differ
  <2>1. size - size = 0 /\ size \in 0..size
    OBVIOUS
  <2> QED
    BY <2>1, CutWhole
<1>2. PICK i \in Differ : \A j \in Differ : i <= j
  <2>1. Differ \in SUBSET Nat /\ Differ # {}
    BY <1>1
  <2> HIDE DEF Differ
  <2> QED
    BY <2>1, Least
<1>3. \A j \in 0..i - 1 : Cut(a, size - j) = Cut(b, size - j)
  <2>1. \A j \in 0..i - 1 : j \in 0..size /\ ~(i <= j)
    BY <1>2
  <2> QED
    BY <1>2, <2>1
<1>4. i \in 1..size
  <2>1. Cut(a, size) = 0 /\ Cut(b, size) = 0
    <3>1. a < TenTo[size]
      BY TenFacts
    <3> QED
      BY <3>1, CutRule
  <2>2. i \in 0..size /\ Cut(a, size - i) /= Cut(b, size - i) /\ size - 0 = size
    BY <1>2
  <2> QED
    BY <2>1, <2>2
<1> HIDE DEF Differ
<1>5. Cut(a, size - i) < Cut(b, size - i)
  <2>1. size - i \in Nat /\ a <= b
    BY <1>4
  <2>2. Cut(a, size - i) <= Cut(b, size - i) /\ Cut(a, size - i) \in Nat /\ Cut(b, size - i) \in Nat
    BY <2>1, CutOrder, CutRule
  <2>3. Cut(a, size - i) /= Cut(b, size - i)
    BY <1>2 DEF Differ
  <2> QED
    BY <2>2, <2>3
<1>6. (Cut(a, size - i) % 10) < (Cut(b, size - i) % 10)
  <2>1. PICK l \in Nat : l = size - i /\ l + 1 = size - (i - 1) /\ i - 1 \in 0..i - 1
    BY <1>4
  <2>2. Cut(a, l + 1) = Cut(b, l + 1)
    BY <1>3, <2>1
  <2>3. /\ Cut(a, l) = 10 * Cut(a, l + 1) + (Cut(a, l) % 10)
        /\ Cut(b, l) = 10 * Cut(b, l + 1) + (Cut(b, l) % 10)
        /\ (Cut(a, l) % 10) \in 0..9 /\ (Cut(b, l) % 10) \in 0..9
    BY <2>1, CutRule
  <2>4. Cut(a, l + 1) \in Nat
    <3>1. l + 1 \in Nat
      BY <2>1
    <3> QED
      BY <3>1, CutRule
  <2>5. PICK m \in 0..9 : m = (Cut(a, l) % 10)
    BY <2>3
  <2>6. PICK n \in 0..9 : n = (Cut(b, l) % 10)
    BY <2>3
  <2>7. PICK c \in Nat : c = Cut(a, l + 1)
    BY <2>4
  <2>8. Cut(a, l) = 10 * c + m /\ Cut(b, l) = 10 * c + n
    BY <2>2, <2>3, <2>5, <2>6, <2>7
  <2>9. m < n
    BY <1>5, <2>1, <2>5, <2>6, <2>7, <2>8
  <2> QED
    BY <2>1, <2>5, <2>6, <2>9
<1>7. \A j \in 1..i - 1 : j \in 1..size /\ Cut(a, size - j) = Cut(b, size - j)
  BY <1>3, <1>4
<1> QED
  BY <1>4, <1>6, <1>7 DEF InDigits

\* A price has its digits and two decimals.
LEMMA PriceTextFacts ==
  ASSUME NEW p \in Nat
  PROVE  /\ WholeDigits(p) \in Nat \ {0} /\ p < TenTo[WholeDigits(p) + 2]
         /\ PriceText(p) = InDigits(p, WholeDigits(p) + 2)
         /\ PriceText(p) \in Seq(Nat) /\ Len(PriceText(p)) = WholeDigits(p) + 2
<1>1. PICK w \in Nat : w = p \div 100 /\ p < 100 * w + 100
  OBVIOUS
<1>2. PICK k \in Nat \ {0} : k = WholeDigits(p) /\ w < TenTo[k]
  BY <1>1, DigitsFacts DEF WholeDigits
<1>3. TenTo[k + 2] = 100 * TenTo[k] /\ TenTo[k] \in Nat
  <2>1. k \in Nat /\ k + 1 \in Nat /\ k + 1 + 1 = k + 2
    BY <1>2
  <2> QED
    BY <2>1, TenFacts
<1>4. p < TenTo[k + 2]
  BY <1>1, <1>2, <1>3
<1>5. PriceText(p) = InDigits(p, k + 2)
  BY <1>2 DEF PriceText, InDigits, Cut
<1>6. \A i \in 1..k + 2 : (Cut(p, k + 2 - i) % 10) \in Nat
  <2>1. ASSUME NEW i \in 1..k + 2 PROVE (Cut(p, k + 2 - i) % 10) \in Nat
    <3>1. PICK n \in Nat : n = k + 2 - i
      BY <1>2
    <3> QED
      BY <3>1, CutRule
  <2> QED
    BY <2>1
<1>7. InDigits(p, k + 2) \in Seq(Nat) /\ Len(InDigits(p, k + 2)) = k + 2
  <2>1. PICK n \in Nat : n = k + 2
    BY <1>2
  <2>2. PICK f : f = InDigits(p, n)
    OBVIOUS
  <2>3. f \in [1..n -> Nat]
    BY <1>6, <2>1, <2>2 DEF InDigits
  <2>4. f \in Seq(Nat) /\ Len(f) = n
    BY <2>1, <2>3
  <2> QED
    BY <2>1, <2>2, <2>4
<1> QED
  BY <1>2, <1>4, <1>5, <1>7

LEMMA FewerDigits ==
  ASSUME NEW a \in Nat, NEW b \in Nat, WholeDigits(a) < WholeDigits(b)
  PROVE  a < b
<1>1. PICK v \in Nat : v = a \div 100 /\ a < 100 * v + 100
  OBVIOUS
<1>2. PICK w \in Nat : w = b \div 100 /\ 100 * w <= b
  OBVIOUS
<1>3. PICK k \in Nat \ {0} : k = WholeDigits(a) /\ v < TenTo[k]
  BY <1>1, DigitsFacts DEF WholeDigits
<1>4. PICK l \in Nat \ {0} : l = WholeDigits(b) /\ (l = 1 \/ w >= TenTo[l - 1])
  BY <1>2, DigitsFacts DEF WholeDigits
<1>5. l - 1 \in Nat /\ k <= l - 1 /\ l /= 1
  BY <1>3, <1>4
<1>6. TenTo[k] <= TenTo[l - 1] /\ TenTo[k] \in Nat /\ TenTo[l - 1] \in Nat
  BY <1>3, <1>5, TenGrows, TenFacts
<1>7. v + 1 <= w
  BY <1>3, <1>4, <1>5, <1>6
<1> QED
  BY <1>1, <1>2, <1>7

\* Where two prices with equally many digits first differ.
LEMMA TextsDiffer ==
  ASSUME NEW a \in Nat, NEW b \in Nat, a < b, WholeDigits(a) = WholeDigits(b)
  PROVE  \E i \in 1..WholeDigits(b) + 2 :
           /\ PriceText(a)[i] < PriceText(b)[i]
           /\ \A j \in 1..i - 1 : PriceText(a)[j] = PriceText(b)[j]
<1>3. WholeDigits(b) \in Nat /\ b < TenTo[WholeDigits(b) + 2]
  BY PriceTextFacts
<1>1. PICK size \in Nat : size = WholeDigits(b) + 2 /\ b < TenTo[size]
  BY <1>3
<1>2. PriceText(a) = InDigits(a, size) /\ PriceText(b) = InDigits(b, size)
  BY <1>1, PriceTextFacts
<1>4. \E i \in 1..size : /\ InDigits(a, size)[i] < InDigits(b, size)[i]
                         /\ \A j \in 1..i - 1 : InDigits(a, size)[j] = InDigits(b, size)[j]
  BY <1>1, DigitsOrder
<1> QED
  BY <1>1, <1>2, <1>4

LEMMA TextOrder ==
  ASSUME NEW a \in Nat, NEW b \in Nat, WholeDigits(a) = WholeDigits(b)
  PROVE  TextAtLeast(PriceText(a), PriceText(b)) <=> a >= b
<1>1. PICK n \in Nat : n = WholeDigits(b) + 2
  BY PriceTextFacts
<1>2. PICK s \in Seq(Nat) : s = PriceText(a) /\ Len(s) = n
  BY <1>1, PriceTextFacts
<1>3. PICK t \in Seq(Nat) : t = PriceText(b) /\ Len(t) = n
  BY <1>1, PriceTextFacts
<1>4. DOMAIN s = 1..n /\ DOMAIN t = 1..n /\ \A i \in 1..n : s[i] \in Nat /\ t[i] \in Nat
  BY <1>2, <1>3
<1>9. DOMAIN s \cap DOMAIN t = 1..n /\ Len(s) >= Len(t)
  BY <1>1, <1>2, <1>3, <1>4
<1>5. TextAtLeast(s, t) <=> \/ \E i \in 1..n : s[i] > t[i] /\ \A j \in 1..(i - 1) : s[j] = t[j]
                            \/ \A j \in 1..n : s[j] = t[j]
  BY <1>4, <1>9, Zenon DEF TextAtLeast
<1>6. CASE a = b
  BY <1>2, <1>3, <1>5, <1>6
<1>7. CASE b < a
  <2>1. PICK i \in 1..n : t[i] < s[i] /\ \A j \in 1..i - 1 : t[j] = s[j]
    <3>1. PICK i \in 1..n : /\ PriceText(b)[i] < PriceText(a)[i]
                            /\ \A j \in 1..i - 1 : PriceText(b)[j] = PriceText(a)[j]
      BY <1>1, <1>7, TextsDiffer
    <3> QED
      BY <1>2, <1>3, <3>1
  <2>2. s[i] > t[i] /\ \A j \in 1..i - 1 : s[j] = t[j]
    BY <1>4, <2>1
  <2> QED
    BY <1>2, <1>3, <1>5, <1>7, <2>2
<1>8. CASE a < b
  <2>1. PICK i \in 1..n : s[i] < t[i] /\ \A j \in 1..i - 1 : s[j] = t[j]
    <3>1. PICK i \in 1..n : /\ PriceText(a)[i] < PriceText(b)[i]
                            /\ \A j \in 1..i - 1 : PriceText(a)[j] = PriceText(b)[j]
      BY <1>1, <1>8, TextsDiffer
    <3> QED
      BY <1>2, <1>3, <3>1
  <2>2. ASSUME NEW k \in 1..n, s[k] > t[k], \A j \in 1..k - 1 : s[j] = t[j] PROVE FALSE
    <3>1. k < i \/ k = i \/ i < k
      BY <1>1
    <3>2. CASE k < i
      <4>1. k \in 1..i - 1
        BY <1>1, <3>2
      <4> QED
        BY <1>4, <2>1, <2>2, <4>1
    <3>3. CASE k = i
      BY <1>4, <2>1, <2>2, <3>3
    <3>4. CASE i < k
      <4>1. i \in 1..k - 1
        BY <1>1, <3>4
      <4> QED
        BY <1>4, <2>1, <2>2, <4>1
    <3> QED
      BY <3>1, <3>2, <3>3, <3>4
  <2>3. ~\A j \in 1..n : s[j] = t[j]
    BY <1>4, <2>1
  <2> QED
    BY <1>2, <1>3, <1>5, <1>8, <2>2, <2>3
<1> QED
  BY <1>6, <1>7, <1>8

\* So prices as texts are compared as the numbers they are.
LEMMA PricesCompare ==
  ASSUME NEW a \in Nat, NEW b \in Nat
  PROVE  (PriceAtLeast(a, b) <=> a >= b) /\ (PriceAtMost(a, b) <=> a <= b)
<1>1. WholeDigits(a) \in Nat /\ WholeDigits(b) \in Nat
  BY PriceTextFacts
<1>2. CASE WholeDigits(a) = WholeDigits(b)
  <2>1. TextAtLeast(PriceText(a), PriceText(b)) <=> a >= b
    BY <1>2, TextOrder
  <2>2. TextAtLeast(PriceText(b), PriceText(a)) <=> b >= a
    BY <1>2, TextOrder
  <2> QED
    BY <1>1, <1>2, <2>1, <2>2 DEF PriceAtLeast, PriceAtMost
<1>3. CASE WholeDigits(a) < WholeDigits(b)
  <2>1. a < b
    BY <1>3, FewerDigits
  <2> QED
    BY <1>1, <1>3, <2>1 DEF PriceAtLeast, PriceAtMost
<1>4. CASE WholeDigits(b) < WholeDigits(a)
  <2>1. b < a
    BY <1>4, FewerDigits
  <2> QED
    BY <1>1, <1>4, <2>1 DEF PriceAtLeast, PriceAtMost
<1> QED
  BY <1>1, <1>2, <1>3, <1>4

-----------------------------------------------------------------------------
(* Sort keys                                                                *)

\* Two keys that differ somewhere come in one order only.
LEMMA KeysDecide ==
  ASSUME NEW k \in Seq(Int), NEW l \in Seq(Int), NEW c \in 1..Len(k), c <= Len(l), k[c] /= l[c]
  PROVE  Precedes(k, l) <=> ~Precedes(l, k)
<1>1. PICK m \in Nat : m = Len(k)
  OBVIOUS
<1>2. PICK n \in Nat : n = Len(l)
  OBVIOUS
<1>3. /\ DOMAIN k = 1..m /\ DOMAIN l = 1..n
      /\ \A i \in 1..m : k[i] \in Int
      /\ \A i \in 1..n : l[i] \in Int
  BY <1>1, <1>2
<1> DEFINE Differ == {i \in 1..m : i <= n /\ k[i] /= l[i]}
<1>4. PICK i \in Differ : \A j \in Differ : i <= j
  <2>1. Differ \in SUBSET Nat /\ c \in Differ
    BY <1>1, <1>2
  <2> HIDE DEF Differ
  <2> QED
    BY <2>1, Least
<1>5. i \in 1..m /\ i \in 1..n /\ k[i] /= l[i]
  BY <1>1, <1>2, <1>4
<1>6. \A j \in 1..i - 1 : k[j] = l[j]
  <2>1. ASSUME NEW j \in 1..i - 1 PROVE k[j] = l[j]
    <3>1. j \in 1..m /\ j <= n /\ ~(i <= j)
      BY <1>1, <1>2, <1>5
    <3> QED
      BY <1>4, <3>1
  <2> QED
    BY <2>1
<1> HIDE DEF Differ
<1>7. ASSUME NEW h \in (1..m) \cap (1..n), k[h] /= l[h], \A j \in 1..h - 1 : k[j] = l[j] PROVE h = i
  <2>1. ~(h < i)
    <3> SUFFICES ASSUME h < i PROVE FALSE
      OBVIOUS
    <3>1. h \in 1..i - 1
      BY <1>1, <1>5
    <3> QED
      BY <1>6, <1>7, <3>1
  <2>2. ~(i < h)
    <3> SUFFICES ASSUME i < h PROVE FALSE
      OBVIOUS
    <3>1. i \in 1..h - 1
      BY <1>1, <1>5
    <3> QED
      BY <1>5, <1>7, <3>1
  <2> QED
    BY <1>1, <1>5, <2>1, <2>2
<1>8. k[i] \in Int /\ l[i] \in Int
  BY <1>3, <1>5
<1>9. Precedes(k, l) <=> k[i] < l[i]
  <2>1. ASSUME NEW h \in (1..m) \cap (1..n), k[h] < l[h], \A j \in 1..h - 1 : k[j] = l[j]
        PROVE  k[i] < l[i]
    <3>1. k[h] /= l[h]
      BY <1>3, <2>1
    <3> QED
      BY <1>7, <2>1, <3>1
  <2> QED
    BY <1>3, <1>5, <1>6, <2>1 DEF Precedes
<1>10. Precedes(l, k) <=> l[i] < k[i]
  <2>1. ASSUME NEW h \in (1..m) \cap (1..n), l[h] < k[h], \A j \in 1..h - 1 : l[j] = k[j]
        PROVE  l[i] < k[i]
    <3>1. k[h] /= l[h] /\ \A j \in 1..h - 1 : k[j] = l[j]
      BY <1>3, <2>1
    <3> QED
      BY <1>7, <2>1, <3>1
  <2>2. \A j \in 1..i - 1 : l[j] = k[j]
    BY <1>6
  <2> QED
    BY <1>3, <1>5, <2>1, <2>2 DEF Precedes
<1> QED
  BY <1>5, <1>8, <1>9, <1>10

RowFits(row) == row.price \in Nat /\ row.lasts \in Nat /\ row.name \in Ordered

LEMMA RankFacts ==
  ASSUME NEW a \in Ordered
  PROVE  /\ Rank(a) \in Int
         /\ \A b \in Ordered : Rank(a) = Rank(b) => a = b
<1>1. \A b \in Ordered : Rank(b) \in DOMAIN Alphabet /\ Alphabet[Rank(b)] = b
  BY DEF Rank, Ordered
<1> QED
  BY <1>1, SearchAssumption

LEMMA TieFacts ==
  ASSUME NEW s \in Seq(Int), NEW x \in Int, NEW y \in Int
  PROVE  LET t == s \o <<x, y>> IN
         /\ t \in Seq(Int) /\ Len(t) = Len(s) + 2 /\ t[Len(s) + 2] = y
         /\ \A i \in 1..Len(s) : t[i] = s[i]
<1>1. <<x, y>> \in Seq(Int) /\ Len(<<x, y>>) = 2 /\ <<x, y>>[2] = y
  OBVIOUS
<1>2. PICK e \in Seq(Int) : e = <<x, y>> /\ Len(e) = 2 /\ e[2] = y
  BY <1>1
<1>3. Len(s) \in Nat
  OBVIOUS
<1>4. /\ s \o e \in Seq(Int) /\ Len(s \o e) = Len(s) + 2
      /\ \A i \in 1..Len(s) + 2 : (s \o e)[i] = IF i <= Len(s) THEN s[i] ELSE e[i - Len(s)]
  BY <1>2, <1>3
<1>5. Len(s) + 2 \in 1..Len(s) + 2 /\ Len(s) + 2 - Len(s) = 2 /\ ~(Len(s) + 2 <= Len(s))
  BY <1>3
<1>6. (s \o e)[Len(s) + 2] = y
  BY <1>2, <1>4, <1>5
<1>7. \A i \in 1..Len(s) : i \in 1..Len(s) + 2 /\ i <= Len(s)
  BY <1>3
<1> QED
  BY <1>2, <1>4, <1>6, <1>7

LEMMA DownFacts ==
  ASSUME NEW s \in Seq(Int)
  PROVE  /\ Downwards(s) \in Seq(Int) /\ Len(Downwards(s)) = Len(s)
         /\ \A i \in 1..Len(s) : Downwards(s)[i] = 99 - s[i]
<1>1. PICK n \in Nat : n = Len(s) /\ DOMAIN s = 1..n /\ \A i \in 1..n : s[i] \in Int
  OBVIOUS
<1>2. PICK d : d = Downwards(s)
  OBVIOUS
<1>3. d \in [1..n -> Int] /\ \A i \in 1..n : d[i] = 99 - s[i]
  BY <1>1, <1>2 DEF Downwards
<1>4. d \in Seq(Int) /\ Len(d) = n
  BY <1>1, <1>3
<1> QED
  BY <1>1, <1>2, <1>3, <1>4

LEMMA PriceKeysFacts ==
  ASSUME NEW p \in Nat
  PROVE  /\ PriceKeys(p) \in Seq(Int) /\ Len(PriceKeys(p)) = WholeDigits(p) + 3
         /\ PriceKeys(p)[1] = WholeDigits(p) /\ WholeDigits(p) \in Nat
         /\ \A i \in 1..WholeDigits(p) + 2 : PriceKeys(p)[i + 1] = PriceText(p)[i]
<1>1. PICK w \in Nat : w = WholeDigits(p)
  BY PriceTextFacts
<1>2. PICK t \in Seq(Int) : t = PriceText(p) /\ Len(t) = w + 2
  <2>1. PriceText(p) \in Seq(Nat) /\ Len(PriceText(p)) = w + 2
    BY <1>1, PriceTextFacts
  <2> QED
    BY <2>1
<1>3. PICK e \in Seq(Int) : e = <<w>> /\ Len(e) = 1 /\ e[1] = w
  <2>1. <<w>> \in Seq(Int) /\ Len(<<w>>) = 1 /\ <<w>>[1] = w
    BY <1>1
  <2> QED
    BY <2>1
<1>4. PriceKeys(p) = e \o t
  BY <1>1, <1>2, <1>3 DEF PriceKeys
<1>5. /\ e \o t \in Seq(Int) /\ Len(e \o t) = w + 3
      /\ \A i \in 1..w + 3 : (e \o t)[i] = IF i <= 1 THEN e[i] ELSE t[i - 1]
  BY <1>1, <1>2, <1>3
<1>6. (e \o t)[1] = w
  <2>1. 1 \in 1..w + 3
    BY <1>1
  <2> QED
    BY <1>3, <1>5, <2>1
<1>7. ASSUME NEW i \in 1..w + 2 PROVE (e \o t)[i + 1] = t[i]
  <2>1. i + 1 \in 1..w + 3 /\ ~(i + 1 <= 1) /\ i + 1 - 1 = i
    BY <1>1
  <2> QED
    BY <1>5, <2>1
<1> QED
  BY <1>1, <1>2, <1>4, <1>5, <1>6, <1>7

\* What comes before the name and the id decides, or has one length.
HeadsDecide(s, t) == Len(s) = Len(t) \/ (1 <= Len(s) /\ 1 <= Len(t) /\ s[1] /= t[1])

\* The keys of two rows differ at the latest where their ids are.
LEMMA KeysDiffer ==
  ASSUME NEW r, RowFits(r), NEW q, RowFits(q), NEW a \in ActivityIds, NEW b \in ActivityIds, a /= b,
         NEW sort \in Sorts
  PROVE  /\ SortKeys(sort, r, a) \in Seq(Int) /\ SortKeys(sort, q, b) \in Seq(Int)
         /\ \E c \in 1..Len(SortKeys(sort, r, a)) :
              c <= Len(SortKeys(sort, q, b)) /\ SortKeys(sort, r, a)[c] /= SortKeys(sort, q, b)[c]
<1>1. a \in Ordered /\ b \in Ordered /\ r.name \in Ordered /\ q.name \in Ordered
  BY SearchAssumption DEF RowFits
<1>2. PICK x \in Int, y \in Int : x = Rank(r.name) /\ y = Rank(a)
  BY <1>1, RankFacts
<1>3. PICK u \in Int, v \in Int : u = Rank(q.name) /\ v = Rank(b)
  BY <1>1, RankFacts
<1>4. y /= v
  BY <1>1, <1>2, <1>3, RankFacts
<1>5. PICK k : k = SortKeys(sort, r, a)
  OBVIOUS
<1>6. PICK l : l = SortKeys(sort, q, b)
  OBVIOUS
<1>7. \E s, t \in Seq(Int) : /\ k = s \o <<x, y>> /\ l = t \o <<u, v>>
                             /\ HeadsDecide(s, t)
  <2>1. CASE sort = "name"
    <3>1. <<>> \in Seq(Int) /\ k = <<>> \o <<x, y>> /\ l = <<>> \o <<u, v>>
      BY <1>2, <1>3, <1>5, <1>6, <2>1 DEF SortKeys
    <3> QED
      BY <3>1 DEF HeadsDecide
  <2>2. CASE sort = "longest"
    <3>1. k = Downwards(<<r.lasts>>) \o <<x, y>> /\ l = Downwards(<<q.lasts>>) \o <<u, v>>
      BY <1>2, <1>3, <1>5, <1>6, <2>2 DEF SortKeys
    <3>2. <<r.lasts>> \in Seq(Int) /\ <<q.lasts>> \in Seq(Int) /\ Len(<<r.lasts>>) = Len(<<q.lasts>>)
      BY DEF RowFits
    <3>3. /\ Downwards(<<r.lasts>>) \in Seq(Int) /\ Downwards(<<q.lasts>>) \in Seq(Int)
          /\ Len(Downwards(<<r.lasts>>)) = Len(Downwards(<<q.lasts>>))
      BY <3>2, DownFacts
    <3> QED
      BY <3>1, <3>3 DEF HeadsDecide
  <2>9. CASE sort = "shortest"
    <3>1. k = <<r.lasts>> \o <<x, y>> /\ l = <<q.lasts>> \o <<u, v>>
      BY <1>2, <1>3, <1>5, <1>6, <2>9 DEF SortKeys
    <3>2. <<r.lasts>> \in Seq(Int) /\ <<q.lasts>> \in Seq(Int) /\ Len(<<r.lasts>>) = Len(<<q.lasts>>)
      BY DEF RowFits
    <3> QED
      BY <3>1, <3>2 DEF HeadsDecide
  <2>3. PICK s \in Seq(Int) : s = PriceKeys(r.price) /\ Len(s) = s[1] + 3 /\ s[1] \in Nat
    <3>1. /\ PriceKeys(r.price) \in Seq(Int) /\ Len(PriceKeys(r.price)) = PriceKeys(r.price)[1] + 3
          /\ PriceKeys(r.price)[1] \in Nat
      BY PriceKeysFacts DEF RowFits
    <3> QED
      BY <3>1
  <2>4. PICK t \in Seq(Int) : t = PriceKeys(q.price) /\ Len(t) = t[1] + 3 /\ t[1] \in Nat
    <3>1. /\ PriceKeys(q.price) \in Seq(Int) /\ Len(PriceKeys(q.price)) = PriceKeys(q.price)[1] + 3
          /\ PriceKeys(q.price)[1] \in Nat
      BY PriceKeysFacts DEF RowFits
    <3> QED
      BY <3>1
  <2>5. PICK m \in Nat, n \in Nat : m = s[1] /\ n = t[1]
    BY <2>3, <2>4
  <2>6. Len(s) = m + 3 /\ Len(t) = n + 3 /\ 1 \in 1..m + 3 /\ 1 \in 1..n + 3
    BY <2>3, <2>4, <2>5
  <2>7. CASE sort = "cheapest"
    <3>1. k = s \o <<x, y>> /\ l = t \o <<u, v>>
      BY <1>2, <1>3, <1>5, <1>6, <2>3, <2>4, <2>7 DEF SortKeys
    <3>2. HeadsDecide(s, t)
      BY <2>5, <2>6 DEF HeadsDecide
    <3> QED
      BY <3>1, <3>2
  <2>8. CASE sort = "dearest"
    <3>1. PICK e \in Seq(Int) : e = Downwards(s) /\ Len(e) = m + 3 /\ e[1] = 99 - m
      <4>1. Downwards(s) \in Seq(Int) /\ Len(Downwards(s)) = m + 3 /\ Downwards(s)[1] = 99 - s[1]
        BY <2>6, DownFacts
      <4> QED
        BY <2>5, <4>1
    <3>2. PICK f \in Seq(Int) : f = Downwards(t) /\ Len(f) = n + 3 /\ f[1] = 99 - n
      <4>1. Downwards(t) \in Seq(Int) /\ Len(Downwards(t)) = n + 3 /\ Downwards(t)[1] = 99 - t[1]
        BY <2>6, DownFacts
      <4> QED
        BY <2>5, <4>1
    <3>3. k = e \o <<x, y>> /\ l = f \o <<u, v>>
      BY <1>2, <1>3, <1>5, <1>6, <2>3, <2>4, <2>8, <3>1, <3>2 DEF SortKeys
    <3>4. HeadsDecide(e, f)
      <4>1. CASE m = n
        BY <3>1, <3>2, <4>1 DEF HeadsDecide
      <4>2. CASE m /= n
        BY <3>1, <3>2, <4>2 DEF HeadsDecide
      <4> QED
        BY <4>1, <4>2
    <3> QED
      BY <3>3, <3>4
  <2> QED
    BY <2>1, <2>2, <2>7, <2>8, <2>9 DEF Sorts
<1>8. PICK s \in Seq(Int), t \in Seq(Int) :
        /\ k = s \o <<x, y>> /\ l = t \o <<u, v>>
        /\ HeadsDecide(s, t)
  BY <1>7
<1>9. k \in Seq(Int) /\ Len(k) = Len(s) + 2 /\ k[Len(s) + 2] = y /\ \A i \in 1..Len(s) : k[i] = s[i]
  <2>1. LET e == s \o <<x, y>>
        IN  e \in Seq(Int) /\ Len(e) = Len(s) + 2 /\ e[Len(s) + 2] = y /\ \A i \in 1..Len(s) : e[i] = s[i]
    BY TieFacts
  <2> QED
    BY <1>8, <2>1
<1>10. l \in Seq(Int) /\ Len(l) = Len(t) + 2 /\ l[Len(t) + 2] = v /\ \A i \in 1..Len(t) : l[i] = t[i]
  <2>1. LET e == t \o <<u, v>>
        IN  e \in Seq(Int) /\ Len(e) = Len(t) + 2 /\ e[Len(t) + 2] = v /\ \A i \in 1..Len(t) : e[i] = t[i]
    BY TieFacts
  <2> QED
    BY <1>8, <2>1
<1>11. Len(s) \in Nat /\ Len(t) \in Nat
  OBVIOUS
<1>12. CASE Len(s) = Len(t)
  <2>1. Len(s) + 2 \in 1..Len(k) /\ Len(s) + 2 <= Len(l) /\ k[Len(s) + 2] /= l[Len(s) + 2]
    BY <1>4, <1>9, <1>10, <1>11, <1>12
  <2> QED
    BY <1>5, <1>6, <1>9, <1>10, <2>1
<1>13. CASE 1 <= Len(s) /\ 1 <= Len(t) /\ s[1] /= t[1]
  <2>1. 1 \in 1..Len(k) /\ 1 <= Len(l) /\ k[1] /= l[1]
    BY <1>9, <1>10, <1>11, <1>13
  <2> QED
    BY <1>5, <1>6, <1>9, <1>10, <2>1
<1> QED
  BY <1>8, <1>12, <1>13 DEF HeadsDecide

\* Where the keys of two prices first differ, the smaller price has the smaller key.
LEMMA PriceKeysOrder ==
  ASSUME NEW a \in Nat, NEW b \in Nat, a < b
  PROVE  \E i \in (1..Len(PriceKeys(a))) \cap (1..Len(PriceKeys(b))) :
           /\ PriceKeys(a)[i] < PriceKeys(b)[i]
           /\ \A j \in 1..i - 1 : PriceKeys(a)[j] = PriceKeys(b)[j]
<1>1. /\ Len(PriceKeys(a)) = WholeDigits(a) + 3 /\ WholeDigits(a) \in Nat
      /\ PriceKeys(a)[1] = WholeDigits(a)
      /\ \A i \in 1..WholeDigits(a) + 2 : PriceKeys(a)[i + 1] = PriceText(a)[i]
  BY PriceKeysFacts
<1>2. /\ Len(PriceKeys(b)) = WholeDigits(b) + 3 /\ WholeDigits(b) \in Nat
      /\ PriceKeys(b)[1] = WholeDigits(b)
      /\ \A i \in 1..WholeDigits(b) + 2 : PriceKeys(b)[i + 1] = PriceText(b)[i]
  BY PriceKeysFacts
<1>3. ~(WholeDigits(b) < WholeDigits(a))
  <2> SUFFICES ASSUME WholeDigits(b) < WholeDigits(a) PROVE FALSE
    OBVIOUS
  <2>1. b < a
    BY FewerDigits
  <2> QED
    BY <2>1
<1>4. CASE WholeDigits(a) < WholeDigits(b)
  <2>1. 1 \in (1..Len(PriceKeys(a))) \cap (1..Len(PriceKeys(b)))
    BY <1>1, <1>2
  <2> QED
    BY <1>1, <1>2, <1>4, <2>1
<1>5. CASE WholeDigits(a) = WholeDigits(b)
  <2>1. PICK i \in 1..WholeDigits(b) + 2 : /\ PriceText(a)[i] < PriceText(b)[i]
                                          /\ \A j \in 1..i - 1 : PriceText(a)[j] = PriceText(b)[j]
    BY <1>5, TextsDiffer
  <2>2. /\ PriceKeys(a)[i + 1] < PriceKeys(b)[i + 1]
        /\ i + 1 \in (1..Len(PriceKeys(a))) \cap (1..Len(PriceKeys(b))) /\ i + 1 - 1 = i
    BY <1>1, <1>2, <1>5, <2>1
  <2>3. ASSUME NEW j \in 1..i PROVE PriceKeys(a)[j] = PriceKeys(b)[j]
    <3>1. CASE j = 1
      BY <1>1, <1>2, <1>5, <3>1
    <3>2. CASE j > 1
      <4>1. j - 1 \in 1..i - 1 /\ j - 1 \in 1..WholeDigits(b) + 2 /\ j - 1 + 1 = j
        BY <1>2, <3>2
      <4> QED
        BY <1>1, <1>2, <1>5, <2>1, <4>1
    <3> QED
      BY <3>1, <3>2
  <2> QED
    BY <2>2, <2>3
<1> QED
  BY <1>1, <1>2, <1>3, <1>4, <1>5

\* Sorted by price, the cheaper one of two rows comes first, or last.
LEMMA PricesSort ==
  ASSUME NEW r, RowFits(r), NEW q, RowFits(q), NEW a \in ActivityIds, NEW b \in ActivityIds,
         r.price < q.price
  PROVE  /\ Precedes(SortKeys("cheapest", r, a), SortKeys("cheapest", q, b))
         /\ Precedes(SortKeys("dearest", q, b), SortKeys("dearest", r, a))
<1>1. a \in Ordered /\ b \in Ordered /\ r.name \in Ordered /\ q.name \in Ordered
      /\ r.price \in Nat /\ q.price \in Nat
  BY SearchAssumption DEF RowFits
<1>2. PICK x \in Int, y \in Int : x = Rank(r.name) /\ y = Rank(a)
  BY <1>1, RankFacts
<1>3. PICK u \in Int, v \in Int : u = Rank(q.name) /\ v = Rank(b)
  BY <1>1, RankFacts
<1>4. PICK s \in Seq(Int) : s = PriceKeys(r.price)
  BY <1>1, PriceKeysFacts
<1>5. PICK t \in Seq(Int) : t = PriceKeys(q.price)
  BY <1>1, PriceKeysFacts
<1>6. PICK i \in (1..Len(s)) \cap (1..Len(t)) : s[i] < t[i] /\ \A j \in 1..i - 1 : s[j] = t[j]
  BY <1>1, <1>4, <1>5, PriceKeysOrder
<1>7. PICK m \in Nat, n \in Nat : /\ m = Len(s) /\ n = Len(t)
                                 /\ \A j \in 1..m : s[j] \in Int
                                 /\ \A h \in 1..n : t[h] \in Int
  OBVIOUS
<1>8. \A j \in 1..i - 1 : j \in 1..m /\ j \in 1..n
  BY <1>6, <1>7
\* What comes before name and id decides.
<1>9. ASSUME NEW k \in Seq(Int), NEW l \in Seq(Int), i \in 1..Len(k), i \in 1..Len(l), k[i] < l[i],
             \A j \in 1..i - 1 : j \in 1..Len(k) /\ j \in 1..Len(l) /\ k[j] = l[j],
             NEW x1 \in Int, NEW y1 \in Int, NEW x2 \in Int, NEW y2 \in Int
      PROVE  Precedes(k \o <<x1, y1>>, l \o <<x2, y2>>)
  <2>1. PICK kk \in Seq(Int) : /\ kk = k \o <<x1, y1>> /\ Len(kk) = Len(k) + 2
                              /\ \A h \in 1..Len(k) : kk[h] = k[h]
    <3>1. /\ k \o <<x1, y1>> \in Seq(Int) /\ Len(k \o <<x1, y1>>) = Len(k) + 2
          /\ \A h \in 1..Len(k) : (k \o <<x1, y1>>)[h] = k[h]
      BY TieFacts
    <3> QED
      BY <3>1
  <2>2. PICK ll \in Seq(Int) : /\ ll = l \o <<x2, y2>> /\ Len(ll) = Len(l) + 2
                              /\ \A h \in 1..Len(l) : ll[h] = l[h]
    <3>1. /\ l \o <<x2, y2>> \in Seq(Int) /\ Len(l \o <<x2, y2>>) = Len(l) + 2
          /\ \A h \in 1..Len(l) : (l \o <<x2, y2>>)[h] = l[h]
      BY TieFacts
    <3> QED
      BY <3>1
  <2>3. i \in DOMAIN kk \cap DOMAIN ll
    BY <1>9, <2>1, <2>2
  <2>4. kk[i] < ll[i] /\ \A j \in 1..i - 1 : kk[j] = ll[j]
    BY <1>9, <2>1, <2>2
  <2>5. Precedes(kk, ll)
    BY <2>3, <2>4 DEF Precedes
  <2> QED
    BY <2>1, <2>2, <2>5
<1>10. Precedes(s \o <<x, y>>, t \o <<u, v>>)
  BY <1>2, <1>3, <1>6, <1>7, <1>8, <1>9
<1>11. PICK c \in Seq(Int) : c = Downwards(s) /\ Len(c) = m /\ \A j \in 1..m : c[j] = 99 - s[j]
  BY <1>7, DownFacts
<1>12. PICK d \in Seq(Int) : d = Downwards(t) /\ Len(d) = n /\ \A j \in 1..n : d[j] = 99 - t[j]
  BY <1>7, DownFacts
<1>13. d[i] < c[i] /\ \A j \in 1..i - 1 : d[j] = c[j]
  <2>1. i \in 1..m /\ i \in 1..n
    BY <1>6, <1>7
  <2>2. s[i] \in Int /\ t[i] \in Int /\ c[i] = 99 - s[i] /\ d[i] = 99 - t[i]
    BY <1>7, <1>11, <1>12, <2>1
  <2>3. d[i] < c[i]
    BY <1>6, <2>2
  <2>4. \A j \in 1..i - 1 : d[j] = c[j]
    BY <1>6, <1>8, <1>11, <1>12
  <2> QED
    BY <2>3, <2>4
<1>14. Precedes(d \o <<u, v>>, c \o <<x, y>>)
  BY <1>2, <1>3, <1>6, <1>7, <1>8, <1>9, <1>11, <1>12, <1>13
<1>15. /\ SortKeys("cheapest", r, a) = s \o <<x, y>> /\ SortKeys("cheapest", q, b) = t \o <<u, v>>
       /\ SortKeys("dearest", r, a) = c \o <<x, y>> /\ SortKeys("dearest", q, b) = d \o <<u, v>>
  BY <1>2, <1>3, <1>4, <1>5, <1>11, <1>12 DEF SortKeys
<1> QED
  BY <1>10, <1>14, <1>15

\* Starting as late as both the schedule and the window ask for is the way to fit in.
LEMMA WindowsFit ==
  ASSUME NEW row, row.lasts \in Nat, Readable(row), NEW from \in Nat, NEW to \in Nat, from < to
  PROVE  AvailableIn(row, from, to)
           <=> \E s \in SlotsOf(row), t \in from..to :
                 t >= SlotStart[s] /\ t + row.lasts <= to /\ t + row.lasts <= SlotEnd[s]
<1>1. PICK n \in Nat : n = row.lasts
  OBVIOUS
<1>2. \A s \in SlotsOf(row) : s \in Slots /\ SlotLength[s] >= n
  BY <1>1 DEF Readable, ValidBody, SlotsOf
<1>3. \A s \in Slots : SlotStart[s] \in Nat /\ SlotLength[s] \in Nat /\ SlotEnd[s] = SlotStart[s] + SlotLength[s]
  BY DEF Slots, SlotStart, SlotLength, SlotEnd
<1>4. ASSUME NEW s \in SlotsOf(row), NEW t \in from..to,
             t >= SlotStart[s], t + n <= to, t + n <= SlotEnd[s]
      PROVE  from + n <= to /\ SlotStart[s] + n <= to /\ from + n <= SlotEnd[s]
  BY <1>1, <1>2, <1>3, <1>4
<1>5. ASSUME NEW s \in SlotsOf(row), from + n <= to, SlotStart[s] + n <= to, from + n <= SlotEnd[s]
      PROVE  \E t \in from..to : t >= SlotStart[s] /\ t + n <= to /\ t + n <= SlotEnd[s]
  <2>1. PICK i \in Nat, h \in Nat, e \in Nat : i = SlotStart[s] /\ h = SlotLength[s] /\ e = SlotEnd[s]
                                              /\ e = i + h /\ h >= n
    BY <1>2, <1>3
  <2>2. CASE i <= from
    <3>1. from \in from..to /\ from >= SlotStart[s] /\ from + n <= to /\ from + n <= SlotEnd[s]
      BY <1>5, <2>1, <2>2
    <3> QED
      BY <3>1
  <2>3. CASE i > from
    <3>1. i \in from..to /\ i >= SlotStart[s] /\ i + n <= to /\ i + n <= SlotEnd[s]
      BY <1>1, <1>5, <2>1, <2>3
    <3> QED
      BY <3>1
  <2> QED
    BY <2>1, <2>2, <2>3
<1>6. AvailableIn(row, from, to)
        <=> \E s \in SlotsOf(row) : /\ from + n <= to /\ SlotStart[s] + n <= to
                                    /\ from + n <= SlotEnd[s]
  BY <1>1 DEF AvailableIn
<1> QED
  BY <1>1, <1>4, <1>5, <1>6

\* What the search clauses rely on: every row holds amounts and a name that has its place.
RowsFit == \A id \in ActivityIds : Stored(id) => RowFits(acts[id])

LEMMA NewRowFits ==
  ASSUME NEW body \in Payloads \cup {SamplePayload[m] : m \in Samples}, NEW w
  PROVE  RowFits(RowFrom(body, w))
BY SearchAssumption DEF RowFits, RowFrom

LEMMA MergedFits ==
  ASSUME NEW now, RowFits(now), NEW saw, NEW body \in Payloads, NEW w
  PROVE  RowFits(Merged(now, saw, body, w))
<1>1. body.price \in Nat /\ body.lasts \in Nat /\ body.name \in Ordered
  BY SearchAssumption
<1>2. \A was, read, wanted : Column(was, read, wanted) \in {was, wanted}
  BY DEF Column
<1> PICK row : row = Merged(now, saw, body, w)
  OBVIOUS
<1>3. /\ row.price = Column(now.price, saw.price, body.price)
      /\ row.lasts = Column(now.lasts, saw.lasts, body.lasts)
      /\ row.name = Column(now.name, saw.name, body.name)
  BY DEF Merged
<1>4. RowFits(row)
  BY <1>1, <1>2, <1>3 DEF RowFits
<1> QED
  BY <1>4

LEMMA RowsFitStart ==
  ASSUME CatalogueInit
  PROVE  RowsFit
<1>1. PICK legacy \in SUBSET LegacyIds, copies \in [LegacyIds -> Samples] :
        acts = [id \in ActivityIds |->
                 IF id \in legacy THEN RowFrom(SamplePayload[copies[id]], 1) ELSE Missing]
  BY DEF CatalogueInit
<1>2. \A id \in legacy : SamplePayload[copies[id]] \in Payloads \cup {SamplePayload[m] : m \in Samples}
  BY <1>1
<1> QED
  BY <1>1, <1>2, NewRowFits DEF RowsFit, Stored

LEMMA RowsFitStep ==
  ASSUME CatalogueInv, RowsFit, [CatalogueNext]_CatalogueVars
  PROVE  RowsFit'
\* A step that leaves every row, takes it away or writes one that fits.
<1>1. ASSUME \A id \in ActivityIds : acts'[id] = acts[id] \/ acts'[id] = Missing \/ RowFits(acts'[id])
      PROVE  RowsFit'
  BY <1>1 DEF RowsFit, Stored, RowFits
<1>2. \A m \in Samples : RowFits(RowFrom(SamplePayload[m], 1))
  BY NewRowFits
<1>3. ASSUME NEW id \in ActivityIds, NEW body \in Payloads, CreateActivity(id, body)
      PROVE  RowsFit'
  <2>1. RowFits(RowFrom(body, written + 1))
    BY NewRowFits
  <2>2. \A other \in ActivityIds :
          acts'[other] = IF other = id THEN RowFrom(body, written + 1) ELSE acts[other]
    BY <1>3 DEF CreateActivity, CatalogueInv
  <2> QED
    BY <1>1, <2>1, <2>2
<1>4. ASSUME NEW e \in Editors, NEW body \in Payloads, Replace(e, body)
      PROVE  RowsFit'
  <2> PICK id : id = edits[e].of /\ id \in ActivityIds
    BY <1>4 DEF Replace, CatalogueInv
  <2>1. CASE Refused(acts[id], edits[e].saw, body)
    BY <1>1, <1>4, <2>1 DEF Replace
  <2>2. CASE ~Refused(acts[id], edits[e].saw, body)
    <3> PICK row : row = Merged(acts[id], edits[e].saw, body, written + 1)
      OBVIOUS
    <3>1. acts' = [acts EXCEPT ![id] = row] /\ acts[id] /= Missing
      BY <1>4, <2>2 DEF Replace, Refused
    <3>2. RowFits(acts[id])
      BY <3>1 DEF RowsFit, Stored
    <3>3. RowFits(row)
      BY <3>2, MergedFits
    <3>4. \A other \in ActivityIds : acts'[other] = IF other = id THEN row ELSE acts[other]
      BY <3>1 DEF CatalogueInv
    <3> QED
      BY <1>1, <3>3, <3>4
  <2> QED
    BY <2>1, <2>2
<1>5. ASSUME NEW e \in Editors, Delete(e)
      PROVE  RowsFit'
  <2>1. acts' = [acts EXCEPT ![edits[e].of] = Missing]
    BY <1>5 DEF Delete
  <2>2. \A other \in ActivityIds : acts'[other] = Missing \/ acts'[other] = acts[other]
    BY <2>1 DEF CatalogueInv
  <2> QED
    BY <1>1, <2>2
<1>6. ASSUME Migrate PROVE RowsFit'
  <2>1. \A id \in ActivityIds : \/ acts'[id] = Missing \/ acts'[id] = acts[id]
                                \/ id \in Samples /\ acts'[id] = RowFrom(SamplePayload[id], 1)
    BY <1>6, MigrateLeaves, CohortIsSamples
  <2> QED
    BY <1>1, <1>2, <2>1
<1>7. ASSUME SeedSamples PROVE RowsFit'
  <2>1. \A id \in ActivityIds : acts'[id] = IF id \in Samples /\ ~Stored(id)
                                            THEN RowFrom(SamplePayload[id], 1) ELSE acts[id]
    BY <1>7 DEF SeedSamples
  <2> QED
    BY <1>1, <1>2, <2>1
<1>8. ASSUME \/ UNCHANGED CatalogueVars \/ CrashBase
             \/ \E e \in Editors, id \in ActivityIds : LookUp(e, id)
      PROVE  RowsFit'
  <2>1. UNCHANGED acts
    BY <1>8 DEF CatalogueVars, CrashBase, LookUp
  <2> QED
    BY <1>1, <2>1
<1> QED
  BY <1>3, <1>4, <1>5, <1>6, <1>7, <1>8 DEF CatalogueNext

LEMMA RowsSearchExactly ==
  ASSUME RowsFit
  PROVE  SearchesAreExact
<1>1. PriceOrderIsExact
  <2>1. ASSUME NEW id \in ActivityIds, NEW q \in Prices, Stored(id)
        PROVE  /\ PriceAtLeast(acts[id].price, q) <=> acts[id].price >= q
               /\ PriceAtMost(acts[id].price, q) <=> acts[id].price <= q
    <3>1. PICK p \in Nat : p = acts[id].price
      BY <2>1 DEF RowsFit, RowFits
    <3>2. q \in Nat
      BY SearchAssumption
    <3>3. (PriceAtLeast(p, q) <=> p >= q) /\ (PriceAtMost(p, q) <=> p <= q)
      BY <3>2, PricesCompare
    <3> QED
      BY <3>1, <3>3
  <2> QED
    BY <2>1 DEF PriceOrderIsExact
<1>2. SearchFindsWhatFits
  <2>1. ASSUME NEW id \in ActivityIds, Stored(id), Readable(acts[id]),
               NEW from \in 0..Hours, NEW to \in 0..Hours, from < to
        PROVE  AvailableIn(acts[id], from, to)
                 <=> \E s \in SlotsOf(acts[id]), t \in from..to :
                       /\ t >= SlotStart[s] /\ t + acts[id].lasts <= to
                       /\ t + acts[id].lasts <= SlotEnd[s]
    <3>1. from \in Nat /\ to \in Nat /\ acts[id].lasts \in Nat
      BY <2>1, SearchAssumption DEF RowsFit, RowFits
    <3> QED
      BY <2>1, <3>1, WindowsFit
  <2> QED
    BY <2>1 DEF SearchFindsWhatFits
<1>3. PagesShowEachOnce
  <2>1. ASSUME NEW a \in ActivityIds, NEW b \in ActivityIds, a /= b, Stored(a), Stored(b)
        PROVE  /\ \A sort \in Sorts :
                    Precedes(SortKeys(sort, acts[a], a), SortKeys(sort, acts[b], b))
                      <=> ~Precedes(SortKeys(sort, acts[b], b), SortKeys(sort, acts[a], a))
               /\ acts[a].price < acts[b].price =>
                    /\ Precedes(SortKeys("cheapest", acts[a], a), SortKeys("cheapest", acts[b], b))
                    /\ Precedes(SortKeys("dearest", acts[b], b), SortKeys("dearest", acts[a], a))
    <3>1. RowFits(acts[a]) /\ RowFits(acts[b])
      BY <2>1 DEF RowsFit
    <3>2. ASSUME NEW sort \in Sorts
          PROVE  Precedes(SortKeys(sort, acts[a], a), SortKeys(sort, acts[b], b))
                   <=> ~Precedes(SortKeys(sort, acts[b], b), SortKeys(sort, acts[a], a))
      <4>1. /\ SortKeys(sort, acts[a], a) \in Seq(Int) /\ SortKeys(sort, acts[b], b) \in Seq(Int)
            /\ \E c \in 1..Len(SortKeys(sort, acts[a], a)) :
                 /\ c <= Len(SortKeys(sort, acts[b], b))
                 /\ SortKeys(sort, acts[a], a)[c] /= SortKeys(sort, acts[b], b)[c]
        BY <2>1, <3>1, KeysDiffer
      <4> QED
        BY <4>1, KeysDecide
    <3>3. ASSUME acts[a].price < acts[b].price
          PROVE  /\ Precedes(SortKeys("cheapest", acts[a], a), SortKeys("cheapest", acts[b], b))
                 /\ Precedes(SortKeys("dearest", acts[b], b), SortKeys("dearest", acts[a], a))
      BY <3>1, <3>3, PricesSort
    <3> QED
      BY <3>2, <3>3
  <2> QED
    BY <2>1 DEF PagesShowEachOnce
<1> QED
  BY <1>1, <1>2, <1>3 DEF SearchesAreExact

\* For any prices, names and times, and whatever clients, restarts and the migration made of
\* the rows: comparing prices as text is comparing them as numbers, the availability clause
\* finds what fits in, and each sort puts any two rows in one order.
THEOREM SearchesStayExact == CatalogueInit /\ [][CatalogueNext]_CatalogueVars => []SearchesAreExact
<1>1. CatalogueInit => CatalogueInv /\ RowsFit
  BY CatalogueStart, RowsFitStart
<1>2. CatalogueInv /\ RowsFit /\ [CatalogueNext]_CatalogueVars => CatalogueInv' /\ RowsFit'
  BY CatalogueStep, RowsFitStep
<1>3. RowsFit => SearchesAreExact
  BY RowsSearchExactly
<1> QED
  BY <1>1, <1>2, <1>3, PTL

=============================================================================
