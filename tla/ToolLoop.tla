------------------------------ MODULE ToolLoop ------------------------------
(***************************************************************************)
(* AI-Mode's tool loop (agent.py) and the callers that ask it again.  One  *)
(* request: the model may answer, or ask for any tool calls, turn after    *)
(* turn; the loop sends them to the MCP server one by one until a limit, a *)
(* refused call, an error or a timeout ends the run.  A call is a tool     *)
(* with arguments, the signature by which the loop recognises a repeat.    *)
(***************************************************************************)
EXTENDS Naturals, Sequences, FiniteSets

CONSTANTS Calls,           \* calls the model may ask for
          Known,           \* calls of a tool the MCP server advertises
          Valid,           \* calls whose arguments satisfy the tool's schema
          ReadOnly,        \* calls of a tool annotated as read-only
          HasSchema,       \* whether the caller wants structured output
          MaxTurns, MaxCalls, MaxCorrections,
          MaxReply,        \* how many calls one reply of the model may hold
          MaxAttempts      \* how often the caller asks

ASSUME ToolAssumption ==
  /\ Known \subseteq Calls /\ Valid \subseteq Calls /\ ReadOnly \subseteq Calls
  /\ HasSchema \in BOOLEAN
  /\ MaxTurns \in Nat \ {0} /\ MaxCalls \in Nat \ {0} /\ MaxCorrections \in Nat
  /\ MaxReply \in Nat /\ MaxAttempts \in Nat

VARIABLES at,           \* what the run waits for, or how it ended
          turn,         \* turns of the model begun
          reply,        \* calls of the last reply not yet looked at
          executed,     \* signatures sent to the MCP server
          corrections,  \* calls returned to the model for their arguments
          rechecked,    \* checked_without_tools
          trace,        \* the tool trace the caller gets with an answer or an error
          asking,      \* who calls, and the runs asked for
          received      \* how often the MCP server was asked for each call, and
                        \* answered it with an error

ToolVars == <<at, turn, reply, executed, corrections, rechecked, trace, asking, received>>

Ended == {"answered", "failed"}
Callers == {"trip assistant", "others"}
Entry == [call : Calls, status : {"success", "error", "rejected"}, answered : BOOLEAN]

ToolInit == /\ at = "chat"
            /\ turn = 1
            /\ reply = <<>>
            /\ executed = {}
            /\ corrections = 0
            /\ rechecked = FALSE
            /\ trace = <<>>
            /\ asking \in [by : Callers, runs : {1}]
            /\ received = [c \in Calls |-> [sent |-> 0, errors |-> 0]]

-----------------------------------------------------------------------------
(* The model                                                               *)

\* The next turn, or the end of the last one.
Turn == IF turn = MaxTurns
        THEN at' = "failed" /\ UNCHANGED turn
        ELSE at' = "chat" /\ turn' = turn + 1

\* A structured answer without any tool call is checked once.
NeedsRecheck == HasSchema /\ Known /= {} /\ trace = <<>> /\ ~rechecked

\* The model replies without tool calls; an empty or invalid answer is an error.
Answers ==
  /\ at = "chat"
  /\ IF NeedsRecheck
     THEN rechecked' = TRUE /\ Turn
     ELSE /\ at' \in IF HasSchema /\ Known /= {} THEN {"format"} ELSE Ended
          /\ UNCHANGED <<turn, rechecked>>
  /\ UNCHANGED <<reply, executed, corrections, trace, asking, received>>

Formats == /\ at = "format"
           /\ at' \in Ended
           /\ UNCHANGED <<turn, reply, executed, corrections, rechecked, trace, asking, received>>

Asks(calls) == /\ at = "chat"
               /\ at' = "calls"
               /\ reply' = calls
               /\ UNCHANGED <<turn, executed, corrections, rechecked, trace, asking, received>>

-----------------------------------------------------------------------------
(* The calls of a reply                                                    *)

Traced(status) == trace' = Append(trace, [call |-> Head(reply), status |-> status,
                                          answered |-> FALSE])

\* Mutant: a call that failed may be repeated.
Repeats_Successful(c) == \E i \in DOMAIN trace : trace[i].call = c /\ trace[i].status = "success"

\* The signature was sent before, whatever became of it.
Repeats(c) == c \in executed

\* Mutant: the limit counts different calls.
WithinLimit_Different == Cardinality(executed) < MaxCalls

WithinLimit == Len(trace) < MaxCalls

Allowed(c) == /\ c \in Known
              /\ ~Repeats(c) \/ c \in ReadOnly
              /\ WithinLimit

Rejects == /\ at = "calls"
           /\ reply /= <<>>
           /\ ~Allowed(Head(reply))
           /\ Traced("rejected")
           /\ at' = "failed"
           /\ UNCHANGED <<turn, reply, executed, corrections, rechecked, asking, received>>

\* Mutant: one correction too many.
Corrects_OffByOne ==
  /\ at = "calls"
  /\ reply /= <<>>
  /\ Allowed(Head(reply))
  /\ Head(reply) \notin Valid
  /\ Traced("rejected")
  /\ IF corrections > MaxCorrections
     THEN at' = "failed" /\ UNCHANGED <<reply, corrections>>
     ELSE corrections' = corrections + 1 /\ reply' = Tail(reply) /\ UNCHANGED at
  /\ UNCHANGED <<turn, executed, rechecked, asking, received>>

Corrects ==
  /\ at = "calls"
  /\ reply /= <<>>
  /\ Allowed(Head(reply))
  /\ Head(reply) \notin Valid
  /\ Traced("rejected")
  /\ IF corrections = MaxCorrections
     THEN at' = "failed" /\ UNCHANGED <<reply, corrections>>
     ELSE corrections' = corrections + 1 /\ reply' = Tail(reply) /\ UNCHANGED at
  /\ UNCHANGED <<turn, executed, rechecked, asking, received>>

\* Until the MCP server answers, the trace holds the call as one that failed.
Sends == /\ at = "calls"
         /\ reply /= <<>>
         /\ Allowed(Head(reply))
         /\ Head(reply) \in Valid
         /\ executed' = executed \cup {Head(reply)}
         /\ Traced("error")
         /\ received' = [received EXCEPT ![Head(reply)].sent = @ + 1]
         /\ at' = "tool"
         /\ UNCHANGED <<turn, reply, corrections, rechecked, asking>>

\* Mutant: a result that is too large is dropped and the run goes on.
Returns_DropsLarge ==
  /\ at = "tool"
  /\ \E status \in {"success", "error"}, large \in BOOLEAN :
       /\ trace' = [trace EXCEPT ![Len(trace)] =
                      [@ EXCEPT !.status = status, !.answered = ~large]]
       /\ at' = "calls" /\ reply' = Tail(reply)
       /\ received' = IF status = "error" THEN [received EXCEPT ![Head(reply)].errors = @ + 1] ELSE received
  /\ UNCHANGED <<turn, executed, corrections, rechecked, asking>>

Returns ==
  /\ at = "tool"
  /\ \E status \in {"success", "error"}, large \in BOOLEAN :
       /\ trace' = [trace EXCEPT ![Len(trace)] =
                      [@ EXCEPT !.status = status, !.answered = ~large]]
       /\ IF large THEN at' = "failed" /\ UNCHANGED reply
                   ELSE at' = "calls" /\ reply' = Tail(reply)
       /\ received' = IF status = "error" THEN [received EXCEPT ![Head(reply)].errors = @ + 1] ELSE received
  /\ UNCHANGED <<turn, executed, corrections, rechecked, asking>>

EndsReply == /\ at = "calls"
             /\ reply = <<>>
             /\ Turn
             /\ UNCHANGED <<reply, executed, corrections, rechecked, trace, asking, received>>

\* A timeout, a connection error or the context limit, wherever the run waits.
Fails == /\ at \in {"chat", "format", "tool"}
         /\ at' = "failed"
         /\ UNCHANGED <<turn, reply, executed, corrections, rechecked, trace, asking, received>>

-----------------------------------------------------------------------------
(* The caller                                                              *)

\* Mutant: the trip assistant's condition everywhere.
MayAskAgain_NoSuccess == \A i \in DOMAIN trace : trace[i].status /= "success"

\* Suggestions, search and analysis ask again when the answer is unusable and the
\* run used no tool; the trip assistant when no tool call succeeded.
MayAskAgain == IF asking.by = "trip assistant" THEN \A i \in DOMAIN trace : trace[i].status /= "success"
                                               ELSE trace = <<>>

\* A new run, that knows nothing of the last one.
StartsRun == /\ at' = "chat" /\ turn' = 1 /\ reply' = <<>> /\ executed' = {}
             /\ corrections' = 0 /\ rechecked' = FALSE /\ trace' = <<>>

\* Mutant: the caller does not count its attempts.
AsksAgain_Uncounted ==
  at = "answered" /\ MayAskAgain /\ StartsRun /\ UNCHANGED <<asking, received>>

AsksAgain == /\ at = "answered"
             /\ asking.runs < MaxAttempts
             /\ MayAskAgain
             /\ StartsRun
             /\ asking' = [asking EXCEPT !.runs = @ + 1]
             /\ UNCHANGED received

ToolNext == \/ Answers \/ Formats
            \/ \E n \in 1 .. MaxReply : \E calls \in [1 .. n -> Calls] : Asks(calls)
            \/ Rejects \/ Corrects \/ Sends \/ Returns \/ EndsReply
            \/ Fails
            \/ AsksAgain

ToolSpec == ToolInit /\ [][ToolNext]_ToolVars

\* Every wait of a run is bounded by agent_timeout_seconds.
FairToolSpec == ToolSpec /\ WF_ToolVars(ToolNext)

-----------------------------------------------------------------------------
\* The run, its trace and what the MCP server was asked.
ToolTypeOK == /\ at \in {"chat", "calls", "tool", "format"} \cup Ended
              /\ turn \in 1 .. MaxTurns
              /\ reply \in Seq(Calls)
              /\ at = "tool" => reply /= <<>> /\ trace /= <<>>
              /\ executed \subseteq Known \cap Valid
              /\ corrections \in 0 .. MaxCorrections
              /\ rechecked \in BOOLEAN
              /\ trace \in Seq(Entry)
              /\ asking \in [by : Callers, runs : Nat]
              /\ received \in [Calls -> [sent : Nat, errors : Nat]]

\* ai-mode/README.md: "duplicate non-read-only calls ... are rejected", and "Clients
\* must not automatically retry a run that has executed tools".  Neither the model nor
\* a caller that asks again makes the MCP server carry out one write call twice --
\* except for the trip assistant, which does retry such a run when no call succeeded:
\* it may send a write once in each run, and all but one came back as errors, of
\* which one may be WRITE_OUTCOME_UNKNOWN.
WritesSentOnce ==
  \A c \in Calls \ ReadOnly :
    IF asking.by = "trip assistant"
    THEN received[c].sent <= asking.runs /\ received[c].sent <= received[c].errors + 1
    ELSE received[c].sent <= 1

\* Callers tell from the trace whether a run may have changed something, also when
\* the run ends in the middle of a call.  What the trip assistant is not told of,
\* since its first run is forgotten, came back as an error every time.
TraceTellsCalls ==
  \A c \in Calls :
    LET told == \E i \in DOMAIN trace : trace[i].call = c /\ trace[i].status /= "rejected"
    IN  /\ told => received[c].sent > 0
        /\ received[c].sent > 0 =>
             told \/ (asking.by = "trip assistant" /\ received[c].errors = received[c].sent)

\* After a call whose result the model has not seen, nothing more is sent.
UncertainEndsRun ==
  \A i \in DOMAIN trace : trace[i].status /= "rejected" /\ ~trace[i].answered =>
    i = Len(trace) /\ at \in {"tool", "failed"}

\* ai-mode/README.md: "excessive execution" is rejected, whichever mix of calls,
\* corrections and turns the model tries.
CallsBounded ==
  /\ Len(trace) <= MaxCalls + 1
  /\ Len(trace) = MaxCalls + 1 => at = "failed" /\ trace[Len(trace)].status = "rejected"

\* A run stays within its limits, and its trace accounts for every call that reached
\* the MCP server, the last and perhaps unfinished one included.
RunIsAccounted == ToolTypeOK /\ CallsBounded /\ UncertainEndsRun /\ TraceTellsCalls

\* The caller gets an answer or an error, and stops asking.
RunEnds == <>[](at \in Ended)
=============================================================================
