-------------------------- MODULE MCTransportSeats --------------------------
(***************************************************************************)
(* TransportSeats with a history: whether two requests ever overlapped, or *)
(* an option was deleted while Student 1 could not be asked.               *)
(***************************************************************************)
EXTENDS TransportSeats, TLC

VARIABLE strained
watchedVars == <<vars, strained>>

Strains == \/ \E c, d \in Clients : c /= d /\ requests'[c] /= Idle /\ requests'[d] /= Idle
           \/ \E c \in Clients : /\ ~Free(c) /\ requests'[c] = requests[c]
                                 /\ options' /= options \/ (pins' /= pins /\ live' = live)
           \/ \E c \in Clients : requests'[c].at = "delete" /\ ~requests'[c].asked

WatchedInit == Init /\ strained = FALSE
WatchedSpec == WatchedInit /\ [][Next /\ strained' = (strained \/ Strains)]_watchedVars

\* backend/README.md:319 of student 3: "A selection that would oversubscribe a
\* service returns `409`": so it is while requests come one at a time.
SelectionsFitAlone ==
  [][~strained' => \A o \in Options : Taken(o)' > Taken(o) /\ options[o] /= NoOption =>
                                        Taken(o)' <= options[o].capacity]_watchedVars

\* delete_transport_option: "otherwise deleting an option would leave Student 1
\* with rows pointing at something that no longer exists": so it is without an
\* outage while requests come one at a time.
PinsNameOptionsAlone == ~strained => PinsNameOptions

\* Requests overlap here only over an option of full capacity, and after no
\* selection of it was cancelled.
Overlap == \/ \E c \in Clients : Free(c)
           \/ \A o \in Options : /\ options[o] \in {NoOption, [capacity |-> MaxSeats, open |-> TRUE]}
                                 /\ \A t \in Holding(o) : pins[t][o].active

\* Trips, and clients, are told apart by nothing but their state.
Symmetry == Permutations(Trips) \cup Permutations(Clients)
=============================================================================
