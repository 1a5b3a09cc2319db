-------------------------- MODULE TransitionRules --------------------------
(***************************************************************************)
(* The state machine of an internal document: the constant tables of       *)
(* Documents::TransitionRules and its query methods.  No state, no side    *)
(* effect; the handlers of DocumentRequests consult it.                    *)
(***************************************************************************)

\* The values of Document#status.
Statuses == {"registrado", "en_proceso", "derivado", "respondido",
             "archivado", "anulado", "devuelto", "finalizado"}

\* Ruby's nil, as a status, an action name or an area.
None == "nil"

TRANSITIONS ==
  [ registrado |-> {"en_proceso", "derivado", "anulado"},
    en_proceso |-> {"derivado", "respondido", "devuelto", "finalizado", "anulado"},
    derivado   |-> {"en_proceso", "devuelto", "finalizado", "anulado"},
    respondido |-> {"finalizado", "archivado", "anulado"},
    devuelto   |-> {"en_proceso", "anulado"},
    archivado  |-> {},
    finalizado |-> {},
    anulado    |-> {} ]

\* Mutant of FLOW_ACTION: the table lacks a pair the transitions have.
IncompleteFlowAction ==
  [ registrado |-> [derivado |-> "derivado", anulado |-> "anulado"],
    en_proceso |-> [anulado |-> "anulado"], derivado |-> [anulado |-> "anulado"],
    respondido |-> [anulado |-> "anulado"], devuelto |-> [anulado |-> "anulado"] ]

\* FLOW_ACTION[from][to]: the name DocumentFlow#action gets for the pair.
FLOW_ACTION ==
  [ registrado |-> [en_proceso |-> "avance",     derivado   |-> "derivado",
                    anulado    |-> "anulado"],
    en_proceso |-> [derivado   |-> "derivado",   respondido |-> "avance",
                    devuelto   |-> "devuelto",   finalizado |-> "finalizado",
                    anulado    |-> "anulado"],
    derivado   |-> [en_proceso |-> "avance",     devuelto   |-> "devuelto",
                    finalizado |-> "finalizado", anulado    |-> "anulado"],
    respondido |-> [finalizado |-> "finalizado", archivado  |-> "avance",
                    anulado    |-> "anulado"],
    devuelto   |-> [en_proceso |-> "avance",     anulado    |-> "anulado"] ]

REQUIRES_AREA == {"derivado"}

\* TransitionRules.valid?
ValidTransition(from, to) == from \in Statuses /\ to \in TRANSITIONS[from]

\* TransitionRules.action_for: nil for a pair the table does not have.
ActionFor(from, to) ==
  IF from \in DOMAIN FLOW_ACTION /\ to \in DOMAIN FLOW_ACTION[from]
  THEN FLOW_ACTION[from][to]
  ELSE None

\* TransitionRules.requires_area?
RequiresArea(to) == to \in REQUIRES_AREA

\* The statuses without an outgoing transition.
TerminalStatuses ==
  Statuses \ {from \in Statuses : \E to \in Statuses : ValidTransition(from, to)}

\* ACTIONS, the names DocumentFlow validates.
FlowActions == {"registrado", "derivado", "delegado", "avance", "devuelto",
                "finalizado", "anulado"}
=============================================================================
