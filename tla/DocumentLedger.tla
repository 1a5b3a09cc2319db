--------------------------- MODULE DocumentLedger ---------------------------
(***************************************************************************)
(* What the document endpoints promise: a register in which every handler  *)
(* is one step.  A registration takes the next number of its series and    *)
(* opens the history of the document; a transition is judged against the   *)
(* present status and changes status, area and history at once; an edit    *)
(* moves the document to another area.  A request cut short may cost the   *)
(* history of one document its newest entry, and nothing else.             *)
(***************************************************************************)
EXTENDS Naturals, Sequences, FiniteSets, TransitionRules

CONSTANTS Areas, Series

VARIABLES
  documents, flows,
  lost  \* number of requests cut short so far

OptionalArea == Areas \cup {None}

NextNumber(s) ==
  Cardinality({d \in DOMAIN documents : documents[d].series = s}) + 1

Init == documents = <<>> /\ flows = <<>> /\ lost = 0

Register(s, area) ==
  /\ documents' = Append(documents, [series |-> s, number |-> NextNumber(s),
                                     status |-> "registrado", area |-> area])
  /\ flows' = Append(flows, <<[action |-> "registrado",
                               from |-> None, to |-> "registrado",
                               from_area |-> None, to_area |-> area]>>)
  /\ UNCHANGED lost

Transition(d, to, to_area) ==
  LET old == documents[d] IN
  /\ ValidTransition(old.status, to)
  /\ RequiresArea(to) => to_area # None
  /\ documents' = [documents EXCEPT
       ![d].status = to,
       ![d].area = IF to_area = None THEN old.area ELSE to_area]
  /\ flows' = [flows EXCEPT
       ![d] = Append(@, [action |-> ActionFor(old.status, to),
                         from |-> old.status, to |-> to,
                         from_area |-> old.area, to_area |-> to_area])]
  /\ UNCHANGED lost

Move(d, area) ==
  /\ documents' = [documents EXCEPT ![d].area = area]
  /\ UNCHANGED <<flows, lost>>

Lose ==
  /\ lost' = lost + 1
  /\ \/ UNCHANGED flows
     \/ \E d \in DOMAIN documents :
          flows[d] # <<>> /\ flows' = [flows EXCEPT ![d] = SubSeq(@, 1, Len(@) - 1)]
  /\ UNCHANGED documents

Next ==
  \/ Lose
  \/ \E s \in Series, a \in OptionalArea : Register(s, a)
  \/ \E d \in DOMAIN documents, a \in OptionalArea :
       Move(d, a) \/ \E to \in Statuses : Transition(d, to, a)

Spec == Init /\ [][Next]_<<documents, flows, lost>>
=============================================================================
