-------------------------- MODULE DocumentRequests --------------------------
(***************************************************************************)
(* The internal-document endpoints (Api::V1::DocumentsController with      *)
(* Documents::RegisterService and Documents::TransitionService) as the     *)
(* threads of the web server run them against the database.                *)
(*                                                                         *)
(* No handler opens a transaction of its own or takes a lock: each save,   *)
(* update and create! commits by itself, and between two of them any other *)
(* thread may commit.  So an action below is one database statement or one *)
(* commit of one thread, with the Ruby code around it, and what a thread   *)
(* remembers between two actions is what the handler holds in memory: the  *)
(* document number it computed, the row as it was when it was loaded, the  *)
(* flow entry it has yet to write.                                         *)
(***************************************************************************)
EXTENDS Naturals, Sequences, FiniteSets, TransitionRules

CONSTANTS
  Workers,      \* the request threads of the server
  Areas,        \* the areas a document can be in
  Series,       \* the numbering series, "<type code>-<year>"
  MaxRequests,  \* bound: how many requests arrive in a behaviour
  MaxAborts     \* bound: how many of them are cut short

ASSUME WorkersAssumption == IsFiniteSet(Workers)
ASSUME AreasAssumption   == None \notin Areas
ASSUME BoundsAssumption  == MaxRequests \in Nat /\ MaxAborts \in Nat

VARIABLES
  documents,  \* table documents; the id of a row is its position
  flows,      \* flows[d]: the document_flows of document d, oldest first
  versions,   \* versions[d]: its PaperTrail versions, oldest first
  requests,   \* requests[w]: the request thread w is serving
  arrived,    \* number of requests taken up so far
  aborted     \* number of requests cut short so far

tables == <<documents, flows, versions>>
vars == <<tables, requests, arrived, aborted>>
-----------------------------------------------------------------------------
OptionalArea   == Areas \cup {None}
OptionalStatus == Statuses \cup {None}

Document == [series : Series, number : Nat \ {0},
             status : Statuses, area : OptionalArea]

Flow == [action : FlowActions, from : OptionalStatus, to : Statuses,
         from_area : OptionalArea, to_area : OptionalArea]

\* object_changes of a version; an attribute that did not change has the
\* same value on both sides.
Version == [from : OptionalStatus, to : Statuses,
            from_area : OptionalArea, to_area : OptionalArea]

Idle == [stage |-> "idle"]

Request ==
  {Idle}
    \cup [stage : {"numbered"}, series : Series, number : Nat \ {0},
          area : OptionalArea]
    \cup [stage : {"loaded"}, doc : Nat \ {0}, status : Statuses,
          area : OptionalArea]
    \cup [stage : {"recording"}, doc : Nat \ {0}, flow : Flow]

Documents == DOMAIN documents
InSeries(s) == {d \in Documents : documents[d].series = s}

\* Mutant of Taken: documents has no unique index on document_number.
NeverTaken(s, n) == FALSE

\* The unique index has an entry for number n of series s.
Taken(s, n) == \E d \in InSeries(s) : documents[d].number = n
-----------------------------------------------------------------------------
Init ==
  /\ documents = <<>>
  /\ flows = <<>>
  /\ versions = <<>>
  /\ requests = [w \in Workers |-> Idle]
  /\ arrived = 0
  /\ aborted = 0

\* A thread takes up a request.
Accept(w) ==
  /\ requests[w] = Idle
  /\ arrived < MaxRequests
  /\ arrived' = arrived + 1
  /\ UNCHANGED aborted

\* A thread moves on to another stage of its request, or ends it.
Become(w, request) == requests' = [requests EXCEPT ![w] = request]

Proceed(w, request) == Become(w, request) /\ UNCHANGED <<arrived, aborted>>

\* POST create, up to assign_document_number: the number is one more than the
\* count of the rows committed in the series.  s stands for the type's code
\* and the year, a for the area_id of the form.
AssignDocumentNumber(w, s, a) ==
  /\ Accept(w)
  /\ Become(w, [stage |-> "numbered", series |-> s,
                number |-> Cardinality(InSeries(s)) + 1, area |-> a])
  /\ UNCHANGED tables

\* The INSERT of document.save commits, its PaperTrail version with it.  What
\* is left of RegisterService#call is the attachments and the first flow.
InsertDocument(w) ==
  LET r == requests[w] IN
  /\ r.stage = "numbered"
  /\ ~Taken(r.series, r.number)
  /\ documents' = Append(documents, [series |-> r.series, number |-> r.number,
                                     status |-> "registrado", area |-> r.area])
  /\ flows' = Append(flows, <<>>)
  /\ versions' = Append(versions, <<[from |-> None, to |-> "registrado",
                                     from_area |-> None, to_area |-> r.area]>>)
  /\ Proceed(w, [stage |-> "recording", doc |-> Len(documents) + 1,
                 flow |-> [action |-> "registrado",
                           from |-> None, to |-> "registrado",
                           from_area |-> None, to_area |-> r.area]])

\* The unique index refuses the INSERT and save raises RecordNotUnique.
RaiseNotUnique(w) ==
  /\ requests[w].stage = "numbered"
  /\ Taken(requests[w].series, requests[w].number)
  /\ Proceed(w, Idle)
  /\ UNCHANGED tables

\* set_document of update, update_status and destroy: the row is loaded.
SetDocument(w, d) ==
  /\ Accept(w)
  /\ Become(w, [stage |-> "loaded", doc |-> d,
                status |-> documents[d].status, area |-> documents[d].area])
  /\ UNCHANGED tables

\* The request ends without a write: Pundit refuses it (403), the transition
\* is not valid, its area is missing or the attributes are invalid (422), or
\* update finds no attribute changed.
Refuse(w) ==
  /\ requests[w].stage = "loaded"
  /\ Proceed(w, Idle)
  /\ UNCHANGED tables

\* UPDATE of document d by a thread that loaded status and area: the columns
\* whose new value differs from the loaded one are written, no others, and
\* the version names the loaded values as the old ones.
UpdateDocument(r, to, area) ==
  /\ documents' = [documents EXCEPT
       ![r.doc].status = IF to # r.status THEN to ELSE @,
       ![r.doc].area   = IF area # r.area THEN area ELSE @]
  /\ versions' = [versions EXCEPT
       ![r.doc] = Append(@, [from |-> r.status, to |-> to,
                             from_area |-> r.area, to_area |-> area])]
  /\ UNCHANGED flows

\* Mutant of CommitTransition: from_status and from_area are read after the
\* update instead of before it.
CommitThenSnapshot(w, to, to_area) ==
  LET r == requests[w]
      area == IF to_area # None THEN to_area ELSE r.area
  IN  /\ r.stage = "loaded"
      /\ ValidTransition(r.status, to)
      /\ RequiresArea(to) => to_area # None
      /\ UpdateDocument(r, to, area)
      /\ Proceed(w, [stage |-> "recording", doc |-> r.doc,
                     flow |-> [action |-> ActionFor(r.status, to),
                               from |-> to, to |-> to,
                               from_area |-> area, to_area |-> to_area]])

\* Mutant of CommitTransition: the area is written for derivado only, while the
\* flow names it for every target.
CommitRoutingDerivado(w, to, to_area) ==
  LET r == requests[w] IN
  /\ r.stage = "loaded"
  /\ ValidTransition(r.status, to)
  /\ RequiresArea(to) => to_area # None
  /\ UpdateDocument(r, to, IF RequiresArea(to) THEN to_area ELSE r.area)
  /\ Proceed(w, [stage |-> "recording", doc |-> r.doc,
                 flow |-> [action |-> ActionFor(r.status, to),
                           from |-> r.status, to |-> to,
                           from_area |-> r.area, to_area |-> to_area]])

\* PATCH update_status, and DELETE as a transition to anulado: the loaded
\* status is checked against the rules and the update commits.
CommitTransition(w, to, to_area) ==
  LET r == requests[w] IN
  /\ r.stage = "loaded"
  /\ ValidTransition(r.status, to)
  /\ RequiresArea(to) => to_area # None
  /\ UpdateDocument(r, to, IF to_area # None THEN to_area ELSE r.area)
  /\ Proceed(w, [stage |-> "recording", doc |-> r.doc,
                 flow |-> [action |-> ActionFor(r.status, to),
                           from |-> r.status, to |-> to,
                           from_area |-> r.area, to_area |-> to_area]])

\* PATCH update with another area_id: the document moves, no flow is written.
CommitArea(w, area) ==
  LET r == requests[w] IN
  /\ r.stage = "loaded"
  /\ area # r.area
  /\ UpdateDocument(r, r.status, area)
  /\ Proceed(w, Idle)

\* Mutant of CreateFlow: no entry is written when the request named no area.
CreateRoutingFlow(w) ==
  LET r == requests[w] IN
  /\ r.stage = "recording"
  /\ flows' = IF r.flow.to_area = None THEN flows
              ELSE [flows EXCEPT ![r.doc] = Append(@, r.flow)]
  /\ Proceed(w, Idle)
  /\ UNCHANGED <<documents, versions>>

\* Mutant of CreateFlow: the present entry is updated instead of a new created.
ReplaceFlow(w) ==
  LET r == requests[w] IN
  /\ r.stage = "recording"
  /\ flows' = [flows EXCEPT ![r.doc] = <<r.flow>>]
  /\ Proceed(w, Idle)
  /\ UNCHANGED <<documents, versions>>

\* DocumentFlow.create! commits: the last write of both services.
CreateFlow(w) ==
  LET r == requests[w] IN
  /\ r.stage = "recording"
  /\ flows' = [flows EXCEPT ![r.doc] = Append(@, r.flow)]
  /\ Proceed(w, Idle)
  /\ UNCHANGED <<documents, versions>>

\* The request is cut short between two commits: the process dies, the
\* connection is lost, or attaching a file raises.
Abort(w) ==
  /\ requests[w] # Idle
  /\ aborted < MaxAborts
  /\ aborted' = aborted + 1
  /\ Become(w, Idle)
  /\ UNCHANGED <<tables, arrived>>

\* Every request of the behaviour has been served; the server waits.
Rest ==
  /\ arrived = MaxRequests
  /\ \A w \in Workers : requests[w] = Idle
  /\ UNCHANGED vars

Arrive(w) ==
  \/ \E s \in Series, a \in OptionalArea : AssignDocumentNumber(w, s, a)
  \/ \E d \in Documents : SetDocument(w, d)

Step(w) ==
  \/ InsertDocument(w)
  \/ RaiseNotUnique(w)
  \/ Refuse(w)
  \/ \E to \in Statuses, a \in OptionalArea : CommitTransition(w, to, a)
  \/ \E a \in OptionalArea : CommitArea(w, a)
  \/ CreateFlow(w)

Next == Rest \/ \E w \in Workers : Arrive(w) \/ Step(w) \/ Abort(w)

Spec == Init /\ [][Next]_vars

\* A thread that has taken up a request runs its handler to the end: the
\* database answers, no lock is held by anyone.
FairSpec == Spec /\ \A w \in Workers : WF_vars(Step(w))
-----------------------------------------------------------------------------
\* Every variable holds what its table or handler can hold; the three tables
\* describe the same documents and a thread only holds ids of existing ones.
TypeOK ==
  /\ documents \in Seq(Document)
  /\ flows \in [Documents -> Seq(Flow)]
  /\ versions \in [Documents -> Seq(Version)]
  /\ requests \in [Workers -> Request]
  /\ \A w \in Workers : requests[w].stage \in {"loaded", "recording"}
                          => requests[w].doc \in Documents
  /\ arrived \in Nat
  /\ aborted \in Nat

\* "Correlativa": whatever inserts race, fail or are retried, the numbers of a
\* series are 1, 2, ..., as many as it has documents, none twice and none
\* skipped (assign_document_number and the unique index together).
NumbersAreConsecutive ==
  \A s \in Series :
    /\ {documents[d].number : d \in InSeries(s)} = 1 .. Cardinality(InSeries(s))
    /\ \A d, e \in InSeries(s) : documents[d].number = documents[e].number => d = e

\* What a flow entry may say: the first one of a registration, or a transition
\* of the rules under its name, with an area when the target requires one.
LegalFlow(f) ==
  \/ f.action = "registrado" /\ f.from = None /\ f.to = "registrado"
  \/ /\ ValidTransition(f.from, f.to)
     /\ f.action = ActionFor(f.from, f.to)
     /\ RequiresArea(f.to) => f.to_area # None

\* The versions among vs that changed the status, and those of document d.
StatusChanges(vs) == {i \in DOMAIN vs : vs[i].from # vs[i].to}
StatusVersions(d) == StatusChanges(versions[d])

\* Flow entry f is legal and repeats a status change of the versions vs.
Attested(vs, f) ==
  /\ LegalFlow(f)
  /\ \E i \in StatusChanges(vs) :
       /\ vs[i].from = f.from /\ vs[i].to = f.to
       /\ vs[i].from_area = f.from_area
       /\ f.to_area \in {vs[i].to_area, None}

\* Every flow entry, written or still held by a thread, is legal and repeats a
\* status change the PaperTrail trail of the same document has: the two records
\* of the history never contradict each other, however requests interleave.
FlowsAreAttested ==
  /\ \A d \in Documents : \A i \in DOMAIN flows[d] : Attested(versions[d], flows[d][i])
  /\ \A w \in Workers :
       requests[w].stage = "recording"
         => Attested(versions[requests[w].doc], requests[w].flow)

\* The threads that have changed d and not yet written the flow entry.
Recording(d) ==
  {w \in Workers : requests[w].stage = "recording" /\ requests[w].doc = d}

\* "Registrar cada cambio de estado": the status changes of a document are its
\* flow entries, plus those a thread is about to write, plus at most one for
\* every request that was cut short.
ChangesAreRecorded ==
  \A d \in Documents :
    LET known == Len(flows[d]) + Cardinality(Recording(d))
    IN  Cardinality(StatusVersions(d)) \in known .. known + aborted

\* The past is immutable: a step adds to the tables and changes, of what is in
\* them, only the status and the area of one document, each together with a
\* version that says so.
Appended(old, new) ==
  new = old \/ (Len(new) = Len(old) + 1 /\ SubSeq(new, 1, Len(old)) = old)

PastIsImmutable ==
  [][\A d \in Documents :
       /\ d \in Documents'
       /\ documents'[d].number = documents[d].number
       /\ documents'[d].series = documents[d].series
       /\ Appended(flows[d], flows'[d])
       /\ Appended(versions[d], versions'[d])
       /\ documents'[d] # documents[d] => versions'[d] # versions[d]]_vars

\* The k-th status change of a document leads to its k-th flow entry, whatever
\* the other threads do in between, but for the requests that are cut short.
ChangesGetRecorded ==
  \A d, k \in 1 .. MaxRequests :
    (d \in Documents /\ Cardinality(StatusVersions(d)) >= k)
      ~> (d \in Documents /\ Len(flows[d]) + aborted >= k)
-----------------------------------------------------------------------------
\* The register the tables amount to: an entry a thread still holds counts.
settledFlows ==
  [d \in Documents |->
     IF Recording(d) = {} THEN flows[d]
     ELSE Append(flows[d], requests[CHOOSE w \in Recording(d) : TRUE].flow)]

Ledger == INSTANCE DocumentLedger WITH flows <- settledFlows, lost <- aborted

\* With one thread the endpoints implement the register: the commits of a
\* handler amount to one atomic step.
ImplementsLedger == Ledger!Spec
=============================================================================
