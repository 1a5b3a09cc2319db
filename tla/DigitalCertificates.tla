------------------------- MODULE DigitalCertificates -------------------------
(***************************************************************************)
(* The digital certificates of one user                                    *)
(* (Api::V1::DigitalCertificatesController and DigitalCertificate): which  *)
(* of them is the default, the one ArchivosController#sign uses.           *)
(*                                                                         *)
(* Every endpoint is scoped to current_user, so the certificates of two    *)
(* users never meet and the module has those of one.  An action is one SQL *)
(* statement or commit.  Saving a certificate that becomes the default is  *)
(* one transaction of two statements: before_save clears the flag of the   *)
(* other certificates, then the row itself is written.  In between the     *)
(* transaction holds the row locks of the first statement and nobody sees  *)
(* its effect (READ COMMITTED); a statement that needs a locked row waits. *)
(***************************************************************************)
EXTENDS Naturals, Sequences, FiniteSets, FiniteSetsExt

CONSTANTS
  Workers,          \* the request threads serving this user
  InitialCertificates,  \* how many certificates the user starts with
  MaxCertificates,  \* bound: how many rows the table can get
  MaxRequests,      \* bound: how many requests arrive
  MaxAborts,        \* bound: how many of them are cut short
  ChoosesDefault    \* whether set_default is called on the default one: the
                    \* button of CertificatesPage is disabled there

ASSUME CertificatesBounds ==
  /\ InitialCertificates \in 0 .. MaxCertificates
  /\ MaxCertificates \in Nat /\ MaxRequests \in Nat /\ MaxAborts \in Nat
  /\ ChoosesDefault \in BOOLEAN

VARIABLES
  certificates,  \* table digital_certificates; the id of a row is its position,
                 \* ids grow with created_at
  requests,      \* requests[w]: the request thread w is serving
  held,          \* held[w]: the rows the open transaction of w has locked, to
                 \* clear their flag when it commits
  arrived, aborted

certificatesVars == <<certificates, requests, held, arrived, aborted>>

Certificate == [is_default : BOOLEAN, kept : BOOLEAN, file : BOOLEAN]

Ids  == DOMAIN certificates
Kept == {c \in Ids : certificates[c].kept}

New  == 0   \* the id of a certificate that is not inserted yet
Idle == [stage |-> "idle"]

Request ==
  {Idle}
    \cup [stage : {"counted"}, is_default : BOOLEAN]
    \cup [stage : {"destroying", "choosing"}, row : Nat, is_default : BOOLEAN]
    \cup [stage : {"discarded"}]
    \cup [stage : {"defaulting", "cleared"}, row : Nat]
    \cup [stage : {"attaching"}, row : Nat]

CertificatesInit ==
  /\ certificates = [c \in 1 .. InitialCertificates |->
                       [is_default |-> c = 1, kept |-> TRUE, file |-> TRUE]]
  /\ requests = [w \in Workers |-> Idle]
  /\ held = [w \in Workers |-> {}]
  /\ arrived = 0
  /\ aborted = 0
-----------------------------------------------------------------------------
Accept(w) ==
  /\ requests[w] = Idle
  /\ arrived < MaxRequests
  /\ arrived' = arrived + 1
  /\ UNCHANGED <<certificates, held, aborted>>

Become(w, request) == requests' = [requests EXCEPT ![w] = request]

Free(w, rows) == \A v \in Workers \ {w} : held[v] \cap rows = {}

\* The transaction of w ends: its locks are released.
Release(w) == held' = [held EXCEPT ![w] = {}]

\* A create whose row is not committed yet; the bound counts it.
Inserting(w) ==
  \/ requests[w].stage = "counted"
  \/ requests[w].stage = "cleared" /\ requests[w].row = New

\* POST create, file parsed: the first certificate becomes the default.
CountKept(w) ==
  /\ Len(certificates) + Cardinality({v \in Workers : Inserting(v)}) < MaxCertificates
  /\ Accept(w)
  /\ Become(w, [stage |-> "counted", is_default |-> Kept = {}])

\* set_certificate of destroy and set_default: a kept row is loaded.
SetCertificate(w, c) ==
  /\ c \in Kept
  /\ Accept(w)
  /\ \/ Become(w, [stage |-> "destroying", row |-> c,
                   is_default |-> certificates[c].is_default])
     \/ /\ ChoosesDefault \/ ~certificates[c].is_default
        /\ Become(w, [stage |-> "choosing", row |-> c,
                      is_default |-> certificates[c].is_default])

\* Mutant of ClearOtherDefaults: before_save without the clearing.
ClearNone(w) ==
  LET r == requests[w] IN
  /\ r.stage = "defaulting" \/ (r.stage = "counted" /\ r.is_default)
  /\ Become(w, [stage |-> "cleared",
                row |-> IF r.stage = "counted" THEN New ELSE r.row])
  /\ UNCHANGED <<certificates, held, arrived, aborted>>

\* Inside the transaction of a save that turns is_default on,
\* clear_other_defaults: UPDATE of all kept rows but the saved one.
ClearOtherDefaults(w) ==
  LET r    == requests[w]
      row  == IF r.stage = "counted" THEN New ELSE r.row
      rows == Kept \ {row}
  IN  /\ r.stage = "defaulting" \/ (r.stage = "counted" /\ r.is_default)
      /\ Free(w, rows)
      /\ held' = [held EXCEPT ![w] = rows]
      /\ Become(w, [stage |-> "cleared", row |-> row])
      /\ UNCHANGED <<certificates, arrived, aborted>>

\* The flags cleared by the transaction of w take effect.
Cleared(w) ==
  [c \in Ids |-> IF c \in held[w] THEN [certificates[c] EXCEPT !.is_default = FALSE]
                                  ELSE certificates[c]]

\* The INSERT of create commits; a certificate that is not the default needs no
\* other statement.
InsertCertificate(w) ==
  LET r == requests[w]
      default == r.stage = "cleared"
  IN  /\ \/ r.stage = "cleared" /\ r.row = New
         \/ r.stage = "counted" /\ ~r.is_default
      /\ certificates' = Append(Cleared(w), [is_default |-> default,
                                             kept |-> TRUE, file |-> FALSE])
      /\ Release(w)
      /\ Become(w, [stage |-> "attaching", row |-> Len(certificates) + 1])
      /\ UNCHANGED <<arrived, aborted>>

\* certificate_file.attach, after the commit of the row.
AttachFile(w) ==
  /\ requests[w].stage = "attaching"
  /\ certificates' = [certificates EXCEPT ![requests[w].row].file = TRUE]
  /\ Become(w, Idle)
  /\ UNCHANGED <<held, arrived, aborted>>

\* Mutant of CommitDefault: the transaction is left open.
CommitHolding(w) ==
  LET r == requests[w] IN
  /\ r.stage = "cleared" /\ r.row # New
  /\ Free(w, {r.row})
  /\ certificates' = [Cleared(w) EXCEPT ![r.row].is_default = TRUE]
  /\ Become(w, Idle)
  /\ UNCHANGED <<held, arrived, aborted>>

\* Mutant of CommitDefault: the others are cleared after the save, and the row
\* with them.
CommitThenClear(w) ==
  LET r == requests[w] IN
  /\ r.stage = "cleared" /\ r.row # New
  /\ Free(w, {r.row})
  /\ certificates' = [Cleared(w) EXCEPT ![r.row].is_default = FALSE]
  /\ Release(w)
  /\ Become(w, Idle)
  /\ UNCHANGED <<arrived, aborted>>

\* The UPDATE of the row that becomes the default commits, whatever happened to
\* the row since it was loaded: update! of set_default and of destroy.
CommitDefault(w) ==
  LET r == requests[w] IN
  /\ r.stage = "cleared" /\ r.row # New
  /\ Free(w, {r.row})
  /\ certificates' = [Cleared(w) EXCEPT ![r.row].is_default = TRUE]
  /\ Release(w)
  /\ Become(w, Idle)
  /\ UNCHANGED <<arrived, aborted>>

\* update!(is_default: true) on a loaded row: nothing to save when the loaded
\* flag is on already.
UpdateDefault(w, row, loaded) ==
  Become(w, IF loaded THEN Idle ELSE [stage |-> "defaulting", row |-> row])

\* set_default: update_all clears the flag of every kept row, in a transaction
\* of its own, then the loaded row is updated.
UpdateAll(w) ==
  LET r == requests[w] IN
  /\ r.stage = "choosing"
  /\ Free(w, Kept)
  /\ certificates' = [c \in Ids |-> IF c \in Kept
                        THEN [certificates[c] EXCEPT !.is_default = FALSE]
                        ELSE certificates[c]]
  /\ UpdateDefault(w, r.row, r.is_default)
  /\ UNCHANGED <<held, arrived, aborted>>

\* destroy: the row is discarded; the default has a successor to be found.
Discard(w) ==
  LET r == requests[w] IN
  /\ r.stage = "destroying"
  /\ Free(w, {r.row})
  /\ certificates' = [certificates EXCEPT ![r.row].kept = FALSE]
  /\ Become(w, IF r.is_default THEN [stage |-> "discarded"] ELSE Idle)
  /\ UNCHANGED <<held, arrived, aborted>>

\* Mutant of PromoteNext: discarded certificates are successors too.
PromoteAny(w) ==
  /\ requests[w].stage = "discarded"
  /\ UpdateDefault(w, Max(Ids), certificates[Max(Ids)].is_default)
  /\ UNCHANGED <<certificates, held, arrived, aborted>>

\* The rest of destroy: the newest kept certificate, if any, is loaded and
\* becomes the default.
PromoteNext(w) ==
  /\ requests[w].stage = "discarded"
  /\ IF Kept = {} THEN Become(w, Idle)
     ELSE UpdateDefault(w, Max(Kept), certificates[Max(Kept)].is_default)
  /\ UNCHANGED <<certificates, held, arrived, aborted>>
-----------------------------------------------------------------------------
\* The rows the next statement of w has to lock.
Needs(w) ==
  LET r == requests[w] IN
  CASE r.stage = "choosing"   -> Kept
    [] r.stage = "destroying" -> {r.row}
    [] r.stage = "defaulting" -> Kept \ {r.row}
    [] r.stage = "cleared"    -> {r.row}
    [] OTHER                  -> {}

\* w is one of a set of transactions that wait for each other.
Deadlocked(w) ==
  \E S \in SUBSET Workers :
    /\ w \in S
    /\ \A v \in S : ~Free(v, Needs(v)) /\ \E u \in S \ {v} : held[u] \cap Needs(v) # {}

\* PostgreSQL breaks a deadlock: it rolls one transaction back and update!
\* raises ActiveRecord::Deadlocked, which nothing rescues.
RaiseDeadlocked(w) ==
  /\ Deadlocked(w)
  /\ Release(w)
  /\ Become(w, Idle)
  /\ UNCHANGED <<certificates, arrived, aborted>>

\* The request is cut short between two statements; an open transaction is
\* rolled back.
Abort(w) ==
  /\ requests[w] # Idle
  /\ aborted < MaxAborts
  /\ aborted' = aborted + 1
  /\ Release(w)
  /\ Become(w, Idle)
  /\ UNCHANGED <<certificates, arrived>>

AllIdle == \A w \in Workers : requests[w] = Idle

\* Every request has ended, and the bounds let no other arrive.
Rest ==
  /\ AllIdle
  /\ arrived = MaxRequests \/ (Kept = {} /\ Len(certificates) = MaxCertificates)
  /\ UNCHANGED certificatesVars

Arrive(w) == CountKept(w) \/ \E c \in Ids : SetCertificate(w, c)

Step(w) ==
  \/ ClearOtherDefaults(w) \/ InsertCertificate(w) \/ AttachFile(w)
  \/ CommitDefault(w) \/ UpdateAll(w) \/ Discard(w) \/ PromoteNext(w)
  \/ RaiseDeadlocked(w)

CertificatesNext == Rest \/ \E w \in Workers : Arrive(w) \/ Step(w) \/ Abort(w)

CertificatesSpec == CertificatesInit /\ [][CertificatesNext]_certificatesVars

\* The database runs a statement once its locks are free and detects deadlocks.
CertificatesFairSpec == CertificatesSpec /\ \A w \in Workers : WF_certificatesVars(Step(w))
-----------------------------------------------------------------------------
Defaults == {c \in Kept : certificates[c].is_default}

\* "Ensure only one default per user": no two kept certificates are default.
OneDefaultAtMost == Cardinality(Defaults) <= 1

\* Used through the page by one thread, nothing cut short: between requests a
\* user who has certificates has exactly one default, and can sign with it.
OneDefault ==
  AllIdle /\ Kept # {} => \E c \in Kept : Defaults = {c} /\ certificates[c].file

\* "Certificado establecido como predeterminado": when set_default ends, the
\* certificate it was called on is the default, and the only one; so is the
\* successor when destroy ends.
ChoiceIsDefault ==
  [][\A w \in Workers :
       (/\ requests[w].stage \in {"choosing", "defaulting", "cleared"}
        /\ requests'[w] = Idle
        /\ aborted' = aborted)
         => {c \in Kept' : certificates'[c].is_default} = {requests[w].row}]_certificatesVars

\* Every request ends, the ones that wait for each other too.
RequestsFinish == \A w \in Workers : requests[w] # Idle ~> requests[w] = Idle
=============================================================================
