---------------------------- MODULE MCMemberships ----------------------------
(* Small instances of Memberships for TLC. *)
EXTENDS Memberships, TLC

\* The queries are independent of each other: one fetch is under way at a time.
OneFetch == Cardinality({k \in Keys : cache[k].fetch # "idle"}) <= 1

\* The users are, too: it is First that is picked and edited; the one created only
\* adds to the lists, in the default position, but may be opened while the call that
\* creates him is there.
OneUser ==
  /\ \A u \in Users \ {First} :
       newUser # u /\ (cache[u] = NoQuery \/ \E c \in calls : c.op = "create")
  /\ \A c \in calls : c.op = "create" => c.position \in {Soporte, Nil}

\* At most three of the queries have data; with that of a user, the members of no
\* area but Home.
ThreeLoaded ==
  /\ Cardinality(Loaded) <= 3
  /\ Loaded \cap Users # {} => Loaded \cap Areas \subseteq {Home}

\* What is entered is of use while there is a call left to send it with; the form
\* of a user is opened for his data, too.
EnteredToBeSent ==
  \/ made < MaxCalls /\ made + others < MaxEvents
  \/ calls # {}
  \/ newUser = Nil /\ (page = "form" => editing # Nil)
=============================================================================
