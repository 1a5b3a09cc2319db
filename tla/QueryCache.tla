------------------------------ MODULE QueryCache ------------------------------
(***************************************************************************)
(* One query of the web client's cache, as @tanstack/react-query 5 keeps   *)
(* it for useQuery, invalidateQueries and the queryClient of App.tsx.      *)
(*                                                                         *)
(* The answer of a fetch is fixed when the server reads its tables and     *)
(* becomes the data when it arrives.  An invalidation starts the fetch     *)
(* anew only when the query is watched by a mounted page and already has   *)
(* data; otherwise the fetch under way goes on, and its arrival makes the  *)
(* query fresh again, whatever was invalidated meanwhile.                  *)
(***************************************************************************)
CONSTANT Nil

Query(Data) ==
  [data : Data \cup {Nil}, fetch : {"idle", "asked", "answered"},
   answer : Data \cup {Nil}, stale : BOOLEAN]

NoQuery == [data |-> Nil, fetch |-> "idle", answer |-> Nil, stale |-> TRUE]

Ask(q) == [q EXCEPT !.fetch = "asked", !.answer = Nil]

\* A page that uses the query is mounted, or the window gets the focus; aged
\* says whether the data is older than its staleTime.
Mounted(q, aged) ==
  IF q.fetch = "idle" /\ (q.stale \/ aged) THEN Ask(q) ELSE q

\* The fetch under way is not started anew by an invalidation.
Survives(q, watched) == q.fetch # "idle" /\ ~(watched /\ q.data # Nil)

\* invalidateQueries: every matching query is stale, a watched one is fetched.
Invalidated(q, watched) ==
  LET s == [q EXCEPT !.stale = TRUE]
  IN  IF watched /\ ~Survives(q, watched) THEN Ask(s) ELSE s

Answered(q, d) == [q EXCEPT !.fetch = "answered", !.answer = d]

Arrived(q) == [data |-> q.answer, fetch |-> "idle", answer |-> Nil, stale |-> FALSE]

\* The fetch failed after its retry; the data stays.
Failed(q) == [q EXCEPT !.fetch = "idle", !.answer = Nil]

\* Nothing is under way or owed: the page shows the data as final.
Settled(q) == q.data # Nil /\ q.fetch = "idle" /\ ~q.stale
=============================================================================
