----------------------------- MODULE SessionFamily -----------------------------
(***************************************************************************)
(* What a family of refresh sessions promises: a login opens it, it has    *)
(* one current session, which a refresh replaces by one that never existed *)
(* before, and once it has ended it stays so.                              *)
(***************************************************************************)
CONSTANTS Sessions, Unopened, Ended

VARIABLES
  current,   \* the session that a refresh may replace
  issued     \* sessions that exist, of this family and of others

vars == <<current, issued>>

Init == current = Unopened /\ issued = {}

\* The family gets a session that is new.
Issue(s) ==
  /\ s \notin issued
  /\ current' = s
  /\ issued' = issued \cup {s}

Open(s) == current = Unopened /\ Issue(s)

Rotate(s) == current \in Sessions /\ Issue(s)

End ==
  /\ current \in Sessions
  /\ current' = Ended
  /\ UNCHANGED issued

\* Another family gets a session.
IssueElsewhere(s) ==
  /\ s \notin issued
  /\ issued' = issued \cup {s}
  /\ UNCHANGED current

Next == End \/ \E s \in Sessions : Open(s) \/ Rotate(s) \/ IssueElsewhere(s)

Step == [Next]_vars

Spec == Init /\ [][Next]_vars
=============================================================================
