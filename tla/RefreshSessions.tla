---------------------------- MODULE RefreshSessions ----------------------------
(***************************************************************************)
(* The server's side of a login: RefreshSession rows, and the handlers     *)
(* that open, rotate and revoke them (auth.service.ts, auth.controller.ts, *)
(* the guards).  The rotation is one transaction.  Everything else that a  *)
(* handler does is a statement of its own, and a revocation of a family is *)
(* even two steps: under READ COMMITTED an UPDATE finds its rows as they   *)
(* were when it began and looks at each again when it gets there.          *)
(*                                                                         *)
(* Clients are arbitrary here: any call may carry any session.             *)
(***************************************************************************)
EXTENDS Integers, FiniteSets

CONSTANTS
  Sessions,    \* ids, taken in order
  Users, Owners,   \* Owners: users whose membership satisfies the role guard
  Calls,       \* requests a client may have under way
  Null,        \* no cookie, no bearer, no row
  Unopened, Ended,   \* states of a family
  MaxIncidents \* bound of the instance

Rows == [user : Users, family : Sessions, revoked : BOOLEAN, expired : BOOLEAN]

ASSUME SessionsAssumption ==
  /\ Sessions \subseteq Nat /\ Owners \subseteq Users /\ MaxIncidents \in Nat
  /\ {Null, Unopened, Ended} \cap (Sessions \cup Users) = {}
  /\ Users \cap Sessions = {} /\ Unopened # Ended /\ Null \notin Rows

VARIABLES
  session,   \* the table
  active,    \* users that may log in
  call,      \* requests, from the client's send until it has the answer
  raced,     \* families rotated while a revocation of them was at its rows
  ended,     \* families that a revocation has dealt with
  lost,      \* whether a request or an answer was ever lost
  incidents  \* losses, expiries and disabled users so far

surroundings == <<lost, incidents>>
server == <<session, active, call, raced, ended, surroundings>>

NoCall == [at |-> "none"]
Sent(op, with) == [at |-> "sent", op |-> op, with |-> with]
Answer(op, with, code, got) ==
  [at |-> "answer", op |-> op, with |-> with, code |-> code, got |-> got]

Exists(s) == session[s] # Null
Free(s) == ~Exists(s) /\ \A r \in Sessions : ~Exists(r) => s <= r
Live(s) == Exists(s) /\ ~session[s].revoked
FamilyOf(s) == session[s].family
LiveOf(f) == {s \in Sessions : Live(s) /\ FamilyOf(s) = f}

Row(u, f) == [user |-> u, family |-> f, revoked |-> FALSE, expired |-> FALSE]

\* authenticateAccessToken: what has to be true of a bearer's session.
Valid(s) == s # Null /\ Live(s) /\ ~session[s].expired /\ session[s].user \in active

\* An answer tells a page's request from others by the bearer it was sent with.
Asked(c) == IF call[c].op = "page" THEN call[c].with ELSE Null
Reply(c, code, got) == call' = [call EXCEPT ![c] = Answer(@.op, Asked(c), code, got)]

At(c, stage) == call[c].at = stage

-----------------------------------------------------------------------------
(* login, refresh, logout                                                  *)

\* The password is right and the user active: a session that begins a
\* family.  What is signed and audited with it is in the same transaction.
Login(c, s) ==
  /\ At(c, "sent") /\ call[c].op = "login"
  /\ call[c].with \in active /\ Free(s)
  /\ session' = [session EXCEPT ![s] = Row(call[c].with, s)]
  /\ Reply(c, "ok", s)
  /\ UNCHANGED <<active, raced, ended, surroundings>>

RefuseLogin(c) ==
  /\ At(c, "sent") /\ call[c].op = "login"
  /\ Reply(c, "refused", Null)
  /\ UNCHANGED <<session, active, raced, ended, surroundings>>

\* refresh() and logout() read the session of the cookie.  A logout goes on
\* whatever it finds; a refresh only with a session that can be used.
Revoke(c, reason) ==
  call' = [call EXCEPT ![c] = [at |-> "revoke", op |-> @.op, with |-> @.with, reason |-> reason]]

FindSession(c) ==
  LET s == call[c].with
  IN  /\ At(c, "sent") /\ call[c].op \in {"refresh", "logout"}
      /\ CASE s = Null -> Reply(c, IF call[c].op = "logout" THEN "ok" ELSE "refused", Null)
           [] s # Null /\ call[c].op = "logout" -> Revoke(c, "logout")
           [] s # Null /\ call[c].op = "refresh" ->
                IF session[s].revoked THEN Revoke(c, "reused")
                ELSE IF Valid(s)
                THEN call' = [call EXCEPT ![c] = [at |-> "rotate", op |-> "refresh", with |-> s]]
                ELSE Revoke(c, "rejected")
      /\ UNCHANGED <<session, active, raced, ended, surroundings>>

\* The families at whose rows a revocation is.
Revoking == {FamilyOf(call[c].with) : c \in {d \in Calls : At(d, "update")}}

Rotated(s, n) ==
  [session EXCEPT ![s].revoked = TRUE, ![n] = Row(session[s].user, FamilyOf(s))]

\* Mutation: the old session is looked up by its id alone.
RotatableById(s) == Exists(s)
\* WHERE id = session.id AND revokedAt IS NULL AND expiresAt > now
Rotatable(s) == Live(s) /\ ~session[s].expired

\* The transaction of refresh().
Rotate(c, n) ==
  LET s == call[c].with
  IN  /\ At(c, "rotate") /\ Rotatable(s) /\ Free(n)
      /\ session' = Rotated(s, n)
      /\ raced' = raced \cup ({FamilyOf(s)} \cap Revoking)
      /\ Reply(c, "ok", n)
      /\ UNCHANGED <<active, ended, surroundings>>

\* The update finds no row: RefreshRotationConflictError, and roll back.
RotationConflict(c) ==
  /\ At(c, "rotate") /\ ~Rotatable(call[c].with)
  /\ Revoke(c, "reused")
  /\ UNCHANGED <<session, active, raced, ended, surroundings>>

\* Mutation: a logout is of its own session.
OwnSession(c) == LiveOf(FamilyOf(call[c].with)) \cap {call[c].with}
\* WHERE sessionFamilyId = session.sessionFamilyId AND revokedAt IS NULL
Targets(c) == LiveOf(FamilyOf(call[c].with))

FindTargets(c) ==
  /\ At(c, "revoke")
  /\ call' = [call EXCEPT ![c] =
                [at |-> "update", op |-> @.op, with |-> @.with, targets |-> Targets(c)]]
  /\ UNCHANGED <<session, active, raced, ended, surroundings>>

\* Rows that are no longer live are skipped, new ones are not seen.
RevokeTargets(c) ==
  /\ At(c, "update")
  /\ session' = [s \in Sessions |->
       IF s \in call[c].targets THEN [session[s] EXCEPT !.revoked = TRUE] ELSE session[s]]
  /\ ended' = ended \cup {FamilyOf(call[c].with)}
  /\ Reply(c, IF call[c].op = "logout" THEN "ok" ELSE "refused", Null)
  /\ UNCHANGED <<active, raced, surroundings>>

-----------------------------------------------------------------------------
(* Protected requests: JwtAuthGuard, OrganizationScopeGuard, RolesGuard.   *)

\* "me" needs a valid session only, pages an owner's.
Serve(c) ==
  LET s == call[c].with
  IN  /\ At(c, "sent") /\ call[c].op \in {"me", "page"} /\ Valid(s)
      /\ IF call[c].op = "me" \/ session[s].user \in Owners
         THEN Reply(c, "ok", session[s].user)
         ELSE Reply(c, "forbidden", Null)
      /\ UNCHANGED <<session, active, raced, ended, surroundings>>

\* No bearer, one whose session is not valid, or one that has run out: its
\* life is shorter than the session's, so a valid session does not help.
RefuseBearer(c) ==
  /\ At(c, "sent") /\ call[c].op \in {"me", "page"}
  /\ Reply(c, "refused", Null)
  /\ UNCHANGED <<session, active, raced, ended, surroundings>>

-----------------------------------------------------------------------------
(* The surroundings                                                        *)

Incident == incidents < MaxIncidents /\ incidents' = incidents + 1

\* The request does not get there, the handler is lost between two
\* statements, or the answer does not get back.
Lose(c) ==
  /\ Incident
  /\ ~At(c, "none") /\ (At(c, "answer") => call[c].code # "network")
  /\ Reply(c, "network", Null)
  /\ lost' = TRUE
  /\ UNCHANGED <<session, active, raced, ended>>

\* expiresAt passes.
Expire(s) ==
  /\ Incident
  /\ Live(s) /\ ~session[s].expired
  /\ session' = [session EXCEPT ![s].expired = TRUE]
  /\ UNCHANGED <<active, call, raced, ended, lost>>

DisableUser(u) ==
  /\ Incident
  /\ active' = active \ {u} /\ u \in active
  /\ UNCHANGED <<session, call, raced, ended, lost>>

\* What a client may ask; its cookie or bearer is one that it was given.
Requests ==
  {Sent("login", u) : u \in Users} \cup
  {Sent(op, s) : op \in {"refresh", "logout", "me", "page"},
                 s \in {r \in Sessions : Exists(r)} \cup {Null}}

ServerInit ==
  /\ session = [s \in Sessions |-> Null]
  /\ active = Users
  /\ call = [c \in Calls |-> NoCall]
  /\ raced = {} /\ ended = {}
  /\ lost = FALSE /\ incidents \in 0..MaxIncidents   \* some instances have fewer left

Handle(c) ==
  \/ \E s \in Sessions : Login(c, s) \/ Rotate(c, s)
  \/ RefuseLogin(c) \/ FindSession(c) \/ RotationConflict(c)
  \/ FindTargets(c) \/ RevokeTargets(c)
  \/ Serve(c) \/ RefuseBearer(c)
  \/ Lose(c)

Surroundings == (\E s \in Sessions : Expire(s)) \/ (\E u \in Users : DisableUser(u))

\* Any client, with as many tabs as it likes: it takes answers and asks.
AnyClient ==
  /\ call' = [c \in Calls |-> call'[c]]
  /\ \A c \in Calls :
       \/ call'[c] = call[c]
       \/ call[c].at \in {"none", "answer"} /\ call'[c] \in Requests \cup {NoCall}
  /\ UNCHANGED <<session, active, raced, ended, surroundings>>

ServerNext == (\E c \in Calls : Handle(c)) \/ Surroundings \/ AnyClient

ServerSpec == ServerInit /\ [][ServerNext]_server

-----------------------------------------------------------------------------
(* Properties                                                              *)

CallTypes ==
  {NoCall} \cup [at : {"sent"}, op : {"login"}, with : Users] \cup
  [at : {"sent"}, op : {"refresh", "logout", "me", "page"}, with : Sessions \cup {Null}] \cup
  [at : {"rotate"}, op : {"refresh"}, with : Sessions] \cup
  [at : {"revoke"}, op : {"refresh", "logout"}, with : Sessions,
   reason : {"logout", "reused", "rejected"}] \cup
  [at : {"update"}, op : {"refresh", "logout"}, with : Sessions, targets : SUBSET Sessions] \cup
  [at : {"answer"}, op : {"login", "refresh", "logout", "me", "page"},
   with : Sessions \cup {Null},
   code : {"ok", "refused", "forbidden", "network"}, got : Sessions \cup Users \cup {Null}]

\* Rows, calls and sets of families are what they are called.
TypeOK ==
  /\ session \in [Sessions -> Rows \cup {Null}]
  /\ active \subseteq Users
  /\ call \in [Calls -> CallTypes]
  /\ raced \subseteq Sessions /\ ended \subseteq Sessions
  /\ lost \in BOOLEAN /\ incidents \in Nat

\* A family is named after a session of its own, and what handlers hold exists.
FamiliesAreRooted == \A s \in Sessions : Exists(s) => Exists(FamilyOf(s)) /\ FamilyOf(FamilyOf(s)) = FamilyOf(s)
HeldExists ==
  /\ \A c \in Calls : ~At(c, "none") /\ call[c].with \in Sessions => Exists(call[c].with)
  /\ \A c \in Calls : At(c, "update") => \A s \in call[c].targets : Exists(s)
  /\ \A f \in ended : Exists(f)

\* A family has at most one session that a refresh may use.
OneLive == \A r, s \in Sessions : Live(r) /\ Live(s) /\ FamilyOf(r) = FamilyOf(s) => r = s

\* What a revocation does not see is there because of a rotation beside it.
UpdateSeesAll ==
  \A c \in Calls :
    At(c, "update") => \/ FamilyOf(call[c].with) \in raced
                       \/ LiveOf(FamilyOf(call[c].with)) \subseteq call[c].targets

\* After a logout, or a refresh that was refused, the family has no session
\* left, whichever of its sessions the cookie was of and whatever other
\* calls are under way - unless a rotation was committed between the two
\* steps of the UPDATE: the session it created outlives the logout.
EndedFamilyIsDead == \A f \in ended \ raced : LiveOf(f) = {}

IInv == TypeOK /\ FamiliesAreRooted /\ HeldExists /\ OneLive /\ UpdateSeesAll /\ EndedFamilyIsDead

\* The state of a family: its live session if there is one.
FamilyState(f) ==
  IF \A s \in Sessions : Exists(s) => FamilyOf(s) # f THEN Unopened
  ELSE IF LiveOf(f) = {} THEN Ended
  ELSE CHOOSE s \in Sessions : s \in LiveOf(f)

Family(f) == INSTANCE SessionFamily WITH
  current <- FamilyState(f),
  issued <- {s \in Sessions : Exists(s)}

\* Rows and handlers keep what SessionFamily promises of every family, for
\* any number of refreshes and logouts at once: one current session, each
\* current at most once, and an ended family never comes back.
ImplementsSessionFamily ==
  /\ \A f \in Sessions : Family(f)!Init
  /\ [][\A f \in Sessions : Family(f)!Step]_server
=============================================================================
