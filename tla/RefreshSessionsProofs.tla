------------------------- MODULE RefreshSessionsProofs -------------------------
(***************************************************************************)
(* Proofs about RefreshSessions, for any number of sessions, users and     *)
(* calls and any clients; and about WebSession, whose clients are the tabs *)
(* of one browser.                                                         *)
(***************************************************************************)
EXTENDS WebSession, TLAPS

LEMMA InitInv == ServerInit => IInv
<1> SUFFICES ASSUME ServerInit PROVE IInv
  OBVIOUS
<1>1. TypeOK
  <2>1. call \in [Calls -> CallTypes] BY DEF ServerInit, CallTypes
  <2>2. incidents \in Nat BY SessionsAssumption DEF ServerInit
  <2>3. session \in [Sessions -> Rows \cup {Null}] BY DEF ServerInit
  <2> QED BY <2>1, <2>2, <2>3 DEF ServerInit, TypeOK
<1>2. \A s \in Sessions : ~Exists(s) BY DEF ServerInit, Exists
<1>3. \A c \in Calls : At(c, "none") BY DEF ServerInit, At, NoCall
<1>4. ended = {} BY DEF ServerInit
<1> QED
  BY <1>1, <1>2, <1>3, <1>4
     DEF IInv, FamiliesAreRooted, HeldExists, OneLive, UpdateSeesAll, EndedFamilyIsDead, Live, At

\* Steps that leave the rows alone preserve what is about rows only.
LEMMA RowsKept ==
  ASSUME IInv, UNCHANGED <<session, raced, ended>>
  PROVE  FamiliesAreRooted' /\ OneLive' /\ EndedFamilyIsDead'
  BY DEF IInv, FamiliesAreRooted, OneLive, EndedFamilyIsDead, Exists, Live, LiveOf, FamilyOf

\* A step that changes one call, neither to one that is at its rows nor to
\* one with a session that does not exist.
LEMMA CallKept ==
  ASSUME IInv, NEW c \in Calls, NEW x \in CallTypes,
         call' = [call EXCEPT ![c] = x], x.at # "update",
         x.at # "none" /\ x.with \in Sessions => Exists(x.with),
         UNCHANGED <<session, raced, ended>>
  PROVE  HeldExists' /\ UpdateSeesAll' /\ call' \in [Calls -> CallTypes]
  BY DEF IInv, TypeOK, HeldExists, UpdateSeesAll, At, Exists, Live, LiveOf, FamilyOf

\* The same for steps that change incidents only, or nothing of a session's
\* row but its flags from FALSE to TRUE.
FlagsOnly ==
  \A s \in Sessions :
    /\ Exists(s) <=> Exists(s)'
    /\ Exists(s) => FamilyOf(s)' = FamilyOf(s)
    /\ Live(s)' => Live(s)

\* Flags that are set on rows take nothing from the invariant.
LEMMA FlagsKept ==
  ASSUME IInv, FlagsOnly, UNCHANGED <<call, raced, ended>>
  PROVE  (FamiliesAreRooted /\ HeldExists /\ OneLive /\ UpdateSeesAll /\ EndedFamilyIsDead)'
<1>1. \A s \in Sessions : Exists(s) => FamilyOf(s) \in Sessions
  BY DEF IInv, TypeOK, Exists, FamilyOf, Rows
<1>2. \A c \in Calls : At(c, "update") =>
        call[c].with \in Sessions /\ call[c].targets \subseteq Sessions /\ Exists(call[c].with)
  BY DEF IInv, TypeOK, At, CallTypes, NoCall, HeldExists
<1>3. ended \subseteq Sessions BY DEF IInv, TypeOK
<1>4. FamiliesAreRooted' BY <1>1 DEF IInv, FlagsOnly, FamiliesAreRooted
<1>5. HeldExists' BY <1>2, <1>3 DEF IInv, FlagsOnly, HeldExists, At
<1>6. OneLive' BY DEF IInv, FlagsOnly, OneLive, Live
<1>7. \A f : LiveOf(f)' \subseteq LiveOf(f) BY DEF FlagsOnly, LiveOf, Live
<1>8. UpdateSeesAll' BY <1>2, <1>7 DEF IInv, FlagsOnly, UpdateSeesAll, At
<1>9. EndedFamilyIsDead' BY <1>7 DEF IInv, EndedFamilyIsDead
<1> QED BY <1>4, <1>5, <1>6, <1>8, <1>9

-----------------------------------------------------------------------------
(* What the steps that write rows do to them.                              *)

Same(q) == (Live(q)' <=> Live(q)) /\ (Exists(q)' <=> Exists(q)) /\ FamilyOf(q)' = FamilyOf(q)

\* login() creates the root of a new family.
LEMMA LoginRows ==
  ASSUME IInv, NEW c \in Calls, NEW s \in Sessions, Login(c, s)
  PROVE  /\ session' \in [Sessions -> Rows \cup {Null}]
         /\ ~Exists(s) /\ Live(s)' /\ FamilyOf(s)' = s
         /\ \A q \in Sessions \ {s} : Same(q)
<1> USE SessionsAssumption DEF IInv
<1> DEFINE r == Row(call[c].with, s)
<1>1. call[c] \in CallTypes /\ At(c, "sent") /\ ~Exists(s) BY DEF Login, TypeOK, Free
<1>2. r \in Rows /\ r # Null
  <2>1. r \in Rows BY DEF Login, Row, Rows, TypeOK
  <2> QED BY <2>1
<1>3. session' = [session EXCEPT ![s] = r] BY DEF Login
<1>4. session' \in [Sessions -> Rows \cup {Null}] BY <1>2, <1>3 DEF TypeOK
<1>5. /\ Live(s)' /\ FamilyOf(s)' = s
      /\ \A q \in Sessions \ {s} : session'[q] = session[q]
  BY <1>2, <1>3 DEF TypeOK, Live, Exists, FamilyOf, Row
<1> QED BY <1>1, <1>4, <1>5 DEF Same, Live, Exists, FamilyOf

\* A rotation replaces a live session by a new one of its family.
LEMMA RotateRows ==
  ASSUME IInv, NEW c \in Calls, NEW n \in Sessions, Rotate(c, n)
  PROVE  /\ session' \in [Sessions -> Rows \cup {Null}]
         /\ ~Exists(n)
         /\ \E s, f \in Sessions :
              /\ s = call[c].with /\ Live(s) /\ Exists(s) /\ f = FamilyOf(s)
              /\ Exists(f) /\ f # n /\ FamilyOf(f) = f
              /\ Live(n)' /\ FamilyOf(n)' = f
              /\ ~Live(s)' /\ Exists(s)' /\ FamilyOf(s)' = f
              /\ \A q \in Sessions \ {s, n} : Same(q)
<1> USE SessionsAssumption DEF IInv
<1>1. call[c] \in CallTypes /\ At(c, "rotate") BY DEF Rotate, TypeOK
<1>s. call[c].with \in Sessions BY <1>1 DEF CallTypes, At, NoCall
<1>2. PICK s \in Sessions : s = call[c].with BY <1>s
<1>3. Live(s) /\ Exists(s) /\ ~Exists(n) /\ s # n BY <1>2 DEF Rotate, Rotatable, Free, Live
<1>4. PICK f \in Sessions : f = FamilyOf(s) /\ Exists(f) /\ f # n /\ FamilyOf(f) = f
  BY <1>2, <1>3 DEF FamiliesAreRooted, TypeOK, Exists, FamilyOf, Rows
<1> DEFINE r == Row(session[s].user, f)
<1>5. r \in Rows /\ r # Null
  <2>1. session[s] \in Rows BY <1>2, <1>3 DEF TypeOK, Exists
  <2>2. r \in Rows BY <1>4, <2>1 DEF Row, Rows
  <2> QED BY <2>2
<1>6. session' = [session EXCEPT ![s].revoked = TRUE, ![n] = r]
  BY <1>2, <1>4 DEF Rotate, Rotated
<1>7. /\ session'[n] = r
      /\ session'[s] = [session[s] EXCEPT !.revoked = TRUE]
      /\ \A q \in Sessions \ {s, n} : session'[q] = session[q]
  BY <1>2, <1>3, <1>6 DEF TypeOK
<1>8. session[s] \in Rows BY <1>2, <1>3 DEF TypeOK, Exists
<1>9. session' \in [Sessions -> Rows \cup {Null}]
  <2>1. session'[s] \in Rows BY <1>7, <1>8 DEF Rows
  <2> QED BY <1>5, <1>6, <1>7, <2>1 DEF TypeOK
<1>10. /\ Live(n)' /\ FamilyOf(n)' = f
       /\ ~Live(s)' /\ Exists(s)' /\ FamilyOf(s)' = f
       /\ \A q \in Sessions \ {s, n} :
            (Live(q)' <=> Live(q)) /\ (Exists(q)' <=> Exists(q)) /\ FamilyOf(q)' = FamilyOf(q)
  <2>1. session'[s] \in Rows /\ session'[s].revoked /\ session'[s].family = f
    BY <1>4, <1>7, <1>8 DEF Rows, FamilyOf
  <2>2. session'[s] # Null BY <2>1
  <2>3. Live(n)' /\ FamilyOf(n)' = f BY <1>5, <1>7 DEF Live, Exists, FamilyOf, Row
  <2>4. ~Live(s)' /\ Exists(s)' /\ FamilyOf(s)' = f BY <2>1, <2>2 DEF Live, Exists, FamilyOf
  <2>5. \A q \in Sessions \ {s, n} :
          (Live(q)' <=> Live(q)) /\ (Exists(q)' <=> Exists(q)) /\ FamilyOf(q)' = FamilyOf(q)
    BY <1>7 DEF Live, Exists, FamilyOf
  <2> QED BY <2>3, <2>4, <2>5
<1> QED BY <1>2, <1>3, <1>4, <1>9, <1>10 DEF Same

\* A revocation sets flags, and no target stays live.
LEMMA RevokeRows ==
  ASSUME IInv, NEW c \in Calls, RevokeTargets(c)
  PROVE  /\ session' \in [Sessions -> Rows \cup {Null}]
         /\ FlagsOnly
         /\ \A s \in call[c].targets : ~Live(s)'
<1> USE SessionsAssumption DEF IInv
<1>1. call[c] \in CallTypes /\ At(c, "update") BY DEF RevokeTargets, TypeOK
<1>2. /\ call[c].with \in Sessions /\ call[c].targets \subseteq Sessions
      /\ call[c].op \in {"refresh", "logout"}
  BY <1>1 DEF CallTypes, At, NoCall
<1>3. Exists(call[c].with) /\ \A s \in call[c].targets : Exists(s)
  BY <1>1, <1>2 DEF HeldExists, At
<1>4. PICK f \in Sessions : f = FamilyOf(call[c].with) /\ Exists(f)
  BY <1>2, <1>3 DEF FamiliesAreRooted, TypeOK, Exists, FamilyOf, Rows
<1>5. \A s \in call[c].targets : session[s] \in Rows BY <1>2, <1>3 DEF TypeOK, Exists
<1>6. /\ \A s \in call[c].targets : session'[s] = [session[s] EXCEPT !.revoked = TRUE]
      /\ \A s \in Sessions \ call[c].targets : session'[s] = session[s]
  BY <1>2 DEF RevokeTargets
<1>7. \A s \in call[c].targets :
        session'[s] \in Rows /\ session'[s].revoked /\ session'[s].family = session[s].family
  <2> TAKE s \in call[c].targets
  <2>1. session[s] \in Rows /\ session'[s] = [session[s] EXCEPT !.revoked = TRUE] BY <1>5, <1>6
  <2> QED BY <2>1 DEF Rows
<1>8. session' \in [Sessions -> Rows \cup {Null}]
  <2>1. \A s \in Sessions : session'[s] \in Rows \cup {Null} BY <1>6, <1>7 DEF TypeOK
  <2>2. session' = [s \in Sessions |-> session'[s]] BY DEF RevokeTargets
  <2> QED BY <2>1, <2>2
<1>9. \A s \in call[c].targets : Exists(s)' /\ ~Live(s)' BY <1>7 DEF Exists, Live
<1>10. FlagsOnly
  BY <1>3, <1>6, <1>7, <1>9 DEF FlagsOnly, Exists, Live, FamilyOf
<1> QED BY <1>8, <1>9, <1>10

LEMMA NextInv == IInv /\ [ServerNext]_server => IInv'
<1> SUFFICES ASSUME IInv, [ServerNext]_server PROVE IInv'
  OBVIOUS
<1> USE SessionsAssumption
<1> IInv /\ TypeOK BY DEF IInv
<1>reply. ASSUME NEW c \in Calls, NEW code \in {"ok", "refused", "forbidden", "network"},
                 NEW got \in Sessions \cup Users \cup {Null}, Reply(c, code, got), ~At(c, "none"),
                 UNCHANGED <<session, raced, ended>>
          PROVE  HeldExists' /\ UpdateSeesAll' /\ call' \in [Calls -> CallTypes]
  <2> DEFINE x == Answer(call[c].op, Asked(c), code, got)
  <2>1. call[c] \in CallTypes BY DEF TypeOK
  <2>2. x \in CallTypes BY <2>1, <1>reply DEF Answer, Asked, CallTypes, NoCall, At
  <2>3. call' = [call EXCEPT ![c] = x] BY <1>reply DEF Reply, Answer, Asked, TypeOK
  <2>4. x.with \in Sessions => Exists(x.with)
    BY <2>1, <1>reply DEF Answer, Asked, IInv, HeldExists, CallTypes, NoCall, At
  <2>5. x.at # "update" BY DEF Answer
  <2> QED BY <2>2, <2>3, <2>4, <2>5, <1>reply, CallKept
<1>quiet. ASSUME call' \in [Calls -> CallTypes], HeldExists', UpdateSeesAll',
                 UNCHANGED <<session, raced, ended>>, active' \subseteq Users,
                 lost' \in BOOLEAN, incidents' \in Nat
          PROVE  IInv'
  BY <1>quiet, RowsKept DEF IInv, TypeOK
<1>revoke. ASSUME NEW c \in Calls, NEW reason \in {"logout", "reused", "rejected"}, Revoke(c, reason),
                  call[c].op \in {"refresh", "logout"}, call[c].with \in Sessions, ~At(c, "none"),
                  UNCHANGED <<session, raced, ended>>
           PROVE  HeldExists' /\ UpdateSeesAll' /\ call' \in [Calls -> CallTypes]
  <2> DEFINE x == [at |-> "revoke", op |-> call[c].op, with |-> call[c].with, reason |-> reason]
  <2>1. x \in CallTypes BY <1>revoke DEF CallTypes
  <2>2. call' = [call EXCEPT ![c] = x] BY <1>revoke DEF Revoke, TypeOK
  <2>3. Exists(x.with) BY <1>revoke DEF IInv, HeldExists
  <2> QED BY <2>1, <2>2, <2>3, <1>revoke, CallKept
<1>1. ASSUME NEW c \in Calls, RefuseLogin(c) \/ RefuseBearer(c) PROVE IInv'
  BY <1>1, <1>reply, <1>quiet DEF RefuseLogin, RefuseBearer, At, surroundings, TypeOK
<1>2. ASSUME NEW c \in Calls, Serve(c) PROVE IInv'
  <2>1. Live(call[c].with) /\ call[c].with \in Sessions
    BY <1>2 DEF Serve, Valid, At, TypeOK, CallTypes, NoCall
  <2>2. session[call[c].with].user \in Users BY <2>1 DEF Live, Exists, TypeOK, Rows
  <2> QED BY <1>2, <2>2, <1>reply, <1>quiet DEF Serve, At, surroundings, TypeOK
<1>3. ASSUME NEW c \in Calls, Lose(c) PROVE IInv'
  <2>1. HeldExists' /\ UpdateSeesAll' /\ call' \in [Calls -> CallTypes] BY <1>3, <1>reply DEF Lose, At
  <2> QED BY <2>1, <1>3, <1>quiet DEF Lose, Incident, TypeOK
<1>4. ASSUME NEW c \in Calls, FindSession(c) PROVE IInv'
  <2>1. call[c] \in CallTypes BY DEF TypeOK
  <2>2. call[c].op \in {"refresh", "logout"} /\ At(c, "sent") BY <1>4 DEF FindSession
  <2>3. call[c].with \in Sessions \cup {Null} BY <2>1, <2>2 DEF CallTypes, NoCall, At
  <2>4. UNCHANGED <<session, raced, ended, active, lost, incidents>> BY <1>4 DEF FindSession, surroundings
  <2>5. CASE call[c].with = Null
    BY <2>2, <2>4, <2>5, <1>4, <1>reply, <1>quiet DEF FindSession, At, TypeOK
  <2>6. CASE \E reason \in {"logout", "reused", "rejected"} : Revoke(c, reason) /\ call[c].with # Null
    BY <2>2, <2>3, <2>4, <2>6, <1>revoke, <1>quiet DEF At, TypeOK
  <2> DEFINE x == [at |-> "rotate", op |-> "refresh", with |-> call[c].with]
  <2>7. CASE call' = [call EXCEPT ![c] = x] /\ call[c].with # Null
    <3>1. x \in CallTypes BY <2>3, <2>7 DEF CallTypes
    <3>2. call' = [call EXCEPT ![c] = x] BY <2>7
    <3>3. Exists(x.with) BY <2>2, <2>3, <2>7 DEF IInv, HeldExists, At
    <3> QED BY <3>1, <3>2, <3>3, <2>4, <1>quiet, CallKept DEF TypeOK
  <2> QED BY <2>2, <2>3, <2>5, <2>6, <2>7, <1>4 DEF FindSession
<1>5. ASSUME NEW c \in Calls, RotationConflict(c) PROVE IInv'
  <2>1. call[c] \in CallTypes /\ At(c, "rotate") BY <1>5 DEF TypeOK, RotationConflict
  <2>2. call[c].with \in Sessions /\ call[c].op = "refresh" BY <2>1 DEF CallTypes, NoCall, At
  <2> QED BY <2>1, <2>2, <1>5, <1>revoke, <1>quiet DEF RotationConflict, At, surroundings, TypeOK
<1>6. ASSUME NEW c \in Calls, FindTargets(c) PROVE IInv'
  <2> DEFINE x == [at |-> "update", op |-> call[c].op, with |-> call[c].with, targets |-> Targets(c)]
  <2>1. call[c] \in CallTypes /\ At(c, "revoke") BY <1>6 DEF TypeOK, FindTargets
  <2>2. x \in CallTypes BY <2>1 DEF CallTypes, NoCall, At, Targets, LiveOf
  <2>3. call' = [call EXCEPT ![c] = x] /\ UNCHANGED <<session, raced, ended, active, lost, incidents>>
    BY <1>6 DEF FindTargets, TypeOK, surroundings
  <2>4. Exists(x.with) /\ x.with \in Sessions
    BY <2>1 DEF CallTypes, NoCall, At, IInv, HeldExists
  <2>5. call' \in [Calls -> CallTypes] BY <2>2, <2>3 DEF TypeOK
  <2>6. HeldExists' BY <2>3, <2>4 DEF IInv, HeldExists, At, Exists, Targets, LiveOf, Live, TypeOK
  <2>7. UpdateSeesAll'
    BY <2>3 DEF IInv, UpdateSeesAll, At, Exists, Targets, LiveOf, Live, FamilyOf, TypeOK
  <2> QED BY <2>3, <2>5, <2>6, <2>7, <1>quiet DEF TypeOK
<1>7. ASSUME NEW u \in Users, DisableUser(u) PROVE IInv'
  <2>1. HeldExists' /\ UpdateSeesAll'
    BY <1>7 DEF DisableUser, IInv, HeldExists, UpdateSeesAll, At, Exists, Live, LiveOf, FamilyOf
  <2> QED BY <2>1, <1>7, <1>quiet DEF DisableUser, Incident, TypeOK
<1>8. CASE AnyClient
  <2>1. UNCHANGED <<session, raced, ended, active, lost, incidents>> BY <1>8 DEF AnyClient, surroundings
  <2>2. \A c \in Calls : call'[c] = call[c] \/ call'[c] \in Requests \cup {NoCall} BY <1>8 DEF AnyClient
  <2>3. \A r \in Requests : r.at = "sent" /\ r \in CallTypes /\ (r.with \in Sessions => Exists(r.with))
    BY DEF Requests, Sent, CallTypes
  <2>4. call' = [c \in Calls |-> call'[c]] BY <1>8 DEF AnyClient
  <2>5. call' \in [Calls -> CallTypes]
    <3>1. \A c \in Calls : call'[c] \in CallTypes BY <2>2, <2>3 DEF TypeOK, CallTypes
    <3> QED BY <3>1, <2>4
  <2>6. HeldExists' /\ UpdateSeesAll'
    BY <2>1, <2>2, <2>3 DEF IInv, HeldExists, UpdateSeesAll, At, Exists, Live, LiveOf, FamilyOf, NoCall
  <2> QED BY <2>1, <2>5, <2>6, <1>quiet DEF TypeOK
<1>9. CASE UNCHANGED server
  BY <1>9 DEF server, surroundings, IInv, TypeOK, FamiliesAreRooted, HeldExists, OneLive, UpdateSeesAll,
     EndedFamilyIsDead, At, Exists, Live, LiveOf, FamilyOf
<1>a. ASSUME NEW c \in Calls, NEW s \in Sessions, Login(c, s) PROVE IInv'
  <2>1. call[c] \in CallTypes /\ At(c, "sent") /\ ~Exists(s) BY <1>a DEF Login, TypeOK, Free
  <2>4. session' \in [Sessions -> Rows \cup {Null}] BY <1>a, LoginRows
  <2>5. Exists(s)' /\ FamilyOf(s)' = s /\ \A q \in Sessions \ {s} : Same(q)
    BY <1>a, LoginRows DEF Live
  <2>6. /\ \A q \in Sessions : Exists(q) => Exists(q)' /\ FamilyOf(q)' = FamilyOf(q) /\ q # s
        /\ \A q \in Sessions : Exists(q) => FamilyOf(q) \in Sessions /\ FamilyOf(q) # s
    BY <2>1, <2>5 DEF Same, Exists, FamilyOf, IInv, FamiliesAreRooted, TypeOK, Rows
  <2>7. \A f \in Sessions \ {s} : LiveOf(f)' \subseteq LiveOf(f)
    BY <2>1, <2>5 DEF Same, LiveOf
  <2> DEFINE x == Answer("login", Null, "ok", s)
  <2>8. call' = [call EXCEPT ![c] = x] /\ x \in CallTypes
    BY <1>a DEF Login, Reply, Asked, Answer, CallTypes, TypeOK
  <2>9. call' \in [Calls -> CallTypes] BY <2>8 DEF TypeOK
  <2>10. FamiliesAreRooted' BY <2>5, <2>6 DEF Same, IInv, FamiliesAreRooted, Exists, FamilyOf
  <2>11. HeldExists'
    <3>1. Null \notin Sessions OBVIOUS
    <3>2. \A d \in Calls : At(d, "update") => call[d].targets \subseteq Sessions
      BY DEF TypeOK, CallTypes, NoCall, At
    <3>3. \A d \in Calls : call'[d] = call[d] \/ call'[d] = x BY <2>8 DEF TypeOK
    <3>4. x.with = Null /\ x.at = "answer" BY DEF Answer
    <3>5. \A d \in Calls : ~At(d, "none")' /\ call'[d].with \in Sessions => Exists(call[d].with)'
      BY <2>6, <3>1, <3>3, <3>4 DEF IInv, HeldExists, At
    <3>6. \A d \in Calls : At(d, "update")' => \A q \in call'[d].targets : Exists(q)'
      BY <2>6, <3>2, <3>3, <3>4 DEF IInv, HeldExists, At
    <3>7. \A f \in ended' : Exists(f)' BY <2>6, <1>a DEF IInv, TypeOK, HeldExists, Login
    <3> QED BY <3>5, <3>6, <3>7 DEF HeldExists
  <2>12. OneLive'
    BY <2>5, <2>6 DEF Same, IInv, OneLive, Live
  <2>13. UpdateSeesAll'
    <3> SUFFICES ASSUME NEW d \in Calls, At(d, "update")'
                 PROVE  \/ FamilyOf(call[d].with)' \in raced'
                        \/ LiveOf(FamilyOf(call[d].with))' \subseteq call'[d].targets
      BY DEF UpdateSeesAll
    <3>1. call'[d] = call[d] /\ At(d, "update") BY <2>8 DEF At, Answer, TypeOK
    <3>2. call[d].with \in Sessions BY <3>1 DEF At, TypeOK, CallTypes, NoCall
    <3>3. Exists(call[d].with) BY <3>1, <3>2 DEF At, IInv, HeldExists
    <3> QED BY <2>6, <2>7, <3>1, <3>2, <3>3, <1>a DEF Login, IInv, UpdateSeesAll
  <2>14. EndedFamilyIsDead'
    <3>1. \A f \in ended : f \in Sessions /\ f # s BY <2>1 DEF IInv, HeldExists, TypeOK
    <3> QED BY <2>7, <3>1, <1>a DEF Login, IInv, EndedFamilyIsDead
  <2> QED
    BY <2>4, <2>9, <2>10, <2>11, <2>12, <2>13, <2>14, <1>a DEF Login, surroundings, IInv, TypeOK
<1>b. ASSUME NEW c \in Calls, NEW n \in Sessions, Rotate(c, n) PROVE IInv'
  <2>1. call[c] \in CallTypes /\ At(c, "rotate") BY <1>b DEF Rotate, TypeOK
  <2>r. PICK s, f \in Sessions :
              /\ s = call[c].with /\ Live(s) /\ Exists(s) /\ f = FamilyOf(s)
              /\ Exists(f) /\ f # n /\ FamilyOf(f) = f
              /\ Live(n)' /\ FamilyOf(n)' = f
              /\ ~Live(s)' /\ Exists(s)' /\ FamilyOf(s)' = f
              /\ \A q \in Sessions \ {s, n} : Same(q)
    BY <1>b, RotateRows
  <2>2. s \in Sessions /\ s = call[c].with BY <2>r
  <2>3. Live(s) /\ Exists(s) /\ ~Exists(n) /\ s # n BY <2>r, <1>b, RotateRows
  <2>4. f \in Sessions /\ f = FamilyOf(s) /\ Exists(f) /\ f # n /\ FamilyOf(f) = f BY <2>r
  <2>9. session' \in [Sessions -> Rows \cup {Null}] BY <1>b, RotateRows
  <2>10. /\ Live(n)' /\ FamilyOf(n)' = f
         /\ ~Live(s)' /\ Exists(s)' /\ FamilyOf(s)' = f
         /\ \A q \in Sessions \ {s, n} :
              (Live(q)' <=> Live(q)) /\ (Exists(q)' <=> Exists(q)) /\ FamilyOf(q)' = FamilyOf(q)
    BY <2>r DEF Same
  <2>11. \A q \in Sessions : Exists(q) => Exists(q)' /\ FamilyOf(q)' = FamilyOf(q)
    BY <2>3, <2>4, <2>10
  <2>12. \A g \in Sessions \ {f} : LiveOf(g)' \subseteq LiveOf(g)
    BY <2>10 DEF LiveOf
  <2> DEFINE x == Answer("refresh", Null, "ok", n)
  <2>13. call' = [call EXCEPT ![c] = x] /\ x \in CallTypes
    <3>1. call[c].op = "refresh" BY <2>1 DEF CallTypes, NoCall, At
    <3> QED BY <3>1, <1>b DEF Rotate, Reply, Asked, Answer, CallTypes
  <2>14. call' \in [Calls -> CallTypes] BY <2>13 DEF TypeOK
  <2>15. FamiliesAreRooted'
    <3>1. \A q \in Sessions : Exists(q)' => q = n \/ Exists(q) BY <2>3, <2>10
    <3>2. \A q \in Sessions : Exists(q) => FamilyOf(q) \in Sessions
      BY DEF TypeOK, Exists, FamilyOf, Rows
    <3> SUFFICES ASSUME NEW q \in Sessions, Exists(q)'
                 PROVE  Exists(FamilyOf(q))' /\ FamilyOf(FamilyOf(q))' = FamilyOf(q)'
      BY DEF FamiliesAreRooted
    <3>3. Exists(f)' /\ FamilyOf(f)' = f BY <2>4, <2>11
    <3>4. CASE q = n BY <2>10, <3>3, <3>4
    <3>5. CASE Exists(q)
      <4>1. PICK g \in Sessions : g = FamilyOf(q) BY <3>2, <3>5
      <4>2. Exists(g) /\ FamilyOf(g) = g BY <4>1, <3>5 DEF IInv, FamiliesAreRooted
      <4>3. FamilyOf(q)' = g BY <2>11, <3>5, <4>1
      <4> QED BY <2>11, <4>2, <4>3
    <3> QED BY <3>1, <3>4, <3>5
  <2>16. HeldExists'
    <3>1. Null \notin Sessions OBVIOUS
    <3>2. raced' \subseteq Sessions BY <1>b, <2>2, <2>4 DEF Rotate, TypeOK
    <3>3. \A d \in Calls : At(d, "update") => call[d].targets \subseteq Sessions
      BY DEF TypeOK, CallTypes, NoCall, At
    <3> QED BY <2>11, <2>13, <3>1, <3>3, <1>b DEF IInv, TypeOK, HeldExists, At, Answer, Rotate
  <2>17. OneLive'
    <3>1. \A q \in Sessions : Live(q)' /\ FamilyOf(q)' = f => q = n
      BY <2>2, <2>3, <2>4, <2>10 DEF IInv, OneLive
    <3> QED BY <2>10, <3>1 DEF IInv, OneLive
  <2>18. UpdateSeesAll'
    <3> SUFFICES ASSUME NEW d \in Calls, At(d, "update")'
                 PROVE  \/ FamilyOf(call[d].with)' \in raced'
                        \/ LiveOf(FamilyOf(call[d].with))' \subseteq call'[d].targets
      BY DEF UpdateSeesAll
    <3>1. call'[d] = call[d] /\ At(d, "update") BY <2>13 DEF At, Answer, TypeOK
    <3>2. call[d].with \in Sessions BY <3>1 DEF At, TypeOK, CallTypes, NoCall
    <3>3. Exists(call[d].with) BY <3>1, <3>2 DEF At, IInv, HeldExists
    <3>4. FamilyOf(call[d].with) \in Sessions BY <3>2, <3>3 DEF TypeOK, Exists, FamilyOf, Rows
    <3>5. CASE FamilyOf(call[d].with) = f
      <4>1. f \in Revoking BY <3>1, <3>5 DEF Revoking
      <4>2. f \in raced' BY <4>1, <2>2, <2>4, <1>b DEF Rotate
      <4> QED BY <4>2, <2>11, <3>1, <3>2, <3>3, <3>5
    <3>6. CASE FamilyOf(call[d].with) # f
      BY <2>11, <2>12, <3>1, <3>2, <3>3, <3>4, <3>6, <1>b DEF Rotate, IInv, UpdateSeesAll
    <3> QED BY <3>5, <3>6
  <2>19. EndedFamilyIsDead'
    <3>1. f \notin ended \ raced
      <4>1. s \in LiveOf(f) BY <2>2, <2>3, <2>4 DEF LiveOf
      <4> QED BY <4>1 DEF IInv, EndedFamilyIsDead
    <3>2. \A g \in ended' \ raced' : g \in ended \ raced /\ g \in Sessions
      BY <1>b DEF Rotate, TypeOK
    <3> QED BY <2>12, <3>1, <3>2 DEF IInv, EndedFamilyIsDead
  <2>20. raced' \subseteq Sessions BY <1>b, <2>2, <2>4 DEF Rotate, TypeOK
  <2> QED
    BY <2>9, <2>14, <2>15, <2>16, <2>17, <2>18, <2>19, <2>20, <1>b DEF Rotate, surroundings, IInv, TypeOK
<1>c. ASSUME NEW c \in Calls, RevokeTargets(c) PROVE IInv'
  <2> DEFINE x == Answer(call[c].op, Null, IF call[c].op = "logout" THEN "ok" ELSE "refused", Null)
  <2>1. call[c] \in CallTypes /\ At(c, "update") BY <1>c DEF RevokeTargets, TypeOK
  <2>2. /\ call[c].with \in Sessions /\ call[c].targets \subseteq Sessions
        /\ call[c].op \in {"refresh", "logout"}
    BY <2>1 DEF CallTypes, At, NoCall
  <2>3. Exists(call[c].with) BY <2>1, <2>2 DEF IInv, HeldExists, At
  <2>4. PICK f \in Sessions : f = FamilyOf(call[c].with) /\ Exists(f)
    BY <2>2, <2>3 DEF IInv, FamiliesAreRooted, TypeOK, Exists, FamilyOf, Rows
  <2>8. session' \in [Sessions -> Rows \cup {Null}] BY <1>c, RevokeRows
  <2>9. \A s \in call[c].targets : ~Live(s)' BY <1>c, RevokeRows
  <2>10. FlagsOnly BY <1>c, RevokeRows
  <2>11. \A g : LiveOf(g)' \subseteq LiveOf(g) \ call[c].targets
    BY <2>9, <2>10 DEF FlagsOnly, LiveOf, Live
  <2>12. call' = [call EXCEPT ![c] = x] /\ x \in CallTypes
    BY <2>1, <2>2, <1>c DEF RevokeTargets, Reply, Asked, Answer, CallTypes, TypeOK
  <2>13. call' \in [Calls -> CallTypes] BY <2>12 DEF TypeOK
  <2>14. \A s \in Sessions : Exists(s) => FamilyOf(s) \in Sessions
    BY DEF TypeOK, Exists, FamilyOf, Rows
  <2>15. FamiliesAreRooted' BY <2>10, <2>14 DEF IInv, FlagsOnly, FamiliesAreRooted
  <2>16. OneLive' BY <2>10 DEF IInv, FlagsOnly, OneLive, Live
  <2>17. \A d \in Calls : At(d, "update")' => call'[d] = call[d] /\ At(d, "update") /\ d # c
    BY <2>12 DEF At, Answer, TypeOK
  <2>18. \A d \in Calls : At(d, "update") =>
           call[d].with \in Sessions /\ call[d].targets \subseteq Sessions /\ Exists(call[d].with)
    BY DEF IInv, TypeOK, At, CallTypes, NoCall, HeldExists
  <2>19. HeldExists'
    <3>1. Null \notin Sessions OBVIOUS
    <3>2. \A d \in Calls : ~At(d, "none")' /\ call'[d].with \in Sessions => Exists(call[d].with)'
      <4>1. \A d \in Calls : call'[d] = call[d] \/ call'[d] = x BY <2>12 DEF TypeOK
      <4>2. x.with = Null BY DEF Answer
      <4> QED BY <2>10, <4>1, <4>2, <3>1 DEF IInv, FlagsOnly, HeldExists, At
    <3>3. \A d \in Calls : At(d, "update")' => \A s \in call'[d].targets : Exists(s)'
      BY <2>10, <2>17, <2>18 DEF IInv, FlagsOnly, HeldExists
    <3>4. \A g \in ended' : Exists(g)'
      BY <2>4, <2>10, <1>c DEF RevokeTargets, IInv, TypeOK, FlagsOnly, HeldExists
    <3> QED BY <3>2, <3>3, <3>4 DEF HeldExists
  <2>20. UpdateSeesAll'
    BY <2>10, <2>11, <2>17, <2>18, <1>c DEF RevokeTargets, IInv, FlagsOnly, UpdateSeesAll
  <2>21. EndedFamilyIsDead'
    <3>1. f \in raced \/ LiveOf(f)' = {}
      BY <2>1, <2>4, <2>11 DEF IInv, UpdateSeesAll
    <3> QED BY <2>4, <2>11, <3>1, <1>c DEF RevokeTargets, IInv, EndedFamilyIsDead
  <2> QED
    BY <2>4, <2>8, <2>13, <2>15, <2>16, <2>19, <2>20, <2>21, <1>c
       DEF RevokeTargets, surroundings, IInv, TypeOK
<1>d. ASSUME NEW s \in Sessions, Expire(s) PROVE IInv'
  <2>1. FlagsOnly BY <1>d DEF Expire, FlagsOnly, Live, Exists, FamilyOf, TypeOK, Rows
  <2>2. session' \in [Sessions -> Rows \cup {Null}] BY <1>d DEF Expire, Live, Exists, TypeOK, Rows
  <2> QED BY <2>1, <2>2, <1>d, FlagsKept DEF Expire, Incident, IInv, TypeOK
<1> QED
  BY <1>1, <1>2, <1>3, <1>4, <1>5, <1>6, <1>7, <1>8, <1>9, <1>a, <1>b, <1>c, <1>d
     DEF ServerNext, Handle, Surroundings

\* The rows and handlers stay in order, whatever clients ask.
THEOREM SessionsInvariant == ServerSpec => []IInv
<1>1. ServerInit => IInv BY InitInv
<1>2. IInv /\ [ServerNext]_server => IInv' BY NextInv
<1> QED BY <1>1, <1>2, PTL DEF ServerSpec

\* logout() and the refusal of a refresh leave no session of the family,
\* except one that a rotation created beside them.
THEOREM EndedFamiliesAreDead == ServerSpec => []EndedFamilyIsDead
<1>1. IInv => EndedFamilyIsDead BY DEF IInv
<1> QED BY <1>1, SessionsInvariant, PTL

-----------------------------------------------------------------------------
(* The rows implement SessionFamily.                                       *)

\* What FamilyState is: its live session, Ended if none is live, Unopened
\* if the family has no session.
Is(f, state) ==
  \/ state = Unopened /\ \A s \in Sessions : Exists(s) => FamilyOf(s) # f
  \/ state \in LiveOf(f)
  \/ state = Ended /\ LiveOf(f) = {} /\ \E s \in Sessions : Exists(s) /\ FamilyOf(s) = f

\* The state of a family, without CHOOSE.
LEMMA StateOf == IInv => \A f \in Sessions : \A x : FamilyState(f) = x <=> Is(f, x)
<1> SUFFICES ASSUME IInv, NEW f \in Sessions, NEW x PROVE FamilyState(f) = x <=> Is(f, x)
  OBVIOUS
<1> USE SessionsAssumption
<1>1. LiveOf(f) \subseteq Sessions /\ Unopened \notin Sessions /\ Ended \notin Sessions /\ Unopened # Ended
  BY DEF LiveOf
<1>2. \A r, s \in LiveOf(f) : r = s BY DEF IInv, OneLive, LiveOf
<1>3. \A s \in LiveOf(f) : Exists(s) /\ FamilyOf(s) = f /\ s \in Sessions BY DEF LiveOf, Live
<1>4. CASE \A s \in Sessions : Exists(s) => FamilyOf(s) # f
  BY <1>1, <1>3, <1>4 DEF Is, FamilyState
<1>5. CASE ~(\A s \in Sessions : Exists(s) => FamilyOf(s) # f) /\ LiveOf(f) = {}
  BY <1>1, <1>5 DEF Is, FamilyState
<1>6. CASE ~(\A s \in Sessions : Exists(s) => FamilyOf(s) # f) /\ LiveOf(f) # {}
  <2>1. PICK s \in Sessions : s \in LiveOf(f) BY <1>1, <1>6
  <2>2. FamilyState(f) = CHOOSE q \in Sessions : q \in LiveOf(f) BY <1>6 DEF FamilyState
  <2>3. FamilyState(f) \in LiveOf(f) BY <2>1, <2>2
  <2> QED BY <1>1, <1>2, <1>6, <2>3 DEF Is
<1> QED BY <1>4, <1>5, <1>6

StatesAre == \A f \in Sessions : \A x : FamilyState(f) = x <=> Is(f, x)

\* And now and after a step.
LEMMA StatesAreThen == (IInv => StatesAre) /\ (IInv' => StatesAre')
<1>1. IInv => StatesAre BY StateOf DEF StatesAre
<1> QED BY <1>1, PTL

\* A step that changes at most flags leaves a family as it is or ends it.
LEMMA FlagsStep ==
  ASSUME IInv, IInv', FlagsOnly, NEW f \in Sessions
  PROVE  Family(f)!Step
<1>1. StatesAre /\ StatesAre' BY StatesAreThen
<1>2. {s \in Sessions : Exists(s)}' = {s \in Sessions : Exists(s)} BY DEF FlagsOnly
<1>3. LiveOf(f)' \subseteq LiveOf(f) /\ LiveOf(f) \subseteq Sessions BY DEF FlagsOnly, LiveOf, Live
<1>4. FamilyState(f)' = FamilyState(f) \/ (FamilyState(f) \in Sessions /\ FamilyState(f)' = Ended)
  <2>1. PICK x : x = FamilyState(f) OBVIOUS
  <2>2. Is(f, x) BY <1>1, <2>1 DEF StatesAre
  <2>3. Is(f, x)' \/ (x \in Sessions /\ Is(f, Ended)')
    <3>1. CASE x = Unopened /\ \A s \in Sessions : Exists(s) => FamilyOf(s) # f
      BY <3>1 DEF Is, FlagsOnly
    <3>2. CASE x \in LiveOf(f)
      <4>1. x \in Sessions /\ Exists(x) /\ FamilyOf(x) = f BY <3>2 DEF LiveOf, Live
      <4>2. Exists(x)' /\ FamilyOf(x)' = f BY <4>1 DEF FlagsOnly
      <4>3. LiveOf(f) \subseteq {x} BY <3>2 DEF IInv, OneLive, LiveOf
      <4>4. LiveOf(f)' = {} \/ x \in LiveOf(f)' BY <1>3, <4>3
      <4> QED BY <4>1, <4>2, <4>4 DEF Is
    <3>3. CASE x = Ended /\ LiveOf(f) = {} /\ \E s \in Sessions : Exists(s) /\ FamilyOf(s) = f
      BY <1>3, <3>3 DEF Is, FlagsOnly
    <3> QED BY <2>2, <3>1, <3>2, <3>3 DEF Is
  <2>4. \A y : Is(f, y)' => FamilyState(f)' = y BY <1>1 DEF StatesAre
  <2> QED BY <2>1, <2>3, <2>4
<1> QED
  BY <1>2, <1>4 DEF Family!Step, Family!Next, Family!vars, Family!End

\* A session that is new is the first of a family, follows the current one
\* of its family, or is of another family.
LEMMA FamilyStep ==
  ASSUME IInv, IInv', [ServerNext]_server, NEW f \in Sessions
  PROVE  Family(f)!Step
<1> USE SessionsAssumption
<1> TypeOK BY DEF IInv
<1>1. StatesAre /\ StatesAre' BY StatesAreThen
<1>2. PICK x : x = FamilyState(f) OBVIOUS
<1>3. Is(f, x) BY <1>1, <1>2 DEF StatesAre
<1>4. \A y : Is(f, y)' => FamilyState(f)' = y BY <1>1 DEF StatesAre
<1>5. ASSUME NEW c \in Calls, NEW s \in Sessions, Login(c, s) PROVE Family(f)!Step
  <2>1. ~Exists(s) /\ Live(s)' /\ FamilyOf(s)' = s /\ \A q \in Sessions \ {s} : Same(q)
    BY <1>5, LoginRows
  <2>2. {q \in Sessions : Exists(q)}' = {q \in Sessions : Exists(q)} \cup {s}
    BY <2>1 DEF Same, Live
  <2>3. CASE f = s
    <3>1. \A q \in Sessions : Exists(q) => FamilyOf(q) # f
      BY <2>1, <2>3 DEF IInv, FamiliesAreRooted
    <3>2. x = Unopened BY <1>1, <1>2, <3>1 DEF StatesAre, Is
    <3>3. Is(f, s)' BY <2>1, <2>3 DEF Is, LiveOf
    <3> QED BY <1>2, <1>4, <2>1, <2>2, <3>2, <3>3 DEF Family!Step, Family!Next, Family!Open, Family!Issue
  <2>4. CASE f # s
    <3>1. \A q \in Sessions : Exists(q)' /\ FamilyOf(q)' = f <=> Exists(q) /\ FamilyOf(q) = f
      BY <2>1, <2>4 DEF Same
    <3>2. LiveOf(f)' = LiveOf(f) BY <2>1, <2>4 DEF Same, LiveOf, Live
    <3>3. Is(f, x)' BY <1>3, <3>1, <3>2 DEF Is
    <3> QED BY <1>2, <1>4, <2>1, <2>2, <3>3 DEF Family!Step, Family!Next, Family!IssueElsewhere
  <2> QED BY <2>3, <2>4
<1>6. ASSUME NEW c \in Calls, NEW n \in Sessions, Rotate(c, n) PROVE Family(f)!Step
  <2>1. ~Exists(n) BY <1>6, RotateRows
  <2>2. PICK s, g \in Sessions :
          /\ Live(s) /\ Exists(s) /\ g = FamilyOf(s) /\ Exists(g) /\ g # n
          /\ Live(n)' /\ FamilyOf(n)' = g
          /\ ~Live(s)' /\ Exists(s)' /\ FamilyOf(s)' = g
          /\ \A q \in Sessions \ {s, n} : Same(q)
    BY <1>6, RotateRows
  <2>3. {q \in Sessions : Exists(q)}' = {q \in Sessions : Exists(q)} \cup {n}
    BY <2>1, <2>2 DEF Same, Live
  <2>4. CASE f = g
    <3>1. s \in LiveOf(f) BY <2>2, <2>4 DEF LiveOf
    <3>2. x = s BY <1>1, <1>2, <3>1 DEF StatesAre, Is
    <3>3. n \in LiveOf(f)' BY <2>2, <2>4 DEF LiveOf
    <3>4. Is(f, n)' BY <3>3 DEF Is
    <3> QED BY <1>2, <1>4, <2>1, <2>2, <2>3, <3>2, <3>4
            DEF Family!Step, Family!Next, Family!Rotate, Family!Issue
  <2>5. CASE f # g
    <3>1. \A q \in Sessions : Exists(q)' /\ FamilyOf(q)' = f <=> Exists(q) /\ FamilyOf(q) = f
      BY <2>1, <2>2, <2>5 DEF Same
    <3>2. LiveOf(f)' = LiveOf(f)
      <4>1. \A q \in Sessions \ {s, n} : q \in LiveOf(f)' <=> q \in LiveOf(f) BY <2>2 DEF Same, LiveOf
      <4>2. s \notin LiveOf(f) /\ n \notin LiveOf(f) BY <2>1, <2>2, <2>5 DEF LiveOf, Live
      <4>3. s \notin LiveOf(f)' /\ n \notin LiveOf(f)' BY <2>2, <2>5 DEF LiveOf
      <4>4. LiveOf(f)' \subseteq Sessions /\ LiveOf(f) \subseteq Sessions BY DEF LiveOf
      <4>5. \A q : q \in LiveOf(f)' <=> q \in LiveOf(f)
        <5> TAKE q
        <5>1. CASE q \in Sessions \ {s, n} BY <4>1, <5>1
        <5>2. CASE q = s BY <4>2, <4>3, <5>2
        <5>3. CASE q = n BY <4>2, <4>3, <5>3
        <5> QED BY <4>4, <5>1, <5>2, <5>3
      <4> QED BY <4>5
    <3>3. Is(f, x)' BY <1>3, <3>1, <3>2 DEF Is
    <3> QED BY <1>2, <1>4, <2>1, <2>3, <3>3 DEF Family!Step, Family!Next, Family!IssueElsewhere
  <2> QED BY <2>4, <2>5
<1>7. ASSUME FlagsOnly PROVE Family(f)!Step BY <1>7, FlagsStep
<1>8. ASSUME UNCHANGED session PROVE FlagsOnly BY <1>8 DEF FlagsOnly, Exists, FamilyOf, Live
<1>9. ASSUME NEW s \in Sessions, Expire(s) PROVE FlagsOnly
  BY <1>9 DEF Expire, FlagsOnly, Live, Exists, FamilyOf, TypeOK, Rows
<1>10. ASSUME NEW c \in Calls, RevokeTargets(c) PROVE FlagsOnly BY <1>10, RevokeRows
<1>11. ASSUME NEW c \in Calls,
              \/ RefuseLogin(c) \/ FindSession(c) \/ RotationConflict(c) \/ FindTargets(c)
              \/ Serve(c) \/ RefuseBearer(c) \/ Lose(c)
       PROVE  UNCHANGED session
  BY <1>11 DEF RefuseLogin, FindSession, RotationConflict, FindTargets, Serve, RefuseBearer, Lose
<1>12. ASSUME (\E u \in Users : DisableUser(u)) \/ AnyClient \/ UNCHANGED server PROVE UNCHANGED session
  BY <1>12 DEF DisableUser, AnyClient, server
<1> QED
  BY <1>5, <1>6, <1>7, <1>8, <1>9, <1>10, <1>11, <1>12 DEF ServerNext, Handle, Surroundings

\* rotation, logout and refusals keep the promise of SessionFamily for
\* every family at once.
THEOREM SessionsImplementFamilies == ServerSpec => ImplementsSessionFamily
<1>1. ServerInit => \A f \in Sessions : Family(f)!Init
  BY DEF ServerInit, Family!Init, FamilyState, Exists
<1>2. IInv /\ IInv' /\ [ServerNext]_server => \A f \in Sessions : Family(f)!Step
  BY FamilyStep
<1>3. IInv /\ IInv' /\ [ServerNext]_server => [\A f \in Sessions : Family(f)!Step]_server
  BY <1>2
<1> QED BY <1>1, <1>3, SessionsInvariant, PTL DEF ServerSpec, ImplementsSessionFamily

-----------------------------------------------------------------------------
(* WebSession: the browser is one of those clients.                        *)

\* What no step takes back.
Grow ==
  /\ \A s \in Sessions :
       Exists(s) => /\ Exists(s)' /\ FamilyOf(s)' = FamilyOf(s)
                    /\ session'[s].user = session[s].user
                    /\ session[s].expired => session'[s].expired
                    /\ session[s].revoked => session'[s].revoked
  /\ ended \subseteq ended' /\ raced \subseteq raced'
\* Revoking and expiring keep rows, their families and their flags.
LEMMA FlagsGrow ==
  ASSUME IInv, NEW S \in SUBSET Sessions, \A s \in S : Exists(s),
         NEW f \in {"revoked", "expired"},
         session' = [s \in Sessions |-> IF s \in S THEN [session[s] EXCEPT ![f] = TRUE] ELSE session[s]],
         ended \subseteq ended', raced \subseteq raced'
  PROVE  Grow
<1> USE SessionsAssumption
<1>1. SUFFICES ASSUME NEW s \in Sessions, Exists(s)
               PROVE  /\ Exists(s)' /\ FamilyOf(s)' = FamilyOf(s)
                      /\ session'[s].user = session[s].user
                      /\ session[s].expired => session'[s].expired
                      /\ session[s].revoked => session'[s].revoked
  BY DEF Grow
<1>2. session[s] \in Rows BY <1>1 DEF IInv, TypeOK, Exists
<1>3. CASE s \in S
  <2>1. session'[s] = [session[s] EXCEPT ![f] = TRUE] BY <1>3
  <2>2. /\ session'[s] \in Rows
        /\ session'[s].user = session[s].user /\ session'[s].family = session[s].family
        /\ session[s].expired => session'[s].expired
        /\ session[s].revoked => session'[s].revoked
    BY <1>2, <2>1 DEF Rows
  <2> QED BY <2>2 DEF Exists, FamilyOf
<1>4. CASE s \notin S BY <1>1, <1>4 DEF Exists, FamilyOf
<1> QED BY <1>3, <1>4

\* No step of the server removes a row or a flag of one.
LEMMA ServerGrows == IInv /\ [ServerNext]_server => Grow
<1> SUFFICES ASSUME IInv, [ServerNext]_server PROVE Grow
  OBVIOUS
<1> USE SessionsAssumption
<1>1. ASSUME NEW c \in Calls, NEW s \in Sessions, Login(c, s) PROVE Grow
  <2>1. \A q \in Sessions \ {s} : session'[q] = session[q] BY <1>1 DEF Login, IInv, TypeOK
  <2>2. ~Exists(s) BY <1>1 DEF Login, Free
  <2> QED BY <1>1, <2>1, <2>2 DEF Login, Grow, Exists, FamilyOf
<1>2. ASSUME NEW c \in Calls, NEW n \in Sessions, Rotate(c, n) PROVE Grow
  <2> DEFINE s == call[c].with
  <2>0. call[c] \in CallTypes /\ call[c].at = "rotate" BY <1>2 DEF Rotate, At, IInv, TypeOK
  <2>1. s \in Sessions /\ s # n /\ ~Exists(n) /\ session[s] \in Rows
    <3>1. s \in Sessions BY <2>0 DEF CallTypes, NoCall
    <3>2. Exists(s) /\ ~Exists(n) BY <1>2 DEF Rotate, Rotatable, Free, Live
    <3> QED BY <3>1, <3>2 DEF Exists, IInv, TypeOK
  <2>2. session' = [session EXCEPT ![s].revoked = TRUE, ![n] = Row(session[s].user, FamilyOf(s))]
    BY <1>2 DEF Rotate, Rotated
  <2>3. /\ session'[s] = [session[s] EXCEPT !.revoked = TRUE]
        /\ \A q \in Sessions \ {s, n} : session'[q] = session[q]
    BY <2>1, <2>2 DEF IInv, TypeOK
  <2>4. /\ session'[s] \in Rows /\ session'[s].user = session[s].user
        /\ session'[s].family = session[s].family
        /\ session'[s].expired = session[s].expired /\ session'[s].revoked
    BY <2>1, <2>3 DEF Rows
  <2>5. ended \subseteq ended' /\ raced \subseteq raced' BY <1>2 DEF Rotate
  <2> QED BY <2>1, <2>3, <2>4, <2>5 DEF Grow, Exists, FamilyOf
<1>3. ASSUME NEW c \in Calls, RevokeTargets(c) PROVE Grow
  <2>1. call[c].targets \subseteq Sessions
    BY <1>3 DEF RevokeTargets, IInv, TypeOK, At, CallTypes, NoCall
  <2>2. \A s \in call[c].targets : Exists(s) BY <1>3 DEF RevokeTargets, IInv, HeldExists
  <2>3. session' = [s \in Sessions |->
          IF s \in call[c].targets THEN [session[s] EXCEPT !["revoked"] = TRUE] ELSE session[s]]
    BY <1>3 DEF RevokeTargets
  <2> QED BY <1>3, <2>1, <2>2, <2>3, FlagsGrow DEF RevokeTargets
<1>4. ASSUME NEW s \in Sessions, Expire(s) PROVE Grow
  <2>1. session' = [q \in Sessions |->
          IF q \in {s} THEN [session[q] EXCEPT !["expired"] = TRUE] ELSE session[q]]
    BY <1>4 DEF Expire, IInv, TypeOK
  <2> QED BY <1>4, <2>1, FlagsGrow DEF Expire, Live
<1>5. ASSUME UNCHANGED <<session, raced, ended>> PROVE Grow
  BY <1>5 DEF Grow, Exists, FamilyOf
<1>6. ASSUME NEW c \in Calls,
             \/ RefuseLogin(c) \/ FindSession(c) \/ RotationConflict(c) \/ FindTargets(c)
             \/ Serve(c) \/ RefuseBearer(c) \/ Lose(c)
      PROVE  Grow
  BY <1>5, <1>6 DEF RefuseLogin, FindSession, RotationConflict, FindTargets, Serve, RefuseBearer, Lose
<1>7. ASSUME (\E u \in Users : DisableUser(u)) \/ AnyClient \/ UNCHANGED server PROVE Grow
  BY <1>5, <1>7 DEF DisableUser, AnyClient, server
<1> QED BY <1>1, <1>2, <1>3, <1>4, <1>6, <1>7 DEF ServerNext, Handle, Surroundings

\* What the server does to a call: it stays a request of the same kind, and
\* an answer gives what it says.
Gives(x) ==
  x.at = "answer" /\ x.code = "ok" =>
    /\ x.op \in {"login", "refresh"} => x.got \in Sessions /\ Exists(x.got)'
    /\ x.op = "me" => x.got \in Users

\* A handler changes its own call, to an answer or its next stage.
LEMMA HandleCall ==
  ASSUME IInv, NEW c \in Calls, Handle(c)
  PROVE  \E x : /\ call' = [call EXCEPT ![c] = x]
                /\ ~At(c, "none") /\ x.at # "none" /\ x.op = call[c].op /\ Gives(x)
<1> USE SessionsAssumption
<1> DEFINE Goal == \E x : /\ call' = [call EXCEPT ![c] = x]
                          /\ ~At(c, "none") /\ x.at # "none" /\ x.op = call[c].op /\ Gives(x)
<1>0. call \in [Calls -> CallTypes] BY DEF IInv, TypeOK
<1>1. ASSUME NEW code, NEW got, Reply(c, code, got), ~At(c, "none"),
             code = "ok" => /\ call[c].op \in {"login", "refresh"} => got \in Sessions /\ Exists(got)'
                            /\ call[c].op = "me" => got \in Users
      PROVE  Goal
  <2>0. PICK x : x = Answer(call[c].op, Asked(c), code, got) OBVIOUS
  <2>1. call' = [call EXCEPT ![c] = x] BY <1>0, <1>1, <2>0 DEF Reply
  <2>2. x.at = "answer" /\ x.op = call[c].op /\ x.code = code /\ x.got = got BY <2>0 DEF Answer
  <2>3. Gives(x) BY <1>1, <2>2 DEF Gives
  <2> QED BY <1>1, <2>1, <2>2, <2>3
<1>2. ASSUME NEW x, call' = [call EXCEPT ![c] = x], ~At(c, "none"), x.op = call[c].op,
             x.at \notin {"none", "answer"}
      PROVE  Goal
  BY <1>2 DEF Gives
<1>3. ASSUME NEW reason, Revoke(c, reason), ~At(c, "none") PROVE Goal
  <2> DEFINE x == [at |-> "revoke", op |-> call[c].op, with |-> call[c].with, reason |-> reason]
  <2>1. call' = [call EXCEPT ![c] = x] BY <1>0, <1>3 DEF Revoke
  <2> HIDE DEF Goal
  <2> QED BY <1>2, <1>3, <2>1
<1>4. ASSUME NEW s \in Sessions, Login(c, s) PROVE Goal
  <2>1. Exists(s)' /\ Reply(c, "ok", s) BY <1>4, LoginRows DEF Live, Login
  <2> HIDE DEF Goal
  <2> QED BY <1>1, <1>4, <2>1 DEF Login, At
<1>5. ASSUME NEW s \in Sessions, Rotate(c, s) PROVE Goal
  <2>1. Exists(s)' /\ Reply(c, "ok", s) BY <1>5, RotateRows DEF Live, Rotate
  <2>2. call[c].op = "refresh" BY <1>0, <1>5 DEF Rotate, At, CallTypes, NoCall
  <2> HIDE DEF Goal
  <2> QED BY <1>1, <1>5, <2>1, <2>2 DEF Rotate, At
<1> HIDE DEF Goal
<1>6. ASSUME FindSession(c) PROVE Goal
  <2> DEFINE s == call[c].with
  <2>1. At(c, "sent") /\ ~At(c, "none") /\ call[c].op \in {"refresh", "logout"} BY <1>6 DEF FindSession, At
  <2>2. \/ Reply(c, IF call[c].op = "logout" THEN "ok" ELSE "refused", Null)
        \/ \E reason : Revoke(c, reason)
        \/ call' = [call EXCEPT ![c] = [at |-> "rotate", op |-> "refresh", with |-> s]] /\ call[c].op = "refresh"
    BY <1>6, <2>1, Zenon DEF FindSession
  <2> QED BY <1>1, <1>2, <1>3, <2>1, <2>2
<1>7. ASSUME FindTargets(c) PROVE Goal
  <2> DEFINE x == [at |-> "update", op |-> call[c].op, with |-> call[c].with, targets |-> Targets(c)]
  <2>1. call' = [call EXCEPT ![c] = x] /\ ~At(c, "none") BY <1>0, <1>7 DEF FindTargets, At
  <2> QED BY <1>2, <2>1
<1>8. ASSUME RevokeTargets(c) PROVE Goal
  <2>1. call[c].op \in {"refresh", "logout"} BY <1>0, <1>8 DEF RevokeTargets, At, CallTypes, NoCall
  <2> QED BY <1>1, <1>8, <2>1 DEF RevokeTargets, At
<1>9. ASSUME Serve(c) PROVE Goal
  <2>1. session[call[c].with].user \in Users
    <3>1. call[c] \in CallTypes /\ call[c].at = "sent" /\ call[c].op \in {"me", "page"} /\ call[c].with # Null
      BY <1>0, <1>9 DEF Serve, Valid, At
    <3>2. call[c].with \in Sessions BY <3>1 DEF CallTypes, NoCall
    <3> QED BY <1>9, <3>2 DEF Serve, Valid, Live, Exists, IInv, TypeOK, Rows
  <2> QED BY <1>1, <1>9, <2>1 DEF Serve, At
<1>10. ASSUME RefuseLogin(c) \/ RefuseBearer(c) \/ Lose(c) PROVE Goal
  BY <1>1, <1>10 DEF RefuseLogin, RefuseBearer, Lose, At
<1>11. ASSUME RotationConflict(c) PROVE Goal BY <1>3, <1>11 DEF RotationConflict, At
<1> QED
  BY <1>4, <1>5, <1>6, <1>7, <1>8, <1>9, <1>10, <1>11 DEF Handle, Goal

\* While the browser waits, its calls stay what its fibers wait for.
LEMMA ServerStepOK ==
  ASSUME IInv, BrowserOK, Grow, UNCHANGED browser, (\E c \in Calls : Handle(c)) \/ Surroundings
  PROVE  BrowserOK'
<1> USE DEF browser
<1>1. \A x : IsA(x) => IsA(x)' BY DEF Grow, IsA
<1>2. /\ cookie' # Null => IsA(cookie)'
      /\ \A t \in Tabs : token'[t] # Null => IsA(token[t])'
  BY <1>1 DEF BrowserOK
<1>3. \A t \in Tabs : StatusOfFiber(t)' BY DEF BrowserOK, StatusOfFiber, Waits, Has
<1>4. ASSUME NEW c \in Calls, Handle(c) PROVE BrowserOK'
  <2>1. PICK x : /\ call' = [call EXCEPT ![c] = x]
                 /\ ~At(c, "none") /\ x.at # "none" /\ x.op = call[c].op /\ Gives(x)
    BY <1>4, HandleCall
  <2>2. call' = [d \in Calls |-> IF d = c THEN x ELSE call[d]] BY <2>1 DEF IInv, TypeOK
  <2>3. \A t \in Tabs, b \in Fibers : CallOfFiber(t, b)'
    <3> SUFFICES ASSUME NEW t \in Tabs, NEW b \in Fibers PROVE CallOfFiber(t, b)'
      OBVIOUS
    <3>1. CallOfFiber(t, b) /\ (fiber[t][b] # "idle" => <<t, b>> \in Calls)
      BY DEF BrowserOK, CallOfFiber, Has
    <3>2. CASE <<t, b>> = c
      <4>1. AnswerTo(t, b)' = x /\ AnswerTo(t, b) = call[c] BY <2>2, <3>2 DEF AnswerTo
      <4>2. ~At(<<t, b>>, "none") /\ ~At(<<t, b>>, "none")' /\ AnswerTo(t, b).op = AnswerTo(t, b)'.op
        BY <2>1, <2>2, <3>2, <4>1 DEF At
      <4> QED BY <3>1, <3>2, <4>2 DEF CallOfFiber, Has
    <3>3. CASE <<t, b>> # c
      <4>1. <<t, b>> \in Calls => call'[<<t, b>>] = call[<<t, b>>] BY <2>2, <3>3
      <4> QED BY <3>1, <4>1 DEF CallOfFiber, AnswerTo, At, Has
    <3> QED BY <3>2, <3>3
  <2>4. \A d \in Calls :
          At(d, "answer")' /\ call'[d].code = "ok" =>
            /\ call'[d].op \in {"login", "refresh"} => IsA(call[d].got)'
            /\ call'[d].op = "me" => call'[d].got \in Users
    <3> SUFFICES ASSUME NEW d \in Calls, At(d, "answer")', call'[d].code = "ok"
                 PROVE  /\ call'[d].op \in {"login", "refresh"} => IsA(call[d].got)'
                        /\ call'[d].op = "me" => call'[d].got \in Users
      OBVIOUS
    <3>1. CASE d = c BY <2>1, <2>2, <3>1 DEF Gives, IsA, At
    <3>2. CASE d # c BY <1>1, <2>2, <3>2 DEF BrowserOK, At
    <3> QED BY <3>1, <3>2
  <2> QED BY <1>2, <1>3, <2>3, <2>4 DEF BrowserOK, Waits
<1>5. ASSUME UNCHANGED call PROVE BrowserOK'
  <2>1. \A t \in Tabs, b \in Fibers : CallOfFiber(t, b)'
    BY <1>5 DEF BrowserOK, CallOfFiber, AnswerTo, At, Has
  <2>2. \A d \in Calls :
          At(d, "answer")' /\ call'[d].code = "ok" =>
            /\ call'[d].op \in {"login", "refresh"} => IsA(call[d].got)'
            /\ call'[d].op = "me" => call'[d].got \in Users
    BY <1>1, <1>5 DEF BrowserOK, At
  <2> QED BY <1>2, <1>3, <2>1, <2>2 DEF BrowserOK, Waits
<1> QED BY <1>4, <1>5 DEF Surroundings, Expire, DisableUser

\* What one fiber asks, it asks as any client may.
LEMMA AskFacts ==
  ASSUME IInv, BrowserOK, NEW t \in Tabs, NEW b \in Fibers, NEW what, NEW request,
         Ask(t, b, what, request)
  PROVE  /\ \A u \in Tabs, x \in Fibers :
              fiber'[u][x] = IF u = t /\ x = b THEN what ELSE fiber[u][x]
         /\ \A c \in Calls : call'[c] = IF c = <<t, b>> THEN request ELSE call[c]
         /\ call' = [c \in Calls |-> call'[c]]
         /\ what \in Stages => fiber' \in [Tabs -> [Fibers -> Stages]]
<1>1. fiber \in [Tabs -> [Fibers -> Stages]] /\ call \in [Calls -> CallTypes]
  BY DEF IInv, TypeOK, BrowserOK
<1>2. fiber' = [fiber EXCEPT ![t][b] = what] /\ call' = [call EXCEPT ![<<t, b>>] = request] BY DEF Ask
<1> QED BY <1>1, <1>2

\* A fiber that asks is a client that asks for what it was given.
LEMMA AskOK ==
  ASSUME IInv, BrowserOK, serverUnchanged,
         NEW t \in Tabs, NEW b \in Fibers, NEW what \in Stages, NEW request \in Requests \cup {NoCall},
         Ask(t, b, what, request), Has(t, b),
         At(<<t, b>>, "none") \/ At(<<t, b>>, "answer"),
         what \in {"idle", "joined"} => request = NoCall,
         what \in {"refresh", "login", "me", "logout"} => request # NoCall /\ request.op = what,
         what \in {"first", "again"} => request # NoCall /\ request.op = "page",
         what \in IF b = "session" THEN {"idle", "refresh", "login", "me", "logout"}
                                   ELSE {"idle", "first", "again", "refresh", "joined"},
         cookie' # Null => IsA(cookie'),
         token' \in [Tabs -> Sessions \cup {Null}], promise' \in [Tabs -> Fibers \cup {Null}],
         status' \in [Tabs -> {"closed", "checking", "authenticated", "unauthenticated"}],
         shown' \in [Tabs -> Users \cup {Null}],
         \A u \in Tabs :
           /\ token'[u] # Null => IsA(token'[u])
           /\ StatusOfFiber(u)'
           /\ \A x \in Fibers : fiber'[u][x] = "refresh" <=> promise'[u] = x
  PROVE  AnyClient /\ BrowserOK'
<1> USE DEF serverUnchanged
<1>1. /\ \A u \in Tabs, x \in Fibers :
              fiber'[u][x] = IF u = t /\ x = b THEN what ELSE fiber[u][x]
      /\ \A c \in Calls : call'[c] = IF c = <<t, b>> THEN request ELSE call[c]
      /\ call' = [c \in Calls |-> call'[c]]
      /\ fiber' \in [Tabs -> [Fibers -> Stages]]
  BY AskFacts
<1>2. AnyClient
  <2>1. <<t, b>> \in Calls /\ call[<<t, b>>].at \in {"none", "answer"} BY DEF BrowserOK, Has, At
  <2>2. \A c \in Calls : \/ call'[c] = call[c]
                         \/ call[c].at \in {"none", "answer"} /\ call'[c] \in Requests \cup {NoCall}
    <3> SUFFICES ASSUME NEW c \in Calls
                 PROVE  \/ call'[c] = call[c]
                        \/ call[c].at \in {"none", "answer"} /\ call'[c] \in Requests \cup {NoCall}
      OBVIOUS
    <3>1. CASE c = <<t, b>>
      <4>1. call'[c] = request BY <1>1, <3>1
      <4> QED BY <2>1, <3>1, <4>1
    <3>2. CASE c # <<t, b>> BY <1>1, <3>2
    <3> QED BY <3>1, <3>2
  <2> QED BY <1>1, <2>2 DEF AnyClient
<1>3. \A x : IsA(x)' <=> IsA(x) BY DEF IsA, Exists
<1>4. request.at \in {"none", "sent"} /\ (request.at = "none" <=> request = NoCall)
  BY DEF Requests, NoCall, Sent
<1>5. \A u \in Tabs, x \in Fibers : CallOfFiber(u, x)'
  <2> SUFFICES ASSUME NEW u \in Tabs, NEW x \in Fibers PROVE CallOfFiber(u, x)'
    OBVIOUS
  <2>1. CASE u = t /\ x = b
    <3>1. <<t, b>> \in Calls BY DEF BrowserOK, Has
    <3>2. fiber'[u][x] = what /\ call'[<<u, x>>] = request BY <1>1, <2>1, <3>1
    <3> QED BY <1>4, <2>1, <3>2 DEF CallOfFiber, AnswerTo, At, Has
  <2>2. CASE ~(u = t /\ x = b)
    <3>1. fiber'[u][x] = fiber[u][x] /\ (<<u, x>> \in Calls => call'[<<u, x>>] = call[<<u, x>>])
      BY <1>1, <2>2
    <3>2. fiber[u][x] # "idle" => <<u, x>> \in Calls BY DEF BrowserOK, CallOfFiber, Has
    <3> QED BY <3>1, <3>2 DEF BrowserOK, CallOfFiber, AnswerTo, At, Has
  <2> QED BY <2>1, <2>2
<1>6. \A c \in Calls :
        At(c, "answer")' /\ call'[c].code = "ok" =>
          /\ call'[c].op \in {"login", "refresh"} => IsA(call[c].got)'
          /\ call'[c].op = "me" => call'[c].got \in Users
  <2> SUFFICES ASSUME NEW c \in Calls, At(c, "answer")', call'[c].code = "ok"
               PROVE  /\ call'[c].op \in {"login", "refresh"} => IsA(call[c].got)'
                      /\ call'[c].op = "me" => call'[c].got \in Users
    OBVIOUS
  <2>1. c # <<t, b>> /\ call'[c] = call[c] BY <1>1, <1>4 DEF At
  <2>2. At(c, "answer") /\ call[c].code = "ok" BY <2>1 DEF At
  <2>3. /\ call[c].op \in {"login", "refresh"} => IsA(call[c].got)
        /\ call[c].op = "me" => call[c].got \in Users
    BY <2>2 DEF BrowserOK
  <2> QED BY <2>1, <2>3, <1>3 DEF IsA, Exists
<1>7. open' \subseteq Calls BY DEF BrowserOK
<1>8. /\ cookie' # Null => IsA(cookie)'
      /\ \A u \in Tabs : token'[u] # Null => IsA(token[u])'
  BY DEF IsA, Exists
<1> QED BY <1>1, <1>2, <1>5, <1>6, <1>7, <1>8 DEF BrowserOK, Waits

\* One lemma for the steps of a tab: each is a step of a client, and keeps
\* the fibers in order.
LEMMA TabStepOK ==
  ASSUME IInv, BrowserOK, NEW t \in Tabs, Tab(t)
  PROVE  AnyClient /\ BrowserOK'
<1> USE SessionsAssumption, BrowserAssumption
<1> USE DEF serverUnchanged, restUnchanged
<1>0. /\ \A u \in Tabs, b \in Fibers : fiber[u][b] \in Stages /\ CallOfFiber(u, b) /\ (Waits(u, b, "refresh") <=> promise[u] = b)
      /\ \A u \in Tabs : StatusOfFiber(u) /\ (token[u] # Null => IsA(token[u]))
      /\ cookie # Null => IsA(cookie)
      /\ token \in [Tabs -> Sessions \cup {Null}] /\ promise \in [Tabs -> Fibers \cup {Null}]
      /\ status \in [Tabs -> {"closed", "checking", "authenticated", "unauthenticated"}]
      /\ shown \in [Tabs -> Users \cup {Null}]
      /\ open \subseteq Calls
  BY DEF BrowserOK
<1>f. "session" \in Fibers /\ Pages \subseteq Fibers BY DEF Fibers
<1>n. Null \notin Sessions BY DEF SessionsAssumption
<1>s. \A x : IsA(x) => x \in Sessions /\ Exists(x) BY DEF IsA
<1>r. /\ \A u \in Users : Sent("login", u) \in Requests
      /\ \A op \in {"refresh", "logout", "me", "page"} :
           Sent(op, Null) \in Requests /\ \A s : IsA(s) => Sent(op, s) \in Requests
      /\ \A op, w : Sent(op, w) # NoCall /\ Sent(op, w).op = op
  <2>1. \A u \in Users : Sent("login", u) \in Requests BY DEF Requests
  <2>2. \A op \in {"refresh", "logout", "me", "page"}, s \in {r \in Sessions : Exists(r)} \cup {Null} :
          Sent(op, s) \in Requests
    BY DEF Requests
  <2>3. \A op, w : Sent(op, w) # NoCall /\ Sent(op, w).op = op
    <3> SUFFICES ASSUME NEW op, NEW w PROVE Sent(op, w) # NoCall /\ Sent(op, w).op = op
      OBVIOUS
    <3>1. Sent(op, w).at = "sent" /\ Sent(op, w).op = op BY DEF Sent
    <3>2. NoCall.at = "none" BY DEF NoCall
    <3> QED BY <3>1, <3>2
  <2> QED BY <1>s, <2>1, <2>2, <2>3
<1>i. \A b \in Fibers : Waits(t, b, "idle") /\ Has(t, b) => At(<<t, b>>, "none")
  BY <1>0 DEF CallOfFiber, Waits, Has
<1>a. \A what : \A b \in Fibers : Answered(t, b, what) => At(<<t, b>>, "answer") /\ Waits(t, b, what)
  BY DEF Answered
<1>h. \A b \in Fibers : ~Waits(t, b, "idle") => Has(t, b) BY <1>0 DEF CallOfFiber, Waits
<1>1. ASSUME Load(t) PROVE AnyClient /\ BrowserOK'
  <2>1. /\ Ask(t, "session", "refresh", Sent("refresh", cookie)) /\ Has(t, "session")
        /\ \A b \in Fibers : Waits(t, b, "idle")
        /\ token' = [token EXCEPT ![t] = Null] /\ promise' = [promise EXCEPT ![t] = "session"]
        /\ status' = [status EXCEPT ![t] = "checking"] /\ shown' = [shown EXCEPT ![t] = Null]
        /\ UNCHANGED <<cookie, open>> /\ serverUnchanged
    BY <1>1 DEF Load
  <2>2. \A u \in Tabs, x \in Fibers :
          fiber'[u][x] = IF u = t /\ x = "session" THEN "refresh" ELSE fiber[u][x]
    BY <1>f, <2>1, AskFacts
  <2>3. ASSUME NEW u \in Tabs PROVE StatusOfFiber(u)'
    <3>1. CASE u = t
      <4>1. /\ status'[t] = "checking" /\ fiber'[t]["session"] = "refresh"
            /\ \A x \in Pages : fiber'[t][x] = "idle"
        BY <1>0, <1>f, <2>1, <2>2 DEF Waits
      <4> QED BY <2>1, <3>1, <4>1 DEF StatusOfFiber, Waits, Has
    <3>2. CASE u # t
      <4>1. status'[u] = status[u] /\ \A x \in Fibers : fiber'[u][x] = fiber[u][x]
        BY <1>0, <2>1, <2>2, <3>2
      <4> QED BY <1>0, <1>f, <2>1, <4>1 DEF StatusOfFiber, Waits, Has
    <3> QED BY <3>1, <3>2
  <2>4. \A u \in Tabs, x \in Fibers : fiber'[u][x] = "refresh" <=> promise'[u] = x
    BY <1>0, <1>f, <2>1, <2>2 DEF Waits
  <2>5. At(<<t, "session">>, "none") BY <1>f, <1>i, <2>1
  <2>6. PICK r \in Requests : r = Sent("refresh", cookie) /\ r # NoCall /\ r.op = "refresh" BY <1>0, <1>r
  <2>7. /\ token' \in [Tabs -> Sessions \cup {Null}] /\ promise' \in [Tabs -> Fibers \cup {Null}]
        /\ status' \in [Tabs -> {"closed", "checking", "authenticated", "unauthenticated"}]
        /\ shown' \in [Tabs -> Users \cup {Null}]
        /\ \A u \in Tabs : token'[u] # Null => IsA(token'[u])
    BY <1>0, <1>f, <2>1
  <2>8. /\ Ask(t, "session", "refresh", r) /\ Has(t, "session") /\ serverUnchanged
        /\ cookie' # Null => IsA(cookie')
    BY <1>0, <2>1, <2>6
  <2>9. "session" \in Fibers /\ "refresh" \in Stages BY <1>f DEF Stages
  <2>10. \A u \in Tabs :
          /\ token'[u] # Null => IsA(token'[u])
          /\ StatusOfFiber(u)'
          /\ \A x \in Fibers : fiber'[u][x] = "refresh" <=> promise'[u] = x
    BY <2>3, <2>4, <2>7
  <2> QED BY <2>5, <2>6, <2>7, <2>8, <2>9, <2>10, AskOK
<1>2. ASSUME NEW b \in Fibers, NEW what \in Stages, NEW request \in Requests \cup {NoCall},
             Ask(t, b, what, request), Has(t, b), At(<<t, b>>, "none") \/ At(<<t, b>>, "answer"),
             what \in {"idle", "joined"} => request = NoCall,
             what = "login" => request # NoCall /\ request.op = what,
             what = "me" => request # NoCall /\ request.op = what,
             what = "logout" => request # NoCall /\ request.op = what,
             what \in {"first", "again"} => request # NoCall /\ request.op = "page",
             what \in IF b = "session" THEN {"idle", "login", "me", "logout"} ELSE {"idle", "first", "again", "joined"},
             ~Waits(t, b, "refresh"), UNCHANGED promise, serverUnchanged,
             cookie' # Null => IsA(cookie'), token' \in [Tabs -> Sessions \cup {Null}],
             \A u \in Tabs : token'[u] # Null => IsA(token'[u]),
             status' \in [Tabs -> {"closed", "checking", "authenticated", "unauthenticated"}],
             shown' \in [Tabs -> Users \cup {Null}],
             \A u \in Tabs \ {t} : status'[u] = status[u], StatusOfFiber(t)'
      PROVE  AnyClient /\ BrowserOK'
  <2>1. \A u \in Tabs, x \in Fibers : fiber'[u][x] = IF u = t /\ x = b THEN what ELSE fiber[u][x]
    BY <1>2, AskFacts
  <2>2. \A u \in Tabs, x \in Fibers : fiber'[u][x] = "refresh" <=> promise'[u] = x
    BY <1>0, <1>2, <2>1 DEF Waits
  <2>3. ASSUME NEW u \in Tabs \ {t} PROVE StatusOfFiber(u)'
    BY <1>0, <1>2, <1>f, <2>1 DEF StatusOfFiber, Waits, Has
  <2>4. \A u \in Tabs : StatusOfFiber(u)' BY <1>2, <2>3
  <2> QED BY <1>0, <1>2, <2>2, <2>4, AskOK
<1>3. ASSUME NEW u \in Users, SignIn(t, u) PROVE AnyClient /\ BrowserOK'
  <2>1. /\ status[t] = "unauthenticated" /\ Waits(t, "session", "idle")
        /\ Ask(t, "session", "login", Sent("login", u))
        /\ UNCHANGED <<cookie, token, promise, status, shown>> /\ serverUnchanged
    BY <1>3 DEF SignIn
  <2>2. Has(t, "session") BY <1>0, <2>1 DEF StatusOfFiber
  <2>3. \A x \in Fibers : fiber'[t][x] = IF x = "session" THEN "login" ELSE fiber[t][x]
    BY <1>f, <2>1, AskFacts
  <2>4. StatusOfFiber(t)' BY <1>0, <1>f, <2>1, <2>3 DEF StatusOfFiber, Waits, Has
  <2>5. At(<<t, "session">>, "none") BY <1>f, <1>i, <2>1, <2>2
  <2> DEFINE r == Sent("login", u)
  <2>6. r \in Requests /\ r # NoCall /\ r.op = "login" BY <1>r
  <2>7. ~Waits(t, "session", "refresh") BY <2>1 DEF Waits
  <2> HIDE DEF r
  <2> QED BY <1>0, <1>2, <1>f, <2>1, <2>2, <2>4, <2>5, <2>6, <2>7 DEF Stages, r
<1>4. ASSUME SignOut(t) PROVE AnyClient /\ BrowserOK'
  <2>1. /\ status[t] = "authenticated" /\ Waits(t, "session", "idle")
        /\ Ask(t, "session", "logout", Sent("logout", cookie))
        /\ UNCHANGED <<cookie, token, promise, status, shown>> /\ serverUnchanged
    BY <1>4 DEF SignOut
  <2>2. Has(t, "session") BY <1>0, <2>1 DEF StatusOfFiber
  <2>3. \A x \in Fibers : fiber'[t][x] = IF x = "session" THEN "logout" ELSE fiber[t][x]
    BY <1>f, <2>1, AskFacts
  <2>4. StatusOfFiber(t)' BY <1>0, <1>f, <2>1, <2>3 DEF StatusOfFiber, Waits, Has
  <2>5. At(<<t, "session">>, "none") BY <1>f, <1>i, <2>1, <2>2
  <2> DEFINE r == Sent("logout", cookie)
  <2>6. r \in Requests /\ r # NoCall /\ r.op = "logout" BY <1>0, <1>r
  <2>7. ~Waits(t, "session", "refresh") BY <2>1 DEF Waits
  <2> HIDE DEF r
  <2> QED BY <1>0, <1>2, <1>f, <2>1, <2>2, <2>4, <2>5, <2>6, <2>7 DEF Stages, r
<1>5. ASSUME NEW b \in Pages, Request(t, b) PROVE AnyClient /\ BrowserOK'
  <2>1. /\ status[t] = "authenticated" /\ Waits(t, b, "idle") /\ Has(t, b)
        /\ Ask(t, b, "first", Sent("page", token[t]))
        /\ UNCHANGED <<cookie, token, promise, status, shown>> /\ serverUnchanged
    BY <1>5 DEF Request
  <2>3. \A x \in Fibers : fiber'[t][x] = IF x = b THEN "first" ELSE fiber[t][x]
    BY <1>f, <2>1, AskFacts
  <2>4. StatusOfFiber(t)' BY <1>0, <1>f, <2>1, <2>3 DEF StatusOfFiber, Waits, Has
  <2>5. At(<<t, b>>, "none") BY <1>f, <1>i, <2>1
  <2> DEFINE r == Sent("page", token[t])
  <2>6. r \in Requests /\ r # NoCall /\ r.op = "page" BY <1>0, <1>r
  <2>7. ~Waits(t, b, "refresh") /\ b # "session" BY <2>1 DEF Waits
  <2> HIDE DEF r
  <2> QED BY <1>0, <1>2, <1>f, <2>1, <2>4, <2>5, <2>6, <2>7 DEF Stages, r
<1>6. ASSUME TakeLogin(t) PROVE AnyClient /\ BrowserOK'
  <2> DEFINE s == AnswerTo(t, "session").got
  <2>1. /\ Waits(t, "session", "login") /\ At(<<t, "session">>, "answer") /\ Has(t, "session")
        /\ UNCHANGED <<promise, status, shown>> /\ serverUnchanged
    BY <1>6, <1>a, <1>f, <1>h DEF TakeLogin, Waits
  <2>2. CASE Ok(t, "session")
    <3>1. /\ Ask(t, "session", "me", Sent("me", s))
          /\ cookie' = s /\ token' = [token EXCEPT ![t] = s]
      BY <1>6, <2>2 DEF TakeLogin
    <3>2. IsA(s)
      <4>1. <<t, "session">> \in Calls /\ AnswerTo(t, "session").op = "login"
        BY <1>0, <1>f, <2>1 DEF CallOfFiber, Waits, Has
      <4> QED BY <2>1, <2>2, <4>1 DEF BrowserOK, Ok, AnswerTo
    <3>3. \A x \in Fibers : fiber'[t][x] = IF x = "session" THEN "me" ELSE fiber[t][x]
      BY <1>f, <3>1, AskFacts
    <3>4. StatusOfFiber(t)' BY <1>0, <1>f, <2>1, <3>3 DEF StatusOfFiber, Waits, Has
    <3>5. /\ token' \in [Tabs -> Sessions \cup {Null}]
          /\ \A u \in Tabs : token'[u] # Null => IsA(token'[u])
      BY <1>0, <1>s, <3>1, <3>2
    <3> DEFINE r == Sent("me", s)
    <3>6. r \in Requests /\ r # NoCall /\ r.op = "me" BY <1>r, <3>2
    <3>7. ~Waits(t, "session", "refresh") BY <2>1 DEF Waits
    <3> HIDE DEF s, r
    <3> QED BY <1>0, <1>2, <1>f, <2>1, <3>1, <3>2, <3>4, <3>5, <3>6, <3>7 DEF Stages, r
  <2>3. CASE ~Ok(t, "session")
    <3>1. Ask(t, "session", "idle", NoCall) /\ UNCHANGED <<cookie, token>>
      BY <1>6, <2>3 DEF TakeLogin, Settle
    <3>3. \A x \in Fibers : fiber'[t][x] = IF x = "session" THEN "idle" ELSE fiber[t][x]
      BY <1>f, <3>1, AskFacts
    <3>4. StatusOfFiber(t)' BY <1>0, <1>f, <2>1, <3>3 DEF StatusOfFiber, Waits, Has
    <3> QED BY <1>0, <1>2, <1>f, <2>1, <3>1, <3>4 DEF Stages, Waits
  <2> QED BY <2>2, <2>3
<1>7. ASSUME TakeMe(t) PROVE AnyClient /\ BrowserOK'
  <2>1. /\ Waits(t, "session", "me") /\ At(<<t, "session">>, "answer") /\ Has(t, "session")
        /\ Ask(t, "session", "idle", NoCall) /\ UNCHANGED <<cookie, promise>> /\ serverUnchanged
    BY <1>7, <1>a, <1>f, <1>h DEF TakeMe, Waits, Settle
  <2>2. \A x \in Fibers : fiber'[t][x] = IF x = "session" THEN "idle" ELSE fiber[t][x]
    BY <1>f, <2>1, AskFacts
  <2>3. /\ token' \in [Tabs -> Sessions \cup {Null}]
        /\ \A u \in Tabs : token'[u] # Null => IsA(token'[u])
    BY <1>0, <1>7 DEF TakeMe
  <2>4. /\ status'[t] \in {"authenticated", "unauthenticated"}
        /\ \A u \in Tabs \ {t} : status'[u] = status[u]
        /\ status' \in [Tabs -> {"closed", "checking", "authenticated", "unauthenticated"}]
    BY <1>0, <1>7 DEF TakeMe, SignedIn, SignedOut
  <2>5. shown' \in [Tabs -> Users \cup {Null}]
    <3>1. CASE Ok(t, "session")
      <4>1. <<t, "session">> \in Calls /\ AnswerTo(t, "session").op = "me"
        BY <1>0, <1>f, <2>1 DEF CallOfFiber, Waits, Has
      <4>2. AnswerTo(t, "session").got \in Users BY <2>1, <3>1, <4>1 DEF BrowserOK, Ok, AnswerTo
      <4> QED BY <1>0, <1>7, <3>1, <4>2 DEF TakeMe, SignedIn
    <3>2. CASE ~Ok(t, "session") BY <1>0, <1>7, <3>2 DEF TakeMe, SignedOut
    <3> QED BY <3>1, <3>2
  <2>6. StatusOfFiber(t)' BY <1>0, <1>f, <2>1, <2>2, <2>4 DEF StatusOfFiber, Waits, Has
  <2> QED BY <1>0, <1>2, <1>f, <2>1, <2>3, <2>4, <2>5, <2>6 DEF Stages, Waits
<1>8. ASSUME TakeLogout(t) PROVE AnyClient /\ BrowserOK'
  <2>1. /\ Waits(t, "session", "logout") /\ At(<<t, "session">>, "answer") /\ Has(t, "session")
        /\ Ask(t, "session", "idle", NoCall) /\ UNCHANGED promise /\ serverUnchanged
        /\ token' = [token EXCEPT ![t] = Null] /\ cookie' \in {Null, cookie}
        /\ status' = [status EXCEPT ![t] = "unauthenticated"] /\ shown' = [shown EXCEPT ![t] = Null]
    BY <1>8, <1>a, <1>f, <1>h DEF TakeLogout, Waits, Settle, SignedOut
  <2>2. \A x \in Fibers : fiber'[t][x] = IF x = "session" THEN "idle" ELSE fiber[t][x]
    BY <1>f, <2>1, AskFacts
  <2>3. StatusOfFiber(t)' BY <1>0, <1>f, <2>1, <2>2 DEF StatusOfFiber, Waits, Has
  <2>4. /\ token' \in [Tabs -> Sessions \cup {Null}]
        /\ \A u \in Tabs : token'[u] # Null => IsA(token'[u])
        /\ status' \in [Tabs -> {"closed", "checking", "authenticated", "unauthenticated"}]
        /\ \A u \in Tabs \ {t} : status'[u] = status[u]
        /\ shown' \in [Tabs -> Users \cup {Null}]
        /\ cookie' # Null => IsA(cookie')
    BY <1>0, <2>1
  <2>5. ~Waits(t, "session", "refresh") BY <2>1 DEF Waits
  <2> QED BY <1>2, <1>f, <2>1, <2>3, <2>4, <2>5 DEF Stages
<1>9. ASSUME NEW b \in Pages, TakeAgain(t, b) \/ (TakePage(t, b) /\ Settle(t, b) /\ UNCHANGED promise)
      PROVE  AnyClient /\ BrowserOK'
  <2>1. /\ Waits(t, b, "again") \/ Waits(t, b, "first")
        /\ At(<<t, b>>, "answer") /\ Has(t, b)
        /\ Ask(t, b, "idle", NoCall) /\ UNCHANGED <<cookie, token, promise, status, shown>> /\ serverUnchanged
    <3>1. CASE TakeAgain(t, b) BY <1>a, <1>f, <1>h, <3>1 DEF TakeAgain, Waits, Settle
    <3>2. CASE TakePage(t, b) /\ Settle(t, b) /\ UNCHANGED promise
      <4>1. Answered(t, b, "first") /\ UNCHANGED <<cookie, token, status, shown>> /\ serverUnchanged
        BY <3>2 DEF TakePage
      <4> QED BY <1>a, <1>f, <1>h, <3>2, <4>1 DEF Waits, Settle
    <3> QED BY <1>9, <3>1, <3>2
  <2>2. \A x \in Fibers : fiber'[t][x] = IF x = b THEN "idle" ELSE fiber[t][x] BY <1>f, <2>1, AskFacts
  <2>3. StatusOfFiber(t)' BY <1>0, <1>f, <2>1, <2>2 DEF StatusOfFiber, Waits, Has
  <2> QED BY <1>0, <1>2, <1>f, <2>1, <2>3 DEF Stages, Waits
<1>10. ASSUME NEW b \in Pages, TakePage(t, b) PROVE AnyClient /\ BrowserOK'
  <2>1. /\ Waits(t, b, "first") /\ At(<<t, b>>, "answer") /\ Has(t, b)
        /\ UNCHANGED <<cookie, token, status, shown>> /\ serverUnchanged
    BY <1>10, <1>a, <1>f, <1>h DEF TakePage, Waits
  <2>2. status[t] # "checking" /\ status[t] # "closed"
    BY <1>0, <1>f, <2>1 DEF StatusOfFiber, Waits
  <2>3. \/ Settle(t, b) /\ UNCHANGED promise
        \/ Ask(t, b, "again", Sent("page", token[t])) /\ UNCHANGED promise
        \/ Ask(t, b, "joined", NoCall) /\ UNCHANGED promise
        \/ /\ promise[t] = Null /\ Ask(t, b, "refresh", Sent("refresh", cookie))
           /\ promise' = [promise EXCEPT ![t] = b]
    BY <1>10 DEF TakePage, MayRefresh
  <2>4. CASE Settle(t, b) /\ UNCHANGED promise BY <1>9, <1>10, <2>4
  <2>5. CASE Ask(t, b, "again", Sent("page", token[t])) /\ UNCHANGED promise
    <3>1. \A x \in Fibers : fiber'[t][x] = IF x = b THEN "again" ELSE fiber[t][x] BY <1>f, <2>5, AskFacts
    <3>2. StatusOfFiber(t)' BY <1>0, <1>f, <2>1, <2>2, <3>1 DEF StatusOfFiber, Waits, Has
    <3> DEFINE r == Sent("page", token[t])
    <3>3. r \in Requests /\ r # NoCall /\ r.op = "page" BY <1>0, <1>r
    <3>4. ~Waits(t, b, "refresh") /\ b # "session" BY <2>1 DEF Waits
    <3> HIDE DEF r
    <3> QED BY <1>0, <1>2, <1>f, <2>1, <2>5, <3>2, <3>3, <3>4 DEF Stages, r
  <2>6. CASE Ask(t, b, "joined", NoCall) /\ UNCHANGED promise
    <3>1. \A x \in Fibers : fiber'[t][x] = IF x = b THEN "joined" ELSE fiber[t][x] BY <1>f, <2>6, AskFacts
    <3>2. StatusOfFiber(t)' BY <1>0, <1>f, <2>1, <2>2, <3>1 DEF StatusOfFiber, Waits, Has
    <3> QED BY <1>0, <1>2, <1>f, <2>1, <2>6, <3>2 DEF Stages, Waits
  <2>7. CASE /\ promise[t] = Null /\ Ask(t, b, "refresh", Sent("refresh", cookie))
             /\ promise' = [promise EXCEPT ![t] = b]
    <3>1. \A u \in Tabs, x \in Fibers :
            fiber'[u][x] = IF u = t /\ x = b THEN "refresh" ELSE fiber[u][x]
      BY <1>f, <2>7, AskFacts
    <3>2. ASSUME NEW u \in Tabs PROVE StatusOfFiber(u)'
      <4>1. /\ fiber'[u]["session"] = fiber[u]["session"]
            /\ u # t => \A x \in Fibers : fiber'[u][x] = fiber[u][x]
        BY <1>f, <3>1
      <4> QED BY <1>0, <1>f, <2>1, <2>2, <4>1 DEF StatusOfFiber, Waits, Has
    <3>3. \A u \in Tabs, x \in Fibers : fiber'[u][x] = "refresh" <=> promise'[u] = x
      BY <1>0, <2>7, <3>1 DEF Waits, Fibers
    <3>4. PICK r \in Requests : r = Sent("refresh", cookie) /\ r # NoCall /\ r.op = "refresh" BY <1>0, <1>r
    <3>5. promise' \in [Tabs -> Fibers \cup {Null}] BY <1>0, <1>f, <2>7
    <3>6. Ask(t, b, "refresh", r) /\ b # "session" /\ b \in Fibers BY <1>f, <2>7, <3>4
    <3>7. "refresh" \in Stages BY DEF Stages
    <3>8. /\ cookie' # Null => IsA(cookie')
          /\ token' \in [Tabs -> Sessions \cup {Null}]
          /\ status' \in [Tabs -> {"closed", "checking", "authenticated", "unauthenticated"}]
          /\ shown' \in [Tabs -> Users \cup {Null}]
      BY <1>0, <2>1
    <3>9. \A u \in Tabs :
            /\ token'[u] # Null => IsA(token'[u])
            /\ StatusOfFiber(u)'
            /\ \A x \in Fibers : fiber'[u][x] = "refresh" <=> promise'[u] = x
      BY <1>0, <2>1, <3>2, <3>3
    <3> QED BY <2>1, <3>4, <3>5, <3>6, <3>7, <3>8, <3>9, AskOK
  <2> QED BY <2>3, <2>4, <2>5, <2>6, <2>7
<1>11. ASSUME NEW b \in Fibers, TakeRefresh(t, b) \/ FailRefresh(t, b) PROVE AnyClient /\ BrowserOK'
  <2> DEFINE s == AnswerTo(t, b).got
             Ends == FailRefresh(t, b)
  <2>1. /\ Waits(t, b, "refresh") /\ At(<<t, b>>, "answer") /\ Has(t, b)
        /\ promise' = [promise EXCEPT ![t] = Null] /\ serverUnchanged
    BY <1>11, <1>a, <1>h DEF TakeRefresh, FailRefresh, Waits
  <2>2. promise[t] = b /\ \A x \in Fibers \ {b} : ~Waits(t, x, "refresh") BY <1>0, <2>1
  <2>3. /\ \A u \in Tabs, x \in Fibers :
              fiber'[u][x] = IF u = t /\ x \in GoingOn(t, b)
                             THEN IF Ends THEN "idle" ELSE IF x = "session" THEN "me" ELSE "again"
                             ELSE fiber[u][x]
        /\ fiber' \in [Tabs -> [Fibers -> Stages]]
        /\ \A c \in Calls :
             IF c[1] = t /\ c[2] \in GoingOn(t, b)
             THEN IF Ends THEN call'[c] = NoCall
                  ELSE /\ call'[c] \in Requests /\ call'[c] # NoCall
                       /\ call'[c].op = IF c[2] = "session" THEN "me" ELSE "page"
             ELSE call'[c] = call[c]
        /\ call' = [c \in Calls |-> call'[c]]
        /\ cookie' # Null => IsA(cookie')
        /\ token' \in [Tabs -> Sessions \cup {Null}]
        /\ \A u \in Tabs : token'[u] # Null => IsA(token'[u])
    <3>0. fiber \in [Tabs -> [Fibers -> Stages]] /\ call \in [Calls -> CallTypes]
      BY DEF BrowserOK, IInv, TypeOK
    <3>1. CASE TakeRefresh(t, b)
      <4> DEFINE what(x) == IF x = "session" THEN "me" ELSE "again"
                 request(x) == Sent(IF x = "session" THEN "me" ELSE "page", s)
      <4>1. /\ cookie' = s /\ token' = [token EXCEPT ![t] = s]
            /\ fiber' = [fiber EXCEPT ![t] =
                           [x \in Fibers |-> IF x \in GoingOn(t, b) THEN what(x) ELSE @[x]]]
            /\ call' = [c \in Calls |-> IF c[1] = t /\ c[2] \in GoingOn(t, b) THEN request(c[2]) ELSE call[c]]
            /\ ~Ends /\ Ok(t, b)
        BY <3>1 DEF TakeRefresh, FailRefresh
      <4>2. IsA(s)
        <5>1. <<t, b>> \in Calls /\ AnswerTo(t, b).op = "refresh"
          BY <1>0, <2>1 DEF CallOfFiber, Waits, Has
        <5> QED BY <2>1, <4>1, <5>1 DEF BrowserOK, Ok, AnswerTo
      <4>3. \A x : /\ what(x) \in Stages /\ request(x) \in Requests /\ request(x) # NoCall
                   /\ request(x).op = IF x = "session" THEN "me" ELSE "page"
        BY <1>r, <4>2 DEF Stages
      <4>4. /\ \A u \in Tabs, x \in Fibers :
                 fiber'[u][x] = IF u = t /\ x \in GoingOn(t, b) THEN what(x) ELSE fiber[u][x]
            /\ fiber' \in [Tabs -> [Fibers -> Stages]]
        BY <3>0, <4>1, <4>3
      <4>5. /\ \A c \in Calls :
                 IF c[1] = t /\ c[2] \in GoingOn(t, b)
                 THEN /\ call'[c] \in Requests /\ call'[c] # NoCall
                      /\ call'[c].op = IF c[2] = "session" THEN "me" ELSE "page"
                 ELSE call'[c] = call[c]
            /\ call' = [c \in Calls |-> call'[c]]
        <5> HIDE DEF request
        <5> QED BY <4>1, <4>3
      <4>6. /\ cookie' # Null => IsA(cookie')
            /\ token' \in [Tabs -> Sessions \cup {Null}]
            /\ \A u \in Tabs : token'[u] # Null => IsA(token'[u])
        BY <1>0, <1>s, <4>1, <4>2
      <4>7. ~Ends BY <4>1
      <4> HIDE DEF Ends
      <4> QED BY <4>4, <4>5, <4>6, <4>7
    <3>2. CASE FailRefresh(t, b)
      <4>1. /\ UNCHANGED cookie /\ token' = [token EXCEPT ![t] = Null] /\ Ends
            /\ fiber' = [fiber EXCEPT ![t] =
                           [x \in Fibers |-> IF x \in GoingOn(t, b) THEN "idle" ELSE @[x]]]
            /\ call' = [call EXCEPT ![<<t, b>>] = NoCall]
        BY <3>2 DEF FailRefresh
      <4>2. /\ \A u \in Tabs, x \in Fibers :
                 fiber'[u][x] = IF u = t /\ x \in GoingOn(t, b) THEN "idle" ELSE fiber[u][x]
            /\ fiber' \in [Tabs -> [Fibers -> Stages]]
        BY <3>0, <4>1 DEF Stages
      <4>3. \A x \in GoingOn(t, b) : <<t, x>> \in Calls => call'[<<t, x>>] = NoCall
        <5>1. ASSUME NEW x \in Fibers, Waits(t, x, "joined"), <<t, x>> \in Calls, x # b
              PROVE  call[<<t, x>>] = NoCall
          <6>1. At(<<t, x>>, "none") /\ call[<<t, x>>] \in CallTypes
            BY <1>0, <3>0, <5>1 DEF CallOfFiber, Waits
          <6> QED BY <6>1 DEF At, CallTypes
        <5> QED BY <3>0, <4>1, <5>1 DEF GoingOn
      <4>4. call' = [c \in Calls |-> call'[c]] BY <3>0, <4>1
      <4>5. ASSUME NEW c \in Calls
            PROVE  IF c[1] = t /\ c[2] \in GoingOn(t, b) THEN call'[c] = NoCall ELSE call'[c] = call[c]
        <5>1. c = <<c[1], c[2]>> /\ c[2] \in Fibers OBVIOUS
        <5>2. CASE c[1] = t /\ c[2] \in GoingOn(t, b) BY <4>3, <5>1, <5>2
        <5>3. CASE ~(c[1] = t /\ c[2] \in GoingOn(t, b))
          <6>1. c # <<t, b>> BY <5>3 DEF GoingOn
          <6> QED BY <3>0, <4>1, <5>3, <6>1
        <5> QED BY <5>2, <5>3
      <4>6. /\ cookie' # Null => IsA(cookie')
            /\ token' \in [Tabs -> Sessions \cup {Null}]
            /\ \A u \in Tabs : token'[u] # Null => IsA(token'[u])
        BY <1>0, <4>1
      <4>7. Ends BY <4>1
      <4> HIDE DEF Ends
      <4> QED BY <4>2, <4>4, <4>5, <4>6, <4>7
    <3> QED BY <1>11, <3>1, <3>2
  <2> HIDE DEF Ends, s
  <2>4. /\ b \in GoingOn(t, b) /\ GoingOn(t, b) \subseteq Fibers
        /\ \A x \in GoingOn(t, b) : x = b \/ Waits(t, x, "joined")
    BY DEF GoingOn
  <2>5. ASSUME NEW u \in Tabs, NEW x \in Fibers PROVE fiber'[u][x] = "refresh" <=> promise'[u] = x
    <3>1. Null \notin Fibers OBVIOUS
    <3>2. CASE u # t
      <4>1. fiber'[u][x] = fiber[u][x] /\ promise'[u] = promise[u] BY <1>0, <2>1, <2>3, <3>2
      <4> QED BY <1>0, <4>1 DEF Waits
    <3>3. CASE u = t
      <4>1. promise'[t] = Null BY <1>0, <2>1
      <4>2. fiber'[t][x] # "refresh"
        <5>1. CASE x \in GoingOn(t, b) BY <2>3, <2>4, <5>1
        <5>2. CASE x \notin GoingOn(t, b)
          <6>1. x # b /\ fiber'[t][x] = fiber[t][x] BY <2>3, <2>4, <5>2
          <6> QED BY <2>2, <6>1 DEF Waits
        <5> QED BY <5>1, <5>2
      <4> QED BY <3>1, <3>3, <4>1, <4>2
    <3> QED BY <3>2, <3>3
  <2>6. /\ \A u \in Tabs \ {t} : status'[u] = status[u]
        /\ status'[t] = IF Ends /\ b = "session" THEN "unauthenticated" ELSE status[t]
        /\ status' \in [Tabs -> {"closed", "checking", "authenticated", "unauthenticated"}]
        /\ shown' \in [Tabs -> Users \cup {Null}]
    <3>1. CASE TakeRefresh(t, b) BY <1>0, <3>1 DEF TakeRefresh, FailRefresh, Ends
    <3>2. CASE FailRefresh(t, b) BY <1>0, <3>2 DEF FailRefresh, SignedOut, Ends
    <3> QED BY <1>11, <3>1, <3>2
  <2>7. ASSUME NEW u \in Tabs PROVE StatusOfFiber(u)'
    <3>1. CASE u # t
      <4>1. status'[u] = status[u] /\ \A x \in Fibers : fiber'[u][x] = fiber[u][x] BY <2>3, <2>6, <3>1
      <4> QED BY <1>0, <1>f, <2>1, <4>1 DEF StatusOfFiber, Waits, Has
    <3>2. CASE u = t /\ b = "session"
      <4>1. \A x \in Fibers \ {b} : Waits(t, x, "idle")
        BY <1>0, <1>f, <2>1, <3>2 DEF StatusOfFiber, Waits, Fibers
      <4>2. \A x \in Fibers \ {b} : fiber'[t][x] = "idle" BY <2>3, <2>4, <4>1 DEF Waits
      <4>3. fiber'[t]["session"] = IF Ends THEN "idle" ELSE "me" BY <1>f, <2>3, <2>4, <3>2
      <4>4. status[t] = "checking" BY <1>0, <2>1, <3>2 DEF StatusOfFiber, Waits
      <4> QED BY <1>0, <1>f, <2>1, <2>6, <3>2, <4>2, <4>3, <4>4 DEF StatusOfFiber, Waits, Has, Fibers
    <3>3. CASE u = t /\ b # "session"
      <4>1. "session" \notin GoingOn(t, b)
        <5>1. fiber[t]["session"] # "joined" BY <1>0, <1>f DEF CallOfFiber
        <5> QED BY <3>3, <5>1 DEF GoingOn, Waits
      <4>2. fiber'[t]["session"] = fiber[t]["session"] /\ status'[t] = status[t]
        BY <1>f, <2>3, <2>6, <3>3, <4>1
      <4>3. status[t] # "closed" /\ status[t] # "checking"
        <5>1. fiber[t][b] = "refresh" /\ b \in Pages BY <2>1, <3>3 DEF Waits, Fibers
        <5> QED BY <1>0, <5>1 DEF StatusOfFiber, Waits
      <4> QED BY <1>0, <1>f, <2>1, <3>3, <4>2, <4>3 DEF StatusOfFiber, Waits, Has
    <3> QED BY <3>1, <3>2, <3>3
  <2>8. ASSUME NEW u \in Tabs, NEW x \in Fibers PROVE CallOfFiber(u, x)'
    <3>1. \A r \in Requests \cup {NoCall} : r.at \in {"none", "sent"} /\ (r.at = "none" <=> r = NoCall)
      BY DEF Requests, NoCall, Sent
    <3>2. CASE u = t /\ x \in GoingOn(t, b)
      <4>1. Has(t, x) BY <1>0, <2>1, <2>4, <3>2 DEF CallOfFiber, Waits
      <4>2. <<t, x>> \in Calls BY <1>0, <4>1 DEF Has
      <4>3. fiber'[t][x] = IF Ends THEN "idle" ELSE IF x = "session" THEN "me" ELSE "again"
        BY <2>3, <2>4, <3>2
      <4>4. IF Ends THEN call'[<<t, x>>] = NoCall
            ELSE /\ call'[<<t, x>>] \in Requests /\ call'[<<t, x>>] # NoCall
                 /\ call'[<<t, x>>].op = IF x = "session" THEN "me" ELSE "page"
        BY <2>3, <3>2, <4>2
      <4>5. IF Ends THEN call'[<<t, x>>].at = "none" ELSE call'[<<t, x>>].at # "none" BY <3>1, <4>4
      <4> QED BY <2>1, <3>2, <4>1, <4>3, <4>4, <4>5 DEF CallOfFiber, AnswerTo, At, Has
    <3>3. CASE ~(u = t /\ x \in GoingOn(t, b))
      <4>1. fiber'[u][x] = fiber[u][x] BY <2>3, <3>3
      <4>2. <<u, x>> \in Calls => call'[<<u, x>>] = call[<<u, x>>] BY <2>3, <3>3
      <4>3. fiber[u][x] # "idle" => <<u, x>> \in Calls BY <1>0 DEF CallOfFiber, Has
      <4> QED BY <1>0, <2>1, <4>1, <4>2, <4>3 DEF CallOfFiber, AnswerTo, At, Has
    <3> QED BY <3>2, <3>3
  <2>9. AnyClient
    <3>1. \A x \in GoingOn(t, b) : <<t, x>> \in Calls => At(<<t, x>>, "none") \/ At(<<t, x>>, "answer")
      BY <1>0, <2>1, <2>4 DEF CallOfFiber, Waits
    <3>2. \A c \in Calls : c = <<c[1], c[2]>> /\ c[2] \in Fibers BY BrowserAssumption
    <3>3. \A c \in Calls : \/ call'[c] = call[c]
                           \/ call[c].at \in {"none", "answer"} /\ call'[c] \in Requests \cup {NoCall}
      BY <2>3, <3>1, <3>2 DEF At
    <3> QED BY <2>1, <2>3, <3>3 DEF AnyClient
  <2>10. ASSUME NEW c \in Calls, At(c, "answer")', call'[c].code = "ok"
         PROVE  /\ call'[c].op \in {"login", "refresh"} => IsA(call[c].got)'
                /\ call'[c].op = "me" => call'[c].got \in Users
    <3>1. \A r \in Requests \cup {NoCall} : r.at # "answer" BY DEF Requests, NoCall, Sent
    <3>2. call'[c] = call[c] BY <2>3, <2>10, <3>1, BrowserAssumption DEF At
    <3>3. /\ call[c].op \in {"login", "refresh"} => IsA(call[c].got)
          /\ call[c].op = "me" => call[c].got \in Users
      BY <2>10, <3>2 DEF BrowserOK, At
    <3> QED BY <2>1, <3>2, <3>3 DEF IsA, Exists
  <2>11. /\ cookie' # Null => IsA(cookie)'
         /\ \A u \in Tabs : token'[u] # Null => IsA(token[u])'
    BY <2>1, <2>3 DEF IsA, Exists
  <2>12. promise' \in [Tabs -> Fibers \cup {Null}] /\ open' \subseteq Calls BY <1>0, <2>1
  <2>13. fiber' \in [Tabs -> [Fibers -> Stages]] /\ token' \in [Tabs -> Sessions \cup {Null}] BY <2>3
  <2>14. \A u \in Tabs, x \in Fibers : Waits(u, x, "refresh")' <=> promise'[u] = x BY <2>5 DEF Waits
  <2>15. BrowserOK' BY <2>6, <2>7, <2>8, <2>10, <2>11, <2>12, <2>13, <2>14 DEF BrowserOK
  <2> QED BY <2>9, <2>15
<1> QED
  BY <1>1, <1>3, <1>4, <1>5, <1>6, <1>7, <1>8, <1>9, <1>10, <1>11 DEF Tab

\* The steps of WebSession are steps of the server or of its clients.
LEMMA NextOK ==
  ASSUME IInv, BrowserOK, [Next]_vars
  PROVE  [ServerNext]_server /\ IInv' /\ BrowserOK' /\ Grow
<1>1. ASSUME NEW t \in Tabs, Tab(t) PROVE [ServerNext]_server /\ BrowserOK'
  BY <1>1, TabStepOK DEF ServerNext
<1>2. ASSUME (\E c \in Calls : Handle(c)) \/ Surroundings, UNCHANGED browser
      PROVE  [ServerNext]_server /\ BrowserOK'
  <2>1. ServerNext BY <1>2 DEF ServerNext
  <2>2. Grow BY <2>1, ServerGrows
  <2> QED BY <1>2, <2>1, <2>2, ServerStepOK
<1>3. ASSUME UNCHANGED vars PROVE [ServerNext]_server /\ BrowserOK'
  <2>1. UNCHANGED server /\ UNCHANGED browser BY <1>3 DEF vars
  <2> QED
    BY <2>1
       DEF server, browser, BrowserOK, IsA, Exists, StatusOfFiber, CallOfFiber, Waits, Has, At, AnswerTo
<1>4. [ServerNext]_server /\ BrowserOK' BY <1>1, <1>2, <1>3 DEF Next
<1> QED BY <1>4, NextInv, ServerGrows

LEMMA WebInitOK == Init => IInv /\ BrowserOK /\ ServerInit
<1> SUFFICES ASSUME Init PROVE IInv /\ BrowserOK /\ ServerInit
  OBVIOUS
<1> USE BrowserAssumption DEF Init
<1>1. ServerInit /\ IInv BY InitInv
<1>2. \A c \in Calls : call[c].at = "none" BY <1>1 DEF ServerInit, NoCall
<1>3. open \subseteq Calls
  <2>1. PICK x \in Scenarios : open = x.calls OBVIOUS
  <2> QED BY <2>1
<1>4. \A t \in Tabs : StatusOfFiber(t) BY DEF StatusOfFiber, Waits, Fibers
<1>5. \A t \in Tabs, b \in Fibers : CallOfFiber(t, b) /\ (Waits(t, b, "refresh") <=> promise[t] = b)
  BY <1>2 DEF CallOfFiber, Waits, At
<1>6. BrowserOK BY <1>2, <1>3, <1>4, <1>5 DEF BrowserOK, At, Stages
<1> QED BY <1>1, <1>6

\* The browser keeps what the server promises its clients.
THEOREM BrowserIsAClient == Spec => ServerSpec
<1>1. IInv /\ BrowserOK /\ [Next]_vars => [ServerNext]_server /\ (IInv /\ BrowserOK)' BY NextOK
<1> QED BY <1>1, WebInitOK, PTL DEF Spec, ServerSpec

-----------------------------------------------------------------------------
(* One tab, and nothing lost                                               *)

\* A call that is under way is waited for by one fiber, of an open tab.
LEMMA WhoseCall ==
  ASSUME IInv, BrowserOK, NEW c \in Calls, ~At(c, "none")
  PROVE  \E t \in Tabs, b \in Fibers :
           /\ c = <<t, b>> /\ status[t] # "closed" /\ call[c].op \in {"login", "refresh", "logout", "me", "page"}
           /\ call[c].op = "refresh" => Waits(t, b, "refresh") /\ promise[t] = b
           /\ call[c].op \in {"login", "me", "logout"} => b = "session" /\ Waits(t, b, call[c].op)
           /\ call[c].op = "page" => b \in Pages
<1>1. PICK t \in Tabs, b \in Fibers : c = <<t, b>> BY BrowserAssumption
<1>2. /\ CallOfFiber(t, b) /\ StatusOfFiber(t) /\ fiber[t][b] \in Stages
      /\ Waits(t, b, "refresh") <=> promise[t] = b
  BY DEF BrowserOK
<1>3. fiber[t][b] \notin {"idle", "joined"} BY <1>1, <1>2 DEF CallOfFiber
<1>4. status[t] # "closed" BY <1>2, <1>3 DEF StatusOfFiber, Waits
<1> QED BY <1>1, <1>2, <1>3, <1>4 DEF CallOfFiber, AnswerTo, Waits, Stages, Fibers

\* What a tab holds is a session that exists.
LEMMA HeldIs == 
  ASSUME IInv, BrowserOK, NEW t \in Tabs, NEW s \in Sessions, Holds(t, s)
  PROVE  Exists(s)
<1>1. CASE s = cookie \/ s = token[t] BY <1>1, SessionsAssumption DEF BrowserOK, IsA
<1>2. ASSUME NEW b \in Fibers, Waits(t, b, "refresh"), InHand(<<t, b>>, s) PROVE Exists(s)
  <2>1. <<t, b>> \in Calls /\ ~At(<<t, b>>, "none") /\ call[<<t, b>>].op = "refresh"
    BY <1>2 DEF BrowserOK, CallOfFiber, Waits, Has, AnswerTo
  <2>2. CASE At(<<t, b>>, "answer") BY <1>2, <2>1, <2>2 DEF BrowserOK, InHand, IsA
  <2>3. CASE ~At(<<t, b>>, "answer") BY <1>2, <2>1, <2>3 DEF IInv, HeldExists, InHand
  <2> QED BY <2>2, <2>3
<1> QED BY <1>1, <1>2 DEF Holds

\* A family that is over stays over.
LEMMA HarmlessKept ==
  ASSUME Grow, abandoned \subseteq abandoned', NEW s \in Sessions, Exists(s), Harmless(s)
  PROVE  Harmless(s)'
  BY DEF Grow, Harmless

\* The server's part of a call, for a refresh and for the session fiber.
LEMMA HandleMore ==
  ASSUME IInv, NEW c \in Calls, Handle(c), ~lost'
  PROVE  \E x : /\ call' = [call EXCEPT ![c] = x]
                /\ ~At(c, "answer")
                /\ x.at # "answer" => x.with = call[c].with
                /\ x.at = "answer" /\ call[c].op = "refresh" =>
                     \/ x.code = "ok" /\ x.got \in Sessions /\ Rotate(c, x.got)
                     \/ x.code # "ok" /\ (call[c].with = Null \/ RevokeTargets(c))
                /\ x.at = "answer" /\ call[c].op = "logout" => call[c].with = Null \/ RevokeTargets(c)
                /\ x.at = "answer" /\ call[c].op = "me" /\ x.code = "ok" =>
                     call[c].with \in Sessions /\ x.got = session[call[c].with].user
<1> DEFINE Goal == \E x :
             /\ call' = [call EXCEPT ![c] = x]
             /\ ~At(c, "answer")
             /\ x.at # "answer" => x.with = call[c].with
             /\ x.at = "answer" /\ call[c].op = "refresh" =>
                  \/ x.code = "ok" /\ x.got \in Sessions /\ Rotate(c, x.got)
                  \/ x.code # "ok" /\ (call[c].with = Null \/ RevokeTargets(c))
             /\ x.at = "answer" /\ call[c].op = "logout" => call[c].with = Null \/ RevokeTargets(c)
             /\ x.at = "answer" /\ call[c].op = "me" /\ x.code = "ok" =>
                  call[c].with \in Sessions /\ x.got = session[call[c].with].user
<1>0. call \in [Calls -> CallTypes] BY DEF IInv, TypeOK
<1>1. ASSUME NEW code, NEW got, Reply(c, code, got), ~At(c, "answer"),
             call[c].op = "refresh" =>
               \/ code = "ok" /\ got \in Sessions /\ Rotate(c, got)
               \/ code # "ok" /\ (call[c].with = Null \/ RevokeTargets(c)),
             call[c].op = "logout" => call[c].with = Null \/ RevokeTargets(c),
             call[c].op = "me" /\ code = "ok" =>
               call[c].with \in Sessions /\ got = session[call[c].with].user
      PROVE  Goal
  <2>0. PICK x : x = Answer(call[c].op, Asked(c), code, got) OBVIOUS
  <2>1. call' = [call EXCEPT ![c] = x] BY <1>0, <1>1, <2>0 DEF Reply
  <2>2. x.at = "answer" /\ x.op = call[c].op /\ x.code = code /\ x.got = got BY <2>0 DEF Answer
  <2>3. x.got \in Sessions /\ Rotate(c, got) => Rotate(c, x.got) BY <2>2
  <2> QED BY <1>1, <2>1, <2>2, <2>3
<1>2. ASSUME NEW x, call' = [call EXCEPT ![c] = x], ~At(c, "answer"),
             x.at # "answer", x.with = call[c].with
      PROVE  Goal
  BY <1>2
<1> HIDE DEF Goal
<1>3. ASSUME NEW reason, Revoke(c, reason), ~At(c, "answer") PROVE Goal
  <2>0. PICK x : x = [at |-> "revoke", op |-> call[c].op, with |-> call[c].with, reason |-> reason] OBVIOUS
  <2>1. call' = [call EXCEPT ![c] = x] BY <1>0, <1>3, <2>0 DEF Revoke
  <2>2. x.at # "answer" /\ x.with = call[c].with BY <2>0
  <2> QED BY <1>2, <1>3, <2>1, <2>2
<1>4. ASSUME NEW s \in Sessions, Login(c, s) PROVE Goal BY <1>1, <1>4 DEF Login, At
<1>5. ASSUME NEW s \in Sessions, Rotate(c, s) PROVE Goal
  <2>1. Reply(c, "ok", s) /\ ~At(c, "answer") BY <1>5 DEF Rotate, At
  <2>2. call[c].op = "refresh" BY <1>0, <1>5 DEF Rotate, At, CallTypes, NoCall
  <2>3. call[c].op = "refresh" => \/ "ok" = "ok" /\ s \in Sessions /\ Rotate(c, s)
                                  \/ "ok" # "ok" /\ (call[c].with = Null \/ RevokeTargets(c))
    BY <1>5
  <2>4. call[c].op # "logout" /\ call[c].op # "me" BY <2>2
  <2> QED BY <1>1, <2>1, <2>3, <2>4
<1>6. ASSUME FindSession(c) PROVE Goal
  <2> DEFINE s == call[c].with
  <2>1. ~At(c, "answer") /\ call[c].op \in {"refresh", "logout"} BY <1>6 DEF FindSession, At
  <2>2. \/ s = Null /\ Reply(c, IF call[c].op = "logout" THEN "ok" ELSE "refused", Null)
        \/ \E reason : Revoke(c, reason)
        \/ call' = [call EXCEPT ![c] = [at |-> "rotate", op |-> "refresh", with |-> s]]
    BY <1>6, <2>1, Zenon DEF FindSession
  <2>3. CASE s = Null /\ Reply(c, IF call[c].op = "logout" THEN "ok" ELSE "refused", Null)
    <3>1. CASE call[c].op = "logout" BY <1>1, <2>1, <2>3, <3>1
    <3>2. CASE call[c].op = "refresh"
      <4>1. Reply(c, "refused", Null) BY <2>3, <3>2
      <4> QED BY <1>1, <2>1, <2>3, <3>2, <4>1
    <3> QED BY <2>1, <3>1, <3>2
  <2>4. CASE call' = [call EXCEPT ![c] = [at |-> "rotate", op |-> "refresh", with |-> s]]
    <3>1. PICK x : x = [at |-> "rotate", op |-> "refresh", with |-> s] OBVIOUS
    <3>2. x.at # "answer" /\ x.with = call[c].with /\ call' = [call EXCEPT ![c] = x] BY <2>4, <3>1
    <3> QED BY <1>2, <2>1, <3>2
  <2> QED BY <1>3, <2>1, <2>2, <2>3, <2>4
<1>7. ASSUME FindTargets(c) PROVE Goal
  <2>1. PICK x : x = [at |-> "update", op |-> call[c].op, with |-> call[c].with, targets |-> Targets(c)] OBVIOUS
  <2>2. call' = [call EXCEPT ![c] = x] /\ ~At(c, "answer") BY <1>0, <1>7, <2>1 DEF FindTargets, At
  <2>3. x.at # "answer" /\ x.with = call[c].with BY <2>1
  <2> QED BY <1>2, <2>2, <2>3
<1>8. ASSUME RevokeTargets(c) PROVE Goal
  <2>1. call[c].op \in {"refresh", "logout"} /\ ~At(c, "answer")
    BY <1>0, <1>8 DEF RevokeTargets, At, CallTypes, NoCall
  <2>2. Reply(c, IF call[c].op = "logout" THEN "ok" ELSE "refused", Null) BY <1>8 DEF RevokeTargets
  <2> QED BY <1>1, <1>8, <2>1, <2>2
<1>9. ASSUME Serve(c) PROVE Goal
  <2>1. call[c] \in CallTypes /\ call[c].at = "sent" /\ call[c].op \in {"me", "page"} /\ call[c].with # Null
    BY <1>0, <1>9 DEF Serve, Valid, At
  <2>2. call[c].with \in Sessions BY <2>1 DEF CallTypes, NoCall
  <2>3. \/ Reply(c, "ok", session[call[c].with].user)
        \/ call[c].op # "me" /\ Reply(c, "forbidden", Null)
    BY <1>9 DEF Serve
  <2> QED BY <1>1, <2>1, <2>2, <2>3 DEF At
<1>10. ASSUME RefuseLogin(c) \/ RefuseBearer(c) PROVE Goal
  <2>1. Reply(c, "refused", Null) /\ ~At(c, "answer") /\ call[c].op \in {"login", "me", "page"}
    BY <1>10 DEF RefuseLogin, RefuseBearer, At
  <2> QED BY <1>1, <2>1
<1>11. ASSUME RotationConflict(c) PROVE Goal BY <1>3, <1>11 DEF RotationConflict, At
<1>12. ASSUME Lose(c) PROVE FALSE BY <1>12 DEF Lose
<1>13. Goal BY <1>4, <1>5, <1>6, <1>7, <1>8, <1>9, <1>10, <1>11, <1>12 DEF Handle
<1> QED BY <1>13 DEF Goal

\* A step of the server that leaves the session fiber's call alone, or moves
\* it on, keeps who a tab's sessions belong to.
LEMMA ProperKept ==
  ASSUME IInv, BrowserOK, Grow, UNCHANGED browser, NEW t \in Tabs, NEW s \in Sessions, Exists(s),
         Proper(t, s), Has(t, "session"), call'[<<t, "session">>] = call[<<t, "session">>]
  PROVE  Proper(t, s)'
<1> USE DEF browser
<1> DEFINE c == <<t, "session">>
<1>0. c \in Calls /\ CallOfFiber(t, "session") BY DEF BrowserOK, Has, Fibers
<1>1. FamilyOf(s)' = FamilyOf(s) /\ session'[s].user = session[s].user BY DEF Grow
<1>2. cookie # Null => FamilyOf(cookie)' = FamilyOf(cookie) BY DEF BrowserOK, IsA, Grow
<1>3. Waits(t, "session", "me") \/ Waits(t, "session", "logout") =>
        ~At(c, "none") /\ call[c].op \in {"me", "logout"}
  BY <1>0 DEF CallOfFiber, Waits, AnswerTo
<1>4. ASSUME Waits(t, "session", "me") \/ Waits(t, "session", "logout"), ~At(c, "answer"), call[c].with # Null
      PROVE  /\ session'[call[c].with].user = session[call[c].with].user
             /\ FamilyOf(call[c].with)' = FamilyOf(call[c].with)
  <2>1. call[c] \in CallTypes /\ call[c].at \notin {"none", "answer"} /\ call[c].op \in {"me", "logout"}
    BY <1>0, <1>3, <1>4 DEF At, IInv, TypeOK
  <2>2. call[c].with \in Sessions BY <1>4, <2>1 DEF CallTypes, NoCall
  <2>3. Exists(call[c].with) BY <1>0, <1>3, <1>4, <2>2 DEF IInv, HeldExists
  <2>4. call'[c] = call[c] OBVIOUS
  <2>5. FamilyOf(call[c].with)' = session'[call[c].with].family BY <2>4 DEF FamilyOf
  <2>6. \A q \in Sessions : Exists(q) => session'[q].family = session[q].family BY DEF Grow, FamilyOf
  <2> QED BY <2>2, <2>3, <2>5, <2>6 DEF Grow, FamilyOf
<1>5. /\ Waits(t, "session", "me")' <=> Waits(t, "session", "me")
      /\ Waits(t, "session", "logout")' <=> Waits(t, "session", "logout")
      /\ Waits(t, "session", "idle")' <=> Waits(t, "session", "idle")
      /\ Waits(t, "session", "refresh")' <=> Waits(t, "session", "refresh")
      /\ At(c, "answer")' <=> At(c, "answer")
      /\ Ok(t, "session")' <=> Ok(t, "session")
  BY DEF Waits, At, Ok, AnswerTo
<1>6. CASE status[t] = "checking" /\ Waits(t, "session", "refresh") BY <1>5, <1>6 DEF Proper
<1>7. CASE /\ Waits(t, "session", "me") /\ cookie # Null /\ FamilyOf(s) = FamilyOf(cookie)
           /\ IF At(c, "answer") THEN Ok(t, "session") => session[s].user = call[c].got
                                 ELSE call[c].with # Null /\ session[s].user = session[call[c].with].user
  BY <1>1, <1>2, <1>4, <1>5, <1>7 DEF Proper
<1>8. CASE /\ status[t] = "authenticated" /\ Waits(t, "session", "idle")
           /\ cookie # Null /\ FamilyOf(s) = FamilyOf(cookie) /\ session[s].user = shown[t]
  BY <1>1, <1>2, <1>5, <1>8 DEF Proper
<1>9. CASE /\ Waits(t, "session", "logout") /\ ~At(c, "answer") /\ call[c].with # Null
           /\ FamilyOf(s) = FamilyOf(call[c].with) /\ session[s].user = shown[t]
  BY <1>1, <1>4, <1>5, <1>9 DEF Proper
<1> QED BY <1>6, <1>7, <1>8, <1>9 DEF Proper

\* What Handle does to what a tab may have.
LEMMA ProperHandled ==
  ASSUME IInv, BrowserOK, Grow, UNCHANGED browser, ~lost', NEW t \in Tabs, status[t] # "closed",
         NEW c \in Calls, Handle(c), NEW s \in Sessions, Exists(s), Proper(t, s)
  PROVE  Proper(t, s)' \/ Harmless(s)'
<1> USE DEF browser
<1>0. /\ <<t, "session">> \in Calls /\ CallOfFiber(t, "session") /\ StatusOfFiber(t) /\ Has(t, "session")
      /\ fiber[t]["session"] \in Stages /\ call \in [Calls -> CallTypes]
  BY DEF BrowserOK, StatusOfFiber, Has, Fibers, IInv, TypeOK
<1>1. PICK x : /\ call' = [call EXCEPT ![c] = x]
               /\ ~At(c, "answer")
               /\ x.at # "answer" => x.with = call[c].with
               /\ x.at = "answer" /\ call[c].op = "logout" => call[c].with = Null \/ RevokeTargets(c)
               /\ x.at = "answer" /\ call[c].op = "me" /\ x.code = "ok" =>
                    call[c].with \in Sessions /\ x.got = session[call[c].with].user
  BY HandleMore
<1>2. ~At(c, "none") BY HandleCall
<1>3. CASE c # <<t, "session">>
  <2>1. call'[<<t, "session">>] = call[<<t, "session">>] BY <1>0, <1>1, <1>3
  <2> QED BY <1>0, <2>1, ProperKept
<1>4. CASE c = <<t, "session">>
  <2>0. call'[c] = x BY <1>0, <1>1
  <2>1. FamilyOf(s)' = FamilyOf(s) /\ session'[s].user = session[s].user BY DEF Grow
  <2>2. cookie # Null => FamilyOf(cookie)' = FamilyOf(cookie) BY DEF BrowserOK, IsA, Grow
  <2>3. call[c].op = fiber[t]["session"] \/ fiber[t]["session"] \in {"idle", "joined", "first", "again"}
    BY <1>0, <1>4 DEF CallOfFiber, AnswerTo, Stages
  <2>4. fiber[t]["session"] \in {"refresh", "login", "me", "logout"}
    BY <1>0, <1>2, <1>4 DEF CallOfFiber, Waits
  <2>5. ~Ok(t, "session")' \/ call'[c].code = "ok" BY <1>4 DEF Ok, AnswerTo
  <2>6. call[c].with \in Sessions =>
          /\ session'[call[c].with].user = session[call[c].with].user
          /\ session'[call[c].with].family = session[call[c].with].family
    <3>1. call[c].with \in Sessions => Exists(call[c].with) BY <1>2 DEF IInv, HeldExists
    <3>2. \A q \in Sessions : Exists(q) => session'[q].family = session[q].family BY DEF Grow, FamilyOf
    <3> QED BY <3>1, <3>2 DEF Grow
  <2>7. call[c].op \in {"me", "logout"} => call[c].with \in Sessions \cup {Null}
    <3>1. call[c] \in CallTypes /\ call[c].at \notin {"none", "answer"} BY <1>0, <1>1, <1>2 DEF At
    <3> QED BY <3>1 DEF CallTypes, NoCall
  <2>8. CASE fiber[t]["session"] = "refresh" BY <1>0, <2>8 DEF Proper, StatusOfFiber, Waits
  <2>9. CASE fiber[t]["session"] = "login" BY <1>0, <2>9 DEF Proper, StatusOfFiber, Waits
  <2>10. CASE fiber[t]["session"] = "me"
    <3>1. /\ cookie # Null /\ FamilyOf(s) = FamilyOf(cookie)
          /\ call[c].with # Null /\ session[s].user = session[call[c].with].user
      BY <1>0, <1>1, <1>4, <2>10 DEF Proper, StatusOfFiber, Waits
    <3>2. call[c].op = "me" /\ call[c].with \in Sessions BY <2>3, <2>7, <2>10, <3>1
    <3>3. CASE x.at = "answer"
      <4>1. Ok(t, "session")' => session'[s].user = call'[c].got BY <1>1, <2>0, <2>1, <2>5, <3>1, <3>2, <3>3
      <4>2. At(<<t, "session">>, "answer")' BY <1>4, <2>0, <3>3 DEF At
      <4> QED BY <1>4, <2>1, <2>2, <2>10, <3>1, <4>1, <4>2 DEF Proper, Waits
    <3>4. CASE x.at # "answer"
      <4>1. call'[c].with = call[c].with BY <1>1, <2>0, <3>4
      <4>2. session'[s].user = session'[call'[c].with].user BY <2>1, <2>6, <3>1, <3>2, <4>1
      <4>3. ~At(<<t, "session">>, "answer")' BY <1>4, <2>0, <3>4 DEF At
      <4> QED BY <1>4, <2>1, <2>2, <2>10, <3>1, <4>1, <4>2, <4>3 DEF Proper, Waits
    <3> QED BY <3>3, <3>4
  <2>11. CASE fiber[t]["session"] = "logout"
    <3>1. /\ call[c].with # Null /\ FamilyOf(s) = FamilyOf(call[c].with) /\ session[s].user = shown[t]
      BY <1>0, <1>1, <1>4, <2>11 DEF Proper, StatusOfFiber, Waits
    <3>2. call[c].op = "logout" /\ call[c].with \in Sessions BY <2>3, <2>7, <2>11, <3>1
    <3>3. CASE x.at = "answer"
      <4>1. RevokeTargets(c) BY <1>1, <3>1, <3>2, <3>3
      <4>2. FamilyOf(s) \in ended' BY <3>1, <4>1 DEF RevokeTargets
      <4> QED BY <2>1, <4>2 DEF Harmless
    <3>4. CASE x.at # "answer"
      <4>1. call'[c].with = call[c].with BY <1>1, <2>0, <3>4
      <4>2. FamilyOf(s)' = session'[call'[c].with].family
        BY <2>1, <2>6, <3>1, <3>2, <4>1 DEF FamilyOf
      <4>3. ~At(<<t, "session">>, "answer")' BY <1>4, <2>0, <3>4 DEF At
      <4> QED BY <1>4, <2>1, <2>11, <3>1, <4>1, <4>2, <4>3 DEF Proper, Waits, FamilyOf
    <3> QED BY <3>3, <3>4
  <2> QED BY <2>4, <2>8, <2>9, <2>10, <2>11
<1> QED BY <1>3, <1>4

LEMMA HarmlessAll ==
  ASSUME IInv, BrowserOK, Grow, UNCHANGED browser
  PROVE  /\ \A s \in Sessions : Exists(s) /\ Harmless(s) => Harmless(s)'
         /\ cookie # Null /\ Harmless(cookie) => Harmless(cookie)'
<1>1. abandoned \subseteq abandoned' /\ cookie' = cookie BY DEF browser
<1>2. \A s \in Sessions : Exists(s) /\ Harmless(s) => Harmless(s)' BY <1>1, HarmlessKept
<1>3. cookie # Null => cookie \in Sessions /\ Exists(cookie) BY DEF BrowserOK, IsA
<1>4. cookie # Null /\ Harmless(cookie) => Harmless(cookie)'
  BY <1>1, <1>3 DEF Grow, Harmless
<1> QED BY <1>2, <1>4

\* What the one tab holds stays of one family while the server works.
LEMMA OneFamilyServer ==
  ASSUME IInv, BrowserOK, Grow, UNCHANGED browser, ~lost', OneTab,
         (\E c \in Calls : Handle(c)) \/ Surroundings, NEW t \in Tabs, status[t] # "closed", OneFamily(t)
  PROVE  OneFamily(t)'
<1> USE DEF browser
<1>0. /\ <<t, "session">> \in Calls /\ CallOfFiber(t, "session") /\ Has(t, "session")
      /\ call \in [Calls -> CallTypes]
  BY DEF BrowserOK, StatusOfFiber, Has, Fibers, IInv, TypeOK
<1>1. CASE Surroundings
  <2>1. call' = call BY <1>1 DEF Surroundings, Expire, DisableUser
  <2>2. \A s : Holds(t, s)' <=> Holds(t, s) BY <2>1 DEF Holds, InHand, Waits, At
  <2>3. ASSUME NEW s \in Sessions, Holds(t, s)' PROVE Harmless(s)' \/ Proper(t, s)'
    <3>1. Exists(s) /\ (Harmless(s) \/ Proper(t, s)) BY <2>2, <2>3, HeldIs DEF OneFamily
    <3> QED BY <1>0, <2>1, <3>1, ProperKept, HarmlessAll
  <2>4. Bootstrap(t)' BY <2>1, HarmlessAll DEF OneFamily, Bootstrap, Waits, At, Ok, AnswerTo
  <2> QED BY <2>3, <2>4 DEF OneFamily
<1>2. ASSUME NEW c \in Calls, Handle(c) PROVE OneFamily(t)'
  <2>1. PICK x : /\ call' = [call EXCEPT ![c] = x]
                 /\ ~At(c, "answer")
                 /\ x.at # "answer" => x.with = call[c].with
                 /\ x.at = "answer" /\ call[c].op = "refresh" =>
                      \/ x.code = "ok" /\ x.got \in Sessions /\ Rotate(c, x.got)
                      \/ x.code # "ok" /\ (call[c].with = Null \/ RevokeTargets(c))
    BY <1>2, HandleMore
  <2>2. ~At(c, "none") BY <1>2, HandleCall
  <2>3. call'[c] = x /\ \A d \in Calls \ {c} : call'[d] = call[d] BY <1>0, <2>1
  <2>4. PICK u \in Tabs, b \in Fibers :
           /\ c = <<u, b>> /\ status[u] # "closed" /\ call[c].op \in {"login", "refresh", "logout", "me", "page"}
           /\ call[c].op = "refresh" => Waits(u, b, "refresh")
    BY <2>2, WhoseCall
  <2>5. u = t BY <2>4 DEF OneTab
  <2>6. ASSUME NEW d \in Calls, ~At(d, "none"), NEW b2 \in Fibers, d = <<t, b2>>, Waits(t, b2, "refresh")
        PROVE  call[d].op = "refresh"
    BY <2>6 DEF BrowserOK, CallOfFiber, AnswerTo, Waits
  <2>7. \A b2 \in Fibers : Waits(t, b2, "refresh") => <<t, b2>> \in Calls /\ ~At(<<t, b2>>, "none")
    BY DEF BrowserOK, CallOfFiber, Waits, Has
  <2>8. ASSUME NEW s \in Sessions, Holds(t, s)' PROVE Holds(t, s) \/ Rotate(c, s)
    <3>1. CASE s = cookie \/ s = token[t] BY <3>1 DEF Holds
    <3>2. ASSUME NEW b2 \in Fibers, Waits(t, b2, "refresh"), InHand(<<t, b2>>, s)'
          PROVE  Holds(t, s) \/ Rotate(c, s)
      <4>1. CASE <<t, b2>> # c
        <5>1. InHand(<<t, b2>>, s) BY <2>3, <2>7, <3>2, <4>1 DEF InHand, At
        <5> QED BY <3>2, <5>1 DEF Holds
      <4>2. CASE <<t, b2>> = c
        <5>1. call[c].op = "refresh" BY <2>2, <2>6, <3>2, <4>2
        <5>2. CASE x.at = "answer"
          <6>1. x.code = "ok" /\ x.got = s BY <2>3, <3>2, <4>2, <5>2 DEF InHand, At
          <6> QED BY <2>1, <5>1, <5>2, <6>1
        <5>3. CASE x.at # "answer"
          <6>1. call[c].with = s BY <2>1, <2>3, <3>2, <4>2, <5>3 DEF InHand, At
          <6> QED BY <2>1, <3>2, <4>2, <6>1 DEF InHand, Holds
        <5> QED BY <5>2, <5>3
      <4> QED BY <4>1, <4>2
    <3> QED BY <2>8, <3>1, <3>2 DEF Holds, Waits
  <2>9. ASSUME NEW s \in Sessions, Holds(t, s)' PROVE Harmless(s)' \/ Proper(t, s)'
    <3>1. CASE Holds(t, s)
      <4>1. Exists(s) /\ (Harmless(s) \/ Proper(t, s)) BY <3>1, HeldIs DEF OneFamily
      <4> QED BY <1>2, <4>1, ProperHandled, HarmlessAll
    <3>2. CASE Rotate(c, s)
      <4> DEFINE w == call[c].with
      <4>1. call[c].op = "refresh" /\ At(c, "rotate") /\ w \in Sessions
        BY <1>0, <3>2 DEF Rotate, At, CallTypes, NoCall
      <4>2. Holds(t, w) BY <2>1, <2>4, <2>5, <4>1 DEF Holds, InHand
      <4>3. Exists(w) /\ ~Exists(s) /\ (Harmless(w) \/ Proper(t, w)) BY <3>2, <4>1, <4>2, HeldIs DEF OneFamily, Rotate, Free
      <4>4. session' = [session EXCEPT ![w].revoked = TRUE, ![s] = Row(session[w].user, FamilyOf(w))]
        BY <3>2 DEF Rotate, Rotated
      <4>5. session'[s] = Row(session[w].user, FamilyOf(w)) BY <4>1, <4>3, <4>4 DEF IInv, TypeOK
      <4>6. FamilyOf(s)' = FamilyOf(w) /\ session'[s].user = session[w].user
        BY <4>5 DEF Row, FamilyOf
      <4>7. FamilyOf(w) = session'[w].family /\ session'[w].user = session[w].user
        BY <4>1, <4>3 DEF Grow, FamilyOf
      <4>8. Harmless(w) => Harmless(s)' BY <4>6 DEF Grow, Harmless
      <4>9. ASSUME Proper(t, w) PROVE Harmless(s)' \/ Proper(t, s)'
        <5>1. \A q \in Sessions : Exists(q) /\ Proper(t, q) => Proper(t, q)' \/ Harmless(q)'
          BY <1>2, ProperHandled
        <5>2. PICK q \in Sessions : q = w BY <4>1
        <5>3. Proper(t, q)' \/ Harmless(q)' BY <4>3, <4>9, <5>1, <5>2
        <5>4. session'[q].family = session'[s].family /\ session'[q].user = session'[s].user
          BY <4>6, <4>7, <5>2 DEF FamilyOf
        <5>5. Harmless(q)' => Harmless(s)' BY <5>4 DEF Harmless, FamilyOf
        <5>6. Proper(t, q)' => Proper(t, s)' BY <5>4 DEF Proper, FamilyOf
        <5> QED BY <5>3, <5>5, <5>6
      <4> QED BY <4>3, <4>8, <4>9
    <3> QED BY <2>8, <2>9, <3>1, <3>2
  <2>10. Bootstrap(t)'
    <3> SUFFICES ASSUME Waits(t, "session", "refresh")
                 PROVE  IF At(<<t, "session">>, "answer")' THEN Ok(t, "session")' \/ cookie = Null \/ Harmless(cookie)'
                        ELSE call'[<<t, "session">>].with = cookie
      BY DEF Bootstrap, Waits
    <3>1. CASE c # <<t, "session">>
      BY <1>0, <2>3, <3>1, HarmlessAll DEF OneFamily, Bootstrap, At, Ok, AnswerTo
    <3>2. CASE c = <<t, "session">>
      <4>1. call[c].with = cookie BY <2>1, <3>2 DEF OneFamily, Bootstrap
      <4>2. call[c].op = "refresh" BY <2>2, <2>6, <3>2 DEF Fibers
      <4>3. CASE x.at # "answer" BY <2>1, <2>3, <3>2, <4>1, <4>3 DEF At
      <4>4. CASE x.at = "answer" /\ x.code = "ok" BY <2>3, <3>2, <4>4 DEF At, Ok, AnswerTo
      <4>5. CASE x.at = "answer" /\ x.code # "ok"
        <5>1. cookie = Null \/ RevokeTargets(c) BY <2>1, <4>1, <4>2, <4>5
        <5>2. RevokeTargets(c) => FamilyOf(cookie) \in ended' BY <4>1 DEF RevokeTargets
        <5>3. cookie # Null => FamilyOf(cookie)' = FamilyOf(cookie) BY DEF BrowserOK, IsA, Grow
        <5>4. cookie = Null \/ Harmless(cookie)' BY <5>1, <5>2, <5>3 DEF Harmless
        <5> QED BY <2>3, <3>2, <4>5, <5>4 DEF At
      <4> QED BY <4>3, <4>4, <4>5
    <3> QED BY <3>1, <3>2
  <2> QED BY <2>9, <2>10 DEF OneFamily
<1> QED BY <1>1, <1>2

\* A revocation under way is of one family.
LEMMA TargetsKept ==
  ASSUME IInv, [ServerNext]_server, TargetsOfFamily
  PROVE  TargetsOfFamily'
<1> USE SessionsAssumption
<1>0. Grow /\ call \in [Calls -> CallTypes] BY ServerGrows DEF IInv, TypeOK
<1>1. ASSUME NEW c \in Calls, At(c, "update"), call'[c] = call[c] \/ ~At(c, "update")'
      PROVE  At(c, "update")' => \A s \in call'[c].targets : FamilyOf(s)' = FamilyOf(call[c].with)'
  <2> SUFFICES ASSUME call'[c] = call[c], NEW s \in call[c].targets
               PROVE  FamilyOf(s)' = FamilyOf(call[c].with)'
    BY <1>1
  <2>1. call[c].targets \subseteq Sessions /\ call[c].with \in Sessions
    BY <1>0, <1>1 DEF At, CallTypes, NoCall
  <2>2. Exists(s) /\ Exists(call[c].with) BY <1>1, <2>1 DEF IInv, HeldExists, At
  <2>3. PICK w \in Sessions : w = call[c].with BY <2>1
  <2>4. FamilyOf(s)' = FamilyOf(s) /\ FamilyOf(w)' = FamilyOf(w) /\ FamilyOf(s) = FamilyOf(w)
    BY <1>0, <1>1, <2>1, <2>2, <2>3 DEF Grow, TargetsOfFamily
  <2>5. call'[c].with = w BY <2>3
  <2> QED BY <2>4, <2>5 DEF FamilyOf
<1>2. ASSUME NEW c \in Calls, FindTargets(c) PROVE TargetsOfFamily'
  <2>1. /\ call'[c] = [at |-> "update", op |-> call[c].op, with |-> call[c].with, targets |-> Targets(c)]
        /\ \A d \in Calls \ {c} : call'[d] = call[d]
        /\ session' = session
    BY <1>0, <1>2 DEF FindTargets
  <2>2. call'[c].targets = Targets(c) /\ call'[c].with = call[c].with BY <2>1
  <2>3. \A s \in call'[c].targets : FamilyOf(s)' = FamilyOf(call[c].with)'
    BY <2>1, <2>2 DEF Targets, LiveOf, FamilyOf
  <2>4. \A d \in Calls \ {c} : At(d, "update")' => At(d, "update") BY <2>1 DEF At
  <2> QED BY <1>1, <2>1, <2>3, <2>4 DEF TargetsOfFamily
<1>3. ASSUME \A c \in Calls : At(c, "update")' => At(c, "update") /\ call'[c] = call[c]
      PROVE  TargetsOfFamily'
  BY <1>1, <1>3 DEF TargetsOfFamily
<1>4. ASSUME NEW c \in Calls, NEW x, call' = [call EXCEPT ![c] = x], x.at # "update"
      PROVE  TargetsOfFamily'
  <2>1. \A d \in Calls : At(d, "update")' => At(d, "update") /\ call'[d] = call[d]
    BY <1>0, <1>4 DEF At
  <2> QED BY <1>3, <2>1
<1>5. ASSUME NEW c \in Calls, NEW code, NEW got, Reply(c, code, got) PROVE TargetsOfFamily'
  <2>1. PICK x : x = Answer(call[c].op, Asked(c), code, got) OBVIOUS
  <2>2. call' = [call EXCEPT ![c] = x] /\ x.at = "answer" BY <1>0, <1>5, <2>1 DEF Reply, Answer
  <2> QED BY <1>4, <2>2
<1>6. ASSUME NEW c \in Calls, NEW reason, Revoke(c, reason) PROVE TargetsOfFamily'
  <2>1. PICK x : x = [at |-> "revoke", op |-> call[c].op, with |-> call[c].with, reason |-> reason] OBVIOUS
  <2>2. call' = [call EXCEPT ![c] = x] /\ x.at = "revoke" BY <1>0, <1>6, <2>1 DEF Revoke
  <2> QED BY <1>4, <2>2
<1>7. ASSUME NEW c \in Calls, FindSession(c) PROVE TargetsOfFamily'
  <2> DEFINE s == call[c].with
  <2>1. call[c].op \in {"refresh", "logout"} BY <1>7 DEF FindSession
  <2>2. \/ Reply(c, IF call[c].op = "logout" THEN "ok" ELSE "refused", Null)
        \/ \E reason : Revoke(c, reason)
        \/ call' = [call EXCEPT ![c] = [at |-> "rotate", op |-> "refresh", with |-> s]]
    BY <1>7, <2>1, Zenon DEF FindSession
  <2>3. CASE call' = [call EXCEPT ![c] = [at |-> "rotate", op |-> "refresh", with |-> s]]
    <3>1. PICK x : x = [at |-> "rotate", op |-> "refresh", with |-> s] OBVIOUS
    <3>2. call' = [call EXCEPT ![c] = x] /\ x.at = "rotate" BY <2>3, <3>1
    <3> QED BY <1>4, <3>2
  <2> QED BY <1>5, <1>6, <2>2, <2>3
<1>8. ASSUME NEW c \in Calls, Handle(c) PROVE TargetsOfFamily'
  BY <1>2, <1>5, <1>6, <1>7, <1>8
     DEF Handle, Login, Rotate, RefuseLogin, RotationConflict, RevokeTargets, Serve, RefuseBearer, Lose
<1>9. ASSUME AnyClient PROVE TargetsOfFamily'
  <2>1. \A r \in Requests \cup {NoCall} : r.at # "update" BY DEF Requests, NoCall, Sent
  <2>2. \A c \in Calls : At(c, "update")' => At(c, "update") /\ call'[c] = call[c]
    BY <1>9, <2>1 DEF AnyClient, At
  <2> QED BY <1>3, <2>2
<1>10. ASSUME UNCHANGED call PROVE TargetsOfFamily' BY <1>3, <1>10 DEF At
<1> QED BY <1>8, <1>9, <1>10 DEF ServerNext, Surroundings, Expire, DisableUser, server

\* What a server step that rotates nothing does to sessions that are held.
LEMMA NoReplayKept ==
  ASSUME IInv, BrowserOK, Grow, UNCHANGED browser, NoReplay,
         NEW c \in Calls, NEW x, call' = [call EXCEPT ![c] = x],
         ~At(c, "answer"), x.at # "sent", x.op = call[c].op,
         x.at # "answer" => x.with = call[c].with,
         x.at = "rotate" => call[c].with \in Sessions /\ Over(call[c].with) /\ Exists(call[c].with),
         x.at = "answer" /\ x.op = "refresh" => x.code # "ok",
         \A s \in Sessions : x.at = "answer" /\ x.code = "ok" /\ x.op = "login" /\ x.got = s =>
           ~session'[s].revoked /\ ~Exists(s),
         \A s \in Sessions : Exists(s) /\ session'[s].revoked => session[s].revoked \/ FamilyOf(s) \in ended'
  PROVE  NoReplay'
<1> USE DEF browser
<1>0. call \in [Calls -> CallTypes] BY DEF IInv, TypeOK
<1>1. call'[c] = x /\ \A d \in Calls \ {c} : call'[d] = call[d] BY <1>0
<1>2. ASSUME NEW s \in Sessions, Exists(s), Over(s)
      PROVE  session'[s].revoked => session'[s].family \in ended'
  BY <1>2 DEF Grow, Over, FamilyOf
<1>3. ASSUME NEW t \in Tabs, NEW s \in Sessions, Holds(t, s)' PROVE Holds(t, s)
  <2>1. ASSUME NEW b \in Fibers, Waits(t, b, "refresh"), InHand(<<t, b>>, s)' PROVE InHand(<<t, b>>, s)
    <3>1. <<t, b>> \in Calls /\ call[<<t, b>>].op = "refresh" BY <2>1 DEF BrowserOK, CallOfFiber, Waits, Has, AnswerTo
    <3>2. CASE <<t, b>> # c BY <1>1, <2>1, <3>1, <3>2 DEF InHand, At
    <3>3. CASE <<t, b>> = c BY <1>1, <2>1, <3>1, <3>3 DEF InHand, At
    <3> QED BY <3>2, <3>3
  <2> QED BY <1>3, <2>1 DEF Holds, Waits
<1>4. cookie # Null => \/ session'[cookie].revoked => session'[cookie].family \in ended'
                       \/ \E d \in Calls : Given(d, call[d].got)' /\ call'[d].op = "refresh"
  <2> SUFFICES ASSUME cookie # Null, ~Over(cookie)
               PROVE  \E d \in Calls : Given(d, call[d].got)' /\ call'[d].op = "refresh"
    BY <1>2 DEF BrowserOK, IsA
  <2>1. PICK d \in Calls : Given(d, call[d].got) /\ call[d].op = "refresh" BY DEF NoReplay
  <2>2. d # c BY <2>1 DEF Given
  <2>3. call'[d] = call[d] BY <1>1, <2>2
  <2>4. Given(d, call[d].got)' BY <2>1, <2>3 DEF Given, At
  <2> QED BY <2>1, <2>3, <2>4
<1>5. ASSUME NEW d \in Calls, At(d, "sent")', call'[d].op = "refresh", call'[d].with # Null
      PROVE  session'[call'[d].with].revoked => session'[call'[d].with].family \in ended'
  <2>1. d # c /\ call'[d] = call[d] BY <1>1, <1>5 DEF At
  <2>2. call[d] \in CallTypes /\ call[d].at = "sent" /\ call[d].op = "refresh" /\ call[d].with # Null
    BY <1>0, <1>5, <2>1 DEF At
  <2>3. call[d].with \in Sessions BY <2>2 DEF CallTypes, NoCall
  <2>4. Exists(call[d].with) BY <2>2, <2>3 DEF IInv, HeldExists, At
  <2>5. Over(call[d].with) BY <2>2 DEF NoReplay, At
  <2> QED BY <1>2, <2>1, <2>3, <2>4, <2>5
<1>6. ASSUME NEW d \in Calls, At(d, "rotate")'
      PROVE  session'[call'[d].with].revoked => session'[call'[d].with].family \in ended'
  <2>1. CASE d = c
    <3>1. x.at = "rotate" /\ call'[d].with = call[c].with BY <1>1, <1>6, <2>1 DEF At
    <3> QED BY <1>2, <3>1
  <2>2. CASE d # c
    <3>1. call'[d] = call[d] BY <1>1, <2>2
    <3>2. call[d] \in CallTypes /\ call[d].at = "rotate" BY <1>0, <1>6, <3>1 DEF At
    <3>3. call[d].with \in Sessions BY <3>2 DEF CallTypes, NoCall
    <3>4. Exists(call[d].with) BY <3>2, <3>3 DEF IInv, HeldExists, At
    <3>5. Over(call[d].with) BY <3>2 DEF NoReplay, At
    <3> QED BY <1>2, <3>1, <3>3, <3>4, <3>5
  <2> QED BY <2>1, <2>2
<1>7. ASSUME NEW d \in Calls, NEW s \in Sessions, Given(d, s)'
      PROVE  /\ session'[s].revoked => session'[s].family \in ended'
             /\ call'[d].op = "login" => \A t \in Tabs : ~Holds(t, s)'
  <2>1. CASE d = c
    <3>1. x.at = "answer" /\ x.code = "ok" /\ x.op = "login" /\ x.got = s
      BY <1>1, <1>7, <2>1 DEF Given, At
    <3>2. \A t \in Tabs : Holds(t, s) => Exists(s) BY HeldIs
    <3> QED BY <1>3, <3>1, <3>2
  <2>2. CASE d # c
    <3>1. call'[d] = call[d] BY <1>1, <2>2
    <3>2. Given(d, s) BY <1>7, <3>1 DEF Given, At
    <3>3. Exists(s) BY <3>2 DEF Given, BrowserOK, IsA
    <3>4. Over(s) /\ (call[d].op = "login" => \A t \in Tabs : ~Holds(t, s)) BY <3>2 DEF NoReplay
    <3> QED BY <1>2, <1>3, <3>1, <3>3, <3>4
  <2> QED BY <2>1, <2>2
<1> QED BY <1>4, <1>5, <1>6, <1>7 DEF NoReplay, Over, FamilyOf

\* After a rotation nobody else is under way with the rotated session.
LEMMA NoReplayRotate ==
  ASSUME IInv, BrowserOK, Grow, UNCHANGED browser, NoReplay, OneTab,
         NEW c \in Calls, NEW n \in Sessions, Rotate(c, n)
  PROVE  NoReplay'
<1> USE DEF browser
<1> DEFINE w == call[c].with
<1>0. call \in [Calls -> CallTypes] BY DEF IInv, TypeOK
<1>1. /\ At(c, "rotate") /\ call[c].op = "refresh" /\ w \in Sessions /\ ~Exists(n) /\ Exists(w) /\ n # w
      /\ call[c].at = "rotate"
  <2>1. At(c, "rotate") /\ call[c] \in CallTypes /\ ~Exists(n) /\ Exists(w)
    BY <1>0 DEF Rotate, Rotatable, Live, Free
  <2> QED BY <2>1 DEF At, CallTypes, NoCall
<1>2. session' = [session EXCEPT ![w].revoked = TRUE, ![n] = Row(session[w].user, FamilyOf(w))]
  BY DEF Rotate, Rotated
<1>3. /\ session'[n] = Row(session[w].user, FamilyOf(w))
      /\ \A s \in Sessions \ {n, w} : session'[s] = session[s]
  BY <1>1, <1>2 DEF IInv, TypeOK
<1>4. ~session'[n].revoked BY <1>3 DEF Row
<1>5. PICK x : x = Answer("refresh", Null, "ok", n) OBVIOUS
<1>6. call'[c] = x /\ \A d \in Calls \ {c} : call'[d] = call[d]
  BY <1>0, <1>1, <1>5 DEF Rotate, Reply, Asked
<1>7. /\ x.at = "answer" /\ x.op = "refresh" /\ x.code = "ok" /\ x.got = n
  BY <1>5 DEF Answer
<1>8. PICK t \in Tabs, b \in Fibers :
         c = <<t, b>> /\ status[t] # "closed" /\ Waits(t, b, "refresh") /\ promise[t] = b
  BY <1>1, WhoseCall DEF At
\* It is the only refresh.
<1>9. ASSUME NEW d \in Calls, ~At(d, "none"), call[d].op = "refresh" PROVE d = c
  <2>1. PICK u \in Tabs, b2 \in Fibers : d = <<u, b2>> /\ status[u] # "closed" /\ promise[u] = b2
    BY <1>9, WhoseCall
  <2>2. u = t BY <1>8, <2>1 DEF OneTab
  <2> QED BY <1>8, <2>1, <2>2
<1>10. ASSUME NEW s \in Sessions, Exists(s), s # w, Over(s)
       PROVE  session'[s].revoked => session'[s].family \in ended'
  BY <1>1, <1>3, <1>10 DEF Over, FamilyOf, Grow
<1>11. \A u \in Tabs, s \in Sessions : Holds(u, s)' => Holds(u, s) \/ s = n
  <2> SUFFICES ASSUME NEW u \in Tabs, NEW s \in Sessions, Holds(u, s)' PROVE Holds(u, s) \/ s = n
    OBVIOUS
  <2>1. ASSUME NEW b2 \in Fibers, Waits(u, b2, "refresh"), InHand(<<u, b2>>, s)'
        PROVE  InHand(<<u, b2>>, s) \/ s = n
    <3>1. <<u, b2>> \in Calls BY <2>1 DEF BrowserOK, CallOfFiber, Waits, Has
    <3>2. CASE <<u, b2>> # c BY <1>6, <2>1, <3>1, <3>2 DEF InHand, At
    <3>3. CASE <<u, b2>> = c BY <1>6, <1>7, <2>1, <3>3 DEF InHand, At
    <3> QED BY <3>2, <3>3
  <2> QED BY <2>1 DEF Holds, Waits
<1>12. Given(c, n)' /\ call'[c].op = "refresh" /\ call'[c].got = n
  BY <1>6, <1>7 DEF Given, At
<1>13. Given(c, call[c].got)' BY <1>12 DEF Given
<1>14. ASSUME NEW d \in Calls, At(d, "sent")' \/ At(d, "rotate")', call'[d].op = "refresh" PROVE FALSE
  <2>1. d # c BY <1>6, <1>7, <1>14 DEF At
  <2>2. call'[d] = call[d] BY <1>6, <2>1
  <2> QED BY <1>9, <1>14, <2>1, <2>2 DEF At
<1>15. ASSUME NEW d \in Calls, At(d, "rotate")' PROVE FALSE
  <2>1. d # c BY <1>6, <1>7, <1>15 DEF At
  <2>2. call'[d] = call[d] /\ call[d] \in CallTypes /\ call[d].at = "rotate" BY <1>0, <1>6, <1>15, <2>1 DEF At
  <2>3. call[d].op = "refresh" BY <2>2 DEF CallTypes, NoCall
  <2> QED BY <1>9, <2>1, <2>2, <2>3 DEF At
<1>16. ASSUME NEW d \in Calls, NEW s \in Sessions, Given(d, s)'
       PROVE  /\ session'[s].revoked => session'[s].family \in ended'
              /\ call'[d].op = "login" => \A u \in Tabs : ~Holds(u, s)'
  <2>1. CASE d = c BY <1>4, <1>6, <1>7, <1>16, <2>1 DEF Given
  <2>2. CASE d # c
    <3>1. call'[d] = call[d] BY <1>6, <2>2
    <3>2. Given(d, s) BY <1>16, <3>1 DEF Given, At
    <3>3. Exists(s) BY <3>2 DEF Given, BrowserOK, IsA
    <3>4. Over(s) /\ (call[d].op = "login" => \A u \in Tabs : ~Holds(u, s)) BY <3>2 DEF NoReplay
    <3>5. call[d].op = "login"
      <4>1. ~At(d, "none") BY <3>2 DEF Given, At
      <4> QED BY <1>9, <2>2, <3>2, <4>1 DEF Given
    <3>6. s # w
      <4>1. Holds(t, w) BY <1>1, <1>8 DEF Holds, InHand, At
      <4> QED BY <3>4, <3>5, <4>1
    <3> QED BY <1>1, <1>10, <1>11, <3>3, <3>4, <3>5, <3>6
  <2> QED BY <2>1, <2>2
<1> QED BY <1>12, <1>13, <1>14, <1>15, <1>16 DEF NoReplay, Over, FamilyOf

\* A cause once given stays one.
LEMMA ReuseKept ==
  ASSUME IInv, BrowserOK, Grow, NEW d \in Calls, ReuseHasACause, Quiet,
         call'[d] = call[d], At(d, "revoke")', call'[d].reason = "reused"
  PROVE  session'[call'[d].with].expired \/ session'[call'[d].with].family \in ended'
<1>1. call[d] \in CallTypes /\ call[d].at = "revoke" BY DEF At, IInv, TypeOK
<1>2. call[d].with \in Sessions BY <1>1 DEF CallTypes, NoCall
<1>3. Exists(call[d].with) BY <1>1, <1>2 DEF IInv, HeldExists, At
<1>4. session[call[d].with].expired \/ FamilyOf(call[d].with) \in ended
  BY <1>1 DEF ReuseHasACause, Quiet, At
<1>5. PICK w \in Sessions : w = call[d].with BY <1>2
<1>6. session'[w].family = FamilyOf(w) BY <1>3, <1>5 DEF Grow, FamilyOf
<1> QED BY <1>3, <1>4, <1>5, <1>6 DEF Grow

\* While nothing is replayed, a handler finds no replay either.
LEMMA NoReplayServer ==
  ASSUME IInv, BrowserOK, Grow, UNCHANGED browser, NoReplay, Quiet, ~lost', TargetsOfFamily, ReuseHasACause,
         NEW c \in Calls, Handle(c)
  PROVE  NoReplay' /\ ReuseHasACause'
<1> DEFINE Goal == NoReplay' /\ ReuseHasACause'
<1>0. call \in [Calls -> CallTypes] BY DEF IInv, TypeOK
<1>q. OneTab /\ OneTab' BY DEF Quiet, OneTab, browser
<1>1. ASSUME NEW x, call' = [call EXCEPT ![c] = x],
             x.at = "revoke" /\ x.reason = "reused" =>
               session'[x.with].expired \/ session'[x.with].family \in ended'
      PROVE  ReuseHasACause'
  <2>1. call'[c] = x /\ \A d \in Calls \ {c} : call'[d] = call[d] BY <1>0, <1>1
  <2>2. ASSUME NEW d \in Calls, At(d, "revoke")', call'[d].reason = "reused"
        PROVE  session'[call'[d].with].expired \/ session'[call'[d].with].family \in ended'
    <3>1. CASE d = c BY <1>1, <2>1, <2>2, <3>1 DEF At
    <3>2. CASE d # c BY <2>1, <2>2, <3>2, ReuseKept
    <3> QED BY <3>1, <3>2
  <2> QED BY <2>2 DEF ReuseHasACause, FamilyOf
<1>2. ASSUME NEW x, call' = [call EXCEPT ![c] = x], UNCHANGED session,
             ~At(c, "answer"), x.at # "sent", x.op = call[c].op,
             x.at # "answer" => x.with = call[c].with,
             x.at = "rotate" => call[c].with \in Sessions /\ Over(call[c].with) /\ Exists(call[c].with),
             x.at = "answer" /\ x.op \in {"login", "refresh"} => x.code # "ok"
      PROVE  NoReplay'
  BY <1>2, NoReplayKept
<1>3. ASSUME NEW code, NEW got, Reply(c, code, got), UNCHANGED session, ~At(c, "answer"),
             call[c].op \in {"login", "refresh"} => code # "ok"
      PROVE  Goal
  <2>1. PICK x : x = Answer(call[c].op, Asked(c), code, got) OBVIOUS
  <2>2. call' = [call EXCEPT ![c] = x] /\ x.at = "answer" /\ x.code = code /\ x.op = call[c].op
    BY <1>0, <1>3, <2>1 DEF Reply, Answer
  <2> QED BY <1>1, <1>2, <1>3, <2>2
<1>4. ASSUME NEW reason, Revoke(c, reason), UNCHANGED session, ~At(c, "answer"),
             reason = "reused" => session'[call[c].with].expired \/ session'[call[c].with].family \in ended'
      PROVE  Goal
  <2>1. PICK x : x = [at |-> "revoke", op |-> call[c].op, with |-> call[c].with, reason |-> reason] OBVIOUS
  <2>2. /\ call' = [call EXCEPT ![c] = x] /\ x.at = "revoke" /\ x.op = call[c].op
        /\ x.with = call[c].with /\ x.reason = reason
    BY <1>0, <1>4, <2>1 DEF Revoke
  <2> QED BY <1>1, <1>2, <1>4, <2>2
<1> HIDE DEF Goal
<1>5. ASSUME NEW n \in Sessions, Rotate(c, n) PROVE Goal
  <2>1. NoReplay' BY <1>5, <1>q, NoReplayRotate
  <2>2. PICK x : x = Answer(call[c].op, Asked(c), "ok", n) OBVIOUS
  <2>3. call' = [call EXCEPT ![c] = x] /\ x.at = "answer"
    BY <1>0, <1>5, <2>2 DEF Rotate, Reply, Answer
  <2> QED BY <1>1, <2>1, <2>3 DEF Goal
<1>6. ASSUME NEW s \in Sessions, Login(c, s) PROVE Goal
  <2>1. PICK x : x = Answer(call[c].op, Asked(c), "ok", s) OBVIOUS
  <2>2. /\ call' = [call EXCEPT ![c] = x] /\ x.at = "answer" /\ x.code = "ok" /\ x.got = s
        /\ x.op = "login" /\ call[c].op = "login" /\ ~At(c, "answer")
    BY <1>0, <1>6, <2>1 DEF Login, Reply, Answer, At
  <2>3. ~Exists(s) /\ session' = [session EXCEPT ![s] = Row(call[c].with, s)] BY <1>6 DEF Login, Free
  <2>4. session'[s] = Row(call[c].with, s) /\ \A q \in Sessions \ {s} : session'[q] = session[q]
    BY <2>3 DEF IInv, TypeOK
  <2>5. ~session'[s].revoked BY <2>4 DEF Row
  <2>6. NoReplay' BY <2>2, <2>3, <2>4, <2>5, NoReplayKept
  <2> QED BY <1>1, <2>2, <2>6 DEF Goal
<1>7. ASSUME FindSession(c) PROVE Goal
  <2> DEFINE s == call[c].with
  <2>1. /\ call[c].op \in {"refresh", "logout"} /\ call[c].at = "sent" /\ ~At(c, "answer")
        /\ UNCHANGED <<session, ended>>
    BY <1>7 DEF FindSession, At
  <2>2. s # Null => s \in Sessions /\ Exists(s)
    <3>1. call[c] \in CallTypes BY <1>0
    <3>2. s \in Sessions \cup {Null} BY <2>1, <3>1 DEF CallTypes, NoCall
    <3> QED BY <2>1, <3>2 DEF IInv, HeldExists, At
  <2>3. s # Null /\ call[c].op = "refresh" => Over(s) BY <2>1 DEF NoReplay, At
  <2>4. \/ s = Null /\ Reply(c, IF call[c].op = "logout" THEN "ok" ELSE "refused", Null)
        \/ s # Null /\ Revoke(c, "logout")
        \/ s # Null /\ call[c].op = "refresh" /\ session[s].revoked /\ Revoke(c, "reused")
        \/ Revoke(c, "rejected")
        \/ /\ s # Null /\ call[c].op = "refresh"
           /\ call' = [call EXCEPT ![c] = [at |-> "rotate", op |-> "refresh", with |-> s]]
    BY <1>7, <2>1, Zenon DEF FindSession
  <2>5. CASE s = Null /\ Reply(c, IF call[c].op = "logout" THEN "ok" ELSE "refused", Null)
    <3>1. CASE call[c].op = "logout" BY <1>3, <2>1, <2>5, <3>1
    <3>2. CASE call[c].op = "refresh"
      <4>1. Reply(c, "refused", Null) BY <2>5, <3>2
      <4> QED BY <1>3, <2>1, <4>1
    <3> QED BY <2>1, <3>1, <3>2
  <2>6. CASE Revoke(c, "logout") \/ Revoke(c, "rejected") BY <1>4, <2>1, <2>6
  <2>7. CASE s # Null /\ call[c].op = "refresh" /\ session[s].revoked /\ Revoke(c, "reused")
    <3>1. FamilyOf(s) \in ended BY <2>3, <2>7 DEF Over
    <3>2. session'[s].family \in ended' BY <2>1, <3>1 DEF FamilyOf
    <3> QED BY <1>4, <2>1, <2>7, <3>2
  <2>8. CASE /\ s # Null /\ call[c].op = "refresh"
             /\ call' = [call EXCEPT ![c] = [at |-> "rotate", op |-> "refresh", with |-> s]]
    <3>1. PICK x : x = [at |-> "rotate", op |-> "refresh", with |-> s] OBVIOUS
    <3>2. call' = [call EXCEPT ![c] = x] /\ x.at = "rotate" /\ x.op = call[c].op /\ x.with = s BY <2>8, <3>1
    <3> QED BY <1>1, <1>2, <2>1, <2>2, <2>3, <2>8, <3>2 DEF Goal
  <2> QED BY <2>4, <2>5, <2>6, <2>7, <2>8
<1>8. ASSUME RotationConflict(c) PROVE Goal
  <2>1. /\ call[c].at = "rotate" /\ ~At(c, "answer") /\ Revoke(c, "reused") /\ ~Rotatable(call[c].with)
        /\ UNCHANGED <<session, ended>>
    BY <1>8 DEF RotationConflict, At
  <2>2. call[c].with \in Sessions BY <1>0, <2>1 DEF CallTypes, NoCall
  <2>3. Exists(call[c].with) /\ Over(call[c].with) BY <2>1, <2>2 DEF IInv, HeldExists, NoReplay, At
  <2>4. session[call[c].with].expired \/ FamilyOf(call[c].with) \in ended
    BY <2>1, <2>3 DEF Rotatable, Live, Over
  <2> QED BY <1>4, <2>1, <2>4 DEF FamilyOf
<1>9. ASSUME FindTargets(c) PROVE Goal
  <2>1. PICK x : x = [at |-> "update", op |-> call[c].op, with |-> call[c].with, targets |-> Targets(c)] OBVIOUS
  <2>2. /\ call' = [call EXCEPT ![c] = x] /\ x.at = "update" /\ x.op = call[c].op /\ x.with = call[c].with
        /\ ~At(c, "answer") /\ UNCHANGED session
    BY <1>0, <1>9, <2>1 DEF FindTargets, At
  <2> QED BY <1>1, <1>2, <2>2 DEF Goal
<1>10. ASSUME RevokeTargets(c) PROVE Goal
  <2>1. /\ At(c, "update") /\ ~At(c, "answer") /\ call[c].op \in {"refresh", "logout"}
        /\ call[c].targets \subseteq Sessions
    BY <1>0, <1>10 DEF RevokeTargets, At, CallTypes, NoCall
  <2>2. PICK x : x = Answer(call[c].op, Asked(c), IF call[c].op = "logout" THEN "ok" ELSE "refused", Null) OBVIOUS
  <2>3. /\ call' = [call EXCEPT ![c] = x] /\ x.at = "answer" /\ x.op = call[c].op
        /\ x.op = "refresh" => x.code # "ok"
    BY <1>0, <1>10, <2>2 DEF RevokeTargets, Reply, Answer
  <2>4. ASSUME NEW s \in Sessions, session'[s].revoked PROVE session[s].revoked \/ FamilyOf(s) \in ended'
    <3>1. CASE s \in call[c].targets
      <4>1. FamilyOf(s) = FamilyOf(call[c].with) BY <2>1, <3>1 DEF TargetsOfFamily
      <4> QED BY <1>10, <4>1 DEF RevokeTargets
    <3>2. CASE s \notin call[c].targets BY <1>10, <2>4, <3>2 DEF RevokeTargets
    <3> QED BY <3>1, <3>2
  <2>5. NoReplay' BY <2>1, <2>3, <2>4, NoReplayKept
  <2> QED BY <1>1, <2>3, <2>5 DEF Goal
<1>11. ASSUME RefuseLogin(c) \/ RefuseBearer(c) PROVE Goal
  <2>1. Reply(c, "refused", Null) /\ ~At(c, "answer") /\ UNCHANGED session
    BY <1>11 DEF RefuseLogin, RefuseBearer, At
  <2> QED BY <1>3, <2>1
<1>12. ASSUME Serve(c) PROVE Goal
  <2>1. /\ \E code, got : Reply(c, code, got)
        /\ ~At(c, "answer") /\ UNCHANGED session /\ call[c].op \in {"me", "page"}
    BY <1>12 DEF Serve, At
  <2> QED BY <1>3, <2>1
<1>13. ASSUME Lose(c) PROVE Goal BY <1>13 DEF Lose
<1> QED
  BY <1>5, <1>6, <1>7, <1>8, <1>9, <1>10, <1>11, <1>12, <1>13 DEF Handle, Goal

\* Steps of a tab: the server's rows stay, calls are taken and made.
LEMMA NoReplayTab ==
  ASSUME IInv, BrowserOK, NoReplay, serverUnchanged,
         \A c \in Calls :
           \/ call'[c] = call[c]
           \/ call'[c].at = "none"
           \/ /\ call'[c].at = "sent"
              /\ call'[c].op = "refresh" /\ call'[c].with # Null => Over(call'[c].with),
         \/ cookie' = Null
         \/ Over(cookie')
         \/ /\ cookie' = cookie
            /\ \A c \in Calls : Given(c, call[c].got) /\ call[c].op = "refresh" => call'[c] = call[c],
         \A c \in Calls, s \in Sessions, u \in Tabs :
           call'[c] = call[c] /\ Given(c, s) /\ call[c].op = "login" /\ Holds(u, s)' =>
             \E v \in Tabs : Holds(v, s)
  PROVE  NoReplay'
<1>1. UNCHANGED <<session, ended>> BY DEF serverUnchanged
<1>2. cookie' # Null => Over(cookie)' \/ \E c \in Calls : Given(c, call[c].got)' /\ call'[c].op = "refresh"
  <2>1. CASE Over(cookie') BY <1>1, <2>1 DEF Over, FamilyOf
  <2>2. CASE /\ cookie' = cookie /\ cookie' # Null
             /\ \A c \in Calls : Given(c, call[c].got) /\ call[c].op = "refresh" => call'[c] = call[c]
    <3>1. CASE Over(cookie) BY <1>1, <2>2, <3>1 DEF Over, FamilyOf
    <3>2. CASE \E c \in Calls : Given(c, call[c].got) /\ call[c].op = "refresh"
      <4>1. PICK c \in Calls : Given(c, call[c].got) /\ call[c].op = "refresh" /\ call'[c] = call[c]
        BY <2>2, <3>2
      <4>2. Given(c, call[c].got)' BY <4>1 DEF Given, At
      <4> QED BY <4>1, <4>2
    <3> QED BY <2>2, <3>1, <3>2 DEF NoReplay
  <2> QED BY <2>1, <2>2
<1>3. ASSUME NEW c \in Calls, At(c, "sent")', call'[c].op = "refresh", call'[c].with # Null
      PROVE  session'[call'[c].with].revoked => session'[call'[c].with].family \in ended'
  <2>1. Over(call'[c].with) BY <1>3 DEF NoReplay, At
  <2> QED BY <1>1, <2>1 DEF Over, FamilyOf
<1>4. ASSUME NEW c \in Calls, At(c, "rotate")'
      PROVE  session'[call'[c].with].revoked => session'[call'[c].with].family \in ended'
  <2>1. call'[c] = call[c] BY <1>4 DEF At
  <2>2. Over(call'[c].with) BY <1>4, <2>1 DEF NoReplay, At
  <2> QED BY <1>1, <2>2 DEF Over, FamilyOf
<1>5. ASSUME NEW c \in Calls, NEW s \in Sessions, Given(c, s)'
      PROVE  /\ session'[s].revoked => session'[s].family \in ended'
             /\ call'[c].op = "login" => \A u \in Tabs : ~Holds(u, s)'
  <2>1. call'[c] = call[c] BY <1>5 DEF Given, At
  <2>2. Given(c, s) BY <1>5, <2>1 DEF Given, At
  <2>3. Over(s) BY <2>2 DEF NoReplay
  <2>4. call[c].op = "login" => \A u \in Tabs : ~Holds(u, s) BY <2>2 DEF NoReplay
  <2>5. call[c].op = "login" => \A u \in Tabs : ~Holds(u, s)' BY <2>1, <2>2, <2>4
  <2> QED BY <1>1, <2>1, <2>3, <2>5 DEF Over, FamilyOf
<1> QED BY <1>2, <1>3, <1>4, <1>5 DEF NoReplay, Over, FamilyOf

\* Steps of the tab start no revocation.
LEMMA ReuseTab ==
  ASSUME IInv, BrowserOK, Quiet, ReuseHasACause, serverUnchanged,
         \A c \in Calls : call'[c] = call[c] \/ call'[c].at \in {"none", "sent"}
  PROVE  ReuseHasACause'
<1> SUFFICES ASSUME NEW c \in Calls, At(c, "revoke")', call'[c].reason = "reused"
             PROVE  session'[call'[c].with].expired \/ session'[call'[c].with].family \in ended'
  BY DEF ReuseHasACause, FamilyOf
<1>1. call'[c] = call[c] BY DEF At
<1>2. session[call[c].with].expired \/ FamilyOf(call[c].with) \in ended
  BY <1>1 DEF ReuseHasACause, Quiet, At
<1> QED BY <1>1, <1>2 DEF serverUnchanged, FamilyOf

\* After a step of a tab it holds the cookie, its token, the session of a
\* refresh it starts, or one that an answer gives it.
LEMMA AskHolds ==
  ASSUME IInv, BrowserOK, NEW t \in Tabs, NEW b \in Fibers, NEW what, NEW request,
         Ask(t, b, what, request), Has(t, b), request.at # "answer"
  PROVE  \A u \in Tabs, q \in Sessions : Holds(u, q)' =>
           \/ q = cookie' \/ q = token'[u]
           \/ what = "refresh" /\ q = request.with
           \/ \E x \in Fibers : Waits(u, x, "refresh") /\ InHand(<<u, x>>, q)
<1>1. /\ \A u \in Tabs, x \in Fibers :
           fiber'[u][x] = IF u = t /\ x = b THEN what ELSE fiber[u][x]
      /\ \A c \in Calls : call'[c] = IF c = <<t, b>> THEN request ELSE call[c]
  BY AskFacts
<1>2. <<t, b>> \in Calls BY DEF BrowserOK, Has
<1> SUFFICES ASSUME NEW u \in Tabs, NEW q \in Sessions, NEW x \in Fibers,
                    Waits(u, x, "refresh")', InHand(<<u, x>>, q)'
             PROVE  \/ what = "refresh" /\ q = request.with
                    \/ Waits(u, x, "refresh") /\ InHand(<<u, x>>, q)
  BY DEF Holds
<1>3. CASE u = t /\ x = b BY <1>1, <1>2, <1>3 DEF Waits, InHand, At
<1>4. CASE ~(u = t /\ x = b)
  <2>1. fiber[u][x] = "refresh" BY <1>1, <1>4 DEF Waits
  <2>2. <<u, x>> \in Calls BY <2>1 DEF BrowserOK, CallOfFiber, Has
  <2>3. call'[<<u, x>>] = call[<<u, x>>] BY <1>1, <1>4, <2>2
  <2> QED BY <2>1, <2>3 DEF Waits, InHand, At
<1> QED BY <1>3, <1>4

\* The only tab that is open has no refresh whose answer could be its cookie's successor.
LEMMA NoneUnderWay ==
  ASSUME IInv, BrowserOK, NoReplay, NEW t \in Tabs, \A u \in Tabs \ {t} : status[u] = "closed",
         \A x \in Fibers : ~Waits(t, x, "refresh"), cookie # Null
  PROVE  Over(cookie)
<1> SUFFICES ASSUME NEW c \in Calls, Given(c, call[c].got), call[c].op = "refresh" PROVE FALSE
  BY DEF NoReplay
<1>1. ~At(c, "none") BY DEF Given, At
<1>2. PICK u \in Tabs, x \in Fibers : c = <<u, x>> /\ status[u] # "closed" /\ Waits(u, x, "refresh")
  BY <1>1, WhoseCall
<1> QED BY <1>2

\* The only tab starts a refresh with its cookie, and only while none of its
\* fibers has one under way.
LEMMA AskNoReplay ==
  ASSUME IInv, BrowserOK, NoReplay, serverUnchanged,
         NEW t \in Tabs, \A u \in Tabs \ {t} : status[u] = "closed",
         NEW b \in Fibers, NEW what, NEW request,
         Ask(t, b, what, request), Has(t, b), ~Waits(t, b, "refresh"),
         \/ request.at = "none" /\ what # "refresh"
         \/ request.at = "sent" /\ what # "refresh" /\ request.op # "refresh"
         \/ /\ request.at = "sent" /\ what = "refresh" /\ request.with = cookie
            /\ \A x \in Fibers : ~Waits(t, x, "refresh"),
         cookie' \in {cookie, Null}, \A u \in Tabs : token'[u] \in {token[u], Null}
  PROVE  /\ NoReplay'
         /\ \A u \in Tabs, q \in Sessions : Holds(u, q)' => Holds(u, q)
         /\ \A c \in Calls : call'[c] = call[c] \/ call'[c].at \in {"none", "sent"}
<1>0. Null \notin Sessions BY SessionsAssumption
<1>1. \A c \in Calls : call'[c] = IF c = <<t, b>> THEN request ELSE call[c] BY AskFacts
<1>2. \A u \in Tabs, q \in Sessions : Holds(u, q)' => Holds(u, q)
  <2>1. request.at # "answer" OBVIOUS
  <2>2. ASSUME NEW u \in Tabs, NEW q \in Sessions, Holds(u, q)' PROVE Holds(u, q)
    <3>1. \/ q = cookie' \/ q = token'[u]
          \/ what = "refresh" /\ q = request.with
          \/ \E x \in Fibers : Waits(u, x, "refresh") /\ InHand(<<u, x>>, q)
      BY <2>1, <2>2, AskHolds
    <3> QED BY <1>0, <3>1 DEF Holds
  <2> QED BY <2>2
<1>3. \A c \in Calls :
        \/ call'[c] = call[c]
        \/ call'[c].at = "none"
        \/ /\ call'[c].at = "sent"
           /\ call'[c].op = "refresh" /\ call'[c].with # Null => Over(call'[c].with)
  <2> SUFFICES ASSUME request.at = "sent", what = "refresh", request.with = cookie, cookie # Null,
                      \A x \in Fibers : ~Waits(t, x, "refresh")
               PROVE  Over(cookie)
    BY <1>1
  <2> QED BY NoneUnderWay
<1>4. ASSUME NEW c \in Calls, Given(c, call[c].got), call[c].op = "refresh" PROVE call'[c] = call[c]
  <2>1. ~At(c, "none") BY <1>4 DEF Given, At
  <2>2. PICK u \in Tabs, x \in Fibers : c = <<u, x>> /\ Waits(u, x, "refresh") BY <1>4, <2>1, WhoseCall
  <2> QED BY <1>1, <2>2
<1>5. NoReplay'
  <2>1. \A c \in Calls, s \in Sessions, u \in Tabs :
          call'[c] = call[c] /\ Given(c, s) /\ call[c].op = "login" /\ Holds(u, s)' =>
            \E v \in Tabs : Holds(v, s)
    BY <1>2
  <2>2. \/ cookie' = Null
        \/ Over(cookie')
        \/ /\ cookie' = cookie
           /\ \A c \in Calls : Given(c, call[c].got) /\ call[c].op = "refresh" => call'[c] = call[c]
    BY <1>4
  <2> QED BY <1>3, <2>1, <2>2, NoReplayTab
<1>6. \A c \in Calls : call'[c] = call[c] \/ call'[c].at \in {"none", "sent"} BY <1>1
<1> QED BY <1>2, <1>5, <1>6

\* What a tab has stays of one family when none of what says so changes.
LEMMA OneFamilyPage ==
  ASSUME serverUnchanged, NEW t \in Tabs, OneFamily(t),
         UNCHANGED <<cookie, abandoned>>, status'[t] = status[t], shown'[t] = shown[t],
         fiber'[t]["session"] = fiber[t]["session"], call'[<<t, "session">>] = call[<<t, "session">>],
         \A q \in Sessions : Holds(t, q)' => Holds(t, q)
  PROVE  OneFamily(t)'
<1> USE DEF serverUnchanged
<1>1. \A q \in Sessions : Proper(t, q) => Proper(t, q)'
  BY DEF Proper, Waits, At, Ok, AnswerTo, FamilyOf
<1>2. \A q : Harmless(q) <=> Harmless(q)' BY DEF Harmless, FamilyOf
<1>3. Bootstrap(t)' BY <1>2 DEF OneFamily, Bootstrap, Waits, At, Ok, AnswerTo
<1> QED BY <1>1, <1>2, <1>3 DEF OneFamily

\* Steps of the only tab.
LEMMA TabQuiet ==
  ASSUME IInv, BrowserOK, NoReplay, ReuseHasACause, Quiet,
         NEW t \in Tabs, Tab(t), \A u \in Tabs \ {t} : status[u] = "closed",
         status[t] # "closed" => OneFamily(t)
  PROVE  NoReplay' /\ ReuseHasACause' /\ OneFamily(t)'
<1> DEFINE Goal == NoReplay' /\ ReuseHasACause' /\ OneFamily(t)'
<1> SUFFICES Goal OBVIOUS
<1> HIDE DEF Goal
<1> DEFINE c == <<t, "session">>
<1>0. /\ \A b \in Fibers : fiber[t][b] \in Stages /\ CallOfFiber(t, b) /\ (Waits(t, b, "refresh") <=> promise[t] = b)
      /\ StatusOfFiber(t)
      /\ cookie # Null => IsA(cookie)
      /\ token \in [Tabs -> Sessions \cup {Null}] /\ promise \in [Tabs -> Fibers \cup {Null}]
      /\ status \in [Tabs -> {"closed", "checking", "authenticated", "unauthenticated"}]
      /\ shown \in [Tabs -> Users \cup {Null}]
      /\ call \in [Calls -> CallTypes] /\ fiber \in [Tabs -> [Fibers -> Stages]]
  BY DEF BrowserOK, IInv, TypeOK
<1>f. "session" \in Fibers /\ Pages \subseteq Fibers /\ "session" \notin Pages /\ Null \notin Fibers
  BY BrowserAssumption DEF Fibers
<1>n. Null \notin Sessions BY SessionsAssumption
<1>h. \A b \in Fibers : ~Waits(t, b, "idle") => Has(t, b) /\ status[t] # "closed"
  BY <1>0 DEF CallOfFiber, StatusOfFiber, Waits
<1>s. status[t] # "closed" => Has(t, "session") BY <1>0 DEF StatusOfFiber
<1>c. \A b \in Fibers : Has(t, b) => <<t, b>> \in Calls BY DEF Has, BrowserOK
<1>q. NoCall.at = "none" BY DEF NoCall
<1>r. \A op, w : Sent(op, w).at = "sent" /\ Sent(op, w).op = op /\ Sent(op, w).with = w BY DEF Sent
\* A step that asks, takes no refresh's answer and brings no session.
<1>ask. ASSUME serverUnchanged, NEW b \in Fibers, NEW what, NEW request,
               Ask(t, b, what, request), Has(t, b), ~Waits(t, b, "refresh"),
               \/ request.at = "none" /\ what # "refresh"
               \/ request.at = "sent" /\ what # "refresh" /\ request.op # "refresh"
               \/ /\ request.at = "sent" /\ what = "refresh" /\ request.with = cookie
                  /\ \A x \in Fibers : ~Waits(t, x, "refresh"),
               cookie' \in {cookie, Null}, \A u \in Tabs : token'[u] \in {token[u], Null}
        PROVE  /\ NoReplay' /\ ReuseHasACause'
               /\ \A q \in Sessions : Holds(t, q)' => Holds(t, q)
               /\ b = "session" => fiber'[t]["session"] = what /\ call'[c] = request
               /\ b \in Pages /\ status[t] # "closed" /\ UNCHANGED <<cookie, status, shown, abandoned>> =>
                    OneFamily(t)'
  <2>1. NoReplay' /\ \A u \in Tabs, q \in Sessions : Holds(u, q)' => Holds(u, q) BY <1>ask, AskNoReplay
  <2>2. \A d \in Calls : call'[d] = call[d] \/ call'[d].at \in {"none", "sent"} BY <1>ask, AskNoReplay
  <2>3. ReuseHasACause' BY <1>ask, <2>2, ReuseTab
  <2>4. /\ \A x \in Fibers : fiber'[t][x] = IF x = b THEN what ELSE fiber[t][x]
        /\ \A d \in Calls : call'[d] = IF d = <<t, b>> THEN request ELSE call[d]
    BY <1>ask, AskFacts
  <2>5. ASSUME b \in Pages, status[t] # "closed", UNCHANGED <<cookie, status, shown, abandoned>>
        PROVE  OneFamily(t)'
    <3>1. c \in Calls /\ c # <<t, b>> BY <1>c, <1>f, <1>s, <2>5
    <3>2. call'[c] = call[c] /\ fiber'[t]["session"] = fiber[t]["session"] BY <1>f, <2>4, <2>5, <3>1
    <3>3. OneFamily(t) /\ \A q \in Sessions : Holds(t, q)' => Holds(t, q) BY <2>1, <2>5
    <3> QED BY <1>ask, <2>5, <3>2, <3>3, OneFamilyPage
  <2> QED BY <1>ask, <1>c, <1>f, <2>1, <2>3, <2>4, <2>5
\* A tab without a proper owner has nothing but what is harmless.
<1>none. ASSUME status[t] # "closed", \A q \in Sessions : ~Proper(t, q)
         PROVE  \A q \in Sessions : Holds(t, q) => Harmless(q)
  BY <1>none DEF OneFamily
<1>k. ASSUME serverUnchanged, abandoned \subseteq abandoned' PROVE \A q : Harmless(q) => Harmless(q)'
  BY <1>k DEF Harmless, serverUnchanged, FamilyOf
<1>1. ASSUME Load(t) PROVE Goal
  <2>1. PICK r : r = Sent("refresh", cookie) OBVIOUS
  <2>2. r.at = "sent" /\ r.op = "refresh" /\ r.with = cookie BY <1>r, <2>1
  <2>3. /\ Ask(t, "session", "refresh", r) /\ Has(t, "session") /\ serverUnchanged
        /\ \A b \in Fibers : Waits(t, b, "idle")
        /\ token' = [token EXCEPT ![t] = Null] /\ status' = [status EXCEPT ![t] = "checking"]
        /\ UNCHANGED <<cookie, abandoned>>
    BY <1>1, <2>1 DEF Load, restUnchanged
  <2>4. /\ \A x \in Fibers : ~Waits(t, x, "refresh")
        /\ cookie' \in {cookie, Null} /\ \A u \in Tabs : token'[u] \in {token[u], Null}
    BY <1>0, <2>3 DEF Waits
  <2>5. /\ NoReplay' /\ ReuseHasACause'
        /\ fiber'[t]["session"] = "refresh" /\ call'[c] = r
    BY <1>f, <1>ask, <2>2, <2>3, <2>4
  <2>6. status'[t] = "checking" BY <1>0, <2>3
  <2> QED BY <2>2, <2>3, <2>5, <2>6 DEF Goal, OneFamily, Proper, Bootstrap, Waits, At
<1>2. ASSUME NEW u \in Users, SignIn(t, u) PROVE Goal
  <2>1. PICK r : r = Sent("login", u) OBVIOUS
  <2>2. r.at = "sent" /\ r.op = "login" BY <1>r, <2>1
  <2>3. /\ Ask(t, "session", "login", r) /\ serverUnchanged
        /\ status[t] = "unauthenticated" /\ Waits(t, "session", "idle")
        /\ UNCHANGED <<cookie, token, abandoned>>
    BY <1>2, <2>1 DEF SignIn, restUnchanged
  <2>4. /\ Has(t, "session") /\ ~Waits(t, "session", "refresh")
        /\ cookie' \in {cookie, Null} /\ \A v \in Tabs : token'[v] \in {token[v], Null}
    BY <1>0, <1>s, <2>3 DEF Waits
  <2>5. /\ NoReplay' /\ ReuseHasACause'
        /\ \A q \in Sessions : Holds(t, q)' => Holds(t, q)
        /\ fiber'[t]["session"] = "login"
    BY <1>f, <1>ask, <2>2, <2>3, <2>4
  <2>6. \A q \in Sessions : ~Proper(t, q) BY <2>3 DEF Proper, Waits
  <2>7. \A q \in Sessions : Holds(t, q) => Harmless(q)' BY <1>none, <1>k, <2>3, <2>6
  <2> QED BY <2>5, <2>7 DEF Goal, OneFamily, Bootstrap, Waits
<1>3. ASSUME SignOut(t) PROVE Goal
  <2>1. PICK r : r = Sent("logout", cookie) OBVIOUS
  <2>2. r.at = "sent" /\ r.op = "logout" /\ r.with = cookie BY <1>r, <2>1
  <2>3. /\ Ask(t, "session", "logout", r) /\ serverUnchanged
        /\ status[t] = "authenticated" /\ Waits(t, "session", "idle")
        /\ UNCHANGED <<cookie, token, shown, abandoned>>
    BY <1>3, <2>1 DEF SignOut, restUnchanged
  <2>4. /\ Has(t, "session") /\ ~Waits(t, "session", "refresh")
        /\ cookie' \in {cookie, Null} /\ \A v \in Tabs : token'[v] \in {token[v], Null}
    BY <1>0, <1>s, <2>3 DEF Waits
  <2>5. /\ NoReplay' /\ ReuseHasACause'
        /\ \A q \in Sessions : Holds(t, q)' => Holds(t, q)
        /\ fiber'[t]["session"] = "logout" /\ call'[c] = r
    BY <1>f, <1>ask, <2>2, <2>3, <2>4
  <2>6. ASSUME NEW q \in Sessions, Proper(t, q) PROVE Proper(t, q)'
    <3>1. cookie # Null /\ FamilyOf(q) = FamilyOf(cookie) /\ session[q].user = shown[t]
      BY <2>3, <2>6 DEF Proper, Waits
    <3> QED BY <2>2, <2>3, <2>5, <3>1 DEF Proper, Waits, At, FamilyOf, serverUnchanged
  <2>7. \A q \in Sessions : Holds(t, q)' => Harmless(q)' \/ Proper(t, q)'
    BY <1>k, <2>3, <2>5, <2>6 DEF OneFamily
  <2> QED BY <2>5, <2>7 DEF Goal, OneFamily, Bootstrap, Waits
<1>4. ASSUME NEW b \in Pages, Request(t, b) \/ TakeAgain(t, b) PROVE Goal
  <2>1. PICK r : r = Sent("page", token[t]) OBVIOUS
  <2>2. r.at = "sent" /\ r.op = "page" BY <1>r, <2>1
  <2>3. /\ Ask(t, b, "first", r) \/ Ask(t, b, "idle", NoCall)
        /\ serverUnchanged
        /\ Waits(t, b, "idle") \/ Waits(t, b, "again")
        /\ Has(t, b) /\ status[t] # "closed"
        /\ UNCHANGED <<cookie, token, status, shown, abandoned>>
    BY <1>4, <1>h, <1>f, <2>1 DEF Request, TakeAgain, restUnchanged, Settle, Answered, Waits
  <2>4. /\ ~Waits(t, b, "refresh") /\ b \in Fibers
        /\ cookie' \in {cookie, Null} /\ \A v \in Tabs : token'[v] \in {token[v], Null}
    BY <1>f, <2>3 DEF Waits
  <2>5. CASE Ask(t, b, "first", r) BY <1>ask, <2>2, <2>3, <2>4, <2>5 DEF Goal
  <2>6. CASE Ask(t, b, "idle", NoCall) BY <1>ask, <1>q, <2>3, <2>4, <2>6 DEF Goal
  <2> QED BY <2>3, <2>5, <2>6
<1>5. ASSUME NEW b \in Pages, TakePage(t, b) PROVE Goal
  <2>1. PICK r : r = Sent("page", token[t]) OBVIOUS
  <2>2. r.at = "sent" /\ r.op = "page" BY <1>r, <2>1
  <2>3. PICK w : w = Sent("refresh", cookie) OBVIOUS
  <2>4. w.at = "sent" /\ w.op = "refresh" /\ w.with = cookie BY <1>r, <2>3
  <2>5. /\ \/ Ask(t, b, "idle", NoCall) \/ Ask(t, b, "again", r) \/ Ask(t, b, "joined", NoCall)
           \/ Ask(t, b, "refresh", w) /\ promise[t] = Null
        /\ serverUnchanged /\ Waits(t, b, "first")
        /\ UNCHANGED <<cookie, token, status, shown, abandoned>>
    <3>1. /\ \/ Settle(t, b)
             \/ Ask(t, b, "again", Sent("page", token[t]))
             \/ MayRefresh(t) /\ Ask(t, b, "refresh", Sent("refresh", cookie))
             \/ Ask(t, b, "joined", NoCall)
          /\ UNCHANGED <<cookie, token, status, shown>> /\ restUnchanged /\ Answered(t, b, "first")
      BY <1>5, <1>f, Zenon DEF TakePage
    <3> QED BY <2>1, <2>3, <3>1 DEF Settle, MayRefresh, restUnchanged, Answered
  <2>6. /\ ~Waits(t, b, "refresh") /\ b \in Fibers /\ Has(t, b) /\ status[t] # "closed"
        /\ cookie' \in {cookie, Null} /\ \A v \in Tabs : token'[v] \in {token[v], Null}
        /\ b # "session"
    BY <1>f, <1>h, <2>5 DEF Waits
  <2>7. CASE Ask(t, b, "idle", NoCall) BY <1>ask, <1>q, <2>5, <2>6, <2>7 DEF Goal
  <2>8. CASE Ask(t, b, "again", r) BY <1>ask, <2>2, <2>5, <2>6, <2>8 DEF Goal
  <2>9. CASE Ask(t, b, "joined", NoCall) BY <1>ask, <1>q, <2>5, <2>6, <2>9 DEF Goal
  <2>10. CASE Ask(t, b, "refresh", w) /\ promise[t] = Null
    <3>1. \A x \in Fibers : ~Waits(t, x, "refresh") BY <1>0, <1>f, <2>10
    <3> QED BY <1>ask, <2>4, <2>5, <2>6, <2>10, <3>1 DEF Goal
  <2> QED BY <2>5, <2>7, <2>8, <2>9, <2>10
<1>6. ASSUME TakeLogin(t) PROVE Goal
  <2>1. /\ Waits(t, "session", "login") /\ At(c, "answer") /\ serverUnchanged
        /\ UNCHANGED <<status, shown, promise, abandoned>> /\ Has(t, "session")
    BY <1>6, <1>f, <1>h DEF TakeLogin, Answered, restUnchanged, Waits
  <2>2. /\ \A q \in Sessions : ~Proper(t, q)
        /\ status[t] = "unauthenticated" /\ ~Waits(t, "session", "refresh")
    BY <1>0, <2>1 DEF Proper, Waits, StatusOfFiber
  <2>3. \A q \in Sessions : Holds(t, q) => Harmless(q)' BY <1>none, <1>k, <2>1, <2>2
  <2>4. CASE ~Ok(t, "session")
    <3>1. Ask(t, "session", "idle", NoCall) /\ UNCHANGED <<cookie, token>>
      BY <1>6, <2>4 DEF TakeLogin, Settle
    <3>2. cookie' \in {cookie, Null} /\ \A v \in Tabs : token'[v] \in {token[v], Null} BY <3>1
    <3>3. /\ NoReplay' /\ ReuseHasACause'
          /\ \A q \in Sessions : Holds(t, q)' => Holds(t, q)
          /\ fiber'[t]["session"] = "idle"
      BY <1>ask, <1>f, <1>q, <2>1, <2>2, <3>1, <3>2
    <3> QED BY <2>3, <3>3 DEF Goal, OneFamily, Bootstrap, Waits
  <2>5. CASE Ok(t, "session")
    <3>1. PICK s : s = AnswerTo(t, "session").got OBVIOUS
    <3>2. PICK r : r = Sent("me", s) OBVIOUS
    <3>3. r.at = "sent" /\ r.op = "me" /\ r.with = s BY <1>r, <3>2
    <3>4. /\ cookie' = s /\ token' = [token EXCEPT ![t] = s] /\ Ask(t, "session", "me", r)
      BY <1>6, <2>5, <3>1, <3>2 DEF TakeLogin
    <3>5. /\ c \in Calls /\ call[c].code = "ok" /\ call[c].op = "login" /\ call[c].got = s
      BY <1>0, <1>c, <1>f, <2>1, <2>5, <3>1 DEF CallOfFiber, Waits, Ok, AnswerTo
    <3>6. s \in Sessions BY <2>1, <3>5 DEF BrowserOK, IsA
    <3>7. Given(c, s) /\ Over(s) BY <2>1, <3>5, <3>6 DEF Given, NoReplay
    <3>8. /\ \A x \in Fibers : fiber'[t][x] = IF x = "session" THEN "me" ELSE fiber[t][x]
          /\ \A d \in Calls : call'[d] = IF d = c THEN r ELSE call[d]
      BY <1>f, <3>4, AskFacts
    <3>9. NoReplay'
      <4>1. \A d \in Calls : \/ call'[d] = call[d]
                             \/ call'[d].at = "none"
                             \/ /\ call'[d].at = "sent"
                                /\ call'[d].op = "refresh" /\ call'[d].with # Null => Over(call'[d].with)
        BY <3>3, <3>8
      <4>2. ASSUME NEW d \in Calls, NEW q \in Sessions, call'[d] = call[d], Given(d, q), call[d].op = "login"
            PROVE  FALSE
        <5>1. ~At(d, "none") BY <4>2 DEF Given, At
        <5>2. PICK u \in Tabs, b \in Fibers : d = <<u, b>> /\ status[u] # "closed" /\ b = "session"
          BY <4>2, <5>1, WhoseCall
        <5>3. d = c BY <5>2
        <5>4. call'[c] = r BY <3>5, <3>8
        <5> QED BY <2>1, <3>3, <4>2, <5>3, <5>4 DEF At
      <4>3. Over(cookie') BY <3>4, <3>7
      <4> QED BY <2>1, <4>1, <4>2, <4>3, NoReplayTab
    <3>10. ReuseHasACause'
      <4>1. \A d \in Calls : call'[d] = call[d] \/ call'[d].at \in {"none", "sent"} BY <3>3, <3>8
      <4> QED BY <2>1, <4>1, ReuseTab
    <3>11. ASSUME NEW q \in Sessions, Holds(t, q)' PROVE Harmless(q)' \/ Proper(t, q)'
      <4>1. Holds(t, q) \/ q = s
        <5>1. \/ q = cookie' \/ q = token'[t]
              \/ \E x \in Fibers : Waits(t, x, "refresh") /\ InHand(<<t, x>>, q)
          BY <1>f, <2>1, <3>3, <3>4, <3>11, AskHolds
        <5> QED BY <1>0, <3>4, <5>1 DEF Holds
      <4>2. Proper(t, s)'
        <5>1. fiber'[t]["session"] = "me" /\ call'[c] = r BY <1>f, <3>5, <3>8
        <5> QED BY <1>n, <3>3, <3>4, <3>6, <5>1 DEF Proper, Waits, At
      <4> QED BY <2>3, <3>11, <4>1, <4>2
    <3>12. Bootstrap(t)' BY <1>f, <3>8 DEF Bootstrap, Waits
    <3> QED BY <3>9, <3>10, <3>11, <3>12 DEF Goal, OneFamily
  <2> QED BY <2>4, <2>5
<1>7. ASSUME TakeMe(t) PROVE Goal
  <2>1. /\ Waits(t, "session", "me") /\ At(c, "answer") /\ serverUnchanged /\ Has(t, "session")
        /\ Ask(t, "session", "idle", NoCall) /\ UNCHANGED cookie
        /\ abandoned \subseteq abandoned' /\ status[t] # "closed"
        /\ \A v \in Tabs : token'[v] \in {token[v], Null}
    BY <1>0, <1>7, <1>f, <1>h DEF TakeMe, Answered, Waits, Settle
  <2>2. ~Waits(t, "session", "refresh") /\ cookie' \in {cookie, Null} BY <2>1 DEF Waits
  <2>3. /\ NoReplay' /\ ReuseHasACause'
        /\ \A q \in Sessions : Holds(t, q)' => Holds(t, q)
        /\ fiber'[t]["session"] = "idle" /\ call'[c] = NoCall
    BY <1>ask, <1>f, <1>q, <2>1, <2>2
  <2>4. ASSUME NEW q \in Sessions, Proper(t, q) PROVE Harmless(q)' \/ Proper(t, q)'
    <3>1. cookie # Null /\ FamilyOf(q) = FamilyOf(cookie) /\ (Ok(t, "session") => session[q].user = call[c].got)
      BY <2>1, <2>4 DEF Proper, Waits
    <3>2. CASE Ok(t, "session")
      <4>1. status'[t] = "authenticated" /\ shown'[t] = call[c].got
        BY <1>0, <1>7, <3>2 DEF TakeMe, SignedIn, AnswerTo
      <4> QED BY <2>1, <2>3, <3>1, <3>2, <4>1 DEF Proper, Waits, FamilyOf, serverUnchanged
    <3>3. CASE ~Ok(t, "session")
      <4>1. FamilyOf(cookie) \in abandoned' BY <1>7, <3>1, <3>3 DEF TakeMe
      <4> QED BY <2>1, <3>1, <4>1 DEF Harmless, FamilyOf, serverUnchanged
    <3> QED BY <3>2, <3>3
  <2>5. \A q \in Sessions : Holds(t, q)' => Harmless(q)' \/ Proper(t, q)'
    BY <1>k, <2>1, <2>3, <2>4 DEF OneFamily
  <2> QED BY <2>3, <2>5 DEF Goal, OneFamily, Bootstrap, Waits
<1>8. ASSUME TakeLogout(t) PROVE Goal
  <2>1. /\ Waits(t, "session", "logout") /\ At(c, "answer") /\ serverUnchanged /\ Has(t, "session")
        /\ Ask(t, "session", "idle", NoCall) /\ cookie' \in {cookie, Null}
        /\ UNCHANGED abandoned /\ status[t] # "closed"
        /\ \A v \in Tabs : token'[v] \in {token[v], Null}
    BY <1>0, <1>8, <1>f, <1>h DEF TakeLogout, Answered, Waits, Settle, restUnchanged
  <2>2. ~Waits(t, "session", "refresh") BY <2>1 DEF Waits
  <2>3. /\ NoReplay' /\ ReuseHasACause'
        /\ \A q \in Sessions : Holds(t, q)' => Holds(t, q)
        /\ fiber'[t]["session"] = "idle"
    BY <1>ask, <1>f, <1>q, <2>1, <2>2
  <2>4. \A q \in Sessions : ~Proper(t, q) BY <2>1 DEF Proper, Waits
  <2>5. \A q \in Sessions : Holds(t, q) => Harmless(q)' BY <1>none, <1>k, <2>1, <2>4
  <2> QED BY <2>3, <2>5 DEF Goal, OneFamily, Bootstrap, Waits
<1>9. ASSUME NEW b \in Fibers, TakeRefresh(t, b) PROVE Goal
  <2>1. PICK s : s = AnswerTo(t, b).got OBVIOUS
  <2>2. PICK me, page : me = Sent("me", s) /\ page = Sent("page", s) OBVIOUS
  <2>3. /\ me.at = "sent" /\ me.op = "me" /\ me.with = s /\ page.at = "sent" /\ page.op = "page"
    BY <1>r, <2>2
  <2>4. /\ Waits(t, b, "refresh") /\ At(<<t, b>>, "answer") /\ Has(t, b) /\ status[t] # "closed"
        /\ <<t, b>> \in Calls
        /\ cookie' = s /\ token' = [token EXCEPT ![t] = s] /\ promise' = [promise EXCEPT ![t] = Null]
        /\ UNCHANGED <<status, shown, abandoned>> /\ serverUnchanged
    BY <1>9, <1>c, <1>h, <2>1 DEF TakeRefresh, Answered, Waits, restUnchanged
  <2>5. call[<<t, b>>].code = "ok" /\ call[<<t, b>>].op = "refresh" /\ call[<<t, b>>].got = s
    BY <1>0, <1>9, <2>1, <2>4 DEF CallOfFiber, TakeRefresh, Waits, Ok, AnswerTo
  <2>6. s \in Sessions /\ s # Null BY <1>n, <2>4, <2>5 DEF BrowserOK, IsA
  <2>7. Given(<<t, b>>, s) /\ Over(s) BY <2>4, <2>5, <2>6 DEF Given, NoReplay
  <2>8. Holds(t, s) BY <2>4, <2>5 DEF Holds, InHand
  <2>9. /\ fiber' = [fiber EXCEPT ![t] = [x \in Fibers |->
             IF x \in GoingOn(t, b) THEN (IF x = "session" THEN "me" ELSE "again") ELSE @[x]]]
        /\ call' = [d \in Calls |->
             IF d[1] = t /\ d[2] \in GoingOn(t, b) THEN (IF d[2] = "session" THEN me ELSE page) ELSE call[d]]
    <3>1. \A x : (IF x = "session" THEN me ELSE page) = Sent(IF x = "session" THEN "me" ELSE "page", s)
      BY <2>2
    <3> QED BY <1>9, <2>1, <3>1 DEF TakeRefresh
  <2>10. /\ \A u \in Tabs \ {t} : fiber'[u] = fiber[u]
         /\ \A x \in Fibers : fiber'[t][x] = IF x \in GoingOn(t, b)
                                             THEN (IF x = "session" THEN "me" ELSE "again") ELSE fiber[t][x]
         /\ \A u \in Tabs, x \in Fibers : <<u, x>> \in Calls =>
              call'[<<u, x>>] = IF u = t /\ x \in GoingOn(t, b)
                                THEN (IF x = "session" THEN me ELSE page) ELSE call[<<u, x>>]
         /\ \A d \in Calls : call'[d] \in {call[d], me, page}
    BY <1>0, <2>9
  <2>11. b \in GoingOn(t, b) BY DEF GoingOn
  <2>12. "session" \in GoingOn(t, b) => b = "session"
    BY <1>0, <1>f DEF GoingOn, CallOfFiber, Waits
  <2>13. \A x \in Fibers : ~Waits(t, x, "refresh")'
    <3> SUFFICES ASSUME NEW x \in Fibers, fiber'[t][x] = "refresh" PROVE FALSE BY DEF Waits
    <3>1. x \notin GoingOn(t, b) /\ fiber[t][x] = "refresh" BY <2>10
    <3> QED BY <1>0, <2>4, <2>11, <3>1 DEF Waits
  <2>14. \A q \in Sessions : Holds(t, q)' => q = s BY <1>0, <2>4, <2>13 DEF Holds
  <2>15. ASSUME NEW u \in Tabs \ {t}, NEW q \in Sessions, Holds(u, q)' PROVE Holds(u, q) \/ q = s
    <3>1. token'[u] = token[u] BY <1>0, <2>4
    <3>2. ASSUME NEW x \in Fibers, Waits(u, x, "refresh")', InHand(<<u, x>>, q)' PROVE Holds(u, q)
      <4>1. fiber[u][x] = "refresh" BY <2>10, <3>2 DEF Waits
      <4>2. <<u, x>> \in Calls BY <4>1 DEF BrowserOK, CallOfFiber, Has
      <4>3. call'[<<u, x>>] = call[<<u, x>>] BY <2>10, <4>2
      <4> QED BY <3>2, <4>1, <4>3 DEF Holds, Waits, InHand, At
    <3> QED BY <2>4, <2>15, <3>1, <3>2 DEF Holds
  <2>16. NoReplay'
    <3>1. \A d \in Calls : \/ call'[d] = call[d]
                           \/ call'[d].at = "none"
                           \/ /\ call'[d].at = "sent"
                              /\ call'[d].op = "refresh" /\ call'[d].with # Null => Over(call'[d].with)
      BY <2>3, <2>10
    <3>2. \A d \in Calls, q \in Sessions, u \in Tabs :
            call'[d] = call[d] /\ Given(d, q) /\ call[d].op = "login" /\ Holds(u, q)' =>
              \E v \in Tabs : Holds(v, q)
      BY <2>8, <2>14, <2>15
    <3>3. Over(cookie') BY <2>4, <2>7
    <3> QED BY <2>4, <3>1, <3>2, <3>3, NoReplayTab
  <2>17. ReuseHasACause'
    <3>1. \A d \in Calls : call'[d] = call[d] \/ call'[d].at \in {"none", "sent"} BY <2>3, <2>10
    <3> QED BY <2>4, <3>1, ReuseTab
  <2>18. Harmless(s)' \/ Proper(t, s)'
    <3>1. Harmless(s) \/ Proper(t, s) BY <2>4, <2>6, <2>8 DEF OneFamily
    <3>2. CASE Harmless(s) BY <1>k, <2>4, <3>2
    <3>3. CASE b = "session"
      <4>1. fiber'[t]["session"] = "me" /\ call'[c] = me BY <1>f, <2>4, <2>10, <2>11, <3>3
      <4> QED BY <2>3, <2>4, <2>6, <4>1 DEF Proper, Waits, At
    <3>4. CASE b # "session" /\ Proper(t, s)
      <4>1. c \in Calls BY <1>c, <1>f, <1>s, <2>4
      <4>2. fiber'[t]["session"] = fiber[t]["session"] /\ call'[c] = call[c]
        BY <1>f, <2>10, <2>12, <3>4, <4>1
      <4>3. ~Waits(t, "session", "refresh") BY <1>0, <1>f, <2>4, <3>4
      <4> QED BY <2>4, <2>6, <3>4, <4>2, <4>3 DEF Proper, Waits, At, Ok, AnswerTo, FamilyOf, serverUnchanged
    <3> QED BY <3>1, <3>2, <3>3, <3>4
  <2>19. OneFamily(t)' BY <1>f, <2>13, <2>14, <2>18 DEF OneFamily, Bootstrap
  <2> QED BY <2>16, <2>17, <2>19 DEF Goal
<1>10. ASSUME NEW b \in Fibers, FailRefresh(t, b) PROVE Goal
  <2>1. /\ Waits(t, b, "refresh") /\ At(<<t, b>>, "answer") /\ Has(t, b) /\ status[t] # "closed"
        /\ <<t, b>> \in Calls /\ ~Ok(t, b)
        /\ token' = [token EXCEPT ![t] = Null] /\ promise' = [promise EXCEPT ![t] = Null]
        /\ fiber' = [fiber EXCEPT ![t] = [x \in Fibers |-> IF x \in GoingOn(t, b) THEN "idle" ELSE @[x]]]
        /\ call' = [call EXCEPT ![<<t, b>>] = NoCall]
        /\ UNCHANGED <<cookie, abandoned>> /\ serverUnchanged
    BY <1>10, <1>c, <1>h DEF FailRefresh, Answered, Waits, restUnchanged
  <2>2. /\ \A u \in Tabs \ {t} : fiber'[u] = fiber[u]
        /\ \A x \in Fibers : fiber'[t][x] = IF x \in GoingOn(t, b) THEN "idle" ELSE fiber[t][x]
        /\ \A d \in Calls : call'[d] = IF d = <<t, b>> THEN NoCall ELSE call[d]
    BY <1>0, <2>1
  <2>3. b \in GoingOn(t, b) BY DEF GoingOn
  <2>4. "session" \in GoingOn(t, b) => b = "session"
    BY <1>0, <1>f DEF GoingOn, CallOfFiber, Waits
  <2>5. \A x \in Fibers : ~Waits(t, x, "refresh")'
    <3> SUFFICES ASSUME NEW x \in Fibers, fiber'[t][x] = "refresh" PROVE FALSE BY DEF Waits
    <3>1. x \notin GoingOn(t, b) /\ fiber[t][x] = "refresh" BY <2>2
    <3> QED BY <1>0, <2>1, <2>3, <3>1 DEF Waits
  <2>6. \A q \in Sessions : Holds(t, q)' => q = cookie BY <1>0, <1>n, <2>1, <2>5 DEF Holds
  <2>7. ASSUME NEW u \in Tabs \ {t}, NEW q \in Sessions, Holds(u, q)' PROVE Holds(u, q)
    <3>1. token'[u] = token[u] BY <1>0, <2>1
    <3>2. ASSUME NEW x \in Fibers, Waits(u, x, "refresh")', InHand(<<u, x>>, q)' PROVE Holds(u, q)
      <4>1. fiber[u][x] = "refresh" BY <2>2, <3>2 DEF Waits
      <4>2. <<u, x>> \in Calls BY <4>1 DEF BrowserOK, CallOfFiber, Has
      <4>3. call'[<<u, x>>] = call[<<u, x>>] BY <2>2, <4>2
      <4> QED BY <3>2, <4>1, <4>3 DEF Holds, Waits, InHand, At
    <3> QED BY <2>1, <2>7, <3>1, <3>2 DEF Holds
  <2>8. \A d \in Calls : Given(d, call[d].got) /\ call[d].op = "refresh" => call'[d] = call[d]
    BY <2>1, <2>2 DEF Given, Ok, AnswerTo
  <2>9. NoReplay'
    <3>1. \A d \in Calls : \/ call'[d] = call[d]
                           \/ call'[d].at = "none"
                           \/ /\ call'[d].at = "sent"
                              /\ call'[d].op = "refresh" /\ call'[d].with # Null => Over(call'[d].with)
      BY <1>q, <2>2
    <3>2. \A d \in Calls, q \in Sessions, u \in Tabs :
            call'[d] = call[d] /\ Given(d, q) /\ call[d].op = "login" /\ Holds(u, q)' =>
              \E v \in Tabs : Holds(v, q)
      BY <2>6, <2>7 DEF Holds
    <3> QED BY <2>1, <2>8, <3>1, <3>2, NoReplayTab
  <2>10. ReuseHasACause'
    <3>1. \A d \in Calls : call'[d] = call[d] \/ call'[d].at \in {"none", "sent"} BY <1>q, <2>2
    <3> QED BY <2>1, <3>1, ReuseTab
  <2>11. ASSUME cookie \in Sessions PROVE Harmless(cookie)' \/ Proper(t, cookie)'
    <3>1. Harmless(cookie) => Harmless(cookie)' BY <1>k, <2>1
    <3>2. CASE b = "session"
      <4>1. Harmless(cookie) BY <1>f, <1>n, <2>1, <2>11, <3>2 DEF OneFamily, Bootstrap
      <4> QED BY <3>1, <4>1
    <3>3. CASE b # "session"
      <4>1. c \in Calls /\ UNCHANGED <<status, shown>> BY <1>10, <1>c, <1>f, <1>s, <2>1, <3>3 DEF FailRefresh
      <4>2. fiber'[t]["session"] = fiber[t]["session"] /\ call'[c] = call[c]
        BY <1>f, <2>2, <2>4, <3>3, <4>1
      <4>3. Harmless(cookie) \/ Proper(t, cookie) BY <2>1, <2>11 DEF OneFamily, Holds
      <4>4. Proper(t, cookie) => Proper(t, cookie)'
        BY <2>1, <4>1, <4>2 DEF Proper, Waits, At, Ok, AnswerTo, FamilyOf, serverUnchanged
      <4> QED BY <3>1, <4>3, <4>4
    <3> QED BY <3>2, <3>3
  <2>12. \A q \in Sessions : Holds(t, q)' => Harmless(q)' \/ Proper(t, q)' BY <2>1, <2>6, <2>11
  <2>13. Bootstrap(t)' BY <1>f, <2>5 DEF Bootstrap
  <2> QED BY <2>9, <2>10, <2>12, <2>13 DEF Goal, OneFamily
<1> QED BY <1>1, <1>2, <1>3, <1>4, <1>5, <1>6, <1>7, <1>8, <1>9, <1>10 DEF Tab

\* What goes on around the calls.
LEMMA NoReplaySurroundings ==
  ASSUME IInv, BrowserOK, Grow, UNCHANGED browser, NoReplay, Quiet, ReuseHasACause, Surroundings
  PROVE  NoReplay' /\ ReuseHasACause'
<1> USE DEF browser
<1>1. call' = call /\ ended' = ended BY DEF Surroundings, Expire, DisableUser
<1>2. \A s \in Sessions : Exists(s) => session'[s].revoked = session[s].revoked /\ FamilyOf(s)' = FamilyOf(s)
  <2>1. ASSUME NEW r \in Sessions, Expire(r), NEW s \in Sessions, Exists(s)
        PROVE  session'[s].revoked = session[s].revoked
    <3>1. session' = [session EXCEPT ![r].expired = TRUE] BY <2>1 DEF Expire
    <3>2. s # r => session'[s] = session[s] BY <3>1 DEF IInv, TypeOK
    <3>3. session'[r] = [session[r] EXCEPT !.expired = TRUE] BY <3>1 DEF IInv, TypeOK
    <3>4. r = s => session[s] \in Rows BY <2>1 DEF IInv, TypeOK, Exists
    <3>5. r = s => session'[s].revoked = session[s].revoked BY <3>3, <3>4 DEF Rows
    <3> QED BY <3>2, <3>5
  <2> QED BY <2>1 DEF Surroundings, DisableUser, Grow
<1>3. \A s \in Sessions : Exists(s) /\ Over(s) => Over(s)' BY <1>1, <1>2 DEF Over
<1>4. \A d \in Calls : ~At(d, "none") /\ call[d].with \in Sessions => Exists(call[d].with) BY DEF IInv, HeldExists
<1>5. cookie # Null => cookie \in Sessions /\ Exists(cookie) BY DEF BrowserOK, IsA
<1>6. cookie # Null => Over(cookie)' \/ \E d \in Calls : Given(d, call[d].got)' /\ call'[d].op = "refresh"
  <2>1. \A d \in Calls : Given(d, call[d].got) => Given(d, call[d].got)' BY <1>1 DEF Given, At
  <2> QED BY <1>1, <1>3, <1>5, <2>1 DEF NoReplay, Over, FamilyOf
<1>7. ASSUME NEW d \in Calls, At(d, "sent") \/ At(d, "rotate"), call[d].with \in Sessions, Over(call[d].with)
      PROVE  session'[call'[d].with].revoked => session'[call'[d].with].family \in ended'
  <2>1. PICK w \in Sessions : w = call[d].with BY <1>7
  <2>2. Exists(w) BY <1>4, <1>7, <2>1 DEF At
  <2> QED BY <1>1, <1>3, <1>7, <2>1, <2>2 DEF Over, FamilyOf
<1>8. \A d \in Calls : /\ At(d, "sent") /\ call[d].op = "refresh" /\ call[d].with # Null => call[d].with \in Sessions
                       /\ At(d, "rotate") => call[d].with \in Sessions
  <2>1. \A d \in Calls : call[d] \in CallTypes BY DEF IInv, TypeOK
  <2> QED BY <2>1 DEF CallTypes, NoCall, At
<1>9. ASSUME NEW d \in Calls, NEW s \in Sessions, Given(d, s)
      PROVE  /\ session'[s].revoked => session'[s].family \in ended'
             /\ call[d].op = "login" => \A u \in Tabs : ~Holds(u, s)'
  <2>1. Exists(s) /\ Over(s) BY <1>9 DEF Given, BrowserOK, IsA, NoReplay
  <2>2. call[d].op = "login" => \A u \in Tabs : ~Holds(u, s) BY <1>9 DEF NoReplay
  <2>3. \A u \in Tabs : Holds(u, s)' <=> Holds(u, s) BY <1>1 DEF Holds, Waits, InHand, At
  <2> QED BY <1>3, <2>1, <2>2, <2>3 DEF Over, FamilyOf
<1>10. NoReplay'
  <2>1. ASSUME NEW d \in Calls, At(d, "sent")', call'[d].op = "refresh", call'[d].with # Null
        PROVE  session'[call'[d].with].revoked => session'[call'[d].with].family \in ended'
    BY <1>1, <1>7, <1>8, <2>1 DEF NoReplay, At
  <2>2. ASSUME NEW d \in Calls, At(d, "rotate")'
        PROVE  session'[call'[d].with].revoked => session'[call'[d].with].family \in ended'
    BY <1>1, <1>7, <1>8, <2>2 DEF NoReplay, At
  <2>3. \A d \in Calls, s \in Sessions : Given(d, s)' => Given(d, s) BY <1>1 DEF Given, At
  <2> QED BY <1>1, <1>6, <1>9, <2>1, <2>2, <2>3 DEF NoReplay, Over, FamilyOf
<1>11. ReuseHasACause'
  <2>1. ASSUME NEW d \in Calls, At(d, "revoke")', call'[d].reason = "reused"
        PROVE  session'[call'[d].with].expired \/ session'[call'[d].with].family \in ended'
    BY <1>1, <2>1, ReuseKept
  <2> QED BY <2>1 DEF ReuseHasACause, FamilyOf
<1> QED BY <1>10, <1>11

\* A page that was loaded stays loaded, and a loss is remembered.
LEMMA QuietBefore ==
  ASSUME BrowserOK, [Next]_vars, Quiet'
  PROVE  Quiet /\ ~lost'
<1>1. \A t \in Tabs : status[t] # "closed" => status'[t] # "closed"
  <2>1. ASSUME NEW t \in Tabs, Tab(t) PROVE \A u \in Tabs : status[u] # "closed" => status'[u] # "closed"
    BY <2>1 DEF BrowserOK, Tab, Load, SignIn, SignOut, Request, TakeLogin, TakeMe, TakeLogout, TakePage,
       TakeAgain, TakeRefresh, FailRefresh, SignedIn, SignedOut
  <2> QED BY <2>1 DEF Next, vars, browser
<1>2. lost => lost'
  <2>1. ASSUME NEW t \in Tabs, Tab(t) PROVE lost' = lost
    BY <2>1 DEF Tab, Load, SignIn, SignOut, Request, TakeLogin, TakeMe, TakeLogout, TakePage,
       TakeAgain, TakeRefresh, FailRefresh, restUnchanged, serverUnchanged, surroundings
  <2>2. ASSUME NEW c \in Calls, Handle(c) PROVE lost' = lost \/ lost'
    BY <2>2 DEF Handle, Login, Rotate, RefuseLogin, FindSession, RotationConflict, FindTargets, RevokeTargets,
       Serve, RefuseBearer, Lose, surroundings
  <2>3. ASSUME Surroundings PROVE lost' = lost
    BY <2>3 DEF Surroundings, Expire, DisableUser
  <2> QED BY <2>1, <2>2, <2>3 DEF Next, vars, server, surroundings
<1> QED BY <1>1, <1>2 DEF Quiet, OneTab

LEMMA WebNext == WebInv /\ [Next]_vars => WebInv'
<1> SUFFICES ASSUME WebInv, [Next]_vars PROVE WebInv'
  OBVIOUS
<1>1. IInv /\ BrowserOK /\ TargetsOfFamily /\ ReuseHasACause /\ (Quiet => NoReplay /\ OneFamilyEach)
  BY DEF WebInv
<1>2. IInv' /\ BrowserOK' /\ TargetsOfFamily' /\ Grow BY <1>1, NextOK, TargetsKept
<1>3. ASSUME Quiet' PROVE NoReplay' /\ OneFamilyEach' /\ ReuseHasACause'
  <2>1. Quiet /\ ~lost' /\ OneTab' /\ OneTab /\ NoReplay /\ OneFamilyEach
    BY <1>1, <1>3, QuietBefore DEF Quiet
  <2>2. ASSUME NEW t \in Tabs, Tab(t) PROVE NoReplay' /\ OneFamilyEach' /\ ReuseHasACause'
    <3>1. status'[t] # "closed" /\ \A u \in Tabs \ {t} : status'[u] = status[u]
      <4>1. /\ status \in [Tabs -> {"closed", "checking", "authenticated", "unauthenticated"}]
            /\ StatusOfFiber(t) /\ \A b \in Fibers : fiber[t][b] # "idle" => status[t] # "closed"
        BY <1>1 DEF BrowserOK, StatusOfFiber, Waits
      <4> QED
        BY <2>2, <4>1 DEF Tab, Load, SignIn, SignOut, Request, TakeLogin, TakeMe, TakeLogout, TakePage,
           TakeAgain, TakeRefresh, FailRefresh, SignedIn, SignedOut, Answered, Waits, Fibers
    <3>2. \A u \in Tabs \ {t} : status[u] = "closed" /\ status'[u] = "closed" BY <2>1, <3>1 DEF OneTab
    <3>3. status[t] # "closed" => OneFamily(t) BY <2>1 DEF OneFamilyEach
    <3>4. NoReplay' /\ ReuseHasACause' /\ OneFamily(t)' BY <1>1, <2>1, <2>2, <3>2, <3>3, TabQuiet
    <3> QED BY <3>2, <3>4 DEF OneFamilyEach
  <2>3. ASSUME (\E c \in Calls : Handle(c)) \/ Surroundings, UNCHANGED browser
        PROVE  NoReplay' /\ OneFamilyEach' /\ ReuseHasACause'
    <3>1. NoReplay' /\ ReuseHasACause'
      BY <1>1, <1>2, <2>1, <2>3, NoReplayServer, NoReplaySurroundings
    <3>2. ASSUME NEW t \in Tabs, status'[t] # "closed" PROVE OneFamily(t)'
      <4>1. status[t] # "closed" /\ OneFamily(t) BY <2>1, <2>3, <3>2 DEF OneFamilyEach, browser
      <4> QED BY <1>1, <1>2, <2>1, <2>3, <4>1, OneFamilyServer
    <3> QED BY <3>1, <3>2 DEF OneFamilyEach
  <2>4. CASE UNCHANGED vars
    <3>1. UNCHANGED server /\ UNCHANGED browser BY <2>4 DEF vars
    <3>2. NoReplay'
      BY <2>1, <3>1 DEF server, surroundings, browser, NoReplay, Over, FamilyOf, Given, At, Holds, InHand, Waits
    <3>3. OneFamilyEach'
      <4> USE DEF server, surroundings, browser
      <4>1. \A t \in Tabs : Bootstrap(t) => Bootstrap(t)'
        BY <3>1 DEF Bootstrap, Waits, At, Ok, AnswerTo, Harmless, FamilyOf
      <4>2. \A t \in Tabs, s \in Sessions : Holds(t, s)' => Holds(t, s) BY <3>1 DEF Holds, InHand, Waits, At
      <4>3. \A s \in Sessions : Harmless(s) => Harmless(s)' BY <3>1 DEF Harmless, FamilyOf
      <4>4. \A t \in Tabs, s \in Sessions : Proper(t, s) => Proper(t, s)'
        BY <3>1 DEF Proper, Waits, At, FamilyOf, Ok, AnswerTo
      <4> QED BY <2>1, <3>1, <4>1, <4>2, <4>3, <4>4 DEF OneFamilyEach, OneFamily
    <3>4. ReuseHasACause'
      BY <1>1, <3>1 DEF server, surroundings, browser, ReuseHasACause, At, OneTab, FamilyOf
    <3> QED BY <3>2, <3>3, <3>4
  <2> QED BY <2>2, <2>3, <2>4 DEF Next
<1>4. ~Quiet' => ReuseHasACause' BY DEF Quiet, ReuseHasACause
<1> QED BY <1>2, <1>3, <1>4 DEF WebInv

LEMMA WebInit == Init => WebInv
<1> SUFFICES ASSUME Init PROVE WebInv
  OBVIOUS
<1>1. IInv /\ BrowserOK /\ ServerInit BY WebInitOK
<1>2. \A c \in Calls : call[c].at = "none" BY <1>1 DEF ServerInit, NoCall
<1> QED
  BY <1>1, <1>2 DEF Init, WebInv, TargetsOfFamily, NoReplay, OneFamilyEach, ReuseHasACause, At, Given

\* WebInv is inductive: whatever the number of tabs, fibers, users and
\* sessions, calls are those of the fibers that wait for them, and while one
\* tab is open and nothing was lost, what it holds is of one family, and no
\* refresh is under way with a session that was rotated.
THEOREM WebInvariant == Spec => []WebInv
<1> QED BY WebInit, WebNext, PTL DEF Spec

\* A refresh with a session that was already rotated (api-client.ts,
\* refreshSession) happens only with a second tab, after a lost answer or
\* expiry, or in a family that is over.
THEOREM ReuseNeedsACause == Spec => []ReuseHasACause
<1>1. WebInv => ReuseHasACause BY DEF WebInv
<1> QED BY <1>1, WebInvariant, PTL

\* The token with which a tab asks is of the user that AuthProvider shows
\* (auth-context.tsx), or no longer valid; except with two tabs, after a
\* loss, and for families that were raced or abandoned.
THEOREM TokenIsTheShownUsers == Spec => []TokenIsOfShownUser
<1>1. WebInv => TokenIsOfShownUser
  <2> SUFFICES ASSUME WebInv, NEW t \in Tabs, status[t] = "authenticated", token[t] # Null, Live(token[t]),
                      Quiet, FamilyOf(token[t]) \notin raced \cup abandoned
               PROVE  session[token[t]].user = shown[t]
    BY DEF TokenIsOfShownUser, Quiet
  <2>1. PICK s \in Sessions : s = token[t] BY DEF WebInv, BrowserOK
  <2>2. Holds(t, s) /\ OneFamily(t) BY <2>1 DEF WebInv, OneFamilyEach, Holds
  <2>3. FamilyOf(s) \notin ended
    <3> SUFFICES ASSUME FamilyOf(s) \in ended \ raced PROVE FALSE BY <2>1
    <3>1. s \in LiveOf(FamilyOf(s)) BY <2>1 DEF LiveOf
    <3> QED BY <3>1 DEF WebInv, IInv, EndedFamilyIsDead
  <2>4. Proper(t, s) BY <2>1, <2>2, <2>3 DEF OneFamily, Harmless
  <2>5. StatusOfFiber(t) BY DEF WebInv, BrowserOK
  <2> QED BY <2>1, <2>4, <2>5 DEF Proper, StatusOfFiber, Waits
<1> QED BY <1>1, WebInvariant, PTL

\* So what the server promises of a family holds with the browser's tabs as
\* its clients: a logout or a refused refresh ends it (auth.service.ts).
THEOREM BrowsersFamilies == Spec => []EndedFamilyIsDead /\ ImplementsSessionFamily
<1> QED BY BrowserIsAClient, EndedFamiliesAreDead, SessionsImplementFamilies
=============================================================================
