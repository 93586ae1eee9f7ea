------------------------------ MODULE WebSession ------------------------------
(***************************************************************************)
(* The browser's side of a login, on top of the server of RefreshSessions: *)
(* tabs that share one cookie, each with an ApiClient that keeps the       *)
(* access token in memory and refreshes it at most once at a time          *)
(* (api-client.ts), and the state that AuthProvider shows                  *)
(* (auth-context.tsx, protected-route.tsx).                                *)
(*                                                                         *)
(* A fiber is a promise chain of a tab: "session" bootstraps, logs in and  *)
(* logs out; a page's requests are a fiber each.  Between an answer and    *)
(* the next request JavaScript is not interrupted, so taking an answer is  *)
(* one action.  Answers come in any order.                                 *)
(***************************************************************************)
EXTENDS RefreshSessions

CONSTANTS
  Tabs, Pages,
  Scenarios   \* bound of the instance: what is used at once, and incidents spared

Fibers == Pages \cup {"session"}

\* A call belongs to a fiber of a tab; each tab has a "session" fiber.
ASSUME BrowserAssumption ==
  /\ "session" \notin Pages /\ Null \notin Fibers
  /\ Calls \subseteq Tabs \X Fibers
  /\ Scenarios \subseteq [calls : SUBSET Calls, spent : 0..MaxIncidents]

VARIABLES
  open,      \* the fibers that this behaviour's tabs have
  cookie,    \* the refresh token, shared by all tabs
  token,     \* accessToken of each ApiClient
  promise,   \* the fiber that runs the refresh of a tab
  fiber,     \* what each fiber waits for
  status,    \* of AuthProvider; "closed": no page loaded yet
  shown,     \* its principal
  abandoned  \* families that a failed login or bootstrap left to the cookie

browser == <<cookie, token, promise, fiber, status, shown, open, abandoned>>
vars == <<server, browser>>
serverUnchanged == UNCHANGED <<session, active, raced, ended, surroundings, open>>
restUnchanged == serverUnchanged /\ UNCHANGED abandoned

Has(t, b) == <<t, b>> \in open

Waits(t, b, what) == fiber[t][b] = what
Answered(t, b, what) == Waits(t, b, what) /\ At(<<t, b>>, "answer")
AnswerTo(t, b) == call[<<t, b>>]
Ok(t, b) == AnswerTo(t, b).code = "ok"

\* Fiber b of tab t asks, and waits for the answer.
Ask(t, b, what, request) ==
  /\ fiber' = [fiber EXCEPT ![t][b] = what]
  /\ call' = [call EXCEPT ![<<t, b>>] = request]

\* Fiber b is done, or throws.
Settle(t, b) == Ask(t, b, "idle", NoCall)

SignedOut(t) == status' = [status EXCEPT ![t] = "unauthenticated"] /\ shown' = [shown EXCEPT ![t] = Null]
SignedIn(t, u) == status' = [status EXCEPT ![t] = "authenticated"] /\ shown' = [shown EXCEPT ![t] = u]

-----------------------------------------------------------------------------
(* What a user does                                                        *)

\* A page is loaded, or loaded again: AuthProvider bootstraps.
Load(t) ==
  /\ Has(t, "session")
  /\ \A b \in Fibers : Waits(t, b, "idle")
  /\ token' = [token EXCEPT ![t] = Null]
  /\ promise' = [promise EXCEPT ![t] = "session"]
  /\ status' = [status EXCEPT ![t] = "checking"]
  /\ shown' = [shown EXCEPT ![t] = Null]
  /\ Ask(t, "session", "refresh", Sent("refresh", cookie))
  /\ UNCHANGED cookie /\ restUnchanged

SignIn(t, u) ==
  /\ status[t] = "unauthenticated" /\ Waits(t, "session", "idle")
  /\ Ask(t, "session", "login", Sent("login", u))
  /\ UNCHANGED <<cookie, token, promise, status, shown>> /\ restUnchanged

SignOut(t) ==
  /\ status[t] = "authenticated" /\ Waits(t, "session", "idle")
  /\ Ask(t, "session", "logout", Sent("logout", cookie))
  /\ UNCHANGED <<cookie, token, promise, status, shown>> /\ restUnchanged

\* A protected page reads or writes: request().
Request(t, b) ==
  /\ status[t] = "authenticated" /\ Waits(t, b, "idle") /\ Has(t, b)
  /\ Ask(t, b, "first", Sent("page", token[t]))
  /\ UNCHANGED <<cookie, token, promise, status, shown>> /\ restUnchanged

-----------------------------------------------------------------------------
(* What the client makes of an answer                                      *)

\* login() sets the token and asks who that is.
TakeLogin(t) ==
  /\ Answered(t, "session", "login")
  /\ IF Ok(t, "session")
     THEN LET s == AnswerTo(t, "session").got
          IN  /\ cookie' = s
              /\ token' = [token EXCEPT ![t] = s]
              /\ Ask(t, "session", "me", Sent("me", s))
     ELSE Settle(t, "session") /\ UNCHANGED <<cookie, token>>
  /\ UNCHANGED <<promise, status, shown>> /\ restUnchanged

\* The end of login() and of bootstrapSession().
TakeMe(t) ==
  /\ Answered(t, "session", "me")
  /\ Settle(t, "session")
  /\ IF Ok(t, "session")
     THEN SignedIn(t, AnswerTo(t, "session").got) /\ UNCHANGED <<token, abandoned>>
     ELSE /\ SignedOut(t) /\ token' = [token EXCEPT ![t] = Null]
          /\ abandoned' = abandoned \cup {FamilyOf(s) : s \in {cookie} \ {Null}}
  /\ UNCHANGED <<cookie, promise>> /\ serverUnchanged

\* logout(): the local session ends whatever the answer.
TakeLogout(t) ==
  /\ Answered(t, "session", "logout")
  /\ Settle(t, "session")
  /\ SignedOut(t)
  /\ token' = [token EXCEPT ![t] = Null]
  /\ cookie' = IF Ok(t, "session") THEN Null ELSE cookie
  /\ UNCHANGED promise /\ restUnchanged

\* Mutation: every fiber refreshes for itself.
NoRefreshUnderWay(t) == TRUE
MayRefresh(t) == promise[t] = Null

\* requestWithRefresh(): a 401 is answered with the token that another
\* refresh has brought in the meantime, or by a refresh, which a fiber
\* starts only if there is none to join.
TakePage(t, b) ==
  /\ Answered(t, b, "first")
  /\ CASE AnswerTo(t, b).code # "refused" -> Settle(t, b) /\ UNCHANGED promise
       [] AnswerTo(t, b).code = "refused" /\ token[t] \notin {Null, AnswerTo(t, b).with} ->
            Ask(t, b, "again", Sent("page", token[t])) /\ UNCHANGED promise
       [] AnswerTo(t, b).code = "refused" /\ token[t] \in {Null, AnswerTo(t, b).with} ->
            IF MayRefresh(t)
            THEN Ask(t, b, "refresh", Sent("refresh", cookie)) /\ promise' = [promise EXCEPT ![t] = b]
            ELSE Ask(t, b, "joined", NoCall) /\ UNCHANGED promise
  /\ UNCHANGED <<cookie, token, status, shown>> /\ restUnchanged

\* The request that follows a refresh: its answer is final.
TakeAgain(t, b) ==
  /\ Answered(t, b, "again")
  /\ Settle(t, b)
  /\ UNCHANGED <<cookie, token, promise, status, shown>> /\ restUnchanged

\* The fibers that go on when fiber b of tab t has its refresh.
GoingOn(t, b) == {b} \cup {x \in Fibers : Waits(t, x, "joined")}

\* performRefresh() succeeds: the token is set, the promise is settled, and
\* all that waited for it ask with the new token.
TakeRefresh(t, b) ==
  LET s == AnswerTo(t, b).got
      what(x) == IF x = "session" THEN "me" ELSE "again"
      request(x) == Sent(IF x = "session" THEN "me" ELSE "page", s)
  IN  /\ Answered(t, b, "refresh") /\ Ok(t, b)
      /\ cookie' = s
      /\ token' = [token EXCEPT ![t] = s]
      /\ promise' = [promise EXCEPT ![t] = Null]
      /\ fiber' = [fiber EXCEPT ![t] = [x \in Fibers |-> IF x \in GoingOn(t, b) THEN what(x) ELSE @[x]]]
      /\ call' = [c \in Calls |-> IF c[1] = t /\ c[2] \in GoingOn(t, b) THEN request(c[2]) ELSE call[c]]
      /\ UNCHANGED <<status, shown>> /\ restUnchanged

\* It fails: all that waited for it throw, and a bootstrap ends signed out.
FailRefresh(t, b) ==
  /\ Answered(t, b, "refresh") /\ ~Ok(t, b)
  /\ token' = [token EXCEPT ![t] = Null]
  /\ promise' = [promise EXCEPT ![t] = Null]
  /\ fiber' = [fiber EXCEPT ![t] = [x \in Fibers |-> IF x \in GoingOn(t, b) THEN "idle" ELSE @[x]]]
  /\ call' = [call EXCEPT ![<<t, b>>] = NoCall]
  /\ IF b = "session" THEN SignedOut(t) ELSE UNCHANGED <<status, shown>>
  /\ UNCHANGED cookie /\ restUnchanged

Init ==
  /\ ServerInit
  /\ \E x \in Scenarios : open = x.calls /\ incidents = x.spent
  /\ cookie = Null
  /\ token = [t \in Tabs |-> Null] /\ promise = [t \in Tabs |-> Null]
  /\ fiber = [t \in Tabs |-> [b \in Fibers |-> "idle"]]
  /\ status = [t \in Tabs |-> "closed"] /\ shown = [t \in Tabs |-> Null]
  /\ abandoned = {}

Tab(t) ==
  \/ Load(t) \/ SignOut(t) \/ \E u \in Users : SignIn(t, u)
  \/ TakeLogin(t) \/ TakeMe(t) \/ TakeLogout(t)
  \/ \E b \in Pages : Request(t, b) \/ TakePage(t, b) \/ TakeAgain(t, b)
  \/ \E b \in Fibers : TakeRefresh(t, b) \/ FailRefresh(t, b)

Next ==
  \/ \E t \in Tabs : Tab(t)
  \/ \E c \in Calls : Handle(c) /\ UNCHANGED browser
  \/ Surroundings /\ UNCHANGED browser

Spec == Init /\ [][Next]_vars

-----------------------------------------------------------------------------
(* Properties                                                              *)

OneTab == \A t, u \in Tabs : status[t] # "closed" /\ status[u] # "closed" => t = u

\* A refresh is taken for a replay only if there was a reason: a second tab
\* with the same cookie, an answer that was lost, an expiry in between, or a
\* family that is over anyhow.  A tab by itself never asks twice with one
\* cookie, since its fibers share a refresh.
ReuseHasACause ==
  \A c \in Calls :
    At(c, "revoke") /\ call[c].reason = "reused" =>
      \/ ~OneTab \/ lost
      \/ session[call[c].with].expired
      \/ FamilyOf(call[c].with) \in ended

\* Families that are over, or that have outlived their end: by a rotation
\* beside it, or because who logged in was never known and nobody logged out.
Harmless(s) == FamilyOf(s) \in ended \cup raced \cup abandoned

\* The token of a tab that shows user u is u's or worthless: what comes late
\* from before a logout does not let one user's pages ask with another's
\* session.  Not so with two tabs, which share the cookie, after a lost
\* answer (a logout that the server has not heard of), or for a session that
\* outlived its logout (raced) or never had one (abandoned).
TokenIsOfShownUser ==
  \A t \in Tabs :
    LET s == token[t]
    IN  status[t] = "authenticated" /\ s # Null /\ Live(s) =>
          \/ session[s].user = shown[t]
          \/ ~OneTab \/ lost
          \/ FamilyOf(s) \in raced \cup abandoned

-----------------------------------------------------------------------------
(* What these two rest on                                                  *)

Stages == {"idle", "joined", "first", "again", "refresh", "login", "me", "logout"}
IsA(x) == x \in Sessions /\ Exists(x)

\* What a fiber waits for is what its call is for.
CallOfFiber(t, b) ==
  LET what == fiber[t][b]
  IN  /\ <<t, b>> \in Calls /\ what \in {"idle", "joined"} => At(<<t, b>>, "none")
      /\ what # "idle" => Has(t, b)
      /\ what \in {"refresh", "login", "me", "logout"} =>
           ~At(<<t, b>>, "none") /\ AnswerTo(t, b).op = what
      /\ what \in {"first", "again"} => ~At(<<t, b>>, "none") /\ AnswerTo(t, b).op = "page"
      /\ what \in IF b = "session" THEN {"idle", "refresh", "login", "me", "logout"}
                                   ELSE {"idle", "first", "again", "refresh", "joined"}

\* AuthProvider shows what its fiber is about.
StatusOfFiber(t) ==
  LET what == fiber[t]["session"]
  IN  /\ status[t] # "closed" => Has(t, "session")
      /\ status[t] = "closed" => \A b \in Fibers : Waits(t, b, "idle")
      /\ status[t] = "checking" => what \in {"refresh", "me"}
      /\ what = "refresh" => status[t] = "checking"
      /\ status[t] = "checking" => \A b \in Pages : Waits(t, b, "idle")
      /\ what = "me" => status[t] \in {"checking", "unauthenticated"}
      /\ what = "login" => status[t] = "unauthenticated"
      /\ what = "logout" => status[t] = "authenticated"

BrowserOK ==
  /\ open \subseteq Calls
  /\ cookie # Null => IsA(cookie)
  /\ fiber \in [Tabs -> [Fibers -> Stages]]
  /\ token \in [Tabs -> Sessions \cup {Null}] /\ promise \in [Tabs -> Fibers \cup {Null}]
  /\ status \in [Tabs -> {"closed", "checking", "authenticated", "unauthenticated"}]
  /\ shown \in [Tabs -> Users \cup {Null}]
  /\ \A t \in Tabs :
       /\ token[t] # Null => IsA(token[t])
       /\ StatusOfFiber(t)
       /\ \A b \in Fibers : CallOfFiber(t, b) /\ (Waits(t, b, "refresh") <=> promise[t] = b)
  /\ \A c \in Calls :
       At(c, "answer") /\ call[c].code = "ok" =>
         /\ call[c].op \in {"login", "refresh"} => IsA(call[c].got)
         /\ call[c].op = "me" => call[c].got \in Users

\* Tab t has session s: as its token or the cookie, or a refresh will end up
\* with it or with its successor.
InHand(c, s) == IF At(c, "answer") THEN call[c].code = "ok" /\ call[c].got = s ELSE call[c].with = s
Holds(t, s) ==
  \/ s = cookie \/ s = token[t]
  \/ \E b \in Fibers : Waits(t, b, "refresh") /\ InHand(<<t, b>>, s)

\* Whose sessions tab t may have, by what its session fiber does.
Proper(t, s) ==
  LET c == <<t, "session">>
      user == session[s].user
      ofCookie == cookie # Null /\ FamilyOf(s) = FamilyOf(cookie)
  IN  \/ status[t] = "checking" /\ Waits(t, "session", "refresh")
      \/ /\ Waits(t, "session", "me") /\ ofCookie
         /\ IF At(c, "answer") THEN Ok(t, "session") => user = call[c].got
                               ELSE call[c].with # Null /\ user = session[call[c].with].user
      \/ /\ status[t] = "authenticated" /\ Waits(t, "session", "idle")
         /\ ofCookie /\ user = shown[t]
      \/ /\ Waits(t, "session", "logout") /\ ~At(c, "answer") /\ call[c].with # Null
         /\ FamilyOf(s) = FamilyOf(call[c].with) /\ user = shown[t]

\* A bootstrap is with the cookie, and its refusal the cookie's end.
Bootstrap(t) ==
  LET c == <<t, "session">>
  IN  Waits(t, "session", "refresh") =>
        IF At(c, "answer") THEN Ok(t, "session") \/ cookie = Null \/ Harmless(cookie)
                           ELSE call[c].with = cookie

\* What tab t has is of one family, but for what is harmless.
OneFamily(t) ==
  /\ \A s \in Sessions : Holds(t, s) => Harmless(s) \/ Proper(t, s)
  /\ Bootstrap(t)

Given(c, s) ==
  At(c, "answer") /\ call[c].code = "ok" /\ call[c].op \in {"login", "refresh"} /\ call[c].got = s
Over(s) == session[s].revoked => FamilyOf(s) \in ended

\* A session that was revoked without an end of its family is held by nobody
\* but the cookie, while the answer with its successor is on its way.
NoReplay ==
  /\ cookie # Null => Over(cookie) \/ \E c \in Calls : Given(c, call[c].got) /\ call[c].op = "refresh"
  /\ \A c \in Calls :
       /\ At(c, "sent") /\ call[c].op = "refresh" /\ call[c].with # Null => Over(call[c].with)
       /\ At(c, "rotate") => Over(call[c].with)
       /\ \A s \in Sessions : Given(c, s) => Over(s)
       /\ \A s \in Sessions, t \in Tabs : Given(c, s) /\ call[c].op = "login" => ~Holds(t, s)

\* A revocation is at rows of its own family.
TargetsOfFamily ==
  \A c \in Calls : At(c, "update") =>
    \A s \in call[c].targets : FamilyOf(s) = FamilyOf(call[c].with)

Quiet == OneTab /\ ~lost
OneFamilyEach == \A t \in Tabs : status[t] # "closed" => OneFamily(t)

\* The calls are those of the fibers; and while there is one tab and nothing
\* is lost, what it holds is of one family and not replayed.
WebInv ==
  /\ IInv /\ BrowserOK /\ TargetsOfFamily
  /\ Quiet => NoReplay /\ OneFamilyEach
  /\ ReuseHasACause
=============================================================================
