-------------------------------- MODULE Console --------------------------------
(***************************************************************************)
(* A browser with several tabs at the administration console: the session  *)
(* behind its one cookie, the idle and absolute expiry of that session,    *)
(* and the CSRF token, of which the session keeps one and every tab its    *)
(* own.                                                                    *)
(*                                                                         *)
(* A request is let in by one statement and extends the session by the     *)
(* next.  Each page that loads asks `me`, which replaces the token.        *)
(***************************************************************************)
EXTENDS Naturals

CONSTANTS
  Tab,           \* tabs of the browser
  Visit,         \* slots for requests that the server works on (a bound)
  Session,       \* sessions rows that can be inserted (a bound)
  NoTab, NoSession,
  IdleTime,      \* 8 hours
  AbsoluteTime,  \* 24 hours
  MaxTime,       \* bound on the clock
  MaxToken       \* bound: tokens ever made

ASSUME ConsoleAssumption ==
  /\ {IdleTime, AbsoluteTime, MaxTime, MaxToken} \subseteq Nat
  /\ NoSession \notin Session /\ NoTab \notin Tab

VARIABLES
  clock,
  session,   \* the sessions rows
  cookie,    \* the session whose cookie the browser sends
  token,     \* per tab: the token in its sessionStorage, or 0
  visit,     \* the request in each slot
  tokens,    \* tokens made so far
  overtaken  \* history: why a tab's token need not be the session's

consoleVars == <<clock, session, cookie, token, visit, tokens, overtaken>>
browser == <<cookie, token>>

\* live: inserted and not revoked; token: csrf_hash; idle and absolute: when it ends.
SessionRow == [used : BOOLEAN, live : BOOLEAN, token : Nat, idle : Nat, absolute : Nat]
NoSessionRow == [used |-> FALSE, live |-> FALSE, token |-> 0, idle |-> 0, absolute |-> 0]

\* tab: who waits for the answer; session: whose cookie was sent; at: when it was
\* let in; reply: the token in the answer.
Call == [step : {"idle", "admitted", "extended", "answered"},
         kind : {"login", "load", "logout", "rejected", "refused"},
         tab : Tab \cup {NoTab}, session : Session \cup {NoSession},
         at : Nat, reply : Nat]
NoCall == [step |-> "idle", kind |-> "load", tab |-> NoTab, session |-> NoSession,
           at |-> 0, reply |-> 0]

ConsoleTypeOK ==
  /\ clock \in Nat /\ tokens \in Nat
  /\ session \in [Session -> SessionRow]
  /\ cookie \in Session \cup {NoSession}
  /\ token \in [Tab -> Nat]
  /\ visit \in [Visit -> Call]
  /\ overtaken \in [Tab -> BOOLEAN]

ConsoleInit ==
  /\ clock = 0 /\ tokens = 0
  /\ session = [s \in Session |-> NoSessionRow]
  /\ cookie = NoSession
  /\ token = [t \in Tab |-> 0]
  /\ visit = [v \in Visit |-> NoCall]
  /\ overtaken = [t \in Tab |-> FALSE]

Least(a, b) == IF a < b THEN a ELSE b

\* Wrong: the idle expiry is left to the cookie.
ValidUntilAbsolute(s) == session[s].live /\ session[s].absolute > clock

\* The WHERE clause of requireAuthentication.
Valid(s) == session[s].live /\ session[s].idle > clock /\ session[s].absolute > clock

\* Tab t sends a request and waits for its answer before the next one.
Sends(t, v) == visit[v].step = "idle" /\ \A w \in Visit : visit[w].tab # t

Is(v, step, kind) == visit[v].step = step /\ visit[v].kind = kind
Done(v) == [visit EXCEPT ![v] = NoCall]

\* The answer goes to the tab, if it still waits.
Answered(v, reply) ==
  IF visit[v].tab = NoTab THEN Done(v)
  ELSE [visit EXCEPT ![v].step = "answered", ![v].reply = reply]

-----------------------------------------------------------------------------
(* The server.                                                             *)

\* login: INSERT INTO sessions, with a token of its own.
Login(t, v, s) ==
  /\ Sends(t, v) /\ ~session[s].used /\ tokens < MaxToken
  /\ tokens' = tokens + 1
  /\ session' = [session EXCEPT ![s] =
       [used |-> TRUE, live |-> TRUE, token |-> tokens',
        idle |-> clock + IdleTime, absolute |-> clock + AbsoluteTime]]
  /\ visit' = [visit EXCEPT ![v] = [NoCall EXCEPT
       !.step = "answered", !.kind = "login", !.tab = t, !.session = s, !.reply = tokens']]
  /\ UNCHANGED <<clock, browser, overtaken>>

\* requireAuthentication finds the session.  What it reads of it is what
\* requireCSRF will compare the tab's token with: a logout may be rejected.
LetIn(t, v, kind) ==
  /\ Sends(t, v) /\ cookie # NoSession /\ Valid(cookie)
  /\ (kind = "rejected") => token[t] # session[cookie].token
  /\ (kind = "logout") => token[t] = session[cookie].token
  /\ visit' = [visit EXCEPT ![v] =
       [step |-> "admitted", kind |-> kind, tab |-> t, session |-> cookie, at |-> clock, reply |-> 0]]
  /\ UNCHANGED <<clock, session, browser, tokens, overtaken>>

\* It does not, since the session has ended or the query failed, and clears the cookie.
Refuse(t, v) ==
  /\ Sends(t, v) /\ cookie # NoSession
  /\ visit' = [visit EXCEPT ![v] = [NoCall EXCEPT
       !.step = "answered", !.kind = "refused", !.tab = t, !.session = cookie]]
  /\ UNCHANGED <<clock, session, browser, tokens, overtaken>>

\* The UPDATE that follows: WHERE id, whatever has become of the session.  Its
\* error is dropped.
Extend(v) ==
  LET s == visit[v].session IN
  /\ visit[v].step = "admitted"
  /\ \E end \in {session[s].idle, Least(clock + IdleTime, session[s].absolute)} :
       session' = [session EXCEPT ![s].idle = end]
  /\ visit' = [visit EXCEPT ![v].step = "extended", ![v].at = 0]
  /\ UNCHANGED <<clock, browser, tokens, overtaken>>

\* Every tab but the one that waits for v's answer holds an old token from now on.
OvertakenBy(v) ==
  [t \in Tab |-> IF visit[v].session = cookie THEN t # visit[v].tab ELSE overtaken[t]]

\* Wrong: me answers with a new token and keeps the old one.
LoadForgetsToken(v) ==
  /\ Is(v, "extended", "load") /\ tokens < MaxToken
  /\ tokens' = tokens + 1
  /\ overtaken' = OvertakenBy(v)
  /\ visit' = Answered(v, tokens')
  /\ UNCHANGED <<clock, session, browser>>

\* me: a new token for the session and the answer.
Load(v) ==
  /\ Is(v, "extended", "load") /\ tokens < MaxToken
  /\ tokens' = tokens + 1
  /\ session' = [session EXCEPT ![visit[v].session].token = tokens']
  /\ overtaken' = OvertakenBy(v)
  /\ visit' = Answered(v, tokens')
  /\ UNCHANGED <<clock, browser>>

\* The UPDATE takes effect and its answer is an error: the new token reaches no tab.
LoadUnanswered(v) ==
  /\ Is(v, "extended", "load") /\ tokens < MaxToken
  /\ tokens' = tokens + 1
  /\ session' = [session EXCEPT ![visit[v].session].token = tokens']
  /\ overtaken' = [t \in Tab |-> visit[v].session = cookie \/ overtaken[t]]
  /\ visit' = Done(v)
  /\ UNCHANGED <<clock, browser>>

\* logout drops the error of its UPDATE: the session may live on.
Logout(v) ==
  /\ Is(v, "extended", "logout")
  /\ \E live \in {FALSE, session[visit[v].session].live} :
       session' = [session EXCEPT ![visit[v].session].live = live]
  /\ visit' = Answered(v, 0)
  /\ UNCHANGED <<clock, browser, tokens, overtaken>>

\* CSRF_REJECTED for a logout.
Reject(v) ==
  /\ Is(v, "extended", "rejected")
  /\ visit' = Answered(v, 0)
  /\ UNCHANGED <<clock, session, browser, tokens, overtaken>>

\* me fails before its UPDATE takes effect, or it was any other request: neither cookie nor token change.
Answer(v) ==
  /\ Is(v, "extended", "load")
  /\ visit' = Done(v)
  /\ UNCHANGED <<clock, session, browser, tokens, overtaken>>

\* A password change or an administrator ends a session.
RevokeSession(s) ==
  /\ session[s].live
  /\ session' = [session EXCEPT ![s].live = FALSE]
  /\ UNCHANGED <<clock, browser, visit, tokens, overtaken>>

-----------------------------------------------------------------------------
(* The browser.                                                            *)

\* An answer.  login sets the cookie for all tabs; logout and a session that is not
\* found clear it, whichever session it has come to name.  login and me bring the
\* tab its token; whatever comes of a logout, it goes.
Receive(v) ==
  LET t == visit[v].tab  kind == visit[v].kind IN
  /\ visit[v].step = "answered" /\ t # NoTab
  /\ cookie' = CASE kind = "login" -> visit[v].session
                 [] kind \in {"logout", "refused"} -> NoSession
                 [] OTHER -> cookie
  /\ token' = [token EXCEPT ![t] = CASE kind \in {"login", "load"} -> visit[v].reply
                                     [] kind \in {"logout", "rejected"} -> 0
                                     [] OTHER -> @]
  /\ overtaken' = [x \in Tab |-> IF kind = "login" THEN x # t ELSE overtaken[x]]
  /\ visit' = Done(v)
  /\ UNCHANGED <<clock, session, tokens>>

\* The headers of a login's answer arrive and its body does not: the cookie is set, and
\* no tab gets the token.
LoseLogin(v) ==
  /\ Is(v, "answered", "login") /\ visit[v].tab # NoTab
  /\ cookie' = visit[v].session
  /\ overtaken' = [t \in Tab |-> TRUE]
  /\ visit' = Done(v)
  /\ UNCHANGED <<clock, session, token, tokens>>

\* The page is left or the connection fails: the tab waits no more, and the
\* server may still do what it was asked.
Leave(v) ==
  LET t == visit[v].tab IN
  /\ t # NoTab
  /\ token' = [token EXCEPT ![t] = IF visit[v].kind \in {"logout", "rejected"} THEN 0 ELSE @]
  /\ overtaken' = [overtaken EXCEPT ![t] = @ \/ Is(v, "answered", "load")]
  /\ visit' = IF visit[v].step = "answered" THEN Done(v) ELSE [visit EXCEPT ![v].tab = NoTab]
  /\ UNCHANGED <<clock, session, cookie, tokens>>

\* Nobody waits: the request is cancelled.
Drop(v) ==
  /\ visit[v].step # "idle" /\ visit[v].tab = NoTab
  /\ visit' = Done(v)
  /\ UNCHANGED <<clock, session, browser, tokens, overtaken>>

Tick ==
  /\ clock < MaxTime
  /\ clock' = clock + 1
  /\ UNCHANGED <<session, browser, visit, tokens, overtaken>>

ConsoleNext ==
  \/ \E t \in Tab, v \in Visit :
       \/ \E s \in Session : Login(t, v, s)
       \/ \E kind \in {"load", "logout", "rejected"} : LetIn(t, v, kind)
       \/ Refuse(t, v)
  \/ \E v \in Visit : \/ Extend(v) \/ Load(v) \/ LoadUnanswered(v) \/ Logout(v)
                      \/ Reject(v) \/ Answer(v)
                      \/ Receive(v) \/ LoseLogin(v) \/ Leave(v) \/ Drop(v)
  \/ \E s \in Session : RevokeSession(s)
  \/ Tick

ConsoleSpec == ConsoleInit /\ [][ConsoleNext]_consoleVars

-----------------------------------------------------------------------------
(* Properties.                                                             *)

\* A session whose idle time has run out comes back only through a request that
\* was let in before it ran out (the UPDATE does not look again), and then never
\* beyond the absolute end.
RevivedOnlyByAdmitted ==
  [][\A s \in Session : session[s].used /\ session[s].idle <= clock /\ session'[s].idle > clock =>
       /\ session'[s].idle <= session[s].absolute
       /\ \E v \in Visit : /\ visit[v].step = "admitted" /\ visit[v].session = s
                           /\ visit[v].at < session[s].idle]_consoleVars

\* A tab that waits for nothing loses the session's token, so that all it sends
\* is rejected, only to another tab that loaded or logged in, or to a load or
\* login of its own that took effect and whose answer it left or lost: never to the
\* answers it got, in whatever order.
TokenLostOnlyToOthers ==
  \A t \in Tab :
    /\ \A v \in Visit : visit[v].tab # t
    /\ cookie # NoSession /\ token[t] # 0 /\ token[t] # session[cookie].token
    => overtaken[t]
=============================================================================
