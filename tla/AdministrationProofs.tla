------------------------- MODULE AdministrationProofs -------------------------
(***************************************************************************)
(* Proofs about modules Console, GameData and EmailSettings, for any       *)
(* number of tabs, requests, sessions, imports, connections and saves, and *)
(* about the three and SuperAdmins side by side, which share no state.     *)
(* What is proved of SuperAdmins alone is in a module of its own.          *)
(***************************************************************************)
EXTENDS MCAdministration, SuperAdminsProofs

(***************************************************************************)
(* Console.                                                                *)
(***************************************************************************)

\* Who waits for what: a tab waits for one request; every session named by the
\* cookie or a request exists; an answered request has someone who waits.
CallsKnow ==
  /\ \A v, w \in Visit : visit[v].tab # NoTab /\ visit[v].tab = visit[w].tab => v = w
  /\ \A v \in Visit :
       /\ visit[v].step = "idle" => visit[v].tab = NoTab
       /\ visit[v].step = "answered" => visit[v].tab # NoTab
       /\ visit[v].step # "idle" => visit[v].session # NoSession /\ session[visit[v].session].used
       /\ visit[v].kind = "login" => visit[v].step = "answered"
  /\ cookie # NoSession => session[cookie].used

\* Until its answer arrives nobody else knows the session of a login.
LoginsKnow ==
  \A v \in Visit : visit[v].kind = "login" =>
    /\ visit[v].session # cookie
    /\ session[visit[v].session].token = visit[v].reply
    /\ \A w \in Visit \ {v} : visit[w].step # "idle" => visit[w].session # visit[v].session

\* A tab that waits for an answer about an old session, or for an old token, has
\* been overtaken.
WaitsKnow ==
  \A v \in Visit : visit[v].tab # NoTab /\ visit[v].kind # "login" /\ cookie # NoSession =>
    /\ visit[v].session # cookie => overtaken[visit[v].tab]
    /\ Is(v, "answered", "load") /\ visit[v].session = cookie
       /\ visit[v].reply # session[cookie].token => overtaken[visit[v].tab]

Lost(t) == cookie # NoSession /\ token[t] # 0 /\ token[t] # session[cookie].token
TabsKnow ==
  \A t \in Tab : Lost(t) =>
    overtaken[t] \/ \E v \in Visit : visit[v].tab = t /\ Is(v, "answered", "load")

TokenInv == ConsoleTypeOK /\ CallsKnow /\ LoginsKnow /\ WaitsKnow /\ TabsKnow

\* What was admitted was valid then, and stays so for requests that come later.
AdmittedInv ==
  \A v \in Visit : visit[v].step = "admitted" =>
    LET s == visit[v].session IN
    /\ s # NoSession /\ visit[v].at <= clock /\ visit[v].at < session[s].absolute
    /\ IdleTime > 0 => visit[v].at < session[s].idle

-----------------------------------------------------------------------------
\* The ways a slot changes, field by field.

\* An empty slot.
LEMMA NoCallFields ==
  /\ NoCall \in Call /\ NoCall.step = "idle" /\ NoCall.kind = "load"
  /\ NoCall.tab = NoTab
  BY DEF NoCall, Call

\* A request that is over leaves its slot empty.
LEMMA DoneFields ==
  ASSUME visit \in [Visit -> Call], NEW v \in Visit, visit' = Done(v)
  PROVE  /\ visit' \in [Visit -> Call]
         /\ \A w \in Visit \ {v} : visit'[w] = visit[w]
         /\ visit'[v].step = "idle" /\ visit'[v].kind = "load" /\ visit'[v].tab = NoTab
  BY NoCallFields DEF Done

\* An answer goes to the tab that waits, or empties the slot.
LEMMA AnsweredFields ==
  ASSUME visit \in [Visit -> Call], NEW v \in Visit, NEW n \in Nat, visit' = Answered(v, n)
  PROVE  /\ visit' \in [Visit -> Call]
         /\ \A w \in Visit \ {v} : visit'[w] = visit[w]
         /\ visit[v].tab = NoTab =>
              visit'[v].step = "idle" /\ visit'[v].kind = "load" /\ visit'[v].tab = NoTab
         /\ visit[v].tab # NoTab =>
              /\ visit'[v].step = "answered" /\ visit'[v].kind = visit[v].kind
              /\ visit'[v].tab = visit[v].tab /\ visit'[v].session = visit[v].session
              /\ visit'[v].reply = n
  <1>1. CASE visit[v].tab = NoTab
    BY <1>1, DoneFields DEF Answered
  <1>2. CASE visit[v].tab # NoTab
    BY <1>2, ZenonT(60) DEF Answered, Call
  <1> QED BY <1>1, <1>2

\* login: a new session, and an answer that names it.
LEMMA LoginFields ==
  ASSUME ConsoleTypeOK, NEW t \in Tab, NEW v \in Visit, NEW s \in Session, Login(t, v, s)
  PROVE  /\ visit' \in [Visit -> Call]
         /\ \A w \in Visit \ {v} : visit'[w] = visit[w]
         /\ visit'[v].step = "answered" /\ visit'[v].kind = "login" /\ visit'[v].tab = t
         /\ visit'[v].session = s /\ visit'[v].reply = tokens'
         /\ tokens' \in Nat
         /\ session' \in [Session -> SessionRow]
         /\ \A x \in Session \ {s} : session'[x] = session[x]
         /\ session'[s].token = tokens' /\ session'[s].used
  <1>1. tokens' \in Nat /\ tokens' = tokens + 1
    BY DEF Login, ConsoleTypeOK
  <1>2. PICK n \in Nat : n = tokens'
    BY <1>1
  <1>3. visit' = [visit EXCEPT ![v] = [NoCall EXCEPT
          !.step = "answered", !.kind = "login", !.tab = t, !.session = s, !.reply = n]]
    BY <1>2 DEF Login
  <1>4. session' = [session EXCEPT ![s] = [used |-> TRUE, live |-> TRUE, token |-> n,
          idle |-> clock + IdleTime, absolute |-> clock + AbsoluteTime]]
    BY <1>2 DEF Login
  <1>5. session' \in [Session -> SessionRow]
    BY <1>4, ConsoleAssumption DEF ConsoleTypeOK, SessionRow
  <1>6. visit' \in [Visit -> Call]
    BY <1>3 DEF NoCall, Call, ConsoleTypeOK
  <1>7. /\ visit'[v].step = "answered" /\ visit'[v].kind = "login" /\ visit'[v].tab = t
        /\ visit'[v].session = s /\ visit'[v].reply = n
        /\ \A w \in Visit \ {v} : visit'[w] = visit[w]
    BY <1>3 DEF NoCall, ConsoleTypeOK
  <1>8. /\ session'[s].token = n /\ session'[s].used
        /\ \A x \in Session \ {s} : session'[x] = session[x]
    BY <1>4 DEF ConsoleTypeOK
  <1> QED BY <1>1, <1>2, <1>5, <1>6, <1>7, <1>8

\* A tab that sends with the cookie's session: LetIn and Refuse.
LEMMA SentFields ==
  ASSUME ConsoleTypeOK, NEW t \in Tab, NEW v \in Visit,
         (\E kind \in {"load", "logout", "rejected"} : LetIn(t, v, kind)) \/ Refuse(t, v)
  PROVE  /\ visit' \in [Visit -> Call]
         /\ \A w \in Visit \ {v} : visit'[w] = visit[w]
         /\ visit'[v].step = "admitted" \/ (visit'[v].step = "answered" /\ visit'[v].kind = "refused")
         /\ visit'[v].kind # "login" /\ visit'[v].tab = t
         /\ visit'[v].session = cookie /\ cookie # NoSession
         /\ visit'[v].step = "admitted" => Valid(cookie) /\ visit'[v].at = clock
         /\ Sends(t, v)
         /\ UNCHANGED <<clock, session, browser, tokens, overtaken>>
  <1>1. ASSUME NEW kind \in {"load", "logout", "rejected"}, LetIn(t, v, kind)
        PROVE  /\ visit' \in [Visit -> Call]
               /\ \A w \in Visit \ {v} : visit'[w] = visit[w]
               /\ visit'[v].step = "admitted"
               /\ visit'[v].kind # "login" /\ visit'[v].tab = t
               /\ visit'[v].session = cookie /\ visit'[v].at = clock
    <2>1. visit' = [visit EXCEPT ![v] = [step |-> "admitted", kind |-> kind, tab |-> t,
                      session |-> cookie, at |-> clock, reply |-> 0]]
      BY <1>1 DEF LetIn
    <2> QED BY <2>1 DEF ConsoleTypeOK, Call
  <1>2. ASSUME Refuse(t, v)
        PROVE  /\ visit' \in [Visit -> Call]
               /\ \A w \in Visit \ {v} : visit'[w] = visit[w]
               /\ visit'[v].step = "answered" /\ visit'[v].kind = "refused"
               /\ visit'[v].tab = t /\ visit'[v].session = cookie
    <2>1. visit' = [visit EXCEPT ![v] = [NoCall EXCEPT
                      !.step = "answered", !.kind = "refused", !.tab = t, !.session = cookie]]
      BY <1>2 DEF Refuse
    <2> QED BY <2>1 DEF NoCall, ConsoleTypeOK, Call
  <1>3. Sends(t, v) /\ cookie # NoSession /\ UNCHANGED <<clock, session, browser, tokens, overtaken>>
    BY DEF LetIn, Refuse
  <1> QED BY <1>1, <1>2, <1>3 DEF LetIn

\* The UPDATE of requireAuthentication: of a session it changes the idle end only.
LEMMA ExtendFields ==
  ASSUME ConsoleTypeOK, NEW v \in Visit, Extend(v), visit[v].session # NoSession
  PROVE  /\ visit' \in [Visit -> Call]
         /\ \A w \in Visit \ {v} : visit'[w] = visit[w]
         /\ visit'[v].step = "extended" /\ visit'[v].kind = visit[v].kind
         /\ visit'[v].tab = visit[v].tab /\ visit'[v].session = visit[v].session
         /\ session' \in [Session -> SessionRow]
         /\ \A s \in Session \ {visit[v].session} : session'[s] = session[s]
         /\ \A s \in Session : /\ session'[s].used = session[s].used
                              /\ session'[s].token = session[s].token
                              /\ session'[s].absolute = session[s].absolute
         /\ LET s == visit[v].session IN
              session'[s].idle \in {session[s].idle, Least(clock + IdleTime, session[s].absolute)}
  <1> DEFINE s == visit[v].session
  <1>1. s \in Session
    BY DEF ConsoleTypeOK, Call
  <1>2. Least(clock + IdleTime, session[s].absolute) \in Nat /\ session[s].idle \in Nat
    BY <1>1, ConsoleAssumption DEF Least, ConsoleTypeOK, SessionRow
  <1>3. PICK end \in Nat : /\ end \in {session[s].idle, Least(clock + IdleTime, session[s].absolute)}
                           /\ session' = [session EXCEPT ![s].idle = end]
    BY <1>2 DEF Extend
  <1>4. visit' = [visit EXCEPT ![v].step = "extended", ![v].at = 0]
    BY DEF Extend
  <1>5. /\ visit' \in [Visit -> Call]
        /\ \A w \in Visit \ {v} : visit'[w] = visit[w]
        /\ visit'[v].step = "extended" /\ visit'[v].kind = visit[v].kind
        /\ visit'[v].tab = visit[v].tab /\ visit'[v].session = visit[v].session
    BY <1>4, ZenonT(60) DEF ConsoleTypeOK, Call
  <1> HIDE DEF s
  <1>6. /\ session' \in [Session -> SessionRow]
        /\ \A x \in Session \ {s} : session'[x] = session[x]
        /\ \A x \in Session : /\ session'[x].used = session[x].used
                             /\ session'[x].token = session[x].token
                             /\ session'[x].absolute = session[x].absolute
        /\ session'[s].idle = end
    BY <1>1, <1>3 DEF ConsoleTypeOK, SessionRow
  <1> QED BY <1>3, <1>5, <1>6 DEF s

\* A session that is revoked, by logout or otherwise, changes in nothing else.
LEMMA RevokedFields ==
  ASSUME ConsoleTypeOK, NEW s \in Session, NEW live \in BOOLEAN,
         session' = [session EXCEPT ![s].live = live]
  PROVE  /\ session' \in [Session -> SessionRow]
         /\ \A x \in Session : /\ session'[x].used = session[x].used
                              /\ session'[x].token = session[x].token
                              /\ session'[x].idle = session[x].idle
                              /\ session'[x].absolute = session[x].absolute
  BY DEF ConsoleTypeOK, SessionRow

\* me: a new token, which overtakes every other tab of the session.
LEMMA LoadFields ==
  ASSUME ConsoleTypeOK, NEW v \in Visit, Load(v), visit[v].session # NoSession
  PROVE  /\ tokens' \in Nat
         /\ visit' = Answered(v, tokens')
         /\ session' \in [Session -> SessionRow]
         /\ \A s \in Session \ {visit[v].session} : session'[s] = session[s]
         /\ session'[visit[v].session].token = tokens'
         /\ \A s \in Session : /\ session'[s].used = session[s].used
                              /\ session'[s].idle = session[s].idle
                              /\ session'[s].absolute = session[s].absolute
         /\ overtaken' \in [Tab -> BOOLEAN]
         /\ \A t \in Tab : overtaken'[t] <=> IF visit[v].session = cookie THEN t # visit[v].tab
                                             ELSE overtaken[t]
  <1>1. PICK n \in Nat : n = tokens'
    BY DEF Load, ConsoleTypeOK
  <1>2. visit[v].session \in Session
    BY DEF ConsoleTypeOK, Call
  <1>3. session' = [session EXCEPT ![visit[v].session].token = n] /\ visit' = Answered(v, tokens')
    BY <1>1 DEF Load
  <1>4. /\ session' \in [Session -> SessionRow]
        /\ \A s \in Session \ {visit[v].session} : session'[s] = session[s]
        /\ session'[visit[v].session].token = n
        /\ \A s \in Session : /\ session'[s].used = session[s].used
                             /\ session'[s].idle = session[s].idle
                             /\ session'[s].absolute = session[s].absolute
    BY <1>2, <1>3 DEF ConsoleTypeOK, SessionRow
  <1>5. overtaken' = OvertakenBy(v)
    BY DEF Load
  <1>6. /\ overtaken' \in [Tab -> BOOLEAN]
        /\ \A t \in Tab : overtaken'[t] <=> IF visit[v].session = cookie THEN t # visit[v].tab
                                            ELSE overtaken[t]
    <2>1. CASE visit[v].session = cookie
      BY <1>5, <2>1, Zenon DEF OvertakenBy
    <2>2. CASE visit[v].session # cookie
      <3>1. overtaken' = [t \in Tab |-> overtaken[t]]
        BY <1>5, <2>2, Zenon DEF OvertakenBy
      <3>2. overtaken \in [Tab -> BOOLEAN]
        BY DEF ConsoleTypeOK
      <3> QED BY <2>2, <3>1, <3>2
    <2> QED BY <2>1, <2>2
  <1> QED BY <1>1, <1>3, <1>4, <1>6

\* me whose UPDATE takes effect without an answer: a new token, nothing else of a session.
LEMMA UnansweredFields ==
  ASSUME ConsoleTypeOK, NEW v \in Visit, LoadUnanswered(v), visit[v].session \in Session
  PROVE  /\ tokens' \in Nat
         /\ session' \in [Session -> SessionRow]
         /\ \A s \in Session \ {visit[v].session} : session'[s] = session[s]
         /\ \A s \in Session : /\ session'[s].used = session[s].used
                              /\ session'[s].idle = session[s].idle
                              /\ session'[s].absolute = session[s].absolute
         /\ overtaken' \in [Tab -> BOOLEAN]
         /\ \A t \in Tab : visit[v].session = cookie \/ overtaken[t] => overtaken'[t]
         /\ visit' = Done(v) /\ UNCHANGED <<clock, cookie, token>>
  <1>1. PICK n \in Nat : n = tokens'
    BY DEF LoadUnanswered, ConsoleTypeOK
  <1>2. session' = [session EXCEPT ![visit[v].session].token = n]
    BY <1>1 DEF LoadUnanswered
  <1>3. /\ session' \in [Session -> SessionRow]
        /\ \A s \in Session \ {visit[v].session} : session'[s] = session[s]
        /\ \A s \in Session : /\ session'[s].used = session[s].used
                             /\ session'[s].idle = session[s].idle
                             /\ session'[s].absolute = session[s].absolute
    BY <1>2 DEF ConsoleTypeOK, SessionRow
  <1>4. overtaken' = [t \in Tab |-> visit[v].session = cookie \/ overtaken[t]]
    BY DEF LoadUnanswered
  <1>5. overtaken' \in [Tab -> BOOLEAN]
    BY <1>4, Zenon
  <1>6. \A t \in Tab : visit[v].session = cookie \/ overtaken[t] => overtaken'[t]
    BY <1>4, Zenon
  <1> QED BY <1>1, <1>3, <1>5, <1>6 DEF LoadUnanswered, browser

\* What the answer to each kind of request changes in the browser.
LEMMA ReceiveFields ==
  ASSUME ConsoleTypeOK, NEW v \in Visit, Receive(v)
  PROVE  LET t == visit[v].tab  kind == visit[v].kind IN
         /\ visit[v].step = "answered" /\ t \in Tab /\ visit' = Done(v)
         /\ kind = "login" => cookie' = visit[v].session
         /\ kind \in {"logout", "refused"} => cookie' = NoSession
         /\ kind \in {"load", "rejected"} => cookie' = cookie
         /\ token' \in [Tab -> Nat]
         /\ \A x \in Tab \ {t} : token'[x] = token[x]
         /\ kind \in {"login", "load"} => token'[t] = visit[v].reply
         /\ kind \in {"logout", "rejected"} => token'[t] = 0
         /\ overtaken' \in [Tab -> BOOLEAN]
         /\ \A x \in Tab : overtaken'[x] <=> IF kind = "login" THEN x # t ELSE overtaken[x]
         /\ UNCHANGED <<clock, session, tokens>>
  <1> DEFINE t == visit[v].tab
             kind == visit[v].kind
             new == CASE kind \in {"login", "load"} -> visit[v].reply
                      [] kind \in {"logout", "rejected"} -> 0
                      [] OTHER -> token[t]
  <1>1. t \in Tab /\ visit[v].reply \in Nat
        /\ kind \in {"login", "load", "logout", "rejected", "refused"}
    BY DEF Receive, ConsoleTypeOK, Call
  <1>2. new \in Nat
    BY <1>1 DEF ConsoleTypeOK
  <1>3. token' = [token EXCEPT ![t] = new]
    BY DEF Receive
  <1>4. /\ token' \in [Tab -> Nat] /\ token'[t] = new
        /\ \A x \in Tab \ {t} : token'[x] = token[x]
    BY <1>1, <1>2, <1>3 DEF ConsoleTypeOK
  <1>5. /\ kind \in {"login", "load"} => token'[t] = visit[v].reply
        /\ kind \in {"logout", "rejected"} => token'[t] = 0
    BY <1>4
  <1>6. /\ overtaken' \in [Tab -> BOOLEAN]
        /\ \A x \in Tab : overtaken'[x] <=> IF kind = "login" THEN x # t ELSE overtaken[x]
    <2>1. CASE kind = "login"
      BY <2>1, Zenon DEF Receive
    <2>2. CASE kind # "login"
      <3>1. overtaken' = [x \in Tab |-> overtaken[x]]
        BY <2>2, Zenon DEF Receive
      <3>2. overtaken \in [Tab -> BOOLEAN]
        BY DEF ConsoleTypeOK
      <3> QED BY <2>2, <3>1, <3>2
    <2> QED BY <2>1, <2>2
  <1>7. /\ kind = "login" => cookie' = visit[v].session
        /\ kind \in {"logout", "refused"} => cookie' = NoSession
        /\ kind \in {"load", "rejected"} => cookie' = cookie
    BY DEF Receive
  <1> QED BY <1>1, <1>4, <1>5, <1>6, <1>7 DEF Receive

\* A tab that leaves keeps its token or drops it, and is marked if a token was on its way.
LEMMA LeaveFields ==
  ASSUME ConsoleTypeOK, CallsKnow, NEW v \in Visit, Leave(v)
  PROVE  LET t == visit[v].tab IN
         /\ t \in Tab
         /\ visit' \in [Visit -> Call]
         /\ \A w \in Visit \ {v} : visit'[w] = visit[w]
         /\ visit'[v].tab = NoTab /\ visit'[v].step # "answered"
         /\ visit'[v].step # "idle" =>
              /\ visit'[v].step = visit[v].step /\ visit'[v].at = visit[v].at
              /\ visit'[v].session = visit[v].session
         /\ visit'[v].kind # "login"
         /\ token' \in [Tab -> Nat]
         /\ \A x \in Tab \ {t} : token'[x] = token[x]
         /\ token'[t] \in {0, token[t]}
         /\ overtaken' \in [Tab -> BOOLEAN]
         /\ \A x \in Tab : overtaken[x] => overtaken'[x]
         /\ Is(v, "answered", "load") => overtaken'[t]
         /\ UNCHANGED <<clock, session, cookie, tokens>>
  <1> DEFINE t == visit[v].tab
             b == overtaken[t] \/ Is(v, "answered", "load")
  <1>1. t \in Tab
    BY DEF Leave, ConsoleTypeOK, Call
  <1>2. overtaken' = [overtaken EXCEPT ![t] = b]
    BY Zenon DEF Leave
  <1>3. b \in BOOLEAN /\ (overtaken[t] => b) /\ (Is(v, "answered", "load") => b)
    BY Zenon
  <1> HIDE DEF b
  <1>4. /\ overtaken' \in [Tab -> BOOLEAN]
        /\ \A x \in Tab : overtaken[x] => overtaken'[x]
        /\ Is(v, "answered", "load") => overtaken'[t]
    BY <1>1, <1>2, <1>3 DEF ConsoleTypeOK
  <1>5. token' = [token EXCEPT ![t] = IF visit[v].kind \in {"logout", "rejected"} THEN 0 ELSE token[t]]
    BY DEF Leave
  <1>6. /\ token' \in [Tab -> Nat] /\ token'[t] \in {0, token[t]}
        /\ \A x \in Tab \ {t} : token'[x] = token[x]
    BY <1>1, <1>5 DEF ConsoleTypeOK
  <1>7. CASE visit[v].step = "answered"
    <2>1. visit' = Done(v)
      BY <1>7 DEF Leave
    <2> QED BY <1>1, <1>4, <1>6, <2>1, DoneFields DEF Leave, ConsoleTypeOK
  <1>8. CASE visit[v].step # "answered"
    <2>1. visit' = [visit EXCEPT ![v].tab = NoTab]
      BY <1>8 DEF Leave
    <2>2. /\ visit' \in [Visit -> Call]
          /\ \A w \in Visit \ {v} : visit'[w] = visit[w]
          /\ visit'[v].tab = NoTab /\ visit'[v].step = visit[v].step /\ visit'[v].at = visit[v].at
          /\ visit'[v].session = visit[v].session /\ visit'[v].kind = visit[v].kind
      BY <2>1 DEF ConsoleTypeOK, Call
    <2>3. visit[v].kind # "login"
      BY <1>8 DEF CallsKnow
    <2> QED BY <1>1, <1>4, <1>6, <1>8, <2>2, <2>3 DEF Leave
  <1> QED BY <1>7, <1>8

-----------------------------------------------------------------------------
\* A step in which slot v is emptied, or no slot changes, and neither tokens nor
\* the browser do.
LEMMA QuietStep ==
  ASSUME TokenInv, UNCHANGED <<cookie, token, tokens, overtaken>>, clock' \in Nat,
         session' \in [Session -> SessionRow],
         \A s \in Session : session'[s].used = session[s].used /\ session'[s].token = session[s].token,
         \/ UNCHANGED visit
         \/ \E v \in Visit : /\ visit' = Done(v)
                             /\ visit[v].tab = NoTab \/ visit[v].step # "answered"
  PROVE  TokenInv'
<1> USE DEF TokenInv, CallsKnow, LoginsKnow, WaitsKnow, TabsKnow, Lost, Is
<1>1. visit \in [Visit -> Call] /\ cookie \in Session \cup {NoSession}
  BY DEF ConsoleTypeOK
<1>2. CASE UNCHANGED visit
  <2>1. \A v \in Visit : visit[v].session \in Session \cup {NoSession}
    BY <1>1 DEF Call
  <2>2. ConsoleTypeOK'
    BY <1>2 DEF ConsoleTypeOK
  <2>3. CallsKnow'
    BY <1>1, <1>2, <2>1
  <2>4. LoginsKnow'
    BY <1>1, <1>2, <2>1
  <2>5. WaitsKnow'
    BY <1>1, <1>2, <2>1
  <2>6. TabsKnow'
    BY <1>1, <1>2, <2>1
  <2> QED BY <2>2, <2>3, <2>4, <2>5, <2>6
<1>3. ASSUME NEW v \in Visit, visit' = Done(v), visit[v].tab = NoTab \/ visit[v].step # "answered"
      PROVE  TokenInv'
  <2>1. \A w \in Visit : visit[w].session \in Session \cup {NoSession}
    BY <1>1 DEF Call
  <2>2. /\ visit' \in [Visit -> Call]
        /\ \A w \in Visit \ {v} : visit'[w] = visit[w]
        /\ visit'[v].step = "idle" /\ visit'[v].kind = "load" /\ visit'[v].tab = NoTab
    BY <1>1, <1>3, DoneFields
  <2>3. ConsoleTypeOK'
    BY <2>2 DEF ConsoleTypeOK
  <2>4. CallsKnow'
    BY <1>1, <2>1, <2>2
  <2>5. LoginsKnow'
    BY <1>1, <2>1, <2>2
  <2>6. WaitsKnow'
    BY <1>1, <2>1, <2>2
  <2>7. TabsKnow'
    <3>1. \A w \in Visit : Is(w, "answered", "load") => w # v
      BY <1>3
    <3> QED BY <1>1, <2>2, <3>1
  <2> QED BY <2>3, <2>4, <2>5, <2>6, <2>7
<1> QED BY <1>2, <1>3

\* Every step preserves TokenInv: one case per action.
LEMMA TokenStep == TokenInv /\ [ConsoleNext]_consoleVars => TokenInv'
<1> SUFFICES ASSUME TokenInv, [ConsoleNext]_consoleVars PROVE TokenInv'
  OBVIOUS
<1>a. /\ ConsoleTypeOK /\ visit \in [Visit -> Call] /\ cookie \in Session \cup {NoSession}
      /\ session \in [Session -> SessionRow] /\ clock \in Nat
      /\ token \in [Tab -> Nat]
      /\ \A w \in Visit : visit[w].session \in Session \cup {NoSession} /\ visit[w].tab \in Tab \cup {NoTab}
  BY DEF TokenInv, ConsoleTypeOK, Call
<1>b. NoTab \notin Tab /\ NoSession \notin Session
  BY ConsoleAssumption
<1>1. CASE UNCHANGED consoleVars
  BY <1>1, <1>a, QuietStep DEF consoleVars
<1>2. ASSUME NEW t \in Tab, NEW v \in Visit, NEW s \in Session, Login(t, v, s) PROVE TokenInv'
  <2>1. /\ visit' \in [Visit -> Call]
        /\ \A w \in Visit \ {v} : visit'[w] = visit[w]
        /\ visit'[v].step = "answered" /\ visit'[v].kind = "login" /\ visit'[v].tab = t
        /\ visit'[v].session = s /\ visit'[v].reply = tokens'
        /\ tokens' \in Nat
        /\ session' \in [Session -> SessionRow]
        /\ \A x \in Session \ {s} : session'[x] = session[x]
        /\ session'[s].token = tokens' /\ session'[s].used
    BY <1>2, <1>a, LoginFields
  <2>2. /\ ~session[s].used /\ visit[v].step = "idle" /\ (\A w \in Visit : visit[w].tab # t)
        /\ UNCHANGED <<clock, cookie, token, overtaken>>
    BY <1>2 DEF Login, Sends, browser
  <2>3. cookie # s /\ \A w \in Visit \ {v} : visit[w].step # "idle" => visit[w].session # s
    BY <1>a, <1>b, <2>2 DEF TokenInv, CallsKnow
  <2>4. ConsoleTypeOK'
    BY <1>a, <2>1, <2>2 DEF ConsoleTypeOK
  <2>5. CallsKnow'
    BY <1>a, <1>b, <2>1, <2>2, <2>3 DEF TokenInv, CallsKnow
  <2>6. LoginsKnow'
    BY <1>a, <1>b, <2>1, <2>2, <2>3 DEF TokenInv, CallsKnow, LoginsKnow
  <2>7. WaitsKnow'
    BY <1>a, <1>b, <2>1, <2>2, <2>3 DEF TokenInv, WaitsKnow, Is
  <2>8. TabsKnow'
    <3>1. \A x \in Tab : Lost(x)' => Lost(x)
      BY <1>a, <2>1, <2>2, <2>3 DEF Lost
    <3>2. \A w \in Visit : Is(w, "answered", "load") => w # v
      BY <2>2 DEF Is
    <3> QED BY <1>a, <2>1, <2>2, <3>1, <3>2 DEF TokenInv, TabsKnow, Is
  <2> QED BY <2>4, <2>5, <2>6, <2>7, <2>8 DEF TokenInv
<1>3. ASSUME NEW t \in Tab, NEW v \in Visit,
             (\E kind \in {"load", "logout", "rejected"} : LetIn(t, v, kind)) \/ Refuse(t, v)
      PROVE  TokenInv'
  <2>1. /\ visit' \in [Visit -> Call]
        /\ \A w \in Visit \ {v} : visit'[w] = visit[w]
        /\ visit'[v].step = "admitted" \/ (visit'[v].step = "answered" /\ visit'[v].kind = "refused")
        /\ visit'[v].kind # "login" /\ visit'[v].tab = t
        /\ visit'[v].session = cookie /\ cookie # NoSession
        /\ visit[v].step = "idle" /\ \A w \in Visit : visit[w].tab # t
        /\ UNCHANGED <<clock, session, cookie, token, tokens, overtaken>>
    BY <1>3, <1>a, SentFields DEF Sends, browser
  <2>2. ConsoleTypeOK'
    BY <1>a, <2>1 DEF ConsoleTypeOK
  <2>3. CallsKnow'
    BY <1>a, <1>b, <2>1 DEF TokenInv, CallsKnow
  <2>4. LoginsKnow'
    BY <1>a, <1>b, <2>1 DEF TokenInv, CallsKnow, LoginsKnow
  <2>5. WaitsKnow'
    BY <1>a, <1>b, <2>1 DEF TokenInv, WaitsKnow, Is
  <2>6. TabsKnow'
    BY <1>a, <2>1 DEF TokenInv, TabsKnow, Is, Lost
  <2> QED BY <2>2, <2>3, <2>4, <2>5, <2>6 DEF TokenInv
<1>4. ASSUME NEW v \in Visit, Extend(v) PROVE TokenInv'
  <2>1. visit[v].session # NoSession
    BY <1>4 DEF Extend, TokenInv, CallsKnow
  <2>2. /\ visit' \in [Visit -> Call]
        /\ \A w \in Visit \ {v} : visit'[w] = visit[w]
        /\ visit'[v].step = "extended" /\ visit'[v].kind = visit[v].kind
        /\ visit'[v].tab = visit[v].tab /\ visit'[v].session = visit[v].session
        /\ session' \in [Session -> SessionRow]
        /\ \A s \in Session : session'[s].used = session[s].used /\ session'[s].token = session[s].token
        /\ visit[v].step = "admitted" /\ UNCHANGED <<clock, cookie, token, tokens, overtaken>>
    BY <1>4, <1>a, <2>1, ExtendFields DEF Extend, browser
  <2>3. ConsoleTypeOK'
    BY <1>a, <2>2 DEF ConsoleTypeOK
  <2>4. CallsKnow'
    BY <1>a, <1>b, <2>2 DEF TokenInv, CallsKnow
  <2>5. LoginsKnow'
    BY <1>a, <1>b, <2>2 DEF TokenInv, CallsKnow, LoginsKnow
  <2>6. WaitsKnow'
    BY <1>a, <1>b, <2>2 DEF TokenInv, WaitsKnow, Is
  <2>7. TabsKnow'
    BY <1>a, <2>2 DEF TokenInv, TabsKnow, Is, Lost
  <2> QED BY <2>3, <2>4, <2>5, <2>6, <2>7 DEF TokenInv
<1>5. ASSUME NEW v \in Visit, Load(v) PROVE TokenInv'
  <2> DEFINE s == visit[v].session
  <2>1. s # NoSession /\ s \in Session /\ session[s].used /\ Is(v, "extended", "load")
    BY <1>5, <1>a DEF Load, Is, TokenInv, CallsKnow
  <2>2. /\ tokens' \in Nat
        /\ session' \in [Session -> SessionRow]
        /\ \A x \in Session \ {s} : session'[x] = session[x]
        /\ session'[s].token = tokens'
        /\ \A x \in Session : session'[x].used = session[x].used
        /\ overtaken' \in [Tab -> BOOLEAN]
        /\ \A t \in Tab : overtaken'[t] <=> IF s = cookie THEN t # visit[v].tab ELSE overtaken[t]
        /\ UNCHANGED <<clock, cookie, token>>
    BY <1>5, <1>a, <2>1, LoadFields DEF Load, browser
  <2>3. /\ visit' \in [Visit -> Call]
        /\ \A w \in Visit \ {v} : visit'[w] = visit[w]
        /\ visit[v].tab = NoTab =>
             visit'[v].step = "idle" /\ visit'[v].kind = "load" /\ visit'[v].tab = NoTab
        /\ visit[v].tab # NoTab =>
             /\ visit'[v].step = "answered" /\ visit'[v].kind = "load"
             /\ visit'[v].tab = visit[v].tab /\ visit'[v].session = s
             /\ visit'[v].reply = tokens'
    BY <1>5, <1>a, <2>1, <2>2, AnsweredFields DEF Load, Is
  <2> HIDE DEF s
  <2>4. \A w \in Visit \ {v} : visit[w].tab # NoTab => visit[w].tab # visit[v].tab
    BY DEF TokenInv, CallsKnow
  <2>5. ConsoleTypeOK'
    BY <1>a, <2>2, <2>3 DEF ConsoleTypeOK
  <2>6. CallsKnow'
    BY <1>a, <1>b, <2>1, <2>2, <2>3 DEF TokenInv, CallsKnow, Is, s
  <2>7. LoginsKnow'
    BY <1>a, <1>b, <2>1, <2>2, <2>3 DEF TokenInv, CallsKnow, LoginsKnow, Is, s
  <2>8. WaitsKnow'
    BY <1>a, <1>b, <2>1, <2>2, <2>3, <2>4 DEF TokenInv, WaitsKnow, Is, s
  <2>9. TabsKnow'
    BY <1>a, <1>b, <2>1, <2>2, <2>3, <2>4 DEF TokenInv, TabsKnow, Is, Lost, s
  <2> QED BY <2>5, <2>6, <2>7, <2>8, <2>9 DEF TokenInv
<1>6. ASSUME NEW v \in Visit, Logout(v) \/ Reject(v) PROVE TokenInv'
  <2>1. visit' = Answered(v, 0) /\ visit[v].step = "extended" /\ visit[v].kind \in {"logout", "rejected"}
        /\ UNCHANGED <<clock, cookie, token, tokens, overtaken>>
    BY <1>6 DEF Logout, Reject, Is, browser
  <2>2. visit[v].session \in Session /\ session[visit[v].session].used
    BY <1>a, <2>1 DEF TokenInv, CallsKnow
  <2>3. /\ session' \in [Session -> SessionRow]
        /\ \A s \in Session : session'[s].used = session[s].used /\ session'[s].token = session[s].token
    <3>1. CASE Logout(v)
      <4>1. PICK live \in BOOLEAN : session' = [session EXCEPT ![visit[v].session].live = live]
        BY <1>a, <2>2, <3>1 DEF Logout, SessionRow
      <4> QED BY <1>a, <2>2, <4>1, RevokedFields
    <3>2. CASE Reject(v)
      BY <1>a, <3>2 DEF Reject
    <3> QED BY <1>6, <3>1, <3>2
  <2>4. /\ visit' \in [Visit -> Call]
        /\ \A w \in Visit \ {v} : visit'[w] = visit[w]
        /\ visit[v].tab = NoTab =>
             visit'[v].step = "idle" /\ visit'[v].kind = "load" /\ visit'[v].tab = NoTab
        /\ visit[v].tab # NoTab =>
             /\ visit'[v].step = "answered" /\ visit'[v].kind = visit[v].kind
             /\ visit'[v].tab = visit[v].tab /\ visit'[v].session = visit[v].session
    BY <1>a, <2>1, AnsweredFields
  <2>5. ConsoleTypeOK'
    BY <1>a, <2>1, <2>3, <2>4 DEF ConsoleTypeOK
  <2>6. CallsKnow'
    BY <1>a, <1>b, <2>1, <2>2, <2>3, <2>4 DEF TokenInv, CallsKnow
  <2>7. LoginsKnow'
    BY <1>a, <1>b, <2>1, <2>2, <2>3, <2>4 DEF TokenInv, CallsKnow, LoginsKnow
  <2>8. WaitsKnow'
    BY <1>a, <1>b, <2>1, <2>2, <2>3, <2>4 DEF TokenInv, WaitsKnow, Is
  <2>9. TabsKnow'
    BY <1>a, <1>b, <2>1, <2>3, <2>4 DEF TokenInv, TabsKnow, Is, Lost
  <2> QED BY <2>5, <2>6, <2>7, <2>8, <2>9 DEF TokenInv
<1>7. ASSUME NEW v \in Visit, Answer(v) \/ Drop(v) PROVE TokenInv'
  BY <1>7, <1>a, QuietStep DEF Answer, Drop, Is, browser
<1>8. ASSUME NEW v \in Visit, Receive(v) PROVE TokenInv'
  <2> DEFINE t == visit[v].tab
             kind == visit[v].kind
  <2>1. /\ visit[v].step = "answered" /\ t \in Tab /\ visit' = Done(v)
        /\ kind = "login" => cookie' = visit[v].session
        /\ kind \in {"logout", "refused"} => cookie' = NoSession
        /\ kind \in {"load", "rejected"} => cookie' = cookie
        /\ token' \in [Tab -> Nat]
        /\ \A x \in Tab \ {t} : token'[x] = token[x]
        /\ kind \in {"login", "load"} => token'[t] = visit[v].reply
        /\ kind \in {"logout", "rejected"} => token'[t] = 0
        /\ overtaken' \in [Tab -> BOOLEAN]
        /\ \A x \in Tab : overtaken'[x] <=> IF kind = "login" THEN x # t ELSE overtaken[x]
        /\ UNCHANGED <<clock, session, tokens>>
    BY <1>8, <1>a, ReceiveFields
  <2>2. /\ visit' \in [Visit -> Call]
        /\ \A w \in Visit \ {v} : visit'[w] = visit[w]
        /\ visit'[v].step = "idle" /\ visit'[v].kind = "load" /\ visit'[v].tab = NoTab
    BY <1>a, <2>1, DoneFields
  <2>3. kind \in {"login", "load", "logout", "rejected", "refused"}
    BY <1>a DEF Call
  <2>4. /\ visit[v].session \in Session /\ session[visit[v].session].used
        /\ \A w \in Visit \ {v} : visit[w].tab # t
    BY <1>a, <1>b, <2>1 DEF TokenInv, CallsKnow
  <2>5. cookie' \in Session \cup {NoSession}
    BY <1>a, <2>1, <2>3, <2>4
  <2>6. ConsoleTypeOK'
    BY <1>a, <2>1, <2>2, <2>5 DEF ConsoleTypeOK
  <2>7. CallsKnow'
    BY <1>a, <1>b, <2>1, <2>2, <2>3, <2>4 DEF TokenInv, CallsKnow
  <2>8. LoginsKnow'
    BY <1>a, <1>b, <2>1, <2>2, <2>3, <2>4 DEF TokenInv, CallsKnow, LoginsKnow
  <2>9. WaitsKnow'
    <3>1. CASE kind = "login"
      BY <1>a, <1>b, <2>1, <2>2, <2>4, <3>1 DEF WaitsKnow
    <3>2. CASE kind # "login"
      BY <1>a, <1>b, <2>1, <2>2, <2>3, <2>4, <3>2 DEF TokenInv, WaitsKnow, Is
    <3> QED BY <3>1, <3>2
  <2>10. TabsKnow'
    <3> SUFFICES ASSUME NEW x \in Tab, Lost(x)'
                 PROVE  overtaken'[x] \/ \E w \in Visit : visit'[w].tab = x /\ Is(w, "answered", "load")'
      BY DEF TabsKnow
    <3>1. CASE kind = "login"
      BY <2>1, <3>1 DEF TokenInv, LoginsKnow, Lost
    <3>2. CASE kind \in {"logout", "refused"}
      BY <2>1, <3>2 DEF Lost
    <3>3. CASE kind \in {"load", "rejected"} /\ x = t
      BY <1>a, <1>b, <2>1, <3>3 DEF TokenInv, WaitsKnow, Is, Lost
    <3>4. CASE kind \in {"load", "rejected"} /\ x # t
      <4>1. Lost(x)
        BY <2>1, <3>4 DEF Lost
      <4> QED BY <2>1, <2>2, <3>4, <4>1 DEF TokenInv, TabsKnow, Is
    <3> QED BY <2>3, <3>1, <3>2, <3>3, <3>4
  <2> QED BY <2>6, <2>7, <2>8, <2>9, <2>10 DEF TokenInv
<1>9. ASSUME NEW v \in Visit, Leave(v) PROVE TokenInv'
  <2> DEFINE t == visit[v].tab
  <2>1. /\ t \in Tab
        /\ visit' \in [Visit -> Call]
        /\ \A w \in Visit \ {v} : visit'[w] = visit[w]
        /\ visit'[v].tab = NoTab /\ visit'[v].step # "answered"
        /\ visit'[v].step # "idle" =>
             visit'[v].step = visit[v].step /\ visit'[v].session = visit[v].session
        /\ visit'[v].kind # "login"
        /\ token' \in [Tab -> Nat]
        /\ \A x \in Tab \ {t} : token'[x] = token[x]
        /\ token'[t] \in {0, token[t]}
        /\ overtaken' \in [Tab -> BOOLEAN]
        /\ \A x \in Tab : overtaken[x] => overtaken'[x]
        /\ Is(v, "answered", "load") => overtaken'[t]
        /\ UNCHANGED <<clock, session, cookie, tokens>>
    BY <1>9, <1>a, LeaveFields DEF TokenInv
  <2>2. ConsoleTypeOK'
    BY <1>a, <2>1 DEF ConsoleTypeOK
  <2>3. CallsKnow'
    BY <1>a, <1>b, <2>1 DEF TokenInv, CallsKnow
  <2>4. LoginsKnow'
    BY <1>a, <1>b, <2>1 DEF TokenInv, CallsKnow, LoginsKnow
  <2>5. WaitsKnow'
    BY <1>a, <1>b, <2>1 DEF TokenInv, WaitsKnow, Is
  <2>6. TabsKnow'
    <3> SUFFICES ASSUME NEW x \in Tab, Lost(x)'
                 PROVE  overtaken'[x] \/ \E w \in Visit : visit'[w].tab = x /\ Is(w, "answered", "load")'
      BY DEF TabsKnow
    <3>1. Lost(x)
      BY <2>1 DEF Lost
    <3>2. CASE overtaken[x]
      BY <2>1, <3>2
    <3>3. ASSUME NEW w \in Visit, visit[w].tab = x, Is(w, "answered", "load")
          PROVE  overtaken'[x] \/ \E u \in Visit : visit'[u].tab = x /\ Is(u, "answered", "load")'
      <4>1. CASE w = v
        BY <2>1, <3>3, <4>1
      <4>2. CASE w # v
        BY <2>1, <3>3, <4>2 DEF Is
      <4> QED BY <4>1, <4>2
    <3> QED BY <3>1, <3>2, <3>3 DEF TokenInv, TabsKnow
  <2> QED BY <2>2, <2>3, <2>4, <2>5, <2>6 DEF TokenInv
<1>12. ASSUME NEW v \in Visit, LoadUnanswered(v) PROVE TokenInv'
  <2> DEFINE s == visit[v].session
  <2>1. s \in Session /\ session[s].used /\ visit[v].step = "extended"
    BY <1>12, <1>a DEF LoadUnanswered, Is, TokenInv, CallsKnow
  <2>2. /\ tokens' \in Nat
        /\ visit' = Done(v) /\ UNCHANGED <<clock, cookie, token>>
    BY <1>12, <1>a, <2>1, UnansweredFields
  <2>3. /\ session' \in [Session -> SessionRow]
        /\ \A x \in Session \ {s} : session'[x] = session[x]
        /\ \A x \in Session : session'[x].used = session[x].used
    BY <1>12, <1>a, <2>1, UnansweredFields
  <2>4. /\ visit' \in [Visit -> Call]
        /\ \A w \in Visit \ {v} : visit'[w] = visit[w]
        /\ visit'[v].step = "idle" /\ visit'[v].kind = "load" /\ visit'[v].tab = NoTab
    BY <1>a, <2>2, DoneFields
  <2>5. /\ overtaken' \in [Tab -> BOOLEAN]
        /\ \A t \in Tab : overtaken[t] \/ s = cookie => overtaken'[t]
    BY <1>12, <1>a, <2>1, UnansweredFields
  <2> HIDE DEF s
  <2>6. ConsoleTypeOK'
    BY <1>a, <2>2, <2>3, <2>4, <2>5 DEF ConsoleTypeOK
  <2>7. CallsKnow'
    BY <1>a, <1>b, <2>2, <2>3, <2>4 DEF TokenInv, CallsKnow
  <2>8. LoginsKnow'
    <3>1. \A w \in Visit : visit[w].kind = "login" => visit[w].session # s
      BY <2>1 DEF TokenInv, CallsKnow, LoginsKnow, s
    <3> QED BY <1>a, <1>b, <2>2, <2>3, <2>4, <3>1 DEF TokenInv, CallsKnow, LoginsKnow
  <2>9. WaitsKnow'
    BY <1>a, <1>b, <2>2, <2>3, <2>4, <2>5 DEF TokenInv, WaitsKnow, Is
  <2>10. TabsKnow'
    BY <1>a, <1>b, <2>1, <2>2, <2>3, <2>4, <2>5, SMTT(30) DEF TokenInv, TabsKnow, Is, Lost
  <2> QED BY <2>6, <2>7, <2>8, <2>9, <2>10 DEF TokenInv
<1>13. ASSUME NEW v \in Visit, LoseLogin(v) PROVE TokenInv'
  <2>1. /\ visit[v].step = "answered" /\ visit[v].kind = "login" /\ cookie' = visit[v].session
        /\ overtaken' \in [Tab -> BOOLEAN] /\ \A t \in Tab : overtaken'[t]
        /\ visit' = Done(v) /\ UNCHANGED <<clock, session, token, tokens>>
    BY <1>13 DEF LoseLogin, Is
  <2>2. /\ visit' \in [Visit -> Call]
        /\ \A w \in Visit \ {v} : visit'[w] = visit[w]
        /\ visit'[v].step = "idle" /\ visit'[v].kind = "load" /\ visit'[v].tab = NoTab
    BY <1>a, <2>1, DoneFields
  <2>3. visit[v].session \in Session /\ session[visit[v].session].used
    BY <1>a, <2>1 DEF TokenInv, CallsKnow
  <2>4. ConsoleTypeOK'
    BY <1>a, <2>1, <2>2, <2>3 DEF ConsoleTypeOK
  <2>5. CallsKnow'
    BY <1>a, <1>b, <2>1, <2>2, <2>3 DEF TokenInv, CallsKnow
  <2>6. LoginsKnow'
    BY <1>a, <1>b, <2>1, <2>2, <2>3 DEF TokenInv, CallsKnow, LoginsKnow
  <2>7. WaitsKnow' /\ TabsKnow'
    BY <1>a, <2>1, <2>2 DEF WaitsKnow, TabsKnow
  <2> QED BY <2>4, <2>5, <2>6, <2>7 DEF TokenInv
<1>10. ASSUME NEW s \in Session, RevokeSession(s) PROVE TokenInv'
  <2>1. /\ session' \in [Session -> SessionRow]
        /\ \A x \in Session : session'[x].used = session[x].used /\ session'[x].token = session[x].token
    BY <1>10, <1>a, RevokedFields DEF RevokeSession
  <2> QED BY <1>10, <1>a, <2>1, QuietStep DEF RevokeSession, browser
<1>11. CASE Tick
  BY <1>11, <1>a, QuietStep DEF Tick, browser
<1> QED
  BY <1>1, <1>2, <1>3, <1>4, <1>5, <1>6, <1>7, <1>8, <1>9, <1>10, <1>11, <1>12, <1>13
     DEF ConsoleNext

\* The types of the console and what TokenInv says of cookie, tokens and requests on
\* their way hold whatever the tabs do and in whatever order answers arrive.
THEOREM TokenInvariant == ConsoleSpec => []TokenInv
<1>1. ConsoleInit => TokenInv
  <2> SUFFICES ASSUME ConsoleInit PROVE TokenInv
    OBVIOUS
  <2>1. ConsoleTypeOK
    BY NoCallFields DEF ConsoleInit, ConsoleTypeOK, NoSessionRow, SessionRow
  <2>2. CallsKnow /\ LoginsKnow /\ WaitsKnow /\ TabsKnow
    BY NoCallFields DEF ConsoleInit, CallsKnow, LoginsKnow, WaitsKnow, TabsKnow, Lost
  <2> QED BY <2>1, <2>2 DEF TokenInv
<1> QED BY <1>1, TokenStep, PTL DEF ConsoleSpec

\* A tab that waits for nothing loses the session's token only to another tab
\* that loaded or logged in, or to a load or login of its own whose answer it left or lost.
THEOREM TokensAreLostToOthers == ConsoleSpec => []TokenLostOnlyToOthers
<1>1. TokenInv => TokenLostOnlyToOthers
  BY DEF TokenInv, TabsKnow, Lost, TokenLostOnlyToOthers
<1> QED BY <1>1, TokenInvariant, PTL

-----------------------------------------------------------------------------
\* Every step preserves AdmittedInv.
LEMMA AdmittedStep == TokenInv /\ AdmittedInv /\ [ConsoleNext]_consoleVars => AdmittedInv'
<1> SUFFICES ASSUME TokenInv, AdmittedInv, [ConsoleNext]_consoleVars PROVE AdmittedInv'
  OBVIOUS
<1>a. /\ ConsoleTypeOK /\ visit \in [Visit -> Call] /\ clock \in Nat /\ IdleTime \in Nat
      /\ cookie \in Session \cup {NoSession}
      /\ \A w \in Visit : visit[w].session \in Session \cup {NoSession} /\ visit[w].at \in Nat
      /\ \A s \in Session : session[s].idle \in Nat /\ session[s].absolute \in Nat
  BY ConsoleAssumption DEF TokenInv, ConsoleTypeOK, Call, SessionRow
\* A step that admits nobody and leaves clock and ends alone.
<1>b. ASSUME clock' = clock,
             \A w \in Visit : visit'[w].step = "admitted" =>
               /\ visit[w].step = "admitted"
               /\ visit'[w].session = visit[w].session /\ visit'[w].at = visit[w].at,
             \A s \in Session : session[s].used =>
               session'[s].idle = session[s].idle /\ session'[s].absolute = session[s].absolute
      PROVE  AdmittedInv'
  <2>1. \A w \in Visit : visit[w].step = "admitted" =>
          visit[w].session \in Session /\ session[visit[w].session].used
    BY <1>a DEF TokenInv, CallsKnow
  <2> QED BY <1>a, <1>b, <2>1 DEF AdmittedInv
<1>1. CASE UNCHANGED consoleVars
  BY <1>1, <1>b DEF consoleVars
<1>2. ASSUME NEW t \in Tab, NEW v \in Visit, NEW s \in Session, Login(t, v, s) PROVE AdmittedInv'
  <2>1. ~session[s].used /\ clock' = clock
    BY <1>2 DEF Login
  <2>2. /\ \A w \in Visit \ {v} : visit'[w] = visit[w]
        /\ visit'[v].step = "answered"
        /\ \A x \in Session \ {s} : session'[x] = session[x]
    BY <1>2, <1>a, LoginFields
  <2> QED BY <1>b, <2>1, <2>2
<1>3. ASSUME NEW t \in Tab, NEW v \in Visit,
             (\E kind \in {"load", "logout", "rejected"} : LetIn(t, v, kind)) \/ Refuse(t, v)
      PROVE  AdmittedInv'
  <2>1. /\ \A w \in Visit \ {v} : visit'[w] = visit[w]
        /\ visit'[v].session = cookie /\ cookie # NoSession
        /\ visit'[v].step = "admitted" => Valid(cookie) /\ visit'[v].at = clock
        /\ UNCHANGED <<clock, session>>
    BY <1>3, <1>a, SentFields
  <2> QED BY <1>a, <2>1 DEF AdmittedInv, Valid
<1>4. ASSUME NEW v \in Visit, Extend(v) PROVE AdmittedInv'
  <2> DEFINE s == visit[v].session
  <2>1. s # NoSession /\ s \in Session
    BY <1>4, <1>a DEF Extend, TokenInv, CallsKnow
  <2>2. /\ \A w \in Visit \ {v} : visit'[w] = visit[w]
        /\ visit'[v].step = "extended"
        /\ \A x \in Session \ {s} : session'[x] = session[x]
        /\ \A x \in Session : session'[x].absolute = session[x].absolute
        /\ session'[s].idle \in {session[s].idle, Least(clock + IdleTime, session[s].absolute)}
        /\ clock' = clock
    BY <1>4, <1>a, <2>1, ExtendFields DEF Extend
  <2> HIDE DEF s
  <2>3. SUFFICES ASSUME NEW w \in Visit \ {v}, visit[w].step = "admitted"
                 PROVE  /\ visit[w].session # NoSession /\ visit[w].at <= clock
                        /\ visit[w].at < session[visit[w].session].absolute
                        /\ IdleTime > 0 => visit[w].at < session'[visit[w].session].idle
    BY <1>a, <2>2 DEF AdmittedInv
  <2>4. CASE visit[w].session # s
    BY <1>a, <2>2, <2>3, <2>4 DEF AdmittedInv
  <2>5. CASE visit[w].session = s
    BY <1>a, <2>1, <2>2, <2>3, <2>5 DEF AdmittedInv, Least
  <2> QED BY <2>4, <2>5
<1>5. ASSUME NEW v \in Visit, Load(v) PROVE AdmittedInv'
  <2>1. visit[v].session # NoSession /\ visit[v].step = "extended"
    BY <1>5, <1>a DEF Load, Is, TokenInv, CallsKnow
  <2>2. /\ tokens' \in Nat /\ visit' = Answered(v, tokens') /\ clock' = clock
        /\ \A s \in Session : session'[s].idle = session[s].idle /\ session'[s].absolute = session[s].absolute
    BY <1>5, <1>a, <2>1, LoadFields DEF Load
  <2>3. /\ \A w \in Visit \ {v} : visit'[w] = visit[w]
        /\ visit'[v].step # "admitted"
    BY <1>a, <2>2, AnsweredFields
  <2> QED BY <1>b, <2>2, <2>3
<1>6. ASSUME NEW v \in Visit, Logout(v) \/ Reject(v) PROVE AdmittedInv'
  <2>1. visit' = Answered(v, 0) /\ clock' = clock /\ visit[v].step = "extended"
    BY <1>6 DEF Logout, Reject, Is
  <2>2. /\ \A w \in Visit \ {v} : visit'[w] = visit[w]
        /\ visit'[v].step # "admitted"
    BY <1>a, <2>1, AnsweredFields
  <2>3. \A s \in Session : session'[s].idle = session[s].idle /\ session'[s].absolute = session[s].absolute
    <3>1. CASE Logout(v)
      <4>1. visit[v].session \in Session
        BY <1>a, <2>1 DEF TokenInv, CallsKnow
      <4>2. PICK live \in BOOLEAN : session' = [session EXCEPT ![visit[v].session].live = live]
        BY <1>a, <3>1, <4>1 DEF Logout, ConsoleTypeOK, SessionRow
      <4> QED BY <1>a, <4>1, <4>2, RevokedFields
    <3>2. CASE Reject(v)
      BY <3>2 DEF Reject
    <3> QED BY <1>6, <3>1, <3>2
  <2> QED BY <1>b, <2>1, <2>2, <2>3
<1>7. ASSUME NEW v \in Visit, Answer(v) \/ Drop(v) PROVE AdmittedInv'
  BY <1>7, <1>a, <1>b, DoneFields DEF Answer, Drop
<1>8. ASSUME NEW v \in Visit, Receive(v) PROVE AdmittedInv'
  <2>1. visit' = Done(v) /\ UNCHANGED <<clock, session>>
    BY <1>8 DEF Receive
  <2> QED BY <1>a, <1>b, <2>1, DoneFields
<1>9. ASSUME NEW v \in Visit, Leave(v) PROVE AdmittedInv'
  <2>1. /\ \A w \in Visit \ {v} : visit'[w] = visit[w]
        /\ visit'[v].step # "idle" => /\ visit'[v].step = visit[v].step
                                      /\ visit'[v].at = visit[v].at
                                      /\ visit'[v].session = visit[v].session
        /\ UNCHANGED <<clock, session>>
    BY <1>9, <1>a, LeaveFields DEF TokenInv
  <2> QED BY <1>b, <2>1
<1>12. ASSUME NEW v \in Visit, LoadUnanswered(v) PROVE AdmittedInv'
  <2>1. visit[v].session \in Session
    BY <1>12, <1>a DEF LoadUnanswered, Is, TokenInv, CallsKnow
  <2>2. /\ visit' = Done(v) /\ clock' = clock
        /\ \A s \in Session : session'[s].idle = session[s].idle /\ session'[s].absolute = session[s].absolute
    BY <1>12, <1>a, <2>1, UnansweredFields
  <2> QED BY <1>a, <1>b, <2>2, DoneFields
<1>13. ASSUME NEW v \in Visit, LoseLogin(v) PROVE AdmittedInv'
  <2>1. visit' = Done(v) /\ UNCHANGED <<clock, session>>
    BY <1>13 DEF LoseLogin
  <2> QED BY <1>a, <1>b, <2>1, DoneFields
<1>10. ASSUME NEW s \in Session, RevokeSession(s) PROVE AdmittedInv'
  BY <1>10, <1>a, <1>b, RevokedFields DEF RevokeSession
<1>11. CASE Tick
  <2>1. clock' = clock + 1 /\ UNCHANGED <<session, visit>>
    BY <1>11 DEF Tick
  <2> QED BY <1>a, <2>1 DEF AdmittedInv
<1> QED
  BY <1>1, <1>2, <1>3, <1>4, <1>5, <1>6, <1>7, <1>8, <1>9, <1>10, <1>11, <1>12, <1>13
     DEF ConsoleNext

\* A session whose idle time has run out comes back only through a request that
\* was let in before, and never beyond its absolute end.
THEOREM RevivalsWereAdmitted == ConsoleSpec => RevivedOnlyByAdmitted
<1> DEFINE Revived ==
      \A s \in Session : session[s].used /\ session[s].idle <= clock /\ session'[s].idle > clock =>
        /\ session'[s].idle <= session[s].absolute
        /\ \E v \in Visit : /\ visit[v].step = "admitted" /\ visit[v].session = s
                            /\ visit[v].at < session[s].idle
<1>1. ConsoleInit => AdmittedInv
  BY NoCallFields DEF ConsoleInit, AdmittedInv
<1>2. TokenInv /\ AdmittedInv /\ [ConsoleNext]_consoleVars => Revived
  <2> SUFFICES ASSUME TokenInv, AdmittedInv, [ConsoleNext]_consoleVars, NEW s \in Session,
                      session[s].used, session[s].idle <= clock, session'[s].idle > clock
               PROVE  /\ session'[s].idle <= session[s].absolute
                      /\ \E v \in Visit : /\ visit[v].step = "admitted" /\ visit[v].session = s
                                          /\ visit[v].at < session[s].idle
    OBVIOUS
  <2>1. /\ ConsoleTypeOK /\ clock \in Nat /\ IdleTime \in Nat
        /\ session[s].idle \in Nat /\ session[s].absolute \in Nat
        /\ \A w \in Visit : visit[w].session \in Session \cup {NoSession}
    BY ConsoleAssumption DEF TokenInv, ConsoleTypeOK, SessionRow, Call
  <2>2. session'[s].idle # session[s].idle
    BY <2>1
  <2>3. \A t \in Tab, v \in Visit, x \in Session : ~Login(t, v, x)
    <3> SUFFICES ASSUME NEW t \in Tab, NEW v \in Visit, NEW x \in Session, Login(t, v, x) PROVE FALSE
      OBVIOUS
    <3>1. ~session[x].used
      BY DEF Login
    <3>2. \A y \in Session \ {x} : session'[y] = session[y]
      BY <2>1, LoginFields
    <3> QED BY <2>2, <3>1, <3>2
  <2>4. \A v \in Visit : ~Load(v) /\ ~LoadUnanswered(v)
    <3>1. \A v \in Visit : ~Load(v)
      BY <2>1, <2>2, LoadFields DEF Load, Is, TokenInv, CallsKnow
    <3>2. \A v \in Visit : ~LoadUnanswered(v)
      BY <2>1, <2>2, UnansweredFields DEF LoadUnanswered, Is, TokenInv, CallsKnow
    <3> QED BY <3>1, <3>2
  <2>5. \A v \in Visit : ~Logout(v)
    <3> SUFFICES ASSUME NEW v \in Visit, Logout(v) PROVE FALSE
      OBVIOUS
    <3>1. visit[v].session \in Session
      BY <2>1 DEF Logout, Is, TokenInv, CallsKnow
    <3>2. PICK live \in BOOLEAN : session' = [session EXCEPT ![visit[v].session].live = live]
      BY <2>1, <3>1 DEF Logout, ConsoleTypeOK, SessionRow
    <3> QED BY <2>1, <2>2, <3>1, <3>2, RevokedFields
  <2>6. \A x \in Session : ~RevokeSession(x)
    BY <2>1, <2>2, RevokedFields DEF RevokeSession
  <2>7. PICK v \in Visit : Extend(v)
    BY <2>2, <2>3, <2>4, <2>5, <2>6
       DEF ConsoleNext, consoleVars, LetIn, Refuse, Reject, Answer, Receive, LoseLogin, Leave,
           Drop, Tick
  <2>8. visit[v].step = "admitted" /\ visit[v].session # NoSession
    BY <2>7 DEF Extend, TokenInv, CallsKnow
  <2>9. visit[v].session = s /\ session'[s].idle = Least(clock + IdleTime, session[s].absolute)
    BY <2>1, <2>2, <2>7, <2>8, ExtendFields
  <2> QED BY <2>1, <2>8, <2>9 DEF AdmittedInv, Least
<1>3. TokenInv /\ AdmittedInv /\ [ConsoleNext]_consoleVars => [Revived]_consoleVars
  BY <1>2
<1> QED
  BY <1>1, <1>3, TokenInvariant, AdmittedStep, PTL DEF ConsoleSpec, RevivedOnlyByAdmitted

-----------------------------------------------------------------------------
(***************************************************************************)
(* GameData.                                                               *)
(***************************************************************************)

\* The database is never torn; the pool is empty unless the server serves; what
\* was hashed is still there unless it was replaced.
ServerKnows ==
  /\ database # Torn
  /\ server.step # "serving" => \A c \in Connection : pool[c] = NoData
  /\ server.step \in {"hashed", "serving"} /\ ~replaced => database = server.version

Replacing(i) == import[i].step \in {"renamed", "truncated"}

\* A run beside which no other ran is alone, and the files hold what it wrote;
\* when no run is between its two writes, the files match unless spoiled.
ImportsKnow ==
  /\ \A i \in Import : Running(i) /\ ~import[i].beside =>
       /\ \A j \in Import \ {i} : ~Running(j)
       /\ Replacing(i) => database = import[i].copy
       /\ import[i].step = "truncated" => manifest = Torn
  /\ ~spoiled /\ (\A i \in Import : ~Replacing(i)) => database = manifest

GameInv == GameTypeOK /\ ServerKnows /\ ImportsKnow /\ ConnectionsReadWhole /\ StrayOnlyAfterImport

\* A version is neither of the two other values of a file.
LEMMA Versions == 1 \in Version /\ NoData \notin Version /\ Torn \notin Version /\ NoData # Torn
  BY GameDataAssumption DEF Version

\* The step of the import with its booleans named.
LEMMA Verified ==
  ASSUME NEW i \in Import, VerifySource(i), GameTypeOK
  PROVE  /\ import' \in [Import -> Run]
         /\ import'[i].step = "verified"
         /\ \A j \in Import : Running(j) => import'[i].beside
         /\ \A j \in Import \ {i} : /\ import'[j].step = import[j].step
                                    /\ import'[j].copy = import[j].copy
                                    /\ import[j].beside \/ Running(j) => import'[j].beside
  <1> DEFINE b == \E k \in Import : Running(k)
             o == [j \in Import |-> import[j].beside \/ Running(j)]
  <1>1. b \in BOOLEAN /\ o \in [Import -> BOOLEAN]
    BY Zenon
  <1>2. \A j \in Import : (Running(j) => b /\ o[j]) /\ (import[j].beside => o[j])
    BY Zenon
  <1>3. import' = [j \in Import |->
          IF j = i THEN [NoRun EXCEPT !.step = "verified", !.version = source, !.beside = b]
          ELSE [import[j] EXCEPT !.beside = o[j]]]
    BY Zenon DEF VerifySource
  <1>4. import \in [Import -> Run] /\ source \in Version /\ 1 \in Version
    BY Versions DEF GameTypeOK
  <1> HIDE DEF b, o
  <1>5. import' \in [Import -> Run]
    BY <1>1, <1>3, <1>4 DEF NoRun, Run
  <1>6. import'[i].step = "verified" /\ import'[i].beside = b
    BY <1>1, <1>3 DEF NoRun
  <1>7. ASSUME NEW j \in Import \ {i}
        PROVE  /\ import'[j].step = import[j].step /\ import'[j].copy = import[j].copy
               /\ import'[j].beside = o[j]
    BY <1>1, <1>3, <1>4 DEF Run
  <1> QED BY <1>2, <1>5, <1>6, <1>7

\* The variables keep their types.
LEMMA GameTypes == GameTypeOK /\ [GameNext]_gameVars => GameTypeOK'
<1> SUFFICES ASSUME GameTypeOK, [GameNext]_gameVars PROVE GameTypeOK'
  OBVIOUS
<1> USE Versions DEF GameTypeOK, files, process
<1>1. CASE UNCHANGED gameVars
  BY <1>1 DEF gameVars
<1>2. CASE UpdateSource
  <2>1. source' \in Version
    BY <1>2, GameDataAssumption DEF UpdateSource, Version
  <2> QED BY <1>2, <2>1 DEF UpdateSource
<1>3. ASSUME NEW i \in Import, VerifySource(i) PROVE GameTypeOK'
  <2>1. import' \in [Import -> Run]
    BY <1>3, Verified
  <2> QED BY <1>3, <2>1 DEF VerifySource
<1>4. ASSUME NEW i \in Import, CopySource(i) PROVE GameTypeOK'
  <2>1. PICK v \in Version : import' = [import EXCEPT ![i].step = "copied", ![i].copy = v]
    BY <1>4 DEF CopySource, Run
  <2>2. import' \in [Import -> Run]
    BY <2>1, ZenonT(60) DEF Run
  <2> QED BY <1>4, <2>2 DEF CopySource
<1>5. ASSUME NEW i \in Import, RenameDatabase(i) PROVE GameTypeOK'
  BY <1>5 DEF RenameDatabase, Run
<1>6. ASSUME NEW i \in Import, TruncateManifest(i) PROVE GameTypeOK'
  BY <1>6 DEF TruncateManifest, Run
<1>7. ASSUME NEW i \in Import, Finish(i) PROVE GameTypeOK'
  <2>1. spoiled' \in BOOLEAN
    BY <1>7, Zenon DEF Finish
  <2>2. manifest' \in Version \cup {NoData, Torn} /\ import' \in [Import -> Run]
    BY <1>7 DEF Finish, NoRun, Run
  <2> QED BY <1>7, <2>1, <2>2 DEF Finish
<1>8. ASSUME NEW i \in Import, Stop(i) PROVE GameTypeOK'
  <2>1. spoiled' \in BOOLEAN
    BY <1>8, Zenon DEF Stop
  <2>2. import' \in [Import -> Run]
    BY <1>8 DEF Stop, NoRun, Run
  <2> QED BY <1>8, <2>1, <2>2 DEF Stop
<1>9. CASE ReadManifest
  BY <1>9 DEF ReadManifest, Process
<1>10. CASE HashDatabase
  BY <1>10 DEF HashDatabase, Reach, Process
<1>11. CASE OpenFails
  BY <1>11 DEF OpenFails, Reach, Process
<1>12. CASE Restart
  BY <1>12 DEF Restart, Reach, Process
<1>13. ASSUME NEW c \in Connection, PingPool(c) PROVE GameTypeOK'
  BY <1>13 DEF PingPool, Reach, Process
<1>14. ASSUME NEW c \in Connection, OpenConnection(c) \/ CloseConnection(c) PROVE GameTypeOK'
  BY <1>14, SMTT(30) DEF OpenConnection, CloseConnection
<1> QED
  BY <1>1, <1>2, <1>3, <1>4, <1>5, <1>6, <1>7, <1>8, <1>9, <1>10, <1>11, <1>12, <1>13, <1>14 DEF GameNext

\* What the server and its connections know.
LEMMA ServerStep ==
  ASSUME GameTypeOK, ServerKnows, ConnectionsReadWhole, StrayOnlyAfterImport, [GameNext]_gameVars
  PROVE  ServerKnows' /\ ConnectionsReadWhole' /\ StrayOnlyAfterImport'
<1> DEFINE Goal == ServerKnows' /\ ConnectionsReadWhole' /\ StrayOnlyAfterImport'
<1> SUFFICES Goal
  OBVIOUS
<1>a. pool \in [Connection -> Version \cup {NoData, Torn}] /\ server \in Process
  BY DEF GameTypeOK
<1> USE Versions, <1>a DEF ServerKnows, ConnectionsReadWhole, StrayOnlyAfterImport, files, process
<1>1. CASE UNCHANGED <<database, server, pool, replaced>>
  BY <1>1
<1>2. ASSUME NEW i \in Import, RenameDatabase(i) PROVE Goal
  <2>1. import[i].copy \in Version
    BY <1>2 DEF GameTypeOK, Run
  <2> QED BY <1>2, <2>1 DEF RenameDatabase
<1>3. CASE ReadManifest
  BY <1>3 DEF ReadManifest, Process
<1>4. CASE HashDatabase
  BY <1>4 DEF HashDatabase, Reach, Process
<1>5. CASE OpenFails
  BY <1>5 DEF OpenFails, Reach, Process
<1>6. CASE Restart
  BY <1>6 DEF Restart, Reach, Process
<1>7. ASSUME NEW c \in Connection, PingPool(c) PROVE Goal
  BY <1>7 DEF PingPool, Reach, Process
<1>8. ASSUME NEW c \in Connection, OpenConnection(c) PROVE Goal
  BY <1>8 DEF OpenConnection
<1>9. ASSUME NEW c \in Connection, CloseConnection(c) PROVE Goal
  BY <1>9 DEF CloseConnection
<1> QED
  BY <1>1, <1>2, <1>3, <1>4, <1>5, <1>6, <1>7, <1>8, <1>9
     DEF GameNext, gameVars, UpdateSource, VerifySource, CopySource, TruncateManifest, Finish, Stop

\* What the imports know.
LEMMA ImportStep == GameTypeOK /\ ImportsKnow /\ [GameNext]_gameVars => ImportsKnow'
<1> SUFFICES ASSUME GameTypeOK, ImportsKnow, [GameNext]_gameVars PROVE ImportsKnow'
  OBVIOUS
<1>a. import \in [Import -> Run]
  BY DEF GameTypeOK
<1> USE Versions, <1>a DEF ImportsKnow, Running, Replacing, files, process
<1>1. CASE UNCHANGED <<database, manifest, import, spoiled>>
  BY <1>1
<1>2. ASSUME NEW i \in Import, VerifySource(i) PROVE ImportsKnow'
  <2>1. ~Running(i) /\ UNCHANGED <<database, manifest, spoiled>>
    BY <1>2 DEF VerifySource
  <2> QED BY <1>2, <2>1, Verified
<1>3. ASSUME NEW i \in Import, CopySource(i) PROVE ImportsKnow'
  <2>1. PICK v : import' = [import EXCEPT ![i].step = "copied", ![i].copy = v]
    BY <1>3 DEF CopySource
  <2> QED BY <1>3, <2>1 DEF CopySource, Run
<1>4. ASSUME NEW i \in Import, RenameDatabase(i) PROVE ImportsKnow'
  BY <1>4 DEF RenameDatabase, Run
<1>5. ASSUME NEW i \in Import, TruncateManifest(i) PROVE ImportsKnow'
  BY <1>5 DEF TruncateManifest, Run
<1>6. ASSUME NEW i \in Import, Finish(i) PROVE ImportsKnow'
  <2>1. ~spoiled' => ~import[i].beside /\ import[i].copy = import[i].version
    BY <1>6, Zenon DEF Finish
  <2>2. /\ import[i].step = "truncated" /\ UNCHANGED database
        /\ manifest = Torn => manifest' = import[i].version
        /\ import' = [import EXCEPT ![i] = NoRun]
    BY <1>6 DEF Finish
  <2> QED BY <2>1, <2>2 DEF NoRun, Run
<1>7. ASSUME NEW i \in Import, Stop(i) PROVE ImportsKnow'
  <2>1. ~spoiled' => ~spoiled /\ ~Replacing(i)
    BY <1>7, Zenon DEF Stop
  <2>2. import' = [import EXCEPT ![i] = NoRun] /\ UNCHANGED <<database, manifest>>
    BY <1>7 DEF Stop
  <2> QED BY <2>1, <2>2 DEF NoRun, Run
<1> QED
  BY <1>1, <1>2, <1>3, <1>4, <1>5, <1>6, <1>7
     DEF GameNext, gameVars, UpdateSource, ReadManifest, HashDatabase, OpenFails, Restart,
         PingPool, OpenConnection, CloseConnection

\* What the imports and the server know of the files, for any number of imports,
\* connections and versions.
THEOREM GameInvariant == GameSpec => []GameInv
<1>1. GameInit => GameInv
  <2> SUFFICES ASSUME GameInit PROVE GameInv
    OBVIOUS
  <2>1. GameTypeOK
    BY Versions DEF GameInit, GameTypeOK, NoRun, Run, Process
  <2>2. ServerKnows /\ ConnectionsReadWhole /\ StrayOnlyAfterImport
    BY Versions DEF GameInit, ServerKnows, ConnectionsReadWhole, StrayOnlyAfterImport
  <2>3. ImportsKnow
    BY DEF GameInit, ImportsKnow, NoRun, Running, Replacing
  <2> QED BY <2>1, <2>2, <2>3 DEF GameInv
<1>2. GameInv /\ [GameNext]_gameVars => GameInv'
  BY GameTypes, ServerStep, ImportStep DEF GameInv
<1> QED BY <1>1, <1>2, PTL DEF GameSpec

\* No connection ever has a database open of which an import wrote only a part; it may
\* be another version than the one that was hashed.
THEOREM ConnectionsStayWhole == GameSpec => []ConnectionsReadWhole
  BY GameInvariant, PTL DEF GameInv

\* Only a rename since the hash lets a connection read another database than the
\* one the data version names.
THEOREM StraysNeedAnImport == GameSpec => []StrayOnlyAfterImport
  BY GameInvariant, PTL DEF GameInv

\* At rest database and manifest match, unless imports overlapped, the source
\* changed under one, or one was cut short.
THEOREM FilesMatch == GameSpec => []FilesMatchAtRest
<1>1. GameInv => FilesMatchAtRest
  BY DEF GameInv, ImportsKnow, FilesMatchAtRest, Replacing, Running
<1> QED BY <1>1, GameInvariant, PTL

-----------------------------------------------------------------------------
(***************************************************************************)
(* EmailSettings.                                                          *)
(***************************************************************************)

\* What a save will write passed the check, and if its key field was empty and
\* nobody wrote since, the key is the stored one.
SavesKnow ==
  \A v \in Save : save[v].running =>
    /\ save[v].row.enabled => Configured(save[v].row)
    /\ ~save[v].entered /\ ~save[v].overlapped => save[v].row.key = settings.key

SettingsInv == SettingsTypeOK /\ SavesKnow /\ EnabledIsConfigured

\* The settings keep their types, and what SavesKnow says of the saves that run is
\* preserved by updateEmailSettings, for any number of saves at once.
THEOREM SettingsInvariant == SettingsSpec => []SettingsInv
<1>1. SettingsInit => SettingsInv
  BY DEF SettingsInit, SettingsInv, SettingsTypeOK, SavesKnow, EnabledIsConfigured, Configured,
         NoSave, NoSettings, SaveSlot, Settings
<1>2. SettingsInv /\ [SettingsNext]_settingsVars => SettingsInv'
  <2> SUFFICES ASSUME SettingsInv, [SettingsNext]_settingsVars PROVE SettingsInv'
    OBVIOUS
  <2> USE DEF SettingsInv, SettingsTypeOK, SavesKnow, EnabledIsConfigured, Configured
  <2>1. CASE UNCHANGED settingsVars
    BY <2>1 DEF settingsVars
  <2>2. ASSUME NEW v \in Save, NEW enabled \in BOOLEAN, NEW template \in BOOLEAN,
               BeginWithKey(v, enabled, template)
        PROVE  SettingsInv'
    <3>1. keys \in Nat /\ keys' = keys + 1 /\ (enabled => template)
      BY <2>2 DEF BeginWithKey, Acceptable
    <3>2. PICK k \in Nat : k # 0 /\ k = keys' /\ UNCHANGED settings
      BY <2>2, <3>1 DEF BeginWithKey
    <3>3. save' = [save EXCEPT ![v] = [NoSave EXCEPT !.running = TRUE, !.entered = TRUE,
            !.row = [enabled |-> enabled, key |-> k, template |-> template]]]
      BY <2>2, <3>2 DEF BeginWithKey
    <3> QED BY <3>1, <3>2, <3>3 DEF NoSave, NoSettings, SaveSlot, Settings
  <2>3. ASSUME NEW v \in Save, NEW enabled \in BOOLEAN, NEW template \in BOOLEAN,
               BeginWithoutKey(v, enabled, template)
        PROVE  SettingsInv'
    BY <2>3 DEF BeginWithoutKey, Acceptable, NoSave, NoSettings, SaveSlot, Settings
  <2>4. ASSUME NEW v \in Save, CommitSave(v) PROVE SettingsInv'
    BY <2>4 DEF CommitSave, NoSave, NoSettings, SaveSlot, Settings
  <2>5. ASSUME NEW v \in Save, RollbackSave(v) PROVE SettingsInv'
    BY <2>5 DEF RollbackSave, NoSave, NoSettings, SaveSlot, Settings
  <2> QED BY <2>1, <2>2, <2>3, <2>4, <2>5 DEF SettingsNext
<1> QED BY <1>1, <1>2, PTL DEF SettingsSpec

\* Settings that are enabled have a key and a template, whichever saves overlap.
THEOREM EnabledStaysConfigured == SettingsSpec => []EnabledIsConfigured
  BY SettingsInvariant, PTL DEF SettingsInv

\* A save with an empty key field changes the key only if another save wrote
\* between its read and its write.
THEOREM KeysAreKept == SettingsSpec => KeyKeptUnlessOverlapped
<1> DEFINE Kept == \A v \in Save : CommitSave(v) /\ ~save[v].entered /\ ~save[v].overlapped =>
                     settings'.key = settings.key
<1>1. SettingsInv => [Kept]_settingsVars
  BY DEF SettingsInv, SavesKnow, CommitSave
<1> QED BY <1>1, SettingsInvariant, PTL DEF KeyKeptUnlessOverlapped

-----------------------------------------------------------------------------
(***************************************************************************)
(* Side by side.                                                           *)
(***************************************************************************)

\* A behaviour in which the four run side by side is, for each of them, one of its
\* own: no request, import or save of one part reaches the state of another, so
\* what is proved of the parts holds when they run together.
THEOREM PartsKeepTheirRules ==
  AdministrationSpec => Spec /\ ConsoleSpec /\ GameSpec /\ SettingsSpec
<1>1. AdministrationInit => Init /\ ConsoleInit /\ GameInit /\ SettingsInit
  BY DEF AdministrationInit
<1>2. [AdministrationNext]_<<part, vars, consoleVars, gameVars, settingsVars>> =>
        [Next]_vars /\ [ConsoleNext]_consoleVars /\ [GameNext]_gameVars /\ [SettingsNext]_settingsVars
  BY DEF AdministrationNext
<1> QED BY <1>1, <1>2, PTL DEF AdministrationSpec, Spec, ConsoleSpec, GameSpec, SettingsSpec

\* Side by side, every variable of the four keeps its type.
THEOREM AdministrationTypes == AdministrationSpec => []AdministrationTypeOK
<1>1. TokenInv /\ GameInv /\ SettingsInv => ConsoleTypeOK /\ GameTypeOK /\ SettingsTypeOK
  BY DEF TokenInv, GameInv, SettingsInv
<1> QED
  BY <1>1, PartsKeepTheirRules, TypeCorrect, TokenInvariant, GameInvariant, SettingsInvariant, PTL
     DEF AdministrationTypeOK
=============================================================================
