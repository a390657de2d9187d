------------------------------ MODULE WebPage ------------------------------
(***************************************************************************)
(* One page of the web UI and the server behind it: the page shows a login *)
(* form or the instances, polls their list, and follows the event stream.  *)
(* Replies and events travel apart and may overtake each other; replies,   *)
(* requests and connections may be lost; another tab of the browser may    *)
(* log out; the server may restart, which ends every session.              *)
(***************************************************************************)
EXTENDS Sessions, RuntimeEvents

CONSTANT Calls     \* cells for HTTP requests in flight: bounds their number

VARIABLES
  mode,         \* of the page: "login" or "app"
  shown,        \* state.instances
  source,       \* state.eventSource: "none", "connecting", "open", "failed"
  stream,       \* each handler of /api/events: "free", "live", "orphan"
  call          \* each request

pageVars == <<mode, shown, source, stream, call>>
vars == <<sessionVars, eventVars, pageVars>>

NotShown == -1
NoInstances == [i \in Instances |-> NotShown]
Lists == [Instances -> {NotShown} \cup 0..MaxChanges]

\* A request: what for, how far it has come, its cookie, the list so far.
NoCall == [kind |-> "none", at |-> "idle", token |-> NoToken,
           ids |-> {}, reply |-> NoInstances]
CallStates == {"idle", "sent", "served", "listed", "answered", "refused",
               "broken"}

TypeOK ==
  /\ SessionsTypeOK /\ EventsTypeOK
  /\ mode \in {"login", "app"} /\ shown \in Lists
  /\ source \in {"none", "connecting", "open", "failed"}
  /\ stream \in [Streams -> {"free", "live", "orphan"}]
  /\ subscribers = {s \in Streams : stream[s] # "free"}
  /\ source = "open" <=> \E s \in Streams : stream[s] = "live"
  /\ \A c \in Calls :
       /\ call[c].kind \in {"none", "list", "login", "logout"}
       /\ call[c].at \in CallStates /\ call[c].token \in Tokens \cup {NoToken}
       /\ call[c].ids \subseteq Instances /\ call[c].reply \in Lists

Init ==
  /\ SessionsInit /\ EventsInit
  /\ mode = "login" /\ shown = NoInstances /\ source = "none"
  /\ stream = [s \in Streams |-> "free"]
  /\ call = [c \in Calls |-> NoCall]

-----------------------------------------------------------------------------
\* Variant: the event stream stays open behind the login form.
ShowFormOnly == mode' = "login" /\ UNCHANGED <<source, stream>>

\* showLogin stops the poller and closes the event stream; its handler will
\* notice.
ShowLogin ==
  /\ mode' = "login" /\ source' = "none"
  /\ stream' = [s \in Streams |->
                  IF stream[s] = "live" THEN "orphan" ELSE stream[s]]

\* showApp starts the poller, and the stream unless there is one.
ShowApp ==
  /\ mode' = "app"
  /\ source' = IF source = "none" THEN "connecting" ELSE source
  /\ UNCHANGED stream

Begin(c, kind) ==
  /\ call[c].at = "idle"
  /\ call' = [call EXCEPT ![c] =
                [NoCall EXCEPT !.kind = kind, !.at = "sent", !.token = cookie]]
  /\ UNCHANGED <<sessionVars, eventVars, mode, shown, source, stream>>

\* Variant: poll only while there is no event stream.
LoadUnlessStreaming(c) == mode = "app" /\ source # "open" /\ Begin(c, "list")

\* loadInstances: on every tick of the poller, when the stream is ready, on
\* an event for an unknown instance, after everything the user does.
Load(c) == mode = "app" /\ Begin(c, "list")

\* Bound: one login or logout at a time.
NoneUnderWay == \A c \in Calls : call[c].kind \notin {"login", "logout"}
SubmitLogin(c) == mode = "login" /\ NoneUnderWay /\ Begin(c, "login")
ClickLogout(c) == mode = "app" /\ NoneUnderWay /\ Begin(c, "logout")

-----------------------------------------------------------------------------
MovesTo(c, from, to) ==
  call[c].at = from /\ call' = [call EXCEPT ![c].at = to]

ServerOnly == UNCHANGED <<mode, shown, source, stream>>

\* login: the password is right, and a session begins.
LogsIn(c) ==
  /\ call[c].kind = "login" /\ call[c].at = "sent"
  /\ \E token \in Tokens :
       /\ \A other \in Calls : call[other].token # token
       /\ Create(token)
       /\ call' = [call EXCEPT ![c] =
                     [@ EXCEPT !.at = "answered", !.token = token]]
  /\ UNCHANGED eventVars /\ ServerOnly

\* requireAuth.
Authorized(c) ==
  /\ call[c].kind \in {"list", "logout"}
  /\ \/ Serves(call[c].token) /\ MovesTo(c, "sent", "served")
     \/ Refuses(call[c].token) /\ MovesTo(c, "sent", "refused")
  /\ UNCHANGED <<cookie, cookieLeft, ended, eventVars>> /\ ServerOnly

LogsOut(c) ==
  /\ call[c].kind = "logout" /\ MovesTo(c, "served", "answered")
  /\ Clear(call[c].token)
  /\ UNCHANGED <<cookie, cookieLeft, eventVars>> /\ ServerOnly

\* Manager.List: the store first, the statuses under m.mu afterwards.
ListItems(c) ==
  /\ call[c].kind = "list" /\ call[c].at = "served"
  /\ call' = [call EXCEPT ![c] = [@ EXCEPT !.at = "listed", !.ids = stored]]
  /\ UNCHANGED <<sessionVars, eventVars>> /\ ServerOnly

ListStatuses(c) ==
  /\ call[c].at = "listed"
  /\ call' = [call EXCEPT ![c] =
                [@ EXCEPT !.at = "answered", !.ids = {},
                          !.reply = [i \in Instances |->
                            IF i \in call[c].ids THEN status[i] ELSE NotShown]]]
  /\ UNCHANGED <<sessionVars, eventVars>> /\ ServerOnly

-----------------------------------------------------------------------------
Ends(c) == call' = [call EXCEPT ![c] = NoCall]

\* Each reply as api() and its caller take it.
ListArrives(c) ==
  /\ call[c].kind = "list" /\ call[c].at = "answered"
  /\ shown' = call[c].reply /\ Ends(c)
  /\ UNCHANGED <<sessionVars, eventVars, mode, source, stream>>

LoginArrives(c) ==
  /\ call[c].kind = "login" /\ call[c].at = "answered"
  /\ SetCookie(call[c].token) /\ ShowApp /\ Ends(c)
  /\ UNCHANGED <<items, ended, eventVars, shown>>

LogoutArrives(c) ==
  /\ call[c].kind = "logout" /\ call[c].at = "answered"
  /\ SetCookie(NoToken) /\ ShowLogin /\ Ends(c)
  /\ UNCHANGED <<items, ended, eventVars, shown>>

\* 401: whatever was asked for, back to the login form.
RefusalArrives(c) ==
  /\ call[c].at = "refused"
  /\ ShowLogin /\ Ends(c)
  /\ UNCHANGED <<sessionVars, eventVars, shown>>

\* The request or its reply is lost, or the server has died.  Only the
\* logout button does not care.
Lost(c) ==
  /\ call[c].at \in {"sent", "answered", "refused", "broken"} /\ Ends(c)
  /\ IF call[c].kind = "logout" THEN ShowLogin
                                ELSE UNCHANGED <<mode, source, stream>>
  /\ UNCHANGED <<sessionVars, eventVars, shown>>

-----------------------------------------------------------------------------
\* GET /api/events: the handler subscribes.  An EventSource that is refused
\* gives up.
Connects(s) ==
  /\ source = "connecting" /\ stream[s] = "free"
  /\ \/ /\ Serves(cookie) /\ SubscribeRuntime(s)
        /\ source' = "open" /\ stream' = [stream EXCEPT ![s] = "live"]
     \/ /\ Refuses(cookie) /\ source' = "failed"
        /\ UNCHANGED <<subscribers, queue, stream>>
  /\ UNCHANGED <<cookie, cookieLeft, ended, changes, stored, status,
                 mode, shown, call>>

\* The connection breaks; the EventSource connects again by itself.
Breaks(s) ==
  /\ stream[s] = "live" /\ stream' = [stream EXCEPT ![s] = "orphan"]
  /\ source' = "connecting"
  /\ UNCHANGED <<sessionVars, eventVars, mode, shown, call>>

\* The context of the request is done: the deferred unsubscribe.
HandlerEnds(s) ==
  /\ stream[s] = "orphan" /\ stream' = [stream EXCEPT ![s] = "free"]
  /\ Unsubscribe(s)
  /\ UNCHANGED <<sessionVars, changes, stored, status, mode, shown, source,
                 call>>

\* The handler takes an event from its queue, and applyRuntimeEvent gets it.
Delivers(s) ==
  /\ stream[s] = "live" /\ queue[s] # << >>
  /\ LET event == Head(queue[s])
     IN  shown' = IF shown[event.id] = NotShown THEN shown
                  ELSE [shown EXCEPT ![event.id] = event.runtime]
  /\ queue' = [queue EXCEPT ![s] = Tail(@)]
  /\ UNCHANGED <<sessionVars, changes, stored, status, subscribers, mode,
                 source, stream, call>>

-----------------------------------------------------------------------------
\* Another tab of the browser logs out.
OtherTabLogsOut ==
  /\ cookie # NoToken /\ Alive(cookie)
  /\ Clear(cookie) /\ SetCookie(NoToken)
  /\ UNCHANGED <<eventVars, pageVars>>

ClockTicks == Tick /\ UNCHANGED <<eventVars, pageVars>>

\* The server dies and starts again: sessions, subscriptions and requests
\* are gone.
Restart ==
  /\ Count
  /\ items' = [token \in Tokens |-> Absent]
  /\ ended' = ended \cup {token \in Tokens : Alive(token)}
  /\ subscribers' = {} /\ queue' = [s \in Streams |-> << >>]
  /\ stream' = [s \in Streams |-> "free"]
  /\ source' = IF source = "open" THEN "connecting" ELSE source
  /\ status' = [i \in Instances |-> changes']
  /\ call' = [c \in Calls |->
                IF call[c].at \in {"sent", "served", "listed"}
                THEN [call[c] EXCEPT !.at = "broken", !.ids = {}] ELSE call[c]]
  /\ UNCHANGED <<cookie, cookieLeft, stored, mode, shown>>

Arrives(c) ==
  \/ ListArrives(c) \/ LoginArrives(c) \/ LogoutArrives(c) \/ RefusalArrives(c)
  \/ call[c].at = "broken" /\ Lost(c)
ServerStep(c) ==
  LogsIn(c) \/ Authorized(c) \/ LogsOut(c) \/ ListItems(c) \/ ListStatuses(c)

Next ==
  \/ \E c \in Calls : \/ Load(c) \/ SubmitLogin(c) \/ ClickLogout(c)
                      \/ ServerStep(c) \/ Arrives(c) \/ Lost(c)
  \/ \E s \in Streams : \/ Connects(s) \/ Breaks(s)
                        \/ HandlerEnds(s) \/ Delivers(s)
  \/ \E i \in Instances : (StatusChanges(i) \/ StoreChanges(i))
                            /\ UNCHANGED <<sessionVars, pageVars>>
  \/ OtherTabLogsOut \/ ClockTicks \/ Restart

Spec == Init /\ [][Next]_vars

\* The poller fires, goroutines run, and the network does not lose every
\* request or every reply for ever.  Nothing else has to happen.
Fairness ==
  /\ WF_vars(\E c \in Calls : Load(c))
  /\ \A c \in Calls :
       /\ WF_vars(ServerStep(c))
       /\ SF_vars(Authorized(c)) /\ SF_vars(Arrives(c))
  /\ \A s \in Streams : WF_vars(HandlerEnds(s)) /\ WF_vars(Delivers(s))

FairSpec == Spec /\ Fairness

-----------------------------------------------------------------------------
(* Properties                                                              *)

\* A session that has ended, by a logout or by the clock, does not come back:
\* no request under way at that moment and no other tab renews it.
EndedSessionsStayEnded == \A token \in ended : ~Alive(token)

\* Replies overtake each other and events, full queues lose events, streams
\* break and configurations come and go: once nothing changes any more, a page
\* that is not sent back to the login form shows what the server has.
PageCatchesUp ==
  <>[](mode = "app") =>
    <>[](shown = [i \in Instances |->
                    IF i \in stored THEN status[i] ELSE NotShown])

\* With the last session the event streams end, although a stream is checked
\* only when it is opened: the page finds out and closes it.
StreamsEndWithSessions ==
  <>[](\A token \in Tokens : ~Alive(token)) => <>[](subscribers = {})
=============================================================================
