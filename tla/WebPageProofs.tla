--------------------------- MODULE WebPageProofs ---------------------------
(***************************************************************************)
(* Theorems about WebPage, for any number of tokens, instances, streams    *)
(* and requests, any lifetime of a session and any length of a queue.      *)
(***************************************************************************)
EXTENDS WebPage, TLAPS

\* The sessions and the cookie.
SessionsOK == SessionsTypeOK /\ EndedSessionsStayEnded

\* login: a new session is one that has not ended; it takes nobody else along.
LEMMA CreateKeeps ==
  ASSUME SessionsOK, NEW token \in Tokens, Create(token)
  PROVE  SessionsOK'
<1>1. SessionsTypeOK'
  BY LifetimeAssumption DEF SessionsOK, SessionsTypeOK, Create, Absent
<1>2. EndedSessionsStayEnded'
  BY LifetimeAssumption
     DEF SessionsOK, SessionsTypeOK, EndedSessionsStayEnded, Create, Absent, Alive
<1> QED BY <1>1, <1>2 DEF SessionsOK

\* requireAuth renews what has not ended, and nothing else.
LEMMA AuthKeeps ==
  ASSUME SessionsOK, NEW token \in Tokens \cup {NoToken},
         Serves(token) \/ Refuses(token), UNCHANGED <<cookie, cookieLeft, ended>>
  PROVE  SessionsOK' /\ (Serves(token) => token \in Tokens)
<1>1. CASE UNCHANGED items
  BY <1>1 DEF SessionsOK, SessionsTypeOK, EndedSessionsStayEnded, Alive, Serves
<1>2. CASE token \in Tokens /\ Valid(token)
  <2>1. items' = [items EXCEPT ![token] =
                    IF items[token] > 0 THEN Lifetime ELSE Absent]
    BY <1>2 DEF Valid
  <2>2. SessionsTypeOK'
    BY <2>1, <1>2, LifetimeAssumption DEF SessionsOK, SessionsTypeOK, Absent
  <2>3. EndedSessionsStayEnded'
    BY <2>1, <1>2, LifetimeAssumption
       DEF SessionsOK, SessionsTypeOK, EndedSessionsStayEnded, Absent, Alive
  <2> QED BY <1>2, <2>2, <2>3 DEF SessionsOK
<1>3. UNCHANGED items \/ (token \in Tokens /\ Valid(token))
  BY NoTokenAssumption DEF Serves, Refuses
<1> QED BY <1>1, <1>2, <1>3

\* A logout ends the session; the cookie stays or goes.
LEMMA ClearKeeps ==
  ASSUME SessionsOK, NEW token \in Tokens, Clear(token),
         UNCHANGED <<cookie, cookieLeft>> \/ SetCookie(NoToken)
  PROVE  SessionsOK'
<1>1. SessionsTypeOK'
  BY LifetimeAssumption DEF SessionsOK, SessionsTypeOK, Clear, Absent, SetCookie
<1>2. EndedSessionsStayEnded'
  BY LifetimeAssumption
     DEF SessionsOK, SessionsTypeOK, EndedSessionsStayEnded, Clear, Absent, Alive
<1> QED BY <1>1, <1>2 DEF SessionsOK

\* The browser takes or drops a cookie.
LEMMA CookieKeeps ==
  ASSUME SessionsOK, NEW token \in Tokens \cup {NoToken}, SetCookie(token),
         UNCHANGED <<items, ended>>
  PROVE  SessionsOK'
BY LifetimeAssumption, NoTokenAssumption
   DEF SessionsOK, SessionsTypeOK, EndedSessionsStayEnded, Alive, SetCookie

\* The clock ends sessions and cookies.
LEMMA TickKeeps ==
  ASSUME SessionsOK, Tick
  PROVE  SessionsOK'
<1>1. items' \in [Tokens -> {Absent} \cup 0..Lifetime] /\ ended' \subseteq Tokens
  BY LifetimeAssumption DEF SessionsOK, SessionsTypeOK, Tick, Absent
<1>2. /\ cookie' \in Tokens \cup {NoToken} /\ cookieLeft' \in 0..Lifetime
      /\ cookie' = NoToken <=> cookieLeft' = 0
  BY LifetimeAssumption DEF SessionsOK, SessionsTypeOK, Tick, SetCookie
<1>3. EndedSessionsStayEnded'
  BY LifetimeAssumption
     DEF SessionsOK, SessionsTypeOK, EndedSessionsStayEnded, Tick, Absent, Alive
<1> QED BY <1>1, <1>2, <1>3 DEF SessionsOK, SessionsTypeOK

-----------------------------------------------------------------------------
Event == [id : Instances, runtime : 0..MaxChanges]

\* The last event of an instance in a queue is the status st of it.
Current(events, st) ==
  \A n \in 1..Len(events) :
    (\A k \in (n + 1)..Len(events) : events[k].id # events[n].id)
      => events[n].runtime = st[events[n].id]

\* The statuses and the queues.
EventsOK ==
  /\ changes \in 0..MaxChanges /\ stored \subseteq Instances
  /\ status \in [Instances -> 0..MaxChanges]
  /\ subscribers \subseteq Streams
  /\ queue \in [Streams -> Seq(Event)]
  /\ \A s \in Streams : Len(queue[s]) <= Capacity
  /\ \A s \in Streams \ subscribers : queue[s] = << >>
  /\ \A s \in Streams : Current(queue[s], status)

\* A queue that is current stays so without its oldest event.
LEMMA TailCurrent ==
  ASSUME NEW q \in Seq(Event), q # << >>, NEW st, Current(q, st)
  PROVE  /\ Tail(q) \in Seq(Event) /\ Len(Tail(q)) = Len(q) - 1
         /\ Current(Tail(q), st)
<1>1. /\ Tail(q) \in Seq(Event) /\ Len(Tail(q)) = Len(q) - 1
      /\ Len(q) \in Nat \ {0} /\ \A n \in 1..Len(Tail(q)) : Tail(q)[n] = q[n + 1]
  OBVIOUS
<1>2. ASSUME NEW n \in 1..Len(Tail(q)),
             \A k \in (n + 1)..Len(Tail(q)) : Tail(q)[k].id # Tail(q)[n].id
      PROVE  Tail(q)[n].runtime = st[Tail(q)[n].id]
  <2>1. n + 1 \in 1..Len(q) /\ Tail(q)[n] = q[n + 1]
    BY <1>1
  <2>2. ASSUME NEW k \in (n + 2)..Len(q) PROVE q[k].id # q[n + 1].id
    <3>1. k - 1 \in (n + 1)..Len(Tail(q)) /\ Tail(q)[k - 1] = q[k]
      BY <1>1
    <3> QED BY <1>2, <2>1, <3>1
  <2>3. (n + 1) + 1 = n + 2
    OBVIOUS
  <2> QED BY <2>1, <2>2, <2>3 DEF Current
<1> QED BY <1>1, <1>2 DEF Current

\* An event for i put at the end makes the queue current for the new status.
LEMMA AppendCurrent ==
  ASSUME NEW q \in Seq(Event), NEW st \in [Instances -> 0..MaxChanges],
         Current(q, st), NEW i \in Instances, NEW n \in 0..MaxChanges
  PROVE  /\ Append(q, [id |-> i, runtime |-> n]) \in Seq(Event)
         /\ Len(Append(q, [id |-> i, runtime |-> n])) = Len(q) + 1
         /\ Current(Append(q, [id |-> i, runtime |-> n]), [st EXCEPT ![i] = n])
<1> DEFINE e == [id |-> i, runtime |-> n]
           r == Append(q, e)
           new == [st EXCEPT ![i] = n]
<1>1. e \in Event /\ e.id = i /\ e.runtime = n
  BY DEF Event
<1>2. /\ r \in Seq(Event) /\ Len(r) = Len(q) + 1 /\ Len(q) \in Nat
      /\ r[Len(q) + 1] = e /\ \A m \in 1..Len(q) : r[m] = q[m] /\ q[m] \in Event
  BY <1>1
<1> HIDE DEF e, r
<1>3. ASSUME NEW m \in 1..Len(r), \A k \in (m + 1)..Len(r) : r[k].id # r[m].id
      PROVE  r[m].runtime = new[r[m].id]
  <2>1. CASE m = Len(q) + 1
    BY <1>1, <1>2, <2>1
  <2>2. CASE m # Len(q) + 1
    <3>0. m \in 1..Len(q)
      <4>1. Len(q) \in Nat /\ Len(r) = Len(q) + 1 /\ m \in 1..Len(r)
        BY <1>2, <1>3
      <4> QED BY <2>2, <4>1
    <3>1. m \in 1..Len(q) /\ r[m] = q[m] /\ q[m].id \in Instances
      BY <1>2, <3>0 DEF Event
    <3>2. q[m].id # i
      <4>1. Len(q) + 1 \in (m + 1)..Len(r)
        BY <1>2, <3>1
      <4> QED BY <1>1, <1>2, <1>3, <3>1, <4>1
    <3>3. \A k \in (m + 1)..Len(q) : q[k].id # q[m].id
      BY <1>2, <1>3, <3>1
    <3>4. q[m].runtime = st[q[m].id]
      BY <3>1, <3>3 DEF Current
    <3> QED BY <3>1, <3>2, <3>4
  <2> QED BY <2>1, <2>2
<1>4. Current(r, new)
  BY <1>3 DEF Current
<1> QED BY <1>2, <1>4 DEF r, e

\* notifyStatusLocked keeps each queue short and current.
LEMMA OfferCurrent ==
  ASSUME NEW q \in Seq(Event), Len(q) <= Capacity,
         NEW st \in [Instances -> 0..MaxChanges], NEW overtaken \in BOOLEAN,
         Current(q, st), NEW i \in Instances, NEW n \in 0..MaxChanges
  PROVE  LET r == Offer(q, [id |-> i, runtime |-> n], overtaken)
         IN  /\ r \in Seq(Event) /\ Len(r) <= Capacity
             /\ Current(r, [st EXCEPT ![i] = n])
<1> DEFINE e == [id |-> i, runtime |-> n]
<1>1. CASE Len(q) # Capacity /\ Offer(q, e, overtaken) = Append(q, e)
  <2>1. Len(q) + 1 <= Capacity
    BY <1>1, CapacityAssumption
  <2> QED BY <1>1, <2>1, AppendCurrent
<1>2. CASE q # << >> /\ Offer(q, e, overtaken) = Append(Tail(q), e)
  <2>1. /\ Tail(q) \in Seq(Event) /\ Len(Tail(q)) = Len(q) - 1
        /\ Current(Tail(q), st)
    BY <1>2, TailCurrent
  <2>2. Len(Tail(q)) + 1 <= Capacity
    BY <2>1, CapacityAssumption
  <2> QED BY <1>2, <2>1, <2>2, AppendCurrent
<1>3. \/ Len(q) # Capacity /\ Offer(q, e, overtaken) = Append(q, e)
      \/ q # << >> /\ Offer(q, e, overtaken) = Append(Tail(q), e)
  BY CapacityAssumption DEF Offer
<1> QED BY <1>1, <1>2, <1>3

\* A status changes: every queue hears of it.
LEMMA StatusChangesKeeps ==
  ASSUME EventsOK, NEW i \in Instances, StatusChanges(i)
  PROVE  EventsOK'
<1>1. /\ changes' \in 0..MaxChanges /\ stored' = stored /\ subscribers' = subscribers
      /\ status' = [status EXCEPT ![i] = changes']
  BY MaxChangesAssumption DEF StatusChanges, Count, EventsOK
<1>q. PICK overtaken \in SUBSET subscribers :
        queue' = [s \in Streams |->
                    IF s \in subscribers
                    THEN Offer(queue[s], [id |-> i, runtime |-> changes'],
                               s \in overtaken)
                    ELSE queue[s]]
  BY DEF StatusChanges, NotifyStatus
<1>2. status' \in [Instances -> 0..MaxChanges]
  BY <1>1 DEF EventsOK
<1>3. ASSUME NEW s \in Streams
      PROVE  /\ queue'[s] \in Seq(Event) /\ Len(queue'[s]) <= Capacity
             /\ s \notin subscribers' => queue'[s] = << >>
             /\ Current(queue'[s], status')
  <2>1. CASE s \in subscribers
    <3>1. /\ queue[s] \in Seq(Event) /\ Len(queue[s]) <= Capacity
          /\ Current(queue[s], status) /\ status \in [Instances -> 0..MaxChanges]
      BY DEF EventsOK
    <3>2. \E late \in BOOLEAN :
            queue'[s] = Offer(queue[s], [id |-> i, runtime |-> changes'], late)
      <4>1. CASE s \in overtaken
        BY <1>q, <2>1, <4>1 DEF Offer
      <4>2. CASE s \notin overtaken
        BY <1>q, <2>1, <4>2 DEF Offer
      <4> QED BY <4>1, <4>2
    <3>3. changes' \in 0..MaxChanges
      BY <1>1
    <3>4. ASSUME NEW late \in BOOLEAN
          PROVE  LET r == Offer(queue[s], [id |-> i, runtime |-> changes'], late)
                 IN  /\ r \in Seq(Event) /\ Len(r) <= Capacity
                     /\ Current(r, [status EXCEPT ![i] = changes'])
      BY <3>1, <3>3, OfferCurrent
    <3>5. /\ queue'[s] \in Seq(Event) /\ Len(queue'[s]) <= Capacity
          /\ Current(queue'[s], [status EXCEPT ![i] = changes'])
      BY <3>2, <3>4
    <3> QED BY <1>1, <2>1, <3>5
  <2>2. CASE s \notin subscribers
    <3>1. queue'[s] = << >>
      BY <1>q, <2>2 DEF EventsOK
    <3>2. Len(<< >>) = 0 /\ << >> \in Seq(Event)
      OBVIOUS
    <3> QED BY <3>1, <3>2, CapacityAssumption DEF Current
  <2> QED BY <2>1, <2>2
<1>4. queue' \in [Streams -> Seq(Event)]
  BY <1>q, <1>3
<1> QED BY <1>1, <1>2, <1>3, <1>4 DEF EventsOK

\* A queue is emptied, or comes into being empty.
LEMMA EmptyKeeps ==
  ASSUME EventsOK, NEW st \in [Instances -> 0..MaxChanges]
  PROVE  << >> \in Seq(Event) /\ Len(<< >>) <= Capacity /\ Current(<< >>, st)
<1>1. << >> \in Seq(Event) /\ Len(<< >>) = 0
  OBVIOUS
<1> QED BY <1>1, CapacityAssumption DEF Current

-----------------------------------------------------------------------------
\* The event stream of the page and the handlers behind it.
StreamsOK ==
  /\ source \in {"none", "connecting", "open", "failed"}
  /\ stream \in [Streams -> {"free", "live", "orphan"}]
  /\ subscribers = {s \in Streams : stream[s] # "free"}
  /\ source = "open" <=> \E s \in Streams : stream[s] = "live"
  /\ \A s, u \in Streams : stream[s] = "live" /\ stream[u] = "live" => s = u

\* The requests; whoever is served has a token.
Requests ==
  [kind : {"none", "list", "login", "logout"}, at : CallStates,
   token : Tokens \cup {NoToken}, ids : SUBSET Instances, reply : Lists]

CallsOK ==
  /\ mode \in {"login", "app"} /\ shown \in Lists
  /\ call \in [Calls -> Requests]
  /\ \A c \in Calls : call[c].at = "served" => call[c].token \in Tokens

\* The inductive invariant.
IInv == SessionsOK /\ EventsOK /\ StreamsOK /\ CallsOK

\* The login form closes the stream.
LEMMA ShowLoginKeeps ==
  ASSUME StreamsOK, ShowLogin, subscribers' = subscribers
  PROVE  StreamsOK' /\ mode' \in {"login", "app"}
BY DEF StreamsOK, ShowLogin

\* The page opens a stream unless it has one.
LEMMA ShowAppKeeps ==
  ASSUME StreamsOK, ShowApp, subscribers' = subscribers
  PROVE  StreamsOK' /\ mode' \in {"login", "app"}
BY DEF StreamsOK, ShowApp

\* Parts of the state that a step leaves alone.
LEMMA Untouched ==
  ASSUME IInv
  PROVE  /\ UNCHANGED sessionVars => SessionsOK'
         /\ UNCHANGED eventVars => EventsOK'
         /\ UNCHANGED <<source, stream, subscribers>> => StreamsOK'
         /\ UNCHANGED <<mode, shown, call>> => CallsOK'
<1>1. UNCHANGED sessionVars => SessionsOK'
  BY DEF IInv, sessionVars, SessionsOK, SessionsTypeOK, EndedSessionsStayEnded, Alive
<1>2. UNCHANGED eventVars => EventsOK'
  BY DEF IInv, eventVars, EventsOK, Current
<1>3. UNCHANGED <<source, stream, subscribers>> => StreamsOK'
  BY DEF IInv, StreamsOK
<1>4. UNCHANGED <<mode, shown, call>> => CallsOK'
  BY DEF IInv, CallsOK
<1> QED BY <1>1, <1>2, <1>3, <1>4

\* A request moves on or ends; what it was for does not change.
LEMMA RequestMoves ==
  ASSUME CallsOK, NEW c \in Calls, mode' \in {"login", "app"}, shown' \in Lists,
         \/ \E from, to \in CallStates :
              MovesTo(c, from, to) /\ (to = "served" => call[c].token \in Tokens)
         \/ Ends(c)
  PROVE  CallsOK'
<1>1. NoCall \in Requests /\ NoCall.at = "idle"
  BY NoTokenAssumption DEF NoCall, Requests, CallStates, NoInstances, NotShown, Lists
<1>2. CASE Ends(c)
  BY <1>1, <1>2 DEF CallsOK, Ends
<1>3. ASSUME NEW from \in CallStates, NEW to \in CallStates, MovesTo(c, from, to),
             to = "served" => call[c].token \in Tokens
      PROVE  CallsOK'
  <2>1. call' = [call EXCEPT ![c] = [call[c] EXCEPT !.at = to]]
    BY <1>3 DEF MovesTo
  <2>2. /\ [call[c] EXCEPT !.at = to] \in Requests
        /\ [call[c] EXCEPT !.at = to].at = to
        /\ [call[c] EXCEPT !.at = to].token = call[c].token
    BY DEF CallsOK, Requests
  <2> QED BY <1>3, <2>1, <2>2 DEF CallsOK
<1> QED BY <1>2, <1>3

\* A request gets its cookie, the new token or a part of its reply.
LEMMA RequestChanges ==
  ASSUME CallsOK, NEW c \in Calls, NEW r \in Requests,
         call' = [call EXCEPT ![c] = r], r.at # "served",
         UNCHANGED <<mode, shown>>
  PROVE  CallsOK'
BY DEF CallsOK

\* A request sent with the cookie it finds.
LEMMA SentIsRequest ==
  ASSUME NEW r \in Requests, NEW at \in CallStates,
         NEW token \in Tokens \cup {NoToken},
         NEW kind \in {"none", "list", "login", "logout"}
  PROVE  /\ [r EXCEPT !.kind = kind, !.at = at, !.token = token] \in Requests
         /\ [r EXCEPT !.kind = kind, !.at = at, !.token = token].at = at
BY DEF Requests

\* A request that gets the new token.
LEMMA TokenIsRequest ==
  ASSUME NEW r \in Requests, NEW at \in CallStates,
         NEW token \in Tokens \cup {NoToken}
  PROVE  /\ [r EXCEPT !.at = at, !.token = token] \in Requests
         /\ [r EXCEPT !.at = at, !.token = token].at = at
BY DEF Requests

\* A request that gets the list.
LEMMA IdsIsRequest ==
  ASSUME NEW r \in Requests, NEW at \in CallStates,
         NEW ids \in SUBSET Instances
  PROVE  /\ [r EXCEPT !.at = at, !.ids = ids] \in Requests
         /\ [r EXCEPT !.at = at, !.ids = ids].at = at
BY DEF Requests

\* A request that gets the statuses.
LEMMA ReplyIsRequest ==
  ASSUME NEW r \in Requests, NEW at \in CallStates,
         NEW ids \in SUBSET Instances, NEW reply \in Lists
  PROVE  /\ [r EXCEPT !.at = at, !.ids = ids, !.reply = reply] \in Requests
         /\ [r EXCEPT !.at = at, !.ids = ids, !.reply = reply].at = at
BY DEF Requests

-----------------------------------------------------------------------------
\* The steps of requests.
LEMMA CallStep ==
  ASSUME IInv, NEW c \in Calls,
         \/ Load(c) \/ SubmitLogin(c) \/ ClickLogout(c)
         \/ ServerStep(c) \/ Arrives(c) \/ Lost(c)
  PROVE  IInv'
<1>t. /\ SessionsOK /\ EventsOK /\ StreamsOK /\ CallsOK
      /\ call[c] \in Requests /\ call[c].token \in Tokens \cup {NoToken}
      /\ cookie \in Tokens \cup {NoToken} /\ shown \in Lists
      /\ mode \in {"login", "app"} /\ call[c].reply \in Lists
  BY DEF IInv, CallsOK, Requests, SessionsOK, SessionsTypeOK
<1>r. /\ NoCall \in Requests /\ {} \in SUBSET Instances
      /\ {"sent", "listed", "answered"} \subseteq CallStates
  BY NoTokenAssumption DEF NoCall, Requests, CallStates, NoInstances, NotShown, Lists
<1>s. UNCHANGED eventVars => EventsOK' /\ subscribers' = subscribers
  BY Untouched DEF eventVars
<1>1. ASSUME NEW kind \in {"list", "login", "logout"}, Begin(c, kind) PROVE IInv'
  <2> DEFINE r == [NoCall EXCEPT !.kind = kind, !.at = "sent", !.token = cookie]
  <2>1. r \in Requests /\ r.at = "sent"
    <3>1. kind \in {"none", "list", "login", "logout"} /\ "sent" \in CallStates
      BY <1>r
    <3>2. [NoCall EXCEPT !.kind = kind, !.at = "sent", !.token = cookie] \in Requests
      BY <1>t, <1>r, <3>1, SentIsRequest
    <3>3. [NoCall EXCEPT !.kind = kind, !.at = "sent", !.token = cookie].at = "sent"
      BY DEF NoCall
    <3> QED BY <3>2, <3>3
  <2>2. call' = [call EXCEPT ![c] = r] /\ UNCHANGED <<mode, shown>>
    BY <1>1 DEF Begin
  <2> HIDE DEF r
  <2>3. CallsOK'
    BY <1>t, <2>1, <2>2, RequestChanges
  <2>4. /\ UNCHANGED sessionVars /\ UNCHANGED eventVars
        /\ UNCHANGED <<source, stream, subscribers>>
    BY <1>1 DEF Begin, eventVars
  <2> QED BY <2>3, <2>4, Untouched DEF IInv
<1>2. CASE Load(c) \/ SubmitLogin(c) \/ ClickLogout(c)
  BY <1>1, <1>2 DEF Load, SubmitLogin, ClickLogout
<1>3. CASE LogsIn(c)
  <2>1. PICK token \in Tokens :
          /\ Create(token)
          /\ call' = [call EXCEPT ![c] =
                        [call[c] EXCEPT !.at = "answered", !.token = token]]
    BY <1>3 DEF LogsIn
  <2>2. "answered" \in CallStates /\ token \in Tokens \cup {NoToken}
    BY <1>r
  <2>3. /\ [call[c] EXCEPT !.at = "answered", !.token = token] \in Requests
        /\ [call[c] EXCEPT !.at = "answered", !.token = token].at = "answered"
    BY <1>t, <1>r, <2>2, TokenIsRequest
  <2>4. CallsOK'
    BY <1>3, <1>t, <2>1, <2>3, RequestChanges DEF LogsIn, ServerOnly
  <2> QED BY <1>3, <1>t, <2>1, <2>4, CreateKeeps, Untouched
          DEF IInv, LogsIn, ServerOnly, eventVars
<1>4. CASE Authorized(c)
  <2>1. /\ Serves(call[c].token) \/ Refuses(call[c].token)
        /\ UNCHANGED <<cookie, cookieLeft, ended>>
        /\ UNCHANGED eventVars /\ UNCHANGED <<mode, shown, source, stream>>
    BY <1>4 DEF Authorized, ServerOnly
  <2>2. SessionsOK' /\ (Serves(call[c].token) => call[c].token \in Tokens)
    BY <1>t, <2>1, AuthKeeps
  <2>3. CallsOK'
    <3>1. CASE Serves(call[c].token) /\ MovesTo(c, "sent", "served")
      BY <1>t, <2>1, <2>2, <3>1, RequestMoves DEF CallStates
    <3>2. CASE MovesTo(c, "sent", "refused")
      BY <1>t, <2>1, <3>2, RequestMoves DEF CallStates
    <3> QED BY <1>4, <3>1, <3>2 DEF Authorized
  <2> QED BY <2>1, <2>2, <2>3, Untouched DEF IInv, eventVars
<1>5. CASE LogsOut(c)
  <2>1. call[c].token \in Tokens /\ MovesTo(c, "served", "answered")
    BY <1>5, <1>t DEF LogsOut, MovesTo, CallsOK
  <2>2. SessionsOK'
    BY <1>5, <1>t, <2>1, ClearKeeps DEF LogsOut
  <2>3. CallsOK'
    BY <1>5, <1>t, <2>1, RequestMoves DEF LogsOut, ServerOnly, CallStates
  <2> QED BY <1>5, <2>2, <2>3, Untouched DEF IInv, LogsOut, ServerOnly, eventVars
<1>6. CASE ListItems(c)
  <2> DEFINE r == [call[c] EXCEPT !.at = "listed", !.ids = stored]
  <2>1. "listed" \in CallStates /\ stored \in SUBSET Instances
    BY <1>t, <1>r DEF EventsOK
  <2>2. r \in Requests /\ r.at = "listed"
    BY <1>t, <1>r, <2>1, IdsIsRequest
  <2>3. call' = [call EXCEPT ![c] = r] /\ UNCHANGED <<mode, shown>>
    BY <1>6 DEF ListItems, ServerOnly
  <2> HIDE DEF r
  <2>4. CallsOK'
    BY <1>t, <2>2, <2>3, RequestChanges
  <2> QED BY <1>6, <2>4, Untouched DEF IInv, ListItems, ServerOnly, eventVars
<1>7. CASE ListStatuses(c)
  <2> DEFINE reply == [i \in Instances |->
                         IF i \in call[c].ids THEN status[i] ELSE NotShown]
             r == [call[c] EXCEPT !.at = "answered", !.ids = {}, !.reply = reply]
  <2>1. reply \in Lists
    BY <1>t DEF Lists, EventsOK, NotShown
  <2>2. call' = [call EXCEPT ![c] = r]
    BY <1>7 DEF ListStatuses
  <2> HIDE DEF reply
  <2>3. "answered" \in CallStates
    BY <1>r
  <2>4. r \in Requests /\ r.at = "answered"
    BY <1>t, <1>r, <2>1, <2>3, ReplyIsRequest
  <2> HIDE DEF r
  <2>5. CallsOK'
    BY <1>7, <1>t, <2>2, <2>4, RequestChanges DEF ListStatuses, ServerOnly
  <2> QED BY <1>7, <2>5, Untouched DEF IInv, ListStatuses, ServerOnly, eventVars
<1>8. CASE ListArrives(c)
  <2>1. CallsOK'
    BY <1>8, <1>t, RequestMoves DEF ListArrives
  <2> QED BY <1>8, <2>1, Untouched DEF IInv, ListArrives, eventVars
<1>9. CASE LoginArrives(c)
  <2>1. SessionsOK'
    BY <1>9, <1>t, CookieKeeps DEF LoginArrives
  <2>2. StreamsOK' /\ mode' \in {"login", "app"}
    BY <1>9, <1>t, <1>s, ShowAppKeeps DEF LoginArrives
  <2>3. CallsOK'
    BY <1>9, <1>t, <2>2, RequestMoves DEF LoginArrives
  <2> QED BY <1>9, <1>s, <2>1, <2>2, <2>3 DEF IInv, LoginArrives
<1>10. CASE LogoutArrives(c)
  <2>1. SessionsOK'
    BY <1>10, <1>t, CookieKeeps DEF LogoutArrives
  <2>2. StreamsOK' /\ mode' \in {"login", "app"}
    BY <1>10, <1>t, <1>s, ShowLoginKeeps DEF LogoutArrives
  <2>3. CallsOK'
    BY <1>10, <1>t, <2>2, RequestMoves DEF LogoutArrives
  <2> QED BY <1>10, <1>s, <2>1, <2>2, <2>3 DEF IInv, LogoutArrives
<1>11. CASE RefusalArrives(c)
  <2>1. StreamsOK' /\ mode' \in {"login", "app"}
    BY <1>11, <1>t, <1>s, ShowLoginKeeps DEF RefusalArrives
  <2>2. CallsOK'
    BY <1>11, <1>t, <2>1, RequestMoves DEF RefusalArrives
  <2> QED BY <1>11, <1>s, <2>1, <2>2, Untouched DEF IInv, RefusalArrives
<1>12. CASE Lost(c)
  <2>1. StreamsOK' /\ mode' \in {"login", "app"}
    <3>1. CASE ShowLogin
      BY <1>12, <1>t, <1>s, <3>1, ShowLoginKeeps DEF Lost
    <3>2. CASE UNCHANGED <<mode, source, stream>>
      BY <1>12, <1>t, <1>s, <3>2, Untouched DEF Lost
    <3> QED BY <1>12, <3>1, <3>2 DEF Lost
  <2>2. CallsOK'
    BY <1>12, <1>t, <2>1, RequestMoves DEF Lost
  <2> QED BY <1>12, <1>s, <2>1, <2>2, Untouched DEF IInv, Lost
<1> QED
  BY <1>2, <1>3, <1>4, <1>5, <1>6, <1>7, <1>8, <1>9, <1>10, <1>11, <1>12
     DEF ServerStep, Arrives

-----------------------------------------------------------------------------
\* The steps of event streams.
LEMMA StreamStep ==
  ASSUME IInv, NEW s \in Streams,
         Connects(s) \/ Breaks(s) \/ HandlerEnds(s) \/ Delivers(s)
  PROVE  IInv'
<1>t. /\ SessionsOK /\ EventsOK /\ StreamsOK /\ CallsOK
      /\ cookie \in Tokens \cup {NoToken}
      /\ queue \in [Streams -> Seq(Event)]
      /\ queue[s] \in Seq(Event) /\ Len(queue[s]) <= Capacity
      /\ Len(queue[s]) \in Nat
      /\ Current(queue[s], status) /\ status \in [Instances -> 0..MaxChanges]
  BY DEF IInv, SessionsOK, SessionsTypeOK, EventsOK
<1>1. CASE Connects(s)
  <2>1. SessionsOK'
    BY <1>1, <1>t, AuthKeeps DEF Connects
  <2>2. CASE /\ SubscribeRuntime(s)
             /\ source' = "open" /\ stream' = [stream EXCEPT ![s] = "live"]
    <3>1. EventsOK'
      BY <1>1, <1>t, <2>2 DEF Connects, SubscribeRuntime, EventsOK, Current
    <3>2. StreamsOK'
      BY <1>1, <1>t, <2>2 DEF Connects, SubscribeRuntime, StreamsOK
    <3> QED BY <1>1, <2>1, <3>1, <3>2, Untouched DEF IInv, Connects
  <2>3. CASE source' = "failed" /\ UNCHANGED <<subscribers, queue, stream>>
    <3>1. StreamsOK'
      BY <1>1, <1>t, <2>3 DEF Connects, StreamsOK
    <3> QED BY <1>1, <2>1, <2>3, <3>1, Untouched DEF IInv, Connects, eventVars
  <2> QED BY <1>1, <2>2, <2>3 DEF Connects
<1>2. CASE Breaks(s)
  <2>1. StreamsOK'
    BY <1>2, <1>t DEF Breaks, StreamsOK, eventVars
  <2> QED BY <1>2, <2>1, Untouched DEF IInv, Breaks
<1>3. CASE HandlerEnds(s)
  <2>1. /\ subscribers' = subscribers \ {s}
        /\ queue' = [queue EXCEPT ![s] = << >>]
        /\ changes' = changes /\ stored' = stored /\ status' = status
    BY <1>3 DEF HandlerEnds, Unsubscribe
  <2>2. << >> \in Seq(Event) /\ Len(<< >>) <= Capacity /\ Current(<< >>, status)
    BY <1>t, EmptyKeeps
  <2>3. EventsOK'
    BY <1>t, <2>1, <2>2 DEF EventsOK
  <2>4. StreamsOK'
    BY <1>3, <1>t, <2>1 DEF HandlerEnds, StreamsOK
  <2> QED BY <1>3, <2>3, <2>4, Untouched DEF IInv, HandlerEnds
<1>4. CASE Delivers(s)
  <2>1. /\ queue[s] # << >> /\ queue' = [queue EXCEPT ![s] = Tail(queue[s])]
        /\ changes' = changes /\ stored' = stored /\ status' = status
        /\ subscribers' = subscribers /\ UNCHANGED sessionVars
        /\ source' = source /\ stream' = stream /\ mode' = mode /\ call' = call
    BY <1>4 DEF Delivers
  <2>2. /\ Tail(queue[s]) \in Seq(Event) /\ Len(Tail(queue[s])) = Len(queue[s]) - 1
        /\ Current(Tail(queue[s]), status)
    BY <1>t, <2>1, TailCurrent
  <2>3. s \in subscribers
    BY <1>t, <2>1 DEF EventsOK
  <2>4. Len(Tail(queue[s])) <= Capacity
    BY <1>t, <2>2, CapacityAssumption
  <2>5. EventsOK'
    BY <1>t, <2>1, <2>2, <2>3, <2>4 DEF EventsOK
  <2>6. shown' \in Lists
    <3>1. Head(queue[s]) \in Event
      BY <1>t, <2>1
    <3>2. Head(queue[s]).id \in Instances /\ Head(queue[s]).runtime \in 0..MaxChanges
      BY <3>1 DEF Event
    <3>3. \/ shown' = shown
          \/ shown' = [shown EXCEPT ![Head(queue[s]).id] = Head(queue[s]).runtime]
      BY <1>4 DEF Delivers
    <3> QED BY <1>t, <3>2, <3>3 DEF Lists, CallsOK
  <2>7. CallsOK'
    BY <1>t, <2>1, <2>6 DEF CallsOK
  <2> QED BY <2>1, <2>5, <2>7, Untouched DEF IInv
<1> QED BY <1>1, <1>2, <1>3, <1>4

-----------------------------------------------------------------------------
\* The server dies: queues, sessions and streams go, and it is not a session
\* that comes back.
LEMMA RestartStep ==
  ASSUME IInv, Restart
  PROVE  IInv'
<1>t. SessionsOK /\ EventsOK /\ StreamsOK /\ CallsOK
  BY DEF IInv
<1>1. SessionsOK'
  <2>1. SessionsTypeOK'
    BY <1>t DEF Restart, SessionsOK, SessionsTypeOK
  <2>2. ended' \subseteq Tokens
    BY <1>t DEF Restart, SessionsOK, SessionsTypeOK
  <2>3. \A token \in Tokens : items'[token] = -1
    BY DEF Restart, Absent
  <2>4. EndedSessionsStayEnded'
    BY <2>2, <2>3 DEF EndedSessionsStayEnded, Alive
  <2> QED BY <2>1, <2>4 DEF SessionsOK
<1>2. EventsOK'
  <2>1. /\ changes' \in 0..MaxChanges /\ stored' = stored /\ subscribers' = {}
        /\ status' = [i \in Instances |-> changes']
        /\ queue' = [s \in Streams |-> << >>]
    <3>1. changes \in 0..MaxChanges /\ changes < MaxChanges
          /\ changes' = changes + 1
      BY <1>t DEF Restart, Count, EventsOK
    <3>2. changes' \in 0..MaxChanges
      BY <3>1, MaxChangesAssumption
    <3> QED BY <3>2 DEF Restart
  <2>2. status' \in [Instances -> 0..MaxChanges]
    BY <2>1
  <2>3. << >> \in Seq(Event) /\ Len(<< >>) <= Capacity /\ Current(<< >>, status')
    BY <1>t, <2>2, EmptyKeeps
  <2> QED BY <1>t, <2>1, <2>2, <2>3 DEF EventsOK
<1>3. StreamsOK'
  BY <1>t DEF Restart, StreamsOK
<1>4. CallsOK'
  <2>1. ASSUME NEW c \in Calls
        PROVE  /\ call'[c] \in Requests
               /\ call'[c].at = "served" => call'[c].token \in Tokens
    <3>1. CASE call[c].at \in {"sent", "served", "listed"}
      <4>1. call'[c] = [call[c] EXCEPT !.at = "broken", !.ids = {}]
        BY <3>1 DEF Restart
      <4>2. call[c] \in Requests /\ "broken" \in CallStates /\ {} \in SUBSET Instances
        BY <1>t DEF CallsOK, CallStates
      <4>3. /\ [call[c] EXCEPT !.at = "broken", !.ids = {}] \in Requests
            /\ [call[c] EXCEPT !.at = "broken", !.ids = {}].at = "broken"
        BY <4>2, IdsIsRequest
      <4> QED BY <4>1, <4>3
    <3>2. CASE ~(call[c].at \in {"sent", "served", "listed"})
      BY <1>t, <3>2 DEF Restart, CallsOK
    <3> QED BY <3>1, <3>2
  <2>2. call' \in [Calls -> Requests]
    BY <2>1 DEF Restart
  <2> QED BY <1>t, <2>1, <2>2 DEF Restart, CallsOK
<1> QED BY <1>1, <1>2, <1>3, <1>4 DEF IInv

\* It holds when the process has just been started.
LEMMA InitIInv == Init => IInv
<1> SUFFICES ASSUME Init PROVE IInv
  OBVIOUS
<1>1. SessionsOK
  BY LifetimeAssumption DEF Init, SessionsInit, SessionsOK, SessionsTypeOK,
     EndedSessionsStayEnded
<1>2. EventsOK
  <2>1. << >> \in Seq(Event) /\ Len(<< >>) = 0
    OBVIOUS
  <2>2. 0 \in 0..MaxChanges
    BY MaxChangesAssumption
  <2> QED BY <2>1, <2>2, CapacityAssumption DEF Init, EventsInit, EventsOK, Current
<1>3. StreamsOK
  BY DEF Init, EventsInit, StreamsOK
<1>4. CallsOK
  <2>1. NoCall \in Requests /\ NoCall.at = "idle" /\ NoInstances \in Lists
    BY NoTokenAssumption DEF NoCall, Requests, CallStates, NoInstances, NotShown, Lists
  <2> QED BY <2>1 DEF Init, CallsOK
<1> QED BY <1>1, <1>2, <1>3, <1>4 DEF IInv

\* Every step keeps the invariant.
LEMMA IInvStep == IInv /\ [Next]_vars => IInv'
<1> SUFFICES ASSUME IInv, [Next]_vars PROVE IInv'
  OBVIOUS
<1>1. ASSUME NEW c \in Calls,
             \/ Load(c) \/ SubmitLogin(c) \/ ClickLogout(c)
             \/ ServerStep(c) \/ Arrives(c) \/ Lost(c)
      PROVE  IInv'
  BY <1>1, CallStep
<1>2. ASSUME NEW s \in Streams,
             Connects(s) \/ Breaks(s) \/ HandlerEnds(s) \/ Delivers(s)
      PROVE  IInv'
  BY <1>2, StreamStep
<1>3. ASSUME NEW i \in Instances, StatusChanges(i) \/ StoreChanges(i),
             UNCHANGED <<sessionVars, pageVars>>
      PROVE  IInv'
  <2>1. EventsOK'
    <3>1. CASE StatusChanges(i)
      BY <3>1, StatusChangesKeeps DEF IInv
    <3>2. CASE StoreChanges(i)
      BY <3>2, MaxChangesAssumption DEF StoreChanges, Count, IInv, EventsOK, Current
    <3> QED BY <1>3, <3>1, <3>2
  <2>2. subscribers' = subscribers
    BY <1>3 DEF StatusChanges, StoreChanges
  <2> QED BY <1>3, <2>1, <2>2, Untouched DEF IInv, pageVars
<1>4. CASE OtherTabLogsOut
  <2>1. cookie \in Tokens
    BY <1>4 DEF OtherTabLogsOut, IInv, SessionsOK, SessionsTypeOK
  <2>2. SessionsOK'
    BY <1>4, <2>1, ClearKeeps DEF OtherTabLogsOut, IInv
  <2> QED BY <1>4, <2>2, Untouched DEF OtherTabLogsOut, IInv, eventVars, pageVars
<1>5. CASE ClockTicks
  <2>1. SessionsOK'
    BY <1>5, TickKeeps DEF ClockTicks, IInv
  <2> QED BY <1>5, <2>1, Untouched DEF ClockTicks, IInv, eventVars, pageVars
<1>6. CASE Restart
  BY <1>6, RestartStep
<1>7. CASE UNCHANGED vars
  BY <1>7, Untouched DEF vars, IInv, eventVars, pageVars
<1> QED BY <1>1, <1>2, <1>3, <1>4, <1>5, <1>6, <1>7 DEF Next

\* The invariant holds throughout.
LEMMA IInvHolds == Spec => []IInv
BY InitIInv, IInvStep, PTL DEF Spec

\* Every variable keeps to its type; a handler has a queue until it ends, and
\* the page never follows two streams.
THEOREM TypeCorrect == Spec => []TypeOK
<1>1. IInv => TypeOK
  BY DEF IInv, SessionsOK, EventsOK, StreamsOK, CallsOK, Requests, TypeOK,
         EventsTypeOK
<1> QED BY <1>1, IInvHolds, PTL

\* No request, cookie or other tab brings a session back that has ended
\* (sessions.go valid, clear, cleanupLocked).
THEOREM EndedHolds == Spec => []EndedSessionsStayEnded
<1>1. IInv => EndedSessionsStayEnded BY DEF IInv, SessionsOK
<1> QED BY <1>1, IInvHolds, PTL

\* For queues of any length, what a full queue loses is never the last news of
\* an instance that stays in it (manager.go notifyStatusLocked).
THEOREM QueueHolds == Spec => []QueueIsCurrent
<1>1. IInv => QueueIsCurrent
  <2> SUFFICES ASSUME IInv, NEW s \in subscribers, NEW n \in DOMAIN queue[s],
                      \A k \in (n + 1)..Len(queue[s]) :
                        queue[s][k].id # queue[s][n].id
               PROVE  queue[s][n].runtime = status[queue[s][n].id]
    BY DEF QueueIsCurrent
  <2>1. s \in Streams /\ queue[s] \in Seq(Event) /\ Current(queue[s], status)
    BY DEF IInv, EventsOK
  <2>2. n \in 1..Len(queue[s])
    BY <2>1
  <2> QED BY <2>1, <2>2 DEF Current
<1> QED BY <1>1, IInvHolds, PTL
=============================================================================
