--------------------------- MODULE RotationProofs ---------------------------
(***************************************************************************)
(* Theorems about the servers of Attempts, for lists of any length, batches *)
(* of any size and any number of probe goroutines.                         *)
(***************************************************************************)
EXTENDS Attempts, ServerListsProofs

-----------------------------------------------------------------------------
\* Positions on a circle of L.
LEMMA Around ==
  ASSUME NEW L \in Nat \ {0}, NEW x \in Nat
  PROVE  /\ x % L \in 0..(L - 1)
         /\ x < L => x % L = x
         /\ L <= x /\ x < 2 * L => x % L = x - L
OBVIOUS

\* From the place after i it takes L - 1 steps to come to i, not fewer.
LEMMA AroundAfter ==
  ASSUME NEW L, L \in Nat \ {0}, NEW i, i \in 0..(L - 1), NEW start,
         start = (i + 1) % L
  PROVE  /\ start \in 0..(L - 1)
         /\ L > 2 => (start + 1) % L # i
         /\ \A n \in 1..L : /\ (start + n - 1) % L \in 0..(L - 1)
                            /\ (start + n - 1) % L = i <=> n = L
<1>1. start = IF i + 1 < L THEN i + 1 ELSE 0
  <2>1. i + 1 \in Nat
    OBVIOUS
  <2>2. CASE i + 1 < L
    BY <2>1, <2>2
  <2>3. CASE ~(i + 1 < L)
    <3>1. L <= i + 1 /\ i + 1 < 2 * L /\ i + 1 - L = 0
      BY <2>3
    <3>2. (i + 1) % L = i + 1 - L
      BY <2>1, <3>1
    <3> QED BY <2>3, <3>1, <3>2
  <2> QED BY <2>2, <2>3
<1>2. start \in 0..(L - 1)
  BY <1>1
<1>3. ASSUME L > 2 PROVE (start + 1) % L # i
  <2>1. start + 1 \in Nat /\ start + 1 < 2 * L
    BY <1>2
  <2>2. (start + 1) % L = IF start + 1 < L THEN start + 1 ELSE start + 1 - L
    BY <2>1
  <2> QED BY <1>1, <1>3, <2>2
<1>4. ASSUME NEW n \in 1..L
      PROVE  /\ (start + n - 1) % L \in 0..(L - 1)
             /\ (start + n - 1) % L = i <=> n = L
  <2>1. start + n - 1 \in Nat /\ start + n - 1 < 2 * L
    BY <1>2
  <2>2. (start + n - 1) % L =
          IF start + n - 1 < L THEN start + n - 1 ELSE start + n - 1 - L
    BY <2>1
  <2> QED BY <1>1, <2>1, <2>2
<1> QED BY <1>2, <1>3, <1>4

LEMMA ListedFacts ==
  ASSUME NEW s, Listed(s)
  PROVE  /\ Len(s) \in Nat \ {0} /\ DOMAIN s = 1..Len(s)
         /\ \A n \in 1..Len(s) : s[n] \in Range(s)
BY DEF Listed, Range

\* Rotating a list keeps its servers and puts the one at `start' first.
LEMMA RotateShows ==
  ASSUME NEW s, Listed(s), NEW start \in Nat
  PROVE  /\ RotateServerEndpoints(s, start) \in Seq(Range(s))
         /\ Len(RotateServerEndpoints(s, start)) = Len(s)
         /\ \A n \in 1..Len(s) : RotateServerEndpoints(s, start)[n] =
              s[((start + n - 1) % Len(s)) + 1]
<1>1. Len(s) \in Nat \ {0} /\ DOMAIN s = 1..Len(s)
  BY ListedFacts
<1>2. \A n \in 1..Len(s) : s[((start + n - 1) % Len(s)) + 1] \in Range(s)
  <2> TAKE n \in 1..Len(s)
  <2>1. start + n - 1 \in Nat
    BY <1>1
  <2>2. (start + n - 1) % Len(s) \in 0..(Len(s) - 1)
    BY <1>1, <2>1, Around
  <2>3. ((start + n - 1) % Len(s)) + 1 \in 1..Len(s)
    BY <1>1, <2>2
  <2> QED BY <2>3, ListedFacts
<1>3. RotateServerEndpoints(s, start) =
        [n \in 1..Len(s) |-> s[((start + n - 1) % Len(s)) + 1]]
  BY <1>1 DEF RotateServerEndpoints
<1> QED BY <1>1, <1>2, <1>3

\* The index of a server in a list without repetitions.
LEMMA IndexFinds ==
  ASSUME NEW s, Listed(s), Distinct(s), NEW target \in Range(s)
  PROVE  /\ IndexOfServerEndpoint(s, target) \in 0..(Len(s) - 1)
         /\ s[IndexOfServerEndpoint(s, target) + 1] = target
         /\ \A n \in 1..Len(s) : SameServer(s[n], target)
              => n = IndexOfServerEndpoint(s, target) + 1
<1>1. Len(s) \in Nat \ {0} /\ DOMAIN s = 1..Len(s)
  BY ListedFacts
<1>2. PICK k \in 1..Len(s) : s[k] = target
  BY <1>1 DEF Range
<1>3. \A n \in 1..Len(s) : SameServer(s[n], target) <=> n = k
  BY <1>1, <1>2 DEF Distinct, SameServer
<1> DEFINE I == {n \in 1..Len(s) : SameServer(s[n], target)}
<1>4. I = {k}
  BY <1>3
<1>5. Min(I) = k
  BY <1>2, <1>4 DEF Min
<1>6. IndexOfServerEndpoint(s, target) = Min(I) - 1
  BY <1>4 DEF IndexOfServerEndpoint, SelectInSeq
<1>7. IndexOfServerEndpoint(s, target) = k - 1
  BY <1>5, <1>6
<1>8. k - 1 \in 0..(Len(s) - 1) /\ (k - 1) + 1 = k
  BY <1>1
<1> QED BY <1>2, <1>3, <1>7, <1>8

-----------------------------------------------------------------------------
\* The session keeps its servers in order.
Index == IndexOfServerEndpoint(keepServers, current)
CursorsOK == serverCursor \in [Kinds -> Nat]

\* What a search leaves behind: a cursor for every kind, of which only that
\* of its own list has moved.
MovesOnly(search, kind) ==
  /\ search.cursor \in [Kinds -> Nat]
  /\ \A other \in Kinds \ {kind} : search.cursor[other] = serverCursor[other]

\* A search takes all servers of the list, from the cursor on.
LEMMA OrderedShows ==
  ASSUME CursorsOK, NEW kind \in Kinds, NEW s, Listed(s)
  PROVE  LET search == OrderedServerEndpoints(kind, s)
         IN  /\ search.order \in Seq(Range(s)) /\ Len(search.order) = Len(s)
             /\ Len(s) > 1 =>
                  search.order[1] = s[(serverCursor[kind] % Len(s)) + 1]
             /\ MovesOnly(search, kind)
<1> DEFINE c == serverCursor[kind] % Len(s)
<1>1. Len(s) \in Nat \ {0} /\ s \in Seq(Range(s))
  BY ListedFacts DEF Listed, IsList
<1>2. serverCursor[kind] \in Nat
  BY DEF CursorsOK
<1>3. c \in 0..(Len(s) - 1)
  BY <1>1, <1>2, Around
<1>4. CASE Len(s) <= 1
  BY <1>1, <1>4 DEF OrderedServerEndpoints, MovesOnly, CursorsOK
<1>5. CASE Len(s) > 1
  <2>1. OrderedServerEndpoints(kind, s) =
          [order |-> RotateServerEndpoints(s, c),
           cursor |-> [serverCursor EXCEPT ![kind] = c + 1]]
    BY <1>1, <1>5 DEF OrderedServerEndpoints, CursorStart, NextServerCursorStep,
                      SetServerCursor
  <2>2. c \in Nat /\ c < Len(s) /\ c + 1 - 1 = c
    BY <1>1, <1>3
  <2> HIDE DEF c
  <2>3. c % Len(s) = c
    BY <1>1, <2>2, Around
  <2>4. /\ RotateServerEndpoints(s, c) \in Seq(Range(s))
        /\ Len(RotateServerEndpoints(s, c)) = Len(s)
        /\ RotateServerEndpoints(s, c)[1] = s[c + 1]
    <3>1. 1 \in 1..Len(s)
      BY <1>1
    <3> QED BY <2>2, <2>3, <3>1, RotateShows
  <2>5. MovesOnly(OrderedServerEndpoints(kind, s), kind)
    BY <2>1, <2>2 DEF MovesOnly, CursorsOK
  <2> QED BY <2>1, <2>4, <2>5 DEF c
<1> QED BY <1>1, <1>4, <1>5

\* A reconnect round takes the server after the failed one first and the
\* failed one last, and leaves the cursor on another one.
LEMMA AfterShows ==
  ASSUME ListsInOrder, CursorsOK, NEW kind \in Kinds,
         current \in Range(keepServers)
  PROVE  LET search == OrderedAfter(kind, keepServers, current)
         IN  /\ search.order \in Seq(Range(keepServers)) /\ search.order # << >>
             /\ Last(search.order) = current
             /\ \A n \in 1..(Len(search.order) - 1) :
                  ~SameServer(search.order[n], current)
             /\ Len(keepServers) > 2 =>
                  search.cursor[kind] % Len(keepServers) # Index
             /\ MovesOnly(search, kind)
<1> DEFINE L == Len(keepServers)
           start == (Index + 1) % L
           turned == RotateServerEndpoints(keepServers, start)
<1>1. Listed(keepServers) /\ Distinct(keepServers)
  BY DEF ListsInOrder
<1>2. L \in Nat \ {0} /\ DOMAIN keepServers = 1..L
  BY <1>1, ListedFacts
<1>3. /\ Index \in 0..(L - 1) /\ keepServers[Index + 1] = current
      /\ \A n \in 1..L : SameServer(keepServers[n], current) => n = Index + 1
  BY <1>1, IndexFinds DEF Index
<1>4. CASE L <= 1
  <2>1. L = 1 /\ Index = 0
    BY <1>2, <1>3, <1>4
  <2>2. OrderedAfter(kind, keepServers, current) =
          [order |-> keepServers, cursor |-> serverCursor]
    BY <2>1 DEF OrderedAfter, OrderedServerEndpoints
  <2>3. Last(keepServers) = current
    BY <1>3, <2>1 DEF Last
  <2>4. keepServers \in Seq(Range(keepServers)) /\ keepServers # << >>
    BY <1>1 DEF Listed, IsList
  <2>5. 1..(Len(keepServers) - 1) = {}
    BY <2>1
  <2>6. MovesOnly(OrderedAfter(kind, keepServers, current), kind)
    BY <2>2 DEF MovesOnly, CursorsOK
  <2>7. /\ OrderedAfter(kind, keepServers, current).order = keepServers
        /\ OrderedAfter(kind, keepServers, current).cursor = serverCursor
    BY <2>2
  <2>8. ~(Len(keepServers) > 2)
    BY <2>1
  <2> HIDE DEF L
  <2> QED BY <2>3, <2>4, <2>5, <2>6, <2>7, <2>8
<1>5. CASE L > 1
  <2>1. OrderedAfter(kind, keepServers, current) =
          [order |-> turned, cursor |-> [serverCursor EXCEPT ![kind] = start + 1]]
    BY <1>2, <1>3, <1>5 DEF OrderedAfter, SetServerCursor, Index
  <2>3. /\ start \in 0..(L - 1)
        /\ L > 2 => (start + 1) % L # Index
        /\ \A n \in 1..L : /\ (start + n - 1) % L \in 0..(L - 1)
                           /\ (start + n - 1) % L = Index <=> n = L
    <3>1. start = (Index + 1) % L
      OBVIOUS
    <3>2. L \in Nat \ {0} /\ Index \in 0..(L - 1)
      BY <1>2, <1>3
    <3> HIDE DEF start, L
    <3> QED BY <3>1, <3>2, AroundAfter
  <2> HIDE DEF start
  <2>4. /\ turned \in Seq(Range(keepServers)) /\ Len(turned) = L
        /\ \A n \in 1..L : turned[n] = keepServers[((start + n - 1) % L) + 1]
    BY <1>1, <2>3, RotateShows
  <2> HIDE DEF turned
  <2>6. Last(turned) = current
    <3>1. L \in 1..L
      BY <1>2
    <3>2. (start + L - 1) % L = Index
      BY <2>3, <3>1
    <3> QED BY <1>3, <2>4, <3>1, <3>2 DEF Last
  <2>7. \A n \in 1..(L - 1) : ~SameServer(turned[n], current)
    <3> TAKE n \in 1..(L - 1)
    <3>1. n \in 1..L /\ n # L
      <4>1. L \in Nat
        BY <1>2
      <4> HIDE DEF L
      <4> QED BY <4>1
    <3>2. (start + n - 1) % L \in 0..(L - 1) /\ (start + n - 1) % L # Index
      BY <2>3, <3>1
    <3>3. ((start + n - 1) % L) + 1 \in 1..L /\ ((start + n - 1) % L) + 1 # Index + 1
      BY <1>2, <1>3, <3>2
    <3> QED BY <1>3, <2>4, <3>1, <3>3
  <2>9. MovesOnly(OrderedAfter(kind, keepServers, current), kind)
    BY <2>1, <2>3 DEF MovesOnly, CursorsOK
  <2>10. /\ OrderedAfter(kind, keepServers, current).order = turned
         /\ OrderedAfter(kind, keepServers, current).cursor[kind] = start + 1
    BY <2>1 DEF CursorsOK
  <2>11. turned # << >>
    BY <1>2, <2>4
  <2> QED BY <2>3, <2>4, <2>6, <2>7, <2>9, <2>10, <2>11
<1> QED BY <1>2, <1>4, <1>5

-----------------------------------------------------------------------------
\* The cursor of the keep-alive servers does not point at the last one.
CursorIsPast ==
  Len(keepServers) > 2
    => serverCursor[KeepAliveKind] % Len(keepServers) # Index

\* The server of a session comes from the list, and so do those to be dialled.
OrderOK ==
  /\ order \in Seq(Range(keepServers))
  /\ place \in {"dialing", "reconnecting"} => order # << >>
  /\ place = "binding" => protocol = "udp"
  /\ place \in {"open", "reconnecting"} =>
       current \in Range(keepServers) /\ gaveUp = NoServer

\* What a failed round leaves to the next attempt.
GaveUpIsPast ==
  /\ place = "reconnecting" => CursorIsPast
  /\ gaveUp # NoServer => /\ gaveUp = current /\ current \in Range(keepServers)
                          /\ place \in {"rebuild", "binding"} => CursorIsPast

\* The inductive invariant of the session's servers.
SInv ==
  /\ ListsInOrder /\ CursorsOK /\ OrderOK /\ GaveUpIsPast
  /\ FailedServerComesLast /\ RebuildStartsElsewhere

\* The servers of a batch come from the list.
BatchesOK ==
  DOMAIN batch = Probes /\ \A p \in Probes : Range(batch[p]) \subseteq Range(stunServers)

\* Every instance starts with lists in order.
LEMMA InitInOrder == Init => ListsInOrder
<1> SUFFICES ASSUME Init PROVE ListsInOrder
  OBVIOUS
<1>1. PICK s \in Settings : /\ keepServers = KeepAliveServers(s, StoredLists(s))
                            /\ stunServers = StunServers(s, StoredLists(s))
  BY DEF Init
<1>2. OptionsOK(s.options)
  BY SettingsAssumption
<1> QED BY <1>1, <1>2, InstancesInOrder DEF ListsInOrder, Listed

LEMMA InitSInv == Init => SInv /\ BatchesOK
<1> SUFFICES ASSUME Init PROVE SInv /\ BatchesOK
  OBVIOUS
<1> ListsInOrder
  BY InitInOrder
<1>1. CursorsOK
  BY DEF Init, CursorInit, CursorsOK
<1>2. place = "rebuild" /\ order = << >> /\ gaveUp = NoServer
  BY DEF Init
<1>3. OrderOK /\ GaveUpIsPast /\ FailedServerComesLast /\ RebuildStartsElsewhere
  BY <1>2 DEF OrderOK, GaveUpIsPast, FailedServerComesLast, RebuildStartsElsewhere
<1>4. BatchesOK
  BY DEF Init, BatchesOK, Range
<1> QED BY <1>1, <1>3, <1>4 DEF SInv

\* The lists are those the runner was made with.
LEMMA ListsStay ==
  ASSUME ListsInOrder, UNCHANGED settingVars
  PROVE  /\ ListsInOrder' /\ keepServers' = keepServers
         /\ protocol' = protocol /\ KeepAliveKind' = KeepAliveKind
BY DEF ListsInOrder, settingVars, KeepAliveKind

\* A step that dials nobody and moves no cursor but that of the STUN servers.
LEMMA OthersKeep ==
  ASSUME SInv, UNCHANGED settingVars, CursorsOK',
         serverCursor'[KeepAliveKind] = serverCursor[KeepAliveKind],
         order' = order, current' = current, gaveUp' = gaveUp, place' = place
  PROVE  SInv'
<1>1. /\ ListsInOrder' /\ keepServers' = keepServers /\ protocol' = protocol
      /\ KeepAliveKind' = KeepAliveKind
  BY ListsStay DEF SInv
<1>2. CursorIsPast' <=> CursorIsPast
  BY <1>1 DEF CursorIsPast, Index
<1>3. OrderOK' /\ GaveUpIsPast'
  BY <1>1, <1>2 DEF SInv, OrderOK, GaveUpIsPast
<1>4. FailedServerComesLast' /\ RebuildStartsElsewhere'
  BY <1>1 DEF SInv, FailedServerComesLast, RebuildStartsElsewhere
<1> QED BY <1>1, <1>3, <1>4 DEF SInv

\* The session comes to an end, or has none yet: nothing is to be dialled.
LEMMA GivingUpKeeps ==
  ASSUME SInv, UNCHANGED settingVars, serverCursor' = serverCursor,
         order' = << >> \/ order' = order, current' = current,
         place' = "rebuild",
         \/ gaveUp' = NoServer
         \/ gaveUp' = gaveUp /\ place \in {"binding", "reconnecting"}
         \/ gaveUp' = current /\ place = "reconnecting"
  PROVE  SInv'
<1>1. /\ ListsInOrder' /\ keepServers' = keepServers /\ protocol' = protocol
      /\ KeepAliveKind' = KeepAliveKind
  BY ListsStay DEF SInv
<1>2. CursorIsPast' <=> CursorIsPast
  BY <1>1 DEF CursorIsPast, Index
<1>3. order' \in Seq(Range(keepServers))
  <2>1. order \in Seq(Range(keepServers)) /\ << >> \in Seq(Range(keepServers))
    BY DEF SInv, OrderOK
  <2>2. CASE order' = << >>
    BY <2>1, <2>2
  <2>3. CASE order' = order
    BY <2>1, <2>3
  <2> QED BY <2>2, <2>3
<1>4. OrderOK' /\ GaveUpIsPast'
  BY <1>1, <1>2, <1>3 DEF SInv, OrderOK, GaveUpIsPast
<1>5. FailedServerComesLast' /\ RebuildStartsElsewhere' /\ CursorsOK'
  BY DEF SInv, FailedServerComesLast, RebuildStartsElsewhere, CursorsOK
<1> QED BY <1>1, <1>4, <1>5 DEF SInv

\* An attempt takes the servers from the cursor on; after a session that was
\* given up that is not its server.
LEMMA SearchKeeps ==
  ASSUME SInv, UNCHANGED settingVars, place \in {"rebuild", "binding"},
         place' = "dialing", current' = current, gaveUp' = gaveUp,
         Search(OrderedServerEndpoints(KeepAliveKind, keepServers))
  PROVE  SInv'
<1>1. /\ ListsInOrder' /\ keepServers' = keepServers /\ protocol' = protocol
      /\ KeepAliveKind' = KeepAliveKind
  BY ListsStay DEF SInv
<1> DEFINE L == Len(keepServers)
<1>2. /\ Listed(keepServers) /\ Distinct(keepServers)
      /\ L \in Nat \ {0} /\ KeepAliveKind \in Kinds
  BY ListedFacts DEF SInv, ListsInOrder, KeepAliveKind, Kinds
<1>3. /\ order' \in Seq(Range(keepServers)) /\ Len(order') = L
      /\ L > 1 => order'[1] = keepServers[(serverCursor[KeepAliveKind] % L) + 1]
      /\ MovesOnly(OrderedServerEndpoints(KeepAliveKind, keepServers), KeepAliveKind)
  BY <1>2, OrderedShows DEF Search, SInv
<1>4. CursorsOK'
  BY <1>3 DEF Search, MovesOnly, CursorsOK
<1>5. order' # << >>
  BY <1>2, <1>3
<1>6. OrderOK' /\ GaveUpIsPast' /\ FailedServerComesLast'
  BY <1>1, <1>3, <1>5 DEF SInv, OrderOK, GaveUpIsPast, FailedServerComesLast
<1>7. RebuildStartsElsewhere'
  <2> SUFFICES ASSUME gaveUp # NoServer, L > 2
               PROVE  Head(order') # gaveUp
    BY <1>1 DEF RebuildStartsElsewhere
  <2> DEFINE c == serverCursor[KeepAliveKind] % L
  <2>1. gaveUp = current /\ current \in Range(keepServers) /\ c # Index
    BY DEF SInv, GaveUpIsPast, CursorIsPast
  <2>2. serverCursor[KeepAliveKind] \in Nat
    BY <1>2 DEF SInv, CursorsOK
  <2>3. c \in 0..(L - 1)
    BY <1>2, <2>2, Around
  <2>4. Head(order') = keepServers[c + 1]
    BY <1>2, <1>3, <1>5
  <2> HIDE DEF c
  <2>5. /\ Index \in 0..(L - 1)
        /\ \A n \in 1..L : SameServer(keepServers[n], current) => n = Index + 1
    BY <1>2, <2>1, IndexFinds DEF Index
  <2>6. c + 1 \in 1..L /\ c + 1 # Index + 1
    BY <1>2, <2>1, <2>3, <2>5
  <2>7. ~SameServer(keepServers[c + 1], current)
    BY <2>5, <2>6
  <2> QED BY <2>1, <2>4, <2>7 DEF SameServer
<1> QED BY <1>1, <1>4, <1>6, <1>7 DEF SInv

\* A reconnect round asks the server of the session last.
LEMMA RoundKeeps ==
  ASSUME SInv, UNCHANGED settingVars, place \in {"open", "reconnecting"},
         place' = "reconnecting", current' = current, gaveUp' = gaveUp,
         Search(OrderedAfter(KeepAliveKind, keepServers, current))
  PROVE  SInv'
<1>1. /\ ListsInOrder' /\ keepServers' = keepServers /\ protocol' = protocol
      /\ KeepAliveKind' = KeepAliveKind
  BY ListsStay DEF SInv
<1>2. current \in Range(keepServers) /\ gaveUp = NoServer /\ KeepAliveKind \in Kinds
  BY DEF SInv, OrderOK, KeepAliveKind, Kinds
<1>3. /\ order' \in Seq(Range(keepServers)) /\ order' # << >>
      /\ Last(order') = current
      /\ \A n \in 1..(Len(order') - 1) : ~SameServer(order'[n], current)
      /\ Len(keepServers) > 2 =>
           serverCursor'[KeepAliveKind] % Len(keepServers) # Index
      /\ MovesOnly(OrderedAfter(KeepAliveKind, keepServers, current), KeepAliveKind)
  BY <1>2, AfterShows DEF Search, SInv
<1>4. CursorsOK'
  BY <1>3 DEF Search, MovesOnly, CursorsOK
<1>5. CursorIsPast'
  BY <1>1, <1>3 DEF CursorIsPast, Index
<1>6. OrderOK' /\ GaveUpIsPast'
  BY <1>1, <1>2, <1>3, <1>5 DEF OrderOK, GaveUpIsPast
<1>7. FailedServerComesLast' /\ RebuildStartsElsewhere'
  BY <1>1, <1>2, <1>3 DEF FailedServerComesLast, RebuildStartsElsewhere
<1> QED BY <1>1, <1>4, <1>6, <1>7 DEF SInv
-----------------------------------------------------------------------------
\* The servers still to be dialled, one fewer.
LEMMA OneFewer ==
  ASSUME NEW S, NEW s \in Seq(S), Len(s) > 1
  PROVE  /\ Tail(s) \in Seq(S) /\ Tail(s) # << >> /\ Len(Tail(s)) = Len(s) - 1
         /\ Last(Tail(s)) = Last(s)
         /\ \A n \in 1..(Len(s) - 2) : Tail(s)[n] = s[n + 1]
<1>1. /\ Tail(s) \in Seq(S) /\ Len(Tail(s)) = Len(s) - 1
      /\ \A n \in 1..(Len(s) - 1) : Tail(s)[n] = s[n + 1]
  OBVIOUS
<1>2. Len(s) - 1 \in 1..(Len(s) - 1) /\ (Len(s) - 1) + 1 = Len(s)
  OBVIOUS
<1>3. Last(Tail(s)) = Last(s)
  BY <1>1, <1>2 DEF Last
<1>4. Tail(s) # << >>
  <2>1. Len(Tail(s)) # 0
    BY <1>1
  <2>2. Len(<< >>) = 0
    OBVIOUS
  <2> DEFINE rest == Tail(s)
  <2>3. Len(rest) # 0
    BY <2>1
  <2> HIDE DEF rest
  <2>4. rest # << >>
    BY <2>2, <2>3
  <2> QED BY <2>4 DEF rest
<1> QED BY <1>1, <1>3, <1>4

LEMMA DialOn ==
  ASSUME SInv, UNCHANGED settingVars, serverCursor' = serverCursor,
         current' = current, place' = place, Len(order) > 1,
         order' = Tail(order),
         \/ place = "dialing" /\ gaveUp' = NoServer
         \/ place = "reconnecting" /\ gaveUp' = gaveUp
  PROVE  SInv'
<1>1. /\ ListsInOrder' /\ keepServers' = keepServers /\ protocol' = protocol
      /\ KeepAliveKind' = KeepAliveKind
  BY ListsStay DEF SInv
<1>2. CursorIsPast' <=> CursorIsPast
  BY <1>1 DEF CursorIsPast, Index
<1>3. order \in Seq(Range(keepServers))
  BY DEF SInv, OrderOK
<1>4. /\ order' \in Seq(Range(keepServers)) /\ order' # << >>
      /\ Len(order') = Len(order) - 1 /\ Last(order') = Last(order)
      /\ \A n \in 1..(Len(order) - 2) : order'[n] = order[n + 1]
  BY <1>3, OneFewer
<1>5. OrderOK' /\ GaveUpIsPast' /\ CursorsOK'
  BY <1>1, <1>2, <1>4 DEF SInv, OrderOK, GaveUpIsPast, CursorsOK
<1>6. RebuildStartsElsewhere'
  BY <1>1 DEF RebuildStartsElsewhere, SInv
<1>7. FailedServerComesLast'
  <2> SUFFICES ASSUME place = "reconnecting"
               PROVE  /\ Last(order') = current
                      /\ \A n \in 1..(Len(order') - 1) : ~SameServer(order'[n], current)
    BY DEF FailedServerComesLast
  <2>1. /\ Last(order) = current
        /\ \A n \in 1..(Len(order) - 1) : ~SameServer(order[n], current)
    BY DEF SInv, FailedServerComesLast
  <2>2. Last(order') = current
    BY <1>4, <2>1
  <2>3. ASSUME NEW n \in 1..(Len(order') - 1)
        PROVE  ~SameServer(order'[n], current)
    <3>1. Len(order) \in Nat
      BY <1>3
    <3>2. n \in 1..(Len(order) - 2) /\ n + 1 \in 1..(Len(order) - 1)
      BY <1>4, <2>3, <3>1
    <3>3. order'[n] = order[n + 1]
      BY <1>4, <3>2
    <3> QED BY <2>1, <3>2, <3>3
  <2> QED BY <2>2, <2>3
<1> QED BY <1>1, <1>5, <1>6, <1>7 DEF SInv

\* A server has answered.
LEMMA OpensKeep ==
  ASSUME SInv, UNCHANGED settingVars, serverCursor' = serverCursor,
         place \in {"dialing", "reconnecting"}, place' = "open",
         current' = Head(order), order' = << >>, gaveUp' = NoServer
  PROVE  SInv'
<1>1. /\ ListsInOrder' /\ keepServers' = keepServers /\ protocol' = protocol
      /\ KeepAliveKind' = KeepAliveKind
  BY ListsStay DEF SInv
<1>2. order \in Seq(Range(keepServers)) /\ order # << >>
  BY DEF SInv, OrderOK
<1>3. Head(order) \in Range(keepServers)
  BY <1>2
<1>4. order' \in Seq(Range(keepServers))
  OBVIOUS
<1>5. OrderOK' /\ GaveUpIsPast'
  BY <1>1, <1>3, <1>4 DEF OrderOK, GaveUpIsPast
<1>6. FailedServerComesLast' /\ RebuildStartsElsewhere' /\ CursorsOK'
  BY DEF SInv, FailedServerComesLast, RebuildStartsElsewhere, CursorsOK
<1> QED BY <1>1, <1>5, <1>6 DEF SInv

\* runUDP opens its socket before it asks for the servers.
LEMMA BindingKeeps ==
  ASSUME SInv, UNCHANGED settingVars, serverCursor' = serverCursor,
         order' = order, current' = current, gaveUp' = gaveUp,
         place = "rebuild", place' = "binding", protocol = "udp"
  PROVE  SInv'
<1>1. /\ ListsInOrder' /\ keepServers' = keepServers /\ protocol' = protocol
      /\ KeepAliveKind' = KeepAliveKind
  BY ListsStay DEF SInv
<1>2. CursorIsPast' <=> CursorIsPast
  BY <1>1 DEF CursorIsPast, Index
<1>3. OrderOK' /\ GaveUpIsPast'
  BY <1>1, <1>2 DEF SInv, OrderOK, GaveUpIsPast
<1>4. FailedServerComesLast' /\ RebuildStartsElsewhere' /\ CursorsOK'
  BY DEF SInv, FailedServerComesLast, RebuildStartsElsewhere, CursorsOK
<1> QED BY <1>1, <1>3, <1>4 DEF SInv

-----------------------------------------------------------------------------
\* A batch comes from the list of the STUN servers, and only their cursor
\* moves.
LEMMA BatchShows ==
  ASSUME ListsInOrder, CursorsOK
  PROVE  LET search == OrderedServerEndpointBatch("stun", stunServers, BatchSize)
         IN  /\ search.order \in Seq(Range(stunServers))
             /\ MovesOnly(search, "stun")
<1>1. /\ Listed(stunServers) /\ "stun" \in Kinds
      /\ Len(stunServers) \in Nat \ {0} /\ BatchSize \in Nat \ {0}
  BY BatchAssumption, ListedFacts DEF ListsInOrder, Kinds
<1>2. CASE Len(stunServers) <= BatchSize
  BY <1>1, <1>2, OrderedShows DEF OrderedServerEndpointBatch
<1>3. CASE ~(Len(stunServers) <= BatchSize)
  <2> DEFINE c == serverCursor["stun"] % Len(stunServers)
             turned == RotateServerEndpoints(stunServers, c)
  <2>1. OrderedServerEndpointBatch("stun", stunServers, BatchSize) =
          [order |-> SubSeq(turned, 1, BatchSize),
           cursor |-> [serverCursor EXCEPT !["stun"] = c + BatchSize]]
    BY <1>3 DEF OrderedServerEndpointBatch, CursorStart, NextServerCursorStep,
                SetServerCursor
  <2>2. serverCursor["stun"] \in Nat
    BY <1>1 DEF CursorsOK
  <2>3. c \in 0..(Len(stunServers) - 1)
    BY <1>1, <2>2, Around
  <2> HIDE DEF c
  <2>4. turned \in Seq(Range(stunServers)) /\ Len(turned) = Len(stunServers)
    BY <1>1, <2>3, RotateShows
  <2> HIDE DEF turned
  <2>5. SubSeq(turned, 1, BatchSize) \in Seq(Range(stunServers))
    BY <1>1, <1>3, <2>4
  <2>6. c + BatchSize \in Nat
    BY <1>1, <2>3
  <2>7. MovesOnly(OrderedServerEndpointBatch("stun", stunServers, BatchSize), "stun")
    BY <2>1, <2>6 DEF MovesOnly, CursorsOK
  <2> QED BY <2>1, <2>5, <2>7
<1> QED BY <1>2, <1>3

\* A step of a probe goroutine leaves the session's servers alone.
LEMMA ProbeKeeps ==
  ASSUME SInv, ProbeUnchanged, CursorsOK',
         \A kind \in Kinds \ {"stun"} : serverCursor'[kind] = serverCursor[kind]
  PROVE  SInv'
<1>1. KeepAliveKind \in Kinds \ {"stun"}
  BY DEF KeepAliveKind, Kinds
<1> QED BY <1>1, OthersKeep DEF ProbeUnchanged, sessionVars

LEMMA BatchesKeep ==
  ASSUME BatchesOK, UNCHANGED settingVars, NEW p \in Probes,
         NEW s \in Seq(Range(stunServers)), batch' = [batch EXCEPT ![p] = s]
  PROVE  BatchesOK'
<1>1. stunServers' = stunServers
  BY DEF settingVars
<1>2. Range(s) \subseteq Range(stunServers)
  BY DEF Range
<1>3. DOMAIN batch' = Probes
  BY DEF BatchesOK
<1>4. ASSUME NEW q \in Probes PROVE Range(batch'[q]) \subseteq Range(stunServers)
  <2>1. CASE q = p
    BY <1>2, <2>1 DEF BatchesOK
  <2>2. CASE q # p
    <3>1. batch'[q] = batch[q]
      BY <2>2 DEF BatchesOK
    <3> QED BY <3>1 DEF BatchesOK
  <2> QED BY <2>1, <2>2
<1> QED BY <1>1, <1>3, <1>4 DEF BatchesOK

LEMMA BatchesStay ==
  ASSUME BatchesOK, UNCHANGED settingVars, batch' = batch
  PROVE  BatchesOK'
BY DEF BatchesOK, settingVars

LEMMA AttemptSteps ==
  ASSUME SInv,
         \/ Attempt \/ Listens \/ ListenFails
         \/ DialSucceeds \/ DialFails \/ DialRefused
  PROVE  SInv'
<1>1. CASE Attempt
  <2>1. CASE protocol = "udp"
    BY <1>1, <2>1, BindingKeeps DEF Attempt
  <2>2. CASE protocol # "udp"
    <3>1. KeepAliveKind = "http"
      BY <2>2 DEF KeepAliveKind
    <3>2. /\ UNCHANGED settingVars /\ place = "rebuild" /\ place' = "dialing"
          /\ current' = current /\ gaveUp' = gaveUp
          /\ Search(OrderedServerEndpoints("http", keepServers))
      BY <1>1, <2>2 DEF Attempt
    <3> QED BY <3>1, <3>2, SearchKeeps
  <2> QED BY <2>1, <2>2
<1>2. CASE Listens
  <2>1. KeepAliveKind = "quic"
    BY <1>2 DEF Listens, SInv, OrderOK, KeepAliveKind
  <2>2. /\ UNCHANGED settingVars /\ place = "binding" /\ place' = "dialing"
        /\ current' = current /\ gaveUp' = gaveUp
        /\ Search(OrderedServerEndpoints("quic", keepServers))
    BY <1>2 DEF Listens
  <2> QED BY <2>1, <2>2, SearchKeeps
<1>3. CASE ListenFails
  <2>1. /\ UNCHANGED settingVars /\ serverCursor' = serverCursor
        /\ order' = order /\ current' = current /\ gaveUp' = gaveUp
        /\ place = "binding" /\ place' = "rebuild"
    BY <1>3 DEF ListenFails
  <2> QED BY <2>1, GivingUpKeeps
<1>4. CASE DialSucceeds
  <2>1. /\ UNCHANGED settingVars /\ serverCursor' = serverCursor
        /\ place = "dialing" /\ place' = "open"
        /\ current' = Head(order) /\ order' = << >> /\ gaveUp' = NoServer
    BY <1>4 DEF DialSucceeds
  <2> QED BY <2>1, OpensKeep
<1>5. CASE DialFails
  <2>1. /\ UNCHANGED settingVars /\ serverCursor' = serverCursor
        /\ place = "dialing" /\ order' = Tail(order) /\ current' = current
        /\ gaveUp' = NoServer
        /\ IF order' = << >> THEN place' = "rebuild" ELSE place' = place
    BY <1>5 DEF DialFails
  <2>2. order \in Seq(Range(keepServers)) /\ order # << >>
    BY <2>1 DEF SInv, OrderOK
  <2>3. CASE Tail(order) = << >>
    BY <2>1, <2>3, GivingUpKeeps
  <2>4. CASE Tail(order) # << >>
    <3>1. Len(order) > 1
      BY <2>2, <2>4
    <3> QED BY <2>1, <2>4, <3>1, DialOn
  <2> QED BY <2>3, <2>4
<1>6. CASE DialRefused
  <2>1. /\ UNCHANGED settingVars /\ serverCursor' = serverCursor
        /\ order' = << >> /\ current' = current /\ gaveUp' = NoServer
        /\ place' = "rebuild"
    BY <1>6 DEF DialRefused
  <2> QED BY <2>1, GivingUpKeeps
<1> QED BY <1>1, <1>2, <1>3, <1>4, <1>5, <1>6

LEMMA ReconnectSteps ==
  ASSUME SInv,
         \/ SessionLost \/ RedialSucceeds \/ RedialFails
         \/ RoundFails \/ RedialRefused
  PROVE  SInv'
<1>1. CASE SessionLost
  <2>1. /\ UNCHANGED settingVars /\ place = "open" /\ place' = "reconnecting"
        /\ current' = current /\ gaveUp' = gaveUp
        /\ Search(OrderedAfter(KeepAliveKind, keepServers, current))
    BY <1>1 DEF SessionLost
  <2> QED BY <2>1, RoundKeeps
<1>2. CASE RedialSucceeds
  <2>1. /\ UNCHANGED settingVars /\ serverCursor' = serverCursor
        /\ place = "reconnecting" /\ place' = "open"
        /\ current' = Head(order) /\ order' = << >> /\ gaveUp' = gaveUp
    BY <1>2 DEF RedialSucceeds
  <2>2. gaveUp = NoServer
    BY <2>1 DEF SInv, OrderOK
  <2> QED BY <2>1, <2>2, OpensKeep
<1>3. CASE RedialFails
  BY <1>3, DialOn DEF RedialFails
<1>4. CASE RoundFails
  <2>1. CASE round >= MaxRounds /\ Len(keepServers) > 1
    <3>1. /\ UNCHANGED settingVars /\ serverCursor' = serverCursor
          /\ order' = << >> /\ current' = current /\ gaveUp' = current
          /\ place = "reconnecting" /\ place' = "rebuild"
      BY <1>4, <2>1 DEF RoundFails
    <3> QED BY <3>1, GivingUpKeeps
  <2>2. CASE ~(round >= MaxRounds /\ Len(keepServers) > 1)
    <3>1. /\ UNCHANGED settingVars /\ current' = current /\ gaveUp' = gaveUp
          /\ place = "reconnecting" /\ place' = "reconnecting"
          /\ Search(OrderedAfter(KeepAliveKind, keepServers, current))
      BY <1>4, <2>2 DEF RoundFails
    <3> QED BY <3>1, RoundKeeps
  <2> QED BY <2>1, <2>2
<1>5. CASE RedialRefused
  <2>1. /\ UNCHANGED settingVars /\ serverCursor' = serverCursor
        /\ order' = << >> /\ current' = current /\ gaveUp' = gaveUp
        /\ place = "reconnecting" /\ place' = "rebuild"
    BY <1>5 DEF RedialRefused
  <2> QED BY <2>1, GivingUpKeeps
<1> QED BY <1>1, <1>2, <1>3, <1>4, <1>5

LEMMA ProbeSteps ==
  ASSUME SInv, BatchesOK, NEW p \in Probes,
         \/ SampleBegins(p) \/ SampleAnswered(p) \/ SampleFails(p)
         \/ Blames(p) \/ ProbeEnds(p)
  PROVE  SInv' /\ BatchesOK'
<1>1. ListsInOrder /\ CursorsOK
  BY DEF SInv
<1>2. << >> \in Seq(Range(stunServers))
  OBVIOUS
<1>3. ASSUME serverCursor' = serverCursor, ProbeUnchanged PROVE SInv'
  BY <1>1, <1>3, ProbeKeeps DEF CursorsOK
<1>4. CASE SampleBegins(p)
  <2> DEFINE search == OrderedServerEndpointBatch("stun", stunServers, BatchSize)
  <2>1. search.order \in Seq(Range(stunServers)) /\ MovesOnly(search, "stun")
    BY <1>1, BatchShows
  <2>2. /\ batch' = [batch EXCEPT ![p] = search.order]
        /\ serverCursor' = search.cursor /\ ProbeUnchanged
    BY <1>4 DEF SampleBegins
  <2> HIDE DEF search
  <2>3. CursorsOK' /\ \A kind \in Kinds \ {"stun"} : serverCursor'[kind] = serverCursor[kind]
    BY <2>1, <2>2 DEF MovesOnly, CursorsOK
  <2>4. SInv'
    BY <2>2, <2>3, ProbeKeeps
  <2>5. BatchesOK'
    BY <2>1, <2>2, BatchesKeep DEF ProbeUnchanged
  <2> QED BY <2>4, <2>5
<1>5. CASE SampleAnswered(p)
  <2>1. /\ ProbeUnchanged /\ batch' = [batch EXCEPT ![p] = << >>]
    BY <1>5 DEF SampleAnswered, Returns
  <2>2. PICK server \in Range(batch[p]) :
          serverCursor' = SetServerCursorAfter("stun", stunServers, server)
    BY <1>5 DEF SampleAnswered
  <2>3. server \in Range(stunServers)
    BY <2>2 DEF BatchesOK
  <2>4. IndexOfServerEndpoint(stunServers, server) \in 0..(Len(stunServers) - 1)
    BY <1>1, <2>3, IndexFinds DEF ListsInOrder
  <2> DEFINE next == IndexOfServerEndpoint(stunServers, server)
  <2>8. Len(stunServers) \in Nat
    BY <1>1, ListedFacts DEF ListsInOrder
  <2>9. next + 1 \in Nat /\ ~(next < 0)
    BY <2>4, <2>8
  <2>10. SetServerCursorAfter("stun", stunServers, server) =
           [serverCursor EXCEPT !["stun"] = next + 1]
    BY <2>9 DEF SetServerCursorAfter, SetServerCursor
  <2> HIDE DEF next
  <2>5. CursorsOK' /\ \A kind \in Kinds \ {"stun"} : serverCursor'[kind] = serverCursor[kind]
    BY <1>1, <2>2, <2>9, <2>10 DEF CursorsOK
  <2>6. SInv'
    BY <2>1, <2>5, ProbeKeeps
  <2>7. BatchesOK'
    BY <1>2, <2>1, BatchesKeep DEF ProbeUnchanged
  <2> QED BY <2>6, <2>7
<1>6. CASE SampleFails(p)
  <2>1. /\ ProbeUnchanged /\ serverCursor' = serverCursor
        /\ batch' = [batch EXCEPT ![p] = << >>]
    BY <1>6 DEF SampleFails
  <2> QED BY <1>2, <1>3, <2>1, BatchesKeep DEF ProbeUnchanged
<1>7. CASE Blames(p)
  <2>1. ProbeUnchanged /\ serverCursor' = serverCursor /\ batch' = batch
    BY <1>7 DEF Blames
  <2> QED BY <1>3, <2>1, BatchesStay DEF ProbeUnchanged
<1>8. CASE ProbeEnds(p)
  <2>1. /\ ProbeUnchanged /\ serverCursor' = serverCursor
        /\ batch' = [batch EXCEPT ![p] = << >>]
    BY <1>8 DEF ProbeEnds, Returns
  <2> QED BY <1>2, <1>3, <2>1, BatchesKeep DEF ProbeUnchanged
<1> QED BY <1>4, <1>5, <1>6, <1>7, <1>8

LEMMA SInvStep == SInv /\ BatchesOK /\ [Next]_vars => SInv' /\ BatchesOK'
<1> SUFFICES ASSUME SInv, BatchesOK, [Next]_vars PROVE SInv' /\ BatchesOK'
  OBVIOUS
<1>1. CASE \/ Attempt \/ Listens \/ ListenFails
           \/ DialSucceeds \/ DialFails \/ DialRefused
  <2>1. UNCHANGED settingVars
    BY <1>1 DEF Attempt, Listens, ListenFails, DialSucceeds, DialFails, DialRefused
  <2>2. batch' = batch
    BY <1>1 DEF Attempt, Listens, ListenFails, DialSucceeds, DialFails,
                DialRefused, StartProbe, probeVars
  <2> QED BY <1>1, <2>1, <2>2, AttemptSteps, BatchesStay
<1>2. CASE \/ SessionLost \/ RedialSucceeds \/ RedialFails
           \/ RoundFails \/ RedialRefused
  <2>1. UNCHANGED settingVars
    BY <1>2 DEF SessionLost, RedialSucceeds, RedialFails, RoundFails, RedialRefused
  <2>2. batch' = batch
    BY <1>2 DEF SessionLost, RedialSucceeds, RedialFails, RoundFails,
                RedialRefused, CancelProbes, StartProbe, probeVars
  <2> QED BY <1>2, <2>1, <2>2, ReconnectSteps, BatchesStay
<1>3. ASSUME NEW p \in Probes,
             \/ SampleBegins(p) \/ SampleAnswered(p) \/ SampleFails(p)
             \/ Blames(p) \/ ProbeEnds(p)
      PROVE  SInv' /\ BatchesOK'
  BY <1>3, ProbeSteps
<1>4. CASE UNCHANGED vars
  <2>1. /\ UNCHANGED settingVars /\ serverCursor' = serverCursor /\ batch' = batch
        /\ order' = order /\ current' = current /\ gaveUp' = gaveUp /\ place' = place
    BY <1>4 DEF vars, settingVars, sessionVars, probeVars
  <2>2. CursorsOK'
    BY <2>1 DEF SInv, CursorsOK
  <2>3. SInv'
    BY <2>1, <2>2, OthersKeep
  <2> QED BY <2>1, <2>3, BatchesStay
<1> QED BY <1>1, <1>2, <1>3, <1>4 DEF Next

-----------------------------------------------------------------------------
\* A reconnect round asks the server of the lost session last
\* (orderedServerEndpoints with `after'), whatever the length of the list and
\* whatever the probe goroutines do meanwhile.
THEOREM LastComesTheFailed ==
  Spec => []FailedServerComesLast
<1>1. SInv => FailedServerComesLast
  BY DEF SInv
<1> QED BY <1>1, InitSInv, SInvStep, PTL DEF Spec

\* The rebuild after three failed rounds starts at another server as soon as
\* there are three.
THEOREM RebuildMovesOn ==
  Spec => []RebuildStartsElsewhere
<1>1. SInv => RebuildStartsElsewhere
  BY DEF SInv
<1> QED BY <1>1, InitSInv, SInvStep, PTL DEF Spec
-----------------------------------------------------------------------------
\* How far the cursor c has come since it was at x.
Behind(x, c) == IF x < c THEN c - x ELSE c + Len(stunServers) - x

StunStart == serverCursor["stun"] % Len(stunServers)

\* The servers the batches have gone over since one answered last.
CInv ==
  /\ silent \in Nat /\ asked \subseteq Range(stunServers)
  /\ Len(stunServers) <= BatchSize /\ silent > 0 => asked = Range(stunServers)
  /\ \A x \in 0..(Len(stunServers) - 1) :
       Len(stunServers) > BatchSize /\ Behind(x, StunStart) <= silent * BatchSize
         => stunServers[x + 1] \in asked

\* A batch moves the cursor on by B: what it has gone over is what it had
\* gone over before, and the batch.
LEMMA BatchExtendsArc ==
  ASSUME NEW L \in Nat \ {0}, NEW B \in 1..(L - 1), NEW c \in 0..(L - 1),
         NEW m \in Nat, NEW x \in 0..(L - 1), NEW d \in 0..(L - 1),
         d = (c + B) % L,
         (IF x < d THEN d - x ELSE d + L - x) <= m + B
  PROVE  \/ \E n \in 1..B : (c + n - 1) % L = x
         \/ (IF x < c THEN c - x ELSE c + L - x) <= m
<1>1. d = IF c + B < L THEN c + B ELSE c + B - L
  <2>1. c + B \in Nat /\ c + B < 2 * L
    OBVIOUS
  <2> QED BY <2>1
<1> DEFINE far == IF x < d THEN d - x ELSE d + L - x
<1>2. far \in 1..L
  BY <1>1
<1>3. CASE far <= B
  <2> DEFINE n == B - far + 1
  <2>1. n \in 1..B
    BY <1>2, <1>3
  <2>4. c + n - 1 = c + B - far
    BY <1>2
  <2>5. c + B = d \/ c + B = d + L
    BY <1>1
  <2>6. far = d - x \/ (far = d + L - x /\ ~(x < d))
    OBVIOUS
  <2>7. c + B - far = x \/ c + B - far = x + L
    <3>1. ~(far = d + L - x /\ c + B = d)
      BY <1>3
    <3> HIDE DEF n, far
    <3> QED BY <1>2, <1>3, <2>5, <2>6, <3>1
  <2>2. c + n - 1 = x \/ c + n - 1 = x + L
    BY <2>4, <2>7
  <2>3. (c + n - 1) % L = x
    <3>1. c + n - 1 \in Nat
      BY <2>1
    <3> HIDE DEF n
    <3> QED BY <2>2, <3>1
  <2> QED BY <2>1, <2>3
<1>4. CASE ~(far <= B)
  <2>1. (IF x < c THEN c - x ELSE c + L - x) = far - B
    BY <1>1, <1>4
  <2>2. far <= m + B /\ far \in Nat
    BY <1>2
  <2> HIDE DEF far
  <2> QED BY <1>2, <2>1, <2>2
<1> QED BY <1>3, <1>4

\* Enough batches have gone over the whole list.
LEMMA CInvCovers ==
  ASSUME ListsInOrder, CursorsOK, CInv
  PROVE  silent * BatchSize >= Len(stunServers) => asked = Range(stunServers)
<1> SUFFICES ASSUME silent * BatchSize >= Len(stunServers)
             PROVE  asked = Range(stunServers)
  OBVIOUS
<1> DEFINE L == Len(stunServers)
<1>1. /\ L \in Nat \ {0} /\ BatchSize \in Nat \ {0} /\ silent \in Nat
      /\ DOMAIN stunServers = 1..L
  BY BatchAssumption, ListedFacts DEF ListsInOrder, CInv
<1>2. CASE L <= BatchSize
  <2>1. silent # 0
    BY <1>1
  <2> QED BY <1>1, <1>2, <2>1 DEF CInv
<1>3. CASE L > BatchSize
  <2>1. "stun" \in Kinds
    BY DEF Kinds
  <2>2. serverCursor["stun"] \in Nat
    BY <2>1 DEF CursorsOK
  <2>3. StunStart \in 0..(L - 1)
    BY <1>1, <2>2, Around DEF StunStart
  <2>4. silent * BatchSize \in Nat /\ L <= silent * BatchSize
    BY <1>1
  <2>5. ASSUME NEW x \in 0..(L - 1) PROVE stunServers[x + 1] \in asked
    <3>1. Behind(x, StunStart) <= L
      BY <1>1, <2>3 DEF Behind
    <3>2. Behind(x, StunStart) \in Nat
      BY <1>1, <2>3 DEF Behind
    <3> DEFINE m == silent * BatchSize
    <3>3. m \in Nat /\ L <= m
      BY <2>4
    <3> HIDE DEF m
    <3>4. Behind(x, StunStart) <= m
      BY <1>1, <3>1, <3>2, <3>3
    <3> QED BY <1>3, <3>4 DEF CInv, m
  <2>6. ASSUME NEW n \in 1..L PROVE stunServers[n] \in asked
    <3>1. n - 1 \in 0..(L - 1) /\ (n - 1) + 1 = n
      BY <1>1
    <3> HIDE DEF L
    <3> QED BY <2>5, <3>1
  <2>7. Range(stunServers) \subseteq asked
    BY <1>1, <2>6 DEF Range
  <2> QED BY <2>7 DEF CInv
<1> QED BY <1>1, <1>2, <1>3

\* The session does not move the cursor of the STUN servers.
LEMMA CInvStays ==
  ASSUME CInv, UNCHANGED settingVars, UNCHANGED askedVars,
         serverCursor'["stun"] = serverCursor["stun"]
  PROVE  CInv'
BY DEF CInv, settingVars, askedVars, Behind, StunStart

LEMMA SearchStays ==
  ASSUME SInv, CInv, UNCHANGED settingVars, UNCHANGED askedVars,
         NEW kind \in {"http", "quic"},
         \/ Search(OrderedServerEndpoints(kind, keepServers))
         \/ /\ current \in Range(keepServers)
            /\ Search(OrderedAfter(kind, keepServers, current))
  PROVE  CInv'
<1>1. ListsInOrder /\ CursorsOK /\ Listed(keepServers)
  BY DEF SInv, ListsInOrder
<1>2. kind \in Kinds /\ "stun" \in Kinds \ {kind}
  BY DEF Kinds
<1>3. CASE Search(OrderedServerEndpoints(kind, keepServers))
  <2>1. MovesOnly(OrderedServerEndpoints(kind, keepServers), kind)
    BY <1>1, <1>2, OrderedShows
  <2>2. serverCursor'["stun"] = serverCursor["stun"]
    BY <1>2, <1>3, <2>1 DEF MovesOnly, Search
  <2> QED BY <2>2, CInvStays
<1>4. CASE /\ current \in Range(keepServers)
           /\ Search(OrderedAfter(kind, keepServers, current))
  <2>1. MovesOnly(OrderedAfter(kind, keepServers, current), kind)
    BY <1>1, <1>2, <1>4, AfterShows
  <2>2. serverCursor'["stun"] = serverCursor["stun"]
    BY <1>2, <1>4, <2>1 DEF MovesOnly, Search
  <2> QED BY <2>2, CInvStays
<1> QED BY <1>3, <1>4

LEMMA BatchCovers ==
  ASSUME SInv, CInv, NEW p \in Probes, SampleBegins(p)
  PROVE  CInv'
<1> DEFINE L == Len(stunServers)
           B == BatchSize
           search == OrderedServerEndpointBatch("stun", stunServers, B)
<1>1. /\ ListsInOrder /\ CursorsOK /\ Listed(stunServers)
      /\ L \in Nat \ {0} /\ B \in Nat \ {0} /\ silent \in Nat
      /\ DOMAIN stunServers = 1..L
  BY BatchAssumption, ListedFacts DEF SInv, ListsInOrder, CInv
<1>2. /\ asked' = asked \cup Range(search.order) /\ serverCursor' = search.cursor
      /\ silent' = IF silent < L THEN silent + 1 ELSE silent
      /\ stunServers' = stunServers
  BY DEF SampleBegins, ProbeUnchanged, settingVars
<1>3. Range(search.order) \subseteq Range(stunServers)
  <2>1. search.order \in Seq(Range(stunServers))
    BY <1>1, BatchShows
  <2> HIDE DEF search
  <2> QED BY <2>1 DEF Range
<1>4. silent' \in Nat /\ asked' \subseteq Range(stunServers)
  BY <1>1, <1>2, <1>3 DEF CInv
<1>5. "stun" \in Kinds /\ serverCursor["stun"] \in Nat
  BY <1>1 DEF Kinds, CursorsOK
<1>6. CASE L <= B
  <2>1. search = OrderedServerEndpoints("stun", stunServers)
    BY <1>6 DEF OrderedServerEndpointBatch
  <2>2. CASE L <= 1
    <3>1. search.order = stunServers
      BY <2>1, <2>2 DEF OrderedServerEndpoints
    <3>2. asked' = Range(stunServers)
      BY <1>2, <1>4, <3>1
    <3> QED BY <1>1, <1>2, <1>4, <1>6, <3>2 DEF CInv
  <2>3. CASE L > 1
    <3> DEFINE c == serverCursor["stun"] % L
    <3>1. search.order = RotateServerEndpoints(stunServers, c)
      BY <1>1, <2>1, <2>3 DEF OrderedServerEndpoints, CursorStart
    <3>2. c \in 0..(L - 1)
      BY <1>1, <1>5, Around
    <3> HIDE DEF c, search
    <3>3. /\ Len(search.order) = L /\ search.order \in Seq(Range(stunServers))
          /\ \A n \in 1..L : search.order[n] = stunServers[((c + n - 1) % L) + 1]
      BY <1>1, <3>1, <3>2, RotateShows
    <3>4. ASSUME NEW k \in 1..L PROVE stunServers[k] \in Range(search.order)
      <4> DEFINE n == IF k - 1 < c THEN k + L - c ELSE k - c
      <4>1. n \in 1..L /\ (c + n - 1 = k - 1 \/ c + n - 1 = k - 1 + L)
        BY <1>1, <3>2
      <4> HIDE DEF n
      <4>2. (c + n - 1) % L = k - 1
        <5>1. c + n - 1 \in Nat /\ k - 1 \in 0..(L - 1)
          BY <1>1, <3>2, <4>1
        <5> HIDE DEF L
        <5> QED BY <1>1, <4>1, <5>1
      <4>3. ((c + n - 1) % L) + 1 = k
        BY <1>1, <4>2
      <4>4. search.order[n] = stunServers[k]
        BY <3>3, <4>1, <4>3
      <4>5. n \in DOMAIN search.order
        BY <3>3, <4>1
      <4> QED BY <4>4, <4>5 DEF Range
    <3>5. Range(stunServers) \subseteq Range(search.order)
      BY <1>1, <3>4 DEF Range
    <3>6. asked' = Range(stunServers)
      BY <1>2, <1>4, <3>5
    <3> QED BY <1>1, <1>2, <1>4, <1>6, <3>6 DEF CInv
  <2> QED BY <1>1, <2>2, <2>3
<1>7. CASE L > B
  <2> DEFINE c == serverCursor["stun"] % L
             turned == RotateServerEndpoints(stunServers, c)
             d == (c + B) % L
             m == silent * B
  <2>1. /\ search.order = SubSeq(turned, 1, B)
        /\ search.cursor = [serverCursor EXCEPT !["stun"] = c + B]
    BY <1>1, <1>7 DEF OrderedServerEndpointBatch, CursorStart,
                      NextServerCursorStep, SetServerCursor
  <2>2. c \in 0..(L - 1) /\ c = StunStart
    BY <1>1, <1>5, Around DEF StunStart
  <2>3. StunStart' = d
    BY <1>1, <1>2, <1>5, <2>1 DEF StunStart, CursorsOK
  <2> HIDE DEF c, search
  <2>4. d \in 0..(L - 1)
    <3>1. c + B \in Nat
      BY <1>1, <2>2
    <3> QED BY <1>1, <3>1, Around
  <2> HIDE DEF d
  <2>11. Listed(stunServers) /\ c \in Nat
    BY <1>1, <2>2
  <2>5. /\ turned \in Seq(Range(stunServers)) /\ Len(turned) = L
        /\ \A n \in 1..L : turned[n] = stunServers[((c + n - 1) % L) + 1]
    BY <2>11, RotateShows
  <2> HIDE DEF turned
  <2>6. ASSUME NEW n \in 1..B
        PROVE  stunServers[((c + n - 1) % L) + 1] \in asked'
    <3>1. n \in 1..L /\ B \in 1..L
      BY <1>1, <1>7
    <3>2. /\ DOMAIN SubSeq(turned, 1, B) = 1..B
          /\ SubSeq(turned, 1, B)[n] = turned[n]
      BY <1>1, <2>5, <3>1
    <3>3. SubSeq(turned, 1, B)[n] \in Range(SubSeq(turned, 1, B))
      BY <3>2 DEF Range
    <3> QED BY <1>2, <2>1, <2>5, <3>1, <3>2, <3>3
  <2>7. m \in Nat /\ (silent + 1) * B = m + B
    BY <1>1
  <2>8. ASSUME NEW x \in 0..(L - 1),
               (IF x < d THEN d - x ELSE d + L - x) <= silent' * B
        PROVE  stunServers[x + 1] \in asked'
    <3>1. CASE silent < L
      <4>1. (IF x < d THEN d - x ELSE d + L - x) <= m + B
        BY <1>2, <2>7, <2>8, <3>1
      <4>2. B \in 1..(L - 1)
        BY <1>1, <1>7
      <4>3. \/ \E n \in 1..B : (c + n - 1) % L = x
            \/ (IF x < c THEN c - x ELSE c + L - x) <= m
        <5> HIDE DEF m, L, B
        <5> QED BY <1>1, <2>2, <2>4, <2>7, <4>1, <4>2, BatchExtendsArc DEF d
      <4>4. CASE \E n \in 1..B : (c + n - 1) % L = x
        <5>1. PICK n \in 1..B : (c + n - 1) % L = x
          BY <4>4
        <5> QED BY <2>6, <5>1
      <4>5. CASE (IF x < c THEN c - x ELSE c + L - x) <= m
        <5>1. Behind(x, StunStart) <= silent * BatchSize
          BY <2>2, <4>5 DEF Behind
        <5>2. stunServers[x + 1] \in asked
          BY <1>7, <5>1 DEF CInv
        <5> QED BY <1>2, <5>2
      <4> QED BY <4>3, <4>4, <4>5
    <3>2. CASE ~(silent < L)
      <4>1. silent * BatchSize >= Len(stunServers)
        <5>1. silent >= L
          BY <1>1, <3>2
        <5> HIDE DEF L, B
        <5>2. silent * B >= silent
          BY <1>1
        <5>3. silent * B \in Nat
          BY <1>1
        <5> DEFINE w == silent * B
        <5>4. w >= silent /\ w \in Nat
          BY <5>2, <5>3
        <5> HIDE DEF w
        <5>5. w >= L
          BY <1>1, <5>1, <5>4
        <5> QED BY <5>5 DEF w, L, B
      <4>2. asked = Range(stunServers)
        BY <1>1, <4>1, CInvCovers
      <4>3. x + 1 \in 1..L
        BY <1>1
      <4>4. stunServers[x + 1] \in Range(stunServers)
        BY <1>1, <4>3, ListedFacts
      <4> QED BY <1>2, <4>2, <4>4
    <3> QED BY <3>1, <3>2
  <2>9. ~(L <= B)
    BY <1>1, <1>7
  <2>10. \A x \in 0..(L - 1) :
           Behind(x, StunStart)' = IF x < d THEN d - x ELSE d + L - x
    BY <1>2, <2>3 DEF Behind
  <2> QED BY <1>2, <1>4, <2>8, <2>9, <2>10 DEF CInv
<1> QED BY <1>1, <1>6, <1>7

LEMMA AnswerCovers ==
  ASSUME SInv, BatchesOK, CInv, NEW p \in Probes, SampleAnswered(p)
  PROVE  CInv'
<1> DEFINE L == Len(stunServers)
<1>1. /\ silent' = 0 /\ asked' = {} /\ stunServers' = stunServers
  BY DEF SampleAnswered, ProbeUnchanged, settingVars
<1>2. L \in Nat \ {0} /\ BatchSize \in Nat \ {0}
  BY BatchAssumption, ListedFacts DEF SInv, ListsInOrder
<1>3. CursorsOK'
  BY ProbeSteps DEF SInv
<1>4. serverCursor'["stun"] \in Nat
  BY <1>3 DEF CursorsOK, Kinds
<1>5. StunStart' \in 0..(L - 1)
  <2>1. serverCursor'["stun"] % L \in 0..(L - 1)
    BY <1>2, <1>4, Around
  <2> QED BY <1>1, <2>1 DEF StunStart
<1>6. ASSUME NEW x \in 0..(L - 1) PROVE ~(Behind(x, StunStart)' <= 0)
  <2> DEFINE b == StunStart'
  <2>1. Behind(x, StunStart)' = IF x < b THEN b - x ELSE b + L - x
    BY <1>1 DEF Behind
  <2>2. b \in 0..(L - 1)
    BY <1>5
  <2> HIDE DEF b, L
  <2>3. ~((IF x < b THEN b - x ELSE b + L - x) <= 0)
    BY <1>2, <2>2
  <2> QED BY <2>1, <2>3
<1>7. silent' * BatchSize = 0
  BY <1>1, <1>2
<1> QED BY <1>1, <1>6, <1>7 DEF CInv

LEMMA CInvStep == SInv /\ BatchesOK /\ CInv /\ [Next]_vars => CInv'
<1> SUFFICES ASSUME SInv, BatchesOK, CInv, [Next]_vars PROVE CInv'
  OBVIOUS
<1>1. KeepAliveKind \in {"http", "quic"}
  BY DEF KeepAliveKind
<1>2. ASSUME serverCursor' = serverCursor, UNCHANGED settingVars, UNCHANGED askedVars
      PROVE  CInv'
  BY <1>2, CInvStays
<1>3. CASE Attempt
  <2>1. UNCHANGED settingVars /\ UNCHANGED askedVars
    BY <1>3 DEF Attempt
  <2>2. CASE serverCursor' = serverCursor
    BY <1>2, <2>1, <2>2
  <2>3. CASE Search(OrderedServerEndpoints("http", keepServers))
    BY <2>1, <2>3, SearchStays
  <2> QED BY <1>3, <2>2, <2>3 DEF Attempt
<1>4. CASE Listens
  <2>1. /\ UNCHANGED settingVars /\ UNCHANGED askedVars
        /\ Search(OrderedServerEndpoints("quic", keepServers))
    BY <1>4 DEF Listens
  <2> QED BY <2>1, SearchStays
<1>5. CASE SessionLost \/ RoundFails
  <2>1. UNCHANGED settingVars /\ UNCHANGED askedVars /\ place \in {"open", "reconnecting"}
    BY <1>5 DEF SessionLost, RoundFails
  <2>2. current \in Range(keepServers)
    BY <2>1 DEF SInv, OrderOK
  <2>3. \/ serverCursor' = serverCursor
        \/ Search(OrderedAfter(KeepAliveKind, keepServers, current))
    BY <1>5 DEF SessionLost, RoundFails
  <2>4. CASE serverCursor' = serverCursor
    BY <1>2, <2>1, <2>4
  <2>5. CASE Search(OrderedAfter(KeepAliveKind, keepServers, current))
    BY <1>1, <2>1, <2>2, <2>5, SearchStays
  <2> QED BY <2>3, <2>4, <2>5
<1>6. CASE ListenFails \/ DialSucceeds \/ DialFails \/ DialRefused
  BY <1>2, <1>6 DEF ListenFails, DialSucceeds, DialFails, DialRefused
<1>7. CASE RedialSucceeds \/ RedialFails \/ RedialRefused
  BY <1>2, <1>7 DEF RedialSucceeds, RedialFails, RedialRefused
<1>8. ASSUME NEW p \in Probes, SampleFails(p) \/ Blames(p) \/ ProbeEnds(p)
      PROVE  CInv'
  BY <1>2, <1>8 DEF SampleFails, Blames, ProbeEnds, ProbeUnchanged
<1>9. CASE UNCHANGED vars
  BY <1>2, <1>9 DEF vars
<1> QED BY <1>3, <1>4, <1>5, <1>6, <1>7, <1>8, <1>9, BatchCovers, AnswerCovers
        DEF Next

LEMMA InitCInv == Init => CInv
<1> SUFFICES ASSUME Init PROVE CInv
  OBVIOUS
<1> ListsInOrder
  BY InitInOrder
<1>1. silent = 0 /\ asked = {} /\ StunStart = 0 % Len(stunServers)
  BY DEF Init, CursorInit, Kinds, StunStart
<1>2. Len(stunServers) \in Nat \ {0} /\ BatchSize \in Nat \ {0}
  BY BatchAssumption, ListedFacts DEF ListsInOrder
<1>3. StunStart \in 0..(Len(stunServers) - 1)
  BY <1>1, <1>2, Around
<1>4. ASSUME NEW x \in 0..(Len(stunServers) - 1) PROVE ~(Behind(x, StunStart) <= 0)
  BY <1>2, <1>3 DEF Behind
<1>5. silent * BatchSize = 0
  BY <1>1, <1>2
<1> QED BY <1>1, <1>4, <1>5 DEF CInv

\* The batches of orderedServerEndpointBatch leave no STUN server out, whatever the size of a batch and the length of the
\* list, and however many goroutines draw from the one cursor.
THEOREM EveryServerIsAsked ==
  Spec => []BatchesCover
<1>1. SInv /\ CInv => BatchesCover
  BY CInvCovers DEF SInv, BatchesCover
<1> QED BY <1>1, InitSInv, InitCInv, SInvStep, CInvStep, PTL DEF Spec
=============================================================================
