-------------------------- MODULE ServerListsProofs -------------------------
(***************************************************************************)
(* What ServerLists makes of the lists of servers it is given, for lists   *)
(* and groups of any length.  The loops of the code are recursive          *)
(* functions; that they have values, and what these are, is proved by      *)
(* induction, in the form of the least counterexample (WFMin).             *)
(***************************************************************************)
EXTENDS ServerLists, WellFoundedInduction, TLAPS

-----------------------------------------------------------------------------
\* A set with zero and all successors of its numbers holds all numbers.
LEMMA Induction ==
  ASSUME NEW T, 0 \in T, \A n \in Nat : n \in T => n + 1 \in T
  PROVE  Nat \subseteq T
<1> SUFFICES ASSUME Nat \ T # {} PROVE FALSE
  OBVIOUS
<1> DEFINE Less == OpToRel(<, Nat)
<1>1. \E x \in Nat \ T : \A y \in Nat \ T : <<y, x>> \notin Less
  <2>1. IsWellFoundedOn(Less, Nat)
    BY NatLessThanWellFounded
  <2> HIDE DEF Less
  <2> QED BY <2>1, WFMin
<1>2. PICK x \in Nat \ T : \A y \in Nat \ T : <<y, x>> \notin Less
  BY <1>1
<1>3. x - 1 \in Nat /\ x - 1 < x /\ (x - 1) + 1 = x
  OBVIOUS
<1>4. <<x - 1, x>> \in Less
  BY <1>3 DEF OpToRel
<1> QED BY <1>2, <1>3, <1>4

\* A loop of N rounds has a value after each of them.
Runs(f, m, start, body) ==
  f[0] = start /\ \A n \in 1..m : f[n] = body[<<f[n - 1], n>>]

Values(m, S, start, body) == \E f \in [0..m -> S] : Runs(f, m, start, body)

LEMMA AnotherRound ==
  ASSUME NEW N \in Nat, NEW S, NEW start \in S,
         NEW body \in [S \X (1..N) -> S],
         NEW m \in Nat, m + 1 <= N, Values(m, S, start, body)
  PROVE  Values(m + 1, S, start, body)
<1>1. PICK f \in [0..m -> S] : Runs(f, m, start, body)
  BY DEF Values
<1> DEFINE g == [n \in 0..(m + 1) |->
                   IF n = m + 1 THEN body[<<f[m], m + 1>>] ELSE f[n]]
<1>2. body[<<f[m], m + 1>>] \in S
  <2>1. f[m] \in S /\ m + 1 \in 1..N
    OBVIOUS
  <2> QED BY <2>1
<1>3. g \in [0..(m + 1) -> S]
  <2>1. ASSUME NEW n \in 0..(m + 1), n # m + 1 PROVE f[n] \in S
    BY <2>1
  <2> QED BY <1>2, <2>1
<1>4. g[m + 1] = body[<<f[m], m + 1>>] /\ \A n \in 0..m : g[n] = f[n]
  <2>1. m + 1 \in 0..(m + 1) /\ \A n \in 0..m : n \in 0..(m + 1) /\ n # m + 1
    OBVIOUS
  <2> QED BY <2>1
<1> HIDE DEF g
<1>5. g[0] = start
  BY <1>1, <1>4 DEF Runs
<1>6. ASSUME NEW n \in 1..(m + 1) PROVE g[n] = body[<<g[n - 1], n>>]
  <2>1. CASE n = m + 1
    BY <1>4, <2>1
  <2>2. CASE n # m + 1
    <3>1. n \in 0..m /\ n - 1 \in 0..m /\ n \in 1..m
      BY <2>2
    <3> QED BY <1>1, <1>4, <3>1 DEF Runs
  <2> QED BY <2>1, <2>2
<1> QED BY <1>3, <1>5, <1>6 DEF Values, Runs

LEMMA LoopHasValues ==
  ASSUME NEW N \in Nat, NEW S, NEW start \in S,
         NEW body \in [S \X (1..N) -> S]
  PROVE  \E f \in [0..N -> S] : Runs(f, N, start, body)
<1> DEFINE T == {m \in Nat : m <= N => Values(m, S, start, body)}
<1>1. 0 \in T
  <2>1. [n \in 0..0 |-> start] \in [0..0 -> S]
    OBVIOUS
  <2>2. Runs([n \in 0..0 |-> start], 0, start, body)
    BY DEF Runs
  <2> QED BY <2>1, <2>2 DEF Values
<1>2. ASSUME NEW m \in Nat, m \in T PROVE m + 1 \in T
  <2>1. m <= N => Values(m, S, start, body)
    BY <1>2
  <2>2. m + 1 <= N => m <= N
    OBVIOUS
  <2>3. ASSUME m + 1 <= N PROVE Values(m + 1, S, start, body)
    BY <2>1, <2>2, <2>3, AnotherRound
  <2> QED BY <2>3
<1>3. N \in T
  <2> HIDE DEF T
  <2> QED BY <1>1, <1>2, Induction
<1> QED BY <1>3 DEF Values

-----------------------------------------------------------------------------
\* The loop of NormalizeServerEndpoints by itself.
Entry(servers, port, n) == WithPort(servers[n], port)
Entries(servers, port) == {Entry(servers, port, n) : n \in DOMAIN servers}

Step(out, servers, port, n) ==
  IF servers[n].host = NoHost \/ Holds(out, Entry(servers, port, n))
  THEN out ELSE Append(out, Entry(servers, port, n))

Loop(servers, port) ==
  CHOOSE out : out = [n \in 0..Len(servers) |->
                        IF n = 0 THEN << >>
                        ELSE Step(out[n - 1], servers, port, n)]

LEMMA NormalizeIsLoop ==
  ASSUME NEW servers, NEW port
  PROVE  NormalizeServerEndpoints(servers, port)
           = Loop(servers, port)[Len(servers)]
BY DEF NormalizeServerEndpoints, Loop, Step, Entry

LEMMA LoopRuns ==
  ASSUME NEW servers, IsList(servers), NEW port
  PROVE  LET out == Loop(servers, port)
         IN  /\ out[0] = << >>
             /\ \A n \in 1..Len(servers) :
                  out[n] = Step(out[n - 1], servers, port, n)
<1> DEFINE N == Len(servers)
           S == Seq(Entries(servers, port))
           body == [x \in S \X (1..N) |-> Step(x[1], servers, port, x[2])]
<1>1. N \in Nat /\ DOMAIN servers = 1..N
  BY DEF IsList
<1>2. << >> \in S
  OBVIOUS
<1>3. body \in [S \X (1..N) -> S]
  <2>1. ASSUME NEW s \in S, NEW n \in 1..N PROVE Step(s, servers, port, n) \in S
    <3>1. Entry(servers, port, n) \in Entries(servers, port)
      BY <1>1 DEF Entries
    <3>2. Append(s, Entry(servers, port, n)) \in S
      BY <3>1
    <3> QED BY <3>2 DEF Step
  <2> QED BY <2>1
<1>4. ASSUME NEW s \in S, NEW n \in 1..N
      PROVE  body[<<s, n>>] = Step(s, servers, port, n)
  OBVIOUS
<1> HIDE DEF body, S
<1>5. PICK f \in [0..N -> S] : Runs(f, N, << >>, body)
  <2> HIDE DEF N
  <2> QED BY <1>1, <1>2, <1>3, LoopHasValues
<1> DEFINE Equation(g) == g = [n \in 0..N |-> IF n = 0 THEN << >>
                                  ELSE Step(g[n - 1], servers, port, n)]
<1>6. ASSUME NEW n \in 0..N
      PROVE  f[n] = IF n = 0 THEN << >> ELSE Step(f[n - 1], servers, port, n)
  <2>1. CASE n = 0
    BY <1>5, <2>1 DEF Runs
  <2>2. CASE n # 0
    <3>1. n \in 1..N /\ n - 1 \in 0..N
      BY <1>1, <2>2
    <3>2. f[n] = body[<<f[n - 1], n>>] /\ f[n - 1] \in S
      BY <1>5, <3>1 DEF Runs
    <3> QED BY <1>4, <2>2, <3>1, <3>2
  <2> QED BY <2>1, <2>2
<1>7. Equation(f)
  BY <1>6
<1>8. Equation(Loop(servers, port))
  BY <1>7 DEF Loop
<1> QED BY <1>1, <1>8

-----------------------------------------------------------------------------
\* What is kept of the first n servers: those with a host that no earlier one
\* is equal to, at[i] being where the i-th of them comes from.
Named(servers, k) == servers[k].host # NoHost

FirstAt(list, servers, port, k, i) ==
  /\ Named(servers, k) /\ list[i] = Entry(servers, port, k)
  /\ \A e \in 1..(k - 1) :
       Named(servers, e) => ~SameServer(Entry(servers, port, e), list[i])

InOrder(at, length) ==
  \A i, j \in 1..length : i < j => at[i] < at[j]

Firsts(list, servers, port, n) ==
  /\ list \in Seq(Entries(servers, port))
  /\ \E at \in [1..Len(list) -> 1..n] :
       /\ InOrder(at, Len(list))
       /\ \A i \in 1..Len(list) : FirstAt(list, servers, port, at[i], i)
  /\ \A k \in 1..n :
       Named(servers, k) => Holds(list, Entry(servers, port, k))

\* Nothing is added for a server without a host or one that is there.
LEMMA NothingAdded ==
  ASSUME NEW servers, NEW port, NEW n \in Nat, NEW out,
         Firsts(out, servers, port, n),
         servers[n + 1].host = NoHost
           \/ Holds(out, Entry(servers, port, n + 1))
  PROVE  Firsts(out, servers, port, n + 1)
<1>1. PICK at \in [1..Len(out) -> 1..n] :
        /\ InOrder(at, Len(out))
        /\ \A i \in 1..Len(out) : FirstAt(out, servers, port, at[i], i)
  BY DEF Firsts
<1>2. at \in [1..Len(out) -> 1..(n + 1)]
  <2>1. 1..n \subseteq 1..(n + 1)
    OBVIOUS
  <2> QED BY <2>1
<1>3. ASSUME NEW k \in 1..(n + 1), Named(servers, k)
      PROVE  Holds(out, Entry(servers, port, k))
  <2>1. CASE k = n + 1
    BY <1>3, <2>1 DEF Named
  <2>2. CASE k # n + 1
    <3>1. k \in 1..n
      BY <2>2
    <3> QED BY <1>3, <3>1 DEF Firsts
  <2> QED BY <2>1, <2>2
<1>4. out \in Seq(Entries(servers, port))
  BY DEF Firsts
<1> QED BY <1>1, <1>2, <1>3, <1>4 DEF Firsts

LEMMA HeldStaysHeld ==
  ASSUME NEW A, NEW s \in Seq(A), NEW e \in A, NEW server, Holds(s, server)
  PROVE  Holds(Append(s, e), server)
<1>1. PICK i \in 1..Len(s) : SameServer(s[i], server)
  BY DEF Holds
<1>2. i \in DOMAIN Append(s, e) /\ Append(s, e)[i] = s[i]
  OBVIOUS
<1> QED BY <1>1, <1>2 DEF Holds

\* Any other server comes last.
LEMMA ServerAdded ==
  ASSUME NEW servers, IsList(servers), NEW port,
         NEW n \in Nat, n + 1 <= Len(servers),
         NEW out, Firsts(out, servers, port, n), Named(servers, n + 1),
         ~Holds(out, Entry(servers, port, n + 1))
  PROVE  Firsts(Append(out, Entry(servers, port, n + 1)), servers, port, n + 1)
<1> DEFINE e == Entry(servers, port, n + 1)
           E == Entries(servers, port)
           L == Len(out)
           more == Append(out, e)
<1>1. PICK at \in [1..L -> 1..n] :
        /\ InOrder(at, L)
        /\ \A i \in 1..L : FirstAt(out, servers, port, at[i], i)
  BY DEF Firsts
<1>2. out \in Seq(E) /\ e \in E /\ L \in Nat
  <2>1. n + 1 \in DOMAIN servers
    BY DEF IsList
  <2> QED BY <2>1 DEF Entries, Firsts
<1>3. /\ more \in Seq(E) /\ Len(more) = L + 1 /\ more[L + 1] = e
      /\ \A i \in 1..L : more[i] = out[i]
  <2> HIDE DEF e, E
  <2> QED BY <1>2
<1> DEFINE to == [i \in 1..(L + 1) |-> IF i = L + 1 THEN n + 1 ELSE at[i]]
<1>4. /\ to[L + 1] = n + 1 /\ \A i \in 1..L : to[i] = at[i] /\ at[i] \in 1..n
      /\ to \in [1..(L + 1) -> 1..(n + 1)]
  <2> HIDE DEF L
  <2>1. \A i \in 1..L : at[i] \in 1..n
    BY <1>1
  <2>2. L + 1 \in 1..(L + 1) /\ to[L + 1] = n + 1
    BY <1>2
  <2>3. ASSUME NEW i \in 1..L PROVE to[i] = at[i]
    <3>1. i \in 1..(L + 1) /\ i # L + 1
      BY <1>2
    <3> QED BY <3>1
  <2>4. ASSUME NEW i \in 1..(L + 1)
        PROVE  (IF i = L + 1 THEN n + 1 ELSE at[i]) \in 1..(n + 1)
    <3>1. CASE i = L + 1
      BY <3>1
    <3>2. CASE i # L + 1
      <4>1. i \in 1..L
        BY <1>2, <3>2
      <4> QED BY <2>1, <3>2, <4>1
    <3> QED BY <3>1, <3>2
  <2>5. to \in [1..(L + 1) -> 1..(n + 1)]
    BY <2>4
  <2> HIDE DEF to
  <2> QED BY <2>1, <2>2, <2>3, <2>5
<1> HIDE DEF e, E, L, more, to
<1>5. InOrder(to, L + 1)
  <2> SUFFICES ASSUME NEW i \in 1..(L + 1), NEW j \in 1..(L + 1), i < j
               PROVE  to[i] < to[j]
    BY DEF InOrder
  <2>1. i \in 1..L
    BY <1>2
  <2>2. CASE j = L + 1
    BY <1>4, <2>1, <2>2
  <2>3. CASE j # L + 1
    <3>1. j \in 1..L
      BY <1>2, <2>3
    <3> QED BY <1>1, <1>4, <2>1, <3>1 DEF InOrder
  <2> QED BY <2>2, <2>3
<1>6. ASSUME NEW i \in 1..(L + 1)
      PROVE  FirstAt(more, servers, port, to[i], i)
  <2>1. CASE i = L + 1
    <3>1. ASSUME NEW k \in 1..n, Named(servers, k),
                 SameServer(Entry(servers, port, k), e)
          PROVE  FALSE
      <4>1. Holds(out, Entry(servers, port, k))
        BY <3>1 DEF Firsts
      <4>2. Holds(out, e)
        BY <3>1, <4>1 DEF Holds, SameServer
      <4> QED BY <4>2 DEF e
    <3>2. (n + 1) - 1 = n /\ to[i] = n + 1 /\ more[i] = e
      BY <1>3, <1>4, <2>1
    <3> QED BY <3>1, <3>2 DEF FirstAt, e
  <2>2. CASE i # L + 1
    <3>1. i \in 1..L
      BY <1>2, <2>2
    <3>2. to[i] = at[i] /\ more[i] = out[i]
      BY <1>3, <1>4, <3>1
    <3> QED BY <1>1, <3>1, <3>2 DEF FirstAt
  <2> QED BY <2>1, <2>2
<1>7. ASSUME NEW k \in 1..(n + 1), Named(servers, k)
      PROVE  Holds(more, Entry(servers, port, k))
  <2>1. CASE k = n + 1
    <3>1. more[L + 1] = Entry(servers, port, k) /\ L + 1 \in DOMAIN more
      BY <1>2, <1>3, <2>1 DEF e
    <3> QED BY <3>1 DEF Holds, SameServer
  <2>2. CASE k # n + 1
    <3>1. k \in 1..n
      BY <2>2
    <3>2. Holds(out, Entry(servers, port, k))
      BY <1>7, <3>1 DEF Firsts
    <3> QED BY <1>2, <3>2, HeldStaysHeld DEF more
  <2> QED BY <2>1, <2>2
<1>8. Firsts(more, servers, port, n + 1)
  BY <1>3, <1>4, <1>5, <1>6, <1>7 DEF Firsts, E
<1> QED BY <1>8 DEF more, e

\* normalizeServerEndpoints keeps, of servers that are equal once the default
\* port is filled in, the first one that has a host; those it keeps stay in
\* their order, and every server with a host is equal to one of them.
THEOREM KeepsTheFirst ==
  ASSUME NEW servers, IsList(servers), NEW port
  PROVE  Firsts(NormalizeServerEndpoints(servers, port), servers, port,
                Len(servers))
<1> DEFINE out == Loop(servers, port)
           N == Len(servers)
           T == {n \in Nat : n <= N => Firsts(out[n], servers, port, n)}
<1>1. N \in Nat
  BY DEF IsList
<1>2. /\ out[0] = << >>
      /\ \A n \in 1..N : out[n] = Step(out[n - 1], servers, port, n)
  BY LoopRuns
<1> HIDE DEF out, N
<1>3. Firsts(out[0], servers, port, 0)
  <2> DEFINE none == [i \in 1..0 |-> i]
  <2>1. out[0] \in Seq(Entries(servers, port)) /\ Len(out[0]) = 0
    BY <1>2
  <2>2. none \in [1..Len(out[0]) -> 1..0] /\ 1..Len(out[0]) = {}
    BY <2>1
  <2> HIDE DEF none
  <2> QED BY <2>1, <2>2 DEF Firsts, InOrder
<1>4. ASSUME NEW n \in Nat, n \in T PROVE n + 1 \in T
  <2> SUFFICES ASSUME n + 1 <= N
               PROVE  Firsts(out[n + 1], servers, port, n + 1)
    OBVIOUS
  <2>1. Firsts(out[n], servers, port, n)
    BY <1>1, <1>4
  <2>2. out[n + 1] = Step(out[n], servers, port, n + 1)
    <3>1. n + 1 \in 1..N /\ (n + 1) - 1 = n
      BY <1>1
    <3> QED BY <1>2, <3>1
  <2>3. CASE \/ servers[n + 1].host = NoHost
             \/ Holds(out[n], Entry(servers, port, n + 1))
    BY <2>1, <2>2, <2>3, NothingAdded DEF Step
  <2>4. CASE ~(\/ servers[n + 1].host = NoHost
               \/ Holds(out[n], Entry(servers, port, n + 1)))
    BY <2>1, <2>2, <2>4, ServerAdded DEF Step, Named, N
  <2> QED BY <2>3, <2>4
<1>5. N \in T
  <2>1. 0 \in T
    BY <1>3
  <2> HIDE DEF T
  <2> QED BY <1>1, <1>4, <2>1, Induction
<1> QED BY <1>1, <1>5, NormalizeIsLoop DEF out, N

LEMMA FirstsAreDistinct ==
  ASSUME NEW list, NEW servers, NEW port, NEW n \in Nat,
         Firsts(list, servers, port, n)
  PROVE  Distinct(list)
<1>1. PICK at \in [1..Len(list) -> 1..n] :
        /\ InOrder(at, Len(list))
        /\ \A i \in 1..Len(list) : FirstAt(list, servers, port, at[i], i)
  BY DEF Firsts
<1>2. Len(list) \in Nat /\ DOMAIN list = 1..Len(list)
  BY DEF Firsts
<1>3. ASSUME NEW i \in 1..Len(list), NEW j \in 1..Len(list), i < j
      PROVE  ~SameServer(list[i], list[j])
  <2>1. at[i] \in 1..(at[j] - 1)
    BY <1>1, <1>2, <1>3 DEF InOrder
  <2> QED BY <1>1, <2>1 DEF FirstAt
<1>4. ASSUME NEW i \in 1..Len(list), NEW j \in 1..Len(list),
             SameServer(list[i], list[j])
      PROVE  i = j
  <2>1. SameServer(list[j], list[i])
    BY <1>4 DEF SameServer
  <2> QED BY <1>2, <1>3, <1>4, <2>1
<1> QED BY <1>2, <1>4 DEF Distinct

LEMMA SequencesAreLists ==
  ASSUME NEW A, NEW s \in Seq(A)
  PROVE  IsList(s)
BY DEF IsList, Range

LEMMA FunctionsAreLists ==
  ASSUME NEW N \in Nat, NEW f, f = [n \in 1..N |-> f[n]]
  PROVE  IsList(f)
<1> DEFINE R == Range(f)
<1>1. \A n \in 1..N : f[n] \in R
  BY DEF Range
<1> HIDE DEF R
<1>2. f \in [1..N -> R]
  BY <1>1
<1>3. f \in Seq(R)
  BY <1>2
<1> QED BY <1>3 DEF R, IsList

\* What normalizeServerEndpoints returns is a list without repetitions.
LEMMA NormalizedInOrder ==
  ASSUME NEW servers, IsList(servers), NEW port
  PROVE  LET list == NormalizeServerEndpoints(servers, port)
         IN  IsList(list) /\ Distinct(list)
<1>1. Len(servers) \in Nat
  BY DEF IsList
<1>2. Firsts(NormalizeServerEndpoints(servers, port), servers, port,
             Len(servers))
  BY KeepsTheFirst
<1>3. NormalizeServerEndpoints(servers, port) \in Seq(Entries(servers, port))
  BY <1>2 DEF Firsts
<1> QED BY <1>1, <1>2, <1>3, FirstsAreDistinct, SequencesAreLists

-----------------------------------------------------------------------------
\* The loop of FlattenLegacyServerGroups.
Part(groups, port, n) == NormalizeServerEndpoints(groups[n].servers, port)

Flat(groups, port) ==
  CHOOSE out : out = [n \in 0..Len(groups) |->
                        IF n = 0 THEN << >>
                        ELSE out[n - 1] \o Part(groups, port, n)]

Grouped(groups) ==
  IsList(groups) /\ \A n \in DOMAIN groups : IsList(groups[n].servers)

LEMMA FlattenIsFlat ==
  ASSUME NEW groups, NEW port
  PROVE  FlattenLegacyServerGroups(groups, port)
           = NormalizeServerEndpoints(Flat(groups, port)[Len(groups)], port)
BY DEF FlattenLegacyServerGroups, Flat, Part

LEMMA FlatIsList ==
  ASSUME NEW groups, Grouped(groups), NEW port
  PROVE  IsList(Flat(groups, port)[Len(groups)])
<1> DEFINE N == Len(groups)
           A == UNION {Range(Part(groups, port, n)) : n \in 1..N}
           S == Seq(A)
           body == [x \in S \X (1..N) |-> x[1] \o Part(groups, port, x[2])]
<1>1. N \in Nat /\ DOMAIN groups = 1..N
  BY DEF IsList, Grouped
<1>2. << >> \in S
  OBVIOUS
<1>3. ASSUME NEW n \in 1..N PROVE Part(groups, port, n) \in S
  <2> DEFINE P == Part(groups, port, n)
  <2>1. IsList(P)
    BY <1>1, NormalizedInOrder DEF Part, Grouped
  <2>2. Range(P) \subseteq A
    OBVIOUS
  <2> HIDE DEF P, A
  <2>3. P \in Seq(A)
    BY <2>1, <2>2 DEF IsList
  <2> QED BY <2>3 DEF P
<1>4. body \in [S \X (1..N) -> S]
  <2> HIDE DEF A, N
  <2>1. ASSUME NEW s \in S, NEW n \in 1..N PROVE s \o Part(groups, port, n) \in S
    BY <1>3
  <2> HIDE DEF S
  <2> QED BY <2>1
<1>5. ASSUME NEW s \in S, NEW n \in 1..N
      PROVE  body[<<s, n>>] = s \o Part(groups, port, n)
  <2> HIDE DEF S, N
  <2> QED OBVIOUS
<1> HIDE DEF body, S
<1>6. PICK f \in [0..N -> S] : Runs(f, N, << >>, body)
  <2> HIDE DEF N
  <2> QED BY <1>1, <1>2, <1>4, LoopHasValues
<1> DEFINE Equation(g) == g = [n \in 0..N |-> IF n = 0 THEN << >>
                                  ELSE g[n - 1] \o Part(groups, port, n)]
<1>7. ASSUME NEW n \in 0..N
      PROVE  f[n] = IF n = 0 THEN << >> ELSE f[n - 1] \o Part(groups, port, n)
  <2>1. CASE n = 0
    BY <1>6, <2>1 DEF Runs
  <2>2. CASE n # 0
    <3>1. n \in 1..N /\ n - 1 \in 0..N
      BY <1>1, <2>2
    <3>2. f[n] = body[<<f[n - 1], n>>] /\ f[n - 1] \in S
      BY <1>6, <3>1 DEF Runs
    <3> QED BY <1>5, <2>2, <3>1, <3>2
  <2> QED BY <2>1, <2>2
<1>8. Equation(f)
  BY <1>7
<1> DEFINE out == Flat(groups, port)
<1>9. Equation(out)
  BY <1>8 DEF Flat
<1> DEFINE T == {n \in Nat : n <= N => out[n] \in S}
<1> HIDE DEF out
<1>10. 0 \in T
  BY <1>1, <1>2, <1>9
<1>11. ASSUME NEW n \in Nat, n \in T PROVE n + 1 \in T
  <2> SUFFICES ASSUME n + 1 <= N PROVE out[n + 1] \in S
    OBVIOUS
  <2>1. n + 1 \in 0..N /\ n + 1 \in 1..N /\ (n + 1) - 1 = n /\ n + 1 # 0
    BY <1>1
  <2>2. out[n + 1] = out[n] \o Part(groups, port, n + 1)
    BY <1>9, <2>1
  <2>3. out[n] \in S /\ Part(groups, port, n + 1) \in S
    BY <1>1, <1>3, <1>11, <2>1
  <2> HIDE DEF N, A
  <2> QED BY <2>2, <2>3 DEF S
<1>12. N \in T
  <2> HIDE DEF T
  <2> QED BY <1>1, <1>10, <1>11, Induction
<1>13. out[N] \in S
  BY <1>1, <1>12
<1> QED BY <1>13, SequencesAreLists DEF out, S

\* The groups of older versions are flattened into a list without repetitions.
LEMMA FlattenedInOrder ==
  ASSUME NEW groups, Grouped(groups), NEW port
  PROVE  LET list == FlattenLegacyServerGroups(groups, port)
         IN  IsList(list) /\ Distinct(list)
BY FlatIsList, FlattenIsFlat, NormalizedInOrder

LEMMA KeepAliveGroups ==
  ASSUME NEW groups, Grouped(groups), NEW quic
  PROVE  IsList(LegacyKeepAliveServers(groups, quic))
<1> DEFINE mine == [n \in DOMAIN groups |->
                      IF groups[n].quic = quic THEN groups[n]
                                               ELSE [servers |-> << >>]]
<1>1. Len(groups) \in Nat /\ DOMAIN groups = 1..Len(groups)
  BY DEF Grouped, IsList
<1>2. IsList(mine)
  <2>1. DOMAIN mine = 1..Len(groups) /\ mine = [n \in 1..Len(groups) |-> mine[n]]
    BY <1>1
  <2> HIDE DEF mine
  <2> QED BY <1>1, <2>1, FunctionsAreLists
<1>3. ASSUME NEW n \in DOMAIN mine PROVE IsList(mine[n].servers)
  <2>1. n \in DOMAIN groups /\ IsList(groups[n].servers)
    BY DEF Grouped
  <2>2. CASE groups[n].quic = quic
    BY <2>1, <2>2
  <2>3. CASE groups[n].quic # quic
    <3>1. mine[n] = [servers |-> << >>]
      BY <2>1, <2>3
    <3>2. IsList(<< >>)
      BY DEF IsList
    <3> QED BY <3>1, <3>2
  <2> QED BY <2>2, <2>3
<1>4. Grouped(mine)
  BY <1>2, <1>3 DEF Grouped
<1> HIDE DEF mine
<1>5. IsList(FlattenLegacyServerGroups(mine, IF quic THEN 443 ELSE 80))
  BY <1>4, FlattenedInOrder
<1> QED BY <1>5 DEF LegacyKeepAliveServers, mine

ListKinds == {"stun", "http", "quic"}

\* Whatever options are stored, loaded from a file of any version or sent by a
\* page, no list that the runners are given holds a server twice.
THEOREM StoredInOrder ==
  ASSUME NEW s, OptionsOK(s.options), NEW kind \in ListKinds
  PROVE  IsList(StoredLists(s)[kind]) /\ Distinct(StoredLists(s)[kind])
<1> DEFINE o == s.options
<1>1. IsList(o.stun) /\ IsList(o.http) /\ IsList(o.quic)
  BY DEF OptionsOK
<1>2. Grouped(o.stunGroups) /\ Grouped(o.keepAliveGroups)
  BY DEF OptionsOK, Grouped
<1> HIDE DEF o
<1> DEFINE w == WithGroups(o)
<1>3. IsList(w.stun) /\ IsList(w.http) /\ IsList(w.quic)
  <2>1. IsList(w.stun)
    BY <1>1, <1>2, FlattenedInOrder DEF WithGroups, OrElse
  <2>2. IsList(w.http)
    BY <1>1, <1>2, KeepAliveGroups DEF WithGroups, OrElse
  <2>3. IsList(w.quic)
    BY <1>1, <1>2, KeepAliveGroups DEF WithGroups, OrElse
  <2> QED BY <2>1, <2>2, <2>3
<1> DEFINE d == [k \in {"stun", "http", "quic"} |-> OrElse(w[k], Defaults[k])]
<1>4. IsList(d.stun) /\ IsList(d.http) /\ IsList(d.quic)
  <2> HIDE DEF w
  <2> QED BY <1>3, DefaultsAssumption DEF OrElse
<1>5. ASSUME NEW l, IsList(l.stun), IsList(l.http), IsList(l.quic)
      PROVE  IsList(Normalized(l)[kind]) /\ Distinct(Normalized(l)[kind])
  <2>1. CASE kind = "stun"
    <3>1. Normalized(l)[kind] = NormalizeServerEndpoints(l.stun, 3478)
      BY <2>1 DEF Normalized
    <3> QED BY <1>5, <3>1, NormalizedInOrder
  <2>2. CASE kind = "http"
    <3>1. Normalized(l)[kind] = NormalizeServerEndpoints(l.http, 80)
      BY <2>2 DEF Normalized
    <3> QED BY <1>5, <3>1, NormalizedInOrder
  <2>3. CASE kind = "quic"
    <3>1. Normalized(l)[kind] = NormalizeServerEndpoints(l.quic, 443)
      BY <2>3 DEF Normalized
    <3> QED BY <1>5, <3>1, NormalizedInOrder
  <2> QED BY <2>1, <2>2, <2>3 DEF ListKinds
<1>6. CASE s.loaded
  <2>1. StoredLists(s) = Normalized(d)
    BY <1>6 DEF StoredLists, LoadedLists, d, o
  <2> HIDE DEF d
  <2> QED BY <1>4, <1>5, <2>1
<1>7. CASE ~s.loaded
  <2>1. StoredLists(s) = Normalized(w)
    BY <1>7 DEF StoredLists, UpdatedLists, o
  <2> HIDE DEF w
  <2> QED BY <1>3, <1>5, <2>1
<1> QED BY <1>6, <1>7

LEMMA OneServerInOrder ==
  ASSUME NEW server
  PROVE  IsList(<<server>>) /\ Distinct(<<server>>)
<1>1. <<server>> \in Seq({server})
  OBVIOUS
<1>2. \A i, j \in DOMAIN <<server>> : i = j
  OBVIOUS
<1> QED BY <1>1, <1>2, SequencesAreLists DEF Distinct

\* An instance falls back to a server of its own if there is no list, so that
\* neither of its lists is ever empty, and neither holds a server twice.
THEOREM InstancesInOrder ==
  ASSUME NEW s, OptionsOK(s.options)
  PROVE  LET keep == KeepAliveServers(s, StoredLists(s))
             stun == StunServers(s, StoredLists(s))
         IN  /\ IsList(keep) /\ keep # << >> /\ Distinct(keep)
             /\ IsList(stun) /\ stun # << >> /\ Distinct(stun)
<1> DEFINE lists == StoredLists(s)
           Orderly(l) == IsList(l) /\ Distinct(l)
<1>1. Orderly(lists["quic"]) /\ Orderly(lists["http"]) /\ Orderly(lists["stun"])
  BY StoredInOrder DEF ListKinds
<1>2. ASSUME NEW l, Orderly(l), NEW server, NEW mode
      PROVE  LET list == OrElse(IF mode = "group" THEN l ELSE << >>, <<server>>)
             IN  Orderly(list) /\ list # << >>
  BY <1>2, OneServerInOrder DEF OrElse
<1> HIDE DEF lists, Orderly
<1>3. /\ Orderly(KeepAliveServers(s, lists))
      /\ KeepAliveServers(s, lists) # << >>
  <2> DEFINE kind == IF s.protocol = "udp" THEN "quic" ELSE "http"
             server == WithPort(s.server, IF s.protocol = "udp" THEN 443 ELSE 80)
  <2>1. Orderly(lists[kind])
    BY <1>1
  <2>2. KeepAliveServers(s, lists)
          = OrElse(IF s.keepAliveMode = "group" THEN lists[kind] ELSE << >>,
                   <<server>>)
    BY DEF KeepAliveServers
  <2> HIDE DEF kind, server
  <2> QED BY <1>2, <2>1, <2>2
<1>4. Orderly(StunServers(s, lists)) /\ StunServers(s, lists) # << >>
  BY <1>1, <1>2 DEF StunServers
<1> QED BY <1>3, <1>4 DEF Orderly, lists

=============================================================================
