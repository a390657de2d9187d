------------------------------ MODULE Sessions ------------------------------
(***************************************************************************)
(* The login sessions of the server, each a token with a time at which it  *)
(* ends, and the cookie of one browser.  Every accepted request moves the  *)
(* end on; the cookie keeps the age it was given at the login.  Each       *)
(* operator is one critical section of the session store.                  *)
(***************************************************************************)
EXTENDS Integers

CONSTANTS Tokens,     \* random, so never one that is still around
          NoToken,
          Lifetime    \* SessionHours, in ticks of the clock

ASSUME LifetimeAssumption == Lifetime \in Nat \ {0}
ASSUME NoTokenAssumption == NoToken \notin Tokens

VARIABLES
  items,      \* s.items: the ticks each token has left
  cookie, cookieLeft,
  ended       \* history: the tokens whose session has ended

sessionVars == <<items, cookie, cookieLeft, ended>>

Absent == -1
Alive(token) == items[token] > 0

SessionsTypeOK ==
  /\ items \in [Tokens -> {Absent} \cup 0..Lifetime]
  /\ cookie \in Tokens \cup {NoToken} /\ cookieLeft \in 0..Lifetime
  /\ cookie = NoToken <=> cookieLeft = 0
  /\ ended \subseteq Tokens

SessionsInit ==
  /\ items = [token \in Tokens |-> Absent]
  /\ cookie = NoToken /\ cookieLeft = 0 /\ ended = {}

-----------------------------------------------------------------------------
\* create, with cleanupLocked.  The cookie follows with the answer.
Create(token) ==
  /\ items[token] = Absent /\ token # cookie
  /\ items' = [other \in Tokens |->
                 IF other = token THEN Lifetime
                 ELSE IF items[other] = 0 THEN Absent ELSE items[other]]
  /\ ended' = ended \ {token}
  /\ UNCHANGED <<cookie, cookieLeft>>

\* Variant: an entry that is still there is good enough.
ValidIfThere(token) ==
  items' = [items EXCEPT ![token] = IF @ = Absent THEN Absent ELSE Lifetime]

\* valid: renew a session that has not ended, forget one that has.
Valid(token) ==
  items' = [items EXCEPT ![token] = IF @ > 0 THEN Lifetime ELSE Absent]

\* What valid answers to a request with that cookie.
Serves(token) == token # NoToken /\ Valid(token) /\ items'[token] = Lifetime
Refuses(token) ==
  IF token = NoToken THEN UNCHANGED items
                     ELSE Valid(token) /\ items'[token] = Absent

\* clear; the cookie goes when the answer arrives.
Clear(token) ==
  /\ items' = [items EXCEPT ![token] = Absent]
  /\ ended' = ended \cup {token}

SetCookie(token) ==
  cookie' = token /\ cookieLeft' = IF token = NoToken THEN 0 ELSE Lifetime

\* Time passes, on the server and in the browser.
Tick ==
  /\ items' = [token \in Tokens |->
                 IF items[token] > 0 THEN items[token] - 1 ELSE items[token]]
  /\ ended' = ended \cup {token \in Tokens : items'[token] = 0}
  /\ cookieLeft > 0 \/ \E token \in Tokens : Alive(token)
  /\ IF cookieLeft > 1 THEN cookieLeft' = cookieLeft - 1 /\ UNCHANGED cookie
                       ELSE SetCookie(NoToken)
=============================================================================
