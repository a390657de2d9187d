--------------------------- MODULE ServerRotation --------------------------
(***************************************************************************)
(* In which order a runner asks the servers of a list: one cursor per kind *)
(* of list, from which the next search starts.  Positions count from 0 as  *)
(* in the code.  A search is the order of the servers together with the    *)
(* cursors it leaves behind.                                               *)
(***************************************************************************)
EXTENDS ServerLists, Integers

VARIABLE serverCursor

Kinds == {"stun", "http", "quic"}
CursorInit == serverCursor = [kind \in Kinds |-> 0]

RotateServerEndpoints(endpoints, start) ==
  [n \in DOMAIN endpoints |->
     endpoints[((start + n - 1) % Len(endpoints)) + 1]]

\* -1 when the list does not hold the server.
IndexOfServerEndpoint(endpoints, target) ==
  SelectInSeq(endpoints, LAMBDA endpoint : SameServer(endpoint, target)) - 1

SetServerCursor(kind, next) == [serverCursor EXCEPT ![kind] = next]

CursorStart(kind, endpoints) == serverCursor[kind] % Len(endpoints)

\* Variant: the cursor moves on by one server whatever the batch.
StepByOne(kind, endpoints, step) ==
  SetServerCursor(kind, CursorStart(kind, endpoints) + 1)

NextServerCursorStep(kind, endpoints, step) ==
  SetServerCursor(kind, CursorStart(kind, endpoints) + step)

OrderedServerEndpoints(kind, endpoints) ==
  IF Len(endpoints) <= 1
  THEN [order |-> endpoints, cursor |-> serverCursor]
  ELSE [order |-> RotateServerEndpoints(endpoints, CursorStart(kind, endpoints)),
        cursor |-> NextServerCursorStep(kind, endpoints, 1)]

\* Variant: a reconnect round leaves the cursor alone.
OrderedInPassing(kind, endpoints, current) ==
  LET index == IndexOfServerEndpoint(endpoints, current)
  IN  [order |-> RotateServerEndpoints(endpoints, index + 1),
       cursor |-> serverCursor]

\* orderedServerEndpoints with `after'.
OrderedAfter(kind, endpoints, current) ==
  LET index == IndexOfServerEndpoint(endpoints, current)
      start == (index + 1) % Len(endpoints)
  IN  IF Len(endpoints) <= 1 \/ index < 0
      THEN OrderedServerEndpoints(kind, endpoints)
      ELSE [order |-> RotateServerEndpoints(endpoints, start),
            cursor |-> SetServerCursor(kind, start + 1)]

OrderedServerEndpointBatch(kind, endpoints, limit) ==
  IF Len(endpoints) <= limit THEN OrderedServerEndpoints(kind, endpoints)
  ELSE [order |-> SubSeq(RotateServerEndpoints(endpoints,
                           CursorStart(kind, endpoints)), 1, limit),
        cursor |-> NextServerCursorStep(kind, endpoints, limit)]

SetServerCursorAfter(kind, endpoints, endpoint) ==
  LET index == IndexOfServerEndpoint(endpoints, endpoint)
  IN  IF index < 0 THEN serverCursor ELSE SetServerCursor(kind, index + 1)
=============================================================================
