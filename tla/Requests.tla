------------------------------- MODULE Requests -------------------------------
(***************************************************************************)
(* HTTP requests.  Go's net/http runs every request in a goroutine of its  *)
(* own, and a handler issues its SQL statements one after the other,       *)
(* almost never in a transaction.  A request is a worker: pc names the     *)
(* next statement of its handler, req holds what it was called with and    *)
(* what it has read so far.  With one worker requests run one at a time;   *)
(* with several their statements interleave.                               *)
(***************************************************************************)
CONSTANT Workers

VARIABLES pc, req

workers == <<pc, req>>

Idle(w) == pc[w] = "idle"

\* A request that is a single statement needs a free worker and no pc.
SomeWorkerFree == \E w \in Workers : Idle(w)

At(w, label) == pc[w] = label

Step(w, label, r) ==
  /\ pc' = [pc EXCEPT ![w] = label]
  /\ req' = [req EXCEPT ![w] = r]

Start(w, first, r) == Idle(w) /\ Step(w, first, r)

Goto(w, label) ==
  /\ pc' = [pc EXCEPT ![w] = label]
  /\ UNCHANGED req
=============================================================================
