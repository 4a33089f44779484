--------------------------- MODULE ServerLifecycle ---------------------------
(***************************************************************************)
(* The end of one process: how the stop hooks of the HTTP server, of the   *)
(* workers and of the database pool follow each other while requests and   *)
(* attempts are running.                                                   *)
(*                                                                         *)
(* Fx calls the hooks in the reverse order of their start, gives all of    *)
(* them together StopTimeout, and ends the process when that is over.      *)
(* http.Server is modelled from how it is used: Shutdown closes the        *)
(* listener and waits for the connections that have a request in progress; *)
(* a connection that it takes for unused may bring its request afterwards. *)
(* Transports only close idle connections when they are stopped and are    *)
(* left out.                                                               *)
(***************************************************************************)
EXTENDS Integers, Sequences

CONSTANTS
  Requests,        \* requests of clients
  Workers,         \* the workers in the order in which they are stopped
  RequestTimeout,  \* the deadline of a request
  WorkerTimeout,   \* WorkerTimeout[k]: what worker k takes to end once cancelled
  StopTimeout      \* of fx

ASSUME LifecycleAssumption ==
  /\ RequestTimeout \in Nat /\ StopTimeout \in Nat /\ Len(Workers) \in Nat
  /\ WorkerTimeout \in [1 .. Len(Workers) -> Nat]
  /\ Requests \cap (1 .. Len(Workers)) = {}

VARIABLES
  hook,      \* the hook that runs: 0 before the stop, then the server, the workers, the pool
  stopping,  \* the flag of the handler, under its mutex
  serving,   \* the listener is open
  request,   \* request[r]: what has become of r
  worker,    \* worker[k]: "working", "cancelled" or "done"
  pool,      \* "open" or "closed"
  left,      \* left[x]: the time left to the handler of a request or to a worker
  budget,    \* the time left to the hooks
  exited     \* the process has ended

vars == <<hook, stopping, serving, request, worker, pool, left, budget, exited>>

Hooks == Len(Workers) + 2
K == 1 .. Len(Workers)

Init ==
  /\ hook = 0 /\ stopping = FALSE /\ serving = TRUE /\ exited = FALSE
  /\ request = [r \in Requests |-> "none"]
  /\ worker = [k \in K |-> "working"]
  /\ pool = "open"
  /\ left = [x \in Requests \cup K |-> 0]
  /\ budget = StopTimeout

-----------------------------------------------------------------------------
(* Requests.                                                                *)

Become(r, s) == request' = [request EXCEPT ![r] = s]

\* A client is connected and sends its request.
Connect(r) ==
  /\ serving /\ request[r] = "none" /\ ~exited
  /\ Become(r, "connected")
  /\ UNCHANGED <<hook, stopping, serving, worker, pool, left, budget, exited>>

\* Variant: the handler does not ask whether the server is stopping.
AdmitAlways(r) ==
  /\ request[r] = "connected" /\ ~exited
  /\ Become(r, "handled") /\ left' = [left EXCEPT ![r] = RequestTimeout]
  /\ UNCHANGED <<hook, stopping, serving, worker, pool, budget, exited>>

\* The handler looks at the flag and joins the wait group, both under the mutex.
Admit(r) ==
  /\ request[r] = "connected" /\ ~exited
  /\ IF stopping THEN Become(r, "refused") /\ UNCHANGED left
     ELSE Become(r, "handled") /\ left' = [left EXCEPT ![r] = RequestTimeout]
  /\ UNCHANGED <<hook, stopping, serving, worker, pool, budget, exited>>

\* The handler returns, at its deadline at the latest, and leaves the wait group.
Answer(r) ==
  /\ request[r] = "handled" /\ ~exited
  /\ Become(r, "answered") /\ left' = [left EXCEPT ![r] = 0]
  /\ UNCHANGED <<hook, stopping, serving, worker, pool, budget, exited>>

Handled == {r \in Requests : request[r] = "handled"}

-----------------------------------------------------------------------------
(* The hooks.                                                               *)

\* A signal, or Serve that ended unexpectedly, starts the stop.  The hook of the server
\* sets the flag and calls Shutdown.
Stop ==
  /\ hook = 0 /\ hook' = 1
  /\ stopping' = TRUE /\ serving' = FALSE
  /\ UNCHANGED <<request, worker, pool, left, budget, exited>>

\* Variant: the connections are closed without waiting for their requests.
CloseServer ==
  /\ hook = 1 /\ hook' = 2 /\ ~exited
  /\ request' = [r \in Requests |-> IF r \in Handled THEN "cut" ELSE request[r]]
  /\ UNCHANGED <<stopping, serving, worker, pool, left, budget, exited>>

\* Shutdown and the wait for the group return.
ServerStopped ==
  /\ hook = 1 /\ hook' = 2 /\ ~exited
  /\ Handled = {}
  /\ UNCHANGED <<stopping, serving, request, worker, pool, left, budget, exited>>

\* The hook of a worker cancels its context.
Cancel(k) ==
  /\ hook = k + 1 /\ worker[k] = "working" /\ ~exited
  /\ worker' = [worker EXCEPT ![k] = "cancelled"]
  /\ left' = [left EXCEPT ![k] = WorkerTimeout[k]]
  /\ UNCHANGED <<hook, stopping, serving, request, pool, budget, exited>>

\* The loop of the worker ends, its attempt rolled back and its message released.
WorkerEnds(k) ==
  /\ worker[k] = "cancelled" /\ ~exited
  /\ worker' = [worker EXCEPT ![k] = "done"]
  /\ left' = [left EXCEPT ![k] = 0]
  /\ UNCHANGED <<hook, stopping, serving, request, pool, budget, exited>>

\* The hook has waited for it.
Awaited(k) ==
  /\ hook = k + 1 /\ worker[k] = "done" /\ ~exited
  /\ hook' = k + 2
  /\ UNCHANGED <<stopping, serving, request, worker, pool, left, budget, exited>>

\* The last hook closes the pool, and the process ends.
ClosePool ==
  /\ hook = Hooks /\ ~exited
  /\ pool' = "closed"
  /\ hook' = Hooks + 1
  /\ UNCHANGED <<stopping, serving, request, worker, left, budget, exited>>

Exit ==
  /\ hook = Hooks + 1 /\ ~exited
  /\ exited' = TRUE
  /\ UNCHANGED <<hook, stopping, serving, request, worker, pool, left, budget>>

\* The time is over: the remaining hooks are not called, and the process ends.
Expire ==
  /\ hook > 0 /\ budget = 0 /\ ~exited
  /\ exited' = TRUE
  /\ request' = [r \in Requests |-> IF r \in Handled THEN "cut" ELSE request[r]]
  /\ UNCHANGED <<hook, stopping, serving, worker, pool, left, budget>>

\* Whoever has a deadline has acted before it is passed.
Timed == Handled \cup {k \in K : worker[k] = "cancelled"}

\* The hooks themselves take no time.
Waits == \/ hook = 0 \/ (hook = 1 /\ Handled # {})
         \/ \E k \in K : hook = k + 1 /\ worker[k] = "cancelled"

Tick ==
  /\ ~exited /\ Waits
  /\ IF hook = 0 THEN Timed # {} ELSE budget > 0
  /\ \A x \in Timed : left[x] > 0
  /\ budget' = IF hook = 0 THEN budget ELSE budget - 1
  /\ left' = [x \in DOMAIN left |-> IF x \in Timed THEN left[x] - 1 ELSE 0]
  /\ UNCHANGED <<hook, stopping, serving, request, worker, pool, exited>>

HookStep == \/ ServerStopped \/ ClosePool \/ Exit \/ Expire
            \/ \E k \in K : Cancel(k) \/ Awaited(k)

Ended == exited /\ UNCHANGED vars

Next ==
  \/ \E r \in Requests : Connect(r) \/ Admit(r) \/ Answer(r)
  \/ Stop \/ HookStep
  \/ \E k \in K : WorkerEnds(k)
  \/ Tick
  \/ Ended

Spec == Init /\ [][Next]_vars

\* The hooks run, handlers and workers respect their deadlines, and time passes.
Fairness ==
  /\ WF_vars(HookStep) /\ WF_vars(Tick)
  /\ \A r \in Requests : WF_vars(Answer(r))
  /\ \A k \in K : WF_vars(WorkerEnds(k))

FairSpec == Spec /\ Fairness

-----------------------------------------------------------------------------
\* Nobody loses the database under its feet: the pool is closed only when no handler and
\* no worker runs any more, although a connection may bring a request after Shutdown has
\* returned, and wherever the time of the hooks runs out.
PoolOutlivesUsers ==
  pool = "closed" => Handled = {} /\ \A k \in K : worker[k] = "done"

\* A stop comes to its end, everything stopped or the time of fx used up; either way
\* no request that was let in is cut off, since its deadline is the shorter one and its
\* hook the first.
StopEnds ==
  hook = 1 ~> /\ exited
              /\ pool = "closed" \/ budget = 0
              /\ \A r \in Requests : request[r] # "cut"

\* A stop ends with everything stopped in its order ("the HTTP server waits for its
\* handlers, the workers are cancelled and awaited, and the pools close after their
\* users"), within the time that fx gives to all hooks together.
StopsOrderly == hook = 1 ~> exited /\ pool = "closed"
=============================================================================
