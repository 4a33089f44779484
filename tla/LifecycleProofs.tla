-------------------------- MODULE LifecycleProofs --------------------------
(***************************************************************************)
(* The order of a stop, for every number of requests and workers, every    *)
(* deadline and every StopTimeout: the pool is the last to go.             *)
(*                                                                         *)
(* The invariant says what each hook that has returned leaves behind.  Its *)
(* first part is what makes the others hold: once the stop has begun, the  *)
(* handler lets no request in, although connections still bring some.      *)
(*                                                                         *)
(* ClockInv keeps the account of the time: what the stop has taken and     *)
(* what the workers may still take are no more than one request and all    *)
(* the workers together may take.  Where StopTimeout is more than that,    *)
(* it never runs out.                                                      *)
(***************************************************************************)
EXTENDS ServerLifecycle, SumProofs

States == {"none", "connected", "handled", "answered", "refused", "cut"}

HookInv ==
  /\ hook \in Nat
  /\ request \in [Requests -> States]
  /\ worker \in [K -> {"working", "cancelled", "done"}]
  /\ hook >= 1 => stopping
  /\ hook >= 2 => Handled = {}
  /\ \A k \in K : hook >= k + 2 => worker[k] = "done"
  /\ pool = "closed" <=> hook = Hooks + 1

\* Once the server has stopped, nobody is let in, and handlers only leave.
LEMMA RequestsKeep ==
  ASSUME HookInv, NEW r \in Requests, Connect(r) \/ Admit(r) \/ Answer(r) PROVE HookInv'
<1>1. UNCHANGED <<hook, stopping, worker, pool>>
  BY DEF Connect, Admit, Answer
<1>2. request' \in [Requests -> States]
  BY DEF Connect, Admit, Answer, Become, HookInv, States
<1>3. hook >= 2 => Handled' = {}
  <2> SUFFICES ASSUME hook >= 2 PROVE Handled' = {}
    OBVIOUS
  <2>1. stopping /\ Handled = {}
    BY DEF HookInv
  <2>2. PICK s : request' = [request EXCEPT ![r] = s] /\ s # "handled"
    BY <2>1 DEF Connect, Admit, Answer, Become
  <2> QED BY <2>1, <2>2 DEF Handled, HookInv
<1> QED BY <1>1, <1>2, <1>3 DEF HookInv, Hooks

\* Each hook returns when those it is about have ended.
LEMMA HooksKeep ==
  ASSUME HookInv, ServerStopped \/ ClosePool \/ Exit \/ Stop PROVE HookInv'
<1>1. Len(Workers) \in Nat
  BY LifecycleAssumption
<1>2. CASE ServerStopped
  BY <1>1, <1>2 DEF ServerStopped, HookInv, Handled, Hooks, K
<1>3. CASE ClosePool
  BY <1>1, <1>3 DEF ClosePool, HookInv, Handled, Hooks, K
<1>4. CASE Exit
  BY <1>4 DEF Exit, HookInv, Handled
<1>5. CASE Stop
  BY <1>1, <1>5 DEF Stop, HookInv, Handled, Hooks, K
<1> QED BY <1>2, <1>3, <1>4, <1>5

\* A worker that has ended stays so.
LEMMA WorkersKeep ==
  ASSUME HookInv, NEW k \in K, Cancel(k) \/ WorkerEnds(k) \/ Awaited(k) PROVE HookInv'
<1>1. Len(Workers) \in Nat /\ k \in Nat
  BY LifecycleAssumption DEF K
<1>2. CASE Cancel(k)
  BY <1>1, <1>2 DEF Cancel, HookInv, Handled
<1>3. CASE WorkerEnds(k)
  BY <1>1, <1>3 DEF WorkerEnds, HookInv, Handled
<1>4. CASE Awaited(k)
  <2>1. hook' = k + 2 /\ hook = k + 1 /\ worker[k] = "done" /\ UNCHANGED <<stopping, request, worker, pool>>
    BY <1>4 DEF Awaited
  <2>2. k >= 1 /\ k <= Len(Workers)
    BY <1>1 DEF K
  <2>3. \A j \in K : hook' >= j + 2 => worker[j] = "done"
    <3>1. ASSUME NEW j \in K, hook' >= j + 2 PROVE worker[j] = "done"
      <4>1. j \in Nat /\ (j = k \/ hook >= j + 2)
        BY <1>1, <2>1, <3>1 DEF K
      <4> QED BY <2>1, <4>1 DEF HookInv
    <3> QED BY <3>1
  <2> QED BY <1>1, <2>1, <2>2, <2>3 DEF HookInv, Handled, Hooks
<1> QED BY <1>2, <1>3, <1>4

\* Time passes, or has passed.
LEMMA TimeKeeps == ASSUME HookInv, Tick \/ Expire PROVE HookInv'
<1>1. CASE Tick
  BY <1>1 DEF Tick, HookInv, Handled
<1>2. CASE Expire
  BY <1>2 DEF Expire, HookInv, Handled, States
<1> QED BY <1>1, <1>2

\* What a stop knows of its hooks holds always.
LEMMA InitHooks == Init => HookInv
BY LifecycleAssumption DEF Init, HookInv, Handled, States, Hooks, K

\* Every step keeps it.
LEMMA StepHooks == HookInv /\ [Next]_vars => HookInv'
<1> SUFFICES ASSUME HookInv, [Next]_vars PROVE HookInv'
  OBVIOUS
<1>1. CASE UNCHANGED vars
  BY <1>1 DEF vars, HookInv, Handled
<1>2. CASE Next
  BY <1>1, <1>2, RequestsKeep, HooksKeep, WorkersKeep, TimeKeeps DEF Next, HookStep, Ended
<1> QED BY <1>1, <1>2

\* The pool closes after its users: whoever got past Admit has been answered and every
\* worker has ended before ClosePool, at whatever moment the stop comes.
THEOREM PoolClosesLast == Spec => []PoolOutlivesUsers
<1>1. HookInv => PoolOutlivesUsers
  <2>1. Len(Workers) \in Nat
    BY LifecycleAssumption
  <2> QED BY <2>1 DEF HookInv, PoolOutlivesUsers, Hooks, K
<1> QED BY <1>1, InitHooks, StepHooks, PTL DEF Spec

-----------------------------------------------------------------------------
(* The time of the stop.                                                    *)

Elapsed == StopTimeout - budget

\* The time that a worker may still take.
Owed == [k \in K |-> IF worker[k] = "working" THEN WorkerTimeout[k]
                     ELSE IF worker[k] = "cancelled" THEN left[k] ELSE 0]

\* The time that the handlers and workers may take together: a request is not alone, but
\* all handlers run at the same time.
Needed == RequestTimeout + SumOver(WorkerTimeout, K)

ClockInv ==
  /\ budget \in Nat
  /\ left \in [Requests \cup K -> Nat]
  /\ hook = 0 => Elapsed = 0
  /\ hook <= 1 => Elapsed <= RequestTimeout
  /\ \A r \in Handled : Elapsed + left[r] <= RequestTimeout
  /\ \A k \in K : worker[k] # "working" => hook >= k + 1
  /\ Elapsed + SumOver(Owed, K) <= Needed

\* The sums are of natural numbers, and before the workers are stopped they are the same.
LEMMA OwedDefined ==
  ASSUME HookInv, ClockInv
  PROVE  /\ IsFiniteSet(K) /\ Owed \in [K -> Nat] /\ WorkerTimeout \in [K -> Nat]
         /\ SumOver(Owed, K) \in Nat /\ SumOver(WorkerTimeout, K) \in Nat
         /\ hook <= 1 => SumOver(Owed, K) = SumOver(WorkerTimeout, K)
<1>1. Len(Workers) \in Nat /\ WorkerTimeout \in [K -> Nat]
  BY LifecycleAssumption DEF K
<1>2. IsFiniteSet(K)
  BY <1>1, FS_Interval DEF K
<1>3. Owed \in [K -> Nat]
  BY <1>1 DEF Owed, ClockInv
<1>4. SumOver(Owed, K) \in Nat /\ SumOver(WorkerTimeout, K) \in Nat
  BY <1>1, <1>2, <1>3, SumNat
<1>5. ASSUME hook <= 1 PROVE SumOver(Owed, K) = SumOver(WorkerTimeout, K)
  <2>1. \A k \in K : worker[k] = "working"
    BY <1>1, <1>5 DEF K, HookInv, ClockInv
  <2>2. \A k \in K : Owed[k] = WorkerTimeout[k]
    BY <2>1 DEF Owed
  <2> QED BY <1>2, <2>2, SumCongruent
<1> QED BY <1>1, <1>2, <1>3, <1>4, <1>5

\* A step that takes no time and leaves the workers alone.
LEMMA RequestsKeepClock ==
  ASSUME HookInv, ClockInv, NEW r \in Requests, Connect(r) \/ Admit(r) \/ Answer(r)
  PROVE  ClockInv'
<1>1. UNCHANGED <<hook, worker, budget>>
  BY DEF Connect, Admit, Answer
<1>2. r \notin K /\ RequestTimeout \in Nat /\ StopTimeout \in Nat
  BY LifecycleAssumption DEF K
<1>3. /\ left' \in [Requests \cup K -> Nat]
      /\ \A k \in K : left'[k] = left[k]
  BY <1>2 DEF Connect, Admit, Answer, ClockInv
<1>4. Owed' = Owed
  BY <1>1, <1>3 DEF Owed
<1>5. \A q \in Handled' : Elapsed + left'[q] <= RequestTimeout
  <2>1. CASE Connect(r) \/ Answer(r)
    <3>1. \A q \in Handled' : q \in Handled /\ left'[q] = left[q]
      BY <2>1, <1>2 DEF Connect, Answer, Become, Handled, HookInv, ClockInv
    <3> QED BY <3>1 DEF ClockInv
  <2>2. CASE Admit(r)
    <3>1. \A q \in Handled' : q # r => q \in Handled /\ left'[q] = left[q]
      BY <2>2 DEF Admit, Become, Handled, HookInv, ClockInv
    <3>2. r \in Handled' => ~stopping /\ left'[r] = RequestTimeout
      BY <2>2 DEF Admit, Become, Handled, HookInv, ClockInv
    <3>3. ~stopping => Elapsed = 0
      BY DEF HookInv, ClockInv
    <3> QED BY <1>2, <3>1, <3>2, <3>3 DEF ClockInv
  <2> QED BY <2>1, <2>2
<1>6. Elapsed' = Elapsed
  BY <1>1 DEF Elapsed
<1> QED BY <1>1, <1>3, <1>4, <1>5, <1>6 DEF ClockInv, Needed

\* The hooks themselves take no time.
LEMMA HooksKeepClock ==
  ASSUME HookInv, ClockInv, ServerStopped \/ ClosePool \/ Exit \/ Expire \/ Stop
  PROVE  ClockInv'
<1>1. UNCHANGED <<worker, budget, left>> /\ Handled' \subseteq Handled
  BY DEF ServerStopped, ClosePool, Exit, Expire, Stop, Handled, HookInv
<1>2. Owed' = Owed /\ Elapsed' = Elapsed
  BY <1>1 DEF Owed, Elapsed
<1>3. Len(Workers) \in Nat /\ StopTimeout \in Nat /\ RequestTimeout \in Nat
  BY LifecycleAssumption
<1>4. /\ (hook' = 0 => hook = 0) /\ (hook' <= 1 => hook <= 1)
      /\ \A k \in K : hook >= k + 1 => hook' >= k + 1
  BY <1>3 DEF ServerStopped, ClosePool, Exit, Expire, Stop, HookInv, Hooks, K
<1> QED BY <1>1, <1>2, <1>3, <1>4 DEF ClockInv, Needed

\* A worker that is cancelled owes what it owed, and one that ends nothing any more.
LEMMA WorkersKeepClock ==
  ASSUME HookInv, ClockInv, NEW k \in K, Cancel(k) \/ WorkerEnds(k) \/ Awaited(k)
  PROVE  ClockInv'
<1>1. UNCHANGED <<request, budget>> /\ Handled' = Handled /\ Elapsed' = Elapsed
  BY DEF Cancel, WorkerEnds, Awaited, Handled, Elapsed
<1>2. /\ Len(Workers) \in Nat /\ k \in 1 .. Len(Workers) /\ k \notin Requests
      /\ StopTimeout \in Nat /\ RequestTimeout \in Nat /\ WorkerTimeout[k] \in Nat
  BY LifecycleAssumption DEF K
<1>3. /\ left' \in [Requests \cup K -> Nat] /\ hook' \in Nat /\ hook' >= hook
      /\ \A r \in Handled : left'[r] = left[r]
      /\ \A j \in K \ {k} : worker'[j] = worker[j] /\ left'[j] = left[j]
      /\ worker'[k] # "working" => hook' >= k + 1
  <2>1. CASE Cancel(k)
    BY <1>2, <2>1 DEF Cancel, HookInv, ClockInv, Handled
  <2>2. CASE WorkerEnds(k)
    BY <1>2, <2>2 DEF WorkerEnds, HookInv, ClockInv, Handled
  <2>3. CASE Awaited(k)
    BY <1>2, <2>3 DEF Awaited, HookInv, ClockInv, Handled
  <2> QED BY <2>1, <2>2, <2>3
<1>4. /\ IsFiniteSet(K) /\ Owed \in [K -> Nat] /\ SumOver(Owed, K) \in Nat
  BY OwedDefined
<1>5. Owed' \in [K -> Nat] /\ Owed'[k] <= Owed[k] /\ \A j \in K \ {k} : Owed'[j] = Owed[j]
  <2>1. WorkerTimeout \in [K -> Nat]
    BY OwedDefined
  <2>2. Owed' \in [K -> Nat] /\ \A j \in K \ {k} : Owed'[j] = Owed[j]
    BY <1>3, <2>1 DEF Owed
  <2>3. Owed'[k] <= Owed[k]
    BY <1>2, <1>4 DEF Owed, Cancel, WorkerEnds, Awaited, HookInv, ClockInv
  <2> QED BY <2>2, <2>3
<1>6. SumOver(Owed', K) = SumOver(Owed, K) + Owed'[k] - Owed[k]
  BY <1>4, <1>5, SumChange
<1>7. Elapsed \in Int /\ Elapsed + SumOver(Owed', K) <= Needed
  <2>1. Elapsed \in Int /\ Elapsed + SumOver(Owed, K) <= Needed /\ Needed \in Nat
    BY <1>2, OwedDefined DEF Elapsed, ClockInv, Needed
  <2>2. Owed'[k] \in Nat /\ Owed[k] \in Nat
    BY <1>4, <1>5
  <2> HIDE DEF Needed
  <2> QED BY <1>4, <1>5, <1>6, <2>1, <2>2
<1>8. (hook' = 0 => hook = 0) /\ (hook' <= 1 => hook <= 1)
  BY <1>3 DEF HookInv
<1>9. \A j \in K : worker'[j] # "working" => hook' >= j + 1
  <2>1. ASSUME NEW j \in K \ {k}, worker'[j] # "working" PROVE hook' >= j + 1
    BY <1>2, <1>3, <2>1 DEF HookInv, ClockInv, K
  <2> QED BY <1>3, <2>1
<1>10. Needed' = Needed
  BY DEF Needed
<1> QED BY <1>1, <1>3, <1>7, <1>8, <1>9, <1>10 DEF ClockInv

\* Time that passes is taken from a handler or from the one worker that is awaited.
LEMMA TickKeepsClock == ASSUME HookInv, ClockInv, Tick PROVE ClockInv'
<1>1. UNCHANGED <<hook, request, worker>> /\ Handled' = Handled
  BY DEF Tick, Handled
<1>2. /\ Len(Workers) \in Nat /\ StopTimeout \in Nat /\ RequestTimeout \in Nat
      /\ Requests \cap K = {}
  BY LifecycleAssumption DEF K
<1>3. /\ left' \in [Requests \cup K -> Nat]
      /\ \A x \in Timed : left'[x] = left[x] - 1 /\ left[x] > 0
  BY DEF Tick, ClockInv, Timed, Handled
<1>4. budget' \in Nat /\ budget' = IF hook = 0 THEN budget ELSE budget - 1
  BY DEF Tick, ClockInv
<1>5. /\ IsFiniteSet(K) /\ Owed \in [K -> Nat] /\ WorkerTimeout \in [K -> Nat]
      /\ SumOver(Owed, K) \in Nat /\ SumOver(WorkerTimeout, K) \in Nat
      /\ hook <= 1 => SumOver(Owed, K) = SumOver(WorkerTimeout, K)
  BY OwedDefined
<1>6. /\ \A r \in Handled : Elapsed' + left'[r] <= RequestTimeout
      /\ hook = 0 => Elapsed' = 0
      /\ hook <= 1 => Elapsed' <= RequestTimeout
  <2>1. ASSUME NEW r \in Handled PROVE Elapsed' + left'[r] <= RequestTimeout /\ left'[r] >= 0
    <3>1. left'[r] = left[r] - 1 /\ left[r] \in Nat /\ left'[r] \in Nat
      BY <1>3 DEF Timed, Handled, ClockInv
    <3>2. Elapsed + left[r] <= RequestTimeout
      BY DEF ClockInv
    <3> QED BY <1>2, <1>4, <3>1, <3>2 DEF Elapsed, ClockInv
  <2>2. CASE hook = 0
    BY <1>2, <1>4, <2>1, <2>2 DEF ClockInv, Elapsed
  <2>3. CASE hook = 1
    <3>1. \E r \in Handled : TRUE
      BY <2>3, <1>2 DEF Tick, Waits, K
    <3>2. PICK r \in Handled : left'[r] \in Nat
      BY <1>3, <3>1 DEF Handled
    <3> QED BY <1>2, <1>4, <2>1, <2>3, <3>2 DEF ClockInv, Elapsed
  <2> QED BY <2>1, <2>2, <2>3 DEF HookInv
<1>7. Elapsed' + SumOver(Owed', K) <= Needed
  <2>1. CASE hook <= 1
    <3>1. \A k \in K : worker[k] = "working"
      BY <1>2, <2>1 DEF K, HookInv, ClockInv
    <3>2. \A k \in K : Owed'[k] = WorkerTimeout[k]
      BY <1>1, <3>1 DEF Owed
    <3>3. SumOver(Owed', K) = SumOver(WorkerTimeout, K)
      BY <1>5, <3>2, SumCongruent
    <3> QED BY <1>2, <1>4, <1>5, <1>6, <2>1, <3>3 DEF Needed, Elapsed
  <2>2. CASE hook > 1
    <3>1. PICK k \in K : hook = k + 1 /\ worker[k] = "cancelled"
      BY <2>2 DEF Tick, Waits
    <3>2. \A j \in K \ {k} : worker[j] # "cancelled"
      BY <1>2, <3>1 DEF HookInv, ClockInv, K
    <3>3. left'[k] = left[k] - 1 /\ left[k] \in Nat /\ left'[k] \in Nat
      BY <1>3, <3>1 DEF Timed, ClockInv
    <3>4. Owed'[k] = Owed[k] - 1 /\ Owed[k] \in Nat /\ Owed'[k] \in Nat
      BY <1>1, <3>1, <3>3 DEF Owed
    <3>5. \A j \in K \ {k} : Owed'[j] = Owed[j]
      BY <1>1, <3>2 DEF Owed
    <3>6. \A j \in K : Owed[j] \in Int /\ Owed'[j] \in Int
      BY <1>5, <3>4, <3>5
    <3>7. SumOver(Owed', K) = SumOver(Owed, K) + Owed'[k] - Owed[k]
      BY <1>5, <3>5, <3>6, SumChange
    <3>8. Elapsed' = Elapsed + 1 /\ Elapsed \in Int
      BY <1>2, <1>4, <2>2 DEF Elapsed, ClockInv
    <3>9. Elapsed + SumOver(Owed, K) <= Needed /\ Needed \in Nat
      BY <1>2, <1>5 DEF ClockInv, Needed
    <3> HIDE DEF Needed, Elapsed
    <3> QED BY <1>5, <3>4, <3>7, <3>8, <3>9
  <2> QED BY <2>1, <2>2 DEF HookInv
<1>8. Needed' = Needed
  BY DEF Needed
<1> QED BY <1>1, <1>3, <1>4, <1>6, <1>7, <1>8 DEF ClockInv

\* In the beginning no time has passed.
LEMMA InitClock == Init => ClockInv
<1> SUFFICES ASSUME Init PROVE ClockInv OBVIOUS
<1>1. /\ Len(Workers) \in Nat /\ StopTimeout \in Nat /\ RequestTimeout \in Nat
      /\ WorkerTimeout \in [K -> Nat]
  BY LifecycleAssumption DEF K
<1>2. /\ budget \in Nat /\ left \in [Requests \cup K -> Nat] /\ Elapsed = 0
      /\ Handled = {} /\ hook = 0 /\ \A k \in K : worker[k] = "working"
  BY <1>1 DEF Init, Elapsed, Handled
<1>3. IsFiniteSet(K)
  BY <1>1, FS_Interval DEF K
<1>4. \A k \in K : Owed[k] = WorkerTimeout[k]
  BY <1>2 DEF Owed
<1>5. SumOver(Owed, K) = SumOver(WorkerTimeout, K) /\ SumOver(WorkerTimeout, K) \in Nat
  BY <1>1, <1>3, <1>4, SumCongruent, SumNat
<1> QED BY <1>1, <1>2, <1>5 DEF ClockInv, Needed

\* Every step keeps the account of the time.
LEMMA StepClock == HookInv /\ ClockInv /\ [Next]_vars => ClockInv'
<1> SUFFICES ASSUME HookInv, ClockInv, [Next]_vars PROVE ClockInv'
  OBVIOUS
<1>1. CASE UNCHANGED vars
  <2>1. /\ UNCHANGED <<hook, worker, budget, left>> /\ Handled' = Handled
        /\ Owed' = Owed /\ Elapsed' = Elapsed /\ Needed' = Needed
    BY <1>1 DEF vars, Handled, Owed, Elapsed, Needed
  <2> QED BY <2>1 DEF ClockInv
<1>2. CASE Next
  BY <1>1, <1>2, RequestsKeepClock, HooksKeepClock, WorkersKeepClock, TickKeepsClock
     DEF Next, HookStep, Ended
<1> QED BY <1>1, <1>2

\* No request that was let in is cut off.
NoneCut == \A r \in Requests : request[r] # "cut"

\* A process that has ended has stopped everything in its order.
EndedOrderly == exited => /\ pool = "closed" /\ Handled = {} /\ NoneCut
                          /\ \A k \in K : worker[k] = "done"

\* Where fx gives the hooks more than the deadline of a request, Expire finds no handler:
\* whoever got past Admit is answered, whatever the workers take (the safety that
\* StopEnds relies on).
THEOREM RequestsAreAnswered == Spec => [](RequestTimeout < StopTimeout => NoneCut)
<1> DEFINE Inv == RequestTimeout < StopTimeout => NoneCut
<1>1. Init => Inv
  BY DEF Init, NoneCut
<1>2. HookInv /\ ClockInv /\ Inv /\ [Next]_vars => Inv'
  <2> SUFFICES ASSUME HookInv, ClockInv, NoneCut, [Next]_vars, RequestTimeout < StopTimeout
               PROVE  NoneCut'
    OBVIOUS
  <2>1. CASE Expire
    <3>1. StopTimeout \in Nat /\ RequestTimeout \in Nat /\ budget = 0
      BY <2>1, LifecycleAssumption DEF Expire
    <3>2. ASSUME NEW r \in Handled PROVE FALSE
      <4>1. left[r] \in Nat /\ Elapsed + left[r] <= RequestTimeout
        BY DEF ClockInv, Handled
      <4> QED BY <3>1, <4>1 DEF Elapsed
    <3> QED BY <2>1, <3>2 DEF Expire, NoneCut
  <2>2. ASSUME NEW r \in Requests, Connect(r) \/ Admit(r) \/ Answer(r) PROVE NoneCut'
    BY <2>2 DEF Connect, Admit, Answer, Become, NoneCut, HookInv
  <2>3. CASE request' = request
    BY <2>3 DEF NoneCut
  <2> QED BY <2>1, <2>2, <2>3 DEF Next, HookStep, vars, Stop, ServerStopped, ClosePool, Exit,
                                  Cancel, Awaited, WorkerEnds, Tick, Ended
<1> QED BY <1>1, <1>2, InitHooks, StepHooks, InitClock, StepClock, PTL DEF Spec

\* Where fx gives the hooks more than a request and all the workers may take together,
\* the process never ends before everything is stopped in its order.  (The fifteen seconds
\* of app.Run are less than that, see StopsOrderly.)
THEOREM TimeSuffices == Spec => [](Needed < StopTimeout => EndedOrderly)
<1> DEFINE Inv == Needed < StopTimeout => NoneCut /\ (exited => pool = "closed")
<1>1. Init => Inv
  BY DEF Init, NoneCut
<1>2. HookInv /\ ClockInv /\ Inv /\ [Next]_vars => Inv'
  <2> SUFFICES ASSUME HookInv, ClockInv, NoneCut, exited => pool = "closed", [Next]_vars,
                      Needed < StopTimeout
               PROVE  NoneCut' /\ (exited' => pool' = "closed")
    BY DEF Needed
  <2>1. ~Expire
    <3>1. /\ SumOver(Owed, K) \in Nat /\ Elapsed + SumOver(Owed, K) <= Needed
          /\ StopTimeout \in Nat /\ budget \in Nat /\ Needed \in Nat
      BY OwedDefined, LifecycleAssumption DEF ClockInv, Needed
    <3> HIDE DEF Needed
    <3>2. budget # 0
      BY <3>1 DEF Elapsed
    <3> QED BY <3>2 DEF Expire
  <2>2. ASSUME NEW r \in Requests, Connect(r) \/ Admit(r) \/ Answer(r)
        PROVE  NoneCut' /\ UNCHANGED <<pool, exited>>
    BY <2>2 DEF Connect, Admit, Answer, Become, NoneCut, HookInv
  <2>3. CASE request' = request /\ UNCHANGED <<pool, exited>>
    BY <2>3 DEF NoneCut
  <2>4. CASE ClosePool
    BY <2>4 DEF ClosePool, NoneCut
  <2>5. CASE Exit
    BY <2>5 DEF Exit, NoneCut, HookInv
  <2> QED BY <2>1, <2>2, <2>3, <2>4, <2>5 DEF Next, HookStep, vars, Stop, ServerStopped,
                                              Cancel, Awaited, WorkerEnds, Tick, Ended
<1>3. HookInv /\ Inv => (Needed < StopTimeout => EndedOrderly)
  <2>1. Len(Workers) \in Nat
    BY LifecycleAssumption
  <2> QED BY <2>1 DEF HookInv, EndedOrderly, Hooks, K
<1> QED BY <1>1, <1>2, <1>3, InitHooks, StepHooks, InitClock, StepClock, PTL DEF Spec
=============================================================================
