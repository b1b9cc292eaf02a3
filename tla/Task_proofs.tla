----------------------------- MODULE Task_proofs -----------------------------
(***************************************************************************)
(* Proofs about Task, for every way to wait and eager and lazy tasks: type *)
(* correctness, the result given only after its publication, and the       *)
(* continuation of the caller kept and resumed once.                       *)
(***************************************************************************)
EXTENDS Task, TLAPS

After == {"ready", "notify", "continue", "final"}

\* The promise as the stage of the coroutine determines it.
PromiseOK ==
    /\ body \in After => m_awaiter = "sentinel"
    /\ m_awaiter = "sentinel" => body \in After \union {"undefined"}
    /\ m_ready <=> body \in {"notify", "continue", "final"}
    /\ body \in After \union {"exchange"} => m_data # "none"
    /\ body = "continue" => next = "caller"

\* The frame goes with the end of the caller's call, and only then can the
\* coroutine run into a destroyed one.
FrameOK ==
    /\ frame = "destroyed" <=> pc = "finished"
    /\ outcome # "none" <=> pc = "finished"
    /\ body = "undefined" => frame = "destroyed"

\* The caller's handle is in one place, and only while it is suspended.
HandleOK ==
    /\ m_awaiter = "caller" => pc = "suspended"
    /\ next = "caller" /\ body \in {"ready", "notify", "continue"} => pc = "suspended"
    /\ body \notin After => next = "noop" \/ body = "undefined"

\* A lazy task does not run before its caller asks for it.
LazyOK == lazy /\ pc = "call" => body = "suspended"

IInv == /\ TypeOK /\ PromiseOK /\ FrameOK /\ HandleOK /\ LazyOK
        /\ ResultAfterPublication /\ ContinuationKept

\* The invariant holds when the coroutine is created.
LEMMA IInvInit == Init => IInv
  BY UsesAssumption
     DEF Init, IInv, TypeOK, PromiseOK, FrameOK, HandleOK, LazyOK, After,
         ResultAfterPublication, ContinuationKept, AllUses

\* Each step of the coroutine preserves it: what the exchange of m_awaiter
\* gives to final_awaiter is the handle of a caller that is suspended.
LEMMA CoroutineStep == ASSUME IInv, Coroutine \/ Drop PROVE IInv'
  <1> USE DEF IInv, TypeOK, PromiseOK, FrameOK, HandleOK, LazyOK, After,
              ResultAfterPublication, ContinuationKept, const, promise
  <1>1. CASE Schedule    BY <1>1 DEF Schedule
  <1>2. CASE RunInline   BY <1>2 DEF RunInline
  <1>3. CASE RunOnWorker BY <1>3 DEF RunOnWorker
  <1>4. CASE Complete    BY <1>4 DEF Complete
  <1>5. CASE Exchange    BY <1>5 DEF Exchange
  <1>6. CASE StoreReady  BY <1>6 DEF StoreReady
  <1>7. CASE Notify      BY <1>7 DEF Notify
  <1>8. CASE Continue    BY <1>8 DEF Continue
  <1>9. CASE Dangle      BY <1>9 DEF Dangle
  <1>10. CASE Drop       BY <1>10 DEF Drop
  <1> QED BY <1>1, <1>2, <1>3, <1>4, <1>5, <1>6, <1>7, <1>8, <1>9, <1>10 DEF Coroutine

\* Each step of the caller preserves it: it leaves with the result only when
\* m_ready is set, and it suspends only if its handle is registered.
LEMMA CallerStep == ASSUME IInv, Caller PROVE IInv'
  <1> USE DEF IInv, TypeOK, PromiseOK, FrameOK, HandleOK, LazyOK, After,
              ResultAfterPublication, ContinuationKept, const, promise, Goto, Finish
  <1>1. CASE AwaitReady BY <1>1 DEF AwaitReady
  <1>2. CASE Suspend    BY <1>2 DEF Suspend
  <1>3. CASE Transfer   BY <1>3 DEF Transfer
  <1>4. CASE Get        BY <1>4 DEF Get
  <1>5. CASE Wait       BY <1>5 DEF Wait
  <1>6. CASE Steal      BY <1>6 DEF Steal
  <1>7. CASE Block      BY <1>7 DEF Block
  <1> QED BY <1>1, <1>2, <1>3, <1>4, <1>5, <1>6, <1>7 DEF Caller

\* The invariant holds throughout.
THEOREM Invariance == Spec => []IInv
  <1>1. IInv /\ [Next]_vars => IInv'
    <2> SUFFICES ASSUME IInv, [Next]_vars PROVE IInv'
      OBVIOUS
    <2>1. CASE Next
      BY <2>1, CoroutineStep, CallerStep DEF Next
    <2>2. CASE UNCHANGED vars
      BY <2>2 DEF vars, const, promise, IInv, TypeOK, PromiseOK, FrameOK, HandleOK, LazyOK,
                  ResultAfterPublication, ContinuationKept
    <2> QED BY <2>1, <2>2
  <1> QED BY IInvInit, <1>1, PTL DEF Spec

\* The promise, the coroutine and the caller stay in the stages the code has.
THEOREM TypeCorrect == Spec => []TypeOK
  <1>1. IInv => TypeOK
    BY DEF IInv
  <1> QED BY <1>1, Invariance, PTL

\* Whoever gets a value or an exception gets the one the body has left, after
\* final_awaiter has stored m_ready and is done with the frame.
THEOREM PublishedFirst == Spec => []ResultAfterPublication
  <1>1. IInv => ResultAfterPublication
    BY DEF IInv
  <1> QED BY <1>1, Invariance, PTL

\* Between the compare_exchange of await_suspend and the exchange of
\* final_awaiter no handle of a suspended caller is lost.
THEOREM NoContinuationLost == Spec => []ContinuationKept
  <1>1. IInv => ContinuationKept
    BY DEF IInv
  <1> QED BY <1>1, Invariance, PTL

\* ... and none is resumed that is not suspended, so none is resumed twice.
THEOREM ResumedOnlyOnce == Spec => []ResumedOnce
  <1>1. IInv => ResumedOnce
    BY DEF IInv, PromiseOK, HandleOK, ResumedOnce
  <1> QED BY <1>1, Invariance, PTL
=============================================================================
