-------------------------- MODULE AsyncEvent_proofs --------------------------
(***************************************************************************)
(* Proofs about AsyncEvent, for any coroutines and signallers and any      *)
(* expected count: type correctness, every handle kept once and only while *)
(* its coroutine is suspended, and nobody past the barrier early.          *)
(***************************************************************************)
EXTENDS AsyncEvent, SequenceTheorems, TLAPS

\* What a signaller still has to resume is there because the count was reached,
\* and a barrier is never stopped.
BatchOK ==
    \A s \in Signallers :
        /\ batch[s] # <<>> => at[s] = "resuming"
        /\ kind = "barrier" => at[s] # "drop"
        /\ kind = "barrier" /\ at[s] \in {"take", "resuming"} => count >= Expected

IInv == TypeOK /\ HandlesAreSuspended /\ BatchOK

\* The indices and elements of the three ways in which a list of handles
\* changes: a handle is put behind it, put before it, or taken from its front.
LEMMA ListOps ==
    ASSUME NEW S, NEW q \in Seq(S), NEW x \in S
    PROVE  /\ Append(q, x) \in Seq(S)
           /\ DOMAIN Append(q, x) = 1 .. Len(q) + 1
           /\ \A i \in 1 .. Len(q) + 1 : Append(q, x)[i] = IF i = Len(q) + 1 THEN x ELSE q[i]
           /\ <<x>> \o q \in Seq(S)
           /\ DOMAIN (<<x>> \o q) = 1 .. Len(q) + 1
           /\ \A i \in 1 .. Len(q) + 1 : (<<x>> \o q)[i] = IF i = 1 THEN x ELSE q[i - 1]
           /\ DOMAIN q = 1 .. Len(q) /\ Len(q) \in Nat
           /\ \A i \in DOMAIN q : q[i] \in S
  OBVIOUS

\* The indices of a list are numbers.
LEMMA Domain ==
    ASSUME NEW S, NEW q \in Seq(S)
    PROVE  DOMAIN q = 1 .. Len(q) /\ Len(q) \in Nat
  OBVIOUS

\* The front of a list of handles is taken.
LEMMA TailOps ==
    ASSUME NEW S, NEW q \in Seq(S), q # <<>>
    PROVE  /\ Tail(q) \in Seq(S)
           /\ DOMAIN Tail(q) = 1 .. Len(q) - 1
           /\ \A i \in 1 .. Len(q) - 1 : Tail(q)[i] = q[i + 1]
           /\ Head(q) = q[1] /\ Head(q) \in S
           /\ DOMAIN q = 1 .. Len(q) /\ Len(q) \in Nat /\ 1 \in DOMAIN q
  OBVIOUS

\* The invariant holds before anybody awaits or signals.
LEMMA IInvInit == Init => IInv
  BY EventAssumption
     DEF Init, IInv, TypeOK, HandlesAreSuspended, BatchOK, Own

\* A step of a coroutine keeps every variable in its range.
LEMMA TypeAwait == ASSUME IInv, NEW c \in Coroutines, Await(c) PROVE TypeOK'
  <1> USE EventAssumption DEF IInv, TypeOK, Goto, event, coro, sign, Own
  <1>1. CASE AwaitReady(c)  BY <1>1 DEF AwaitReady
  <1>2. CASE PushAwaiter(c) BY <1>2, ListOps DEF PushAwaiter
  <1>3. CASE Enlist(c)
    <2>1. list \in Seq(Coroutines) /\ list' \in {list, Append(list, c)}
      BY <1>3 DEF Enlist
    <2>2. Append(list, c) \in Seq(Coroutines)
      BY <2>1, ListOps
    <2>3. list' \in Seq(Coroutines)
      BY <2>1, <2>2
    <2> QED BY <1>3, <2>3 DEF Enlist
  <1>4. CASE AwaitResume(c) BY <1>4 DEF AwaitResume
  <1>5. CASE End(c)         BY <1>5 DEF End
  <1> QED BY <1>1, <1>2, <1>3, <1>4, <1>5 DEF Await

\* A step of a signaller keeps every variable in its range.
LEMMA TypeSignal == ASSUME IInv, NEW s \in Signallers, Signal(s) PROVE TypeOK'
  <1> USE EventAssumption DEF IInv, TypeOK, Goto, event, coro, sign, Own, Called, Enter
  <1>0. calls[s] > 0 => [calls EXCEPT ![s] = @ - 1] \in [Signallers -> 0 .. Calls]
    OBVIOUS
  <1>1. CASE SetFlag(s)  BY <1>0, <1>1 DEF SetFlag
  <1>2. CASE Arrive(s)   BY <1>0, <1>2 DEF Arrive
  <1>3. CASE Take(s)     BY <1>3 DEF Take
  <1>4. CASE Resume(s)
    <2>1. batch[s] \in Seq(Coroutines) /\ batch[s] # <<>>
      BY <1>4 DEF Resume
    <2>2. Tail(batch[s]) \in Seq(Coroutines) /\ Head(batch[s]) \in Coroutines
      BY <2>1, TailOps
    <2> QED BY <1>4, <2>2 DEF Resume
  <1>5. CASE Return(s)   BY <1>5 DEF Return
  <1>6. CASE StopFlag(s) BY <1>0, <1>6 DEF StopFlag
  <1>7. CASE Drop(s)     BY <1>7 DEF Drop
  <1>8. CASE Reset(s)    BY <1>0, <1>8 DEF Reset
  <1> QED BY <1>1, <1>2, <1>3, <1>4, <1>5, <1>6, <1>7, <1>8 DEF Signal

\* A coroutine that gives its handle to the list, and has none out, keeps the
\* handles apart; so does one that is not suspended before and after its step.
LEMMA HandleOut ==
    ASSUME IInv, NEW c \in Coroutines, pc[c] # "suspended",
           batch' = batch,
           \/ list' = list /\ \E l : pc' = [pc EXCEPT ![c] = l]
           \/ list' = <<c>> \o list /\ pc' = [pc EXCEPT ![c] = "suspended"]
           \/ list' = Append(list, c) /\ pc' = [pc EXCEPT ![c] = "suspended"]
    PROVE  HandlesAreSuspended'
  <1>1. /\ DOMAIN list = 1 .. Len(list) /\ Len(list) \in Nat
        /\ \A i \in DOMAIN list : list[i] \in Coroutines /\ list[i] # c
        /\ \A s \in Signallers : \A i \in DOMAIN batch[s] :
              batch[s][i] \in Coroutines /\ batch[s][i] # c
    BY ListOps DEF IInv, TypeOK, HandlesAreSuspended
  <1>2. pc \in [Coroutines -> {"run", "suspend", "suspended", "resume", "finished"}]
    BY DEF IInv, TypeOK
  <1>3. \A d \in Coroutines \ {c} : pc'[d] = pc[d]
    BY <1>2
  <1>4. ASSUME NEW i \in DOMAIN list'
        PROVE  \/ list'[i] = c /\ pc'[c] = "suspended"
               \/ \E j \in DOMAIN list : list'[i] = list[j]
    <2>0. list \in Seq(Coroutines)
      BY DEF IInv, TypeOK
    <2>1. CASE list' = list
      BY <1>4, <2>1
    <2>2. CASE list' = <<c>> \o list /\ pc' = [pc EXCEPT ![c] = "suspended"]
      <3>1. /\ i \in 1 .. Len(list) + 1
            /\ list'[i] = IF i = 1 THEN c ELSE list[i - 1]
        BY <1>4, <2>0, <2>2, ListOps
      <3>2. i # 1 => i - 1 \in DOMAIN list
        BY <1>1, <3>1
      <3> QED BY <1>2, <2>2, <3>1, <3>2
    <2>3. CASE list' = Append(list, c) /\ pc' = [pc EXCEPT ![c] = "suspended"]
      <3>1. /\ i \in 1 .. Len(list) + 1
            /\ list'[i] = IF i = Len(list) + 1 THEN c ELSE list[i]
        BY <1>4, <2>0, <2>3, ListOps
      <3>2. i # Len(list) + 1 => i \in DOMAIN list
        BY <1>1, <3>1
      <3> QED BY <1>2, <2>3, <3>1, <3>2
    <2> QED BY <2>1, <2>2, <2>3
  <1>5. \A i, j \in DOMAIN list' : list'[i] = list'[j] => i = j
    <2>1. \A i, j \in DOMAIN list : list[i] = list[j] => i = j
      BY DEF IInv, HandlesAreSuspended
    <2>2. CASE list' = list
      BY <2>1, <2>2
    <2>3. CASE list' = <<c>> \o list
      <3>1. /\ DOMAIN list' = 1 .. Len(list) + 1
            /\ \A i \in 1 .. Len(list) + 1 : list'[i] = IF i = 1 THEN c ELSE list[i - 1]
        BY <2>3, ListOps DEF IInv, TypeOK
      <3>2. ASSUME NEW i \in 2 .. Len(list) + 1
            PROVE  i - 1 \in DOMAIN list /\ list'[i] = list[i - 1] /\ list'[i] # c
        BY <1>1, <3>1
      <3>3. ASSUME NEW i \in DOMAIN list', NEW j \in DOMAIN list', list'[i] = list'[j]
            PROVE  i = j
        <4>1. CASE i = 1 \/ j = 1
          BY <1>1, <3>1, <3>2, <3>3, <4>1
        <4>2. CASE i # 1 /\ j # 1
          <5>1. i \in 2 .. Len(list) + 1 /\ j \in 2 .. Len(list) + 1
            BY <1>1, <3>1, <4>2
          <5>2. i - 1 = j - 1
            BY <2>1, <3>2, <3>3, <5>1
          <5> QED BY <1>1, <5>1, <5>2
        <4> QED BY <4>1, <4>2
      <3> QED BY <3>3
    <2>4. CASE list' = Append(list, c)
      <3>1. /\ DOMAIN list' = 1 .. Len(list) + 1
            /\ \A i \in 1 .. Len(list) + 1 :
                  list'[i] = IF i = Len(list) + 1 THEN c ELSE list[i]
        BY <2>4, ListOps DEF IInv, TypeOK
      <3>2. ASSUME NEW i \in 1 .. Len(list)
            PROVE  i \in DOMAIN list /\ list'[i] = list[i] /\ list'[i] # c
        BY <1>1, <3>1
      <3>3. ASSUME NEW i \in DOMAIN list', NEW j \in DOMAIN list', list'[i] = list'[j]
            PROVE  i = j
        <4>1. CASE i = Len(list) + 1 \/ j = Len(list) + 1
          BY <1>1, <3>1, <3>2, <3>3, <4>1
        <4>2. CASE i # Len(list) + 1 /\ j # Len(list) + 1
          <5>1. i \in 1 .. Len(list) /\ j \in 1 .. Len(list)
            BY <1>1, <3>1, <4>2
          <5> QED BY <2>1, <3>2, <3>3, <5>1
        <4> QED BY <4>1, <4>2
      <3> QED BY <3>3
    <2> QED BY <2>2, <2>3, <2>4
  <1>6. \A i \in DOMAIN list : pc'[list[i]] = "suspended"
    BY <1>1, <1>3 DEF IInv, HandlesAreSuspended
  <1>7. \A i \in DOMAIN list' : pc'[list'[i]] = "suspended"
    BY <1>4, <1>6
  <1>8. ASSUME NEW s \in Signallers, NEW i \in DOMAIN batch[s]
        PROVE  /\ pc'[batch[s][i]] = "suspended"
               /\ \A j \in DOMAIN list' : list'[j] # batch[s][i]
               /\ \A r \in Signallers : \A j \in DOMAIN batch[r] :
                     batch[s][i] = batch[r][j] => s = r /\ i = j
    BY <1>1, <1>3, <1>4 DEF IInv, HandlesAreSuspended
  <1> QED BY <1>5, <1>7, <1>8 DEF HandlesAreSuspended

\* A coroutine that takes a step has no handle out, and gives out one at most.
LEMMA HandlesAwait ==
    ASSUME IInv, NEW c \in Coroutines, Await(c) PROVE HandlesAreSuspended'
  <1>1. /\ pc[c] # "suspended"
        /\ batch' = batch
        /\ \/ list' = list /\ \E l : pc' = [pc EXCEPT ![c] = l]
           \/ list' = <<c>> \o list /\ pc' = [pc EXCEPT ![c] = "suspended"]
           \/ list' = Append(list, c) /\ pc' = [pc EXCEPT ![c] = "suspended"]
    BY DEF Await, AwaitReady, PushAwaiter, Enlist, AwaitResume, End, Goto, event, sign
  <1> QED BY <1>1, HandleOut

\* The list goes as a whole to one signaller, and a handle leaves its batch
\* when its coroutine is resumed.
LEMMA HandlesSignal ==
    ASSUME IInv, NEW s \in Signallers, Signal(s) PROVE HandlesAreSuspended'
  <1> USE DEF IInv, TypeOK, HandlesAreSuspended, Goto, event, coro, sign, Called, Enter
  <1>1. CASE SetFlag(s)  BY <1>1 DEF SetFlag
  <1>2. CASE Arrive(s)   BY <1>2 DEF Arrive
  <1>3. CASE Take(s)     BY <1>3, SMTT(40) DEF Take
  <1>4. CASE Resume(s)
    <2> DEFINE q == batch[s]
               h == Head(q)
    <2>1. /\ q \in Seq(Coroutines) /\ q # <<>>
          /\ list' = list
          /\ batch' = [batch EXCEPT ![s] = Tail(q)]
          /\ pc' = [pc EXCEPT ![h] = "resume"]
      BY <1>4 DEF Resume
    <2>2. /\ DOMAIN Tail(q) = 1 .. Len(q) - 1
          /\ \A i \in 1 .. Len(q) - 1 : Tail(q)[i] = q[i + 1]
          /\ DOMAIN q = 1 .. Len(q) /\ Len(q) \in Nat
          /\ h = q[1] /\ 1 \in DOMAIN q /\ h \in Coroutines
      BY <2>1, TailOps
    <2>3. \A r \in Signallers : \A i \in DOMAIN batch'[r] :
             \E j \in DOMAIN batch[r] : /\ batch'[r][i] = batch[r][j]
                                        /\ j = IF r = s THEN i + 1 ELSE i
      BY <2>1, <2>2
    <2>4. \A i \in DOMAIN list : list[i] # h
      <3>1. 1 \in DOMAIN batch[s] /\ h = batch[s][1]
        BY <2>2
      <3> QED BY <3>1
    <2>5. \A r \in Signallers : \A i \in DOMAIN batch'[r] : batch'[r][i] # h
      <3> SUFFICES ASSUME NEW r \in Signallers, NEW i \in DOMAIN batch'[r],
                          batch'[r][i] = h
                   PROVE  FALSE
        OBVIOUS
      <3>1. 1 \in DOMAIN batch[s] /\ h = batch[s][1]
        BY <2>2
      <3>2. PICK j \in DOMAIN batch[r] : /\ batch'[r][i] = batch[r][j]
                                         /\ j = IF r = s THEN i + 1 ELSE i
        BY <2>3
      <3>3. r = s /\ j = 1
        BY <3>1, <3>2
      <3>4. i \in 1 .. Len(q) - 1
        BY <2>1, <2>2, <3>3
      <3> QED BY <2>2, <3>2, <3>3, <3>4
    <2>6. \A i \in DOMAIN list' : /\ pc'[list'[i]] = "suspended"
                                  /\ \A j \in DOMAIN list' : list'[i] = list'[j] => i = j
      BY <2>1, <2>4
    <2>7. ASSUME NEW r \in Signallers, NEW i \in DOMAIN batch'[r]
          PROVE  /\ pc'[batch'[r][i]] = "suspended"
                 /\ \A j \in DOMAIN list' : list'[j] # batch'[r][i]
      BY <2>1, <2>3, <2>5, <2>7, SMTT(40)
    <2>8. ASSUME NEW r \in Signallers, NEW i \in DOMAIN batch'[r],
                 NEW u \in Signallers, NEW j \in DOMAIN batch'[u],
                 batch'[r][i] = batch'[u][j]
          PROVE  r = u /\ i = j
      <3>1. PICK k \in DOMAIN batch[r] : /\ batch'[r][i] = batch[r][k]
                                         /\ k = IF r = s THEN i + 1 ELSE i
        BY <2>3
      <3>2. PICK l \in DOMAIN batch[u] : /\ batch'[u][j] = batch[u][l]
                                         /\ l = IF u = s THEN j + 1 ELSE j
        BY <2>3
      <3>3. batch[r][k] = batch[u][l]
        BY <2>8, <3>1, <3>2
      <3>4. r = u /\ k = l
        BY <3>3
      <3>5. i \in Int /\ j \in Int
        <4>1. CASE r = s
          <5>1. DOMAIN batch'[r] = 1 .. Len(q) - 1 /\ u = r
            BY <2>1, <2>2, <3>4, <4>1
          <5> QED BY <2>2, <5>1, SMTT(40)
        <4>2. CASE r # s
          <5>1. k = i /\ l = j /\ u = r
            BY <3>1, <3>2, <3>4, <4>2
          <5>2. DOMAIN batch[r] = 1 .. Len(batch[r]) /\ Len(batch[r]) \in Nat
            <6>1. batch[r] \in Seq(Coroutines)
              OBVIOUS
            <6> QED BY <6>1, Domain
          <5> QED BY <5>1, <5>2
        <4> QED BY <4>1, <4>2
      <3> QED BY <3>1, <3>2, <3>4, <3>5
    <2> QED BY <2>6, <2>7, <2>8
  <1>5. CASE Return(s)   BY <1>5 DEF Return
  <1>6. CASE StopFlag(s) BY <1>6 DEF StopFlag
  <1>7. CASE Drop(s)     BY <1>7 DEF Drop
  <1>8. CASE Reset(s)    BY <1>8 DEF Reset
  <1> QED BY <1>1, <1>2, <1>3, <1>4, <1>5, <1>6, <1>7, <1>8 DEF Signal

\* Only the call that makes the count complete takes the list of a barrier.
LEMMA BatchStep == ASSUME IInv, Next PROVE BatchOK'
  <1> USE EventAssumption DEF IInv, TypeOK, BatchOK, Goto, event, coro, sign, Called, Enter
  <1>1. ASSUME NEW c \in Coroutines, Await(c) PROVE BatchOK'
    BY <1>1 DEF Await, AwaitReady, PushAwaiter, Enlist, AwaitResume, End
  <1>2. ASSUME NEW s \in Signallers, Signal(s) PROVE BatchOK'
    <2>1. CASE SetFlag(s)  BY <1>2, <2>1 DEF SetFlag
    <2>2. CASE Arrive(s)   BY <1>2, <2>2 DEF Arrive
    <2>3. CASE Take(s)     BY <1>2, <2>3 DEF Take
    <2>4. CASE Resume(s)   BY <1>2, <2>4 DEF Resume
    <2>5. CASE Return(s)   BY <1>2, <2>5 DEF Return
    <2>6. CASE StopFlag(s) BY <1>2, <2>6 DEF StopFlag
    <2>7. CASE Drop(s)     BY <1>2, <2>7 DEF Drop
    <2>8. CASE Reset(s)    BY <1>2, <2>8 DEF Reset
    <2> QED BY <1>2, <2>1, <2>2, <2>3, <2>4, <2>5, <2>6, <2>7, <2>8 DEF Signal
  <1> QED BY <1>1, <1>2 DEF Next

\* Every step preserves the invariant.
LEMMA IInvStep == IInv /\ [Next]_vars => IInv'
  <1> SUFFICES ASSUME IInv, [Next]_vars PROVE IInv'
    OBVIOUS
  <1>1. CASE Next
    <2>1. TypeOK' /\ HandlesAreSuspended'
      BY <1>1, TypeAwait, TypeSignal, HandlesAwait, HandlesSignal DEF Next
    <2> QED BY <1>1, <2>1, BatchStep DEF IInv
  <1>2. CASE UNCHANGED vars
    BY <1>2 DEF vars, event, coro, sign, IInv, TypeOK, HandlesAreSuspended, BatchOK
  <1> QED BY <1>1, <1>2

\* The invariant holds throughout.
THEOREM Invariance == Spec => []IInv
  BY IInvInit, IInvStep, PTL DEF Spec

\* Every variable of both events stays in its range.
THEOREM TypeCorrect == Spec => []TypeOK
  <1>1. IInv => TypeOK
    BY DEF IInv
  <1> QED BY <1>1, Invariance, PTL

\* A handle is in the list or in one signaller's hands, never in two places,
\* and its coroutine is suspended: no coroutine is resumed twice or while it
\* runs, whatever calls of set overlap and wherever it awaits again.
THEOREM ResumedOnlySuspended == Spec => []HandlesAreSuspended
  <1>1. IInv => HandlesAreSuspended
    BY DEF IInv
  <1> QED BY <1>1, Invariance, PTL

\* No coroutine passes the barrier before the expected number of calls of set.
THEOREM BarrierHolds == Spec => NobodyPassesEarly
  <1> DEFINE Early == \A c \in Coroutines :
          kind = "barrier" /\ pc[c] # "resume" /\ pc'[c] = "resume" => count >= Expected
  <1>1. ASSUME IInv, [Next]_vars PROVE [Early]_vars
    <2> SUFFICES ASSUME Next PROVE Early
      BY <1>1
    <2> SUFFICES ASSUME NEW c \in Coroutines, kind = "barrier",
                        pc[c] # "resume", pc'[c] = "resume"
                 PROVE  count >= Expected
      OBVIOUS
    <2> USE <1>1 DEF IInv, TypeOK, BatchOK, Goto, Enter, coro
    <2>1. ASSUME NEW d \in Coroutines, Await(d) PROVE count >= Expected
      BY <2>1 DEF Await, AwaitReady, PushAwaiter, Enlist, AwaitResume, End, Signalled
    <2>2. ASSUME NEW s \in Signallers, Signal(s) PROVE count >= Expected
      BY <2>2 DEF Signal, SetFlag, Arrive, Take, Resume, Return, StopFlag, Drop, Reset
    <2> QED BY <2>1, <2>2 DEF Next
  <1> QED BY <1>1, Invariance, PTL DEF Spec, NobodyPassesEarly
=============================================================================
