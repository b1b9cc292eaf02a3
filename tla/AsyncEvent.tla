----------------------------- MODULE AsyncEvent -----------------------------
(***************************************************************************)
(* The two events coroutines wait for: async_condition_variable and        *)
(* async_barrier of include/pot/coroutines.  Both keep a list of suspended *)
(* coroutines, and a thread that signals the event takes the list and      *)
(* resumes them one after the other on its own stack.  They differ in what *)
(* makes the event signalled, a flag or a count, in whether a coroutine    *)
(* looks again before it suspends, and in who may withdraw the signal.     *)
(*                                                                         *)
(* A coroutine starts on a thread of its own.  Once resumed it runs inside *)
(* resume() of the thread that signals, which goes on when the coroutine   *)
(* suspends again or ends.                                                 *)
(***************************************************************************)
EXTENDS Naturals, Sequences, FiniteSets

CONSTANTS Coroutines,
          Signallers,  \* threads that call set, and stop and reset
          Expected,    \* expected_count of the barrier
          Rounds,      \* how often each coroutine awaits the event
          Calls,       \* how many calls each signaller makes
          Kinds        \* subset of AllKinds

AllKinds == {"condition_variable", "barrier"}

ASSUME EventAssumption ==
    /\ Expected \in Nat
    /\ Rounds \in Nat
    /\ Calls \in Nat
    /\ Kinds \subseteq AllKinds

VARIABLES kind,     \* constant
          flag,     \* m_set_state
          count,    \* current_count
          list,     \* m_awaiter_head, or awaiters
          pc,       \* where each coroutine is
          left,     \* how often each coroutine has still to await
          host,     \* the signaller inside whose resume() a coroutine runs
          at,       \* where each signaller is
          batch,    \* what each signaller has still to resume
          calls     \* how many calls each signaller has still to make

event == <<flag, count, list>>
coro  == <<pc, left, host>>
sign  == <<at, batch, calls>>
vars  == <<kind, event, coro, sign>>

\* No signaller: the coroutine's own thread.
Own == "own"

Init == /\ kind \in Kinds
        /\ flag \in BOOLEAN
        /\ kind = "barrier" => ~flag
        /\ count = 0
        /\ list = <<>>
        /\ pc = [c \in Coroutines |-> "run"]
        /\ left = [c \in Coroutines |-> Rounds]
        /\ host = [c \in Coroutines |-> Own]
        /\ at = [s \in Signallers |-> "call"]
        /\ batch = [s \in Signallers |-> <<>>]
        /\ calls = [s \in Signallers |-> Calls]

Goto(c, l) == pc' = [pc EXCEPT ![c] = l]

Signalled == IF kind = "barrier" THEN count >= Expected ELSE flag

-----------------------------------------------------------------------------
(***************************************************************************)
(* co_await                                                                *)
(***************************************************************************)
AwaitReady(c) ==
    /\ pc[c] = "run"
    /\ left[c] > 0
    /\ left' = [left EXCEPT ![c] = @ - 1]
    /\ Goto(c, IF Signalled THEN "resume" ELSE "suspend")
    /\ UNCHANGED <<kind, event, host, sign>>

\* The awaiter of the condition variable is pushed by compare-exchange, and
\* whoever takes the list may resume the coroutine from then on.
PushAwaiter(c) ==
    /\ pc[c] = "suspend"
    /\ kind = "condition_variable"
    /\ list' = <<c>> \o list
    /\ Goto(c, "suspended")
    /\ host' = [host EXCEPT ![c] = Own]
    /\ UNCHANGED <<kind, flag, count, left, sign>>

MutEnlistBlindly(c) ==
    /\ pc[c] = "suspend" /\ kind = "barrier"
    /\ list' = Append(list, c)
    /\ Goto(c, "suspended")
    /\ host' = [host EXCEPT ![c] = Own]
    /\ UNCHANGED <<kind, flag, count, left, sign>>

MutEnlistEarly(c) ==
    /\ pc[c] = "suspend" /\ kind = "barrier"
    /\ IF count + 1 >= Expected
       THEN Goto(c, "resume") /\ UNCHANGED <<list, host>>
       ELSE /\ list' = Append(list, c)
            /\ Goto(c, "suspended")
            /\ host' = [host EXCEPT ![c] = Own]
    /\ UNCHANGED <<kind, flag, count, left, sign>>

\* The barrier looks at the count again under the mutex that guards the list,
\* and resumes the coroutine at once when the last call of set has been made.
Enlist(c) ==
    /\ pc[c] = "suspend"
    /\ kind = "barrier"
    /\ IF count >= Expected
       THEN Goto(c, "resume") /\ UNCHANGED <<list, host>>
       ELSE /\ list' = Append(list, c)
            /\ Goto(c, "suspended")
            /\ host' = [host EXCEPT ![c] = Own]
    /\ UNCHANGED <<kind, flag, count, left, sign>>

\* await_resume of the condition variable resets it.
AwaitResume(c) ==
    /\ pc[c] = "resume"
    /\ flag' = IF kind = "condition_variable" THEN FALSE ELSE flag
    /\ Goto(c, "run")
    /\ UNCHANGED <<kind, count, list, left, host, sign>>

\* The coroutine awaits no more: whoever resumed it goes on.
End(c) ==
    /\ pc[c] = "run"
    /\ left[c] = 0
    /\ Goto(c, "finished")
    /\ host' = [host EXCEPT ![c] = Own]
    /\ UNCHANGED <<kind, event, left, sign>>

Await(c) == \/ AwaitReady(c) \/ PushAwaiter(c) \/ Enlist(c)
            \/ AwaitResume(c) \/ End(c)

-----------------------------------------------------------------------------
(***************************************************************************)
(* set, stop and reset                                                     *)
(***************************************************************************)
Called(s) == calls' = [calls EXCEPT ![s] = @ - 1]
Enter(s, l) == at' = [at EXCEPT ![s] = l]

\* m_set_state.store(true)
SetFlag(s) ==
    /\ at[s] = "call" /\ calls[s] > 0
    /\ kind = "condition_variable"
    /\ flag' = TRUE
    /\ Called(s)
    /\ Enter(s, "take")
    /\ UNCHANGED <<kind, count, list, coro, batch>>

\* current_count.fetch_add(1): the last of the expected calls opens the
\* barrier, later ones do nothing.
Arrive(s) ==
    /\ at[s] = "call" /\ calls[s] > 0
    /\ kind = "barrier"
    /\ count' = count + 1
    /\ Called(s)
    /\ Enter(s, IF count + 1 = Expected THEN "take" ELSE "call")
    /\ UNCHANGED <<kind, flag, list, coro, batch>>

MutTakeCopy(s) ==
    /\ at[s] = "take"
    /\ batch' = [batch EXCEPT ![s] = list]
    /\ Enter(s, "resuming")
    /\ UNCHANGED <<kind, event, coro, calls>>

\* m_awaiter_head.exchange(nullptr), or swap under the mutex.
Take(s) ==
    /\ at[s] = "take"
    /\ batch' = [batch EXCEPT ![s] = list]
    /\ list' = <<>>
    /\ Enter(s, "resuming")
    /\ UNCHANGED <<kind, flag, count, coro, calls>>

\* The coroutine the signaller has resumed is still running.
Hosting(s) == \E c \in Coroutines : host[c] = s

MutResumeFirstOnly(s) ==
    /\ at[s] = "resuming" /\ ~Hosting(s) /\ batch[s] # <<>>
    /\ batch' = [batch EXCEPT ![s] = <<>>]
    /\ Goto(Head(batch[s]), "resume")
    /\ host' = [host EXCEPT ![Head(batch[s])] = s]
    /\ UNCHANGED <<kind, event, left, at, calls>>

\* handle.resume()
Resume(s) ==
    /\ at[s] = "resuming"
    /\ ~Hosting(s)
    /\ batch[s] # <<>>
    /\ batch' = [batch EXCEPT ![s] = Tail(@)]
    /\ Goto(Head(batch[s]), "resume")
    /\ host' = [host EXCEPT ![Head(batch[s])] = s]
    /\ UNCHANGED <<kind, event, left, at, calls>>

Return(s) ==
    /\ at[s] = "resuming"
    /\ ~Hosting(s)
    /\ batch[s] = <<>>
    /\ Enter(s, "call")
    /\ UNCHANGED <<kind, event, coro, batch, calls>>

\* stop of the condition variable: the flag first, then the list.
StopFlag(s) ==
    /\ at[s] = "call" /\ calls[s] > 0
    /\ kind = "condition_variable"
    /\ flag' = FALSE
    /\ Called(s)
    /\ Enter(s, "drop")
    /\ UNCHANGED <<kind, count, list, coro, batch>>

Drop(s) ==
    /\ at[s] = "drop"
    /\ list' = <<>>
    /\ Enter(s, "call")
    /\ UNCHANGED <<kind, flag, count, coro, batch, calls>>

Reset(s) ==
    /\ at[s] = "call" /\ calls[s] > 0
    /\ kind = "condition_variable"
    /\ flag' = FALSE
    /\ Called(s)
    /\ UNCHANGED <<kind, count, list, coro, at, batch>>

Signal(s) == \/ SetFlag(s) \/ Arrive(s) \/ Take(s) \/ Resume(s) \/ Return(s)
             \/ StopFlag(s) \/ Drop(s) \/ Reset(s)

-----------------------------------------------------------------------------
Next == \/ \E c \in Coroutines : Await(c)
        \/ \E s \in Signallers : Signal(s)

\* Threads are scheduled; nobody is obliged to call set, stop or reset.
Fairness ==
    /\ \A c \in Coroutines : WF_vars(Await(c))
    /\ \A s \in Signallers : WF_vars(Take(s) \/ Resume(s) \/ Return(s) \/ Drop(s))

Spec     == Init /\ [][Next]_vars
FairSpec == Spec /\ Fairness

-----------------------------------------------------------------------------
InList(c)     == \E i \in DOMAIN list : list[i] = c
InBatch(s, c) == \E i \in DOMAIN batch[s] : batch[s][i] = c

\* Every variable stays in its range: a barrier has no flag and a condition
\* variable no count.
TypeOK ==
    /\ kind \in Kinds
    /\ flag \in BOOLEAN /\ count \in Nat
    /\ kind = "barrier" => ~flag
    /\ kind = "condition_variable" => count = 0
    /\ list \in Seq(Coroutines)
    /\ pc \in [Coroutines -> {"run", "suspend", "suspended", "resume", "finished"}]
    /\ left \in [Coroutines -> 0 .. Rounds]
    /\ host \in [Coroutines -> Signallers \cup {Own}]
    /\ at \in [Signallers -> {"call", "take", "resuming", "drop"}]
    /\ batch \in [Signallers -> Seq(Coroutines)]
    /\ calls \in [Signallers -> 0 .. Calls]

\* Only a suspended coroutine can be resumed, and only once: its handle is in
\* the list or in what one signaller has taken, and nowhere twice.
HandlesAreSuspended ==
    /\ \A i \in DOMAIN list : /\ pc[list[i]] = "suspended"
                               /\ \A j \in DOMAIN list : list[i] = list[j] => i = j
    /\ \A s \in Signallers : \A i \in DOMAIN batch[s] :
          /\ pc[batch[s][i]] = "suspended"
          /\ \A j \in DOMAIN list : list[j] # batch[s][i]
          /\ \A r \in Signallers : \A j \in DOMAIN batch[r] :
                batch[s][i] = batch[r][j] => s = r /\ i = j

\* Nobody passes the barrier before set has been called as often as expected.
NobodyPassesEarly ==
    [][\A c \in Coroutines :
          kind = "barrier" /\ pc[c] # "resume" /\ pc'[c] = "resume"
          => count >= Expected]_vars

\* Once the barrier is open everybody who waits goes on, whenever the wait
\* began (await_suspend's second look against fetch_add before the swap).
BarrierOpens ==
    \A c \in Coroutines :
        kind = "barrier" /\ count >= Expected /\ pc[c] = "suspended"
        ~> pc[c] # "suspended"

\* A coroutine that waits when set takes the list is resumed, although the
\* ones before it run first, and may await the same event again.
SetResumesWaiters ==
    \A c \in Coroutines : \A s \in Signallers :
        InList(c) /\ at[s] = "take"
        ~> pc[c] # "suspended" \/ \E t \in Signallers : at[t] = "drop"

\* What the documentation says of both: co_await suspends until the event is
\* signalled.  When no call of set is under way and the event is signalled,
\* nobody is suspended on it.
SignalledMeansAwake ==
    Signalled /\ (\A s \in Signallers : at[s] = "call")
    => \A c \in Coroutines : ~InList(c)
=============================================================================
