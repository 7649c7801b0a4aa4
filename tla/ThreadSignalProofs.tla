------------------------- MODULE ThreadSignalProofs -------------------------
(***************************************************************************)
(* For all threads, scripts, numbers of tags and of spurious wakeups: the  *)
(* signals keep their types, each tag's mutex excludes, and no wait is     *)
(* over before a send of its tag.                                          *)
(***************************************************************************)
EXTENDS ThreadSignal, TLAPS

Holding == {"inc", "incstore", "test", "decstore"}

(* Between lock and unlock of signal_wait a thread executes a wait of a    *)
(* tag that exists, and it alone owns the mutex of this tag.               *)
OwnerInv ==
  /\ \A t \in Thread : pc[t] # "ready" => ~Finished(t) /\ Op(t).op = "wait" /\ Op(t).tag \in Tag
  /\ \A t \in Thread : pc[t] \in Holding => mutex[Op(t).tag] = t
  /\ \A t \in Thread, g \in Tag : mutex[g] = t => pc[t] \in Holding /\ Op(t).tag = g

(* The state of a tag is what links the end of a wait to a send: it is set *)
(* by sends alone, and no wait passes it before.                           *)
StateInv ==
  /\ \A g \in Tag : states[g] = "goon" => \E u \in Thread : Passed(u, "send", g)
  /\ \A t \in Thread : pc[t] = "decstore" => states[Op(t).tag] = "goon"
  /\ \A t \in Thread, g \in Tag : Passed(t, "wait", g) => states[g] = "goon"

IInv == TypeOK /\ OwnerInv /\ StateInv

(* An element of a sequence is one of its set.                             *)
LEMMA ElementOfSeq ==
  ASSUME NEW S, NEW s \in Seq(S), NEW k \in 1..Len(s)
  PROVE  s[k] \in S
OBVIOUS

(* A script is a sequence of calls; what a thread calls next is one of     *)
(* them.                                                                   *)
LEMMA ScriptFacts ==
  ASSUME TypeOK, NEW t \in Thread
  PROVE  /\ script[t] \in Seq([op : {"wait", "send"}, tag : Int])
         /\ Len(script[t]) \in Nat
         /\ ip[t] \in 1..(Len(script[t]) + 1)
         /\ ~Finished(t) => /\ Op(t) \in [op : {"wait", "send"}, tag : Int]
                            /\ ip[t] + 1 \in 1..(Len(script[t]) + 1)
         /\ InRange(Op(t).tag) /\ ~Finished(t) => Op(t).tag \in Tag
<1>1. script[t] \in Seq([op : {"wait", "send"}, tag : Int])
  BY SignalAssumption DEF TypeOK
<1>2. Len(script[t]) \in Nat /\ ip[t] \in 1..(Len(script[t]) + 1)
  BY <1>1 DEF TypeOK
<1>3. ASSUME ~Finished(t)
      PROVE  /\ Op(t) \in [op : {"wait", "send"}, tag : Int]
             /\ ip[t] + 1 \in 1..(Len(script[t]) + 1)
  <2>1. ip[t] \in 1..Len(script[t])
    BY <1>2, <1>3 DEF Finished
  <2>2. Op(t) \in [op : {"wait", "send"}, tag : Int]
    BY <1>1, <2>1, ElementOfSeq DEF Op
  <2>3. ip[t] + 1 \in 1..(Len(script[t]) + 1)
    BY <1>2, <2>1
  <2>4. QED
    BY <2>2, <2>3
<1>4. QED
  BY <1>1, <1>2, <1>3, SignalAssumption DEF InRange, Tag

(* A call that returns passes what the thread has called, and nothing      *)
(* else.                                                                   *)
LEMMA PassedMore ==
  ASSUME TypeOK, NEW t \in Thread, ~Finished(t), ip' = [ip EXCEPT ![t] = @ + 1],
         script' = script, NEW u \in Thread, NEW op, NEW g
  PROVE  Passed(u, op, g)' <=> Passed(u, op, g) \/ (u = t /\ Op(t) = [op |-> op, tag |-> g])
<1>1. CASE u = t
  <2>1. ip[t] \in Nat /\ ip[t] >= 1 /\ ip'[t] = ip[t] + 1
    BY ScriptFacts DEF TypeOK
  <2>2. 1..(ip'[t] - 1) = 1..(ip[t] - 1) \cup {ip[t]}
    BY <2>1
  <2>3. QED
    BY <1>1, <2>1, <2>2 DEF Passed, Op
<1>2. CASE u # t
  BY <1>2 DEF Passed, TypeOK
<1>3. QED
  BY <1>1, <1>2

(* Only returns change what has been passed.                               *)
LEMMA PassedSame ==
  ASSUME UNCHANGED <<script, ip>>, NEW u, NEW op, NEW g
  PROVE  Passed(u, op, g)' <=> Passed(u, op, g)
BY DEF Passed

(* The signals start with the invariant: no thread has called anything.    *)
LEMMA InitInv == Init => IInv
<1>1. Init => TypeOK
  <2> SUFFICES ASSUME Init PROVE TypeOK
    OBVIOUS
  <2>1. \A t \in Thread : script[t] \in Seq([op : {"wait", "send"}, tag : Int])
    BY SignalAssumption DEF Init
  <2>2. \A t \in Thread : 1 \in 1..(Len(script[t]) + 1)
    BY <2>1
  <2>3. QED
    BY <2>2, SignalAssumption DEF Init, TypeOK
<1>2. Init => OwnerInv
  BY SignalAssumption DEF Init, OwnerInv, Holding
<1>3. Init => StateInv
  BY DEF Init, StateInv, Passed
<1>4. QED
  BY <1>1, <1>2, <1>3 DEF IInv

(* A thread that locks the mutex of its tag becomes the owner.             *)
LEMMA WaitLockInv ==
  ASSUME IInv, NEW t \in Thread, WaitLock(t)
  PROVE  IInv'
<1>1. TypeOK'
  BY ScriptFacts DEF IInv, TypeOK, OwnerInv, WaitLock, Calls, Goto
<1>2. OwnerInv'
  <2>1. Op(t).tag \in Tag /\ ~Finished(t) /\ Op(t).op = "wait"
    BY ScriptFacts DEF IInv, WaitLock, Calls
  <2>2. \A u \in Thread : Op(u)' = Op(u) /\ Finished(u)' = Finished(u)
    BY DEF WaitLock, Op, Finished
  <2>3. QED
    BY <2>1, <2>2, SignalAssumption DEF IInv, TypeOK, OwnerInv, WaitLock, Goto, Holding
<1>3. StateInv'
  <2>1. \A u \in Thread : Op(u)' = Op(u)
    BY DEF WaitLock, Op
  <2>2. QED
    BY <2>1, PassedSame DEF IInv, TypeOK, StateInv, WaitLock, Goto
<1>4. QED
  BY <1>1, <1>2, <1>3 DEF IInv

(* Loading the counter moves the owner on.                                 *)
LEMMA CountLoadInv ==
  ASSUME IInv, NEW t \in Thread, CountLoad(t)
  PROVE  IInv'
<1>1. TypeOK'
  BY SignalAssumption DEF IInv, TypeOK, OwnerInv, Holding, CountLoad, Goto
<1>2. OwnerInv'
  <2>1. \A u \in Thread : Op(u)' = Op(u) /\ Finished(u)' = Finished(u)
    BY DEF CountLoad, Op, Finished
  <2>2. QED
    BY <2>1, SignalAssumption DEF IInv, TypeOK, OwnerInv, CountLoad, Goto, Holding
<1>3. StateInv'
  <2>1. \A u \in Thread : Op(u)' = Op(u)
    BY DEF CountLoad, Op
  <2>2. QED
    BY <2>1, PassedSame DEF IInv, TypeOK, OwnerInv, StateInv, CountLoad, Goto
<1>4. QED
  BY <1>1, <1>2, <1>3 DEF IInv

(* Storing the counter moves the owner on, whatever number it stores.      *)
LEMMA CountStoreInv ==
  ASSUME IInv, NEW t \in Thread, CountStore(t)
  PROVE  IInv'
<1>1. TypeOK'
  BY SignalAssumption DEF IInv, TypeOK, OwnerInv, Holding, CountStore, Goto
<1>2. OwnerInv'
  <2>1. \A u \in Thread : Op(u)' = Op(u) /\ Finished(u)' = Finished(u)
    BY DEF CountStore, Op, Finished
  <2>2. QED
    BY <2>1, SignalAssumption DEF IInv, TypeOK, OwnerInv, CountStore, Goto, Holding
<1>3. StateInv'
  <2>1. \A u \in Thread : Op(u)' = Op(u)
    BY DEF CountStore, Op
  <2>2. QED
    BY <2>1, PassedSame DEF IInv, TypeOK, OwnerInv, StateInv, CountStore, Goto
<1>4. QED
  BY <1>1, <1>2, <1>3 DEF IInv

(* A thread that blocks gives the mutex away.                              *)
LEMMA BlockInv ==
  ASSUME IInv, NEW t \in Thread, Block(t)
  PROVE  IInv'
<1>1. TypeOK'
  BY SignalAssumption DEF IInv, TypeOK, OwnerInv, Holding, Block, Goto
<1>2. OwnerInv'
  <2>1. \A u \in Thread : Op(u)' = Op(u) /\ Finished(u)' = Finished(u)
    BY DEF Block, Op, Finished
  <2>2. QED
    BY <2>1, SignalAssumption DEF IInv, TypeOK, OwnerInv, Block, Goto, Holding
<1>3. StateInv'
  <2>1. \A u \in Thread : Op(u)' = Op(u)
    BY DEF Block, Op
  <2>2. QED
    BY <2>1, PassedSame DEF IInv, TypeOK, OwnerInv, StateInv, Block, Goto
<1>4. QED
  BY <1>1, <1>2, <1>3 DEF IInv

(* A thread that was woken gets the mutex again before it looks at the     *)
(* state.                                                                  *)
LEMMA WakeInv ==
  ASSUME IInv, NEW t \in Thread, Wake(t)
  PROVE  IInv'
<1>1. TypeOK'
  BY SignalAssumption DEF IInv, TypeOK, OwnerInv, Holding, Wake, Goto
<1>2. OwnerInv'
  <2>1. \A u \in Thread : Op(u)' = Op(u) /\ Finished(u)' = Finished(u)
    BY DEF Wake, Op, Finished
  <2>2. QED
    BY <2>1, SignalAssumption DEF IInv, TypeOK, OwnerInv, Wake, Goto, Holding
<1>3. StateInv'
  <2>1. \A u \in Thread : Op(u)' = Op(u)
    BY DEF Wake, Op
  <2>2. QED
    BY <2>1, PassedSame DEF IInv, TypeOK, OwnerInv, StateInv, Wake, Goto
<1>4. QED
  BY <1>1, <1>2, <1>3 DEF IInv

(* A wait goes on to its end only after it has found the signal.           *)
LEMMA LeaveInv ==
  ASSUME IInv, NEW t \in Thread, Leave(t)
  PROVE  IInv'
<1>1. TypeOK'
  BY SignalAssumption DEF IInv, TypeOK, OwnerInv, Holding, Leave, Goto, MayLeave
<1>2. OwnerInv'
  <2>1. \A u \in Thread : Op(u)' = Op(u) /\ Finished(u)' = Finished(u)
    BY DEF Leave, Op, Finished
  <2>2. QED
    BY <2>1, SignalAssumption DEF IInv, TypeOK, OwnerInv, Leave, Goto, Holding
<1>3. StateInv'
  <2>1. \A u \in Thread : Op(u)' = Op(u)
    BY DEF Leave, Op
  <2>2. QED
    BY <2>1, PassedSame DEF IInv, TypeOK, OwnerInv, StateInv, Leave, Goto, MayLeave
<1>4. QED
  BY <1>1, <1>2, <1>3 DEF IInv

(* A wait that returns has found the signal, which stays.                  *)
LEMMA WaitReturnInv ==
  ASSUME IInv, NEW t \in Thread, WaitReturn(t)
  PROVE  IInv'
<1>1. TypeOK'
  <2>1. \A u \in Thread : ip'[u] \in 1..(Len(script[u]) + 1)
    BY ScriptFacts DEF IInv, TypeOK, OwnerInv, WaitReturn, Return, Goto
  <2>2. QED
    BY <2>1, SignalAssumption DEF IInv, TypeOK, OwnerInv, Holding, WaitReturn, Return, Goto
<1>2. OwnerInv'
  <2>1. \A u \in Thread \ {t} : Op(u)' = Op(u) /\ Finished(u)' = Finished(u)
    BY DEF IInv, TypeOK, WaitReturn, Return, Goto, Op, Finished
  <2>2. QED
    BY <2>1, SignalAssumption DEF IInv, TypeOK, OwnerInv, WaitReturn, Return, Goto, Holding
<1>3. StateInv'
  <2>1. \A u \in Thread \ {t} : Op(u)' = Op(u)
    BY DEF IInv, TypeOK, WaitReturn, Return, Goto, Op
  <2>2. ~Finished(t) /\ Op(t).op = "wait" /\ states[Op(t).tag] = "goon"
    BY DEF IInv, OwnerInv, StateInv, WaitReturn
  <2>3. \A u \in Thread : \A op, g : Passed(u, op, g)' <=>
          Passed(u, op, g) \/ (u = t /\ Op(t) = [op |-> op, tag |-> g])
    BY <2>2, PassedMore DEF IInv, WaitReturn, Return
  <2>4. QED
    BY <2>1, <2>2, <2>3 DEF IInv, TypeOK, StateInv, WaitReturn, Return, Goto
<1>4. QED
  BY <1>1, <1>2, <1>3 DEF IInv

(* A send sets the state of its tag, and is passed at the same time.       *)
LEMMA SendInv ==
  ASSUME IInv, NEW t \in Thread, Send(t)
  PROVE  IInv'
<1>1. TypeOK'
  <2>1. \A u \in Thread : ip'[u] \in 1..(Len(script[u]) + 1)
    BY ScriptFacts DEF IInv, TypeOK, Calls, Send, Return, Goto
  <2>2. cond' \in [Tag -> SUBSET Thread]
    BY ScriptFacts DEF IInv, TypeOK, Calls, Send
  <2>3. ip' \in [Thread -> Nat] /\ states' \in [Tag -> {"wait", "goon"}]
    <3>1. ip' = [ip EXCEPT ![t] = @ + 1] /\ states' = [states EXCEPT ![Op(t).tag] = "goon"]
      BY DEF Send, Return
    <3>2. ip' \in [Thread -> Nat]
      BY <3>1 DEF IInv, TypeOK
    <3>3. states' \in [Tag -> {"wait", "goon"}]
      BY <3>1 DEF IInv, TypeOK
    <3>4. QED
      BY <3>2, <3>3
  <2>4. pc' = [pc EXCEPT ![t] = "ready"] /\ pc[t] = "ready"
    BY DEF Send, Calls, Return, Goto
  <2>5. UNCHANGED <<script, mutex, count, tmp, outcome, spurious>>
    BY DEF Send
  <2>6. QED
    BY <2>1, <2>2, <2>3, <2>4, <2>5 DEF IInv, TypeOK
<1>2. OwnerInv'
  <2>1. \A u \in Thread \ {t} : Op(u)' = Op(u) /\ Finished(u)' = Finished(u)
    BY DEF IInv, TypeOK, Send, Return, Goto, Op, Finished
  <2>2. QED
    BY <2>1 DEF IInv, TypeOK, OwnerInv, Send, Calls, Return, Goto, Holding
<1>3. StateInv'
  <2>1. \A u \in Thread \ {t} : Op(u)' = Op(u)
    BY DEF IInv, TypeOK, Send, Return, Goto, Op
  <2>2. /\ ~Finished(t) /\ Op(t).op = "send" /\ Op(t).tag \in Tag
        /\ Op(t) = [op |-> "send", tag |-> Op(t).tag]
    BY ScriptFacts DEF IInv, Send, Calls
  <2>3. \A u \in Thread : \A op, g : Passed(u, op, g)' <=>
          Passed(u, op, g) \/ (u = t /\ Op(t) = [op |-> op, tag |-> g])
    BY <2>2, PassedMore DEF IInv, Send, Return
  <2>4. QED
    BY <2>1, <2>2, <2>3 DEF IInv, TypeOK, StateInv, Send, Return, Goto
<1>4. QED
  BY <1>1, <1>2, <1>3 DEF IInv

(* The steps that change no place of a thread: the process exits, the      *)
(* signals are cleaned up, a thread wakes up for no reason.                *)
LEMMA OtherInv ==
  ASSUME IInv,
         (\E t \in Thread : OutOfRange(t)) \/ Cleanup \/ SpuriousWakeup \/ UNCHANGED vars
  PROVE  IInv'
<1>1. UNCHANGED <<script, states, mutex, ip, pc>>
  BY DEF OutOfRange, Cleanup, SpuriousWakeup, vars
<1>2. TypeOK'
  <2>1. cond' \in [Tag -> SUBSET Thread] /\ spurious' \in 0..MaxSpurious
    <3>1. CASE SpuriousWakeup
      <4>1. spurious' \in 0..MaxSpurious
        BY <3>1, SignalAssumption DEF IInv, TypeOK, SpuriousWakeup
      <4>2. cond' \in [Tag -> SUBSET Thread]
        BY <3>1 DEF IInv, TypeOK, SpuriousWakeup
      <4>3. QED
        BY <4>1, <4>2
    <3>2. CASE UNCHANGED <<cond, spurious>>
      BY <3>2 DEF IInv, TypeOK
    <3>3. QED
      BY <3>1, <3>2 DEF OutOfRange, Cleanup, vars
  <2>2. count' \in Int /\ tmp' \in [Thread -> Int] /\ outcome' \in {"running", "clean", "error"}
    BY DEF IInv, TypeOK, OutOfRange, Cleanup, SpuriousWakeup, vars
  <2>3. QED
    BY <1>1, <2>1, <2>2 DEF IInv, TypeOK
<1>3. OwnerInv'
  BY <1>1 DEF IInv, OwnerInv, Op, Finished
<1>4. StateInv'
  BY <1>1, PassedSame DEF IInv, StateInv, Op
<1>5. QED
  BY <1>2, <1>3, <1>4 DEF IInv

(* The invariant holds in all states of the signals.                       *)
THEOREM Invariance == Spec => []IInv
<1>1. Init => IInv
  BY InitInv
<1>2. IInv /\ [Next]_vars => IInv'
  <2> SUFFICES ASSUME IInv, [Next]_vars PROVE IInv'
    OBVIOUS
  <2>1. ASSUME NEW t \in Thread, Step(t) PROVE IInv'
    BY <2>1, WaitLockInv, CountLoadInv, CountStoreInv, BlockInv, WakeInv, LeaveInv,
       WaitReturnInv, SendInv, OtherInv DEF Step
  <2>2. CASE Cleanup \/ SpuriousWakeup \/ UNCHANGED vars
    BY <2>2, OtherInv
  <2>3. QED
    BY <2>1, <2>2 DEF Next, Over
<1>3. QED
  BY <1>1, <1>2, PTL DEF Spec

(* The variables of the signals keep their types, and a thread owns a      *)
(* mutex only between the lock and the unlock in signal_wait.              *)
THEOREM SignalTypes == Spec => []TypeOK
<1>1. IInv => TypeOK
  BY DEF IInv
<1>2. QED
  BY <1>1, Invariance, PTL

(* No wait returns before somebody has sent its tag, whatever threads and  *)
(* scripts there are.                                                      *)
THEOREM WaitReturnsAfterSend == Spec => []WaitAfterSend
<1>1. IInv => WaitAfterSend
  BY DEF IInv, StateInv, WaitAfterSend
<1>2. QED
  BY <1>1, Invariance, PTL

(* Two threads that are between lock and unlock of signal_wait wait for    *)
(* different tags.                                                         *)
SameTagExcludes ==
  \A t, u \in Thread :
    t # u /\ pc[t] \in Holding /\ pc[u] \in Holding => Op(t).tag # Op(u).tag

(* The mutex of a tag excludes: the counter is changed by two threads at   *)
(* the same time only if they wait for different tags.                     *)
THEOREM MutualExclusion == Spec => []SameTagExcludes
<1>1. IInv => SameTagExcludes
  BY DEF IInv, OwnerInv, SameTagExcludes, Holding
<1>2. QED
  BY <1>1, Invariance, PTL
=============================================================================
