---------------------------- MODULE ThreadSignal ----------------------------
(***************************************************************************)
(* The signals of tst_threads.c: tst_thread_signal_init, _wait, _send and  *)
(* _cleanup.  A signal is a tag with a mutex, a condition variable and a   *)
(* state that goes from WAIT to GOON and stays there.  All tags share the  *)
(* counter tst_thread_signals_count, which is read and written under the   *)
(* mutex of the caller's own tag only: ++ and -- are a load and a store.   *)
(* Every thread executes a script of waits and sends; when all have ended, *)
(* one thread calls tst_thread_signal_cleanup.                             *)
(***************************************************************************)
EXTENDS Integers, Sequences, FiniteSets

CONSTANTS Thread,       \* the threads that use the signals
          NumSignals,   \* the argument of tst_thread_signal_init
          Scripts,      \* the scripts, per thread: sequence of [op, tag] records
          MaxSpurious   \* bound on spurious wakeups

Nobody == -1

ASSUME SignalAssumption ==
  /\ NumSignals \in Nat \ {0}
  /\ MaxSpurious \in Nat
  /\ Nobody \notin Thread
  /\ Scripts \subseteq [Thread -> Seq([op : {"wait", "send"}, tag : Int])]

Tag == 0..(NumSignals - 1)

VARIABLES
  script,     \* what each thread calls
  states,     \* tst_thread_signal_states_array
  mutex,      \* tst_thread_signal_mutex_array: the owner
  cond,       \* tst_thread_signal_cond_array: the blocked threads
  count,      \* tst_thread_signals_count
  ip, pc,     \* position in the script, position within a call
  tmp,        \* the loaded value of count
  outcome,    \* "running", "clean" (signals cleaned up) or "error" (exit)
  spurious

vars == <<script, states, mutex, cond, count, ip, pc, tmp, outcome, spurious>>

Op(t) == script[t][ip[t]]
Finished(t) == ip[t] > Len(script[t])
InRange(tag) == tag >= 0 /\ tag < NumSignals

(* Every variable has its type; a thread owns the mutex of a tag only      *)
(* between the lock and the unlock in signal_wait.                         *)
TypeOK ==
  /\ script \in Scripts
  /\ states \in [Tag -> {"wait", "goon"}]
  /\ mutex \in [Tag -> Thread \cup {Nobody}]
  /\ cond \in [Tag -> SUBSET Thread]
  /\ count \in Int
  /\ ip \in [Thread -> Nat]
  /\ \A t \in Thread : ip[t] \in 1..(Len(script[t]) + 1)
  /\ pc \in [Thread -> {"ready", "inc", "incstore", "test", "blocked", "decstore"}]
  /\ tmp \in [Thread -> Int]
  /\ outcome \in {"running", "clean", "error"}
  /\ spurious \in 0..MaxSpurious
  /\ \A t \in Thread, g \in Tag : mutex[g] = t => pc[t] \in {"inc", "incstore", "test", "decstore"}

(* tst_thread_signal_init.                                                 *)
Init ==
  /\ script \in Scripts
  /\ states = [g \in Tag |-> "wait"]
  /\ mutex = [g \in Tag |-> Nobody]
  /\ cond = [g \in Tag |-> {}]
  /\ count = 0
  /\ ip = [t \in Thread |-> 1]
  /\ pc = [t \in Thread |-> "ready"]
  /\ tmp = [t \in Thread |-> 0]
  /\ outcome = "running"
  /\ spurious = 0

Calls(t, op) == outcome = "running" /\ pc[t] = "ready" /\ ~Finished(t) /\ Op(t).op = op
Goto(t, l) == pc' = [pc EXCEPT ![t] = l]
Return(t) == ip' = [ip EXCEPT ![t] = @ + 1] /\ Goto(t, "ready")

(* ERROR(EINVAL, "tag was outside range"): the process exits.              *)
OutOfRange(t) ==
  /\ \E op \in {"wait", "send"} : Calls(t, op)
  /\ ~InRange(Op(t).tag)
  /\ outcome' = "error"
  /\ UNCHANGED <<script, states, mutex, cond, count, ip, pc, tmp, spurious>>

-----------------------------------------------------------------------------
(* tst_thread_signal_wait.                                                 *)

WaitLock(t) ==
  /\ Calls(t, "wait") /\ InRange(Op(t).tag)
  /\ mutex[Op(t).tag] = Nobody
  /\ mutex' = [mutex EXCEPT ![Op(t).tag] = t]
  /\ Goto(t, "inc")
  /\ UNCHANGED <<script, states, cond, count, ip, tmp, outcome, spurious>>

CountLoad(t) ==
  /\ pc[t] = "inc"
  /\ tmp' = [tmp EXCEPT ![t] = count]
  /\ Goto(t, "incstore")
  /\ UNCHANGED <<script, states, mutex, cond, count, ip, outcome, spurious>>

CountStore(t) ==
  /\ pc[t] = "incstore"
  /\ count' = tmp[t] + 1
  /\ Goto(t, "test")
  /\ UNCHANGED <<script, states, mutex, cond, ip, tmp, outcome, spurious>>

MayLeaveAtOnce(t) == TRUE
MayLeave(t) == states[Op(t).tag] = "goon"

Block(t) ==
  /\ pc[t] = "test"
  /\ ~MayLeave(t)
  /\ cond' = [cond EXCEPT ![Op(t).tag] = @ \cup {t}]
  /\ mutex' = [mutex EXCEPT ![Op(t).tag] = Nobody]
  /\ Goto(t, "blocked")
  /\ UNCHANGED <<script, states, count, ip, tmp, outcome, spurious>>

Wake(t) ==
  /\ pc[t] = "blocked"
  /\ t \notin cond[Op(t).tag]
  /\ mutex[Op(t).tag] = Nobody
  /\ mutex' = [mutex EXCEPT ![Op(t).tag] = t]
  /\ Goto(t, "test")
  /\ UNCHANGED <<script, states, cond, count, ip, tmp, outcome, spurious>>

Leave(t) ==
  /\ pc[t] = "test"
  /\ MayLeave(t)
  /\ tmp' = [tmp EXCEPT ![t] = count]
  /\ Goto(t, "decstore")
  /\ UNCHANGED <<script, states, mutex, cond, count, ip, outcome, spurious>>

WaitReturnLocked(t) ==
  /\ pc[t] = "decstore"
  /\ count' = tmp[t] - 1
  /\ Return(t)
  /\ UNCHANGED <<script, states, mutex, cond, tmp, outcome, spurious>>

WaitReturn(t) ==
  /\ pc[t] = "decstore"
  /\ count' = tmp[t] - 1
  /\ mutex' = [mutex EXCEPT ![Op(t).tag] = Nobody]
  /\ Return(t)
  /\ UNCHANGED <<script, states, cond, tmp, outcome, spurious>>

-----------------------------------------------------------------------------
(* tst_thread_signal_send: one of the blocked threads is woken.            *)

SendLost(t) ==
  LET g == Op(t).tag
  IN  /\ Calls(t, "send") /\ InRange(g)
      /\ mutex[g] = Nobody
      /\ cond[g] # {} => states' = [states EXCEPT ![g] = "goon"]
      /\ cond[g] = {} => states' = states
      /\ cond' = [cond EXCEPT ![g] = {}]
      /\ Return(t)
      /\ UNCHANGED <<script, mutex, count, tmp, outcome, spurious>>

Send(t) ==
  LET g == Op(t).tag
  IN  /\ Calls(t, "send") /\ InRange(g)
      /\ mutex[g] = Nobody
      /\ states' = [states EXCEPT ![g] = "goon"]
      /\ \/ cond[g] = {} /\ cond' = cond
         \/ \E u \in cond[g] : cond' = [cond EXCEPT ![g] = @ \ {u}]
      /\ Return(t)
      /\ UNCHANGED <<script, mutex, count, tmp, outcome, spurious>>

(* tst_thread_signal_cleanup, after the last thread has ended its script.  *)
Cleanup ==
  /\ outcome = "running"
  /\ \A t \in Thread : Finished(t)
  /\ outcome' = IF count # 0 THEN "error" ELSE "clean"
  /\ UNCHANGED <<script, states, mutex, cond, count, ip, pc, tmp, spurious>>

SpuriousWakeup ==
  /\ spurious < MaxSpurious
  /\ spurious' = spurious + 1
  /\ \E g \in Tag : \E u \in cond[g] : cond' = [cond EXCEPT ![g] = @ \ {u}]
  /\ UNCHANGED <<script, states, mutex, count, ip, pc, tmp, outcome>>

Step(t) ==
  /\ outcome = "running"
  /\ \/ OutOfRange(t)
     \/ WaitLock(t) \/ CountLoad(t) \/ CountStore(t) \/ Block(t) \/ Wake(t)
     \/ Leave(t) \/ WaitReturn(t) \/ Send(t)

Over == outcome # "running" /\ UNCHANGED vars

Next == (\E t \in Thread : Step(t)) \/ Cleanup \/ SpuriousWakeup \/ Over

Spec == Init /\ [][Next]_vars

(* No thread is starved by the scheduler.                                  *)
FairSpec == Spec /\ WF_vars(Cleanup) /\ \A t \in Thread : WF_vars(Step(t))

-----------------------------------------------------------------------------

(* Which ends of a script lie behind a thread.                             *)
Passed(t, op, g) == \E k \in 1..(ip[t] - 1) : script[t][k] = [op |-> op, tag |-> g]

(* signal_wait returns only after somebody has sent the tag: what the      *)
(* sender did before is visible to the code behind the wait.               *)
WaitAfterSend ==
  \A t \in Thread, g \in Tag :
    Passed(t, "wait", g) => \E u \in Thread : Passed(u, "send", g)

(* signal_cleanup finds no thread waiting when all have returned from      *)
(* signal_wait ("number of waiting threads", the comment on the counter).  *)
CleanupSucceeds == outcome # "error"

(* If every thread that waits for a tag is sent one, all return whichever  *)
(* of wait and send comes first, for the state keeps a signal sent early,  *)
(* and the signals are cleaned up; a tag that was not created ends the     *)
(* process, it leaves no thread blocked.                                   *)
Ends == <>(outcome # "running")
=============================================================================
