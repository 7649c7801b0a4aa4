------------------------------ MODULE LockStep ------------------------------
(***************************************************************************)
(* What the thread framework of tst_threads.c promises its client.         *)
(*                                                                         *)
(* The master and all workers go through the init, run and cleanup         *)
(* functions of one test after the other in lock step: steps are numbered  *)
(* 1, 2, 3, ... (init, run, cleanup of the first test, init of the second, *)
(* ...), every thread executes every step exactly once, and no thread      *)
(* begins a step before all threads have ended the one before it.          *)
(***************************************************************************)
EXTENDS Naturals

CONSTANTS Thread,    \* the threads of one process, the master among them
          MaxEpoch   \* the number of steps of the whole execution

VARIABLES epoch,     \* the step the master has announced last, 0 before any
          job,       \* the step a thread is executing, 0 when it is in none
          ended      \* the number of steps a thread has executed

vars == <<epoch, job, ended>>

(* Every variable has its type.                                            *)
TypeOK ==
  /\ epoch \in 0..MaxEpoch
  /\ job \in [Thread -> 0..MaxEpoch]
  /\ ended \in [Thread -> 0..MaxEpoch]

Init ==
  /\ epoch = 0
  /\ job = [t \in Thread |-> 0]
  /\ ended = [t \in Thread |-> 0]

Advance ==
  /\ epoch < MaxEpoch
  /\ \A t \in Thread : ended[t] = epoch
  /\ epoch' = epoch + 1
  /\ UNCHANGED <<job, ended>>

Begin(t) ==
  /\ job[t] = 0
  /\ ended[t] < epoch
  /\ job' = [job EXCEPT ![t] = epoch]
  /\ UNCHANGED <<epoch, ended>>

End(t) ==
  /\ job[t] # 0
  /\ job' = [job EXCEPT ![t] = 0]
  /\ ended' = [ended EXCEPT ![t] = @ + 1]
  /\ UNCHANGED epoch

Next == Advance \/ \E t \in Thread : Begin(t) \/ End(t)

Spec == Init /\ [][Next]_vars

-----------------------------------------------------------------------------

(* Every thread executes all the steps.                                    *)
AllDone == <>[](\A t \in Thread : ended[t] = MaxEpoch)

(* A thread has executed all announced steps but perhaps the last one,     *)
(* which is the one it is executing if it is executing any.                *)
StepInv ==
  /\ TypeOK
  /\ \A t \in Thread : ended[t] = epoch \/ ended[t] + 1 = epoch
  /\ \A t \in Thread : job[t] # 0 => job[t] = epoch /\ ended[t] + 1 = epoch

(* Threads that are in functions are in the functions of one step, and no  *)
(* thread has executed two steps more than another one.                    *)
Together ==
  /\ \A t, u \in Thread : job[t] # 0 /\ job[u] # 0 => job[t] = job[u]
  /\ \A t, u \in Thread : ended[t] <= ended[u] + 1
=============================================================================
