------------------------------ MODULE ThreadApi ------------------------------
(***************************************************************************)
(* The functions of tst_threads.c that main does not use: a client that    *)
(* assigns tests to single workers (tst_thread_assign_reset and            *)
(* tst_thread_assign_one), executes them, and shuts the framework down     *)
(* (tst_thread_cleanup).  The dispatcher and tst_thread_execute_* are      *)
(* those of ThreadDispatch.                                                *)
(***************************************************************************)
EXTENDS ThreadDispatch

CONSTANTS Partial,      \* the client may leave workers without a test
          Untested      \* the client may shut down before it assigned a test

ASSUME ApiAssumption == Partial \in BOOLEAN /\ Untested \in BOOLEAN

(* Choose the next thing to do between two tests.                          *)
NextRound ==
  /\ pc[Master] = "loop"
  /\ \/ /\ test < Tests
        /\ test' = test + 1 /\ assigned' = 0
        /\ Goto(Master, "reset")
     \/ /\ test > 0 \/ Untested
        /\ Goto(Master, "finalize")
        /\ UNCHANGED <<test, assigned>>
  /\ UNCHANGED <<cmdVars, workingVars, workerVars, phase, spurious>>

(* tst_thread_assign_reset: the functions of one worker after the other    *)
(* are NULL, then working is 0.                                            *)
Reset ==
  /\ pc[Master] = "reset"
  /\ IF assigned < N
     THEN /\ func' = [func EXCEPT ![assigned] = 0]
          /\ assigned' = assigned + 1
          /\ UNCHANGED <<working, pc>>
     ELSE /\ working_mutex = Free
          /\ working' = 0
          /\ assigned' = 0
          /\ Goto(Master, "one")
          /\ UNCHANGED func
  /\ UNCHANGED <<cmdVars, working_mutex, working_cond, state, local_cmd, local_count,
                 test, phase, spurious>>

(* tst_thread_assign_one: the pointers of the worker, then working++.      *)
AssignOne(w) ==
  /\ pc[Master] = "one"
  /\ func[w] = 0
  /\ func' = [func EXCEPT ![w] = test]
  /\ Goto(Master, "count")
  /\ UNCHANGED <<cmdVars, workingVars, state, local_cmd, local_count, mainVars, spurious>>

CountOne ==
  /\ pc[Master] = "count"
  /\ working_mutex = Free
  /\ working' = working + 1
  /\ Goto(Master, "one")
  /\ UNCHANGED <<cmdVars, working_mutex, working_cond, workerVars, mainVars, spurious>>

(* ERROR: assignment to this thread already done.                          *)
AssignAgain(w) ==
  /\ pc[Master] = "one"
  /\ func[w] # 0
  /\ Goto(Master, "error")
  /\ UNCHANGED <<cmdVars, workingVars, workerVars, mainVars, spurious>>

(* ERROR: not enough threads.  The numbers next to those of the workers    *)
(* stand for all that are no worker's.                                     *)
AssignBeyond(number) ==
  /\ pc[Master] = "one"
  /\ number < 0 \/ number >= N
  /\ Goto(Master, "error")
  /\ UNCHANGED <<cmdVars, workingVars, workerVars, mainVars, spurious>>

AssignedEnough ==
  /\ pc[Master] = "one"
  /\ \A w \in Worker : Partial \/ func[w] # 0
  /\ phase' = "init"
  /\ Goto(Master, "post")
  /\ UNCHANGED <<cmdVars, workingVars, workerVars, test, assigned, spurious>>

-----------------------------------------------------------------------------
(* tst_thread_cleanup: announce FINALIZE, join the workers in turn.        *)

FinalizeSilently ==
  /\ pc[Master] = "finalize"
  /\ cmd_mutex = Free
  /\ cmd' = "finalize"
  /\ cmd_count' = cmd_count + 1
  /\ assigned' = 0
  /\ Goto(Master, "join")
  /\ UNCHANGED <<cmd_mutex, cmd_cond, workingVars, workerVars, test, phase, spurious>>

Finalize ==
  /\ pc[Master] = "finalize"
  /\ cmd_mutex = Free
  /\ cmd' = "finalize"
  /\ cmd_count' = cmd_count + 1
  /\ cmd_cond' = {}
  /\ assigned' = 0
  /\ Goto(Master, "join")
  /\ UNCHANGED <<cmd_mutex, workingVars, workerVars, test, phase, spurious>>

Join ==
  /\ pc[Master] = "join"
  /\ IF assigned < N
     THEN pc[assigned] = "gone" /\ assigned' = assigned + 1 /\ UNCHANGED pc
     ELSE assigned' = 0 /\ Goto(Master, "exit")
  /\ UNCHANGED <<cmdVars, workingVars, workerVars, test, phase, spurious>>

(* A worker that took FINALIZE calls no function, but counts itself out,   *)
(* and leaves the dispatcher.                                              *)
SkipCall(w) ==
  /\ pc[w] = "taken" /\ local_cmd[w] = "finalize"
  /\ Goto(w, "done")
  /\ UNCHANGED <<cmdVars, workingVars, workerVars, mainVars, spurious>>

ApiBeginCall(w) == local_cmd[w] # "finalize" /\ BeginCall(w)
ApiUnlockWorking(w) == local_cmd[w] # "finalize" /\ UnlockWorking(w)

ThreadReturn(w) ==
  /\ pc[w] = "unlock" /\ local_cmd[w] = "finalize"
  /\ working_mutex' = Free
  /\ Goto(w, "gone")
  /\ UNCHANGED <<cmdVars, working, working_cond, workerVars, mainVars, spurious>>

ApiWorkerStep(w) ==
  \/ LockCmd(w) \/ WaitForCmd(w) \/ TakeCmd(w) \/ EndCall(w) \/ LockWorking(w) \/ WorkerDone(w)
  \/ ApiBeginCall(w) \/ SkipCall(w) \/ ApiUnlockWorking(w) \/ ThreadReturn(w)

ApiMasterStep ==
  \/ Spawn \/ NextRound \/ Reset \/ CountOne \/ AssignedEnough
  \/ \E w \in Worker : AssignOne(w) \/ AssignAgain(w)
  \/ \E number \in {-1, N} : AssignBeyond(number)
  \/ LockPost \/ Post \/ UnlockPost \/ EndFunc
  \/ LockBarrier \/ WaitForWorkers \/ LeaveBarrier
  \/ Finalize \/ Join

Over == pc[Master] \in {"exit", "error"} /\ UNCHANGED vars

ApiNext ==
  \/ pc[Master] # "error" /\ (ApiMasterStep \/ \E w \in Worker : ApiWorkerStep(w))
  \/ SpuriousWakeup \/ Over

ApiSpec == Init /\ [][ApiNext]_vars

ApiFairSpec ==
  /\ ApiSpec
  /\ WF_vars(ApiMasterStep)
  /\ \A w \in Worker : WF_vars(ApiWorkerStep(w))

-----------------------------------------------------------------------------

(* Whatever tests a client assigns to which workers, executing them and    *)
(* shutting down returns: worker_barrier waits for the workers that were   *)
(* given work, tst_thread_cleanup waits "for the dispatcher threads to     *)
(* finish".                                                                *)
ClientReturns == <>(pc[Master] \in {"exit", "error"})

-----------------------------------------------------------------------------
(* The inductive invariant behind PhaseExclusion.                          *)

Assigned == {w \in Worker : func[w] # 0}
Executing(w) == pc[w] \in {"taken", "call", "done", "dec"}
Ending == pc[Master] \in {"join", "exit"}

(* The workers that the barrier waits for: those that were given a test    *)
(* and have not counted themselves out, and in the phases that set working *)
(* to the number of threads those that were given none, which never do.    *)
Owed ==
  {w \in Worker : IF func[w] = 0 THEN phase # "init"
                  ELSE local_count[w] < cmd_count \/ Executing(w)}

ApiTypeOK ==
  /\ cmd \in Phase \cup {"null", "finalize"} /\ cmd_count \in Nat /\ working \in Int
  /\ func \in [Worker -> 0..Tests] /\ local_count \in [Worker -> Nat]
  /\ DOMAIN state = Worker /\ DOMAIN local_cmd = Worker /\ DOMAIN pc = Thread
  /\ test \in 0..Tests /\ phase \in Phase /\ assigned \in 0..N

(* A worker executes only what has been announced, and has a test then.    *)
ApiWorkerInv ==
  \A w \in Worker :
    /\ local_count[w] <= cmd_count
    /\ ~(Posted \/ Ending) => NothingToDo(w)
    /\ Executing(w) => /\ Posted \/ Ending
                       /\ func[w] # 0 /\ local_cmd[w] = cmd /\ local_count[w] = cmd_count
    /\ pc[w] = "call" => Posted /\ state[w] = cmd

(* Only where all workers have a test does a client get past the run       *)
(* functions, so that no worker is behind when tests are assigned again.   *)
ApiMasterInv ==
  /\ pc[Master] \in {"spawn", "loop", "finalize", "reset", "one", "count"} =>
       \A w \in Worker : local_count[w] = cmd_count
  /\ pc[Master] \in {"reset", "one", "count", "post", "body"} \/ Posted => test > 0
  /\ pc[Master] = "reset" => \A w \in Worker : w < assigned => func[w] = 0
  /\ pc[Master] \in {"one", "count", "post", "body"} \/ Posted =>
       \A w \in Worker : func[w] \in {0, test}
  /\ pc[Master] = "one" => working = Cardinality(Assigned)
  /\ pc[Master] = "count" => working + 1 = Cardinality(Assigned)
  /\ pc[Master] \in {"post", "body"} =>
       /\ phase = "init" => working = Cardinality(Assigned)
       /\ \A w \in Assigned : local_count[w] = cmd_count
  /\ pc[Master] \in {"post", "body"} \/ Posted =>
       (phase = "cleanup" => Assigned = Worker)
  /\ Posted => cmd = phase /\ working = Cardinality(Owed)
  /\ Ending => cmd = "finalize"

ApiInv == ApiTypeOK /\ ApiWorkerInv /\ ApiMasterInv
=============================================================================
