------------------------ MODULE ThreadDispatchProofs ------------------------
(***************************************************************************)
(* For every number of workers, of tests and of spurious wakeups: the      *)
(* dispatcher keeps its types and the inductive invariant IInv, hence      *)
(* phase exclusion, the exact count of workers, freedom from data races    *)
(* and from lost wakeups.                                                  *)
(***************************************************************************)
EXTENDS ThreadApi, FiniteSetTheorems, TLAPS

(* The worker threads are finitely many, N of them, and none is the master *)
(* or the absent owner of a mutex.                                         *)
LEMMA WorkerFacts ==
  /\ IsFiniteSet(Worker) /\ Cardinality(Worker) = N
  /\ Master \notin Worker /\ Free \notin Worker /\ Master # Free
  /\ Worker \subseteq Int
<1>1. 0 \in Int /\ N - 1 \in Int
  BY NAssumption
<1>2. IsFiniteSet(Worker) /\ Cardinality(Worker) = N
  BY <1>1, FS_Interval, NAssumption DEF Worker
<1>3. QED
  BY <1>2, NAssumption DEF Worker, Master, Free

(* A worker that locks cmd_mutex keeps the invariant: it becomes the owner *)
(* and changes nothing else.                                               *)
LEMMA LockCmdInv ==
  ASSUME IInv, NEW v \in Worker, LockCmd(v)
  PROVE  IInv'
<1> USE WorkerFacts DEF Thread, Goto, cmdVars, workingVars, workerVars, mainVars
<1>1. TypeOK'
  BY DEF IInv, TypeOK, LockCmd, Phase, WorkerPC, MasterPC
<1>2. MutexInv'
  BY DEF IInv, TypeOK, MutexInv, WorkerInv, LockCmd
<1>3. WorkerInv'
  BY DEF IInv, TypeOK, MutexInv, WorkerInv, LockCmd, Posted
<1>4. MasterInv'
  <2>1. Outstanding' = Outstanding
    BY DEF IInv, TypeOK, WorkerInv, LockCmd, Outstanding, Posted
  <2>2. QED
    BY <2>1 DEF IInv, TypeOK, MasterInv, LockCmd, Posted, StepNo
<1>5. QED
  BY <1>1, <1>2, <1>3, <1>4 DEF IInv

(* A worker that blocks on cmd_cond keeps the invariant: while it owns the *)
(* mutex, it has nothing to do only if it has executed the last command,   *)
(* for between announcement and barrier every worker has a function.       *)
LEMMA WaitForCmdInv ==
  ASSUME IInv, NEW v \in Worker, WaitForCmd(v)
  PROVE  IInv'
<1> USE WorkerFacts DEF Thread, Goto, cmdVars, workingVars, workerVars, mainVars
<1>1. TypeOK'
  BY DEF IInv, TypeOK, WaitForCmd, Phase, WorkerPC, MasterPC
<1>2. MutexInv'
  BY DEF IInv, TypeOK, MutexInv, WorkerInv, WaitForCmd
<1>3. WorkerInv'
  BY DEF IInv, TypeOK, MutexInv, WorkerInv, MasterInv, WaitForCmd, NothingToDo, Posted
<1>4. MasterInv'
  <2>1. Outstanding' = Outstanding
    BY DEF IInv, TypeOK, WorkerInv, WaitForCmd, Outstanding, Posted
  <2>2. QED
    BY <2>1 DEF IInv, TypeOK, MasterInv, WaitForCmd, Posted, StepNo
<1>5. QED
  BY <1>1, <1>2, <1>3, <1>4 DEF IInv

(* A worker that takes a command keeps the invariant: it can do so only    *)
(* between the announcement and the barrier, and stays outstanding.        *)
LEMMA TakeCmdInv ==
  ASSUME IInv, NEW v \in Worker, TakeCmd(v)
  PROVE  IInv'
<1> USE WorkerFacts DEF Thread, Goto, cmdVars, workingVars, workerVars, mainVars
<1>1. TypeOK'
  BY DEF IInv, TypeOK, TakeCmd, Phase, WorkerPC, MasterPC
<1>2. MutexInv'
  BY DEF IInv, TypeOK, MutexInv, WorkerInv, TakeCmd
<1>3. WorkerInv'
  BY DEF IInv, TypeOK, MutexInv, WorkerInv, TakeCmd, NothingToDo, Posted
<1>4. MasterInv'
  <2>1. Outstanding' = Outstanding
    BY DEF IInv, TypeOK, WorkerInv, TakeCmd, NothingToDo, Outstanding, Posted
  <2>2. QED
    BY <2>1 DEF IInv, TypeOK, MasterInv, TakeCmd, Posted, StepNo
<1>5. QED
  BY <1>1, <1>2, <1>3, <1>4 DEF IInv

(* A worker that enters a test function keeps the invariant: its state is  *)
(* the command it took, which is one of the three phases.                  *)
LEMMA BeginCallInv ==
  ASSUME IInv, NEW v \in Worker, BeginCall(v)
  PROVE  IInv'
<1> USE WorkerFacts DEF Thread, Goto, cmdVars, workingVars, workerVars, mainVars
<1>1. TypeOK'
  <2>1. local_cmd[v] \in Phase
    BY DEF IInv, TypeOK, WorkerInv, MasterInv, BeginCall
  <2>2. QED
    BY <2>1 DEF IInv, TypeOK, BeginCall, WorkerPC, MasterPC
<1>2. MutexInv'
  BY DEF IInv, TypeOK, MutexInv, WorkerInv, BeginCall
<1>3. WorkerInv'
  BY DEF IInv, TypeOK, MutexInv, WorkerInv, BeginCall, Posted
<1>4. MasterInv'
  <2>1. Outstanding' = Outstanding
    BY DEF IInv, TypeOK, WorkerInv, BeginCall, Outstanding, Posted
  <2>2. QED
    BY <2>1 DEF IInv, TypeOK, MasterInv, BeginCall, Posted, StepNo
<1>5. QED
  BY <1>1, <1>2, <1>3, <1>4 DEF IInv

(* A worker that returns from a test function keeps the invariant: it is   *)
(* idle again and still outstanding.                                       *)
LEMMA EndCallInv ==
  ASSUME IInv, NEW v \in Worker, EndCall(v)
  PROVE  IInv'
<1> USE WorkerFacts DEF Thread, Goto, cmdVars, workingVars, workerVars, mainVars
<1>1. TypeOK'
  BY DEF IInv, TypeOK, EndCall, Phase, WorkerPC, MasterPC
<1>2. MutexInv'
  BY DEF IInv, TypeOK, MutexInv, WorkerInv, EndCall
<1>3. WorkerInv'
  BY DEF IInv, TypeOK, MutexInv, WorkerInv, EndCall, Posted
<1>4. MasterInv'
  <2>1. Outstanding' = Outstanding
    BY DEF IInv, TypeOK, WorkerInv, EndCall, Outstanding, Posted
  <2>2. QED
    BY <2>1 DEF IInv, TypeOK, MasterInv, EndCall, Posted, StepNo
<1>5. QED
  BY <1>1, <1>2, <1>3, <1>4 DEF IInv

(* A worker that locks working_mutex to count itself out keeps the         *)
(* invariant.                                                              *)
LEMMA LockWorkingInv ==
  ASSUME IInv, NEW v \in Worker, LockWorking(v)
  PROVE  IInv'
<1> USE WorkerFacts DEF Thread, Goto, cmdVars, workingVars, workerVars, mainVars
<1>1. TypeOK'
  BY DEF IInv, TypeOK, LockWorking, Phase, WorkerPC, MasterPC
<1>2. MutexInv'
  BY DEF IInv, TypeOK, MutexInv, WorkerInv, LockWorking
<1>3. WorkerInv'
  BY DEF IInv, TypeOK, MutexInv, WorkerInv, LockWorking, Posted
<1>4. MasterInv'
  <2>1. Outstanding' = Outstanding
    BY DEF IInv, TypeOK, WorkerInv, LockWorking, Outstanding, Posted
  <2>2. QED
    BY <2>1 DEF IInv, TypeOK, MasterInv, LockWorking, Posted, StepNo
<1>5. QED
  BY <1>1, <1>2, <1>3, <1>4 DEF IInv

(* A worker that counts itself out keeps the invariant: working and the    *)
(* number of outstanding workers both drop by one.                         *)
LEMMA WorkerDoneInv ==
  ASSUME IInv, NEW v \in Worker, WorkerDone(v)
  PROVE  IInv'
<1> USE WorkerFacts DEF Thread, Goto, cmdVars, workingVars, workerVars, mainVars
<1>1. TypeOK'
  BY DEF IInv, TypeOK, WorkerDone, Phase, WorkerPC, MasterPC
<1>2. MutexInv'
  BY DEF IInv, TypeOK, MutexInv, WorkerInv, WorkerDone
<1>3. WorkerInv'
  BY DEF IInv, TypeOK, MutexInv, WorkerInv, WorkerDone, Posted
<1>4. MasterInv'
  <2>1. v \in Outstanding /\ Outstanding' = Outstanding \ {v}
    BY DEF IInv, TypeOK, WorkerInv, WorkerDone, Outstanding, Posted
  <2>2. Outstanding \subseteq Worker
    BY DEF Outstanding
  <2>3. IsFiniteSet(Outstanding)
    BY <2>2, FS_Subset
  <2>4. Cardinality(Outstanding') = Cardinality(Outstanding) - 1
    BY <2>1, <2>3, FS_RemoveElement
  <2>5. Posted /\ Posted' /\ pc[Master] = pc'[Master]
    BY DEF IInv, TypeOK, WorkerInv, WorkerDone, Posted
  <2>6. working' = Cardinality(Outstanding')
    BY <2>4, <2>5 DEF IInv, MasterInv, WorkerDone
  <2>7. working_cond' # {} => pc'[Master] = "barrier" /\ working' > 0
    BY <2>5 DEF IInv, TypeOK, MasterInv, WorkerDone
  <2>8. QED
    BY <2>5, <2>6, <2>7 DEF IInv, MasterInv, WorkerDone, Posted, StepNo
<1>5. QED
  BY <1>1, <1>2, <1>3, <1>4 DEF IInv

(* A worker that leaves worker_done keeps the invariant.                   *)
LEMMA UnlockWorkingInv ==
  ASSUME IInv, NEW v \in Worker, UnlockWorking(v)
  PROVE  IInv'
<1> USE WorkerFacts DEF Thread, Goto, cmdVars, workingVars, workerVars, mainVars
<1>1. TypeOK'
  BY DEF IInv, TypeOK, UnlockWorking, Phase, WorkerPC, MasterPC
<1>2. MutexInv'
  BY DEF IInv, TypeOK, MutexInv, WorkerInv, UnlockWorking
<1>3. WorkerInv'
  BY DEF IInv, TypeOK, MutexInv, WorkerInv, UnlockWorking, Posted
<1>4. MasterInv'
  <2>1. Outstanding' = Outstanding
    BY DEF IInv, TypeOK, WorkerInv, UnlockWorking, Outstanding, Posted
  <2>2. QED
    BY <2>1 DEF IInv, TypeOK, MasterInv, UnlockWorking, Posted, StepNo
<1>5. QED
  BY <1>1, <1>2, <1>3, <1>4 DEF IInv

(* The creation of a worker keeps the invariant: the workers from the loop *)
(* index on are those not yet born.                                        *)
LEMMA SpawnInv ==
  ASSUME IInv, Spawn
  PROVE  IInv'
<1> USE WorkerFacts, NAssumption DEF Thread, Goto, cmdVars, workingVars, workerVars
<1>1. CASE assigned < N
  <2>1. assigned \in Worker
    BY <1>1 DEF IInv, TypeOK, Worker
  <2>2. /\ assigned' = assigned + 1
        /\ pc' = [pc EXCEPT ![assigned] = "lock"]
    BY <1>1 DEF Spawn
  <2>3. pc[assigned] = "unborn" /\ pc[Master] = "spawn"
    BY <2>1 DEF IInv, TypeOK, WorkerInv, Spawn
  <2>4. TypeOK'
    BY <1>1, <2>1, <2>2 DEF IInv, TypeOK, Spawn, WorkerPC, MasterPC
  <2>5. MutexInv'
    BY <2>1, <2>2, <2>3 DEF IInv, TypeOK, MutexInv, Spawn
  <2>6. WorkerInv'
    BY <2>1, <2>2, <2>3 DEF IInv, TypeOK, WorkerInv, Spawn, Posted, Worker
  <2>7. MasterInv'
    BY <2>1, <2>2, <2>3 DEF IInv, TypeOK, MasterInv, Spawn, Posted
  <2>8. QED
    BY <2>4, <2>5, <2>6, <2>7 DEF IInv
<1>2. CASE ~(assigned < N)
  <2>1. assigned' = 0 /\ pc' = [pc EXCEPT ![Master] = "loop"]
    BY <1>2 DEF Spawn
  <2>2. \A w \in Worker : pc[w] # "unborn"
    BY <1>2 DEF IInv, TypeOK, WorkerInv, Spawn, Worker
  <2>3. TypeOK'
    BY <2>1 DEF IInv, TypeOK, Spawn, WorkerPC, MasterPC
  <2>4. MutexInv'
    BY <2>1 DEF IInv, TypeOK, MutexInv, Spawn
  <2>5. WorkerInv'
    BY <2>1, <2>2 DEF IInv, TypeOK, WorkerInv, Spawn, Posted
  <2>6. MasterInv'
    BY <2>1 DEF IInv, TypeOK, MasterInv, Spawn, Posted
  <2>7. QED
    BY <2>3, <2>4, <2>5, <2>6 DEF IInv
<1>3. QED
  BY <1>1, <1>2

(* The next iteration of the test loop keeps the invariant: three commands *)
(* of every test before it were announced.                                 *)
LEMMA NextTestInv ==
  ASSUME IInv, NextTest
  PROVE  IInv'
<1> USE WorkerFacts DEF Thread, Goto, cmdVars, workingVars, workerVars, mainVars
<1>1. TypeOK'
  <2>1. test' \in 0..Tests /\ assigned' \in 0..N
    BY NAssumption, TestsAssumption DEF IInv, TypeOK, NextTest
  <2>2. \E l \in {"assign", "exit"} : pc' = [pc EXCEPT ![Master] = l]
    BY DEF NextTest
  <2>3. /\ pc' \in [Thread -> WorkerPC \cup MasterPC]
        /\ \A w \in Worker : pc'[w] \in WorkerPC
        /\ pc'[Master] \in MasterPC
    BY <2>2 DEF IInv, TypeOK, MasterPC
  <2>4. QED
    BY <2>1, <2>3 DEF IInv, TypeOK, NextTest
<1>2. MutexInv'
  BY DEF IInv, TypeOK, MutexInv, WorkerInv, NextTest
<1>3. WorkerInv'
  BY DEF IInv, TypeOK, MutexInv, WorkerInv, NextTest, Posted
<1>4. MasterInv'
  <2>1. Outstanding' = Outstanding
    BY DEF IInv, TypeOK, WorkerInv, NextTest, Outstanding, Posted
  <2>2. CASE test < Tests
    BY <2>2, TestsAssumption DEF IInv, TypeOK, MasterInv, NextTest, Posted, Worker
  <2>3. CASE ~(test < Tests)
    BY <2>3, TestsAssumption DEF IInv, TypeOK, MasterInv, NextTest, Posted
  <2>4. QED
    BY <2>2, <2>3
<1>5. QED
  BY <1>1, <1>2, <1>3, <1>4 DEF IInv

(* Writing the functions of one worker in assign_all keeps the invariant:  *)
(* the workers below the loop index have those of the test.                *)
LEMMA AssignInv ==
  ASSUME IInv, Assign
  PROVE  IInv'
<1> USE WorkerFacts DEF Thread, Goto, cmdVars, workingVars, workerVars, mainVars
<1>1. TypeOK'
  <2>1. CASE assigned < N
    BY <2>1, NAssumption DEF IInv, TypeOK, Assign
  <2>2. CASE ~(assigned < N)
    <3>1. pc' = [pc EXCEPT ![Master] = "assigned"] /\ UNCHANGED <<func, assigned>>
      BY <2>2 DEF Assign
    <3>2. /\ pc' \in [Thread -> WorkerPC \cup MasterPC]
          /\ \A w \in Worker : pc'[w] \in WorkerPC
          /\ pc'[Master] \in MasterPC
      BY <3>1 DEF IInv, TypeOK, MasterPC
    <3>3. QED
      BY <3>1, <3>2 DEF IInv, TypeOK, Assign
  <2>3. QED
    BY <2>1, <2>2
<1>2. MutexInv'
  BY DEF IInv, TypeOK, MutexInv, WorkerInv, Assign
<1>3. WorkerInv'
  BY DEF IInv, TypeOK, MutexInv, WorkerInv, Assign, Posted
<1>4. MasterInv'
  <2>1. Outstanding' = Outstanding
    BY DEF IInv, TypeOK, WorkerInv, Assign, Outstanding, Posted
  <2>2. CASE assigned < N
    BY <2>2, NAssumption DEF IInv, TypeOK, MasterInv, Assign, Posted, Worker
  <2>3. CASE ~(assigned < N)
    BY <2>3, NAssumption DEF IInv, TypeOK, MasterInv, Assign, Posted, Worker
  <2>4. QED
    BY <2>2, <2>3
<1>5. QED
  BY <1>1, <1>2, <1>3, <1>4 DEF IInv

(* Setting working at the end of assign_all keeps the invariant.           *)
LEMMA AssignWorkingInv ==
  ASSUME IInv, AssignWorking
  PROVE  IInv'
<1> USE WorkerFacts DEF Thread, Goto, cmdVars, workingVars, workerVars, mainVars
<1>1. TypeOK'
  BY NAssumption, TestsAssumption, SpuriousAssumption DEF IInv, TypeOK, AssignWorking, Phase, WorkerPC, MasterPC
<1>2. MutexInv'
  BY DEF IInv, TypeOK, MutexInv, WorkerInv, AssignWorking
<1>3. WorkerInv'
  BY DEF IInv, TypeOK, MutexInv, WorkerInv, AssignWorking, Posted
<1>4. MasterInv'
  <2>1. Outstanding' = Outstanding
    BY DEF IInv, TypeOK, WorkerInv, AssignWorking, Outstanding, Posted
  <2>2. QED
    BY <2>1 DEF IInv, TypeOK, MasterInv, AssignWorking, Posted, StepNo
<1>5. QED
  BY <1>1, <1>2, <1>3, <1>4 DEF IInv

(* The master that locks cmd_mutex to announce a command keeps the         *)
(* invariant.                                                              *)
LEMMA LockPostInv ==
  ASSUME IInv, LockPost
  PROVE  IInv'
<1> USE WorkerFacts DEF Thread, Goto, cmdVars, workingVars, workerVars, mainVars
<1>1. TypeOK'
  BY NAssumption, TestsAssumption, SpuriousAssumption DEF IInv, TypeOK, LockPost, Phase, WorkerPC, MasterPC
<1>2. MutexInv'
  BY DEF IInv, TypeOK, MutexInv, WorkerInv, LockPost
<1>3. WorkerInv'
  BY DEF IInv, TypeOK, MutexInv, WorkerInv, LockPost, Posted
<1>4. MasterInv'
  <2>1. Outstanding' = Outstanding
    BY DEF IInv, TypeOK, WorkerInv, LockPost, Outstanding, Posted
  <2>2. QED
    BY <2>1 DEF IInv, TypeOK, MasterInv, LockPost, Posted, StepNo
<1>5. QED
  BY <1>1, <1>2, <1>3, <1>4 DEF IInv

(* The announcement of a command keeps the invariant: all workers become   *)
(* outstanding, N of them, and working is N, be it set here (run, cleanup) *)
(* or by assign_all (init).                                                *)
LEMMA PostInv ==
  ASSUME IInv, Post
  PROVE  IInv'
<1> USE WorkerFacts DEF Thread, Goto, cmdVars, workingVars, workerVars, mainVars
<1>1. TypeOK'
  BY NAssumption, TestsAssumption, SpuriousAssumption DEF IInv, TypeOK, Post, Phase, WorkerPC, MasterPC
<1>2. MutexInv'
  BY DEF IInv, TypeOK, MutexInv, WorkerInv, Post
<1>3. WorkerInv'
  <2>1. /\ ~Posted /\ Posted' /\ cmd_count' = cmd_count + 1 /\ cmd_cond' = {}
        /\ UNCHANGED <<local_count, local_cmd, state>>
        /\ \A w \in Worker : pc'[w] = pc[w]
        /\ pc[Master] # "spawn" /\ pc'[Master] # "spawn"
    BY DEF IInv, TypeOK, Post, Posted
  <2>2. \A w \in Worker : /\ local_count[w] = cmd_count
                          /\ pc[w] \in {"lock", "wait", "test"}
    <3>1. \A w \in Worker : pc[w] \in WorkerPC /\ pc[w] # "unborn"
      BY <2>1 DEF IInv, TypeOK, WorkerInv
    <3>2. QED
      BY <2>1, <3>1 DEF IInv, WorkerInv, WorkerPC
  <2>3. QED
    BY <2>1, <2>2 DEF IInv, TypeOK, WorkerInv
<1>4. MasterInv'
  <2>1. \A w \in Worker : local_count[w] = cmd_count
    BY DEF IInv, WorkerInv, Post, Posted
  <2>2. Outstanding' = Worker
    <3>1. \A w \in Worker : local_count'[w] < cmd_count'
      BY <2>1 DEF IInv, TypeOK, Post
    <3>2. QED
      BY <3>1 DEF Outstanding
  <2>3. working' = Cardinality(Outstanding')
    BY <2>2 DEF IInv, MasterInv, Post
  <2>4. working_cond' = {}
    BY DEF IInv, MasterInv, Post
  <2>5. /\ test > 0 /\ cmd' = phase /\ cmd_count' = StepNo(test, phase)
        /\ \A w \in Worker : func[w] = test
        /\ pc'[Master] = "posted"
        /\ UNCHANGED <<test, phase, func>>
    BY DEF IInv, TypeOK, MasterInv, Post, StepNo, Phase
  <2>6. QED
    BY <2>3, <2>4, <2>5 DEF MasterInv, Posted, StepNo
<1>5. QED
  BY <1>1, <1>2, <1>3, <1>4 DEF IInv

(* The master that releases cmd_mutex and enters its own test function     *)
(* keeps the invariant.                                                    *)
LEMMA UnlockPostInv ==
  ASSUME IInv, UnlockPost
  PROVE  IInv'
<1> USE WorkerFacts DEF Thread, Goto, cmdVars, workingVars, workerVars, mainVars
<1>1. TypeOK'
  BY NAssumption, TestsAssumption, SpuriousAssumption DEF IInv, TypeOK, UnlockPost, Phase, WorkerPC, MasterPC
<1>2. MutexInv'
  BY DEF IInv, TypeOK, MutexInv, WorkerInv, UnlockPost
<1>3. WorkerInv'
  BY DEF IInv, TypeOK, MutexInv, WorkerInv, UnlockPost, Posted
<1>4. MasterInv'
  <2>1. Outstanding' = Outstanding
    BY DEF IInv, TypeOK, WorkerInv, UnlockPost, Outstanding, Posted
  <2>2. QED
    BY <2>1 DEF IInv, TypeOK, MasterInv, UnlockPost, Posted, StepNo
<1>5. QED
  BY <1>1, <1>2, <1>3, <1>4 DEF IInv

(* The master that returns from its own test function keeps the invariant. *)
LEMMA EndFuncInv ==
  ASSUME IInv, EndFunc
  PROVE  IInv'
<1> USE WorkerFacts DEF Thread, Goto, cmdVars, workingVars, workerVars, mainVars
<1>1. TypeOK'
  BY NAssumption, TestsAssumption, SpuriousAssumption DEF IInv, TypeOK, EndFunc, Phase, WorkerPC, MasterPC
<1>2. MutexInv'
  BY DEF IInv, TypeOK, MutexInv, WorkerInv, EndFunc
<1>3. WorkerInv'
  BY DEF IInv, TypeOK, MutexInv, WorkerInv, EndFunc, Posted
<1>4. MasterInv'
  <2>1. Outstanding' = Outstanding
    BY DEF IInv, TypeOK, WorkerInv, EndFunc, Outstanding, Posted
  <2>2. QED
    BY <2>1 DEF IInv, TypeOK, MasterInv, EndFunc, Posted, StepNo
<1>5. QED
  BY <1>1, <1>2, <1>3, <1>4 DEF IInv

(* The master that locks working_mutex in worker_barrier keeps the         *)
(* invariant.                                                              *)
LEMMA LockBarrierInv ==
  ASSUME IInv, LockBarrier
  PROVE  IInv'
<1> USE WorkerFacts DEF Thread, Goto, cmdVars, workingVars, workerVars, mainVars
<1>1. TypeOK'
  BY NAssumption, TestsAssumption, SpuriousAssumption DEF IInv, TypeOK, LockBarrier, Phase, WorkerPC, MasterPC
<1>2. MutexInv'
  BY DEF IInv, TypeOK, MutexInv, WorkerInv, LockBarrier
<1>3. WorkerInv'
  BY DEF IInv, TypeOK, MutexInv, WorkerInv, LockBarrier, Posted
<1>4. MasterInv'
  <2>1. Outstanding' = Outstanding
    BY DEF IInv, TypeOK, WorkerInv, LockBarrier, Outstanding, Posted
  <2>2. QED
    BY <2>1, ZenonT(30) DEF IInv, TypeOK, MasterInv, LockBarrier, Posted, StepNo
<1>5. QED
  BY <1>1, <1>2, <1>3, <1>4 DEF IInv

(* The master that blocks on working_cond keeps the invariant: some worker *)
(* is still outstanding.                                                   *)
LEMMA WaitForWorkersInv ==
  ASSUME IInv, WaitForWorkers
  PROVE  IInv'
<1> USE WorkerFacts DEF Thread, Goto, cmdVars, workingVars, workerVars, mainVars
<1>1. TypeOK'
  BY NAssumption, TestsAssumption, SpuriousAssumption DEF IInv, TypeOK, WaitForWorkers, Phase, WorkerPC, MasterPC
<1>2. MutexInv'
  BY DEF IInv, TypeOK, MutexInv, WorkerInv, WaitForWorkers
<1>3. WorkerInv'
  BY DEF IInv, TypeOK, MutexInv, WorkerInv, WaitForWorkers, Posted
<1>4. MasterInv'
  <2>1. Outstanding' = Outstanding
    BY DEF IInv, TypeOK, WorkerInv, WaitForWorkers, Outstanding, Posted
  <2>2. QED
    BY <2>1 DEF IInv, TypeOK, MasterInv, WaitForWorkers, Posted, StepNo
<1>5. QED
  BY <1>1, <1>2, <1>3, <1>4 DEF IInv

(* The master that leaves worker_barrier keeps the invariant: working is   *)
(* 0, so no worker is outstanding, and all have executed the command.      *)
LEMMA LeaveBarrierInv ==
  ASSUME IInv, LeaveBarrier
  PROVE  IInv'
<1> USE WorkerFacts DEF Thread, Goto, cmdVars, workingVars, workerVars, mainVars
<1>1. TypeOK'
  BY NAssumption, TestsAssumption, SpuriousAssumption DEF IInv, TypeOK, LeaveBarrier, Phase, WorkerPC, MasterPC
<1>2. MutexInv'
  BY DEF IInv, TypeOK, MutexInv, WorkerInv, LeaveBarrier
<1>3. WorkerInv'
  <2>1. Outstanding = {}
    <3>1. Outstanding \subseteq Worker
      BY DEF Outstanding
    <3>2. IsFiniteSet(Outstanding)
      BY <3>1, FS_Subset
    <3>3. Cardinality(Outstanding) \in Nat /\ Cardinality(Outstanding) <= 0
      BY <3>2, FS_CardinalityType DEF IInv, MasterInv, LeaveBarrier, Posted
    <3>4. QED
      BY <3>2, <3>3, FS_EmptySet
  <2>2. \A w \in Worker : pc[w] \notin {"dec", "unlock"}
    BY DEF IInv, MutexInv, LeaveBarrier
  <2>3. \A w \in Worker : /\ local_count[w] = cmd_count
                          /\ pc[w] \in {"lock", "wait", "test"}
    <3>1. \A w \in Worker : local_count[w] = cmd_count
      BY <2>1 DEF IInv, TypeOK, WorkerInv, Outstanding
    <3>2. \A w \in Worker : pc[w] \in WorkerPC /\ pc[w] # "unborn"
      BY DEF IInv, TypeOK, WorkerInv, LeaveBarrier
    <3>3. QED
      BY <2>1, <2>2, <3>1, <3>2 DEF Outstanding, WorkerPC
  <2>4. /\ \A w \in Worker : pc'[w] = pc[w]
        /\ pc'[Master] # "spawn" /\ pc[Master] # "spawn"
        /\ UNCHANGED <<local_count, local_cmd, state, cmd_cond, cmd_count, assigned>>
    BY DEF IInv, TypeOK, LeaveBarrier
  <2>5. QED
    BY <2>3, <2>4 DEF IInv, WorkerInv
<1>4. MasterInv'
  <2>1. /\ test > 0 /\ cmd_count = StepNo(test, phase)
        /\ \A w \in Worker : func[w] = test
        /\ working_cond = {}
    BY DEF IInv, MasterInv, LeaveBarrier, Posted
  <2>2. CASE phase = "init"
    BY <2>1, <2>2 DEF IInv, TypeOK, MasterInv, LeaveBarrier, Posted, StepNo
  <2>3. CASE phase = "run"
    BY <2>1, <2>3 DEF IInv, TypeOK, MasterInv, LeaveBarrier, Posted, StepNo
  <2>4. CASE phase = "cleanup"
    BY <2>1, <2>4 DEF IInv, TypeOK, MasterInv, LeaveBarrier, Posted, StepNo
  <2>5. QED
    BY <2>2, <2>3, <2>4 DEF IInv, TypeOK, Phase
<1>5. QED
  BY <1>1, <1>2, <1>3, <1>4 DEF IInv

(* A spurious wakeup keeps the invariant: the conditions are tested again. *)
LEMMA SpuriousWakeupInv ==
  ASSUME IInv, SpuriousWakeup
  PROVE  IInv'
<1> USE WorkerFacts DEF Thread, Goto, cmdVars, workingVars, workerVars, mainVars
<1>1. TypeOK'
  <2>1. /\ cmd_cond' \in SUBSET Worker
        /\ working_cond' \in SUBSET {Master}
        /\ spurious' \in 0..MaxSpurious
    <3>1. spurious' \in 0..MaxSpurious
      BY SpuriousAssumption DEF IInv, TypeOK, SpuriousWakeup
    <3>2. cmd_cond' \subseteq cmd_cond /\ working_cond' \subseteq working_cond
      BY DEF SpuriousWakeup
    <3>3. QED
      BY <3>1, <3>2 DEF IInv, TypeOK
  <2>2. QED
    BY <2>1 DEF IInv, TypeOK, SpuriousWakeup
<1>2. MutexInv'
  BY DEF IInv, TypeOK, MutexInv, WorkerInv, SpuriousWakeup
<1>3. WorkerInv'
  BY DEF IInv, TypeOK, MutexInv, WorkerInv, SpuriousWakeup, Posted
<1>4. MasterInv'
  <2>1. Outstanding' = Outstanding
    BY DEF IInv, TypeOK, WorkerInv, SpuriousWakeup, Outstanding, Posted
  <2>2. QED
    BY <2>1 DEF IInv, TypeOK, MasterInv, SpuriousWakeup, Posted, StepNo
<1>5. QED
  BY <1>1, <1>2, <1>3, <1>4 DEF IInv

(* The invariant holds before the first worker is created.                 *)
LEMMA InitInv == Init => IInv
<1> SUFFICES ASSUME Init PROVE IInv
  OBVIOUS
<1> USE WorkerFacts, NAssumption, TestsAssumption, SpuriousAssumption DEF Init, Thread
<1>1. TypeOK
  BY DEF TypeOK, Phase, WorkerPC, MasterPC
<1>2. MutexInv
  BY DEF MutexInv
<1>3. WorkerInv
  BY DEF WorkerInv, Worker, Posted
<1>4. MasterInv
  BY DEF MasterInv, Posted
<1>5. QED
  BY <1>1, <1>2, <1>3, <1>4 DEF IInv

(* A step that changes no variable keeps the invariant.                    *)
LEMMA StutterInv ==
  ASSUME IInv, UNCHANGED vars
  PROVE  IInv'
<1> USE DEF vars, cmdVars, workingVars, workerVars, mainVars
<1>1. TypeOK'
  BY DEF IInv, TypeOK
<1>2. MutexInv'
  BY DEF IInv, MutexInv
<1>3. WorkerInv'
  BY DEF IInv, WorkerInv, Posted
<1>4. MasterInv'
  BY DEF IInv, MasterInv, Outstanding, Posted, StepNo
<1>5. QED
  BY <1>1, <1>2, <1>3, <1>4 DEF IInv

(* Every step keeps the invariant: one lemma for each action.              *)
LEMMA NextInv == IInv /\ [Next]_vars => IInv'
<1> SUFFICES ASSUME IInv, [Next]_vars PROVE IInv'
  OBVIOUS
<1>1. CASE MasterStep
  BY <1>1, SpawnInv, NextTestInv, AssignInv, AssignWorkingInv, LockPostInv, PostInv,
     UnlockPostInv, EndFuncInv, LockBarrierInv, WaitForWorkersInv, LeaveBarrierInv
     DEF MasterStep
<1>2. ASSUME NEW v \in Worker, WorkerStep(v) PROVE IInv'
  BY <1>2, LockCmdInv, WaitForCmdInv, TakeCmdInv, BeginCallInv, EndCallInv,
     LockWorkingInv, WorkerDoneInv, UnlockWorkingInv DEF WorkerStep
<1>3. CASE SpuriousWakeup
  BY <1>3, SpuriousWakeupInv
<1>4. CASE Exited \/ UNCHANGED vars
  BY <1>4, StutterInv DEF Exited
<1>5. QED
  BY <1>1, <1>2, <1>3, <1>4 DEF Next

(* The invariant that carries all the others: where each worker may be     *)
(* while the master is at each place of execute_init, _run and _cleanup.   *)
THEOREM Invariance == Spec => []IInv
<1>1. Init => IInv
  BY InitInv
<1>2. IInv /\ [Next]_vars => IInv'
  BY NextInv
<1>3. QED
  BY <1>1, <1>2, PTL DEF Spec

(* The properties the runs check on small instances, for all instances.    *)

(* Every variable keeps the type it has in the code.                       *)
THEOREM TypeCorrectness == Spec => []TypeOK
BY Invariance, PTL DEF IInv

(* worker_barrier counts right: from the announcement of a command to its  *)
(* barrier, working is the number of workers that have not finished it.    *)
THEOREM CountCorrectness == Spec => []WorkingCounts
<1>1. IInv => WorkingCounts
  BY DEF IInv, MasterInv, WorkingCounts, Posted
<1>2. QED
  BY <1>1, Invariance, PTL

(* The writes that execute_run, execute_cleanup and assign_all make        *)
(* without the workers' lock meet no worker that reads or writes the same. *)
THEOREM RaceFreedom == Spec => []NoDataRace
<1>1. IInv => NoDataRace
  BY DEF IInv, WorkerInv, NoDataRace, Posted
<1>2. QED
  BY <1>1, Invariance, PTL

(* A blocked worker has nothing left to do, a blocked master has a worker  *)
(* to wait for.                                                            *)
THEOREM WakeupsKept == Spec => []NoLostWakeup
<1>1. IInv => NoLostWakeup
  <2>1. SUFFICES ASSUME IInv PROVE NoLostWakeup
    OBVIOUS
  <2>2. \A w \in cmd_cond : local_count[w] = cmd_count
    BY <2>1 DEF IInv, TypeOK, WorkerInv
  <2>3. ASSUME working_cond # {} PROVE Outstanding # {}
    <3>1. working = Cardinality(Outstanding) /\ working > 0
      BY <2>1, <2>3 DEF IInv, MasterInv, Posted
    <3>2. QED
      BY <3>1, FS_EmptySet
  <2>4. QED
    BY <2>2, <2>3 DEF NoLostWakeup
<1>2. QED
  BY <1>1, Invariance, PTL

(* Nobody is in a function of one test or phase while somebody else is in  *)
(* that of another one.                                                    *)
THEOREM Exclusion == Spec => []PhaseExclusion
<1>1. IInv => PhaseExclusion
  <2>1. SUFFICES ASSUME IInv, NEW t \in Thread, JobOf(t) # 0
                 PROVE  JobOf(t) = StepNo(test, phase)
    BY DEF PhaseExclusion
  <2>2. CASE t = Master
    BY <2>1, <2>2 DEF JobOf
  <2>3. CASE t \in Worker
    <3>1. pc[t] = "call" /\ JobOf(t) = StepNo(func[t], state[t])
      BY <2>1, <2>3, WorkerFacts DEF JobOf
    <3>2. Posted /\ state[t] = cmd
      BY <2>1, <2>3, <3>1 DEF IInv, WorkerInv
    <3>3. func[t] = test /\ state[t] = phase
      BY <2>1, <2>3, <3>2 DEF IInv, MasterInv
    <3>4. QED
      BY <3>1, <3>3
  <2>4. QED
    BY <2>2, <2>3 DEF Thread
<1>2. QED
  BY <1>1, Invariance, PTL

-----------------------------------------------------------------------------
(* The refinement: every step of the dispatcher is a step of LockStep or   *)
(* leaves the announced step, the jobs and the counts of ended steps alone.*)

(* What a step must keep for LockStep not to see it.                       *)
LEMMA Silent ==
  ASSUME cmd_count' = cmd_count,
         \A t \in Thread : JobOf(t)' = JobOf(t) /\ EndedOf(t)' = EndedOf(t)
  PROVE  UNCHANGED Promise!vars
BY DEF Jobs, Ends, Promise!vars

(* What LockStep does not see of a worker: waiting for a command, taking   *)
(* it and counting itself out.                                             *)
LEMMA SilentWorkerSteps ==
  ASSUME IInv, NEW v \in Worker,
         LockCmd(v) \/ WaitForCmd(v) \/ TakeCmd(v)
         \/ LockWorking(v) \/ WorkerDone(v) \/ UnlockWorking(v)
  PROVE  UNCHANGED Promise!vars
<1> USE WorkerFacts DEF Thread, Goto, cmdVars, workingVars, workerVars, mainVars
<1>1. CASE LockCmd(v)
  <2>1. cmd_count' = cmd_count
    BY <1>1 DEF LockCmd
  <2>2. \A t \in Thread : JobOf(t)' = JobOf(t) /\ EndedOf(t)' = EndedOf(t)
    BY <1>1 DEF LockCmd, IInv, TypeOK, JobOf, EndedOf
  <2>3. QED
    BY <2>1, <2>2, Silent
<1>2. CASE WaitForCmd(v)
  <2>1. cmd_count' = cmd_count
    BY <1>2 DEF WaitForCmd
  <2>2. \A t \in Thread : JobOf(t)' = JobOf(t) /\ EndedOf(t)' = EndedOf(t)
    BY <1>2 DEF WaitForCmd, IInv, TypeOK, JobOf, EndedOf
  <2>3. QED
    BY <2>1, <2>2, Silent
<1>3. CASE TakeCmd(v)
  <2>1. cmd_count' = cmd_count
    BY <1>3 DEF TakeCmd
  <2>2. \A t \in Thread : JobOf(t)' = JobOf(t) /\ EndedOf(t)' = EndedOf(t)
    BY <1>3 DEF TakeCmd, IInv, TypeOK, JobOf, EndedOf, WorkerInv, NothingToDo
  <2>3. QED
    BY <2>1, <2>2, Silent
<1>4. CASE LockWorking(v)
  <2>1. cmd_count' = cmd_count
    BY <1>4 DEF LockWorking
  <2>2. \A t \in Thread : JobOf(t)' = JobOf(t) /\ EndedOf(t)' = EndedOf(t)
    BY <1>4 DEF LockWorking, IInv, TypeOK, JobOf, EndedOf
  <2>3. QED
    BY <2>1, <2>2, Silent
<1>5. CASE WorkerDone(v)
  <2>1. cmd_count' = cmd_count
    BY <1>5 DEF WorkerDone
  <2>2. \A t \in Thread : JobOf(t)' = JobOf(t) /\ EndedOf(t)' = EndedOf(t)
    BY <1>5 DEF WorkerDone, IInv, TypeOK, JobOf, EndedOf
  <2>3. QED
    BY <2>1, <2>2, Silent
<1>6. CASE UnlockWorking(v)
  <2>1. cmd_count' = cmd_count
    BY <1>6 DEF UnlockWorking
  <2>2. \A t \in Thread : JobOf(t)' = JobOf(t) /\ EndedOf(t)' = EndedOf(t)
    BY <1>6 DEF UnlockWorking, IInv, TypeOK, JobOf, EndedOf
  <2>3. QED
    BY <2>1, <2>2, Silent
<1>7. QED
  BY <1>1, <1>2, <1>3, <1>4, <1>5, <1>6

(* What LockStep does not see of the master: creating workers, assigning   *)
(* tests, locking and the barrier.                                         *)
LEMMA SilentMasterSteps ==
  ASSUME IInv,
         Spawn \/ NextTest \/ Assign \/ AssignWorking
         \/ LockPost \/ LockBarrier \/ WaitForWorkers \/ LeaveBarrier \/ SpuriousWakeup
  PROVE  UNCHANGED Promise!vars
<1> USE WorkerFacts DEF Thread, Goto, cmdVars, workingVars, workerVars, mainVars
<1>1. CASE Spawn
  <2>1. cmd_count' = cmd_count
    BY <1>1 DEF Spawn
  <2>2. \A t \in Thread : JobOf(t)' = JobOf(t) /\ EndedOf(t)' = EndedOf(t)
    BY <1>1 DEF Spawn, IInv, TypeOK, JobOf, EndedOf, WorkerInv, Worker
  <2>3. QED
    BY <2>1, <2>2, Silent
<1>2. CASE NextTest
  <2>1. cmd_count' = cmd_count
    BY <1>2 DEF NextTest
  <2>2. \A t \in Thread : JobOf(t)' = JobOf(t) /\ EndedOf(t)' = EndedOf(t)
    BY <1>2 DEF NextTest, IInv, TypeOK, JobOf, EndedOf
  <2>3. QED
    BY <2>1, <2>2, Silent
<1>3. CASE Assign
  <2>1. cmd_count' = cmd_count
    BY <1>3 DEF Assign
  <2>2. \A t \in Thread : JobOf(t)' = JobOf(t) /\ EndedOf(t)' = EndedOf(t)
    BY <1>3 DEF Assign, IInv, TypeOK, JobOf, EndedOf, WorkerInv, Posted
  <2>3. QED
    BY <2>1, <2>2, Silent
<1>4. CASE AssignWorking
  <2>1. cmd_count' = cmd_count
    BY <1>4 DEF AssignWorking
  <2>2. \A t \in Thread : JobOf(t)' = JobOf(t) /\ EndedOf(t)' = EndedOf(t)
    BY <1>4 DEF AssignWorking, IInv, TypeOK, JobOf, EndedOf
  <2>3. QED
    BY <2>1, <2>2, Silent
<1>5. CASE LockPost
  <2>1. cmd_count' = cmd_count
    BY <1>5 DEF LockPost
  <2>2. \A t \in Thread : JobOf(t)' = JobOf(t) /\ EndedOf(t)' = EndedOf(t)
    BY <1>5 DEF LockPost, IInv, TypeOK, JobOf, EndedOf
  <2>3. QED
    BY <2>1, <2>2, Silent
<1>6. CASE LockBarrier
  <2>1. cmd_count' = cmd_count
    BY <1>6 DEF LockBarrier
  <2>2. \A t \in Thread : JobOf(t)' = JobOf(t) /\ EndedOf(t)' = EndedOf(t)
    BY <1>6 DEF LockBarrier, IInv, TypeOK, JobOf, EndedOf
  <2>3. QED
    BY <2>1, <2>2, Silent
<1>7. CASE WaitForWorkers
  <2>1. cmd_count' = cmd_count
    BY <1>7 DEF WaitForWorkers
  <2>2. \A t \in Thread : JobOf(t)' = JobOf(t) /\ EndedOf(t)' = EndedOf(t)
    BY <1>7 DEF WaitForWorkers, IInv, TypeOK, JobOf, EndedOf
  <2>3. QED
    BY <2>1, <2>2, Silent
<1>8. CASE LeaveBarrier
  <2>1. cmd_count' = cmd_count
    BY <1>8 DEF LeaveBarrier
  <2>2. \A t \in Thread : JobOf(t)' = JobOf(t) /\ EndedOf(t)' = EndedOf(t)
    BY <1>8 DEF LeaveBarrier, IInv, TypeOK, JobOf, EndedOf
  <2>3. QED
    BY <2>1, <2>2, Silent
<1>9. CASE SpuriousWakeup
  <2>1. cmd_count' = cmd_count
    BY <1>9 DEF SpuriousWakeup
  <2>2. \A t \in Thread : JobOf(t)' = JobOf(t) /\ EndedOf(t)' = EndedOf(t)
    BY <1>9 DEF SpuriousWakeup, IInv, TypeOK, JobOf, EndedOf
  <2>3. QED
    BY <2>1, <2>2, Silent
<1>10. QED
  BY <1>1, <1>2, <1>3, <1>4, <1>5, <1>6, <1>7, <1>8, <1>9

(* The announcement of a command is the step Advance: by the invariant all *)
(* threads have ended the steps before it.                                 *)
LEMMA PostAdvances ==
  ASSUME IInv, Post
  PROVE  Promise!Advance
<1> USE WorkerFacts DEF Thread, Goto, workerVars, mainVars
<1>1. test \in 1..Tests /\ cmd_count = StepNo(test, phase) - 1
  BY TestsAssumption DEF IInv, TypeOK, MasterInv, Post
<1>2. cmd_count < 3 * Tests
  BY <1>1, TestsAssumption DEF IInv, TypeOK, StepNo, Phase
<1>3. \A w \in Worker : local_count[w] = cmd_count /\ pc[w] \notin {"taken", "call"}
  BY DEF IInv, WorkerInv, Post, Posted
<1>4. \A t \in Thread : Ends[t] = cmd_count
  BY <1>3 DEF Post, Ends, EndedOf
<1>5. Ends' = Ends
  <2>1. \A t \in Thread : EndedOf(t)' = EndedOf(t)
    BY <1>3 DEF IInv, TypeOK, Post, EndedOf
  <2>2. QED
    BY <2>1 DEF Ends
<1>6. Jobs' = Jobs
  <2>1. \A t \in Thread : JobOf(t)' = JobOf(t)
    BY <1>3 DEF IInv, TypeOK, Post, JobOf
  <2>2. QED
    BY <2>1 DEF Jobs
<1>7. QED
  BY <1>2, <1>4, <1>5, <1>6 DEF Post, Promise!Advance

(* A worker that enters a test function begins the announced step.         *)
LEMMA BeginCallBegins ==
  ASSUME IInv, NEW v \in Worker, BeginCall(v)
  PROVE  Promise!Begin(v)
<1> USE WorkerFacts DEF Thread, Goto, cmdVars, mainVars
<1>1. local_count[v] = cmd_count /\ local_cmd[v] = phase /\ func[v] = test
  BY DEF IInv, WorkerInv, MasterInv, BeginCall
<1>2. cmd_count = StepNo(test, phase) /\ cmd_count \in Nat
  BY DEF IInv, TypeOK, WorkerInv, MasterInv, BeginCall
<1>3. Jobs[v] = 0 /\ Ends[v] < cmd_count
  BY <1>1, <1>2 DEF BeginCall, Jobs, Ends, JobOf, EndedOf
<1>4. Jobs' = [Jobs EXCEPT ![v] = cmd_count]
  <2>1. JobOf(v)' = cmd_count
    BY <1>1, <1>2 DEF IInv, TypeOK, BeginCall, JobOf
  <2>2. \A t \in Thread \ {v} : JobOf(t)' = JobOf(t)
    BY DEF IInv, TypeOK, BeginCall, JobOf
  <2>3. QED
    BY <2>1, <2>2 DEF Jobs
<1>5. Ends' = Ends
  <2>1. \A t \in Thread : EndedOf(t)' = EndedOf(t)
    BY DEF IInv, TypeOK, BeginCall, EndedOf
  <2>2. QED
    BY <2>1 DEF Ends
<1>6. QED
  BY <1>3, <1>4, <1>5 DEF BeginCall, Promise!Begin

(* A worker that returns from a test function ends its step.               *)
LEMMA EndCallEnds ==
  ASSUME IInv, NEW v \in Worker, EndCall(v)
  PROVE  Promise!End(v)
<1> USE WorkerFacts DEF Thread, Goto, cmdVars, mainVars
<1>1. local_count[v] = cmd_count /\ state[v] = phase /\ func[v] = test
  BY DEF IInv, WorkerInv, MasterInv, EndCall
<1>2. Jobs[v] # 0
  <2>1. Jobs[v] = StepNo(test, phase)
    BY <1>1 DEF EndCall, Jobs, JobOf
  <2>2. test \in Nat /\ test > 0 /\ phase \in Phase
    BY TestsAssumption DEF IInv, TypeOK, WorkerInv, MasterInv, EndCall
  <2>3. QED
    BY <2>1, <2>2 DEF StepNo, Phase
<1>3. Jobs' = [Jobs EXCEPT ![v] = 0]
  <2>1. JobOf(v)' = 0
    BY DEF IInv, TypeOK, EndCall, JobOf
  <2>2. \A t \in Thread \ {v} : JobOf(t)' = JobOf(t)
    BY DEF IInv, TypeOK, EndCall, JobOf
  <2>3. QED
    BY <2>1, <2>2 DEF Jobs
<1>4. Ends' = [Ends EXCEPT ![v] = @ + 1]
  <2>1. EndedOf(v)' = EndedOf(v) + 1
    BY DEF IInv, TypeOK, EndCall, EndedOf
  <2>2. \A t \in Thread \ {v} : EndedOf(t)' = EndedOf(t)
    BY DEF IInv, TypeOK, EndCall, EndedOf
  <2>3. QED
    BY <2>1, <2>2 DEF Ends
<1>5. QED
  BY <1>2, <1>3, <1>4 DEF EndCall, Promise!End

(* The master begins the announced step when it releases cmd_mutex.        *)
LEMMA UnlockPostBegins ==
  ASSUME IInv, UnlockPost
  PROVE  Promise!Begin(Master)
<1> USE WorkerFacts DEF Thread, Goto, workerVars, mainVars
<1>1. cmd_count = StepNo(test, phase) /\ cmd_count \in Nat
  BY DEF IInv, TypeOK, MasterInv, UnlockPost, Posted
<1>2. Jobs[Master] = 0 /\ Ends[Master] < cmd_count
  BY <1>1 DEF UnlockPost, Jobs, Ends, JobOf, EndedOf
<1>3. Jobs' = [Jobs EXCEPT ![Master] = cmd_count]
  <2>1. JobOf(Master)' = cmd_count
    BY <1>1 DEF IInv, TypeOK, UnlockPost, JobOf
  <2>2. \A t \in Worker : JobOf(t)' = JobOf(t)
    BY DEF IInv, TypeOK, UnlockPost, JobOf
  <2>3. QED
    BY <2>1, <2>2 DEF Jobs
<1>4. Ends' = Ends
  <2>1. \A t \in Thread : EndedOf(t)' = EndedOf(t)
    BY DEF IInv, TypeOK, UnlockPost, EndedOf
  <2>2. QED
    BY <2>1 DEF Ends
<1>5. QED
  BY <1>2, <1>3, <1>4 DEF UnlockPost, Promise!Begin

(* The master ends its step when its test function returns.                *)
LEMMA EndFuncEnds ==
  ASSUME IInv, EndFunc
  PROVE  Promise!End(Master)
<1> USE WorkerFacts DEF Thread, Goto, cmdVars, workerVars, mainVars
<1>1. Jobs[Master] # 0
  <2>1. Jobs[Master] = StepNo(test, phase)
    BY DEF EndFunc, Jobs, JobOf
  <2>2. test \in Nat /\ test > 0 /\ phase \in Phase
    BY TestsAssumption DEF IInv, TypeOK, MasterInv, EndFunc, Posted
  <2>3. QED
    BY <2>1, <2>2 DEF StepNo, Phase
<1>2. Jobs' = [Jobs EXCEPT ![Master] = 0]
  <2>1. JobOf(Master)' = 0
    BY DEF IInv, TypeOK, EndFunc, JobOf
  <2>2. \A t \in Worker : JobOf(t)' = JobOf(t)
    BY DEF IInv, TypeOK, EndFunc, JobOf
  <2>3. QED
    BY <2>1, <2>2 DEF Jobs
<1>3. Ends' = [Ends EXCEPT ![Master] = @ + 1]
  <2>1. EndedOf(Master)' = EndedOf(Master) + 1
    BY DEF IInv, TypeOK, EndFunc, EndedOf
  <2>2. \A t \in Worker : EndedOf(t)' = EndedOf(t)
    BY DEF IInv, TypeOK, EndFunc, EndedOf
  <2>3. QED
    BY <2>1, <2>2 DEF Ends
<1>4. QED
  BY <1>1, <1>2, <1>3 DEF EndFunc, Promise!End

(* Every step of the dispatcher is a step of LockStep or changes nothing   *)
(* of it.                                                                  *)
LEMMA StepRefines == IInv /\ [Next]_vars => [Promise!Next]_(Promise!vars)
<1> SUFFICES ASSUME IInv, [Next]_vars PROVE [Promise!Next]_(Promise!vars)
  OBVIOUS
<1>1. CASE MasterStep
  BY <1>1, SilentMasterSteps, PostAdvances, UnlockPostBegins, EndFuncEnds
     DEF MasterStep, Promise!Next, Thread
<1>2. ASSUME NEW v \in Worker, WorkerStep(v) PROVE [Promise!Next]_(Promise!vars)
  BY <1>2, SilentWorkerSteps, BeginCallBegins, EndCallEnds
     DEF WorkerStep, Promise!Next, Thread
<1>3. CASE SpuriousWakeup
  BY <1>3, SilentMasterSteps
<1>4. CASE Exited \/ UNCHANGED vars
  BY <1>4 DEF Exited, vars, cmdVars, workingVars, workerVars, mainVars,
     Promise!vars, Jobs, Ends, JobOf, EndedOf
<1>5. QED
  BY <1>1, <1>2, <1>3, <1>4 DEF Next

(* Before the first command no thread is in a step or has ended one.       *)
LEMMA InitRefines == Init => Promise!Init
<1> SUFFICES ASSUME Init PROVE Promise!Init
  OBVIOUS
<1>1. \A t \in Thread : JobOf(t) = 0 /\ EndedOf(t) = 0
  BY WorkerFacts DEF Init, Thread, JobOf, EndedOf
<1>2. QED
  BY <1>1 DEF Init, Promise!Init, Jobs, Ends

(* The dispatcher implements LockStep: the threads of a process execute    *)
(* the functions of all tests in step, each function once per thread.      *)
THEOREM Refinement == Spec => ImplementsLockStep
<1>1. Init => Promise!Init
  BY InitRefines
<1>2. IInv /\ [Next]_vars => [Promise!Next]_(Promise!vars)
  BY StepRefines
<1>3. QED
  BY <1>1, <1>2, Invariance, PTL DEF Spec, Promise!Spec, ImplementsLockStep

(* What is true of everything that implements LockStep.                    *)
LEMMA StepInvariance == Promise!Spec => []Promise!StepInv
<1>1. Promise!Init => Promise!StepInv
  BY TestsAssumption DEF Promise!Init, Promise!StepInv, Promise!TypeOK
<1>2. Promise!StepInv /\ [Promise!Next]_(Promise!vars) => Promise!StepInv'
  <2> SUFFICES ASSUME Promise!StepInv, [Promise!Next]_(Promise!vars) PROVE Promise!StepInv'
    OBVIOUS
  <2> USE TestsAssumption DEF Promise!StepInv, Promise!TypeOK
  <2>1. CASE Promise!Advance
    BY <2>1 DEF Promise!Advance
  <2>2. ASSUME NEW t \in Thread, Promise!Begin(t) PROVE Promise!StepInv'
    BY <2>2 DEF Promise!Begin
  <2>3. ASSUME NEW t \in Thread, Promise!End(t) PROVE Promise!StepInv'
    BY <2>3 DEF Promise!End
  <2>4. CASE UNCHANGED Promise!vars
    BY <2>4 DEF Promise!vars
  <2>5. QED
    BY <2>1, <2>2, <2>3, <2>4 DEF Promise!Next
<1>3. QED
  BY <1>1, <1>2, PTL DEF Promise!Spec

(* No thread of the dispatcher is in a function of one step while another  *)
(* one is in one of another step, and none gets ahead of any by more than  *)
(* one step.                                                               *)
THEOREM NoThreadAhead == Spec => []Promise!Together
<1>1. Promise!StepInv => Promise!Together
  BY TestsAssumption DEF Promise!StepInv, Promise!TypeOK, Promise!Together
<1>2. QED
  BY <1>1, StepInvariance, Refinement, PTL DEF ImplementsLockStep

-----------------------------------------------------------------------------
(* The client that assigns tests to single workers (ThreadApi).            *)

ApiVars == <<cmd, cmd_count, working, func, local_cmd, local_count, test, phase, assigned>>

LEMMA ApiSets ==
  /\ IsFiniteSet(Owed) /\ IsFiniteSet(Assigned) /\ Cardinality(Owed) \in Nat
  /\ Cardinality(Owed) = 0 <=> Owed = {}
<1>1. Owed \subseteq Worker /\ Assigned \subseteq Worker
  BY DEF Owed, Assigned
<1>2. IsFiniteSet(Owed) /\ IsFiniteSet(Assigned)
  BY <1>1, WorkerFacts, FS_Subset
<1>3. QED
  BY <1>2, FS_CardinalityType, FS_EmptySet

(* A worker that goes from one place to another, and neither begins nor    *)
(* ends to execute a command.                                              *)
LEMMA WorkerGoesOn ==
  ASSUME ApiInv, NEW v \in Worker, NEW l, pc' = [pc EXCEPT ![v] = l], UNCHANGED ApiVars,
         DOMAIN state' = Worker, \A w \in Worker : w # v => state'[w] = state[w],
         l \in {"taken", "call", "done", "dec"} <=> Executing(v),
         l = "call" => Posted /\ state'[v] = cmd
  PROVE  ApiInv'
<1> USE WorkerFacts DEF Thread, ApiVars
<1>1. /\ pc'[Master] = pc[Master] /\ pc'[v] = l /\ DOMAIN pc' = Thread
      /\ \A w \in Worker : w # v => pc'[w] = pc[w]
  BY DEF ApiInv, ApiTypeOK
<1>2. \A w \in Worker : Executing(w)' <=> Executing(w)
  BY <1>1 DEF Executing
<1>3. Owed' = Owed /\ Assigned' = Assigned
  BY <1>2 DEF Owed, Assigned
<1>4. (Posted' <=> Posted) /\ (Ending' <=> Ending)
  BY <1>1 DEF Posted, Ending
<1>5. ApiTypeOK'
  BY <1>1 DEF ApiInv, ApiTypeOK
<1>6. ApiWorkerInv'
  BY <1>1, <1>2, <1>4 DEF ApiInv, ApiWorkerInv, NothingToDo
<1>7. ApiMasterInv'
  BY <1>1, <1>3, <1>4 DEF ApiInv, ApiMasterInv
<1>8. QED
  BY <1>5, <1>6, <1>7 DEF ApiInv

(* A worker takes a command only when one has been announced, and when it  *)
(* has been given a test.                                                  *)
LEMMA TakeCmdApi ==
  ASSUME ApiInv, NEW v \in Worker, TakeCmd(v)
  PROVE  ApiInv'
<1> USE WorkerFacts DEF Thread
<1>1. /\ pc[v] = "test" /\ ~NothingToDo(v)
      /\ local_cmd' = [local_cmd EXCEPT ![v] = cmd]
      /\ local_count' = [local_count EXCEPT ![v] = cmd_count]
      /\ pc' = [pc EXCEPT ![v] = "taken"]
      /\ UNCHANGED <<cmd, cmd_count, working, func, state, test, phase, assigned>>
  BY DEF TakeCmd, Goto, workingVars, mainVars
<1>2. /\ pc'[Master] = pc[Master] /\ pc'[v] = "taken" /\ DOMAIN pc' = Thread
      /\ \A w \in Worker : w # v => pc'[w] = pc[w]
  BY <1>1 DEF ApiInv, ApiTypeOK
<1>3. /\ local_count'[v] = cmd_count /\ local_cmd'[v] = cmd
      /\ \A w \in Worker : w # v => local_count'[w] = local_count[w] /\ local_cmd'[w] = local_cmd[w]
      /\ cmd_count \in Nat /\ \A w \in Worker : local_count[w] \in Nat
  BY <1>1 DEF ApiInv, ApiTypeOK
<1>4. (Posted' <=> Posted) /\ (Ending' <=> Ending) /\ (Posted \/ Ending)
  BY <1>1, <1>2 DEF Posted, Ending, ApiInv, ApiWorkerInv
<1>5. /\ local_count[v] < cmd_count /\ func[v] # 0
      /\ \A w \in Worker : Executing(w)' <=> Executing(w) \/ w = v
  BY <1>1, <1>2, <1>3 DEF NothingToDo, ApiInv, ApiWorkerInv, Executing
<1>6. Owed' = Owed /\ Assigned' = Assigned
  <2>1. \A w \in Worker : (local_count'[w] < cmd_count \/ Executing(w)') <=>
                          (local_count[w] < cmd_count \/ Executing(w))
    BY <1>3, <1>5
  <2>2. QED
    BY <1>1, <2>1 DEF Owed, Assigned
<1>7. ApiTypeOK'
  BY <1>1, <1>2 DEF ApiInv, ApiTypeOK
<1>8. ApiWorkerInv'
  BY <1>1, <1>2, <1>3, <1>4, <1>5 DEF ApiInv, ApiWorkerInv, NothingToDo
<1>9. ApiMasterInv'
  BY <1>1, <1>2, <1>3, <1>4, <1>6 DEF ApiInv, ApiMasterInv, Assigned
<1>10. QED
  BY <1>7, <1>8, <1>9 DEF ApiInv

(* A worker that counts itself out is one that was waited for.             *)
LEMMA WorkerDoneApi ==
  ASSUME ApiInv, NEW v \in Worker, WorkerDone(v)
  PROVE  ApiInv'
<1> USE WorkerFacts DEF Thread
<1>1. /\ pc[v] = "dec" /\ working' = working - 1 /\ pc' = [pc EXCEPT ![v] = "unlock"]
      /\ UNCHANGED <<cmd, cmd_count, func, state, local_cmd, local_count, test, phase, assigned>>
  BY DEF WorkerDone, Goto, cmdVars, workerVars, mainVars
<1>2. /\ pc'[Master] = pc[Master] /\ pc'[v] = "unlock" /\ DOMAIN pc' = Thread
      /\ \A w \in Worker : w # v => pc'[w] = pc[w]
  BY <1>1 DEF ApiInv, ApiTypeOK
<1>3. (Posted' <=> Posted) /\ (Ending' <=> Ending)
  BY <1>2 DEF Posted, Ending
<1>4. \A w \in Worker : Executing(w)' <=> Executing(w) /\ w # v
  BY <1>2 DEF Executing
<1>5. Executing(v) /\ func[v] # 0 /\ local_count[v] = cmd_count /\ (Posted \/ Ending) /\ cmd_count \in Nat
  BY <1>1 DEF Executing, ApiInv, ApiWorkerInv, ApiTypeOK
<1>6. v \in Owed /\ Owed' = Owed \ {v} /\ Assigned' = Assigned
  <2>1. v \in Owed
    BY <1>5 DEF Owed
  <2>2. v \notin Owed'
    BY <1>1, <1>4, <1>5 DEF Owed
  <2>3. \A w \in Worker : w # v => (w \in Owed' <=> w \in Owed)
    BY <1>1, <1>4 DEF Owed
  <2>4. Owed \subseteq Worker /\ Owed' \subseteq Worker
    BY DEF Owed
  <2>5. QED
    BY <1>1, <2>1, <2>2, <2>3, <2>4 DEF Assigned
<1>7. Cardinality(Owed') = Cardinality(Owed) - 1
  BY <1>6, ApiSets, FS_RemoveElement
<1>8. ApiTypeOK'
  BY <1>1, <1>2 DEF ApiInv, ApiTypeOK
<1>9. ApiWorkerInv'
  BY <1>1, <1>2, <1>3, <1>4 DEF ApiInv, ApiWorkerInv, NothingToDo
<1>10. ApiMasterInv'
  BY <1>1, <1>2, <1>3, <1>5, <1>6, <1>7 DEF ApiInv, ApiMasterInv, Posted, Ending
<1>11. QED
  BY <1>8, <1>9, <1>10 DEF ApiInv

LEMMA ApiWorkerStepInv ==
  ASSUME ApiInv, NEW v \in Worker, ApiWorkerStep(v)
  PROVE  ApiInv'
<1> USE DEF ApiVars, Goto, cmdVars, workingVars, workerVars, mainVars
<1>1. DOMAIN state = Worker
  BY DEF ApiInv, ApiTypeOK
<1>2. CASE LockCmd(v) \/ WaitForCmd(v)
  <2>1. PICK l \in {"test", "wait"} : pc' = [pc EXCEPT ![v] = l]
    BY <1>2 DEF LockCmd, WaitForCmd
  <2>2. UNCHANGED ApiVars /\ state' = state /\ ~Executing(v)
    BY <1>2 DEF LockCmd, WaitForCmd, Executing
  <2>3. QED
    BY <1>1, <2>1, <2>2, WorkerGoesOn
<1>3. CASE EndCall(v)
  <2>1. Executing(v) /\ UNCHANGED ApiVars /\ pc' = [pc EXCEPT ![v] = "done"]
    BY <1>3 DEF EndCall, Executing
  <2>2. DOMAIN state' = Worker /\ \A w \in Worker : w # v => state'[w] = state[w]
    BY <1>1, <1>3 DEF EndCall
  <2>3. QED
    BY <2>1, <2>2, WorkerGoesOn
<1>4. CASE LockWorking(v) \/ SkipCall(v)
  <2>1. PICK l \in {"dec", "done"} : pc' = [pc EXCEPT ![v] = l]
    BY <1>4 DEF LockWorking, SkipCall
  <2>2. UNCHANGED ApiVars /\ state' = state /\ Executing(v)
    BY <1>4 DEF LockWorking, SkipCall, Executing
  <2>3. QED
    BY <1>1, <2>1, <2>2, WorkerGoesOn
<1>5. CASE ApiUnlockWorking(v) \/ ThreadReturn(v)
  <2>1. PICK l \in {"lock", "gone"} : pc' = [pc EXCEPT ![v] = l]
    BY <1>5 DEF ApiUnlockWorking, UnlockWorking, ThreadReturn
  <2>2. UNCHANGED ApiVars /\ state' = state /\ ~Executing(v)
    BY <1>5 DEF ApiUnlockWorking, UnlockWorking, ThreadReturn, Executing
  <2>3. QED
    BY <1>1, <2>1, <2>2, WorkerGoesOn
<1>6. CASE ApiBeginCall(v)
  <2>1. /\ Executing(v) /\ local_cmd[v] # "finalize" /\ UNCHANGED ApiVars
        /\ pc' = [pc EXCEPT ![v] = "call"] /\ state' = [state EXCEPT ![v] = local_cmd[v]]
    BY <1>6 DEF ApiBeginCall, BeginCall, Executing
  <2>2. (Posted \/ Ending) /\ local_cmd[v] = cmd /\ (Ending => cmd = "finalize")
    BY <2>1 DEF ApiInv, ApiWorkerInv, ApiMasterInv
  <2>3. /\ DOMAIN state' = Worker /\ state'[v] = cmd
        /\ \A w \in Worker : w # v => state'[w] = state[w]
    BY <1>1, <2>1, <2>2
  <2>4. QED
    BY <2>1, <2>2, <2>3, WorkerGoesOn
<1>7. QED
  BY <1>2, <1>3, <1>4, <1>5, <1>6, TakeCmdApi, WorkerDoneApi DEF ApiWorkerStep

-----------------------------------------------------------------------------

(* What the workers do while the master goes elsewhere.                    *)
LEMMA WorkersStay ==
  ASSUME ApiInv, NEW l, pc' = [pc EXCEPT ![Master] = l] \/ (pc[Master] = l /\ pc' = pc)
  PROVE  /\ pc'[Master] = l /\ DOMAIN pc' = Thread
         /\ \A w \in Worker : pc'[w] = pc[w] /\ (Executing(w)' <=> Executing(w))
BY WorkerFacts DEF ApiInv, ApiTypeOK, Thread, Executing

(* The master goes to a place where the same is true.                      *)
LEMMA MasterGoesOn ==
  ASSUME ApiInv, NEW l, pc' = [pc EXCEPT ![Master] = l], UNCHANGED ApiVars, state' = state,
         \/ pc[Master] = "post" /\ l = "body"
         \/ Posted /\ l \in {"posted", "func", "barrier", "check"}
  PROVE  ApiInv'
<1> USE DEF ApiVars
<1>1. /\ pc'[Master] = l /\ DOMAIN pc' = Thread
      /\ \A w \in Worker : pc'[w] = pc[w] /\ (Executing(w)' <=> Executing(w))
  BY WorkersStay
<1>2. (Posted' <=> Posted) /\ ~Ending /\ ~Ending'
  BY <1>1 DEF Posted, Ending
<1>3. Owed' = Owed /\ Assigned' = Assigned
  BY <1>1 DEF Owed, Assigned
<1>4. ApiTypeOK'
  BY <1>1 DEF ApiInv, ApiTypeOK
<1>5. ApiWorkerInv'
  BY <1>1, <1>2 DEF ApiInv, ApiWorkerInv, NothingToDo
<1>6. ApiMasterInv'
  BY <1>1, <1>2, <1>3 DEF ApiInv, ApiMasterInv, Posted
<1>7. QED
  BY <1>4, <1>5, <1>6 DEF ApiInv

(* Until a command is announced, and where nobody waits for one.           *)
LEMMA WorkersQuiet ==
  ASSUME ApiInv, ~Posted, ~Ending, ~Posted', \A w \in Worker : pc'[w] = pc[w],
         UNCHANGED <<cmd, cmd_count, local_cmd, local_count>>,
         \A w \in Worker : local_count[w] = cmd_count \/ func'[w] = func[w]
  PROVE  ApiWorkerInv'
<1>1. \A w \in Worker : Executing(w)' <=> Executing(w)
  BY DEF Executing
<1>3. \A w \in Worker : NothingToDo(w) /\ ~Executing(w) /\ pc[w] # "call" /\ local_count[w] <= cmd_count
  BY DEF ApiInv, ApiWorkerInv
<1>4. \A w \in Worker : NothingToDo(w)'
  BY <1>3 DEF NothingToDo
<1>5. QED
  BY <1>1, <1>3, <1>4 DEF ApiWorkerInv

LEMMA SpawnApi ==
  ASSUME ApiInv, Spawn
  PROVE  ApiInv'
<1> USE WorkerFacts, NAssumption DEF Thread, Goto, cmdVars, workingVars, workerVars
<1>1. pc[Master] = "spawn" /\ UNCHANGED <<cmd, cmd_count, working, func, state, local_cmd, local_count, test, phase>>
  BY DEF Spawn
<1>2. CASE assigned < N
  <2>1. assigned \in Worker /\ assigned' = assigned + 1 /\ pc' = [pc EXCEPT ![assigned] = "lock"]
    BY <1>2 DEF ApiInv, ApiTypeOK, Worker, Spawn
  <2>2. /\ pc'[Master] = "spawn" /\ DOMAIN pc' = Thread
        /\ \A w \in Worker : pc'[w] = pc[w] \/ pc'[w] = "lock"
    BY <1>1, <2>1 DEF ApiInv, ApiTypeOK
  <2>3. ~Posted /\ ~Posted' /\ ~Ending /\ ~Ending'
    BY <1>1, <2>2 DEF Posted, Ending
  <2>4. ApiTypeOK'
    BY <1>1, <1>2, <2>1, <2>2 DEF ApiInv, ApiTypeOK
  <2>5. ApiWorkerInv'
    BY <1>1, <2>2, <2>3 DEF ApiInv, ApiWorkerInv, NothingToDo, Executing
  <2>6. ApiMasterInv'
    BY <1>1, <2>2, <2>3 DEF ApiInv, ApiMasterInv
  <2>7. QED
    BY <2>4, <2>5, <2>6 DEF ApiInv
<1>3. CASE ~(assigned < N)
  <2>1. assigned' = 0 /\ pc' = [pc EXCEPT ![Master] = "loop"]
    BY <1>3 DEF Spawn
  <2>2. pc'[Master] = "loop" /\ DOMAIN pc' = Thread /\ \A w \in Worker : pc'[w] = pc[w]
    BY <2>1, WorkersStay
  <2>3. ~Posted /\ ~Posted' /\ ~Ending /\ ~Ending'
    BY <1>1, <2>2 DEF Posted, Ending
  <2>4. ApiTypeOK'
    BY <1>1, <2>1, <2>2 DEF ApiInv, ApiTypeOK
  <2>5. ApiWorkerInv'
    BY <1>1, <2>1, <2>2, <2>3, WorkersQuiet
  <2>6. ApiMasterInv'
    BY <1>1, <2>2, <2>3 DEF ApiInv, ApiMasterInv
  <2>7. QED
    BY <2>4, <2>5, <2>6 DEF ApiInv
<1>4. QED
  BY <1>2, <1>3

(* Where no command is under way, the master goes to the next thing to do. *)
LEMMA NextRoundApi ==
  ASSUME ApiInv, NextRound
  PROVE  ApiInv'
<1> USE WorkerFacts, NAssumption, TestsAssumption DEF Goto, cmdVars, workingVars, workerVars
<1>1. /\ pc[Master] = "loop"
      /\ UNCHANGED <<cmd, cmd_count, working, func, state, local_cmd, local_count, phase>>
  BY DEF NextRound
<1>2. PICK l \in {"reset", "finalize"} :
        /\ pc' = [pc EXCEPT ![Master] = l]
        /\ l = "reset" => test < Tests /\ test' = test + 1 /\ assigned' = 0
        /\ l = "finalize" => test' = test /\ assigned' = assigned
  BY DEF NextRound
<1>3. pc'[Master] = l /\ DOMAIN pc' = Thread /\ \A w \in Worker : pc'[w] = pc[w]
  BY <1>2, WorkersStay
<1>4. ~Posted /\ ~Posted' /\ ~Ending /\ ~Ending'
  BY <1>1, <1>2, <1>3 DEF Posted, Ending
<1>5. ApiTypeOK'
  BY <1>1, <1>2, <1>3 DEF ApiInv, ApiTypeOK
<1>6. ApiWorkerInv'
  BY <1>1, <1>2, <1>3, <1>4, WorkersQuiet
<1>7. ApiMasterInv'
  BY <1>1, <1>2, <1>3, <1>4 DEF ApiInv, ApiMasterInv, ApiTypeOK, Worker
<1>8. QED
  BY <1>5, <1>6, <1>7 DEF ApiInv

LEMMA ResetApi ==
  ASSUME ApiInv, Reset
  PROVE  ApiInv'
<1> USE WorkerFacts, NAssumption, TestsAssumption DEF Thread, Goto, cmdVars
<1>1. /\ pc[Master] = "reset"
      /\ UNCHANGED <<cmd, cmd_count, state, local_cmd, local_count, test, phase>>
  BY DEF Reset
<1>2. test > 0 /\ \A w \in Worker : local_count[w] = cmd_count
  BY <1>1 DEF ApiInv, ApiMasterInv
<1>3. CASE assigned < N
  <2>1. /\ func' = [func EXCEPT ![assigned] = 0] /\ assigned' = assigned + 1
        /\ UNCHANGED <<working, pc>>
    BY <1>3 DEF Reset
  <2>3. ~Posted /\ ~Posted' /\ ~Ending /\ ~Ending'
    BY <1>1, <2>1 DEF Posted, Ending
  <2>4. assigned \in Worker /\ func'[assigned] = 0 /\ \A w \in Worker : w # assigned => func'[w] = func[w]
    BY <1>3, <2>1 DEF ApiInv, ApiTypeOK, Worker
  <2>5. ApiTypeOK'
    BY <1>1, <1>3, <2>1, <2>4 DEF ApiInv, ApiTypeOK
  <2>6. ApiWorkerInv'
    BY <1>1, <1>2, <2>1, <2>3, WorkersQuiet
  <2>7. \A w \in Worker : w < assigned' => func'[w] = 0
    BY <1>1, <2>1, <2>4 DEF ApiInv, ApiMasterInv, ApiTypeOK, Worker
  <2>8. ApiMasterInv'
    BY <1>1, <1>2, <2>1, <2>3, <2>7 DEF ApiInv, ApiMasterInv
  <2>9. QED
    BY <2>5, <2>6, <2>8 DEF ApiInv
<1>4. CASE ~(assigned < N)
  <2>1. /\ working' = 0 /\ assigned' = 0 /\ pc' = [pc EXCEPT ![Master] = "one"] /\ func' = func
    BY <1>4 DEF Reset
  <2>2. pc'[Master] = "one" /\ DOMAIN pc' = Thread /\ \A w \in Worker : pc'[w] = pc[w]
    BY <2>1, WorkersStay
  <2>3. ~Posted /\ ~Posted' /\ ~Ending /\ ~Ending'
    BY <1>1, <2>2 DEF Posted, Ending
  <2>4. \A w \in Worker : func[w] = 0
    BY <1>1, <1>4 DEF ApiInv, ApiMasterInv, ApiTypeOK, Worker
  <2>5. Assigned' = {}
    BY <2>1, <2>4 DEF Assigned
  <2>6. Cardinality(Assigned') = 0
    BY <2>5, FS_EmptySet
  <2>7. ApiTypeOK'
    BY <1>1, <2>1, <2>2 DEF ApiInv, ApiTypeOK
  <2>8. ApiWorkerInv'
    BY <1>1, <2>1, <2>2, <2>3, WorkersQuiet
  <2>9. ApiMasterInv'
    BY <1>1, <1>2, <2>1, <2>2, <2>3, <2>4, <2>6 DEF ApiInv, ApiMasterInv
  <2>10. QED
    BY <2>7, <2>8, <2>9 DEF ApiInv
<1>5. QED
  BY <1>3, <1>4

(* A worker that is given a test has executed all commands, and does not   *)
(* begin until one is announced.                                           *)
LEMMA AssignOneApi ==
  ASSUME ApiInv, NEW v \in Worker, AssignOne(v)
  PROVE  ApiInv'
<1> USE WorkerFacts, TestsAssumption DEF Goto, cmdVars, workingVars, mainVars
<1>1. /\ pc[Master] = "one" /\ func[v] = 0 /\ func' = [func EXCEPT ![v] = test]
      /\ pc' = [pc EXCEPT ![Master] = "count"]
      /\ UNCHANGED <<cmd, cmd_count, working, state, local_cmd, local_count, test, phase, assigned>>
  BY DEF AssignOne
<1>2. /\ test > 0 /\ working = Cardinality(Assigned)
      /\ \A w \in Worker : local_count[w] = cmd_count /\ func[w] \in {0, test}
  BY <1>1 DEF ApiInv, ApiMasterInv
<1>3. pc'[Master] = "count" /\ DOMAIN pc' = Thread /\ \A w \in Worker : pc'[w] = pc[w]
  BY <1>1, WorkersStay
<1>4. ~Posted /\ ~Posted' /\ ~Ending /\ ~Ending'
  BY <1>1, <1>3 DEF Posted, Ending
<1>5. func'[v] = test /\ \A w \in Worker : w # v => func'[w] = func[w]
  BY <1>1 DEF ApiInv, ApiTypeOK
<1>6. v \notin Assigned /\ Assigned' = Assigned \cup {v}
  BY <1>1, <1>2, <1>5 DEF Assigned
<1>7. Cardinality(Assigned') = Cardinality(Assigned) + 1
  BY <1>6, ApiSets, FS_AddElement
<1>8. ApiTypeOK'
  BY <1>1, <1>3 DEF ApiInv, ApiTypeOK
<1>9. ApiWorkerInv'
  BY <1>1, <1>2, <1>3, <1>4, WorkersQuiet
<1>10. ApiMasterInv'
  BY <1>1, <1>2, <1>3, <1>4, <1>5, <1>7 DEF ApiInv, ApiMasterInv
<1>11. QED
  BY <1>8, <1>9, <1>10 DEF ApiInv

LEMMA AssigningApi ==
  ASSUME ApiInv, \/ CountOne \/ AssignedEnough
                 \/ \E v \in Worker : AssignAgain(v)
                 \/ \E number \in {-1, N} : AssignBeyond(number)
  PROVE  ApiInv'
<1> USE WorkerFacts DEF Goto, cmdVars, workingVars, workerVars, mainVars
<1>1. PICK l \in {"one", "post", "error"} :
        /\ pc[Master] \in {"one", "count"} /\ pc' = [pc EXCEPT ![Master] = l]
        /\ working' = IF pc[Master] = "count" THEN working + 1 ELSE working
        /\ phase' = IF l = "post" THEN "init" ELSE phase
        /\ l # "error" => (l = "post" <=> pc[Master] = "one")
        /\ UNCHANGED <<cmd, cmd_count, func, state, local_cmd, local_count, test, assigned>>
  <2>1. CASE CountOne
    BY <2>1 DEF CountOne
  <2>2. CASE AssignedEnough
    BY <2>2 DEF AssignedEnough
  <2>3. CASE \E v \in Worker : AssignAgain(v)
    BY <2>3 DEF AssignAgain
  <2>4. CASE \E number \in {-1, N} : AssignBeyond(number)
    BY <2>4 DEF AssignBeyond
  <2>5. QED
    BY <2>1, <2>2, <2>3, <2>4
<1>2. /\ test > 0 /\ \A w \in Worker : local_count[w] = cmd_count /\ func[w] \in {0, test}
      /\ working' = Cardinality(Assigned)
  BY <1>1 DEF ApiInv, ApiMasterInv
<1>3. pc'[Master] = l /\ DOMAIN pc' = Thread /\ \A w \in Worker : pc'[w] = pc[w]
  BY <1>1, WorkersStay
<1>4. ~Posted /\ ~Posted' /\ ~Ending /\ ~Ending'
  BY <1>1, <1>3 DEF Posted, Ending
<1>5. Assigned' = Assigned /\ Assigned \subseteq Worker
  BY <1>1 DEF Assigned
<1>6. ApiTypeOK'
  BY <1>1, <1>3 DEF ApiInv, ApiTypeOK, Phase
<1>7. ApiWorkerInv'
  BY <1>1, <1>3, <1>4, WorkersQuiet
<1>8. ApiMasterInv'
  BY <1>1, <1>2, <1>3, <1>4, <1>5 DEF ApiInv, ApiMasterInv
<1>9. QED
  BY <1>6, <1>7, <1>8 DEF ApiInv

(* The announcement of a command: the barrier that follows waits for those *)
(* with a test in the first phase, and for all workers in the others.      *)
LEMMA PostApi ==
  ASSUME ApiInv, Post
  PROVE  ApiInv'
<1> USE WorkerFacts, NAssumption DEF Goto, workerVars, mainVars
<1>1. /\ pc[Master] = "body" /\ cmd' = phase /\ cmd_count' = cmd_count + 1
      /\ working' = IF phase = "init" THEN working ELSE N
      /\ pc' = [pc EXCEPT ![Master] = "posted"]
      /\ UNCHANGED <<func, state, local_cmd, local_count, test, phase, assigned>>
  BY DEF Post
<1>2. /\ test > 0 /\ \A w \in Worker : func[w] \in {0, test}
      /\ phase = "init" => working = Cardinality(Assigned)
      /\ \A w \in Assigned : local_count[w] = cmd_count
      /\ phase = "cleanup" => Assigned = Worker
  BY <1>1 DEF ApiInv, ApiMasterInv
<1>3. /\ pc'[Master] = "posted" /\ DOMAIN pc' = Thread
      /\ \A w \in Worker : pc'[w] = pc[w] /\ (Executing(w)' <=> Executing(w))
  BY <1>1, WorkersStay
<1>4. ~Posted /\ Posted' /\ ~Ending /\ ~Ending'
  BY <1>1, <1>3 DEF Posted, Ending
<1>5. /\ cmd_count \in Nat /\ phase \in Phase /\ cmd_count' \in Nat
      /\ \A w \in Worker : /\ local_count[w] \in Nat /\ local_count[w] <= cmd_count
                           /\ ~Executing(w) /\ pc[w] # "call"
  BY <1>1, <1>4 DEF ApiInv, ApiTypeOK, ApiWorkerInv
<1>6. Assigned' = Assigned
  BY <1>1 DEF Assigned
<1>7. Owed' = IF phase = "init" THEN Assigned ELSE Worker
  <2>1. \A w \in Worker : local_count'[w] < cmd_count'
    BY <1>1, <1>5
  <2>2. Owed' = {w \in Worker : func[w] = 0 => phase # "init"}
    BY <1>1, <2>1 DEF Owed
  <2>3. QED
    BY <2>2 DEF Assigned
<1>8. working' = Cardinality(Owed')
  BY <1>1, <1>2, <1>7
<1>9. ApiTypeOK'
  BY <1>1, <1>3, <1>5 DEF ApiInv, ApiTypeOK
<1>10. ApiWorkerInv'
  BY <1>1, <1>3, <1>4, <1>5 DEF ApiWorkerInv
<1>11. ApiMasterInv'
  BY <1>1, <1>2, <1>3, <1>4, <1>6, <1>8 DEF ApiMasterInv
<1>12. QED
  BY <1>9, <1>10, <1>11 DEF ApiInv

(* Past the barrier nobody executes anything; past that of run and cleanup *)
(* all workers have a test, or working would not be 0.                     *)
LEMMA LeaveBarrierApi ==
  ASSUME ApiInv, LeaveBarrier
  PROVE  ApiInv'
<1> USE WorkerFacts DEF Goto, cmdVars, workerVars
<1>1. /\ pc[Master] = "check" /\ working <= 0
      /\ phase' = CASE phase = "init" -> "run"
                    [] phase = "run" -> "cleanup"
                    [] phase = "cleanup" -> "init"
      /\ pc' = [pc EXCEPT ![Master] = IF phase = "cleanup" THEN "loop" ELSE "post"]
      /\ UNCHANGED <<cmd, cmd_count, working, func, state, local_cmd, local_count, test, assigned>>
  BY DEF LeaveBarrier
<1>2. Posted /\ ~Ending
  BY <1>1 DEF Posted, Ending
<1>3. /\ test > 0 /\ \A w \in Worker : func[w] \in {0, test}
      /\ working = Cardinality(Owed) /\ (phase = "cleanup" => Assigned = Worker)
      /\ phase \in Phase /\ cmd_count \in Nat
      /\ \A w \in Worker : local_count[w] \in Nat /\ local_count[w] <= cmd_count
  BY <1>2 DEF ApiInv, ApiMasterInv, ApiTypeOK, ApiWorkerInv
<1>4. Owed = {}
  BY <1>1, <1>3, ApiSets
<1>5. \A w \in Worker : IF func[w] = 0 THEN phase = "init"
                        ELSE local_count[w] = cmd_count /\ ~Executing(w)
  BY <1>3, <1>4 DEF Owed
<1>6. \A w \in Worker : ~Executing(w) /\ NothingToDo(w)
  BY <1>5 DEF ApiInv, ApiWorkerInv, NothingToDo
<1>7. /\ pc'[Master] = IF phase = "cleanup" THEN "loop" ELSE "post"
      /\ DOMAIN pc' = Thread
      /\ \A w \in Worker : pc'[w] = pc[w] /\ (Executing(w)' <=> Executing(w))
  BY <1>1, WorkersStay
<1>8. phase' \in Phase /\ (phase = "run" <=> phase' = "cleanup") /\ (phase = "cleanup" <=> phase' = "init")
  BY <1>1, <1>3 DEF Phase
<1>9. ~Posted' /\ ~Ending'
  BY <1>7 DEF Posted, Ending
<1>10. Assigned' = Assigned /\ (phase # "init" => Assigned = Worker)
  BY <1>1, <1>5 DEF Assigned
<1>11. ApiTypeOK'
  BY <1>1, <1>7, <1>8 DEF ApiInv, ApiTypeOK
<1>12. ApiWorkerInv'
  <2>1. \A w \in Worker : NothingToDo(w)' /\ ~Executing(w)' /\ pc'[w] # "call"
    BY <1>1, <1>6, <1>7 DEF NothingToDo, Executing
  <2>2. QED
    BY <1>1, <1>3, <2>1 DEF ApiWorkerInv
<1>13. \A w \in Assigned : local_count[w] = cmd_count
  BY <1>5 DEF Assigned
<1>14. ApiMasterInv'
  <2>1. pc'[Master] \in {"loop", "post"}
    BY <1>7
  <2>2. pc'[Master] = "loop" => \A w \in Worker : local_count'[w] = cmd_count'
    <3>1. phase = "cleanup" => \A w \in Worker : local_count[w] = cmd_count
      BY <1>3, <1>13
    <3>2. QED
      BY <1>1, <1>7, <3>1
  <2>3. test' > 0 /\ \A w \in Worker : func'[w] \in {0, test'}
    BY <1>1, <1>3
  <2>4. pc'[Master] = "post" => phase' # "init"
    BY <1>7, <1>8
  <2>5. (\A w \in Assigned' : local_count'[w] = cmd_count') /\ (phase' = "cleanup" => Assigned' = Worker)
    BY <1>1, <1>8, <1>10, <1>13
  <2>6. QED
    BY <1>9, <2>1, <2>2, <2>3, <2>4, <2>5 DEF ApiMasterInv
<1>15. QED
  BY <1>11, <1>12, <1>14 DEF ApiInv

LEMMA FinalizeApi ==
  ASSUME ApiInv, Finalize \/ Join
  PROVE  ApiInv'
<1> USE WorkerFacts, NAssumption DEF Thread, Goto, cmdVars, workingVars, workerVars
<1>1. CASE Finalize
  <2>1. /\ pc[Master] = "finalize" /\ cmd' = "finalize" /\ cmd_count' = cmd_count + 1 /\ assigned' = 0
        /\ pc' = [pc EXCEPT ![Master] = "join"]
        /\ UNCHANGED <<working, func, state, local_cmd, local_count, test, phase>>
    BY <1>1 DEF Finalize
  <2>2. /\ pc'[Master] = "join" /\ DOMAIN pc' = Thread
        /\ \A w \in Worker : pc'[w] = pc[w] /\ (Executing(w)' <=> Executing(w))
    BY <2>1, WorkersStay
  <2>3. ~Posted /\ ~Posted' /\ ~Ending /\ Ending'
    BY <2>1, <2>2 DEF Posted, Ending
  <2>4. /\ cmd_count \in Nat
        /\ \A w \in Worker : /\ local_count[w] \in Nat /\ local_count[w] <= cmd_count
                             /\ ~Executing(w) /\ pc[w] # "call"
    BY <2>3 DEF ApiInv, ApiTypeOK, ApiWorkerInv
  <2>5. ApiTypeOK'
    BY <2>1, <2>2 DEF ApiInv, ApiTypeOK
  <2>6. ApiWorkerInv'
    BY <2>1, <2>2, <2>3, <2>4 DEF ApiWorkerInv
  <2>7. ApiMasterInv'
    BY <2>1, <2>2, <2>3 DEF ApiMasterInv
  <2>8. QED
    BY <2>5, <2>6, <2>7 DEF ApiInv
<1>2. CASE Join
  <2>1. /\ pc[Master] = "join"
        /\ UNCHANGED <<cmd, cmd_count, working, func, state, local_cmd, local_count, test, phase>>
    BY <1>2 DEF Join
  <2>2. PICK l \in {"join", "exit"} :
          /\ pc' = [pc EXCEPT ![Master] = l] \/ (pc[Master] = l /\ pc' = pc)
          /\ assigned' \in 0..N
    <3>1. CASE assigned < N
      <4>1. assigned' = assigned + 1 /\ pc' = pc
        BY <1>2, <3>1 DEF Join
      <4>2. assigned' \in 0..N
        BY <3>1, <4>1 DEF ApiInv, ApiTypeOK
      <4>3. QED
        BY <2>1, <4>1, <4>2
    <3>2. CASE ~(assigned < N)
      BY <1>2, <3>2 DEF Join
    <3>3. QED
      BY <3>1, <3>2
  <2>3. /\ pc'[Master] = l /\ DOMAIN pc' = Thread
        /\ \A w \in Worker : pc'[w] = pc[w] /\ (Executing(w)' <=> Executing(w))
    BY <2>2, WorkersStay
  <2>4. ~Posted /\ ~Posted' /\ Ending /\ Ending'
    BY <2>1, <2>3 DEF Posted, Ending
  <2>5. ApiTypeOK'
    BY <2>1, <2>2, <2>3 DEF ApiInv, ApiTypeOK
  <2>6. ApiWorkerInv'
    BY <2>1, <2>3, <2>4 DEF ApiInv, ApiWorkerInv
  <2>7. ApiMasterInv'
    BY <2>1, <2>3, <2>4 DEF ApiInv, ApiMasterInv
  <2>8. QED
    BY <2>5, <2>6, <2>7 DEF ApiInv
<1>3. QED
  BY <1>1, <1>2

LEMMA ApiMasterStepInv ==
  ASSUME ApiInv, ApiMasterStep
  PROVE  ApiInv'
<1>1. CASE LockPost \/ UnlockPost \/ EndFunc \/ LockBarrier \/ WaitForWorkers
  <2> USE DEF Goto, cmdVars, workingVars, workerVars, mainVars, LockPost, UnlockPost, EndFunc,
              LockBarrier, WaitForWorkers, Posted
  <2>1. PICK l \in {"body", "func", "barrier", "check"} :
          /\ pc' = [pc EXCEPT ![Master] = l]
          /\ \/ pc[Master] = "post" /\ l = "body"
             \/ Posted /\ l \in {"posted", "func", "barrier", "check"}
    BY <1>1
  <2>2. UNCHANGED ApiVars /\ state' = state
    BY <1>1 DEF ApiVars
  <2>3. QED
    BY <2>1, <2>2, MasterGoesOn
<1>2. QED
  BY <1>1, SpawnApi, NextRoundApi, ResetApi, AssignOneApi, AssigningApi, PostApi, LeaveBarrierApi,
     FinalizeApi DEF ApiMasterStep

LEMMA ApiInitInv == Init => ApiInv
<1> SUFFICES ASSUME Init  PROVE ApiInv
  OBVIOUS
<1> USE WorkerFacts, NAssumption, TestsAssumption DEF Thread, Init
<1>1. pc[Master] = "spawn" /\ ~Posted /\ ~Ending /\ \A w \in Worker : pc[w] = "unborn"
  BY DEF Posted, Ending
<1>2. ApiTypeOK
  BY DEF ApiTypeOK, Phase
<1>3. ApiWorkerInv
  BY <1>1 DEF ApiWorkerInv, NothingToDo, Executing
<1>4. ApiMasterInv
  BY <1>1 DEF ApiMasterInv
<1>5. QED
  BY <1>2, <1>3, <1>4 DEF ApiInv

LEMMA ApiInvariance == ApiSpec => []ApiInv
<1>1. ApiInv /\ [ApiNext]_vars => ApiInv'
  <2> SUFFICES ASSUME ApiInv, [ApiNext]_vars PROVE ApiInv'
    OBVIOUS
  <2>1. CASE SpuriousWakeup \/ Over \/ UNCHANGED vars
    <3>1. UNCHANGED <<cmd, cmd_count, working, workerVars, pc, mainVars>>
      BY <2>1 DEF SpuriousWakeup, Over, vars, cmdVars, workingVars, workerVars, mainVars
    <3>2. QED
      BY <3>1 DEF workerVars, mainVars, ApiInv, ApiTypeOK, ApiWorkerInv, ApiMasterInv, Assigned, Owed,
         Executing, Posted, Ending, NothingToDo
  <2>2. QED
    BY <2>1, ApiMasterStepInv, ApiWorkerStepInv DEF ApiNext
<1>2. QED
  BY <1>1, ApiInitInv, PTL DEF ApiSpec

(* A client may assign tests to some of the workers only, and shut down    *)
(* before it has assigned any: still no two threads are in functions of    *)
(* different tests or phases.                                              *)
THEOREM ApiExclusion == ApiSpec => []PhaseExclusion
<1>1. ApiInv => PhaseExclusion
  <2> SUFFICES ASSUME ApiInv, NEW t \in Thread, JobOf(t) # 0
               PROVE  JobOf(t) = StepNo(test, phase)
    BY DEF PhaseExclusion
  <2>1. CASE t = Master
    BY <2>1 DEF JobOf
  <2>2. CASE t # Master
    <3>1. t \in Worker /\ pc[t] = "call" /\ JobOf(t) = StepNo(func[t], state[t])
      BY <2>2 DEF Thread, JobOf
    <3>2. Posted /\ state[t] = cmd /\ func[t] # 0
      BY <3>1 DEF ApiInv, ApiWorkerInv, Executing
    <3>3. cmd = phase /\ func[t] = test
      BY <3>1, <3>2 DEF ApiInv, ApiMasterInv
    <3>4. QED
      BY <3>1, <3>2, <3>3
  <2>3. QED
    BY <2>1, <2>2
<1>2. QED
  BY <1>1, ApiInvariance, PTL
=============================================================================
