--------------------------- MODULE ThreadDispatch ---------------------------
(***************************************************************************)
(* The dispatcher of tst_threads.c: the master thread of a process hands   *)
(* the init, run and cleanup functions of one test after the other to N    *)
(* worker threads (tst_thread_execute_init/_run/_cleanup), calls the same  *)
(* function itself and waits for the workers (worker_barrier).             *)
(*                                                                         *)
(* A mutex is the thread that holds it.  A condition variable is the set   *)
(* of the threads blocked on it.  What a thread does while it holds a      *)
(* mutex is one step, the acquisition and, where another lock's data are   *)
(* touched, the release are steps of their own.  The call of a test        *)
(* function is the interval between a step that begins it and one that     *)
(* ends it.  The client is the loop of main: every test is assigned to     *)
(* all workers, then executed.                                             *)
(***************************************************************************)
EXTENDS Integers, FiniteSets

CONSTANTS N,           \* the number of worker threads (option -j)
          Tests,       \* the number of tests main executes
          MaxSpurious  \* bound on the spurious wakeups that are explored

ASSUME NAssumption == N \in Nat \ {0}
ASSUME TestsAssumption == Tests \in Nat
ASSUME SpuriousAssumption == MaxSpurious \in Nat

Worker == 0..(N - 1)
Master == -1            \* TST_THREAD_MASTER
Free == -2              \* owner of a mutex that is not locked
Thread == Worker \cup {Master}

Phase == {"init", "run", "cleanup"}

VARIABLES
  cmd, cmd_count,       \* the command announced last, and its number
  cmd_mutex, cmd_cond,
  working,              \* workers that have not finished the command
  working_mutex, working_cond,
  func,                 \* the test whose functions a worker was assigned; 0: NULL
  state,                \* thread_env->state
  local_cmd, local_count,
  pc,                   \* where each thread is
  test, phase,          \* main's loop counter, the phase it executes
  assigned,             \* loop index of tst_thread_assign_all, of tst_thread_init
  spurious              \* spurious wakeups so far

cmdVars     == <<cmd, cmd_count, cmd_mutex, cmd_cond>>
workingVars == <<working, working_mutex, working_cond>>
workerVars  == <<func, state, local_cmd, local_count>>
mainVars    == <<test, phase, assigned>>
vars == <<cmdVars, workingVars, workerVars, pc, mainVars, spurious>>

WorkerPC == {"unborn", "lock", "wait", "test", "taken", "call",
             "done", "dec", "unlock"}
MasterPC == {"spawn", "loop", "assign", "assigned", "post", "body", "posted",
             "func", "barrier", "check", "exit"}

(* Every variable has its type; the master creates, assigns to and waits   *)
(* for the N workers only.                                                 *)
TypeOK ==
  /\ cmd \in Phase \cup {"null"}
  /\ cmd_count \in Nat
  /\ cmd_mutex \in Thread \cup {Free}
  /\ cmd_cond \in SUBSET Worker
  /\ working \in Int
  /\ working_mutex \in Thread \cup {Free}
  /\ working_cond \in SUBSET {Master}
  /\ func \in [Worker -> 0..Tests]
  /\ state \in [Worker -> Phase \cup {"idle"}]
  /\ local_cmd \in [Worker -> Phase \cup {"null"}]
  /\ local_count \in [Worker -> Nat]
  /\ pc \in [Thread -> WorkerPC \cup MasterPC]
  /\ \A w \in Worker : pc[w] \in WorkerPC
  /\ pc[Master] \in MasterPC
  /\ test \in 0..Tests
  /\ phase \in Phase
  /\ assigned \in 0..N
  /\ spurious \in 0..MaxSpurious

Init ==
  /\ cmd = "null"
  /\ cmd_count = 0
  /\ cmd_mutex = Free
  /\ cmd_cond = {}
  /\ working = 0
  /\ working_mutex = Free
  /\ working_cond = {}
  /\ func = [w \in Worker |-> 0]
  /\ state = [w \in Worker |-> "idle"]
  /\ local_cmd = [w \in Worker |-> "null"]
  /\ local_count = [w \in Worker |-> 0]
  /\ pc = [t \in Thread |-> IF t = Master THEN "spawn" ELSE "unborn"]
  /\ test = 0
  /\ phase = "init"
  /\ assigned = 0
  /\ spurious = 0

Goto(t, l) == pc' = [pc EXCEPT ![t] = l]

-----------------------------------------------------------------------------
(* A worker: tst_thread_dispatcher and worker_done.                        *)

(* pthread_mutex_lock(&cmd_mutex), or the end of pthread_cond_wait.        *)
LockCmd(w) ==
  /\ \/ pc[w] = "lock"
     \/ pc[w] = "wait" /\ w \notin cmd_cond
  /\ cmd_mutex = Free
  /\ cmd_mutex' = w
  /\ Goto(w, "test")
  /\ UNCHANGED <<cmd, cmd_count, cmd_cond, workingVars, workerVars, mainVars, spurious>>

(* The condition under which the worker goes on waiting.                   *)
NothingToDo(w) == local_count[w] = cmd_count \/ func[w] = 0

(* Faults that the runs must notice (here and below, named after what the  *)
(* definition that follows them would have forgotten).                     *)
TakeCmdUncounted(w) ==
  /\ pc[w] = "test"
  /\ ~NothingToDo(w)
  /\ local_cmd' = [local_cmd EXCEPT ![w] = cmd]
  /\ cmd_mutex' = Free
  /\ Goto(w, "taken")
  /\ UNCHANGED <<cmd, cmd_count, cmd_cond, workingVars, func, state, local_count, mainVars, spurious>>

WaitForCmd(w) ==
  /\ pc[w] = "test"
  /\ NothingToDo(w)
  /\ cmd_cond' = cmd_cond \cup {w}
  /\ cmd_mutex' = Free
  /\ Goto(w, "wait")
  /\ UNCHANGED <<cmd, cmd_count, workingVars, workerVars, mainVars, spurious>>

TakeCmd(w) ==
  /\ pc[w] = "test"
  /\ ~NothingToDo(w)
  /\ local_cmd' = [local_cmd EXCEPT ![w] = cmd]
  /\ local_count' = [local_count EXCEPT ![w] = cmd_count]
  /\ cmd_mutex' = Free
  /\ Goto(w, "taken")
  /\ UNCHANGED <<cmd, cmd_count, cmd_cond, workingVars, func, state, mainVars, spurious>>

BeginCall(w) ==
  /\ pc[w] = "taken"
  /\ state' = [state EXCEPT ![w] = local_cmd[w]]
  /\ Goto(w, "call")
  /\ UNCHANGED <<cmdVars, workingVars, func, local_cmd, local_count, mainVars, spurious>>

EndCall(w) ==
  /\ pc[w] = "call"
  /\ state' = [state EXCEPT ![w] = "idle"]
  /\ Goto(w, "done")
  /\ UNCHANGED <<cmdVars, workingVars, func, local_cmd, local_count, mainVars, spurious>>

LockWorking(w) ==
  /\ pc[w] = "done"
  /\ working_mutex = Free
  /\ working_mutex' = w
  /\ Goto(w, "dec")
  /\ UNCHANGED <<cmdVars, working, working_cond, workerVars, mainVars, spurious>>

WorkerDoneUnsignalled(w) ==
  /\ pc[w] = "dec"
  /\ working' = working - 1
  /\ Goto(w, "unlock")
  /\ UNCHANGED <<cmdVars, working_mutex, working_cond, workerVars, mainVars, spurious>>

(* working--; the one worker that reaches 0 wakes the master.              *)
WorkerDone(w) ==
  /\ pc[w] = "dec"
  /\ working' = working - 1
  /\ working_cond' = IF working' = 0 THEN {} ELSE working_cond
  /\ Goto(w, "unlock")
  /\ UNCHANGED <<cmdVars, working_mutex, workerVars, mainVars, spurious>>

UnlockWorking(w) ==
  /\ pc[w] = "unlock"
  /\ working_mutex' = Free
  /\ Goto(w, "lock")
  /\ UNCHANGED <<cmdVars, working, working_cond, workerVars, mainVars, spurious>>

WorkerStep(w) ==
  \/ LockCmd(w) \/ WaitForCmd(w) \/ TakeCmd(w) \/ BeginCall(w) \/ EndCall(w)
  \/ LockWorking(w) \/ WorkerDone(w) \/ UnlockWorking(w)

-----------------------------------------------------------------------------
(* The master: tst_thread_init, tst_thread_assign_all, the three           *)
(* tst_thread_execute functions and the loop of main around them.          *)

(* pthread_create, one worker per iteration.                               *)
Spawn ==
  /\ pc[Master] = "spawn"
  /\ IF assigned < N
     THEN /\ assigned' = assigned + 1
          /\ Goto(assigned, "lock")
     ELSE /\ assigned' = 0
          /\ Goto(Master, "loop")
  /\ UNCHANGED <<cmdVars, workingVars, workerVars, test, phase, spurious>>

(* The next test passes the checks of main's loop, or the loop ends.       *)
NextTest ==
  /\ pc[Master] = "loop"
  /\ assigned' = 0
  /\ IF test < Tests
     THEN test' = test + 1 /\ Goto(Master, "assign")
     ELSE test' = test /\ Goto(Master, "exit")
  /\ UNCHANGED <<cmdVars, workingVars, workerVars, phase, spurious>>

AssignPastEnd ==
  /\ pc[Master] = "assign"
  /\ IF assigned <= N
     THEN /\ func' = [func EXCEPT ![assigned] = test]
          /\ assigned' = assigned + 1
          /\ UNCHANGED pc
     ELSE /\ Goto(Master, "assigned")
          /\ UNCHANGED <<func, assigned>>
  /\ UNCHANGED <<cmdVars, workingVars, state, local_cmd, local_count, test, phase, spurious>>

(* env and the three function pointers of one worker; no lock is held.     *)
Assign ==
  /\ pc[Master] = "assign"
  /\ IF assigned < N
     THEN /\ func' = [func EXCEPT ![assigned] = test]
          /\ assigned' = assigned + 1
          /\ UNCHANGED pc
     ELSE /\ Goto(Master, "assigned")
          /\ UNCHANGED <<func, assigned>>
  /\ UNCHANGED <<cmdVars, workingVars, state, local_cmd, local_count, test, phase, spurious>>

AssignWorking ==
  /\ pc[Master] = "assigned"
  /\ working_mutex = Free
  /\ working' = N
  /\ phase' = "init"
  /\ Goto(Master, "post")
  /\ UNCHANGED <<cmdVars, working_mutex, working_cond, workerVars, test, assigned, spurious>>

LockPost ==
  /\ pc[Master] = "post"
  /\ cmd_mutex = Free
  /\ cmd_mutex' = Master
  /\ Goto(Master, "body")
  /\ UNCHANGED <<cmd, cmd_count, cmd_cond, workingVars, workerVars, mainVars, spurious>>

PostUncounted ==
  /\ pc[Master] = "body"
  /\ cmd' = phase
  /\ cmd_count' = cmd_count + 1
  /\ cmd_cond' = {}
  /\ Goto(Master, "posted")
  /\ UNCHANGED <<cmd_mutex, workingVars, workerVars, mainVars, spurious>>

PostSilently ==
  /\ pc[Master] = "body"
  /\ cmd' = phase
  /\ cmd_count' = cmd_count + 1
  /\ working' = IF phase = "init" THEN working ELSE N
  /\ Goto(Master, "posted")
  /\ UNCHANGED <<cmd_mutex, cmd_cond, working_mutex, working_cond, workerVars, mainVars, spurious>>

(* The command is announced.  execute_init relies on assign_all for        *)
(* working; the other two set it, holding cmd_mutex and not working_mutex. *)
Post ==
  /\ pc[Master] = "body"
  /\ cmd' = phase
  /\ cmd_count' = cmd_count + 1
  /\ working' = IF phase = "init" THEN working ELSE N
  /\ cmd_cond' = {}
  /\ Goto(Master, "posted")
  /\ UNCHANGED <<cmd_mutex, working_mutex, working_cond, workerVars, mainVars, spurious>>

(* The command mutex is released and the master calls the test function.   *)
UnlockPost ==
  /\ pc[Master] = "posted"
  /\ cmd_mutex' = Free
  /\ Goto(Master, "func")
  /\ UNCHANGED <<cmd, cmd_count, cmd_cond, workingVars, workerVars, mainVars, spurious>>

EndFunc ==
  /\ pc[Master] = "func"
  /\ Goto(Master, "barrier")
  /\ UNCHANGED <<cmdVars, workingVars, workerVars, mainVars, spurious>>

LockBarrier ==
  /\ pc[Master] = "barrier"
  /\ Master \notin working_cond
  /\ working_mutex = Free
  /\ working_mutex' = Master
  /\ Goto(Master, "check")
  /\ UNCHANGED <<cmdVars, working, working_cond, workerVars, mainVars, spurious>>

WaitForWorkers ==
  /\ pc[Master] = "check"
  /\ working > 0
  /\ working_cond' = {Master}
  /\ working_mutex' = Free
  /\ Goto(Master, "barrier")
  /\ UNCHANGED <<cmdVars, working, workerVars, mainVars, spurious>>

LeaveBarrierEarly ==
  /\ pc[Master] = "check"
  /\ working <= 1
  /\ working_mutex' = Free
  /\ phase' = CASE phase = "init" -> "run"
                [] phase = "run" -> "cleanup"
                [] phase = "cleanup" -> "init"
  /\ Goto(Master, IF phase = "cleanup" THEN "loop" ELSE "post")
  /\ UNCHANGED <<cmdVars, working, working_cond, workerVars, test, assigned, spurious>>

(* The barrier is passed: the next phase, or the next test.                *)
LeaveBarrier ==
  /\ pc[Master] = "check"
  /\ working <= 0
  /\ working_mutex' = Free
  /\ phase' = CASE phase = "init" -> "run"
                [] phase = "run" -> "cleanup"
                [] phase = "cleanup" -> "init"
  /\ Goto(Master, IF phase = "cleanup" THEN "loop" ELSE "post")
  /\ UNCHANGED <<cmdVars, working, working_cond, workerVars, test, assigned, spurious>>

MasterStep ==
  \/ Spawn \/ NextTest \/ Assign \/ AssignWorking
  \/ LockPost \/ Post \/ UnlockPost \/ EndFunc
  \/ LockBarrier \/ WaitForWorkers \/ LeaveBarrier

-----------------------------------------------------------------------------

(* pthread_cond_wait may return although nobody signalled.                 *)
SpuriousWakeup ==
  /\ spurious < MaxSpurious
  /\ spurious' = spurious + 1
  /\ \/ /\ \E w \in cmd_cond : cmd_cond' = cmd_cond \ {w}
        /\ UNCHANGED working_cond
     \/ /\ working_cond # {}
        /\ working_cond' = {}
        /\ UNCHANGED cmd_cond
  /\ UNCHANGED <<cmd, cmd_count, cmd_mutex, working, working_mutex, workerVars, pc, mainVars>>

(* main has returned: the process is gone and its workers with it.         *)
Exited == pc[Master] = "exit" /\ UNCHANGED vars

Next == MasterStep \/ (\E w \in Worker : WorkerStep(w)) \/ SpuriousWakeup \/ Exited

Spec == Init /\ [][Next]_vars

(* Every thread that can go on does: the scheduler starves no thread, and  *)
(* the test functions return.                                              *)
FairSpec == Spec /\ WF_vars(MasterStep) /\ \A w \in Worker : WF_vars(WorkerStep(w))

-----------------------------------------------------------------------------
(* Properties.                                                             *)

(* The commands of all tests in the order main executes them: 1, 2, ...    *)
StepNo(k, ph) ==
  3 * (k - 1) + (CASE ph = "init" -> 1 [] ph = "run" -> 2 [] ph = "cleanup" -> 3)

(* The step a thread is executing: between the entry into a test function  *)
(* and its return, 0 elsewhere.  The master is in the function from the    *)
(* release of cmd_mutex on, a worker from the write of its state on.       *)
JobOf(t) ==
  IF t = Master
  THEN IF pc[Master] = "func" THEN StepNo(test, phase) ELSE 0
  ELSE IF pc[t] = "call" THEN StepNo(func[t], state[t]) ELSE 0

(* The steps a thread has executed.                                        *)
EndedOf(t) ==
  IF t = Master
  THEN IF pc[Master] \in {"posted", "func"} THEN cmd_count - 1 ELSE cmd_count
  ELSE IF pc[t] \in {"taken", "call"} THEN local_count[t] - 1 ELSE local_count[t]

Jobs == [t \in Thread |-> JobOf(t)]
Ends == [t \in Thread |-> EndedOf(t)]

Promise == INSTANCE LockStep WITH
  MaxEpoch <- 3 * Tests, epoch <- cmd_count, job <- Jobs, ended <- Ends

(* The dispatcher implements the lock step: every thread executes every    *)
(* step once, none begins one before all have ended its predecessor.       *)
ImplementsLockStep == Promise!Spec

(* All threads get through the functions of all tests: no command is lost  *)
(* between cmd_count, the condition variables and the count of workers.    *)
AllStepsExecuted == Promise!AllDone

(* No thread is in a function of one test or phase while another is in     *)
(* that of a different one.                                                *)
PhaseExclusion ==
  \A t, u \in Thread : JobOf(t) # 0 /\ JobOf(u) # 0 => JobOf(t) = JobOf(u)

(* The workers that have not counted themselves out of the command         *)
(* announced last.                                                         *)
Outstanding ==
  {w \in Worker : \/ local_count[w] < cmd_count
                  \/ pc[w] \in {"taken", "call", "done", "dec"}}

(* From the announcement of a command to the end of its barrier, working   *)
(* is the number of workers that have not finished it.                     *)
WorkingCounts ==
  pc[Master] \in {"posted", "func", "barrier", "check"} =>
    working = Cardinality(Outstanding)

(* The unlocked accesses do not race: no worker is at working-- when       *)
(* execute_run and execute_cleanup set working without its mutex, and none *)
(* reads its assignment while assign_all rewrites it.                      *)
NoDataRace ==
  /\ pc[Master] = "body" /\ phase # "init" =>
       \A w \in Worker : pc[w] \notin {"dec", "unlock"}
  /\ pc[Master] = "assign" =>
       \A w \in Worker : pc[w] \notin {"taken", "call"} /\ (pc[w] = "test" => local_count[w] = cmd_count)

(* No wakeup is lost: a worker blocked on cmd_cond has executed all        *)
(* commands, and while the master is blocked on working_cond some worker   *)
(* is still going to count itself out.                                     *)
NoLostWakeup ==
  /\ \A w \in cmd_cond : local_count[w] = cmd_count
  /\ working_cond # {} => Outstanding # {}

-----------------------------------------------------------------------------
(* The inductive invariant behind these properties.                        *)

(* From the announcement of a command to the end of its barrier.           *)
Posted == pc[Master] \in {"posted", "func", "barrier", "check"}

MutexInv ==
  /\ \A w \in Worker : /\ cmd_mutex = w <=> pc[w] = "test"
                       /\ working_mutex = w <=> pc[w] \in {"dec", "unlock"}
  /\ cmd_mutex = Master <=> pc[Master] \in {"body", "posted"}
  /\ working_mutex = Master <=> pc[Master] = "check"

(* Where a worker may be: only between announcement and barrier does it    *)
(* lag behind cmd_count or is it executing.                                *)
WorkerInv ==
  \A w \in Worker :
    /\ \/ local_count[w] = cmd_count
       \/ Posted /\ local_count[w] = cmd_count - 1 /\ pc[w] \in {"lock", "wait", "test"}
    /\ pc[w] \in {"taken", "call", "done", "dec", "unlock"} => Posted /\ local_cmd[w] = cmd
    /\ state[w] = IF pc[w] = "call" THEN local_cmd[w] ELSE "idle"
    /\ w \in cmd_cond => pc[w] = "wait" /\ local_count[w] = cmd_count
    /\ pc[w] = "unborn" <=> pc[Master] = "spawn" /\ w >= assigned

(* Where the master is determines the number of the command, the           *)
(* assignment of the workers and the count of them.                        *)
MasterInv ==
  /\ pc[Master] \in {"spawn", "loop", "exit"} => cmd_count = 3 * test
  /\ pc[Master] = "spawn" => test = 0
  /\ pc[Master] \in {"assign", "assigned"} => test > 0 /\ cmd_count = 3 * (test - 1)
  /\ pc[Master] = "assign" => \A w \in Worker : w < assigned => func[w] = test
  /\ pc[Master] = "assigned" => \A w \in Worker : func[w] = test
  /\ pc[Master] \in {"post", "body"} =>
       /\ test > 0 /\ cmd_count = StepNo(test, phase) - 1
       /\ \A w \in Worker : func[w] = test
       /\ phase = "init" => working = N
  /\ Posted =>
       /\ test > 0 /\ cmd = phase /\ cmd_count = StepNo(test, phase)
       /\ \A w \in Worker : func[w] = test
       /\ working = Cardinality(Outstanding)
  /\ working_cond # {} => pc[Master] = "barrier" /\ working > 0

IInv == TypeOK /\ MutexInv /\ WorkerInv /\ MasterInv
=============================================================================
