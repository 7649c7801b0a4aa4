-------------------------- MODULE PartitionedRing --------------------------
(***************************************************************************)
(* The two rings with partitioned communication                            *)
(* (tst_threaded_ring_partitioned.c and ..._many_to_one.c) and what they   *)
(* share between threads: the global requests and the global buffer of     *)
(* tst_threads.c.  The root sends its array in partitions, one per worker; *)
(* everybody else passes on each partition as soon as it has arrived.      *)
(* In the second test a receive partition holds those of Ratio workers:    *)
(* the first of them waits for it and signals to the others.               *)
(*                                                                         *)
(* The threads of a process go through the three functions in lock step,   *)
(* which is what ThreadDispatch is proved to do.  The two tests are        *)
(* registered without synchronisation of the processes.                    *)
(***************************************************************************)
EXTENDS Communicators

CONSTANTS MaxWorkers,   \* bound on the number of worker threads
          MaxValues,    \* bound on the number of values in a partition
          Plans         \* the number of workers, and for each combination that
                        \* main executes its communicator, its number of values
                        \* and ratio_send_to_receive (1 in the first test)

ASSUME PlanAssumption ==
  /\ MaxWorkers \in Nat \ {0} /\ MaxValues \in Nat \ {0}
  /\ \A plan \in Plans :
       /\ plan.workers \in 1..MaxWorkers
       /\ plan.rounds \in Seq([comm : {"self", "world", "dup", "reversed", "halved", "oddeven"},
                               ratio : 1..MaxWorkers, values : 1..MaxValues])
       /\ \A r \in DOMAIN plan.rounds : plan.workers % plan.rounds[r].ratio = 0

Master == -1                    \* TST_THREAD_MASTER

VARIABLES
  plan,
  round, phase,     \* per process: the combination, and the function of its threads
  pc,               \* per process and thread: the place in the function
  requests,         \* tst_thread_requests_array: the round that allocated it, 0 if none
  buffer, size,     \* tst_global_buffer (the same), tst_global_buffer_size
  send, recv,       \* the two halves of the buffer, by partition
  bufferOf,         \* env->send_buffer and env->recv_buffer of a thread
  requestsOf,       \* env->req_buffer of a thread
  barrier,          \* thread_barrier: the number it waits for, 0 before init
  signal,           \* tst_thread_signal_states_array
  started,          \* the requests are active
  readied, taken,   \* partitions marked ready, those the library has copied
  arrived,          \* the partitions of the sender that are in the receive buffer
  network,          \* the partitions under way
  faults            \* what no run on a sound library may do

globals == <<requests, buffer, size, barrier, signal>>
pointers == <<bufferOf, requestsOf>>
library == <<started, readied, taken, arrived, network>>
vars == <<plan, round, phase, pc, globals, send, recv, pointers, library, faults>>

Worker == 0..(plan.workers - 1)
Thread == {Master} \cup Worker
Now(p) == plan.rounds[round[p]]
LastRound == Len(plan.rounds)
Over(p) == round[p] > LastRound

(* A value is told by the run of the root that made it and its place in    *)
(* the array of the root; memory that malloc returns has none.             *)
Unset == [round |-> 0, partition |-> -1]
Standard(r, k) == [round |-> r, partition |-> k]
Data == {Unset} \cup [round : 1..LastRound, partition : Worker]

Places == {"idle", "alloc", "store", "publish", "signals", "take", "post", "world",
           "gate", "pready", "parrived", "release", "released", "copy",
           "waitall", "exit", "check", "free"}

(* Every variable has its type; a request is marked ready at most once per *)
(* partition, by a worker, and only what is ready leaves.                  *)
TypeOK ==
  /\ plan \in Plans
  /\ \A p \in Proc :
       /\ round[p] \in 1..(LastRound + 1)
       /\ phase[p] \in {"init", "run", "cleanup"}
       /\ pc[p] \in [Thread -> Places]
       /\ requests[p] \in 0..LastRound /\ buffer[p] \in 0..LastRound
       /\ size[p] \in 0..(2 * plan.workers * MaxValues)
       /\ send[p] \in [Worker -> Data] /\ recv[p] \in [Worker -> Data]
       /\ bufferOf[p] \in [Thread -> 0..LastRound]
       /\ requestsOf[p] \in [Thread -> 0..LastRound]
       /\ barrier[p] \in 0..(plan.workers + 1)
       /\ signal[p] \in [Worker -> {"wait", "goon"}]
       /\ started[p] \in BOOLEAN
       /\ readied[p] \subseteq Worker /\ taken[p] \subseteq readied[p]
       /\ arrived[p] \subseteq Worker
  /\ network \subseteq [round : 1..LastRound, to : Proc, partition : Worker, data : Data]
  /\ faults \subseteq {"dangling", "unstarted", "range", "foreign"}

(* The places at which the threads of a process begin a function.          *)
Begin(f) ==
  [t \in Thread |->
     IF t = Master THEN (CASE f = "init" -> "alloc" [] f = "run" -> "post" [] OTHER -> "free")
     ELSE (CASE f = "init" -> "take" [] f = "run" -> "gate" [] OTHER -> "idle")]

Init ==
  /\ plan \in Plans
  /\ round = [p \in Proc |-> 1]
  /\ phase = [p \in Proc |-> "init"]
  /\ pc = [p \in Proc |-> Begin("init")]
  /\ requests = [p \in Proc |-> 0]
  /\ buffer = [p \in Proc |-> 0]
  /\ size = [p \in Proc |-> 0]
  /\ send = [p \in Proc |-> [k \in Worker |-> Unset]]
  /\ recv = send
  /\ bufferOf = [p \in Proc |-> [t \in Thread |-> 0]]
  /\ requestsOf = bufferOf
  /\ barrier = [p \in Proc |-> 0]
  /\ signal = [p \in Proc |-> [k \in Worker |-> "wait"]]
  /\ started = [p \in Proc |-> FALSE]
  /\ readied = [p \in Proc |-> {}]
  /\ taken = [p \in Proc |-> {}]
  /\ arrived = [p \in Proc |-> {}]
  /\ network = {}
  /\ faults = {}

At(p, t, place) == ~Over(p) /\ pc[p][t] = place
Goto(p, t, place) == pc' = [pc EXCEPT ![p][t] = place]
Fault(f, holds) == faults' = IF holds THEN faults \cup {f} ELSE faults

IsRoot(p) == RankIn(Now(p).comm, p) = 0

(* send_to: the next rank of the communicator.                             *)
SendTo(p) ==
  LET group == LocalGroup(Now(p).comm, p)
  IN  group[((RankIn(Now(p).comm, p) + 1) % Len(group)) + 1]

(* The partitions of a thread.  In C, -1 % 1 is 0 and -1 % 4 is -1: the    *)
(* master gets receive partition -1 either way.                            *)
Sends(t) == t >= 0 /\ t < plan.workers
RecvPartition(p, t) == IF t % Now(p).ratio = 0 THEN t \div Now(p).ratio ELSE -1
Receives(p, t) ==
  RecvPartition(p, t) >= 0 /\ RecvPartition(p, t) < plan.workers \div Now(p).ratio

(* The partitions of the sender that make up a receive partition.          *)
Covered(p, j) == (j * Now(p).ratio)..((j + 1) * Now(p).ratio - 1)

-----------------------------------------------------------------------------
(* The global requests and the global buffer.                              *)

(* tst_thread_alloc_global_requests, and pthread_barrier_init behind it.   *)
AllocRequests(p) ==
  /\ At(p, Master, "alloc")
  /\ requests' = [requests EXCEPT ![p] = round[p]]
  /\ barrier' = [barrier EXCEPT ![p] = plan.workers + 1]
  /\ Goto(p, Master, "store")
  /\ UNCHANGED <<plan, round, phase, buffer, size, signal, send, recv, pointers, library, faults>>

(* tst_thread_global_buffer_init stores the address first, then the size   *)
(* that the workers wait for.                                              *)
StoreBuffer(p) ==
  /\ At(p, Master, "store")
  /\ buffer' = [buffer EXCEPT ![p] = round[p]]
  /\ send' = [send EXCEPT ![p] = [k \in Worker |-> Unset]]
  /\ recv' = [recv EXCEPT ![p] = [k \in Worker |-> Unset]]
  /\ Goto(p, Master, "publish")
  /\ UNCHANGED <<plan, round, phase, requests, size, barrier, signal, pointers, library, faults>>

BufferSize(p) == plan.workers * Now(p).values

PublishSize(p) ==
  /\ At(p, Master, "publish")
  /\ size' = [size EXCEPT ![p] = 2 * BufferSize(p)]
  /\ Goto(p, Master, IF Now(p).ratio = 1 THEN "take" ELSE "signals")
  /\ UNCHANGED <<plan, round, phase, requests, buffer, barrier, signal, send, recv, pointers,
                 library, faults>>

(* tst_thread_signal_init, each time anew.                                 *)
InitSignals(p) ==
  /\ At(p, Master, "signals")
  /\ signal' = [signal EXCEPT ![p] = [k \in Worker |-> "wait"]]
  /\ Goto(p, Master, "take")
  /\ UNCHANGED <<plan, round, phase, requests, buffer, size, barrier, send, recv, pointers,
                 library, faults>>

(* The end of init: a busy wait for the size, then the addresses; the      *)
(* master of the root sets the values it will send.                        *)
TakeBuffer(p, t) ==
  /\ At(p, t, "take")
  /\ size[p] = 2 * BufferSize(p)
  /\ bufferOf' = [bufferOf EXCEPT ![p][t] = buffer[p]]
  /\ requestsOf' = [requestsOf EXCEPT ![p][t] = requests[p]]
  /\ send' = IF IsRoot(p) /\ t = Master
             THEN [send EXCEPT ![p] = [k \in Worker |-> Standard(round[p], k)]] ELSE send
  /\ Goto(p, t, "idle")
  /\ UNCHANGED <<plan, round, phase, globals, recv, library, faults>>

(* The cleanup function, with tst_thread_free_global_requests and          *)
(* tst_thread_global_buffer_cleanup.  Nobody cleans up the signals.        *)
FreeGlobalsKeepingSize(p) ==
  /\ At(p, Master, "free")
  /\ requests' = [requests EXCEPT ![p] = 0]
  /\ buffer' = [buffer EXCEPT ![p] = 0]
  /\ barrier' = [barrier EXCEPT ![p] = 0]
  /\ Goto(p, Master, "idle")
  /\ UNCHANGED <<plan, round, phase, size, signal, send, recv, pointers, library, faults>>

FreeGlobals(p) ==
  /\ At(p, Master, "free")
  /\ requests' = [requests EXCEPT ![p] = 0]
  /\ buffer' = [buffer EXCEPT ![p] = 0]
  /\ size' = [size EXCEPT ![p] = 0]
  /\ barrier' = [barrier EXCEPT ![p] = 0]
  /\ Goto(p, Master, "idle")
  /\ UNCHANGED <<plan, round, phase, signal, send, recv, pointers, library, faults>>

-----------------------------------------------------------------------------
(* The run function.                                                       *)

(* MPI_Psend_init, MPI_Precv_init and MPI_Startall.                        *)
Startall(p) ==
  /\ At(p, Master, "post")
  /\ started' = [started EXCEPT ![p] = TRUE]
  /\ readied' = [readied EXCEPT ![p] = {}]
  /\ taken' = [taken EXCEPT ![p] = {}]
  /\ arrived' = [arrived EXCEPT ![p] = {}]
  /\ Goto(p, Master, "world")
  /\ Fault("dangling", bufferOf[p][Master] # buffer[p] \/ requestsOf[p][Master] # requests[p])
  /\ UNCHANGED <<plan, round, phase, globals, send, recv, pointers, network>>

(* MPI_Barrier (MPI_COMM_WORLD): all requests are active behind it.        *)
MeetProcesses ==
  /\ \A p \in Proc : At(p, Master, "world")
  /\ pc' = [p \in Proc |-> [pc[p] EXCEPT ![Master] = "gate"]]
  /\ UNCHANGED <<plan, round, phase, globals, send, recv, pointers, library, faults>>

Finish(t) == IF t = Master THEN "waitall" ELSE "exit"
Forward(p) == IF Now(p).ratio = 1 THEN "copy" ELSE "release"

(* pthread_barrier_wait, twice: as many threads as thread_barrier is for,  *)
(* the first time into the exchange, the second time to its check.         *)
BehindGateUnguarded(p, t) ==
  IF IsRoot(p) THEN "pready"
  ELSE IF ~Sends(t) THEN Finish(t)
       ELSE IF Receives(p, t) THEN "parrived"
            ELSE IF Now(p).ratio = 1 THEN "copy" ELSE "released"

BehindGate(p, t) ==
  IF IsRoot(p)
  THEN IF Sends(t) THEN "pready" ELSE IF Receives(p, t) THEN "parrived" ELSE Finish(t)
  ELSE IF ~Sends(t) THEN Finish(t)
       ELSE IF Receives(p, t) THEN "parrived"
            ELSE IF Now(p).ratio = 1 THEN "copy" ELSE "released"

BehindExit(t) == IF t = Master THEN "check" ELSE "idle"

BarrierWait(p, place) ==
  \E group \in SUBSET {t \in Thread : At(p, t, place)} :
    /\ group # {} /\ Cardinality(group) = barrier[p]
    /\ pc' = [pc EXCEPT ![p] =
                [t \in Thread |-> IF t \notin group THEN @[t]
                                 ELSE IF place = "gate" THEN BehindGate(p, t) ELSE BehindExit(t)]]
    /\ UNCHANGED <<plan, round, phase, globals, send, recv, pointers, library, faults>>

(* MPI_Pready of the partition of the thread.                              *)
Pready(p, t) ==
  /\ At(p, t, "pready")
  /\ readied' = [readied EXCEPT ![p] = @ \cup {t}]
  /\ Goto(p, t, IF IsRoot(p) /\ Receives(p, t) THEN "parrived" ELSE Finish(t))
  /\ faults' = faults \cup (IF ~started[p] \/ t \in readied[p] THEN {"unstarted"} ELSE {})
                      \cup (IF requestsOf[p][t] # requests[p] THEN {"dangling"} ELSE {})
  /\ UNCHANGED <<plan, round, phase, globals, send, recv, pointers, started, taken, arrived,
                 network>>

(* wait_for_partition: MPI_Parrived until it says so.                      *)
WaitForPartition(p, t) ==
  /\ At(p, t, "parrived")
  /\ Covered(p, RecvPartition(p, t)) \subseteq arrived[p]
  /\ Goto(p, t, IF IsRoot(p) THEN Finish(t) ELSE Forward(p))
  /\ Fault("dangling", requestsOf[p][t] # requests[p])
  /\ UNCHANGED <<plan, round, phase, globals, send, recv, pointers, library>>

(* tst_thread_signal_send to the others of the partition.                  *)
PartnersButLast(p, t) == (t + 1)..(t + Now(p).ratio - 2)
Partners(p, t) == (t + 1)..(t + Now(p).ratio - 1)

Release(p, t) ==
  /\ At(p, t, "release")
  /\ signal' = [signal EXCEPT ![p] =
                  [k \in Worker |-> IF k \in Partners(p, t) THEN "goon" ELSE @[k]]]
  /\ Goto(p, t, "copy")
  /\ Fault("range", ~(Partners(p, t) \subseteq Worker))
  /\ UNCHANGED <<plan, round, phase, requests, buffer, size, barrier, send, recv, pointers, library>>

(* tst_thread_signal_wait.                                                 *)
ReleasedAtOnce(p, t) == TRUE
Released(p, t) == signal[p][t] = "goon"

AwaitRelease(p, t) ==
  /\ At(p, t, "released")
  /\ Released(p, t)
  /\ Goto(p, t, "copy")
  /\ UNCHANGED <<plan, round, phase, globals, send, recv, pointers, library, faults>>

(* memcpy of the partition of the thread.                                  *)
CopyPartition(p, t) ==
  /\ At(p, t, "copy")
  /\ send' = [send EXCEPT ![p][t] = recv[p][t]]
  /\ Goto(p, t, "pready")
  /\ Fault("dangling", bufferOf[p][t] # buffer[p])
  /\ UNCHANGED <<plan, round, phase, globals, recv, pointers, library>>

(* MPI_Waitall of the two requests.                                        *)
Waitall(p) ==
  /\ At(p, Master, "waitall")
  /\ taken[p] = Worker /\ arrived[p] = Worker
  /\ started' = [started EXCEPT ![p] = FALSE]
  /\ Goto(p, Master, "exit")
  /\ UNCHANGED <<plan, round, phase, globals, send, recv, pointers, readied, taken, arrived,
                 network, faults>>

(* tst_test_checkstandardarray looks at values_num values, which are those *)
(* of the first partition, and cannot tell one run of the root from        *)
(* another.                                                                *)
Check(p) ==
  /\ At(p, Master, "check")
  /\ Goto(p, Master, "idle")
  /\ faults' = faults \cup (IF recv[p][0].partition # 0 THEN {"foreign"} ELSE {})
                      \cup (IF bufferOf[p][Master] # buffer[p] THEN {"dangling"} ELSE {})
  /\ UNCHANGED <<plan, round, phase, globals, send, recv, pointers, library>>

-----------------------------------------------------------------------------
(* The library: a partition that is ready leaves the send buffer, now or   *)
(* later, and gets into the receive buffer of the same run.                *)

TakePartition(p, k) ==
  /\ k \in readied[p] \ taken[p]
  /\ started[p]
  /\ taken' = [taken EXCEPT ![p] = @ \cup {k}]
  /\ network' = network \cup {[round |-> round[p], to |-> SendTo(p), partition |-> k,
                               data |-> send[p][k]]}
  /\ UNCHANGED <<plan, round, phase, pc, globals, send, recv, pointers, started, readied,
                 arrived, faults>>

Deliver(m) ==
  /\ m.round = round[m.to] /\ started[m.to]
  /\ recv' = [recv EXCEPT ![m.to][m.partition] = m.data]
  /\ arrived' = [arrived EXCEPT ![m.to] = @ \cup {m.partition}]
  /\ network' = network \ {m}
  /\ UNCHANGED <<plan, round, phase, pc, globals, send, pointers, started, readied, taken, faults>>

(* The lock step of the threads, and the loop of main.                     *)
NextFunction(p) ==
  /\ ~Over(p)
  /\ \A t \in Thread : pc[p][t] = "idle"
  /\ LET next == CASE phase[p] = "init" -> "run" [] phase[p] = "run" -> "cleanup" [] OTHER -> "init"
     IN  /\ phase' = [phase EXCEPT ![p] = next]
         /\ pc' = [pc EXCEPT ![p] = Begin(next)]
         /\ round' = [round EXCEPT ![p] = IF next = "init" THEN @ + 1 ELSE @]
  /\ UNCHANGED <<plan, globals, send, recv, pointers, library, faults>>

Ended == (\A p \in Proc : Over(p)) /\ UNCHANGED vars

MasterStep(p) ==
  \/ AllocRequests(p) \/ StoreBuffer(p) \/ PublishSize(p) \/ InitSignals(p)
  \/ Startall(p) \/ Waitall(p) \/ Check(p) \/ FreeGlobals(p)

ThreadStep(p, t) ==
  \/ TakeBuffer(p, t) \/ Pready(p, t) \/ WaitForPartition(p, t) \/ Release(p, t)
  \/ AwaitRelease(p, t) \/ CopyPartition(p, t)

Next ==
  \/ \E p \in Proc : \/ MasterStep(p) \/ BarrierWait(p, "gate") \/ BarrierWait(p, "exit") \/ NextFunction(p)
                     \/ \E t \in Thread : ThreadStep(p, t)
                     \/ \E k \in Worker : TakePartition(p, k)
  \/ MeetProcesses
  \/ \E m \in network : Deliver(m)
  \/ Ended

Spec == Init /\ [][Next]_vars

(* A plan is finite and no step repeats: it is enough that something       *)
(* happens as long as something can.                                       *)
FairSpec == Spec /\ WF_vars(Next)

-----------------------------------------------------------------------------

(* No thread uses the buffer or the requests of an earlier run, marks a    *)
(* partition of a request that is not active, or signals to a worker that  *)
(* does not exist, and the check at the end of a run finds the array of    *)
(* the root: the tests blame no library that is sound.                     *)
NoFalseFailure == faults = {}

(* When MPI_Waitall has returned, every partition of the receive buffer,   *)
(* those the check does not look at included, holds what the root of this  *)
(* very run has sent.                                                      *)
Carried ==
  \A p \in Proc : (At(p, Master, "exit") \/ At(p, Master, "check")) =>
    \A k \in Worker : recv[p][k] = Standard(round[p], k)

(* All processes go through all runs: no worker waits for a buffer, a      *)
(* partition, a signal or a barrier that does not come.                    *)
Completes == <>(\A p \in Proc : Over(p))
=============================================================================
