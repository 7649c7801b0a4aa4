------------------------ MODULE PartitionedRingProofs ------------------------
(***************************************************************************)
(* For any number of processes and workers, any ratio that divides the     *)
(* number of workers and any sequence of runs: the two tests blame no      *)
(* library that is sound, and carry every partition of the root to every   *)
(* process.                                                                *)
(***************************************************************************)
EXTENDS PartitionedRing, FiniteSetTheorems, TLAPS

Value == {Unset} \cup [round : Nat, partition : Int]

(* The types that the proof needs.  Those of TypeOK also bound the numbers.*)
Types ==
  /\ plan \in Plans
  /\ round \in [Proc -> Nat \ {0}]
  /\ phase \in [Proc -> {"init", "run", "cleanup"}]
  /\ pc \in [Proc -> [Thread -> Places]]
  /\ requests \in [Proc -> Nat] /\ buffer \in [Proc -> Nat]
  /\ size \in [Proc -> Nat] /\ barrier \in [Proc -> Nat]
  /\ send \in [Proc -> [Worker -> Value]] /\ recv \in [Proc -> [Worker -> Value]]
  /\ bufferOf \in [Proc -> [Thread -> Nat]] /\ requestsOf \in [Proc -> [Thread -> Nat]]
  /\ signal \in [Proc -> [Worker -> {"wait", "goon"}]]
  /\ started \in [Proc -> BOOLEAN]
  /\ readied \in [Proc -> SUBSET Worker] /\ taken \in [Proc -> SUBSET Worker]
  /\ arrived \in [Proc -> SUBSET Worker]

InitPlaces == {"alloc", "store", "publish", "signals", "take", "idle"}
RunPlaces == {"post", "world", "gate", "waitall", "exit", "check", "idle"}
Exchange == {"pready", "parrived", "release", "released", "copy", "exit"}

Running(p, places) == phase[p] = "run" /\ pc[p][Master] \in places

(* Where the threads may be in each of the three functions: the workers    *)
(* are between the barriers only while the master is.                      *)
PlaceInv(p) ==
  /\ phase[p] = "init" => /\ pc[p][Master] \in InitPlaces
                          /\ \A k \in Worker : pc[p][k] \in {"take", "idle"}
  /\ phase[p] = "run" => pc[p][Master] \in RunPlaces
  /\ Running(p, {"post", "world", "gate"}) => \A k \in Worker : pc[p][k] = "gate"
  /\ Running(p, {"waitall", "exit"}) => \A k \in Worker : pc[p][k] \in Exchange
  /\ Running(p, {"check", "idle"}) => \A k \in Worker : pc[p][k] = "idle"
  /\ phase[p] = "cleanup" => /\ pc[p][Master] \in {"free", "idle"}
                             /\ \A k \in Worker : pc[p][k] = "idle"

(* How far the master has come with the globals; before, they are empty.   *)
SetUpAfter(p, places) ==
  \/ phase[p] = "init" /\ pc[p][Master] \notin places
  \/ phase[p] = "run"
  \/ phase[p] = "cleanup" /\ pc[p][Master] = "free"

GlobalInv(p) ==
  /\ requests[p] = IF SetUpAfter(p, {"alloc"}) THEN round[p] ELSE 0
  /\ barrier[p] = IF SetUpAfter(p, {"alloc"}) THEN plan.workers + 1 ELSE 0
  /\ buffer[p] = IF SetUpAfter(p, {"alloc", "store"}) THEN round[p] ELSE 0
  /\ size[p] = IF SetUpAfter(p, {"alloc", "store", "publish"}) THEN 2 * BufferSize(p) ELSE 0
  /\ \A t \in Thread : (phase[p] = "init" /\ pc[p][t] = "idle") \/ phase[p] = "run" =>
       bufferOf[p][t] = round[p] /\ requestsOf[p][t] = round[p]

(* The send buffer of the root is set at the end of init; a partition is   *)
(* marked ready once, when it holds what the root has sent.                *)
SendInv(p) ==
  /\ taken[p] \subseteq readied[p]
  /\ started[p] <=> Running(p, {"world", "gate", "waitall"})
  /\ ((phase[p] = "init" /\ pc[p][Master] = "idle") \/ phase[p] = "run") /\ IsRoot(p) =>
       \A k \in Worker : send[p][k] = Standard(round[p], k)
  /\ Running(p, {"world", "gate"}) => readied[p] = {}
  /\ Running(p, {"exit", "check"}) => taken[p] = Worker /\ arrived[p] = Worker
  /\ started[p] => \A k \in readied[p] : send[p][k] = Standard(round[p], k)
  /\ \A k \in Worker :
       /\ pc[p][k] = "pready" => k \notin readied[p] /\ send[p][k] = Standard(round[p], k)
       /\ pc[p][k] \in {"release", "released", "copy"} => k \notin readied[p] /\ ~IsRoot(p)
       /\ pc[p][k] = "parrived" /\ ~IsRoot(p) => k \notin readied[p]

(* A partition that has arrived is that of the root; a worker that copies  *)
(* one has waited for it, or for a signal of the worker that has.          *)
RecvInv(p) ==
  /\ Running(p, {"world", "gate", "waitall", "exit", "check"}) =>
       \A k \in arrived[p] : recv[p][k] = Standard(round[p], k)
  /\ \A k \in Worker :
       /\ pc[p][k] \in {"parrived", "release"} => Receives(p, k)
       /\ pc[p][k] = "release" => Covered(p, RecvPartition(p, k)) \subseteq arrived[p]
       /\ pc[p][k] = "copy" => k \in arrived[p]
       /\ pc[p][k] = "released" => Now(p).ratio # 1

SignalInv(p) ==
  /\ /\ (phase[p] = "init" /\ pc[p][Master] \in {"take", "idle"}) \/ Running(p, {"post"})
     /\ Now(p).ratio # 1
     => \A k \in Worker : signal[p][k] = "wait"
  /\ Running(p, {"world", "gate", "waitall", "exit"}) /\ Now(p).ratio # 1 =>
       \A k \in Worker : signal[p][k] = "goon" => k \in arrived[p]

NetworkInv ==
  \A m \in network : m.partition \in Worker /\ m.data = Standard(m.round, m.partition)

ProcessInv(p) == PlaceInv(p) /\ GlobalInv(p) /\ SendInv(p) /\ RecvInv(p) /\ SignalInv(p)

IInv == Types /\ (\A p \in Proc : ProcessInv(p)) /\ NetworkInv /\ faults = {}

-----------------------------------------------------------------------------
(* The communicator and the numbers of the run that a process is in.       *)
LEMMA CombinationFacts ==
  ASSUME plan \in Plans, round \in [Proc -> Nat \ {0}], NEW p \in Proc, ~Over(p)
  PROVE  /\ round[p] \in 1..LastRound
         /\ Now(p) \in [comm : {"self", "world", "dup", "reversed", "halved", "oddeven"},
                        ratio : 1..MaxWorkers, values : 1..MaxValues]
<1>1. plan.rounds \in Seq([comm : {"self", "world", "dup", "reversed", "halved", "oddeven"},
                           ratio : 1..MaxWorkers, values : 1..MaxValues])
  BY PlanAssumption
<1>2. round[p] \in 1..LastRound /\ round[p] \in DOMAIN plan.rounds
  BY <1>1 DEF Over, LastRound
<1>3. \A S : \A s \in Seq(S) : \A r \in DOMAIN s : s[r] \in S
  OBVIOUS
<1>4. QED
  BY <1>1, <1>2, <1>3 DEF Now

(* What the assumption on plans says of the run a process is in.           *)
LEMMA PlanFacts ==
  ASSUME plan \in Plans, round \in [Proc -> Nat \ {0}], NEW p \in Proc, ~Over(p)
  PROVE  /\ plan.workers \in Nat \ {0}
         /\ Now(p).ratio \in Nat \ {0} /\ Now(p).values \in Nat \ {0}
         /\ plan.workers % Now(p).ratio = 0
         /\ BufferSize(p) \in Nat \ {0}
<1>1. plan.workers \in Nat \ {0} /\ Now(p).ratio \in Nat \ {0} /\ Now(p).values \in Nat \ {0}
  BY PlanAssumption, CombinationFacts
<1>2. plan.workers % Now(p).ratio = 0
  <2>1. round[p] \in DOMAIN plan.rounds
    BY PlanAssumption, CombinationFacts DEF LastRound
  <2>2. QED
    BY <2>1, PlanAssumption DEF Now
<1>3. \A m, n \in Nat \ {0} : m * n \in Nat \ {0}
  OBVIOUS
<1>4. QED
  BY <1>1, <1>2, <1>3 DEF BufferSize

(* The workers are one fewer than the threads.                             *)
LEMMA ThreadFacts ==
  ASSUME plan \in Plans
  PROVE  /\ plan.workers \in Nat \ {0}
         /\ 0 \in Worker /\ Worker \subseteq Nat /\ Thread = Worker \cup {Master}
         /\ Master \notin Worker /\ Thread \subseteq Int
         /\ IsFiniteSet(Thread) /\ Cardinality(Thread) = plan.workers + 1
<1>1. plan.workers \in Nat \ {0}
  BY PlanAssumption
<1>2. IsFiniteSet(Worker) /\ Cardinality(Worker) = plan.workers
  <2>1. plan.workers - 1 \in Int /\ ~(0 > plan.workers - 1) /\ (plan.workers - 1) - 0 + 1 = plan.workers
    BY <1>1
  <2>2. QED
    BY <2>1, FS_Interval, 0 \in Int DEF Worker
<1>3. Master \notin Worker
  BY <1>1 DEF Master, Worker
<1>4. IsFiniteSet(Thread) /\ Cardinality(Thread) = plan.workers + 1
  BY <1>2, <1>3, FS_AddElement, Thread = Worker \cup {Master} DEF Thread
<1>5. QED
  BY <1>1, <1>3, <1>4 DEF Thread, Worker, Master

(* Division, for a dividend that is divided.                               *)
LEMMA DivisionFacts ==
  ASSUME NEW n \in Nat, NEW d \in Nat \ {0}, n % d = 0
  PROVE  n \div d \in Nat /\ (n \div d) * d = n
OBVIOUS

(* The products of consecutive numbers, and of numbers in order.           *)
LEMMA ProductFacts ==
  ASSUME NEW a \in Nat, NEW b \in Nat, NEW d \in Nat \ {0}, a < b
  PROVE  (a + 1) * d = a * d + d /\ a * d + d <= b * d
<1>1. (a + 1) * d = a * d + d
  OBVIOUS
<1>2. (b - a - 1) * d \in Nat
  <2>1. b - a - 1 \in Nat
    OBVIOUS
  <2>2. \A m, n \in Nat : m * n \in Nat
    OBVIOUS
  <2>3. QED
    BY <2>1, <2>2
<1>3. b * d = a * d + d + (b - a - 1) * d
  OBVIOUS
<1>4. a * d \in Nat /\ b * d \in Nat
  OBVIOUS
<1>5. QED
  BY <1>1, <1>2, <1>3, <1>4

(* The partitions of the threads: that of the master is none; a worker     *)
(* that waits for a receive partition has its own in it, and those of the  *)
(* workers it signals to.                                                  *)
LEMMA PartitionFacts ==
  ASSUME plan \in Plans, round \in [Proc -> Nat \ {0}], NEW p \in Proc, ~Over(p)
  PROVE  /\ ~Sends(Master) /\ ~Receives(p, Master)
         /\ \A k \in Worker :
              /\ Sends(k)
              /\ Now(p).ratio = 1 => Receives(p, k)
              /\ Receives(p, k) => /\ k \in Covered(p, RecvPartition(p, k))
                                   /\ Partners(p, k) \subseteq Covered(p, RecvPartition(p, k))
                                   /\ Partners(p, k) \subseteq Worker
<1> DEFINE W == plan.workers
           d == Now(p).ratio
<1>1. W \in Nat \ {0} /\ d \in Nat \ {0} /\ W % d = 0
  BY PlanFacts
<1>2. ~Sends(Master) /\ ~Receives(p, Master)
  <2>1. RecvPartition(p, Master) \in Int /\ RecvPartition(p, Master) < 0
    <3>1. CASE (-1) % d = 0
      <4>1. d * ((-1) \div d) = -1 /\ (-1) \div d \in Int
        BY <1>1, <3>1
      <4>2. (-1) \div d < 0
        BY <1>1, <4>1
      <4>3. QED
        BY <4>1, <4>2, <3>1 DEF RecvPartition, Master
    <3>2. CASE (-1) % d # 0
      BY <3>2 DEF RecvPartition, Master
    <3>3. QED
      BY <3>1, <3>2
  <2>2. QED
    <3>1. ~Sends(Master)
      BY DEF Sends, Master
    <3>2. ~Receives(p, Master)
      BY <2>1 DEF Receives
    <3>3. QED
      BY <3>1, <3>2
<1>3. ASSUME NEW k \in Worker
      PROVE  Sends(k) /\ (d = 1 => Receives(p, k))
  <2>1. k \in Nat /\ k < W
    BY <1>1 DEF Worker
  <2>2. k % 1 = 0 /\ k \div 1 = k /\ W \div 1 = W
    BY <2>1, <1>1
  <2>3. QED
    BY <2>1, <2>2 DEF Sends, Receives, RecvPartition
<1>4. ASSUME NEW k \in Worker, Receives(p, k)
      PROVE  /\ k \in Covered(p, RecvPartition(p, k))
             /\ Partners(p, k) \subseteq Covered(p, RecvPartition(p, k))
             /\ Partners(p, k) \subseteq Worker
  <2>1. k \in Nat /\ k < W
    BY <1>1 DEF Worker
  <2> DEFINE a == k \div d
             b == W \div d
  <2>2. k % d = 0 /\ RecvPartition(p, k) = a /\ a < b
    BY <1>1, <1>4, <2>1 DEF Receives, RecvPartition
  <2>3. a \in Nat /\ b \in Nat /\ a * d = k /\ b * d = W
    BY <1>1, <2>1, <2>2, DivisionFacts
  <2>4. (a + 1) * d = k + d /\ k + d <= W
    <3> HIDE DEF a, b, d, W
    <3>1. (a + 1) * d = a * d + d /\ a * d + d <= b * d
      BY <1>1, <2>2, <2>3, ProductFacts
    <3>2. QED
      BY <2>3, <3>1
  <2>5. Covered(p, RecvPartition(p, k)) = k..(k + d - 1)
    <3>1. Covered(p, RecvPartition(p, k)) = (a * d)..((a + 1) * d - 1)
      BY <2>2 DEF Covered
    <3>2. (a * d)..((a + 1) * d - 1) = k..(k + d - 1)
      <4> DEFINE x == a * d
                 y == (a + 1) * d
      <4>1. x = k /\ y = k + d
        BY <2>3, <2>4
      <4> HIDE DEF x, y
      <4>2. x..(y - 1) = k..(k + d - 1)
        BY <1>1, <2>1, <4>1
      <4>3. QED
        BY <4>2 DEF x, y
    <3>3. QED
      BY <3>1, <3>2
  <2>6. k \in k..(k + d - 1) /\ (k + 1)..(k + d - 1) \subseteq k..(k + d - 1)
    BY <1>1, <2>1
  <2>7. (k + 1)..(k + d - 1) \subseteq 0..(W - 1)
    BY <1>1, <2>1, <2>4
  <2>8. QED
    BY <2>5, <2>6, <2>7 DEF Partners, Worker
<1>5. QED
  BY <1>2, <1>3, <1>4

-----------------------------------------------------------------------------
(* What an action leaves alone of a process.                               *)
Same(q) ==
  /\ plan' = plan /\ round'[q] = round[q] /\ phase'[q] = phase[q] /\ pc'[q] = pc[q]
  /\ requests'[q] = requests[q] /\ buffer'[q] = buffer[q] /\ size'[q] = size[q]
  /\ barrier'[q] = barrier[q] /\ signal'[q] = signal[q]
  /\ send'[q] = send[q] /\ recv'[q] = recv[q]
  /\ bufferOf'[q] = bufferOf[q] /\ requestsOf'[q] = requestsOf[q]
  /\ started'[q] = started[q] /\ readied'[q] = readied[q] /\ taken'[q] = taken[q]
  /\ arrived'[q] = arrived[q]

(* The invariant of a process speaks of nothing else.                      *)
LEMMA SameInv ==
  ASSUME NEW q \in Proc, ProcessInv(q), Same(q)
  PROVE  ProcessInv(q)'
<1>1. Now(q)' = Now(q) /\ Worker' = Worker /\ Thread' = Thread
  BY DEF Same, Now, Worker, Thread
<1>2. IsRoot(q)' = IsRoot(q) /\ BufferSize(q)' = BufferSize(q)
  BY <1>1 DEF Same, IsRoot, BufferSize
<1>3. \A k : /\ Receives(q, k)' = Receives(q, k)
             /\ Covered(q, RecvPartition(q, k))' = Covered(q, RecvPartition(q, k))
  BY <1>1 DEF Same, Receives, RecvPartition, Covered
<1>4. PlaceInv(q)'
  BY <1>1 DEF ProcessInv, PlaceInv, Running, Same
<1>5. GlobalInv(q)'
  BY <1>1, <1>2 DEF ProcessInv, GlobalInv, SetUpAfter, Same
<1>6. SendInv(q)'
  BY <1>1, <1>2 DEF ProcessInv, SendInv, Running, Same
<1>7. RecvInv(q)'
  BY <1>1, <1>3 DEF ProcessInv, RecvInv, Running, Same
<1>8. SignalInv(q)'
  BY <1>1 DEF ProcessInv, SignalInv, Running, Same
<1>9. QED
  BY <1>4, <1>5, <1>6, <1>7, <1>8 DEF ProcessInv

(* Nothing is allocated, sent or signalled in the beginning.               *)
LEMMA InitInv ==
  ASSUME Init
  PROVE  IInv
<1>1. Types
  BY ThreadFacts DEF Init, Types, Begin, Places, Value
<1>2. ASSUME NEW p \in Proc
      PROVE  ProcessInv(p)
  <2>1. pc[p][Master] = "alloc" /\ phase[p] = "init"
    BY ThreadFacts DEF Init, Begin
  <2>2. \A k \in Worker : pc[p][k] = "take"
    BY ThreadFacts DEF Init, Begin
  <2>3. PlaceInv(p)
    BY <2>1, <2>2 DEF PlaceInv, InitPlaces, Running
  <2>4. GlobalInv(p)
    BY <2>1, <2>2, ThreadFacts DEF Init, GlobalInv, SetUpAfter
  <2>5. SendInv(p)
    BY <2>1, <2>2 DEF Init, SendInv, Running
  <2>6. RecvInv(p) /\ SignalInv(p)
    BY <2>1, <2>2 DEF RecvInv, SignalInv, Running
  <2>7. QED
    BY <2>3, <2>4, <2>5, <2>6 DEF ProcessInv
<1>3. QED
  BY <1>1, <1>2 DEF IInv, NetworkInv, Init

(* What stays the same as long as a process is in the same run.            *)
LEMMA RunFacts ==
  ASSUME plan' = plan, NEW p \in Proc, round'[p] = round[p]
  PROVE  /\ Worker' = Worker /\ Thread' = Thread
         /\ Now(p)' = Now(p) /\ IsRoot(p)' = IsRoot(p) /\ BufferSize(p)' = BufferSize(p)
         /\ \A k : /\ Receives(p, k)' = Receives(p, k)
                   /\ RecvPartition(p, k)' = RecvPartition(p, k)
                   /\ Covered(p, RecvPartition(p, k))' = Covered(p, RecvPartition(p, k))
<1>1. Worker' = Worker /\ Thread' = Thread /\ Now(p)' = Now(p)
  BY DEF Worker, Thread, Now
<1>2. IsRoot(p)' = IsRoot(p) /\ BufferSize(p)' = BufferSize(p)
  BY <1>1 DEF IsRoot, BufferSize
<1>3. QED
  BY <1>1, <1>2 DEF Receives, RecvPartition, Covered

(* What an action begins with.                                             *)
LEMMA BaseFacts ==
  ASSUME IInv
  PROVE  /\ Types /\ plan \in Plans /\ NetworkInv /\ faults = {}
         /\ Master \in Thread /\ Master \notin Worker /\ 0 \in Worker
         /\ \A k \in Worker : k \in Thread /\ k # Master
         /\ \A q \in Proc : /\ PlaceInv(q) /\ GlobalInv(q) /\ SendInv(q) /\ RecvInv(q)
                            /\ SignalInv(q) /\ ProcessInv(q)
                            /\ phase[q] \in {"init", "run", "cleanup"}
                            /\ round[q] \in Nat \ {0}
BY ThreadFacts DEF IInv, Types, ProcessInv

(* A thread goes on within a function.                                     *)
Stepped(p, t, place) ==
  /\ pc' \in [Proc -> [Thread -> Places]]
  /\ pc'[p][t] = place
  /\ \A u \in Thread : u # t => pc'[p][u] = pc[p][u]
  /\ \A q \in Proc : q # p => pc'[q] = pc[q]
  /\ plan' = plan /\ round' = round /\ phase' = phase
  /\ Worker' = Worker /\ Thread' = Thread
  /\ Now(p)' = Now(p) /\ IsRoot(p)' = IsRoot(p) /\ BufferSize(p)' = BufferSize(p)
  /\ \A k : /\ Receives(p, k)' = Receives(p, k)
            /\ RecvPartition(p, k)' = RecvPartition(p, k)
            /\ Covered(p, RecvPartition(p, k))' = Covered(p, RecvPartition(p, k))

(* So a step of one of its threads can be summed up.                       *)
LEMMA StepFacts ==
  ASSUME IInv, NEW p \in Proc, NEW t \in Thread, NEW place \in Places, Goto(p, t, place),
         plan' = plan, round' = round, phase' = phase
  PROVE  Stepped(p, t, place)
<1>1. pc \in [Proc -> [Thread -> Places]]
  BY DEF IInv, Types
<1>2. /\ pc' \in [Proc -> [Thread -> Places]] /\ pc'[p][t] = place
      /\ \A u \in Thread : u # t => pc'[p][u] = pc[p][u]
      /\ \A q \in Proc : q # p => pc'[q] = pc[q]
  BY <1>1 DEF Goto
<1>3. QED
  BY <1>2, RunFacts DEF Stepped

-----------------------------------------------------------------------------
(* The global requests and the global buffer.                              *)

(* The requests are those of this run from here on.                        *)
LEMMA AllocRequestsInv ==
  ASSUME IInv, NEW p \in Proc, AllocRequests(p)
  PROVE  IInv'
<1> USE BaseFacts
<1>1. pc[p][Master] = "alloc" /\ Stepped(p, Master, "store")
  BY StepFacts DEF AllocRequests, At, Places
<1> USE <1>1 DEF Stepped
<1>2. phase[p] = "init"
  BY DEF PlaceInv, RunPlaces
<1>3. Types'
  BY ThreadFacts DEF Types, AllocRequests, pointers, library
<1>4. ASSUME NEW q \in Proc, q # p
      PROVE  ProcessInv(q)'
  BY <1>4, SameInv DEF Types, Same, AllocRequests, pointers, library
<1>5. PlaceInv(p)'
  BY <1>2 DEF PlaceInv, Running, InitPlaces
<1>6. GlobalInv(p)'
  <2>1. requests'[p] = round[p] /\ barrier'[p] = plan.workers + 1
    BY DEF Types, AllocRequests
  <2>2. UNCHANGED <<buffer, size, bufferOf, requestsOf>>
    BY DEF AllocRequests, pointers
  <2>3. QED
    BY <1>2, <2>1, <2>2 DEF GlobalInv, SetUpAfter
<1>7. SendInv(p)' /\ RecvInv(p)' /\ SignalInv(p)'
  <2>1. SendInv(p)'
    BY <1>2 DEF PlaceInv, SendInv, Running, AllocRequests, library
  <2>2. RecvInv(p)'
    BY <1>2 DEF PlaceInv, RecvInv, Running, AllocRequests, library
  <2>3. SignalInv(p)'
    BY <1>2 DEF PlaceInv, SignalInv, Running, AllocRequests, library
  <2>4. QED
    BY <2>1, <2>2, <2>3
<1>8. NetworkInv' /\ faults' = {}
  BY DEF NetworkInv, AllocRequests, library
<1>9. QED
  BY <1>3, <1>4, <1>5, <1>6, <1>7, <1>8 DEF IInv, ProcessInv

(* No worker has taken the address of the buffer yet.                      *)
LEMMA StoreBufferInv ==
  ASSUME IInv, NEW p \in Proc, StoreBuffer(p)
  PROVE  IInv'
<1> USE BaseFacts
<1>1. pc[p][Master] = "store" /\ Stepped(p, Master, "publish")
  BY StepFacts DEF StoreBuffer, At, Places
<1> USE <1>1 DEF Stepped
<1>2. phase[p] = "init"
  BY DEF PlaceInv, RunPlaces
<1>3. Types'
  BY DEF Types, StoreBuffer, pointers, library, Value
<1>4. ASSUME NEW q \in Proc, q # p
      PROVE  ProcessInv(q)'
  BY <1>4, SameInv DEF Types, Same, StoreBuffer, pointers, library
<1>5. PlaceInv(p)'
  BY <1>2 DEF PlaceInv, Running, InitPlaces
<1>6. GlobalInv(p)'
  <2>1. buffer'[p] = round[p]
    BY DEF Types, StoreBuffer
  <2>2. UNCHANGED <<requests, barrier, size, bufferOf, requestsOf>>
    BY DEF StoreBuffer, pointers
  <2>3. QED
    BY <1>2, <2>1, <2>2 DEF GlobalInv, SetUpAfter
<1>7. SendInv(p)' /\ RecvInv(p)' /\ SignalInv(p)'
  <2>1. SendInv(p)'
    BY <1>2 DEF PlaceInv, SendInv, Running, StoreBuffer, library
  <2>2. RecvInv(p)'
    BY <1>2 DEF PlaceInv, RecvInv, Running, StoreBuffer, library
  <2>3. SignalInv(p)'
    BY <1>2 DEF PlaceInv, SignalInv, Running, StoreBuffer, library
  <2>4. QED
    BY <2>1, <2>2, <2>3
<1>8. NetworkInv' /\ faults' = {}
  BY DEF NetworkInv, StoreBuffer, library
<1>9. QED
  BY <1>3, <1>4, <1>5, <1>6, <1>7, <1>8 DEF IInv, ProcessInv

(* The size is published behind the address.                               *)
LEMMA PublishSizeInv ==
  ASSUME IInv, NEW p \in Proc, PublishSize(p)
  PROVE  IInv'
<1> USE BaseFacts
<1> DEFINE next == IF Now(p).ratio = 1 THEN "take" ELSE "signals"
<1>1. pc[p][Master] = "publish" /\ Stepped(p, Master, next) /\ ~Over(p)
  BY StepFacts DEF PublishSize, At, Places
<1> USE <1>1 DEF Stepped
<1>2. phase[p] = "init"
  BY DEF PlaceInv, RunPlaces
<1>3. size' = [size EXCEPT ![p] = 2 * BufferSize(p)] /\ 2 * BufferSize(p) \in Nat
  BY PlanFacts DEF PublishSize, Types
<1>4. Types'
  BY <1>3 DEF Types, PublishSize, pointers, library
<1>5. ASSUME NEW q \in Proc, q # p
      PROVE  ProcessInv(q)'
  BY <1>5, SameInv DEF Types, Same, PublishSize, pointers, library
<1>6. PlaceInv(p)'
  BY <1>2 DEF PlaceInv, Running, InitPlaces
<1>7. GlobalInv(p)'
  <2>1. size'[p] = 2 * BufferSize(p)
    BY <1>3 DEF Types
  <2>2. UNCHANGED <<requests, barrier, buffer, bufferOf, requestsOf>>
    BY DEF PublishSize, pointers
  <2>3. QED
    BY <1>2, <2>1, <2>2 DEF GlobalInv, SetUpAfter
<1>8. SendInv(p)' /\ RecvInv(p)' /\ SignalInv(p)'
  <2>1. SendInv(p)'
    BY <1>2 DEF PlaceInv, SendInv, Running, PublishSize, library
  <2>2. RecvInv(p)'
    BY <1>2 DEF PlaceInv, RecvInv, Running, PublishSize, library
  <2>3. SignalInv(p)'
    BY <1>2 DEF PlaceInv, SignalInv, Running, PublishSize, library
  <2>4. QED
    BY <2>1, <2>2, <2>3
<1>9. NetworkInv' /\ faults' = {}
  BY DEF NetworkInv, PublishSize, library
<1>10. QED
  BY <1>4, <1>5, <1>6, <1>7, <1>8, <1>9 DEF IInv, ProcessInv

(* No signal is left from an earlier run.                                  *)
LEMMA InitSignalsInv ==
  ASSUME IInv, NEW p \in Proc, InitSignals(p)
  PROVE  IInv'
<1> USE BaseFacts
<1>1. pc[p][Master] = "signals" /\ Stepped(p, Master, "take")
  BY StepFacts DEF InitSignals, At, Places
<1> USE <1>1 DEF Stepped
<1>2. phase[p] = "init"
  BY DEF PlaceInv, RunPlaces
<1>3. Types'
  BY DEF Types, InitSignals, pointers, library
<1>4. ASSUME NEW q \in Proc, q # p
      PROVE  ProcessInv(q)'
  BY <1>4, SameInv DEF Types, Same, InitSignals, pointers, library
<1>5. PlaceInv(p)'
  BY <1>2 DEF PlaceInv, Running, InitPlaces
<1>6. GlobalInv(p)'
  <2>1. UNCHANGED <<requests, barrier, buffer, size, bufferOf, requestsOf>>
    BY DEF InitSignals, pointers
  <2>2. QED
    BY <1>2, <2>1 DEF GlobalInv, SetUpAfter
<1>7. SendInv(p)' /\ RecvInv(p)'
  <2>1. SendInv(p)'
    BY <1>2 DEF PlaceInv, SendInv, Running, InitSignals, library
  <2>2. RecvInv(p)'
    BY <1>2 DEF PlaceInv, RecvInv, Running, InitSignals, library
  <2>3. QED
    BY <2>1, <2>2
<1>8. SignalInv(p)'
  BY <1>2 DEF Types, SignalInv, Running, InitSignals
<1>9. NetworkInv' /\ faults' = {}
  BY DEF NetworkInv, InitSignals, library
<1>10. QED
  BY <1>3, <1>4, <1>5, <1>6, <1>7, <1>8, <1>9 DEF IInv, ProcessInv

(* The size has its value only when the master has stored the address.     *)
LEMMA TakeBufferInv ==
  ASSUME IInv, NEW p \in Proc, NEW t \in Thread, TakeBuffer(p, t)
  PROVE  IInv'
<1> USE BaseFacts
<1>1. pc[p][t] = "take" /\ Stepped(p, t, "idle") /\ ~Over(p)
  BY StepFacts DEF TakeBuffer, At, Places
<1> USE <1>1 DEF Stepped
<1>2. phase[p] = "init" /\ t \in Worker \cup {Master}
  BY ThreadFacts DEF PlaceInv, RunPlaces, Exchange, Running
<1>3. size[p] # 0 /\ pc[p][Master] \in {"signals", "take", "idle"}
  <2>1. size[p] = 2 * BufferSize(p) /\ BufferSize(p) \in Nat \ {0}
    BY PlanFacts DEF TakeBuffer, Types
  <2>2. size[p] # 0
    BY <2>1
  <2>3. QED
    BY <1>2, <2>2 DEF GlobalInv, SetUpAfter, PlaceInv, InitPlaces
<1>4. /\ bufferOf' = [bufferOf EXCEPT ![p][t] = round[p]]
      /\ requestsOf' = [requestsOf EXCEPT ![p][t] = round[p]]
  BY <1>2, <1>3 DEF TakeBuffer, GlobalInv, SetUpAfter
<1>5. \/ send' = send /\ ~(t = Master /\ IsRoot(p))
      \/ t = Master /\ send' = [send EXCEPT ![p] = [k \in Worker |-> Standard(round[p], k)]]
  BY DEF TakeBuffer
<1>6. \A k \in Worker : Standard(round[p], k) \in Value
  BY ThreadFacts DEF Standard, Value
<1>7. Types'
  <2>1. send' \in [Proc -> [Worker -> Value]]
    <3>1. [k \in Worker |-> Standard(round[p], k)] \in [Worker -> Value]
      BY <1>6
    <3>2. send \in [Proc -> [Worker -> Value]]
      BY DEF Types
    <3>3. QED
      BY <1>5, <3>1, <3>2
  <2>2. bufferOf' \in [Proc -> [Thread -> Nat]] /\ requestsOf' \in [Proc -> [Thread -> Nat]]
    BY <1>4 DEF Types
  <2>3. QED
    BY <2>1, <2>2 DEF Types, TakeBuffer, globals, library
<1>8. ASSUME NEW q \in Proc, q # p
      PROVE  ProcessInv(q)'
  BY <1>8, <1>4, <1>5, SameInv DEF Types, Same, TakeBuffer, globals, library
<1>9. PlaceInv(p)'
  BY <1>2 DEF PlaceInv, Running, InitPlaces
<1>10. GlobalInv(p)'
  <2>1. UNCHANGED <<requests, barrier, buffer, size>>
    BY DEF TakeBuffer, globals
  <2>2. /\ bufferOf'[p][t] = round[p] /\ requestsOf'[p][t] = round[p]
        /\ \A u \in Thread : u # t => /\ bufferOf'[p][u] = bufferOf[p][u]
                                      /\ requestsOf'[p][u] = requestsOf[p][u]
    BY <1>4 DEF Types
  <2>3. pc'[p][Master] \notin {"alloc", "store", "publish"}
    BY <1>3
  <2>4. QED
    BY <1>2, <1>3, <2>1, <2>2, <2>3 DEF GlobalInv, SetUpAfter
<1>11. SendInv(p)'
  <2>1. UNCHANGED <<started, readied, taken, arrived>>
    BY DEF TakeBuffer, library
  <2>2. IsRoot(p) /\ pc'[p][Master] = "idle" => \A k \in Worker : send'[p][k] = Standard(round[p], k)
    BY <1>2, <1>5 DEF Types, SendInv
  <2>3. \A k \in Worker : pc'[p][k] \in {"take", "idle"}
    BY <1>2 DEF PlaceInv
  <2>4. QED
    BY <1>2, <2>1, <2>2, <2>3 DEF SendInv, Running
<1>12. RecvInv(p)' /\ SignalInv(p)'
  BY <1>2, <1>3 DEF PlaceInv, RecvInv, SignalInv, Running, TakeBuffer, globals, library
<1>13. NetworkInv' /\ faults' = {}
  BY DEF NetworkInv, TakeBuffer, library
<1>14. QED
  BY <1>7, <1>8, <1>9, <1>10, <1>11, <1>12, <1>13 DEF IInv, ProcessInv

(* The size goes with the buffer, before the next run begins.              *)
LEMMA FreeGlobalsInv ==
  ASSUME IInv, NEW p \in Proc, FreeGlobals(p)
  PROVE  IInv'
<1> USE BaseFacts
<1>1. pc[p][Master] = "free" /\ Stepped(p, Master, "idle")
  BY StepFacts DEF FreeGlobals, At, Places
<1> USE <1>1 DEF Stepped
<1>2. phase[p] = "cleanup"
  BY DEF PlaceInv, InitPlaces, RunPlaces
<1>3. Types'
  BY DEF Types, FreeGlobals, pointers, library
<1>4. ASSUME NEW q \in Proc, q # p
      PROVE  ProcessInv(q)'
  BY <1>4, SameInv DEF Types, Same, FreeGlobals, pointers, library
<1>5. PlaceInv(p)'
  BY <1>2 DEF PlaceInv, Running
<1>6. GlobalInv(p)'
  <2>1. requests'[p] = 0 /\ barrier'[p] = 0 /\ buffer'[p] = 0 /\ size'[p] = 0
    BY DEF Types, FreeGlobals
  <2>2. QED
    BY <1>2, <2>1 DEF GlobalInv, SetUpAfter
<1>7. SendInv(p)' /\ RecvInv(p)' /\ SignalInv(p)'
  <2>1. SendInv(p)'
    BY <1>2 DEF PlaceInv, SendInv, Running, FreeGlobals, library
  <2>2. RecvInv(p)'
    BY <1>2 DEF PlaceInv, RecvInv, Running, FreeGlobals, library
  <2>3. SignalInv(p)'
    BY <1>2 DEF PlaceInv, SignalInv, Running, FreeGlobals, library
  <2>4. QED
    BY <2>1, <2>2, <2>3
<1>8. NetworkInv' /\ faults' = {}
  BY DEF NetworkInv, FreeGlobals, library
<1>9. QED
  BY <1>3, <1>4, <1>5, <1>6, <1>7, <1>8 DEF IInv, ProcessInv

-----------------------------------------------------------------------------
(* The run function.                                                       *)

(* The master uses the addresses it took in init.                          *)
LEMMA StartallInv ==
  ASSUME IInv, NEW p \in Proc, Startall(p)
  PROVE  IInv'
<1> USE BaseFacts
<1>1. pc[p][Master] = "post" /\ Stepped(p, Master, "world")
  BY StepFacts DEF Startall, At, Places
<1> USE <1>1 DEF Stepped
<1>2. phase[p] = "run" /\ \A k \in Worker : pc[p][k] = "gate"
  BY DEF PlaceInv, InitPlaces, Running
<1>3. Types'
  BY DEF Types, Startall, pointers, globals
<1>4. ASSUME NEW q \in Proc, q # p
      PROVE  ProcessInv(q)'
  BY <1>4, SameInv DEF Types, Same, Startall, pointers, globals
<1>5. PlaceInv(p)'
  BY <1>2 DEF PlaceInv, Running, RunPlaces
<1>6. GlobalInv(p)'
  <2>1. UNCHANGED <<requests, buffer, size, barrier, bufferOf, requestsOf>>
    BY DEF Startall, globals, pointers
  <2>2. QED
    BY <1>2, <2>1 DEF GlobalInv, SetUpAfter
<1>7. started'[p] = TRUE /\ readied'[p] = {} /\ taken'[p] = {} /\ arrived'[p] = {}
  BY DEF Types, Startall
<1>8. SendInv(p)'
  BY <1>2, <1>7 DEF SendInv, Running, Startall
<1>9. RecvInv(p)'
  BY <1>2, <1>7 DEF RecvInv, Running
<1>10. SignalInv(p)'
  BY <1>2, <1>7 DEF Types, SignalInv, Running, Startall, globals
<1>11. NetworkInv'
  BY DEF NetworkInv, Startall
<1>12. faults' = {}
  BY <1>2 DEF Startall, Fault, GlobalInv, SetUpAfter
<1>13. QED
  BY <1>3, <1>4, <1>5, <1>6, <1>8, <1>9, <1>10, <1>11, <1>12 DEF IInv, ProcessInv

(* The barrier of all processes keeps what holds of each.                  *)
LEMMA MeetProcessesInv ==
  ASSUME IInv, MeetProcesses
  PROVE  IInv'
<1> USE BaseFacts
<1>1. /\ plan' = plan /\ round' = round /\ phase' = phase
      /\ pc' = [p \in Proc |-> [pc[p] EXCEPT ![Master] = "gate"]]
      /\ \A p \in Proc : pc[p][Master] = "world"
      /\ Worker' = Worker /\ Thread' = Thread
  BY DEF MeetProcesses, At, Worker, Thread
<1> USE <1>1
<1>2. \A p \in Proc : /\ pc'[p][Master] = "gate"
                      /\ \A k \in Worker : pc'[p][k] = pc[p][k]
  BY DEF Types
<1>3. Types'
  BY DEF Types, MeetProcesses, pointers, globals, library, Places
<1>4. ASSUME NEW p \in Proc
      PROVE  ProcessInv(p)'
  <2>1. phase[p] = "run" /\ \A k \in Worker : pc[p][k] = "gate"
    BY DEF PlaceInv, InitPlaces, Running
  <2>2. /\ Now(p)' = Now(p) /\ IsRoot(p)' = IsRoot(p) /\ BufferSize(p)' = BufferSize(p)
    BY RunFacts
  <2>3. PlaceInv(p)'
    BY <1>2, <2>1 DEF PlaceInv, Running, RunPlaces
  <2>4. GlobalInv(p)'
    <3>1. UNCHANGED <<requests, buffer, size, barrier, bufferOf, requestsOf>>
      BY DEF MeetProcesses, globals, pointers
    <3>2. QED
      BY <2>1, <2>2, <3>1 DEF GlobalInv, SetUpAfter
  <2>5. SendInv(p)'
    BY <1>2, <2>1, <2>2 DEF SendInv, Running, MeetProcesses, library
  <2>6. RecvInv(p)'
    BY <1>2, <2>1, <2>2 DEF RecvInv, Running, MeetProcesses, library
  <2>7. SignalInv(p)'
    BY <1>2, <2>1, <2>2 DEF SignalInv, Running, MeetProcesses, globals, library
  <2>8. QED
    BY <2>3, <2>4, <2>5, <2>6, <2>7 DEF ProcessInv
<1>5. NetworkInv' /\ faults' = {}
  BY DEF NetworkInv, MeetProcesses, library
<1>6. QED
  BY <1>3, <1>4, <1>5 DEF IInv

(* Nobody leaves the barrier unless all threads of the process have come.  *)
LEMMA BarrierFacts ==
  ASSUME IInv, NEW p \in Proc, NEW place, BarrierWait(p, place)
  PROVE  /\ \A t \in Thread : At(p, t, place)
         /\ pc' = [pc EXCEPT ![p] = [t \in Thread |-> IF place = "gate" THEN BehindGate(p, t)
                                                      ELSE BehindExit(t)]]
         /\ UNCHANGED <<plan, round, phase, globals, send, recv, pointers, library, faults>>
<1>1. PICK group \in SUBSET {t \in Thread : At(p, t, place)} :
        /\ group # {} /\ Cardinality(group) = barrier[p]
        /\ pc' = [pc EXCEPT ![p] =
                    [t \in Thread |-> IF t \notin group THEN @[t]
                                     ELSE IF place = "gate" THEN BehindGate(p, t) ELSE BehindExit(t)]]
  BY DEF BarrierWait
<1>2. barrier[p] = plan.workers + 1
  <2>1. PICK t \in Thread : t \in group
    BY <1>1
  <2>2. barrier[p] # 0
    <3>1. IsFiniteSet(group) /\ Cardinality(group) = barrier[p]
      BY <1>1, BaseFacts, ThreadFacts, FS_Subset
    <3>2. QED
      BY <2>1, <3>1, FS_EmptySet
  <2>3. QED
    BY <2>2, BaseFacts DEF GlobalInv
<1>3. group = Thread
  BY <1>1, <1>2, BaseFacts, ThreadFacts, FS_Subset
<1>4. QED
  BY <1>1, <1>3 DEF BarrierWait

(* Behind the first barrier the workers get into the exchange.             *)
LEMMA GateInv ==
  ASSUME IInv, NEW p \in Proc, BarrierWait(p, "gate")
  PROVE  IInv'
<1> USE BaseFacts
<1>1. /\ \A t \in Thread : pc[p][t] = "gate"
      /\ ~Over(p)
      /\ pc' = [pc EXCEPT ![p] = [t \in Thread |-> BehindGate(p, t)]]
      /\ UNCHANGED <<plan, round, phase, globals, send, recv, pointers, library, faults>>
  BY BarrierFacts DEF At
<1>2. plan' = plan /\ round' = round /\ phase' = phase /\ Worker' = Worker /\ Thread' = Thread
  BY <1>1 DEF Worker, Thread
<1> USE <1>2
<1>3. phase[p] = "run" /\ pc[p][Master] = "gate"
  BY <1>1 DEF PlaceInv, InitPlaces
<1>4. /\ ~Sends(Master) /\ ~Receives(p, Master)
      /\ \A k \in Worker : Sends(k) /\ (Now(p).ratio = 1 => Receives(p, k))
  BY <1>1, PartitionFacts DEF Types
<1>5. \A t \in Thread : BehindGate(p, t) \in Places
  BY DEF BehindGate, Finish, Places
<1>6. pc' \in [Proc -> [Thread -> Places]] /\ \A t \in Thread : pc'[p][t] = BehindGate(p, t)
  BY <1>1, <1>5 DEF Types
<1>7. pc'[p][Master] = "waitall"
  BY <1>4, <1>6 DEF BehindGate, Finish
<1>8. ASSUME NEW k \in Worker
      PROVE  /\ IsRoot(p) => pc'[p][k] = "pready"
             /\ ~IsRoot(p) => \/ pc'[p][k] = "parrived" /\ Receives(p, k)
                              \/ pc'[p][k] = "released" /\ Now(p).ratio # 1
  BY <1>4, <1>6 DEF BehindGate
<1>9. Types'
  BY <1>1, <1>6 DEF Types, pointers, globals, library
<1>10. ASSUME NEW q \in Proc, q # p
       PROVE  ProcessInv(q)'
  BY <1>1, <1>10, SameInv DEF Types, Same, pointers, globals, library
<1>11. /\ Now(p)' = Now(p) /\ IsRoot(p)' = IsRoot(p) /\ BufferSize(p)' = BufferSize(p)
       /\ \A k : Receives(p, k)' = Receives(p, k)
  BY RunFacts
<1>12. PlaceInv(p)'
  BY <1>3, <1>7, <1>8 DEF PlaceInv, Running, RunPlaces, Exchange
<1>13. GlobalInv(p)'
  <2>1. UNCHANGED <<requests, buffer, size, barrier, bufferOf, requestsOf>>
    BY <1>1 DEF globals, pointers
  <2>2. QED
    BY <1>3, <1>11, <2>1 DEF GlobalInv, SetUpAfter
<1>14. SendInv(p)'
  BY <1>1, <1>3, <1>7, <1>8, <1>11 DEF SendInv, Running, library
<1>15. RecvInv(p)'
  BY <1>1, <1>3, <1>7, <1>8, <1>11 DEF RecvInv, Running, library
<1>16. SignalInv(p)'
  BY <1>1, <1>3, <1>7, <1>11 DEF SignalInv, Running, globals, library
<1>17. NetworkInv' /\ faults' = {}
  BY <1>1 DEF NetworkInv, library
<1>18. QED
  BY <1>9, <1>10, <1>12, <1>13, <1>14, <1>15, <1>16, <1>17 DEF IInv, ProcessInv

(* Behind the second one nobody is in it.                                  *)
LEMMA ExitInv ==
  ASSUME IInv, NEW p \in Proc, BarrierWait(p, "exit")
  PROVE  IInv'
<1> USE BaseFacts
<1>1. /\ \A t \in Thread : pc[p][t] = "exit"
      /\ pc' = [pc EXCEPT ![p] = [t \in Thread |-> BehindExit(t)]]
      /\ UNCHANGED <<plan, round, phase, globals, send, recv, pointers, library, faults>>
  BY BarrierFacts DEF At
<1>2. plan' = plan /\ round' = round /\ phase' = phase /\ Worker' = Worker /\ Thread' = Thread
  BY <1>1 DEF Worker, Thread
<1> USE <1>2
<1>3. phase[p] = "run" /\ pc[p][Master] = "exit"
  BY <1>1 DEF PlaceInv, InitPlaces
<1>4. \A t \in Thread : BehindExit(t) \in Places
  BY DEF BehindExit, Places
<1>5. pc' \in [Proc -> [Thread -> Places]] /\ \A t \in Thread : pc'[p][t] = BehindExit(t)
  BY <1>1, <1>4 DEF Types
<1>6. pc'[p][Master] = "check" /\ \A k \in Worker : pc'[p][k] = "idle"
  BY <1>5 DEF BehindExit
<1>7. Types'
  BY <1>1, <1>5 DEF Types, pointers, globals, library
<1>8. ASSUME NEW q \in Proc, q # p
      PROVE  ProcessInv(q)'
  BY <1>1, <1>8, SameInv DEF Types, Same, pointers, globals, library
<1>9. Now(p)' = Now(p) /\ IsRoot(p)' = IsRoot(p) /\ BufferSize(p)' = BufferSize(p)
  BY RunFacts
<1>10. PlaceInv(p)'
  BY <1>3, <1>6 DEF PlaceInv, Running, RunPlaces
<1>11. GlobalInv(p)'
  <2>1. UNCHANGED <<requests, buffer, size, barrier, bufferOf, requestsOf>>
    BY <1>1 DEF globals, pointers
  <2>2. QED
    BY <1>3, <1>9, <2>1 DEF GlobalInv, SetUpAfter
<1>12. SendInv(p)'
  BY <1>1, <1>3, <1>6, <1>9 DEF SendInv, Running, library
<1>13. RecvInv(p)' /\ SignalInv(p)'
  BY <1>1, <1>3, <1>6, <1>9 DEF RecvInv, SignalInv, Running, globals, library
<1>14. NetworkInv' /\ faults' = {}
  BY <1>1 DEF NetworkInv, library
<1>15. QED
  BY <1>7, <1>8, <1>10, <1>11, <1>12, <1>13, <1>14 DEF IInv, ProcessInv

(* The exchange: a worker in it belongs to a run whose requests are        *)
(* active, and its master waits for them or for the other threads.         *)
LEMMA ExchangeFacts ==
  ASSUME IInv, NEW p \in Proc, NEW t \in Thread,
         pc[p][t] \in {"pready", "parrived", "release", "released", "copy"}
  PROVE  /\ t \in Worker /\ phase[p] = "run" /\ pc[p][Master] \in {"waitall", "exit"}
         /\ bufferOf[p][t] = buffer[p] /\ requestsOf[p][t] = requests[p]
<1> USE BaseFacts
<1>1. t \in Worker
  <2>1. pc[p][Master] \notin {"pready", "parrived", "release", "released", "copy"}
    BY DEF PlaceInv, InitPlaces, RunPlaces
  <2>2. QED
    BY <2>1, ThreadFacts
<1>2. phase[p] = "run"
  BY <1>1 DEF PlaceInv
<1>3. pc[p][Master] \in {"waitall", "exit"}
  BY <1>1, <1>2 DEF PlaceInv, RunPlaces, Running
<1>4. QED
  BY <1>1, <1>2, <1>3 DEF GlobalInv, SetUpAfter

(* A partition is marked ready when the send buffer has it.                *)
LEMMA PreadyInv ==
  ASSUME IInv, NEW p \in Proc, NEW t \in Thread, Pready(p, t)
  PROVE  IInv'
<1> USE BaseFacts
<1> DEFINE next == IF IsRoot(p) /\ Receives(p, t) THEN "parrived" ELSE Finish(t)
<1>1. pc[p][t] = "pready" /\ t \in Worker
  BY ExchangeFacts DEF Pready, At
<1>2. Stepped(p, t, next)
  BY StepFacts DEF Pready, Finish, Places
<1> USE <1>1, <1>2 DEF Stepped
<1>3. phase[p] = "run" /\ requestsOf[p][t] = requests[p]
  BY ExchangeFacts
<1>4. t \notin readied[p] /\ send[p][t] = Standard(round[p], t)
  BY DEF SendInv
<1>5. next = "exit" \/ (next = "parrived" /\ IsRoot(p) /\ Receives(p, t))
  BY DEF Finish
<1>6. pc[p][Master] = "waitall" /\ pc'[p][Master] = "waitall" /\ started[p]
  BY <1>3, <1>4, ExchangeFacts DEF SendInv, Running
<1>7. readied'[p] = readied[p] \cup {t} /\ readied' \in [Proc -> SUBSET Worker]
  BY DEF Types, Pready
<1>8. Types'
  BY <1>7 DEF Types, Pready, pointers, globals
<1>9. ASSUME NEW q \in Proc, q # p
      PROVE  ProcessInv(q)'
  BY <1>9, SameInv DEF Types, Same, Pready, pointers, globals
<1>10. PlaceInv(p)'
  BY <1>3, <1>5, <1>6 DEF PlaceInv, Running, RunPlaces, Exchange
<1>11. GlobalInv(p)'
  <2>1. UNCHANGED <<requests, buffer, size, barrier, bufferOf, requestsOf>>
    BY DEF Pready, globals, pointers
  <2>2. QED
    BY <1>3, <2>1 DEF GlobalInv, SetUpAfter
<1>12. SendInv(p)'
  <2>1. \A k \in Worker : k # t => pc'[p][k] = pc[p][k]
    OBVIOUS
  <2>2. UNCHANGED <<send, started, taken, arrived>>
    BY DEF Pready
  <2>3. QED
    BY <1>3, <1>4, <1>5, <1>6, <1>7, <2>1, <2>2 DEF SendInv, Running
<1>13. RecvInv(p)'
  BY <1>3, <1>5, <1>6 DEF RecvInv, Running, Pready
<1>14. SignalInv(p)'
  BY <1>3, <1>6 DEF SignalInv, Running, Pready, globals
<1>15. NetworkInv' /\ faults' = {}
  BY <1>3, <1>4, <1>6 DEF NetworkInv, Pready
<1>16. QED
  BY <1>8, <1>9, <1>10, <1>11, <1>12, <1>13, <1>14, <1>15 DEF IInv, ProcessInv

(* Who waits for a receive partition has waited for its own partition.     *)
LEMMA WaitForPartitionInv ==
  ASSUME IInv, NEW p \in Proc, NEW t \in Thread, WaitForPartition(p, t)
  PROVE  IInv'
<1> USE BaseFacts
<1> DEFINE next == IF IsRoot(p) THEN Finish(t) ELSE Forward(p)
<1>1. pc[p][t] = "parrived" /\ t \in Worker /\ ~Over(p)
  BY ExchangeFacts DEF WaitForPartition, At
<1>2. Stepped(p, t, next)
  BY StepFacts DEF WaitForPartition, Finish, Forward, Places
<1> USE <1>1, <1>2 DEF Stepped
<1>3. /\ phase[p] = "run" /\ requestsOf[p][t] = requests[p]
      /\ pc[p][Master] \in {"waitall", "exit"} /\ pc'[p][Master] = pc[p][Master]
  BY ExchangeFacts
<1>4. Receives(p, t) /\ t \in arrived[p] /\ Covered(p, RecvPartition(p, t)) \subseteq arrived[p]
  BY PartitionFacts DEF WaitForPartition, RecvInv, Types
<1>5. \/ IsRoot(p) /\ next = "exit"
      \/ ~IsRoot(p) /\ next \in {"copy", "release"}
  BY DEF Finish, Forward
<1>6. Types'
  BY DEF Types, WaitForPartition, pointers, globals, library
<1>7. ASSUME NEW q \in Proc, q # p
      PROVE  ProcessInv(q)'
  BY <1>7, SameInv DEF Types, Same, WaitForPartition, pointers, globals, library
<1>8. PlaceInv(p)'
  BY <1>3, <1>5 DEF PlaceInv, Running, RunPlaces, Exchange
<1>9. GlobalInv(p)'
  <2>1. UNCHANGED <<requests, buffer, size, barrier, bufferOf, requestsOf>>
    BY DEF WaitForPartition, globals, pointers
  <2>2. QED
    BY <1>3, <2>1 DEF GlobalInv, SetUpAfter
<1>10. SendInv(p)'
  <2>1. \A k \in Worker : k # t => pc'[p][k] = pc[p][k]
    OBVIOUS
  <2>2. QED
    BY <1>3, <1>5, <2>1 DEF SendInv, Running, WaitForPartition, library
<1>11. RecvInv(p)'
  <2>1. \A k \in Worker : k # t => pc'[p][k] = pc[p][k]
    OBVIOUS
  <2>2. QED
    BY <1>3, <1>4, <1>5, <2>1 DEF RecvInv, Running, WaitForPartition, library
<1>12. SignalInv(p)'
  BY <1>3 DEF SignalInv, Running, WaitForPartition, globals, library
<1>13. NetworkInv' /\ faults' = {}
  BY <1>3 DEF NetworkInv, WaitForPartition, Fault, library
<1>14. QED
  BY <1>6, <1>7, <1>8, <1>9, <1>10, <1>11, <1>12, <1>13 DEF IInv, ProcessInv

(* The workers it signals to have their partitions.                        *)
LEMMA ReleaseInv ==
  ASSUME IInv, NEW p \in Proc, NEW t \in Thread, Release(p, t)
  PROVE  IInv'
<1> USE BaseFacts
<1>1. pc[p][t] = "release" /\ t \in Worker /\ ~Over(p)
  BY ExchangeFacts DEF Release, At
<1>2. Stepped(p, t, "copy")
  BY StepFacts DEF Release, Places
<1> USE <1>1, <1>2 DEF Stepped
<1>3. /\ phase[p] = "run"
      /\ pc[p][Master] \in {"waitall", "exit"} /\ pc'[p][Master] = pc[p][Master]
  BY ExchangeFacts
<1>4. t \in arrived[p] /\ Partners(p, t) \subseteq arrived[p] /\ Partners(p, t) \subseteq Worker
  BY PartitionFacts DEF RecvInv, Types
<1>5. \A k \in Worker : signal'[p][k] = IF k \in Partners(p, t) THEN "goon" ELSE signal[p][k]
  BY DEF Types, Release
<1>6. Types'
  BY DEF Types, Release, pointers, library
<1>7. ASSUME NEW q \in Proc, q # p
      PROVE  ProcessInv(q)'
  BY <1>7, SameInv DEF Types, Same, Release, pointers, library
<1>8. PlaceInv(p)'
  BY <1>3 DEF PlaceInv, Running, RunPlaces, Exchange
<1>9. GlobalInv(p)'
  <2>1. UNCHANGED <<requests, buffer, size, barrier, bufferOf, requestsOf>>
    BY DEF Release, pointers
  <2>2. QED
    BY <1>3, <2>1 DEF GlobalInv, SetUpAfter
<1>10. SendInv(p)' /\ RecvInv(p)'
  <2>1. \A k \in Worker : k # t => pc'[p][k] = pc[p][k]
    OBVIOUS
  <2>2. SendInv(p)'
    BY <1>3, <2>1 DEF SendInv, Running, Release, library
  <2>3. RecvInv(p)'
    BY <1>3, <1>4, <2>1 DEF RecvInv, Running, Release, library
  <2>4. QED
    BY <2>2, <2>3
<1>11. SignalInv(p)'
  BY <1>3, <1>4, <1>5 DEF SignalInv, Running, Release, library
<1>12. NetworkInv' /\ faults' = {}
  BY <1>4 DEF NetworkInv, Release, Fault, library
<1>13. QED
  BY <1>6, <1>7, <1>8, <1>9, <1>10, <1>11, <1>12 DEF IInv, ProcessInv

(* Who has got a signal has its partition.                                 *)
LEMMA AwaitReleaseInv ==
  ASSUME IInv, NEW p \in Proc, NEW t \in Thread, AwaitRelease(p, t)
  PROVE  IInv'
<1> USE BaseFacts
<1>1. pc[p][t] = "released" /\ t \in Worker /\ signal[p][t] = "goon"
  BY ExchangeFacts DEF AwaitRelease, At, Released
<1>2. Stepped(p, t, "copy")
  BY StepFacts DEF AwaitRelease, Places
<1> USE <1>1, <1>2 DEF Stepped
<1>3. /\ phase[p] = "run"
      /\ pc[p][Master] \in {"waitall", "exit"} /\ pc'[p][Master] = pc[p][Master]
  BY ExchangeFacts
<1>4. t \in arrived[p]
  BY <1>3 DEF RecvInv, SignalInv, Running
<1>5. Types'
  BY DEF Types, AwaitRelease, pointers, globals, library
<1>6. ASSUME NEW q \in Proc, q # p
      PROVE  ProcessInv(q)'
  BY <1>6, SameInv DEF Types, Same, AwaitRelease, pointers, globals, library
<1>7. PlaceInv(p)'
  BY <1>3 DEF PlaceInv, Running, RunPlaces, Exchange
<1>8. GlobalInv(p)'
  <2>1. UNCHANGED <<requests, buffer, size, barrier, bufferOf, requestsOf>>
    BY DEF AwaitRelease, globals, pointers
  <2>2. QED
    BY <1>3, <2>1 DEF GlobalInv, SetUpAfter
<1>9. SendInv(p)' /\ RecvInv(p)'
  <2>1. \A k \in Worker : k # t => pc'[p][k] = pc[p][k]
    OBVIOUS
  <2>2. SendInv(p)'
    BY <1>3, <2>1 DEF SendInv, Running, AwaitRelease, library
  <2>3. RecvInv(p)'
    BY <1>3, <1>4, <2>1 DEF RecvInv, Running, AwaitRelease, library
  <2>4. QED
    BY <2>2, <2>3
<1>10. SignalInv(p)'
  BY <1>3 DEF SignalInv, Running, AwaitRelease, globals, library
<1>11. NetworkInv' /\ faults' = {}
  BY DEF NetworkInv, AwaitRelease, library
<1>12. QED
  BY <1>5, <1>6, <1>7, <1>8, <1>9, <1>10, <1>11 DEF IInv, ProcessInv

(* A partition that is copied has arrived.                                 *)
LEMMA CopyPartitionInv ==
  ASSUME IInv, NEW p \in Proc, NEW t \in Thread, CopyPartition(p, t)
  PROVE  IInv'
<1> USE BaseFacts
<1>1. pc[p][t] = "copy" /\ t \in Worker
  BY ExchangeFacts DEF CopyPartition, At
<1>2. Stepped(p, t, "pready")
  BY StepFacts DEF CopyPartition, Places
<1> USE <1>1, <1>2 DEF Stepped
<1>3. /\ phase[p] = "run" /\ bufferOf[p][t] = buffer[p]
      /\ pc[p][Master] \in {"waitall", "exit"} /\ pc'[p][Master] = pc[p][Master]
  BY ExchangeFacts
<1>4. recv[p][t] = Standard(round[p], t) /\ t \notin readied[p] /\ ~IsRoot(p)
  BY <1>3 DEF RecvInv, SendInv, Running
<1>5. /\ send' \in [Proc -> [Worker -> Value]]
      /\ send'[p][t] = Standard(round[p], t)
      /\ \A k \in Worker : k # t => send'[p][k] = send[p][k]
      /\ \A q \in Proc : q # p => send'[q] = send[q]
  BY <1>4 DEF Types, CopyPartition
<1>6. Types'
  BY <1>5 DEF Types, CopyPartition, pointers, globals, library
<1>7. ASSUME NEW q \in Proc, q # p
      PROVE  ProcessInv(q)'
  BY <1>5, <1>7, SameInv DEF Types, Same, CopyPartition, pointers, globals, library
<1>8. PlaceInv(p)'
  BY <1>3 DEF PlaceInv, Running, RunPlaces, Exchange
<1>9. GlobalInv(p)'
  <2>1. UNCHANGED <<requests, buffer, size, barrier, bufferOf, requestsOf>>
    BY DEF CopyPartition, globals, pointers
  <2>2. QED
    BY <1>3, <2>1 DEF GlobalInv, SetUpAfter
<1>10. \A k \in Worker : k # t => pc'[p][k] = pc[p][k]
  OBVIOUS
<1>11. SendInv(p)'
  <2>1. UNCHANGED <<started, readied, taken, arrived>>
    BY DEF CopyPartition, library
  <2>2. \A k \in readied[p] : k # t /\ k \in Worker
    BY <1>4 DEF Types
  <2>3. SendInv(p)
    OBVIOUS
  <2>4. /\ taken'[p] \subseteq readied'[p]
        /\ started'[p] <=> Running(p, {"world", "gate", "waitall"})'
        /\ Running(p, {"world", "gate"})' => readied'[p] = {}
        /\ Running(p, {"exit", "check"})' => taken'[p] = Worker /\ arrived'[p] = Worker
    BY <1>3, <2>1, <2>3 DEF SendInv, Running
  <2>5. started'[p] => \A k \in readied'[p] : send'[p][k] = Standard(round[p], k)
    BY <1>5, <2>1, <2>2, <2>3 DEF SendInv
  <2>6. \A k \in Worker :
          /\ pc'[p][k] = "pready" => k \notin readied'[p] /\ send'[p][k] = Standard(round[p], k)
          /\ pc'[p][k] \in {"release", "released", "copy"} => k \notin readied'[p] /\ ~IsRoot(p)
          /\ pc'[p][k] = "parrived" /\ ~IsRoot(p) => k \notin readied'[p]
    BY <1>4, <1>5, <1>10, <2>1, <2>3 DEF SendInv
  <2>7. QED
    BY <1>4, <2>4, <2>5, <2>6 DEF SendInv, Standard
<1>12. RecvInv(p)' /\ SignalInv(p)'
  BY <1>3, <1>10 DEF RecvInv, SignalInv, Running, CopyPartition, globals, library
<1>13. NetworkInv' /\ faults' = {}
  BY <1>3 DEF NetworkInv, CopyPartition, Fault, library
<1>14. QED
  BY <1>6, <1>7, <1>8, <1>9, <1>11, <1>12, <1>13 DEF IInv, ProcessInv

(* All partitions have left and have arrived.                              *)
LEMMA WaitallInv ==
  ASSUME IInv, NEW p \in Proc, Waitall(p)
  PROVE  IInv'
<1> USE BaseFacts
<1>1. pc[p][Master] = "waitall" /\ taken[p] = Worker /\ arrived[p] = Worker
  BY DEF Waitall, At
<1>2. Stepped(p, Master, "exit")
  BY StepFacts DEF Waitall, Places
<1> USE <1>1, <1>2 DEF Stepped
<1>3. phase[p] = "run"
  BY DEF PlaceInv, InitPlaces
<1>4. started'[p] = FALSE /\ UNCHANGED <<send, recv, readied, taken, arrived>>
  BY DEF Types, Waitall
<1>5. Types'
  BY DEF Types, Waitall, pointers, globals
<1>6. ASSUME NEW q \in Proc, q # p
      PROVE  ProcessInv(q)'
  BY <1>6, SameInv DEF Types, Same, Waitall, pointers, globals
<1>7. PlaceInv(p)'
  BY <1>3 DEF PlaceInv, Running, RunPlaces, Exchange
<1>8. GlobalInv(p)'
  <2>1. UNCHANGED <<requests, buffer, size, barrier, bufferOf, requestsOf>>
    BY DEF Waitall, globals, pointers
  <2>2. QED
    BY <1>3, <2>1 DEF GlobalInv, SetUpAfter
<1>9. SendInv(p)'
  BY <1>3, <1>4 DEF SendInv, Running
<1>10. RecvInv(p)' /\ SignalInv(p)'
  BY <1>3, <1>4 DEF RecvInv, SignalInv, Running, Waitall, globals
<1>11. NetworkInv' /\ faults' = {}
  BY DEF NetworkInv, Waitall
<1>12. QED
  BY <1>5, <1>6, <1>7, <1>8, <1>9, <1>10, <1>11 DEF IInv, ProcessInv

(* The check finds the array of the root.                                  *)
LEMMA CheckInv ==
  ASSUME IInv, NEW p \in Proc, Check(p)
  PROVE  IInv'
<1> USE BaseFacts
<1>1. pc[p][Master] = "check"
  BY DEF Check, At
<1>2. Stepped(p, Master, "idle")
  BY StepFacts DEF Check, Places
<1> USE <1>1, <1>2 DEF Stepped
<1>3. phase[p] = "run" /\ \A k \in Worker : pc[p][k] = "idle"
  BY DEF PlaceInv, InitPlaces, Running
<1>4. recv[p][0].partition = 0 /\ bufferOf[p][Master] = buffer[p]
  <2>1. 0 \in arrived[p]
    BY <1>3 DEF SendInv, Running
  <2>2. recv[p][0] = Standard(round[p], 0)
    BY <1>3, <2>1 DEF RecvInv, Running
  <2>3. QED
    BY <1>3, <2>2 DEF Standard, GlobalInv, SetUpAfter
<1>5. Types'
  BY DEF Types, Check, pointers, globals, library
<1>6. ASSUME NEW q \in Proc, q # p
      PROVE  ProcessInv(q)'
  BY <1>6, SameInv DEF Types, Same, Check, pointers, globals, library
<1>7. PlaceInv(p)'
  BY <1>3 DEF PlaceInv, Running, RunPlaces
<1>8. GlobalInv(p)'
  <2>1. UNCHANGED <<requests, buffer, size, barrier, bufferOf, requestsOf>>
    BY DEF Check, globals, pointers
  <2>2. QED
    BY <1>3, <2>1 DEF GlobalInv, SetUpAfter
<1>9. SendInv(p)'
  BY <1>3 DEF SendInv, Running, Check, library
<1>10. RecvInv(p)' /\ SignalInv(p)'
  BY <1>3 DEF RecvInv, SignalInv, Running, Check, globals, library
<1>11. NetworkInv' /\ faults' = {}
  BY <1>4 DEF NetworkInv, Check, library
<1>12. QED
  BY <1>5, <1>6, <1>7, <1>8, <1>9, <1>10, <1>11 DEF IInv, ProcessInv

-----------------------------------------------------------------------------
(* The library.                                                            *)

(* What leaves the send buffer is what the root has sent.                  *)
LEMMA TakePartitionInv ==
  ASSUME IInv, NEW p \in Proc, NEW k \in Worker, TakePartition(p, k)
  PROVE  IInv'
<1> USE BaseFacts
<1>1. /\ plan' = plan /\ round' = round /\ phase' = phase /\ pc' = pc
      /\ taken' = [taken EXCEPT ![p] = @ \cup {k}]
      /\ k \in readied[p] /\ started[p]
      /\ UNCHANGED <<globals, send, recv, pointers, started, readied, arrived, faults>>
      /\ Worker' = Worker /\ Thread' = Thread
  BY DEF TakePartition, Worker, Thread
<1> USE <1>1
<1>2. Types'
  BY DEF Types, pointers, globals
<1>3. ASSUME NEW q \in Proc, q # p
      PROVE  ProcessInv(q)'
  BY <1>3, SameInv DEF Types, Same, pointers, globals
<1>4. /\ Now(p)' = Now(p) /\ IsRoot(p)' = IsRoot(p) /\ BufferSize(p)' = BufferSize(p)
      /\ \A j : /\ Receives(p, j)' = Receives(p, j)
                /\ Covered(p, RecvPartition(p, j))' = Covered(p, RecvPartition(p, j))
  BY RunFacts
<1>5. PlaceInv(p)'
  BY DEF PlaceInv, Running
<1>6. GlobalInv(p)'
  BY <1>4 DEF GlobalInv, SetUpAfter, globals, pointers
<1>7. SendInv(p)'
  <2>1. taken'[p] = taken[p] \cup {k}
    BY DEF Types
  <2>2. taken'[p] \subseteq readied[p] /\ (Running(p, {"exit", "check"}) => taken'[p] = Worker)
    BY <2>1 DEF Types, SendInv
  <2>3. QED
    BY <1>4, <2>2 DEF SendInv, Running
<1>8. RecvInv(p)' /\ SignalInv(p)'
  BY <1>4 DEF RecvInv, SignalInv, Running, globals
<1>9. NetworkInv'
  <2>1. send[p][k] = Standard(round[p], k)
    BY DEF SendInv
  <2>2. \A m \in network' : m \in network \/
          m = [round |-> round[p], to |-> SendTo(p), partition |-> k, data |-> send[p][k]]
    BY DEF TakePartition
  <2>3. QED
    BY <2>1, <2>2 DEF NetworkInv
<1>10. faults' = {}
  OBVIOUS
<1>11. QED
  BY <1>2, <1>3, <1>5, <1>6, <1>7, <1>8, <1>9, <1>10 DEF IInv, ProcessInv

(* What gets into the receive buffer is what the root of this run has      *)
(* sent.                                                                   *)
LEMMA DeliverInv ==
  ASSUME IInv, NEW m \in network, Deliver(m)
  PROVE  IInv'
<1> USE BaseFacts
<1>1. /\ plan' = plan /\ round' = round /\ phase' = phase /\ pc' = pc
      /\ m.round = round[m.to] /\ started[m.to]
      /\ recv' = [recv EXCEPT ![m.to][m.partition] = m.data]
      /\ arrived' = [arrived EXCEPT ![m.to] = @ \cup {m.partition}]
      /\ network' = network \ {m}
      /\ UNCHANGED <<globals, send, pointers, started, readied, taken, faults>>
      /\ Worker' = Worker /\ Thread' = Thread
  BY DEF Deliver, Worker, Thread
<1> USE <1>1
<1>2. m.partition \in Worker /\ m.data = Standard(m.round, m.partition)
  BY DEF NetworkInv
<1>3. \A q \in Proc : m.to = q => Standard(m.round, m.partition) \in Value
  BY <1>2, ThreadFacts DEF Standard, Value
<1>4. /\ recv' \in [Proc -> [Worker -> Value]] /\ arrived' \in [Proc -> SUBSET Worker]
      /\ \A q \in Proc : q # m.to => recv'[q] = recv[q] /\ arrived'[q] = arrived[q]
  <2>1. CASE m.to \in Proc
    <3>1. Standard(m.round, m.partition) \in Value
      BY <1>3, <2>1
    <3>2. recv' \in [Proc -> [Worker -> Value]] /\ (\A q \in Proc : q # m.to => recv'[q] = recv[q])
      BY <1>2, <2>1, <3>1 DEF Types
    <3>3. /\ arrived' \in [Proc -> SUBSET Worker]
          /\ \A q \in Proc : q # m.to => arrived'[q] = arrived[q]
      BY <1>2, <2>1 DEF Types
    <3>4. QED
      BY <3>2, <3>3
  <2>2. CASE m.to \notin Proc
    BY <2>2 DEF Types
  <2>3. QED
    BY <2>1, <2>2
<1>5. Types'
  BY <1>4 DEF Types, pointers, globals
<1>6. ASSUME NEW q \in Proc
      PROVE  ProcessInv(q)'
  <2>1. CASE q # m.to
    BY <1>4, <2>1, SameInv DEF Same, pointers, globals
  <2>2. CASE q = m.to
    <3> USE <2>2
    <3>1. /\ arrived'[q] = arrived[q] \cup {m.partition}
          /\ recv'[q][m.partition] = Standard(round[q], m.partition)
          /\ \A k \in Worker : k # m.partition => recv'[q][k] = recv[q][k]
      BY <1>2 DEF Types
    <3>2. arrived[q] \subseteq Worker
      BY DEF Types
    <3>3. Running(q, {"world", "gate", "waitall"})
      BY DEF SendInv
    <3>4. /\ Now(q)' = Now(q) /\ IsRoot(q)' = IsRoot(q) /\ BufferSize(q)' = BufferSize(q)
          /\ \A j : /\ Receives(q, j)' = Receives(q, j)
                    /\ Covered(q, RecvPartition(q, j))' = Covered(q, RecvPartition(q, j))
      BY RunFacts
    <3>5. PlaceInv(q)'
      BY DEF PlaceInv, Running
    <3>6. GlobalInv(q)'
      BY <3>4 DEF GlobalInv, SetUpAfter, globals, pointers
    <3>7. SendInv(q)'
      BY <1>2, <3>1, <3>2, <3>4 DEF SendInv, Running
    <3>8. RecvInv(q)'
      BY <1>2, <3>1, <3>2, <3>3, <3>4 DEF RecvInv, Running
    <3>9. SignalInv(q)'
      BY <3>1, <3>4 DEF SignalInv, Running, globals
    <3>10. QED
      BY <3>5, <3>6, <3>7, <3>8, <3>9 DEF ProcessInv
  <2>3. QED
    BY <2>1, <2>2
<1>7. NetworkInv' /\ faults' = {}
  BY DEF NetworkInv
<1>8. QED
  BY <1>5, <1>6, <1>7 DEF IInv

-----------------------------------------------------------------------------
(* All threads of a process go to the next function together.              *)

(* The next function begins when no thread is in the exchange.             *)
LEMMA NextFunctionInv ==
  ASSUME IInv, NEW p \in Proc, NextFunction(p)
  PROVE  IInv'
<1> USE BaseFacts
<1> DEFINE next == CASE phase[p] = "init" -> "run" [] phase[p] = "run" -> "cleanup" [] OTHER -> "init"
<1>1. /\ \A t \in Thread : pc[p][t] = "idle"
      /\ phase' = [phase EXCEPT ![p] = next]
      /\ pc' = [pc EXCEPT ![p] = Begin(next)]
      /\ round' = [round EXCEPT ![p] = IF next = "init" THEN @ + 1 ELSE @]
      /\ plan' = plan
      /\ UNCHANGED <<globals, send, recv, pointers, library, faults>>
      /\ Worker' = Worker /\ Thread' = Thread
  BY DEF NextFunction, Worker, Thread
<1> USE <1>1
<1>2. next \in {"init", "run", "cleanup"}
  OBVIOUS
<1>3. Begin(next) \in [Thread -> Places]
  BY <1>2 DEF Begin, Places
<1>4. Types'
  BY <1>2, <1>3 DEF Types, pointers, globals, library
<1>5. ASSUME NEW q \in Proc, q # p
      PROVE  ProcessInv(q)'
  BY <1>5, SameInv DEF Types, Same, pointers, globals, library
<1>6. /\ phase'[p] = next /\ round'[p] = IF next = "init" THEN round[p] + 1 ELSE round[p]
      /\ pc'[p][Master] = CASE next = "init" -> "alloc" [] next = "run" -> "post" [] OTHER -> "free"
      /\ \A k \in Worker :
           pc'[p][k] = CASE next = "init" -> "take" [] next = "run" -> "gate" [] OTHER -> "idle"
  BY <1>3 DEF Types, Begin
<1>7. /\ started[p] = FALSE
      /\ phase[p] = "run" => ~Running(p, {"post", "world", "gate", "waitall", "exit"})
  BY DEF Types, SendInv, Running
<1>8. CASE phase[p] = "init"
  <2> USE <1>6, <1>8
  <2>1. /\ Now(p)' = Now(p) /\ IsRoot(p)' = IsRoot(p) /\ BufferSize(p)' = BufferSize(p)
    BY RunFacts
  <2>2. PlaceInv(p)'
    BY DEF PlaceInv, Running, RunPlaces
  <2>3. GlobalInv(p)'
    BY <2>1 DEF GlobalInv, SetUpAfter, globals, pointers
  <2>4. SendInv(p)'
    BY <1>7, <2>1 DEF SendInv, Running, library
  <2>5. RecvInv(p)' /\ SignalInv(p)'
    BY <2>1 DEF RecvInv, SignalInv, Running, globals, library
  <2>6. QED
    BY <1>4, <1>5, <2>2, <2>3, <2>4, <2>5 DEF IInv, ProcessInv, NetworkInv, library
<1>9. CASE phase[p] = "run"
  <2> USE <1>6, <1>9
  <2>1. /\ Now(p)' = Now(p) /\ IsRoot(p)' = IsRoot(p) /\ BufferSize(p)' = BufferSize(p)
    BY RunFacts
  <2>2. PlaceInv(p)'
    BY DEF PlaceInv, Running
  <2>3. GlobalInv(p)'
    BY <2>1 DEF GlobalInv, SetUpAfter, globals, pointers
  <2>4. SendInv(p)'
    BY <1>7, <2>1 DEF SendInv, Running, library
  <2>5. RecvInv(p)' /\ SignalInv(p)'
    BY <2>1 DEF RecvInv, SignalInv, Running, globals, library
  <2>6. QED
    BY <1>4, <1>5, <2>2, <2>3, <2>4, <2>5 DEF IInv, ProcessInv, NetworkInv, library
<1>10. CASE phase[p] = "cleanup"
  <2> USE <1>6, <1>10
  <2>1. PlaceInv(p)'
    BY DEF PlaceInv, Running, InitPlaces
  <2>2. GlobalInv(p)'
    <3>1. \A t \in Thread : pc'[p][t] \in {"alloc", "take"}
      BY ThreadFacts
    <3>2. QED
      BY <3>1 DEF GlobalInv, SetUpAfter, globals, pointers
  <2>3. SendInv(p)'
    BY <1>7 DEF SendInv, Running, library
  <2>4. RecvInv(p)' /\ SignalInv(p)'
    BY DEF RecvInv, SignalInv, Running, globals, library
  <2>5. QED
    BY <1>4, <1>5, <2>1, <2>2, <2>3, <2>4 DEF IInv, ProcessInv, NetworkInv, library
<1>11. QED
  BY <1>8, <1>9, <1>10

-----------------------------------------------------------------------------

(* Every step keeps the invariant.                                         *)
LEMMA NextInv ==
  ASSUME IInv, [Next]_vars
  PROVE  IInv'
<1>1. ASSUME NEW p \in Proc, MasterStep(p)
      PROVE  IInv'
  BY <1>1, AllocRequestsInv, StoreBufferInv, PublishSizeInv, InitSignalsInv, StartallInv,
     WaitallInv, CheckInv, FreeGlobalsInv DEF MasterStep
<1>2. ASSUME NEW p \in Proc, NEW t \in Thread, ThreadStep(p, t)
      PROVE  IInv'
  BY <1>2, TakeBufferInv, PreadyInv, WaitForPartitionInv, ReleaseInv, AwaitReleaseInv,
     CopyPartitionInv DEF ThreadStep
<1>3. ASSUME UNCHANGED vars
      PROVE  IInv'
  <2>1. \A p \in Proc : Same(p)
    BY <1>3 DEF vars, Same, globals, pointers, library
  <2>2. Types' /\ NetworkInv' /\ faults' = {}
    BY <1>3 DEF IInv, Types, NetworkInv, vars, globals, pointers, library, Worker, Thread
  <2>3. QED
    BY <2>1, <2>2, SameInv DEF IInv
<1>4. QED
  BY <1>1, <1>2, <1>3, GateInv, ExitInv, NextFunctionInv, TakePartitionInv, MeetProcessesInv,
     DeliverInv DEF Next, Ended

(* The invariant holds in every reachable state.                           *)
THEOREM RingInvariance == Spec => []IInv
<1>1. Init => IInv
  BY InitInv
<1>2. IInv /\ [Next]_vars => IInv'
  BY NextInv
<1>3. QED
  BY <1>1, <1>2, PTL DEF Spec

(* Whatever the order in which threads, processes and partitions get on:   *)
(* the tests of tst_threaded_ring_partitioned*.c use no memory of another  *)
(* run, signal to nobody outside, and blame no library that is sound.      *)
THEOREM NobodyBlamed == Spec => []NoFalseFailure
<1>1. IInv => NoFalseFailure
  BY DEF IInv, NoFalseFailure
<1>2. QED
  BY <1>1, RingInvariance, PTL

(* When MPI_Waitall returns, the receive buffer holds the whole array that *)
(* the root of this run has sent, however many hands it went through.      *)
THEOREM EverythingCarried == Spec => []Carried
<1>1. IInv => Carried
  <2> SUFFICES ASSUME IInv, NEW p \in Proc, At(p, Master, "exit") \/ At(p, Master, "check"),
                      NEW k \in Worker
               PROVE  recv[p][k] = Standard(round[p], k)
    BY DEF Carried
  <2>1. pc[p][Master] \in {"exit", "check"}
    BY DEF At
  <2>2. phase[p] = "run"
    BY <2>1, BaseFacts DEF PlaceInv, InitPlaces
  <2>3. QED
    BY <2>1, <2>2, BaseFacts DEF SendInv, RecvInv, Running
<1>2. QED
  BY <1>1, RingInvariance, PTL
-----------------------------------------------------------------------------
(* The groups of the communicators.                                        *)

(* In a group, a process has fewer below it than the group has members,    *)
(* and fewer than any process above it.                                    *)
LEMMA BelowFacts ==
  ASSUME NEW group \in SUBSET Proc
  PROVE  /\ IsFiniteSet(group) /\ Cardinality(group) \in Nat
         /\ \A q \in group : Cardinality(Below(group, q)) \in 0..(Cardinality(group) - 1)
         /\ \A q, r \in group :
              q < r => Cardinality(Below(group, q)) < Cardinality(Below(group, r))
<1>1. Proc \subseteq Int /\ IsFiniteSet(Proc)
  BY WorldSizeAssumption, FS_Interval DEF Proc
<1>2. \A S \in SUBSET group : IsFiniteSet(S) /\ Cardinality(S) \in Nat
  BY <1>1, FS_Subset, FS_CardinalityType
<1>3. ASSUME NEW S \in SUBSET group, NEW T \in SUBSET S, NEW q \in S, q \notin T
      PROVE  Cardinality(T) < Cardinality(S)
  <2>1. IsFiniteSet(S) /\ Cardinality(S) \in Nat /\ Cardinality(T) \in Nat
    BY <1>2
  <2>2. Cardinality(T) <= Cardinality(S) /\ Cardinality(T) # Cardinality(S)
    BY <1>3, <2>1, FS_Subset
  <2>3. QED
    BY <2>1, <2>2
<1>4. ASSUME NEW q \in group
      PROVE  Cardinality(Below(group, q)) \in 0..(Cardinality(group) - 1)
  <2>1. Below(group, q) \subseteq group /\ q \notin Below(group, q)
    BY <1>1 DEF Below
  <2>2. Cardinality(Below(group, q)) < Cardinality(group)
    BY <1>3, <2>1
  <2>3. Cardinality(Below(group, q)) \in Nat /\ Cardinality(group) \in Nat
    BY <1>2, <2>1
  <2>4. QED
    BY <2>2, <2>3
<1>5. ASSUME NEW q \in group, NEW r \in group, q < r
      PROVE  Cardinality(Below(group, q)) < Cardinality(Below(group, r))
  <2>1. group \subseteq Int /\ q \in Int /\ r \in Int
    BY <1>1
  <2>2. \A x \in group : x < q => x < r
    BY <1>5, <2>1
  <2>3. Below(group, q) \subseteq Below(group, r) /\ Below(group, r) \subseteq group
    BY <2>2 DEF Below
  <2>4. q \in Below(group, r) /\ q \notin Below(group, q)
    BY <1>5, <2>1 DEF Below
  <2>5. QED
    BY <1>3, <2>3, <2>4
<1>6. QED
  BY <1>2, <1>4, <1>5

(* So for each rank there is exactly one member with as many below it.     *)
LEMMA RankFacts ==
  ASSUME NEW group \in SUBSET Proc
  PROVE  /\ \A q, r \in group :
              Cardinality(Below(group, q)) = Cardinality(Below(group, r)) => q = r
         /\ \A i \in 1..Cardinality(group) :
              \E q \in group : Cardinality(Below(group, q)) = i - 1
<1> DEFINE n == Cardinality(group)
           rank == [q \in group |-> Cardinality(Below(group, q))]
<1>1. /\ IsFiniteSet(group) /\ n \in Nat
      /\ \A q \in group : rank[q] \in 0..(n - 1)
      /\ \A q, r \in group : q < r => rank[q] < rank[r]
  BY BelowFacts
<1>2. ASSUME NEW q \in group, NEW r \in group, rank[q] = rank[r]
      PROVE  q = r
  <2>1. q \in Int /\ r \in Int
    BY WorldSizeAssumption DEF Proc
  <2>2. ~(q < r) /\ ~(r < q)
    BY <1>1, <1>2
  <2>3. QED
    BY <2>1, <2>2
<1>3. ASSUME n # 0
      PROVE  \A i \in 1..n : \E q \in group : rank[q] = i - 1
  <2>1. IsFiniteSet(0..(n - 1)) /\ Cardinality(0..(n - 1)) = n
    <3>1. n - 1 \in Int /\ ~(0 > n - 1) /\ (n - 1) - 0 + 1 = n
      BY <1>1, <1>3
    <3>2. QED
      BY <3>1, FS_Interval, 0 \in Int
  <2>2. rank \in Injection(group, 0..(n - 1))
    BY <1>1, <1>2 DEF Injection, IsInjective
  <2>3. rank \in Surjection(group, 0..(n - 1))
    BY <2>1, <2>2, FS_Injection
  <2>4. \A i \in 1..n : i - 1 \in 0..(n - 1)
    BY <1>1
  <2>5. QED
    BY <2>3, <2>4 DEF Surjection
<1>4. n = 0 => 1..n = {}
  OBVIOUS
<1>5. QED
  BY <1>2, <1>3, <1>4

(* A group in order is a sequence of its members, all of them.             *)
LEMMA InOrderFacts ==
  ASSUME NEW group \in SUBSET Proc
  PROVE  /\ InOrder(group) \in Seq(Proc)
         /\ \A q \in group : \E i \in DOMAIN InOrder(group) : InOrder(group)[i] = q
<1> DEFINE n == Cardinality(group)
           g == InOrder(group)
<1>1. n \in Nat /\ \A q \in group : Cardinality(Below(group, q)) \in 0..(n - 1)
  BY BelowFacts
<1>2. \A i \in 1..n : g[i] \in group /\ Cardinality(Below(group, g[i])) = i - 1
  BY RankFacts DEF InOrder
<1>3. g \in [1..n -> Proc]
  BY <1>2 DEF InOrder
<1>4. g \in Seq(Proc)
  BY <1>1, <1>3
<1>5. ASSUME NEW q \in group
      PROVE  \E i \in DOMAIN g : g[i] = q
  <2> DEFINE i == Cardinality(Below(group, q)) + 1
  <2>1. i \in 1..n /\ Cardinality(Below(group, q)) = i - 1
    BY <1>1
  <2>2. g[i] = q
    BY <1>2, <2>1, RankFacts
  <2>3. QED
    BY <1>3, <2>1, <2>2
<1>6. QED
  BY <1>4, <1>5
(* A process is in the group of every communicator of a plan.              *)
LEMMA GroupFacts ==
  ASSUME NEW p \in Proc,
         NEW c \in {"self", "world", "dup", "reversed", "halved", "oddeven"}
  PROVE  /\ LocalGroup(c, p) \in Seq(Proc)
         /\ \E i \in DOMAIN LocalGroup(c, p) : LocalGroup(c, p)[i] = p
<1>1. /\ WorldSize \in Nat \ {0} /\ p \in 0..(WorldSize - 1)
      /\ World \in [1..WorldSize -> Proc] /\ \A i \in 1..WorldSize : World[i] = i - 1
  BY WorldSizeAssumption DEF Proc, World
<1>2. CASE c = "self"
  <2>1. LocalGroup(c, p) = <<p>>
    BY <1>2 DEF LocalGroup
  <2>2. QED
    BY <2>1
<1>3. CASE c = "reversed"
  <2> DEFINE g == [i \in 1..WorldSize |-> World[WorldSize - i + 1]]
  <2>1. World \in Seq(Proc) /\ Len(World) = WorldSize
    BY <1>1
  <2>2. LocalGroup(c, p) = g
    BY <1>3, <2>1 DEF LocalGroup, Reverse
  <2>3. \A i \in 1..WorldSize : WorldSize - i + 1 \in 1..WorldSize
    BY <1>1
  <2>4. g \in [1..WorldSize -> Proc]
    BY <1>1, <2>3
  <2>5. WorldSize - p \in 1..WorldSize /\ WorldSize - (WorldSize - p) + 1 = p + 1
    BY <1>1
  <2>6. p + 1 \in 1..WorldSize /\ (p + 1) - 1 = p
    BY <1>1
  <2>7. g[WorldSize - p] = p
    BY <1>1, <2>5, <2>6
  <2>8. g \in Seq(Proc)
    BY <1>1, <2>4
  <2>9. QED
    BY <2>2, <2>4, <2>5, <2>7, <2>8
<1>4. CASE c = "halved"
  <2> DEFINE group == {q \in Proc : HalfOf[q] = HalfOf[p]}
  <2>1. LocalGroup(c, p) = InOrder(group) /\ p \in group
    BY <1>4 DEF LocalGroup, SplitBy
  <2>2. QED
    BY <2>1, InOrderFacts
<1>5. CASE c = "oddeven"
  <2> DEFINE group == {q \in Proc : ParityOf[q] = ParityOf[p]}
  <2>1. LocalGroup(c, p) = InOrder(group) /\ p \in group
    BY <1>5 DEF LocalGroup, SplitBy
  <2>2. QED
    BY <2>1, InOrderFacts
<1>6. CASE c \in {"world", "dup"}
  <2>1. LocalGroup(c, p) = World
    BY <1>6 DEF LocalGroup
  <2>2. p + 1 \in 1..WorldSize /\ (p + 1) - 1 = p
    BY <1>1
  <2>3. World \in Seq(Proc) /\ World[p + 1] = p /\ DOMAIN World = 1..WorldSize
    BY <1>1, <2>2
  <2>4. QED
    BY <2>1, <2>2, <2>3
<1>7. QED
  BY <1>2, <1>3, <1>4, <1>5, <1>6

(* The next process of the ring is one.                                    *)
LEMMA SendToFacts ==
  ASSUME plan \in Plans, round \in [Proc -> Nat \ {0}], NEW p \in Proc, ~Over(p)
  PROVE  SendTo(p) \in Proc
<1> DEFINE g == LocalGroup(Now(p).comm, p)
           rank == RankIn(Now(p).comm, p)
<1>1. g \in Seq(Proc) /\ \E i \in DOMAIN g : g[i] = p
  <2>1. Now(p).comm \in {"self", "world", "dup", "reversed", "halved", "oddeven"}
    BY CombinationFacts
  <2>2. QED
    BY <2>1, GroupFacts
<1>2. rank + 1 \in DOMAIN g
  <2>1. (CHOOSE i \in DOMAIN g : g[i] = p) \in DOMAIN g /\ DOMAIN g \subseteq Int
    BY <1>1
  <2>2. QED
    BY <2>1 DEF RankIn
<1> HIDE DEF g, rank
<1>3. Len(g) \in Nat \ {0} /\ rank + 1 \in Int
  BY <1>1, <1>2
<1>4. ((rank + 1) % Len(g)) + 1 \in 1..Len(g)
  BY <1>3
<1>5. g[((rank + 1) % Len(g)) + 1] \in Proc
  BY <1>1, <1>4
<1>6. QED
  BY <1>5 DEF SendTo, g, rank
-----------------------------------------------------------------------------
(* The ranges of numbers.                                                  *)

(* A process whose loop is over has done nothing in the next round.        *)
LoopInv(p) ==
  /\ round[p] <= LastRound + 1
  /\ Over(p) => phase[p] = "init" /\ pc[p][Master] = "alloc"

(* No address and no value is of a round that does not exist.              *)
RangeInv(p) ==
  /\ \A t \in Thread : bufferOf[p][t] \in 0..LastRound /\ requestsOf[p][t] \in 0..LastRound
  /\ \A k \in Worker : send[p][k] \in Data /\ recv[p][k] \in Data

Message == [round : 1..LastRound, to : Proc, partition : Worker, data : Data]

Ranges == (\A p \in Proc : LoopInv(p)) /\ (\A p \in Proc : RangeInv(p)) /\ network \subseteq Message

(* A plan ends.                                                            *)
LEMMA LastRoundFacts ==
  ASSUME plan \in Plans
  PROVE  LastRound \in Nat
BY PlanAssumption DEF LastRound

(* In the beginning there is neither.                                      *)
LEMMA InitRanges ==
  ASSUME Init
  PROVE  Ranges
<1>1. LastRound \in Nat /\ plan \in Plans
  BY LastRoundFacts DEF Init
<1>2. \A p \in Proc : LoopInv(p)
  BY <1>1, ThreadFacts DEF Init, LoopInv, Begin, Over
<1>3. \A p \in Proc : RangeInv(p)
  BY <1>1 DEF Init, RangeInv, Data
<1>4. QED
  BY <1>2, <1>3 DEF Ranges, Init

(* Within a round, a process whose loop is over does not move.             *)
InRound ==
  /\ plan' = plan /\ round' = round /\ phase' = phase
  /\ \A q \in Proc : Over(q) => pc'[q] = pc[q]

(* Such a step keeps the bounds, and the loops.                            *)
LEMMA InRoundKeeps ==
  ASSUME Ranges, InRound
  PROVE  /\ \A q \in Proc : LoopInv(q)'
         /\ Worker' = Worker /\ Thread' = Thread /\ LastRound' = LastRound
         /\ Data' = Data /\ Message' = Message
<1>1. /\ Worker' = Worker /\ Thread' = Thread /\ LastRound' = LastRound
      /\ \A q \in Proc : Over(q)' = Over(q)
  BY DEF InRound, Worker, Thread, LastRound, Over
<1>2. Data' = Data
  BY <1>1 DEF Data
<1>3. Message' = Message
  BY <1>1, <1>2 DEF Message
<1>4. \A q \in Proc : LoopInv(q)'
  BY <1>1 DEF Ranges, LoopInv, InRound
<1>5. QED
  BY <1>1, <1>2, <1>3, <1>4

(* A step of a thread is one within a round.                               *)
LEMMA GotoInRound ==
  ASSUME IInv, NEW p \in Proc, NEW t, NEW place, NEW next, At(p, t, place), Goto(p, t, next),
         UNCHANGED <<plan, round, phase>>
  PROVE  InRound
<1>1. \A q \in Proc : q # p => pc'[q] = pc[q]
  BY DEF IInv, Types, Goto
<1>2. QED
  BY <1>1 DEF At, InRound

(* One that neither writes a value nor an address keeps the ranges.        *)
LEMMA RestRanges ==
  ASSUME Ranges, InRound, UNCHANGED <<send, recv, pointers, network>>
  PROVE  Ranges'
<1>1. /\ \A q \in Proc : LoopInv(q)'
      /\ Worker' = Worker /\ Thread' = Thread /\ LastRound' = LastRound
      /\ Data' = Data /\ Message' = Message
  BY InRoundKeeps
<1>2. \A q \in Proc : RangeInv(q)'
  BY <1>1 DEF Ranges, RangeInv, pointers
<1>3. QED
  BY <1>1, <1>2 DEF Ranges

(* The master never writes anything but what belongs to this round.        *)
LEMMA MasterRanges ==
  ASSUME IInv, Ranges, NEW p \in Proc, MasterStep(p)
  PROVE  Ranges'
<1>1. CASE AllocRequests(p)
  BY <1>1, GotoInRound, RestRanges DEF AllocRequests, library
<1>2. CASE StoreBuffer(p)
  <2>1. /\ send' = [send EXCEPT ![p] = [k \in Worker |-> Unset]]
        /\ recv' = [recv EXCEPT ![p] = [k \in Worker |-> Unset]]
        /\ UNCHANGED <<pointers, network>> /\ InRound
    BY <1>2, GotoInRound DEF StoreBuffer, library
  <2>2. /\ \A q \in Proc : LoopInv(q)'
        /\ Worker' = Worker /\ Thread' = Thread /\ LastRound' = LastRound
        /\ Data' = Data /\ Message' = Message
    BY <2>1, InRoundKeeps
  <2>3. Unset \in Data
    BY DEF Data
  <2>4. \A q \in Proc : RangeInv(q)'
    BY <2>1, <2>2, <2>3 DEF Ranges, RangeInv, pointers, IInv, Types
  <2>5. QED
    BY <2>1, <2>2, <2>4 DEF Ranges
<1>3. CASE PublishSize(p)
  BY <1>3, GotoInRound, RestRanges DEF PublishSize, library
<1>4. CASE InitSignals(p)
  BY <1>4, GotoInRound, RestRanges DEF InitSignals, library
<1>5. CASE Startall(p)
  BY <1>5, GotoInRound, RestRanges DEF Startall
<1>6. CASE Waitall(p)
  BY <1>6, GotoInRound, RestRanges DEF Waitall
<1>7. CASE Check(p)
  BY <1>7, GotoInRound, RestRanges DEF Check, library
<1>8. CASE FreeGlobals(p)
  BY <1>8, GotoInRound, RestRanges DEF FreeGlobals, library
<1>9. QED
  BY <1>1, <1>2, <1>3, <1>4, <1>5, <1>6, <1>7, <1>8 DEF MasterStep

(* The end of init: the addresses are those of this round.                 *)
LEMMA TakeBufferRanges ==
  ASSUME IInv, Ranges, NEW p \in Proc, NEW t \in Thread, TakeBuffer(p, t)
  PROVE  Ranges'
<1>1. /\ bufferOf' = [bufferOf EXCEPT ![p][t] = buffer[p]]
      /\ requestsOf' = [requestsOf EXCEPT ![p][t] = requests[p]]
      /\ send' = IF IsRoot(p) /\ t = Master
                 THEN [send EXCEPT ![p] = [k \in Worker |-> Standard(round[p], k)]] ELSE send
      /\ UNCHANGED <<recv, network>> /\ InRound /\ ~Over(p)
  BY GotoInRound DEF TakeBuffer, library, At
<1>2. /\ \A q \in Proc : LoopInv(q)'
      /\ Worker' = Worker /\ Thread' = Thread /\ LastRound' = LastRound
      /\ Data' = Data /\ Message' = Message
  BY <1>1, InRoundKeeps
<1>3. round[p] \in 1..LastRound /\ LastRound \in Nat
  BY <1>1, CombinationFacts, LastRoundFacts DEF IInv, Types
<1>4. buffer[p] \in 0..LastRound /\ requests[p] \in 0..LastRound
  BY <1>3, BaseFacts DEF GlobalInv
<1>5. \A k \in Worker : Standard(round[p], k) \in Data
  BY <1>3 DEF Standard, Data
<1>6. ASSUME NEW q \in Proc
      PROVE  RangeInv(q)'
  <2>1. \A u \in Thread : /\ bufferOf'[q][u] \in 0..LastRound
                          /\ requestsOf'[q][u] \in 0..LastRound
    BY <1>1, <1>4 DEF Ranges, RangeInv, IInv, Types
  <2>2. \A k \in Worker : send'[q][k] \in Data
    BY <1>1, <1>5 DEF Ranges, RangeInv, IInv, Types
  <2>3. QED
    BY <1>1, <1>2, <2>1, <2>2 DEF Ranges, RangeInv
<1>7. QED
  BY <1>1, <1>2, <1>6 DEF Ranges

(* The copy of a partition has the value of the original.                  *)
LEMMA CopyPartitionRanges ==
  ASSUME IInv, Ranges, NEW p \in Proc, NEW t \in Thread, CopyPartition(p, t)
  PROVE  Ranges'
<1>1. /\ send' = [send EXCEPT ![p][t] = recv[p][t]]
      /\ UNCHANGED <<recv, pointers, network>> /\ InRound
  BY GotoInRound DEF CopyPartition, library
<1>2. /\ \A q \in Proc : LoopInv(q)'
      /\ Worker' = Worker /\ Thread' = Thread /\ LastRound' = LastRound
      /\ Data' = Data /\ Message' = Message
  BY <1>1, InRoundKeeps
<1>3. \A q \in Proc : \A k \in Worker : send'[q][k] \in {send[q][k], recv[q][k]}
  BY <1>1 DEF IInv, Types
<1>4. \A q \in Proc : RangeInv(q)'
  BY <1>1, <1>2, <1>3 DEF Ranges, RangeInv, pointers
<1>5. QED
  BY <1>1, <1>2, <1>4 DEF Ranges

(* The steps of the threads.                                               *)
LEMMA ThreadRanges ==
  ASSUME IInv, Ranges, NEW p \in Proc, NEW t \in Thread, ThreadStep(p, t)
  PROVE  Ranges'
<1>1. CASE TakeBuffer(p, t)
  BY <1>1, TakeBufferRanges
<1>2. CASE Pready(p, t)
  BY <1>2, GotoInRound, RestRanges DEF Pready
<1>3. CASE WaitForPartition(p, t)
  BY <1>3, GotoInRound, RestRanges DEF WaitForPartition, library
<1>4. CASE Release(p, t)
  BY <1>4, GotoInRound, RestRanges DEF Release, library
<1>5. CASE AwaitRelease(p, t)
  BY <1>5, GotoInRound, RestRanges DEF AwaitRelease, library
<1>6. CASE CopyPartition(p, t)
  BY <1>6, CopyPartitionRanges
<1>7. QED
  BY <1>1, <1>2, <1>3, <1>4, <1>5, <1>6 DEF ThreadStep

(* The barriers let threads go on in the round they are in.                *)
LEMMA BarrierRanges ==
  ASSUME IInv, Ranges
  PROVE  /\ MeetProcesses => Ranges'
         /\ \A p \in Proc : BarrierWait(p, "gate") \/ BarrierWait(p, "exit") => Ranges'
<1>1. ASSUME MeetProcesses
      PROVE  Ranges'
  <2>1. InRound
    BY <1>1 DEF MeetProcesses, At, InRound
  <2>2. QED
    BY <1>1, <2>1, RestRanges DEF MeetProcesses, library
<1>2. ASSUME NEW p \in Proc, NEW place, BarrierWait(p, place)
      PROVE  Ranges'
  <2>1. ~Over(p)
    BY <1>2 DEF BarrierWait, At
  <2>2. \A q \in Proc : q # p => pc'[q] = pc[q]
    BY <1>2 DEF BarrierWait, IInv, Types
  <2>3. InRound
    BY <1>2, <2>1, <2>2 DEF BarrierWait, InRound
  <2>4. QED
    BY <1>2, <2>3, RestRanges DEF BarrierWait, library
<1>3. QED
  BY <1>1, <1>2

(* A partition goes to a process of the ring.                              *)
LEMMA TakePartitionRanges ==
  ASSUME IInv, Ranges, NEW p \in Proc, NEW k \in Worker, TakePartition(p, k)
  PROVE  Ranges'
<1>1. /\ network' = network \cup {[round |-> round[p], to |-> SendTo(p), partition |-> k,
                                   data |-> send[p][k]]}
      /\ UNCHANGED <<send, recv, pointers>> /\ InRound /\ started[p]
  BY DEF TakePartition, InRound
<1>2. /\ \A q \in Proc : LoopInv(q)'
      /\ Worker' = Worker /\ Thread' = Thread /\ LastRound' = LastRound
      /\ Data' = Data /\ Message' = Message
  BY <1>1, InRoundKeeps
<1>3. ~Over(p)
  <2>1. phase[p] = "run"
    BY <1>1, BaseFacts DEF SendInv, Running
  <2>2. QED
    BY <2>1 DEF Ranges, LoopInv
<1>4. round[p] \in 1..LastRound /\ SendTo(p) \in Proc
  BY <1>3, CombinationFacts, SendToFacts DEF IInv, Types
<1>5. send[p][k] \in Data
  BY DEF Ranges, RangeInv
<1>6. network' \subseteq Message
  BY <1>1, <1>4, <1>5 DEF Message, Ranges
<1>7. \A q \in Proc : RangeInv(q)'
  BY <1>1, <1>2 DEF Ranges, RangeInv, pointers
<1>8. QED
  BY <1>2, <1>6, <1>7 DEF Ranges

(* What arrives is what was under way.                                     *)
LEMMA DeliverRanges ==
  ASSUME IInv, Ranges, NEW m \in network, Deliver(m)
  PROVE  Ranges'
<1>1. /\ recv' = [recv EXCEPT ![m.to][m.partition] = m.data]
      /\ network' = network \ {m}
      /\ UNCHANGED <<send, pointers>> /\ InRound
  BY DEF Deliver, InRound
<1>2. /\ \A q \in Proc : LoopInv(q)'
      /\ Worker' = Worker /\ Thread' = Thread /\ LastRound' = LastRound
      /\ Data' = Data /\ Message' = Message
  BY <1>1, InRoundKeeps
<1>3. m.data \in Data
  BY DEF Ranges, Message
<1>4. \A q \in Proc : \A k \in Worker : recv'[q][k] \in {recv[q][k], m.data}
  BY <1>1 DEF IInv, Types
<1>5. \A q \in Proc : RangeInv(q)'
  BY <1>1, <1>2, <1>3, <1>4 DEF Ranges, RangeInv, pointers
<1>6. QED
  BY <1>1, <1>2, <1>5 DEF Ranges

(* The loop of main ends with the last round.                              *)
LEMMA NextFunctionRanges ==
  ASSUME IInv, Ranges, NEW p \in Proc, NextFunction(p)
  PROVE  Ranges'
<1> DEFINE next == CASE phase[p] = "init" -> "run" [] phase[p] = "run" -> "cleanup" [] OTHER -> "init"
<1>1. /\ ~Over(p)
      /\ phase' = [phase EXCEPT ![p] = next]
      /\ pc' = [pc EXCEPT ![p] = Begin(next)]
      /\ round' = [round EXCEPT ![p] = IF next = "init" THEN @ + 1 ELSE @]
      /\ UNCHANGED <<plan, send, recv, pointers, network>>
  BY DEF NextFunction, library
<1>2. /\ Worker' = Worker /\ Thread' = Thread /\ LastRound' = LastRound
      /\ Data' = Data /\ Message' = Message
  BY <1>1 DEF Worker, Thread, LastRound, Data, Message
<1>3. round[p] \in 1..LastRound /\ LastRound \in Nat
  BY <1>1, CombinationFacts, LastRoundFacts DEF IInv, Types
<1>4. LoopInv(p)'
  <2>1. phase'[p] = next /\ round'[p] = IF next = "init" THEN round[p] + 1 ELSE round[p]
    BY <1>1 DEF IInv, Types
  <2>2. next = "init" => pc'[p][Master] = "alloc"
    BY <1>1, BaseFacts DEF IInv, Types, Begin
  <2>3. round'[p] <= LastRound + 1
    BY <1>3, <2>1
  <2>4. Over(p)' => next = "init"
    BY <1>2, <1>3, <2>1 DEF Over
  <2>5. QED
    BY <1>2, <2>1, <2>2, <2>3, <2>4 DEF LoopInv
<1>5. ASSUME NEW q \in Proc, q # p
      PROVE  LoopInv(q)'
  <2>1. round'[q] = round[q] /\ phase'[q] = phase[q] /\ pc'[q] = pc[q]
    BY <1>1, <1>5 DEF IInv, Types
  <2>2. QED
    BY <1>2, <2>1 DEF Ranges, LoopInv, Over
<1>6. \A q \in Proc : RangeInv(q)'
  BY <1>1, <1>2 DEF Ranges, RangeInv, pointers
<1>7. QED
  BY <1>1, <1>2, <1>4, <1>5, <1>6 DEF Ranges

(* Every step keeps the ranges.                                            *)
LEMMA NextRanges ==
  ASSUME IInv, Ranges, [Next]_vars
  PROVE  Ranges'
<1>1. ASSUME UNCHANGED vars
      PROVE  Ranges'
  <2>1. InRound
    BY <1>1 DEF vars, InRound
  <2>2. QED
    BY <1>1, <2>1, RestRanges DEF vars, library
<1>2. QED
  BY <1>1, MasterRanges, ThreadRanges, BarrierRanges, TakePartitionRanges, DeliverRanges,
     NextFunctionRanges DEF Next, Ended

(* Multiples are in the order of what they are multiples of.               *)
LEMMA MultiplesInOrder ==
  ASSUME NEW a \in Nat, NEW b \in Nat, NEW c \in Nat, b <= c
  PROVE  a * b \in Nat /\ a * b <= a * c
<1>1. \A m, n \in Nat : m * n \in Nat
  OBVIOUS
<1>2. c - b \in Nat
  OBVIOUS
<1>3. a * (c - b) \in Nat /\ a * b \in Nat
  BY <1>1, <1>2
<1>4. a * c = a * b + a * (c - b)
  OBVIOUS
<1>5. QED
  BY <1>3, <1>4

(* The memory that main allocates is that of the current round or none,    *)
(* and it is no larger than the workers and their values need.             *)
LEMMA RangesType ==
  ASSUME IInv, Ranges
  PROVE  TypeOK
<1>1. plan \in Plans /\ Types /\ LastRound \in Nat /\ plan.workers \in Nat \ {0}
  BY LastRoundFacts, ThreadFacts DEF IInv, Types
<1>2. ASSUME NEW p \in Proc
      PROVE  /\ requests[p] \in 0..LastRound /\ buffer[p] \in 0..LastRound
             /\ size[p] \in 0..(2 * plan.workers * MaxValues)
             /\ barrier[p] \in 0..(plan.workers + 1)
  <2> DEFINE most == plan.workers * MaxValues
  <2>1. most \in Nat /\ 2 * plan.workers * MaxValues = 2 * most
    BY <1>1, PlanAssumption
  <2>2. CASE Over(p)
    <3>1. requests[p] = 0 /\ buffer[p] = 0 /\ size[p] = 0 /\ barrier[p] = 0
      BY <2>2, BaseFacts DEF Ranges, LoopInv, GlobalInv, SetUpAfter
    <3>2. QED
      BY <1>1, <2>1, <3>1
  <2>3. CASE ~Over(p)
    <3>1. round[p] \in 1..LastRound /\ Now(p).values \in 1..MaxValues
      BY <1>1, <2>3, CombinationFacts DEF Types
    <3>2. BufferSize(p) \in Nat /\ BufferSize(p) <= most
      <4>1. Now(p).values \in Nat /\ MaxValues \in Nat /\ Now(p).values <= MaxValues
        BY <3>1, PlanAssumption
      <4>2. plan.workers * Now(p).values \in Nat /\ plan.workers * Now(p).values <= most
        BY <1>1, <4>1, MultiplesInOrder
      <4>3. QED
        BY <4>2 DEF BufferSize
    <3> HIDE DEF most
    <3>3. size[p] \in {0, 2 * BufferSize(p)}
      BY BaseFacts DEF GlobalInv
    <3>4. requests[p] \in 0..LastRound /\ buffer[p] \in 0..LastRound
      BY <1>1, <3>1, BaseFacts DEF GlobalInv
    <3>5. barrier[p] \in {0, plan.workers + 1}
      BY BaseFacts DEF GlobalInv
    <3>6. size[p] \in 0..(2 * most)
      BY <2>1, <3>2, <3>3
    <3>7. barrier[p] \in 0..(plan.workers + 1)
      BY <1>1, <3>5
    <3>8. QED
      BY <2>1, <3>4, <3>6, <3>7
  <2>4. QED
    BY <2>2, <2>3
<1>3. ASSUME NEW p \in Proc
      PROVE  /\ round[p] \in 1..(LastRound + 1)
             /\ send[p] \in [Worker -> Data] /\ recv[p] \in [Worker -> Data]
             /\ bufferOf[p] \in [Thread -> 0..LastRound]
             /\ requestsOf[p] \in [Thread -> 0..LastRound]
  <2>1. round[p] \in 1..(LastRound + 1)
    BY <1>1 DEF Types, Ranges, LoopInv
  <2>2. send[p] \in [Worker -> Data] /\ recv[p] \in [Worker -> Data]
    BY <1>1 DEF Types, Ranges, RangeInv
  <2>3. bufferOf[p] \in [Thread -> 0..LastRound] /\ requestsOf[p] \in [Thread -> 0..LastRound]
    BY <1>1 DEF Types, Ranges, RangeInv
  <2>4. QED
    BY <2>1, <2>2, <2>3
<1>4. ASSUME NEW p \in Proc
      PROVE  /\ phase[p] \in {"init", "run", "cleanup"} /\ pc[p] \in [Thread -> Places]
             /\ signal[p] \in [Worker -> {"wait", "goon"}]
             /\ started[p] \in BOOLEAN
             /\ readied[p] \subseteq Worker /\ taken[p] \subseteq readied[p]
             /\ arrived[p] \subseteq Worker
  BY <1>1, BaseFacts DEF Types, SendInv
<1>5. network \subseteq Message /\ faults \subseteq {"dangling", "unstarted", "range", "foreign"}
  BY BaseFacts DEF Ranges
<1>6. QED
  BY <1>1, <1>2, <1>3, <1>4, <1>5 DEF TypeOK, Message

(* For any plan: addresses, partitions and values are of a round of the    *)
(* plan, what is under way goes to a process of the ring, and a partition  *)
(* leaves only when a worker has marked it ready.                          *)
THEOREM RingTypes == Spec => []TypeOK
<1>1. Init => Ranges
  BY InitRanges
<1>2. IInv /\ Ranges /\ [Next]_vars => Ranges'
  BY NextRanges
<1>3. IInv /\ Ranges => TypeOK
  BY RangesType
<1>4. QED
  BY <1>1, <1>2, <1>3, RingInvariance, PTL DEF Spec
=============================================================================
