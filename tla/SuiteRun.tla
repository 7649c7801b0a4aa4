------------------------------ MODULE SuiteRun ------------------------------
(***************************************************************************)
(* The loop of main: every selected test on every selected communicator,   *)
(* with every datatype and number of values.  It makes the functions of    *)
(* the tests (P2PTests) the program of each thread of each process; the    *)
(* threads of a process go through the functions in lock step, which is    *)
(* what ThreadDispatch is shown to do, and processes meet between two      *)
(* tests only if the table of tests says TST_SYNC.                         *)
(***************************************************************************)
EXTENDS DynamicTests

CONSTANTS MaxThreads,   \* bound on the number of worker threads
          TagUb,        \* the upper bound on tags (MPI_TAG_UB)
          Selections    \* the lists of tests, communicators, types and values,
                        \* and the number of worker threads; 0 without threads

ASSUME SuiteAssumption ==
  /\ MaxThreads \in Nat /\ TagUb \in Nat \ {0}
  /\ \A sel \in Selections : /\ ToSet(sel.comms) \subseteq Comm
                             /\ ToSet(sel.types \o sel.values) \subseteq Nat
                             /\ sel.threads \in 0..MaxThreads

ThreadsOf(n) == {Master} \cup 0..(n - 1)
Thread == ThreadsOf(MaxThreads)

(* The table of tests in tst_tests.c from the first point-to-point test on *)
(* (its number there is FirstP2P): the classes of communicators, and       *)
(* whether processes synchronise.                                          *)
FirstP2P == 4
Entry(name, comms, sync) == [name |-> name, comms |-> comms, sync |-> sync]
Table == <<
  Entry("Ring", {"self", "intra"}, TRUE),
  Entry("Ring Send Bottom", {"self", "intra"}, TRUE),
  Entry("Ring Send Pack", {"self", "intra"}, TRUE),
  Entry("Ring Isend", {"self", "intra"}, TRUE),
  Entry("Ring Ibsend", {"self", "intra"}, TRUE),
  Entry("Ring Irsend", {"self", "intra"}, TRUE),
  Entry("Ring Issend", {"self", "intra"}, TRUE),
  Entry("Ring Bsend", {"self", "intra"}, FALSE),
  Entry("Ring Rsend", {"self", "intra"}, TRUE),
  Entry("Ring Ssend", {"self", "intra"}, FALSE),
  Entry("Ring Sendrecv", {"self", "intra"}, FALSE),
  Entry("Ring same value", {"self", "intra"}, TRUE),
  Entry("Ring Persistent", {"self", "intra"}, TRUE),
  Entry("Direct Partner Intercomm", {"inter"}, TRUE),
  Entry("Many-to-one", {"intra", "inter"}, FALSE),
  Entry("Many-to-one Probe", {"intra", "inter"}, TRUE),
  Entry("Many-to-one Iprobe", {"intra", "inter"}, TRUE),
  Entry("Many-to-one Cancellation", {"intra"}, TRUE),
  Entry("Alltoall", {"intra", "inter"}, FALSE),
  Entry("Alltoall Persistent", {"intra"}, FALSE),
  Entry("Alltoall xIsend", {"intra", "inter"}, FALSE),
  Entry("Alltoall Irsend", {"intra"}, FALSE),
  Entry("Alltoall Issend", {"intra", "inter"}, FALSE),
  Entry("Alltoall Probe", {"intra"}, TRUE),
  Entry("Ring cart", {"cart"}, TRUE),
  Entry("Alltoall topo", {"topo"}, TRUE),
  Entry("establish_communication_alltoall", {"intra"}, TRUE),
  Entry("Threaded ring", {"self", "intra"}, FALSE) >>

NumberOf(test) == CHOOSE i \in DOMAIN Table : Table[i].name = test
Needs(test) == Table[NumberOf(test)]

(* The functions of a test, by its name in the table.                      *)
Functions(test, x) ==
  CASE test = "Ring" -> SimpleRing(x)
    [] test = "Ring Send Bottom" -> SimpleRingBottom(x)
    [] test = "Ring Send Pack" -> SimpleRingPack(x)
    [] test = "Ring Isend" -> SimpleRingIsend(x)
    [] test = "Ring Ibsend" -> SimpleRingIbsend(x)
    [] test = "Ring Irsend" -> SimpleRingIrsend(x)
    [] test = "Ring Issend" -> SimpleRingIssend(x)
    [] test = "Ring Bsend" -> SimpleRingBsend(x)
    [] test = "Ring Rsend" -> SimpleRingRsend(x)
    [] test = "Ring Ssend" -> SimpleRingSsend(x)
    [] test = "Ring Sendrecv" -> SimpleRingSendrecv(x)
    [] test = "Ring same value" -> SimpleRingXsend(x)
    [] test = "Ring Persistent" -> SimpleRingPersistent(x)
    [] test = "Direct Partner Intercomm" -> DirectPartnerIntercomm(x)
    [] test = "Many-to-one" -> ManyToOne(x)
    [] test = "Many-to-one Probe" -> ManyToOneProbeAnysource(x)
    [] test = "Many-to-one Iprobe" -> ManyToOneIprobeAnysource(x)
    [] test = "Many-to-one Cancellation" -> ManyToOneIsendCancel(x)
    [] test = "Alltoall" -> Alltoall(x)
    [] test = "Alltoall Persistent" -> AlltoallPersistent(x)
    [] test = "Alltoall xIsend" -> AlltoallXisend(x)
    [] test = "Alltoall Irsend" -> AlltoallIrsend(x)
    [] test = "Alltoall Issend" -> AlltoallIssend(x)
    [] test = "Alltoall Probe" -> AlltoallProbeAnysource(x)
    [] test = "Ring cart" -> SimpleRingShift(x)
    [] test = "Alltoall topo" -> AlltoallGraph(x)
    [] test = "establish_communication_alltoall" -> EstablishCommunication(x)
    [] test = "Threaded ring" -> ThreadedRing(x)

-----------------------------------------------------------------------------

(* tst_test_check_run.  The conditions on the mode, the minimal number of  *)
(* processes and the types are true of every test in the table (relaxed,   *)
(* 1, all C types) for the processes and types of the model.               *)
CheckRun(test, c) == Registered(c) /\ Class[c] \cap Needs(test).comms # {}

(* MPI_Barrier (MPI_COMM_WORLD), if the test needs it.                     *)
CheckSyncNever(t, test) == << >>
CheckSync(t, test) ==
  IF Needs(test).sync /\ t = Master
  THEN << [op |-> "barrier", name |-> <<"world", Master>>, group |-> Proc \X {Master}] >> ELSE << >>

(* The second barrier is in the else branch of "if (num_threads > 0)" when  *)
(* the suite is built with threads (it then runs with one at least).       *)
SyncAfter(t, test, threads) == IF threads > 0 THEN << >> ELSE CheckSync(t, test)

(* The threads of a process between two functions.                         *)
InStep(p, threads) ==
  IF threads = 0 THEN << >>
  ELSE << [op |-> "barrier", name |-> <<"threads", p>>, group |-> {p} \X ThreadsOf(threads)] >>

HashValue(c, type, test) ==
  (CommNumber(c) * 65521 + type * 32749 + FirstP2P + NumberOf(test) - 1) % TagUb

(* One iteration, with the indices of the loop and what they select.       *)
Iteration(p, t, i, j, k, l, sel) ==
  LET test == sel.tests[i + 1]
      c == sel.comms[j + 1]
      x == [rank |-> RankIn(c, p), size |-> Len(LocalGroup(c, p)),
            peers |-> RemoteGroup(c, p), class |-> Class[c], comm |-> c,
            ctx |-> <<c, t>>, masterctx |-> <<c, Master>>,
            group |-> ToSet(LocalGroup(c, p)) \X {t},
            thread |-> t, threads |-> sel.threads,
            tag |-> (i + j + k + l) % TagUb, hash |-> HashValue(c, sel.types[k + 1], test),
            run |-> <<i, j, k, l>>]
      f == Functions(test, x)
      Met == InStep(p, sel.threads)
  IN  IF ~CheckRun(test, c) THEN << >>
      ELSE CheckSync(t, test)
           \o Met \o f.init \o Met \o f.run \o Met \o f.cleanup \o Met
           \o SyncAfter(t, test, sel.threads)

(* The four nested loops.                                                  *)
Loops(p, t, sel) ==
  LET I == Len(sel.tests)  J == Len(sel.comms)  K == Len(sel.types)  L == Len(sel.values)
  IN  FlattenSeq([n \in 1..(I * J * K * L) |->
        LET m == n - 1
        IN  Iteration(p, t, m \div (J * K * L), (m \div (K * L)) % J, (m \div L) % K, m % L, sel)])

ProgramOf(sel) ==
  [a \in Proc \X Thread |->
     IF a[2] \in ThreadsOf(sel.threads) THEN Loops(a[1], a[2], sel) ELSE << >>]

Programs == {ProgramOf(sel) : sel \in Selections}

-----------------------------------------------------------------------------
(* The processes execute their programs.                                   *)

VARIABLES program, names, ip, channel, posted, pending, probed, count, room, cancelled, faults

Machine == INSTANCE MpiMachine

Spec == Machine!Spec
FairSpec == Machine!FairSpec

(* The types of the variables of MpiMachine, among them that every posted  *)
(* receive has a request.                                                  *)
TypeOK == Machine!TypeOK

-----------------------------------------------------------------------------

(* A library that conforms to MPI is not blamed: no receive takes data of  *)
(* another run (the check of the data would record a failure), no ready    *)
(* send comes before its receive, no attached buffer is too small.         *)
NoFalseFailure == faults = {}

(* All processes get through all tests: no order of calls deadlocks, with  *)
(* or without buffering in the library.                                    *)
Completes == <>Machine!Finished

(* "Every test should clean up after itself": when all is over, no         *)
(* messages, receives, attached buffers or published names are left.       *)
NothingLeft ==
  Machine!Finished => /\ names = {}
                      /\ \A p, q \in Proc : channel[p][q] = << >>
                      /\ \A p \in Proc : posted[p] = << >> /\ room[p] = 0
                      /\ \A p \in Proc, t \in Thread : pending[<<p, t>>] = {}

-----------------------------------------------------------------------------
(* What makes a program correct whatever the library does: it does not     *)
(* probe, cancel or receive from any source, and its messages are paired.  *)

Actor == Machine!Actor
SendsOf(pr, a) == {i \in DOMAIN pr[a] : pr[a][i].op = "isend"}
RecvsOf(pr, a) == {i \in DOMAIN pr[a] : pr[a][i].op = "irecv"}

Direct(pr) ==
  \A a \in Actor :
    /\ pr[a] \in Seq(ToSet(pr[a]))
    /\ \A i \in DOMAIN pr[a] :
         /\ pr[a][i].op \in {"isend", "irecv", "wait", "barrier", "attach", "detach",
                             "publish", "unpublish", "lookup"}
         /\ pr[a][i].op = "isend" => pr[a][i].to \in Proc
         /\ pr[a][i].op = "irecv" => pr[a][i].src \in Proc /\ pr[a][i].tag # Wildcard
         /\ pr[a][i].op = "attach" => pr[a][i].messages \in Nat

(* It has no other operations than these, and no buffered or ready sends.  *)
Exchanges(pr) ==
  \A a \in Actor : \A i \in DOMAIN pr[a] : pr[a][i].op \in {"isend", "irecv", "wait", "barrier"}
Plain(pr) ==
  Exchanges(pr) /\ \A a \in Actor : \A i \in SendsOf(pr, a) : pr[a][i].mode \in {"standard", "sync"}

(* The context and the tag of two operations are those of one matching.    *)
SameEnvelope(o, u) == o.ctx = u.ctx /\ o.tag = u.tag

(* The earlier sends that the same receives could match, and the earlier   *)
(* receives that could match the same messages.                            *)
EarlierSends(pr, a, i) ==
  {h \in SendsOf(pr, a) : h < i /\ pr[a][h].to = pr[a][i].to /\ SameEnvelope(pr[a][h], pr[a][i])}
EarlierRecvs(pr, b, j) ==
  {h \in RecvsOf(pr, b) : h < j /\ pr[b][h].src = pr[b][j].src /\ SameEnvelope(pr[b][h], pr[b][j])}

(* The n-th send of an actor to a process with a context and a tag, and    *)
(* the n-th receive there for it, are of the same run.                     *)
Counterpart(pr, a, i, b, j) ==
  /\ pr[a][i].to = b[1] /\ pr[b][j].src = a[1]
  /\ SameEnvelope(pr[a][i], pr[b][j])
  /\ Cardinality(EarlierSends(pr, a, i)) = Cardinality(EarlierRecvs(pr, b, j))
  /\ pr[a][i].run = pr[b][j].run

(* Every send and every receive has a counterpart, and the threads of a    *)
(* process do not compete for messages.                                    *)
Paired(pr) ==
  /\ \A a \in Actor : \A i \in SendsOf(pr, a) :
       \E b \in Actor : \E j \in RecvsOf(pr, b) : Counterpart(pr, a, i, b, j)
  /\ \A b \in Actor : \A j \in RecvsOf(pr, b) :
       \E a \in Actor : \E i \in SendsOf(pr, a) : Counterpart(pr, a, i, b, j)
  /\ \A a, b \in Actor : \A i \in SendsOf(pr, a), j \in SendsOf(pr, b) :
       a[1] = b[1] /\ pr[a][i].to = pr[b][j].to /\ SameEnvelope(pr[a][i], pr[b][j]) => a = b
  /\ \A a, b \in Actor : \A i \in RecvsOf(pr, a), j \in RecvsOf(pr, b) :
       a[1] = b[1] /\ pr[a][i].src = pr[b][j].src /\ SameEnvelope(pr[a][i], pr[b][j]) => a = b

(* An actor waits for every request it makes.                              *)
Waited(pr) ==
  \A a \in Actor : \A i \in SendsOf(pr, a) \cup RecvsOf(pr, a) :
    \E w \in DOMAIN pr[a] :
      w > i /\ pr[a][w].op = "wait" /\ pr[a][i].op \in pr[a][w].kinds /\ pr[a][w].ctx = pr[a][i].ctx
=============================================================================
