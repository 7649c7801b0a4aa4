------------------------------ MODULE P2PTests ------------------------------
(***************************************************************************)
(* The point-to-point tests: the operations of MPI that the init, run and  *)
(* cleanup functions of each file of p2p/ (and of the threaded tests that  *)
(* are like them) perform.  A program is a sequence of operations of       *)
(* MpiMachine; x tells a thread who and where it is:                       *)
(*                                                                         *)
(*   x.rank, x.size       its rank and the size of its group               *)
(*   x.peers              the processes its calls name by their ranks      *)
(*   x.class, x.comm      the classes of the communicator, and itself      *)
(*   x.ctx, x.group       its context for this thread, the actors in it    *)
(*   x.masterctx          the context of the master thread                 *)
(*   x.thread, x.threads  tst_thread_get_num() and the number of workers   *)
(*   x.tag, x.hash        env->tag and tst_hash_value (env)                *)
(*   x.run                the combination of the test loop                 *)
(*                                                                         *)
(* The check of a status or of the data that ends a test is part of the    *)
(* receive (see MpiMachine).  The definitions named after a fault are what *)
(* the definition that follows must not be: the runs notice the exchange.  *)
(***************************************************************************)
EXTENDS Communicators

Wildcard == -2        \* MPI_ANY_SOURCE, MPI_ANY_TAG
ProcNull == -1        \* MPI_PROC_NULL
Master == -1          \* TST_THREAD_MASTER

-----------------------------------------------------------------------------
(* Calls of MPI.  What is sent to or received from MPI_PROC_NULL does not  *)
(* happen.                                                                 *)

Isend(x, mode, to, tag) ==
  IF to = ProcNull THEN << >>
  ELSE << [op |-> "isend", mode |-> mode, to |-> x.peers[to + 1],
           ctx |-> x.ctx, tag |-> tag, run |-> x.run] >>

Irecv(x, from, tag) ==
  IF from = ProcNull THEN << >>
  ELSE << [op |-> "irecv", src |-> IF from = Wildcard THEN from ELSE x.peers[from + 1],
           ctx |-> x.ctx, tag |-> tag, run |-> x.run] >>

Waitall(x) == << [op |-> "wait", ctx |-> x.ctx, kinds |-> {"isend", "irecv"}] >>
WaitSend(x) == << [op |-> "wait", ctx |-> x.ctx, kinds |-> {"isend"}] >>

Send(x, mode, to, tag) == Isend(x, mode, to, tag) \o Waitall(x)
Recv(x, from, tag) == Irecv(x, from, tag) \o Waitall(x)
Sendrecv(x, to, from, tag) == Isend(x, "standard", to, tag) \o Recv(x, from, tag)
Barrier(x) == << [op |-> "barrier", name |-> x.ctx, group |-> x.group] >>

Iprobe(x) == << [op |-> "iprobe", ctx |-> x.ctx] >>
Probe(x, times) == << [op |-> "probe", ctx |-> x.ctx, times |-> times] >>
RecvProbed(x, step) == << [op |-> "recvprobed", ctx |-> x.ctx, run |-> x.run, step |-> step] >>

(* A loop of probes and receives, until so many messages were received.    *)
ReceiveProbed(x, times) == Probe(x, times) \o RecvProbed(x, -1)

(* A sequence of calls for each rank of the group of the peers.            *)
EachPeer(x, Calls(_)) == FlattenSeq([i \in 1..Len(x.peers) |-> Calls(i - 1)])

(* MPI_Buffer_attach and _detach, which the master alone calls.            *)
Attach(x, messages) ==
  IF x.thread = Master THEN << [op |-> "attach", messages |-> messages] >> ELSE << >>
Detach(x) == IF x.thread = Master THEN << [op |-> "detach"] >> ELSE << >>

(* What a test does in its three functions.                                *)
Test(init, run, cleanup) == [init |-> init, run |-> run, cleanup |-> cleanup]
Only(run) == Test(<< >>, run, << >>)

-----------------------------------------------------------------------------
(* Rings.                                                                  *)

Alone(x) == "self" \in x.class

SendTo(x) == IF Alone(x) THEN ProcNull ELSE (x.rank + 1) % x.size
RecvFrom(x) == IF Alone(x) THEN ProcNull ELSE (x.rank + x.size - 1) % x.size

(* Most of the blocking ones do nothing in a communicator of one process.  *)
BlockingTo(x) == IF x.size = 1 THEN ProcNull ELSE SendTo(x)
BlockingFrom(x) == IF x.size = 1 THEN ProcNull ELSE RecvFrom(x)

(* Rank 0 sends first, all others receive first.                           *)
Ring(x, mode) ==
  IF x.rank = 0
  THEN Send(x, mode, BlockingTo(x), x.tag) \o Recv(x, BlockingFrom(x), x.tag)
  ELSE Recv(x, BlockingFrom(x), x.tag) \o Send(x, mode, BlockingTo(x), x.tag)

SimpleRing(x) == Only(Ring(x, "standard"))
SimpleRingBottom(x) == Only(Ring(x, "standard"))
SimpleRingPack(x) == Only(Ring(x, "standard"))
SimpleRingXsend(x) == Only(Ring(x, "standard"))
SimpleRingSsend(x) == Only(Ring(x, "sync"))

(* One message of every thread fits into the buffer.                       *)
SimpleRingBsendSmall(x) ==
  Test(Attach(x, x.threads), Ring(x, "buffered"), Detach(x))
SimpleRingBsendAttached(x) ==
  Test(Attach(x, 1 + x.threads), Ring(x, "buffered"), << >>)
SimpleRingBsend(x) ==
  Test(Attach(x, 1 + x.threads), Ring(x, "buffered"), Detach(x))

SimpleRingIbsend(x) ==
  Test(Attach(x, 1 + x.threads),
       Irecv(x, RecvFrom(x), x.tag) \o Isend(x, "buffered", SendTo(x), x.tag) \o Waitall(x),
       Detach(x))

SimpleRingIsend(x) ==
  Only(Isend(x, "standard", SendTo(x), x.tag) \o Irecv(x, RecvFrom(x), x.tag) \o Waitall(x))

SimpleRingIssend(x) ==
  Only(Irecv(x, RecvFrom(x), x.tag) \o Isend(x, "sync", SendTo(x), x.tag) \o Waitall(x))

(* The barrier makes sure that the receives are posted.                    *)
SimpleRingIrsend(x) ==
  Only(Irecv(x, RecvFrom(x), x.tag) \o Barrier(x)
       \o Isend(x, "ready", SendTo(x), x.tag) \o Waitall(x))

SimpleRingRsend(x) ==
  Only(Irecv(x, RecvFrom(x), x.tag) \o Barrier(x)
       \o Isend(x, "ready", SendTo(x), x.tag) \o Waitall(x))

SimpleRingSendrecv(x) ==
  Only(Sendrecv(x, BlockingTo(x), BlockingFrom(x), x.tag))

(* MPI_Startall of the two requests that init has created.                 *)
SimpleRingPersistent(x) ==
  Only(Isend(x, "standard", SendTo(x), x.tag) \o Irecv(x, RecvFrom(x), x.tag) \o Waitall(x))

(* In every dimension of a cartesian communicator.                         *)
SimpleRingShift(x) ==
  Only(FlattenSeq([i \in 1..Len(Dims(x.comm)) |->
         Sendrecv(x, Shifted(x.comm, x.rank, i, 1), Shifted(x.comm, x.rank, i, -1), x.tag)]))

(* With the process of the same rank in the other group, if there is one.  *)
DirectPartnerIntercomm(x) ==
  LET partner == IF x.rank < Len(x.peers) THEN x.rank ELSE ProcNull
  IN  Only(Sendrecv(x, partner, partner, x.tag))

-----------------------------------------------------------------------------
(* Many to one.                                                            *)

SendToRoot(x) == Send(x, "standard", 0, x.hash)

ManyToOne(x) ==
  Only(IF x.rank = 0
       THEN FlattenSeq([i \in 1..(Len(x.peers) - 1) |-> Recv(x, Wildcard, x.hash)])
       ELSE SendToRoot(x))

ManyToOneProbeAnysource(x) ==
  Only(IF x.rank = 0 THEN ReceiveProbed(x, Len(x.peers) - 1) ELSE SendToRoot(x))

(* The loop around MPI_Iprobe ends with the first message.                 *)
ManyToOneIprobeAnysource(x) ==
  Only(IF x.rank = 0 THEN ReceiveProbed(x, Len(x.peers) - 1) ELSE SendToRoot(x))

(* MPI_Gather: a message to the root in a context of its own.              *)
Gather(x) ==
  LET y == [x EXCEPT !.ctx = <<"coll", x.ctx>>]
  IN  Isend(y, "standard", 0, 0)
      \o (IF x.rank = 0 THEN EachPeer(y, LAMBDA rank : Irecv(y, rank, 0)) ELSE << >>)
      \o Waitall(y)

(* The receives whose sends were cancelled are cancelled, too.             *)
ManyToOneIsendCancel(x) ==
  Only((IF x.rank = 0 THEN EachPeer(x, LAMBDA rank : Irecv(x, rank, x.hash)) ELSE << >>)
       \o Isend(x, "standard", 0, x.hash) \o << [op |-> "cancelsend"] >> \o WaitSend(x)
       \o Gather(x)
       \o (IF x.rank = 0 THEN << [op |-> "cancelrecvs"] >> ELSE << >>) \o Waitall(x))

-----------------------------------------------------------------------------
(* All to all.                                                             *)

AlltoallBlocking(x, mode) ==
  EachPeer(x, LAMBDA rank : Send(x, mode, rank, x.tag)
                            \o Recv(x, Len(x.peers) - rank - 1, x.tag))

(* Isend to the rank and Irecv from size - rank - 1, rank after rank.      *)
AlltoallOf(x, mode) ==
  EachPeer(x, LAMBDA rank : Isend(x, mode, rank, x.tag)
                            \o Irecv(x, Len(x.peers) - rank - 1, x.tag)) \o Waitall(x)

Alltoall(x) == Only(AlltoallOf(x, "standard"))
AlltoallXisend(x) == Only(AlltoallOf(x, "standard"))
AlltoallIssend(x) == Only(AlltoallOf(x, "sync"))

AlltoallIrsend(x) ==
  Only(EachPeer(x, LAMBDA rank : Irecv(x, Len(x.peers) - rank - 1, x.tag))
       \o Barrier(x)
       \o EachPeer(x, LAMBDA rank : Isend(x, "ready", rank, x.tag)) \o Waitall(x))

(* MPI_Startall of one send and one receive for every other process.       *)
AlltoallPersistent(x) ==
  Only(EachPeer(x, LAMBDA rank : IF rank # x.rank THEN Irecv(x, rank, x.tag)
                                 ELSE EachPeer(x, LAMBDA i : IF i = x.rank THEN << >>
                                                             ELSE Isend(x, "standard", i, x.tag)))
       \o Waitall(x))

(* In a blocking exchange with one neighbour after the other.              *)
AlltoallGraph(x) ==
  LET neighbours == Neighbours(x.rank)
  IN  Only(FlattenSeq([i \in DOMAIN neighbours |->
             Sendrecv(x, neighbours[i], neighbours[i], x.tag)]))

(* The own rank is the tag; whatever a probe finds is received.            *)
AlltoallProbeAnysource(x) ==
  LET n == Len(x.peers)
  IN  Test(Attach(x, (1 + x.threads) * (n - 1)),
           FlattenSeq([i \in 1..(n - 1) |-> Isend(x, "buffered", (x.rank + i) % n, x.rank)
                                            \o Iprobe(x) \o RecvProbed(x, 1)])
           \o Waitall(x) \o ReceiveProbed(x, n - 1),
           Detach(x))

-----------------------------------------------------------------------------
(* Threads of different processes as one ring: the tag names the thread    *)
(* that receives.  This test uses the communicator of the master.          *)

ThreadedRing(x) ==
  LET n == 1 + x.threads
      t == ((x.thread + n) % n)
      to == x.tag + ((t + 1) % n)
      from == x.tag + t
      y == [x EXCEPT !.ctx = x.masterctx]
  IN  Only(IF t = 0
           THEN Send(y, "standard", BlockingTo(x), to) \o Recv(y, BlockingFrom(x), from)
           ELSE Recv(y, BlockingFrom(x), from) \o Send(y, "standard", BlockingTo(x), to))
=============================================================================
