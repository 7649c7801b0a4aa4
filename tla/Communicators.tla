---------------------------- MODULE Communicators ----------------------------
(***************************************************************************)
(* The communicators that tst_comm.c registers, as every process of        *)
(* MPI_COMM_WORLD sees them: the sequence of the processes in its group,   *)
(* by rank, and the group that ranks in its calls refer to, which for the  *)
(* inter-communicator is the other one.  A process is its rank in          *)
(* MPI_COMM_WORLD.  All processes are on one node: the communicator of the *)
(* processes that share memory has all of them in it.                      *)
(***************************************************************************)
EXTENDS Integers, SequencesExt

CONSTANT WorldSize      \* the number of processes the suite is started with

ASSUME WorldSizeAssumption == WorldSize \in Nat \ {0}

Proc == 0..(WorldSize - 1)
World == [i \in 1..WorldSize |-> i - 1]

(* TST_MPI_COMM_SELF and the other bits; MPI_COMM_NULL is no communicator  *)
(* that a test of this model runs on.                                      *)
Class == [world |-> {"intra"}, self |-> {"self"}, dup |-> {"intra"},
          reversed |-> {"intra"}, halved |-> {"intra"}, cart2 |-> {"cart"},
          cart3 |-> {"cart"}, oddeven |-> {"intra"}, graph |-> {"topo"},
          inter |-> {"inter"}, merged |-> {"intra"}, shared |-> {"shared", "intra"}]

Comm == DOMAIN Class

(* Four of them exist only if there is more than one process.              *)
Registered(c) == c \in {"cart2", "cart3", "inter", "merged"} => WorldSize > 1

(* The number of a communicator is its position in the order in which      *)
(* tst_comms_register calls the functions that create them.                *)
Registration ==
  SelectSeq(<<"world", "null", "self", "dup", "reversed", "halved", "cart2", "cart3",
              "oddeven", "graph", "inter", "merged", "shared">>, Registered)
CommNumber(c) == SelectInSeq(Registration, LAMBDA d : d = c) - 1

(* The colour of a process in MPI_Comm_split, and the group of a colour:   *)
(* the key is world_rank, so that the rank of a process is the number of   *)
(* those below it.                                                         *)
HalfOf == [p \in Proc |-> IF p >= WorldSize \div 2 THEN 1 ELSE 0]
ParityOf == [p \in Proc |-> p % 2]
Below(group, q) == {r \in group : r < q}
InOrder(group) ==
  [i \in 1..Cardinality(group) |-> CHOOSE q \in group : Cardinality(Below(group, q)) = i - 1]
SplitBy(colourOf, colour) == InOrder({q \in Proc : colourOf[q] = colour})

LocalGroup(c, p) ==
  CASE c = "self" -> <<p>>
    [] c = "reversed" -> Reverse(World)
    [] c \in {"halved", "inter"} -> SplitBy(HalfOf, HalfOf[p])
    [] c = "oddeven" -> SplitBy(ParityOf, ParityOf[p])
    [] c = "merged" -> SplitBy(HalfOf, 0) \o SplitBy(HalfOf, 1)
    [] OTHER -> World

RemoteGroup(c, p) ==
  IF c = "inter" THEN SplitBy(HalfOf, 1 - HalfOf[p]) ELSE LocalGroup(c, p)

(* MPI_Comm_rank.                                                          *)
RankIn(c, p) == (CHOOSE i \in DOMAIN LocalGroup(c, p) : LocalGroup(c, p)[i] = p) - 1

-----------------------------------------------------------------------------
(* Cartesian topologies.                                                   *)

(* MPI_Dims_create: factors in non-increasing order, as close as possible. *)
Dims(c) ==
  LET Factors == IF c = "cart2"
                 THEN {d \in [1..2 -> 1..WorldSize] : d[1] >= d[2] /\ d[1] * d[2] = WorldSize}
                 ELSE {d \in [1..3 -> 1..WorldSize] : d[1] >= d[2] /\ d[2] >= d[3]
                                                    /\ d[1] * d[2] * d[3] = WorldSize}
  IN  CHOOSE d \in Factors : \A e \in Factors : d[1] - d[Len(d)] <= e[1] - e[Len(e)]

Periodic(c) == c = "cart2"

(* The number of ranks between neighbours in dimension i, row major.       *)
Stride(c, i) == IF i = Len(Dims(c)) THEN 1
                ELSE IF i = Len(Dims(c)) - 1 THEN Dims(c)[i + 1]
                ELSE Dims(c)[i + 1] * Dims(c)[i + 2]

(* MPI_Cart_shift: the rank at distance disp in dimension i, -1            *)
(* (MPI_PROC_NULL) behind the border.                                      *)
Shifted(c, rank, i, disp) ==
  LET d == Dims(c)[i]
      x == (rank \div Stride(c, i)) % d
  IN  IF Periodic(c) THEN rank + (((x + disp) % d) - x) * Stride(c, i)
      ELSE IF x + disp \in 0..(d - 1) THEN rank + disp * Stride(c, i)
      ELSE -1

(* MPI_Graph_neighbors of a process of the fully connected topology.       *)
Neighbours(rank) == SelectSeq(World, LAMBDA q : q # rank)
=============================================================================
