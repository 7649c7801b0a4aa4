------------------------------ MODULE CollTests ------------------------------
(***************************************************************************)
(* The collective tests of coll/: what the init, run and cleanup functions *)
(* of each file do (see StoreCalls).  Which process has to wait for which  *)
(* one follows from the data alone: a process leaves a collective call as  *)
(* soon as it has what it receives.                                        *)
(***************************************************************************)
EXTENDS StoreCalls

Test(init, run, cleanup) == [init |-> init, run |-> run, cleanup |-> cleanup]

OneEach == {SendBuffer, RecvBuffer}
AllocOneEach(x) == Alloc(Send(Fresh(x)) @@ Recv(Fresh(x)))
BlocksOf(x) == {RecvBlock(r) : r \in Ranks(x)}

(* The root is always rank 0: HAVE_MPI_EXTENDED_COLLECTIVES is not defined *)
(* anywhere.  What the broadcast brings has been there before.             *)
Bcast(x) ==
  Test(Alloc(Send(Fresh(x))),
       EachRank(x, LAMBDA i :
         Alloc(Send(Standard(x, i)))
         \o (IF x.rank = 0 THEN Give(x, i, Same(Others(x), SendBuffer))
                           ELSE Take(x, i, Same({0}, SendBuffer)))
         \o Check(Send(Standard(x, i)))),
       Free({SendBuffer}))

Gather(x) ==
  Test(Alloc(Send(Fresh(x)) @@ RecvBlocks(x, Fresh(x))),
       Alloc(Send(Standard(x, x.rank)))
       \o EachRank(x, LAMBDA i :
            Give(x, i, Same({i}, SendBuffer))
            \o If(x.rank = i,
                  Take(x, i, [j \in Ranks(x) |-> RecvBlock(j)]) \o Check(OfEach(x)))),
       Free({SendBuffer} \cup BlocksOf(x)))

(* The result of the comparison is not used.                               *)
Allgather(x) ==
  Test(Alloc(Send(Fresh(x)) @@ RecvBlocks(x, Fresh(x))),
       Alloc(Send(Standard(x, x.rank)))
       \o Give(x, 0, Same(Ranks(x), SendBuffer))
       \o Take(x, 0, [j \in Ranks(x) |-> RecvBlock(j)])
       \o CheckUnrecorded(OfEach(x)),
       Free({SendBuffer} \cup BlocksOf(x)))

AllgatherInPlace(x) ==
  Test(Alloc((RecvBlock(x.rank) :> Standard(x, x.rank)) @@ RecvBlocks(x, Fresh(x))),
       Give(x, 0, Same(Others(x), RecvBlock(x.rank)))
       \o Take(x, 0, [j \in Others(x) |-> RecvBlock(j)])
       \o CheckUnrecorded(OfEach(x)),
       Free(BlocksOf(x)))

Scatter(x) ==
  Test(Alloc([s \in {SendBlock(r) : r \in Ranks(x)} |-> Fresh(x)] @@ Recv(Fresh(x))),
       Alloc([s \in {SendBlock(r) : r \in Ranks(x)} |-> Standard(x, x.rank)])
       \o EachRank(x, LAMBDA i :
            If(x.rank = i, Give(x, i, [j \in Ranks(x) |-> SendBlock(j)]))
            \o Take(x, i, Same({i}, RecvBuffer))
            \o Check(Recv(Standard(x, i)))),
       Free({SendBlock(r) : r \in Ranks(x)} \cup {RecvBuffer}))

(* Rank j receives j elements, the standard array of j; env->values_num is *)
(* comm_rank from init on.  The elements are those from index 0.           *)
ArrayOf(x, rank) == StandardArray(x.type, [k \in 1..rank |-> k - 1], rank)
Scatterv(x) ==
  LET Blocks(array(_)) == [s \in {SendBlock(r) : r \in Ranks(x)} |-> array(s[2] - 1)]
      Unknown(rank) == AllocValues([k \in 1..rank |-> k - 1])
      Known(rank) == ArrayOf(x, rank)
  IN  Test(Alloc(Blocks(Unknown) @@ Recv(Unknown(x.rank)) @@ (Pointers("counts") :> << >>)),
           EachRank(x, LAMBDA i :
             If(x.rank = i,
                Alloc(Blocks(Known)) \o Give(x, i, [j \in Ranks(x) |-> SendBlock(j)]))
             \o Take(x, i, Same({i}, RecvBuffer))
             \o Check(Recv(ArrayOf(x, x.rank)))),
           Free({SendBlock(r) : r \in Ranks(x)} \cup {RecvBuffer, Pointers("counts")}))

(* The test with a stride has the arrays further apart, and nothing else.  *)
ScattervStride(x) == Scatterv(x)

(* Element j of the block for rank k.  The comparison looks at the minimum *)
(* and the maximum in the receive buffer, and at all others in the send    *)
(* buffer, where it finds what has been put there.  Its cmp_value is never *)
(* freed.                                                                  *)
ArrayForOf(x, k, rank) ==
  [i \in DOMAIN x.at |->
     IF x.at[i] < 2 THEN StandardElement(x.type, x.at[i], 0)
     ELSE SetValue(x.type, 100000 * rank + 1000 * k + x.at[i])]
CollAlltoall(x) ==
  LET Limits == {i \in DOMAIN x.at : x.at[i] < 2}
      Sent == [s \in {SendBlock(r) : r \in Ranks(x)} |-> ArrayForOf(x, s[2] - 1, x.rank)]
  IN  Test(Alloc([s \in DOMAIN Sent |-> Fresh(x)] @@ RecvBlocks(x, Fresh(x))),
           Alloc(Sent)
           \o Give(x, 0, [j \in Ranks(x) |-> SendBlock(j)])
           \o Take(x, 0, [j \in Ranks(x) |-> RecvBlock(j)])
           \o Alloc(Pointers("cmp_value") :> << >>)
           \o Check([s \in BlocksOf(x) |->
                       [i \in Limits |-> StandardElement(x.type, x.at[i], 0)]] @@ Sent),
           Free(DOMAIN Sent \cup BlocksOf(x)))

-----------------------------------------------------------------------------
(* Reductions.                                                             *)

Root == 0

(* The process with the greatest or the least standard array.              *)
Extreme(x, fun) == IF fun = "max" THEN x.size - 1 ELSE 0

(* Only the root has a receive buffer.                                     *)
ReduceToRoot(x, fun) ==
  Test(Alloc(Send(Standard(x, x.rank)) @@ (IF x.rank = Root THEN Recv(Fresh(x)) ELSE << >>)),
       IF x.rank = Root
       THEN Collect(x, 0, Others(x), fun, SendBuffer, RecvBuffer)
            \o Check(Recv(Standard(x, Extreme(x, fun))))
       ELSE Give(x, 0, Same({Root}, SendBuffer)),
       Free({SendBuffer} \cup (IF x.rank = Root THEN {RecvBuffer} ELSE {})))

ReduceMin(x) == ReduceToRoot(x, "min")
ReduceMax(x) == ReduceToRoot(x, "max")

ReduceInPlace(x, fun) ==
  LET t == ReduceToRoot(x, fun)
  IN  [t EXCEPT !.run =
         IF x.rank = Root
         THEN Alloc(Recv(Standard(x, x.rank)))
              \o Collect(x, 0, Others(x), fun, RecvBuffer, RecvBuffer)
              \o Check(Recv(Standard(x, Extreme(x, fun))))
         ELSE @]

ReduceInPlaceMin(x) == ReduceInPlace(x, "min")
ReduceInPlaceMax(x) == ReduceInPlace(x, "max")

(* MPI_Allreduce of what is in the slot mine, into the receive buffer.     *)
AllreduceCall(x, fun, mine) ==
  Give(x, 0, Same(Others(x), mine)) \o Collect(x, 0, Others(x), fun, mine, RecvBuffer)

AllreduceOf(x, fun) ==
  Test(AllocOneEach(x),
       Alloc(Send(Standard(x, x.rank)))
       \o AllreduceCall(x, fun, SendBuffer)
       \o Check(Recv(Standard(x, Extreme(x, fun)))),
       Free(OneEach))

Allreduce(x) == AllreduceOf(x, "max")
AllreduceMax(x) == AllreduceOf(x, "max")
AllreduceMin(x) == AllreduceOf(x, "min")

AllreduceInPlace(x) ==
  Test(Alloc(Recv(Fresh(x))),
       Alloc(Recv(Standard(x, x.rank)))
       \o AllreduceCall(x, "max", RecvBuffer)
       \o Check(Recv(Standard(x, x.size - 1))),
       Free({RecvBuffer}))

(* The sum over all ranks of rank + i is sum + (i - 2) * comm_size.  The   *)
(* two limits are not looked at, and errors are not recorded.              *)
SumOfRanks(x) ==
  LET sum == ((x.size + 3) * x.size) \div 2
  IN  [i \in {j \in DOMAIN x.at : x.at[j] >= 2} |->
         SetValue(x.type, sum + (x.at[i] - 2) * x.size)]

AllreduceSum(x) ==
  Test(AllocOneEach(x),
       Alloc(Send(Standard(x, x.rank)))
       \o AllreduceCall(x, "sum", SendBuffer)
       \o CheckUnrecorded(Recv(SumOfRanks(x))),
       Free(OneEach))

(* All processes send 0, 1, 2...  Everything from the first maximum on is  *)
(* not compared.                                                           *)
ScanExpected(x) == [i \in DOMAIN x.at |-> SetValue(x.type, x.at[i] * (x.rank + 1))]
ScanCompared(x) ==
  {i \in DOMAIN x.at : \A j \in 1..i : ScanExpected(x)[j] # SetMax(x.type)}
ScanSum(x) ==
  LET check == <<"check", 0>>
  IN  Test(Alloc(Send([i \in DOMAIN x.at |-> SetValue(x.type, x.at[i])]) @@ Recv(Fresh(x))
                 @@ (check :> ScanExpected(x))),
           Give(x, 0, Same({r \in Ranks(x) : r > x.rank}, SendBuffer))
           \o Collect(x, 0, {r \in Ranks(x) : r < x.rank}, "sum", SendBuffer, RecvBuffer)
           \o Check(Recv([i \in ScanCompared(x) |-> ScanExpected(x)[i]])),
           Free(OneEach \cup {check}))
=============================================================================
