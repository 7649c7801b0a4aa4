---------------------------- MODULE OneSidedTests ----------------------------
(***************************************************************************)
(* The tests of one-sided/: what the init, run and cleanup functions of    *)
(* each file do (see StoreCalls).                                          *)
(***************************************************************************)
EXTENDS CollTests

(* A buffer with the own standard array and one for what comes, or one for *)
(* what comes from each rank.                                              *)
AllocStandard(x, received) ==
  Alloc(Send(Standard(x, x.rank)) @@ Recv(received))
AllocEachRank(x, owner) ==
  Alloc(Send(Standard(x, x.rank)) @@ RecvBlocks(x, Fresh(x)) @@ (Pointers(owner) :> << >>))
FreeEachRank(x, pointers) == Free({SendBuffer} \cup BlocksOf(x) \cup pointers)
Own(x) == RecvBlock(x.rank)

Epoch(x, accesses) == Fence(x) \o accesses \o Fence(x)

LockedShared(x, rank, access) == Lock(x, "shared", rank) \o access \o Unlock(x, rank)
Locked(x, rank, access) == Lock(x, "exclusive", rank) \o access \o Unlock(x, rank)
Exposed(x, ranks) == Post(x, ranks) \o WaitExposed
Started(x, rank, access) == Start(x, rank) \o access \o Complete(x, rank)

-----------------------------------------------------------------------------
(* Gets from all ranks into the buffers for them.                          *)

GetFrom(x, i) == Access(x, "get", i, SendBuffer, RecvBlock(i))

(* The array of the buffers is never freed: cleanup frees env->recv_buffer *)
(* instead, which is NULL.                                                 *)
GetWithFence(x) ==
  Test(AllocEachRank(x, "env"),
       WinCreate(x, SendBuffer)
       \o Epoch(x, EachRank(x, LAMBDA i : GetFrom(x, i)))
       \o WinFree(x, SendBuffer) \o Check(OfEach(x)),
       FreeEachRank(x, {}))

GetWithLock(x) ==
  Test(AllocEachRank(x, "static"),
       WinCreate(x, SendBuffer)
       \o EachRank(x, LAMBDA i : Locked(x, i, GetFrom(x, i)))
       \o WinFree(x, SendBuffer) \o Check(OfEach(x)),
       FreeEachRank(x, {Pointers("static")}))

GetWithPost(x) ==
  Test(AllocEachRank(x, "static") \o Alloc(Own(x) :> Standard(x, x.rank)),
       WinCreate(x, SendBuffer)
       \o EachRank(x, LAMBDA i :
            IF x.rank = i THEN Exposed(x, Others(x)) ELSE Started(x, i, GetFrom(x, i)))
       \o WinFree(x, SendBuffer) \o Check(OfEach(x)),
       FreeEachRank(x, {Pointers("static")}))

-----------------------------------------------------------------------------
(* Puts to all ranks.  There is a window for the buffer of each origin,    *)
(* one after the other.                                                    *)

PutTo(x, j) == Access(x, "put", j, Own(x), SendBuffer)

EachOrigin(x, Calls(_)) ==
  EachRank(x, LAMBDA i : WinCreate(x, RecvBlock(i)) \o Calls(i) \o WinFree(x, RecvBlock(i)))

PutWithFence(x) ==
  Test(AllocEachRank(x, "static"),
       EachOrigin(x, LAMBDA i :
         Epoch(x, If(x.rank = i, EachRank(x, LAMBDA j : PutTo(x, j)))))
       \o Check(OfEach(x)),
       FreeEachRank(x, {Pointers("static")}))

PutWithLock(x) ==
  Test(AllocEachRank(x, "static"),
       EachOrigin(x, LAMBDA i :
         If(x.rank = i, EachRank(x, LAMBDA j : LockedShared(x, j, PutTo(x, j)))))
       \o Check(OfEach(x)),
       FreeEachRank(x, {Pointers("static")}))

PutWithPost(x) ==
  Test(AllocEachRank(x, "static") \o Alloc(Own(x) :> Standard(x, x.rank)),
       EachOrigin(x, LAMBDA i :
         IF x.rank = i
         THEN EachRank(x, LAMBDA j : If(j # x.rank, Started(x, j, PutTo(x, j))))
         ELSE Exposed(x, {i}))
       \o Check(OfEach(x)),
       FreeEachRank(x, {Pointers("static")}))

-----------------------------------------------------------------------------
(* Accumulations at all other ranks.                                       *)

CombineAt(x, fun, i) == Access(x, fun, i, RecvBuffer, SendBuffer)

(* Only the sums of type double are tested; errors are not recorded.       *)
AccumulateWithFenceSum(x) ==
  Test(AllocStandard(x, Standard(x, x.rank)),
       WinCreate(x, RecvBuffer)
       \o Epoch(x, EachRank(x, LAMBDA i : If(x.rank # i, CombineAt(x, "sum", i))))
       \o WinFree(x, RecvBuffer) \o CheckUnrecorded(Recv(SumOfRanks(x))),
       Free(OneEach))

AccumulateWithLockMax(x) ==
  Test(AllocStandard(x, Standard(x, x.rank)),
       WinCreate(x, RecvBuffer)
       \o EachRank(x, LAMBDA i : If(x.rank # i, Locked(x, i, CombineAt(x, "max", i))))
       \o Fence(x) \o WinFree(x, RecvBuffer) \o Check(Recv(Standard(x, x.size - 1))),
       Free(OneEach))

AccumulateWithPostMin(x) ==
  Test(AllocStandard(x, Standard(x, x.rank)),
       WinCreate(x, RecvBuffer)
       \o EachRank(x, LAMBDA i :
            IF x.rank = i THEN Exposed(x, Others(x))
            ELSE Started(x, i, CombineAt(x, "min", i)))
       \o WinFree(x, RecvBuffer) \o Check(Recv(Standard(x, 0))),
       Free(OneEach))

-----------------------------------------------------------------------------
(* Rings: the window lives from init to cleanup, where it is freed before  *)
(* the buffer.                                                             *)

SimpleRingGet(x) ==
  Test(AllocStandard(x, Fresh(x)) \o WinCreate(x, SendBuffer),
       Epoch(x, Access(x, "get", Previous(x), SendBuffer, RecvBuffer))
       \o Check(Recv(Standard(x, Previous(x)))),
       WinFree(x, SendBuffer) \o Free(OneEach))

SimpleRingPut(x) ==
  Test(AllocStandard(x, Fresh(x)) \o WinCreate(x, RecvBuffer),
       Epoch(x, Access(x, "put", Following(x), RecvBuffer, SendBuffer))
       \o Check(Recv(Standard(x, Previous(x)))),
       WinFree(x, RecvBuffer) \o Free(OneEach))

(* Rank 0 gets first, all others expose their buffer first; the fault is   *)
(* that all get first.                                                     *)
GetsPrevious(x) ==
  Started(x, Previous(x), Access(x, "get", Previous(x), SendBuffer, RecvBuffer))
ExposesToFollowing(x) == Exposed(x, {Following(x)})
RingGetPost(x, calls) ==
  Test(AllocStandard(x, Fresh(x)) \o WinCreate(x, SendBuffer),
       calls \o Check(Recv(Standard(x, Previous(x)))),
       WinFree(x, SendBuffer) \o Free(OneEach))
SimpleRingGetPostAlike(x) == RingGetPost(x, GetsPrevious(x) \o ExposesToFollowing(x))
SimpleRingGetPost(x) ==
  RingGetPost(x, IF x.rank = 0 THEN GetsPrevious(x) \o ExposesToFollowing(x)
                               ELSE ExposesToFollowing(x) \o GetsPrevious(x))
=============================================================================
