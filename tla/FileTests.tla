------------------------------ MODULE FileTests ------------------------------
(***************************************************************************)
(* The tests of io/ and the two functions of tst_file.c they share: what   *)
(* the init, run and cleanup functions of each file do (see StoreCalls).   *)
(* Offsets count elements.                                                 *)
(*                                                                         *)
(* A collective access is one that every process makes when it gets there; *)
(* split collective accesses are requests with a wait.  tst_atomic is off. *)
(* That MPI_File_get_view returns the view that was set is not modelled.   *)
(***************************************************************************)
EXTENDS OneSidedTests

V(x, blocks) == blocks * Count(x)        \* the length of so many blocks

(* The root writes the standard arrays of all ranks, one after the other.  *)
FileAlloc(x) ==
  OpenFile(x)
  \o If(x.rank = 0,
        Alloc(CmpValues :> Fresh(x))
        \o EachRank(x, LAMBDA i :
             Alloc(CmpValues :> Standard(x, i))
             \o [Write(x, "individual", 0) EXCEPT ![1].mine = CmpValues])
        \o Free({CmpValues}))
  \o CloseFile(x)

(* The root reads them and compares, but nobody uses the result.           *)
FileCheck(x) ==
  OpenExisting(x)
  \o If(x.rank = 0,
        Alloc(CmpValues :> Fresh(x))
        \o EachRank(x, LAMBDA i :
             [Read(x, "individual", 0) EXCEPT ![1].mine = CmpValues]
             \o CheckUnrecorded(CmpValues :> Standard(x, i)))
        \o Free({CmpValues}))
  \o CloseFile(x)

(* A test that writes, in calls with the file open, and one that reads,    *)
(* what is the standard array of a rank then.                              *)
WriteTest(x, open, calls) ==
  Test(Alloc(Send(Standard(x, x.rank))),
       open \o calls \o CloseFile(x) \o FileCheck(x),
       Delete(x, FALSE) \o Free({SendBuffer}))
Writes(x, calls) == WriteTest(x, OpenFile(x), calls)

ReadTest(x, open, calls, rank) ==
  Test(Alloc(Recv(Fresh(x))) \o FileAlloc(x),
       open \o calls \o CloseFile(x) \o Check(Recv(Standard(x, rank))),
       Delete(x, FALSE) \o Free({RecvBuffer}))
Reads(x, calls) == ReadTest(x, OpenExisting(x), calls, x.rank)

IwriteCall(x, pointer, offset) == Request(x, "write", pointer, offset, SendBuffer) \o Wait

SeekOwn(x) == Seek("set", V(x, x.rank))
AtEndOfOwn(x) == Position(V(x, x.rank + 1))

Simple(x) ==
  Test(Alloc(Recv(Fresh(x))) \o FileAlloc(x),
       OpenFile(x) \o CloseFile(x),
       Delete(x, FALSE) \o Free({RecvBuffer}))

-----------------------------------------------------------------------------
(* Individual file pointers.                                               *)

ReadOwn(x) == Reads(x, SeekOwn(x) \o Read(x, "individual", 0) \o AtEndOfOwn(x))
WriteOwn(x) == Writes(x, SeekOwn(x) \o Write(x, "individual", 0) \o AtEndOfOwn(x))
IwriteOwn(x) == Writes(x, SeekOwn(x) \o IwriteCall(x, "individual", 0) \o AtEndOfOwn(x))

(* The barrier before the checks is one of MPI_COMM_WORLD.                 *)
FileRead(x) ==
  LET t == ReadOwn(x)
      n == Len(t.run)
  IN  [t EXCEPT !.run = SubSeq(@, 1, n - 1) \o BarrierWorld \o SubSeq(@, n, n)]
FileIread(x) == ReadOwn(x)
FileReadAll(x) == ReadOwn(x)
FileReadAllBegin(x) == ReadOwn(x)
FileWrite(x) == WriteOwn(x)
FileIwrite(x) == IwriteOwn(x)
FileWriteAll(x) == WriteOwn(x)
FileWriteAllBegin(x) == IwriteOwn(x)

(* From the end of the file: the ranks have the blocks in reverse order.   *)
FileReadConvert(x) ==
  ReadTest(x, OpenExisting(x),
           Seek("end", -V(x, x.rank + 1)) \o Read(x, "individual", 0)
           \o Position(V(x, x.size - x.rank)),
           x.size - x.rank - 1)

-----------------------------------------------------------------------------
(* Explicit offsets, which leave the pointer alone.                        *)

ReadAt(x, rank) == Read(x, "explicit", V(x, rank)) \o Position(0)
WriteAt(x) == Write(x, "explicit", V(x, x.rank)) \o Position(0)
IwriteAt(x) == IwriteCall(x, "explicit", V(x, x.rank)) \o Position(0)

FileReadAt(x) == Reads(x, ReadAt(x, x.rank))
FileReadAtAll(x) == Reads(x, ReadAt(x, x.rank))
FileReadAtAllBegin(x) == Reads(x, ReadAt(x, x.rank))
FileIreadAt(x) == Reads(x, ReadAt(x, x.rank))
FileWriteAt(x) == Writes(x, WriteAt(x))
FileWriteAtAll(x) == Writes(x, WriteAt(x))
FileWriteAtAllBegin(x) == Writes(x, IwriteAt(x))
FileIwriteAt(x) == Writes(x, SetSize(x, TRUE) \o IwriteAt(x))

-----------------------------------------------------------------------------
(* The shared pointer.  The processes take turns, in the order of their    *)
(* ranks; a turn begins or ends with a barrier, or both.                   *)

Turns(x, begin, calls, end) ==
  EachRank(x, LAMBDA i : begin \o If(x.rank = i, calls) \o end)
AtEndOfTurn(x) == SharedPosition(V(x, x.rank + 1))

FileReadShared(x) ==
  Reads(x, Turns(x, << >>, Read(x, "shared", 0) \o AtEndOfTurn(x), Barrier(x)))
FileIreadShared(x) ==
  Reads(x, Turns(x, << >>, Read(x, "shared", 0) \o AtEndOfTurn(x), Barrier(x)))
FileWriteShared(x) ==
  Writes(x, Turns(x, Barrier(x), Write(x, "shared", 0) \o AtEndOfTurn(x), Barrier(x)))
FileIwriteShared(x) ==
  Writes(x, Turns(x, Barrier(x), IwriteCall(x, "shared", 0) \o AtEndOfTurn(x), << >>))

OrderedRead(x) == Reads(x, Ordered(x, "read", RecvBuffer, TRUE) \o Wait \o Position(0))
OrderedWrite(x) == Writes(x, Ordered(x, "write", SendBuffer, FALSE) \o Position(0))

FileReadOrdered(x) == OrderedRead(x)
FileReadOrderedBegin(x) == OrderedRead(x)
FileWriteOrdered(x) == OrderedWrite(x)
FileWriteOrderedBegin(x) ==
  Writes(x, Ordered(x, "write", SendBuffer, TRUE) \o Wait \o Position(0))
FileSequentialMode(x) == Writes(x, Ordered(x, "write", SendBuffer, FALSE))

-----------------------------------------------------------------------------
(* Views.  Every process sees its own part of the file from position 0.    *)

OwnPart(x, open) == View(open, V(x, x.rank), 1)
FileReadDarray(x) ==
  ReadTest(x, OwnPart(x, OpenExisting(x)), Read(x, "individual", 0) \o Position(V(x, 1)), x.rank)
FileReadSubarray(x) == FileReadDarray(x)
FileWriteDarray(x) ==
  WriteTest(x, OwnPart(x, OpenFile(x)), Write(x, "individual", 0) \o Position(V(x, 1)))
FileWriteSubarray(x) == FileWriteDarray(x)

(* The tests that write in init and read in run, each time with the same   *)
(* view of the file.                                                       *)
WriteThenRead(x, disp, stride, write, read) ==
  Test(Alloc(Recv(Fresh(x)) @@ Send(Standard(x, x.rank)))
       \o View(OpenFile(x), disp, stride) \o write \o CloseFile(x),
       View(OpenExisting(x), disp, stride) \o read \o CloseFile(x)
       \o Check(Recv(Standard(x, x.rank))),
       Delete(x, FALSE) \o Free({SendBuffer, RecvBuffer}))

(* Element i of all ranks, then element i + 1 of all.  The function init   *)
(* looks at the position only in a world of an even number of processes.   *)
FileIoWithArrange(x) ==
  WriteThenRead(x, x.rank, x.size,
    Write(x, "individual", 0) \o If(WorldSize % 2 = 0, Position(V(x, 1))),
    Read(x, "individual", 0) \o Position(V(x, 1)))

(* Every second place stays empty.                                         *)
FileIoWithHole(x) ==
  WriteThenRead(x, 2 * V(x, x.rank), 2,
    Write(x, "individual", 0) \o Position(V(x, 1)),
    Read(x, "individual", 0) \o Position(V(x, 1)))

(* Every third place is used: after each element a seek over two places.   *)
Single(call, k) == [call EXCEPT ![1].elements = <<k>>]
FileIoWithHole2(x) ==
  LET Each3(call) == Seek("set", 3 * V(x, x.rank))
                     \o FlattenSeq([k \in 1..Count(x) |-> Single(call, k) \o Seek("cur", 2)])
                     \o Position(3 * V(x, x.rank + 1))
  IN  WriteThenRead(x, 0, 1, Each3(Write(x, "individual", 0)), Each3(Read(x, "individual", 0)))

-----------------------------------------------------------------------------
(* Consistency: a process reads what another one has written while both    *)
(* have the file open.                                                     *)

WriteAndRead(x, open, calls) ==
  Test(Alloc(Recv(Fresh(x)) @@ Send(Standard(x, x.rank))),
       open \o calls \o CloseFile(x) \o Check(Recv(Standard(x, Following(x)))),
       Delete(x, FALSE) \o Free({SendBuffer, RecvBuffer}))
Atomic(open) == [open EXCEPT ![1].atomic = TRUE]

(* sync - barrier - sync.                                                  *)
FileIoSync(x) ==
  WriteAndRead(x, OpenFile(x),
    WriteAt(x) \o Sync \o Barrier(x) \o Sync \o ReadAt(x, Following(x)))

(* In atomic mode a call that has returned has written.                    *)
FileIoAtomic(x) ==
  WriteAndRead(x, Atomic(OpenFile(x)), IwriteAt(x) \o Barrier(x) \o ReadAt(x, Following(x)))

(* Here it has not returned from the wait: other processes may read first. *)
FileAsyncioAtomic(x) ==
  WriteAndRead(x, Atomic(OpenFile(x)),
    Request(x, "write", "explicit", V(x, x.rank), SendBuffer) \o Position(0) \o Barrier(x)
    \o Request(x, "read", "explicit", V(x, Following(x)), RecvBuffer) \o Position(0) \o Wait)

-----------------------------------------------------------------------------
(* Opening, closing, and the size of the file.                             *)

(* Each process in its turn opens the file for itself.  Faults: rank 0     *)
(* deletes it before it closes it, or never, or nobody seeks.              *)
AloneOf(x) == [x EXCEPT !.group = {x.self}]
IoCommself(x, seek, end, cleanup) ==
  Test(Alloc(Send(Standard(x, x.rank))),
       Turns(x, << >>,
             OpenFile(AloneOf(x)) \o seek \o Write(x, "individual", 0)
             \o AtEndOfOwn(x) \o end,
             Barrier(x))
       \o FileCheck(x),
       cleanup)
FileIoCommselfDeletedFirst(x) ==
  IoCommself(x, SeekOwn(x), Delete(x, FALSE) \o CloseFile(AloneOf(x)), Free({SendBuffer}))
FileIoCommselfKept(x) == IoCommself(x, SeekOwn(x), CloseFile(AloneOf(x)), Free({SendBuffer}))
FileIoCommselfAtStart(x) ==
  IoCommself(x, << >>, CloseFile(AloneOf(x)), Delete(x, FALSE) \o Free({SendBuffer}))
FileIoCommself(x) ==
  IoCommself(x, SeekOwn(x), CloseFile(AloneOf(x)), Delete(x, FALSE) \o Free({SendBuffer}))

(* All open the file once for each rank; it writes at the end then.        *)
FileAppendMode(x) ==
  Test(Alloc(Send(Standard(x, x.rank))),
       EachRank(x, LAMBDA i :
         << [Opening(x) EXCEPT !.append = TRUE] >>
         \o If(x.rank = i, Write(x, "individual", 0) \o AtEndOfOwn(x))
         \o CloseFile(x))
       \o FileCheck(x),
       Delete(x, TRUE) \o Free({SendBuffer}))

(* MPI_File_set_size, and MPI_File_preallocate, for all blocks at once.    *)
WithSize(x, grow) ==
  Writes(x,
    SetSize(x, grow) \o FileSize(V(x, x.size)) \o Barrier(x)
    \o SeekOwn(x) \o Write(x, "individual", 0) \o AtEndOfOwn(x)
    \o Barrier(x) \o FileSize(V(x, x.size)))
FileSetSize(x) == WithSize(x, FALSE)
FilePreallocate(x) == WithSize(x, TRUE)
=============================================================================
