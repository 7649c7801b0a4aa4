----------------------------- MODULE StoreCalls -----------------------------
(***************************************************************************)
(* The calls of MPI and of the suite that the collective, the one-sided    *)
(* and the file tests are made of, as operations of StoreMachine.  x tells *)
(* a process who and where it is:                                          *)
(*                                                                         *)
(*   x.rank, x.size    its rank and the size of its group                  *)
(*   x.peers, x.group  the processes of the communicator, by rank, and     *)
(*                     their set                                           *)
(*   x.self            itself                                              *)
(*   x.type, x.at      env->type, and the indices of the elements of an    *)
(*                     array that the model looks at                       *)
(*   x.run             the combination of the test loop                    *)
(*                                                                         *)
(* A test names processes by their ranks, the machine by what they are.    *)
(***************************************************************************)
EXTENDS Communicators, Values

(* The buffers of a test.  The blocks of a buffer for comm_size arrays,    *)
(* and the buffers of an array of buffers, are slots of their own.         *)
SendBuffer == <<"send", 0>>
RecvBuffer == <<"recv", 0>>
SendBlock(rank) == <<"send", rank + 1>>
RecvBlock(rank) == <<"recv", rank + 1>>
CmpValues == <<"cmp", 0>>
Pointers(owner) == <<owner, 0>>      \* an array of buffers, without the buffers

Ranks(x) == 0..(x.size - 1)
Process(x, rank) == x.peers[rank + 1]
Following(x) == (x.rank + 1) % x.size
Previous(x) == (x.rank + x.size - 1) % x.size

(* tst_type_setstandardarray and tst_type_allocvalues of one array.        *)
Standard(x, rank) == StandardArray(x.type, x.at, rank)
Fresh(x) == AllocValues(x.at)

Alloc(buffers) == << [op |-> "alloc", buffers |-> buffers] >>
Free(slots) == << [op |-> "free", slots |-> slots] >>

Send(array) == SendBuffer :> array
Recv(array) == RecvBuffer :> array
RecvBlocks(x, array) == [s \in {RecvBlock(r) : r \in Ranks(x)} |-> array]

(* tst_test_checkstandardarray; tst_type_checkstandardarray does not       *)
(* record what it finds.                                                   *)
Check(expected) == << [op |-> "check", expected |-> expected, recorded |-> TRUE] >>
CheckUnrecorded(expected) == << [op |-> "check", expected |-> expected, recorded |-> FALSE] >>

(* Every block has the standard array of the rank it is from, and the      *)
(* fault that the loop over the ranks ends before the last one.            *)
OfEachButLast(x) ==
  [s \in {RecvBlock(r) : r \in 0..(x.size - 2)} |-> Standard(x, s[2] - 1)]
OfEach(x) ==
  [s \in {RecvBlock(r) : r \in Ranks(x)} |-> Standard(x, s[2] - 1)]

(* A sequence of calls for each rank.                                      *)
EachRank(x, Calls(_)) == FlattenSeq([i \in 1..x.size |-> Calls(i - 1)])
If(condition, calls) == IF condition THEN calls ELSE << >>

Barrier(x) == << [op |-> "barrier", group |-> x.group] >>
BarrierWorld == << [op |-> "barrier", group |-> Proc] >>

-----------------------------------------------------------------------------
(* Collective operations: step is the number of the call in a test.        *)

Give(x, step, slots) ==
  << [op |-> "give", id |-> <<x.run, step>>,
      slots |-> [p \in {Process(x, r) : r \in DOMAIN slots} |->
                   slots[CHOOSE r \in DOMAIN slots : Process(x, r) = p]]] >>
Take(x, step, slots) == [Give(x, step, slots) EXCEPT ![1].op = "take"]

(* The reduction of what the ranks in froms have given for this process.   *)
Collect(x, step, froms, fun, mine, result) ==
  << [op |-> "reduce", id |-> <<x.run, step>>, fun |-> fun, mine |-> mine, result |-> result,
      froms |-> {Process(x, r) : r \in froms}] >>

Same(ranks, slot) == [r \in ranks |-> slot]
Others(x) == Ranks(x) \ {x.rank}

-----------------------------------------------------------------------------
(* Windows.                                                                *)

WinCreate(x, slot) == << [op |-> "wincreate", group |-> x.group, slot |-> slot] >>
WinFree(x, slot) == << [op |-> "winfree", group |-> x.group, slot |-> slot] >>
Fence(x) == << [op |-> "fence", group |-> x.group] >>
Lock(x, kind, rank) == << [op |-> "lock", to |-> Process(x, rank), kind |-> kind] >>
Unlock(x, rank) == << [op |-> "unlock", to |-> Process(x, rank)] >>
Post(x, ranks) == << [op |-> "post", origins |-> {Process(x, r) : r \in ranks}] >>
WaitExposed == << [op |-> "waitexposed"] >>
Start(x, rank) == << [op |-> "start", to |-> Process(x, rank)] >>
Complete(x, rank) == << [op |-> "complete", to |-> Process(x, rank)] >>
Access(x, kind, rank, theirs, mine) ==
  << [op |-> "access", kind |-> kind, to |-> Process(x, rank), theirs |-> theirs,
      mine |-> mine] >>

-----------------------------------------------------------------------------
(* Files.  An array has Count(x) elements in a file.                       *)

Count(x) == Len(x.at)

(* The name has the process number of rank 0, which broadcasts it; all     *)
(* need it to open the file, and wait for each other there.                *)
FileName(x) == Process(x, 0)

(* MPI_File_open without a view: displacement 0, no holes.                 *)
Opening(x) ==
  [op |-> "open", group |-> x.group, name |-> FileName(x), create |-> TRUE, append |-> FALSE,
   atomic |-> FALSE, disp |-> 0, stride |-> 1]
OpenFile(x) == << Opening(x) >>
OpenExisting(x) == << [Opening(x) EXCEPT !.create = FALSE] >>
View(open, disp, stride) == [open EXCEPT ![1].disp = disp, ![1].stride = stride]
CloseFile(x) == << [op |-> "close", group |-> x.group] >>
Delete(x, checked) ==
  If(x.rank = 0, << [op |-> "delete", name |-> FileName(x), checked |-> checked] >>)

Seek(whence, offset) == << [op |-> "seek", whence |-> whence, offset |-> offset] >>
Sync == << [op |-> "sync"] >>
Wait == << [op |-> "wait"] >>
Position(number) == << [op |-> "expect", what |-> "position", number |-> number] >>
SharedPosition(number) == << [op |-> "expect", what |-> "shared", number |-> number] >>
FileSize(number) == << [op |-> "expect", what |-> "size", number |-> number] >>
SetSize(x, grow) ==
  << [op |-> "setsize", group |-> x.group, size |-> x.size * Count(x), grow |-> grow] >>

(* A call that does not block; offset is the position of the explicit one. *)
Request(x, kind, pointer, offset, mine) ==
  << [op |-> "fileaccess", kind |-> kind, pointer |-> pointer, offset |-> offset,
      mine |-> mine, elements |-> [k \in 1..Count(x) |-> k], wait |-> TRUE] >>

(* A call that blocks: the data that are written may still be on their way.*)
Write(x, pointer, offset) ==
  [Request(x, "write", pointer, offset, SendBuffer) EXCEPT ![1].wait = FALSE]
Read(x, pointer, offset) == Request(x, "read", pointer, offset, RecvBuffer) \o Wait

Ordered(x, kind, mine, wait) ==
  << [op |-> "fileordered", group |-> x.group, order |-> x.peers, kind |-> kind,
      mine |-> mine, elements |-> [k \in 1..Count(x) |-> k], wait |-> wait] >>
=============================================================================
