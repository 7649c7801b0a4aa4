------------------------------- MODULE StoreRun -------------------------------
(***************************************************************************)
(* The loop of main with the collective, the one-sided and the file tests, *)
(* without threads: every selected test on every selected communicator,    *)
(* with every datatype and number of values (see SuiteRun).                *)
(***************************************************************************)
EXTENDS FileTests

CONSTANT Selections    \* the lists of tests, communicators, types and values,
                       \* and the library the suite runs against

ASSUME StoreAssumption ==
  \A sel \in Selections :
    /\ ToSet(sel.comms) \subseteq Comm
    /\ ToSet(sel.types) \subseteq DOMAIN Types
    /\ \A at \in ToSet(sel.values) : at \in Seq(Nat)
    /\ sel.library \in {"sound", "faulty"}

(* The table of tests in tst_tests.c: the classes of communicators and of  *)
(* types, the minimal number of processes, and whether processes           *)
(* synchronise.                                                            *)
Entry(comms, types, min, sync) ==
  [comms |-> comms, types |-> types, min |-> min, sync |-> sync]
Entries(names, entry) == [name \in names |-> entry]

CollTable ==
  LET E(types, sync) == Entry({"self", "intra"}, types, 1, sync)
  IN  Entries({"Bcast", "Gather", "Allgather", "Allgather with MPI_IN_PLACE", "Scatter",
               "Scatterv", "Scatterv with stride", "Alltoall"}, E("all", FALSE))
      @@ Entries({"Scan sum"}, E("reducible", TRUE))
      @@ Entries({"Reduce Min", "Reduce Max", "Reduce Min with MPI_IN_PLACE",
                  "Reduce Max with MPI_IN_PLACE", "Allreduce Min", "Allreduce Max",
                  "Allreduce Min/Max", "Allreduce Min/Max with MPI_IN_PLACE"},
                 E("reducible", FALSE))
      @@ Entries({"Allreduce Sum"}, E("double", FALSE))

OneSidedTable ==
  LET E(types) == Entry({"intra"}, types, 1, TRUE)
  IN  Entries({"get_fence", "put_fence", "get_post", "put_post", "get_lock", "put_lock"}, E("all"))
      @@ Entries({"accumulate_fence"}, E("double"))
      @@ Entries({"accumulate_post_min", "accumulate_lock"}, E("numbers"))
      @@ Entries({"Ring with Get", "Ring with Put"}, Entry({"self", "intra"}, "standard", 1, FALSE))
      @@ Entries({"Ring with Get using Post"}, Entry({"intra"}, "standard", 2, FALSE))

(* All types but one with holes at its ends, which Types does not have.    *)
FileTable ==
  Entries({"file simple", "read_at", "write_at", "read_at_all", "write_at_all", "iread_at",
           "iwrite_at", "read_at_all_begin", "write_at_all_begin", "read", "write", "read_all",
           "write_all", "iread", "iwrite", "read_all_begin", "write_all_begin", "read_shared",
           "write_shared", "read_ordered", "write_ordered", "iread_shared", "iwrite_shared",
           "read_ordered_begin", "write_ordered_begin", "read_darray", "write_darray",
           "read_subarray", "write_subarray", "io_with_hole", "io_with_arrange", "read_convert",
           "io_atomic", "io_sync", "asyncio_atomic", "append_mode", "io_commself",
           "sequential_mode", "set_size", "preallocate", "io_with_hole2"},
          Entry({"intra"}, "all", 1, TRUE))

Needs(test) == (CollTable @@ OneSidedTable @@ FileTable)[test]

(* tst_type_gettypeclass.  Of the characters, MPI-2 reduces the unsigned   *)
(* ones; the tests that accumulate leave out both.                         *)
TypeClass(type) ==
  {"all"}
    \cup (IF type \in {"char", "unsignedchar", "shorts", "int", "double"} THEN {"standard"} ELSE {})
    \cup (IF type \in {"unsignedchar", "shorts", "int", "double"} THEN {"reducible"} ELSE {})
    \cup (IF type \in {"shorts", "int", "double"} THEN {"numbers"} ELSE {})
    \cup (IF type = "double" THEN {"double"} ELSE {})

-----------------------------------------------------------------------------
(* The functions of a test, by its name in the table.                      *)

CollFunctions(test, x) ==
  CASE test = "Bcast" -> Bcast(x)
    [] test = "Gather" -> Gather(x)
    [] test = "Allgather" -> Allgather(x)
    [] test = "Allgather with MPI_IN_PLACE" -> AllgatherInPlace(x)
    [] test = "Scan sum" -> ScanSum(x)
    [] test = "Scatter" -> Scatter(x)
    [] test = "Scatterv" -> Scatterv(x)
    [] test = "Scatterv with stride" -> ScattervStride(x)
    [] test = "Reduce Min" -> ReduceMin(x)
    [] test = "Reduce Max" -> ReduceMax(x)
    [] test = "Reduce Min with MPI_IN_PLACE" -> ReduceInPlaceMin(x)
    [] test = "Reduce Max with MPI_IN_PLACE" -> ReduceInPlaceMax(x)
    [] test = "Allreduce Min" -> AllreduceMin(x)
    [] test = "Allreduce Max" -> AllreduceMax(x)
    [] test = "Allreduce Min/Max" -> Allreduce(x)
    [] test = "Allreduce Min/Max with MPI_IN_PLACE" -> AllreduceInPlace(x)
    [] test = "Allreduce Sum" -> AllreduceSum(x)
    [] test = "Alltoall" -> CollAlltoall(x)

OneSidedFunctions(test, x) ==
  CASE test = "get_fence" -> GetWithFence(x)
    [] test = "put_fence" -> PutWithFence(x)
    [] test = "accumulate_fence" -> AccumulateWithFenceSum(x)
    [] test = "get_post" -> GetWithPost(x)
    [] test = "put_post" -> PutWithPost(x)
    [] test = "accumulate_post_min" -> AccumulateWithPostMin(x)
    [] test = "get_lock" -> GetWithLock(x)
    [] test = "put_lock" -> PutWithLock(x)
    [] test = "accumulate_lock" -> AccumulateWithLockMax(x)
    [] test = "Ring with Get" -> SimpleRingGet(x)
    [] test = "Ring with Get using Post" -> SimpleRingGetPost(x)
    [] test = "Ring with Put" -> SimpleRingPut(x)

FileFunctions(test, x) ==
  CASE test = "file simple" -> Simple(x)
    [] test = "read_at" -> FileReadAt(x)
    [] test = "write_at" -> FileWriteAt(x)
    [] test = "read_at_all" -> FileReadAtAll(x)
    [] test = "write_at_all" -> FileWriteAtAll(x)
    [] test = "iread_at" -> FileIreadAt(x)
    [] test = "iwrite_at" -> FileIwriteAt(x)
    [] test = "read_at_all_begin" -> FileReadAtAllBegin(x)
    [] test = "write_at_all_begin" -> FileWriteAtAllBegin(x)
    [] test = "read" -> FileRead(x)
    [] test = "write" -> FileWrite(x)
    [] test = "read_all" -> FileReadAll(x)
    [] test = "write_all" -> FileWriteAll(x)
    [] test = "iread" -> FileIread(x)
    [] test = "iwrite" -> FileIwrite(x)
    [] test = "read_all_begin" -> FileReadAllBegin(x)
    [] test = "write_all_begin" -> FileWriteAllBegin(x)
    [] test = "read_shared" -> FileReadShared(x)
    [] test = "write_shared" -> FileWriteShared(x)
    [] test = "read_ordered" -> FileReadOrdered(x)
    [] test = "write_ordered" -> FileWriteOrdered(x)
    [] test = "iread_shared" -> FileIreadShared(x)
    [] test = "iwrite_shared" -> FileIwriteShared(x)
    [] test = "read_ordered_begin" -> FileReadOrderedBegin(x)
    [] test = "write_ordered_begin" -> FileWriteOrderedBegin(x)
    [] test = "read_darray" -> FileReadDarray(x)
    [] test = "write_darray" -> FileWriteDarray(x)
    [] test = "read_subarray" -> FileReadSubarray(x)
    [] test = "write_subarray" -> FileWriteSubarray(x)
    [] test = "io_with_hole" -> FileIoWithHole(x)
    [] test = "io_with_arrange" -> FileIoWithArrange(x)
    [] test = "read_convert" -> FileReadConvert(x)
    [] test = "io_atomic" -> FileIoAtomic(x)
    [] test = "io_sync" -> FileIoSync(x)
    [] test = "asyncio_atomic" -> FileAsyncioAtomic(x)
    [] test = "append_mode" -> FileAppendMode(x)
    [] test = "io_commself" -> FileIoCommself(x)
    [] test = "sequential_mode" -> FileSequentialMode(x)
    [] test = "set_size" -> FileSetSize(x)
    [] test = "preallocate" -> FilePreallocate(x)
    [] test = "io_with_hole2" -> FileIoWithHole2(x)

Functions(test, x) ==
  IF test \in DOMAIN CollTable THEN CollFunctions(test, x)
  ELSE IF test \in DOMAIN OneSidedTable THEN OneSidedFunctions(test, x)
  ELSE FileFunctions(test, x)

-----------------------------------------------------------------------------

(* tst_test_check_run, for a process: in the communicators of a split, one *)
(* may run a test that another one leaves out.  The mode is relaxed.       *)
CheckRun(test, c, p, type) ==
  /\ Registered(c)
  /\ Class[c] \cap Needs(test).comms # {}
  /\ Len(LocalGroup(c, p)) >= Needs(test).min
  /\ Needs(test).types \in TypeClass(type)

CheckSync(test) == If(Needs(test).sync, BarrierWorld)

(* One iteration, with the indices of the loop and what they select.       *)
Iteration(p, i, j, k, l, sel) ==
  LET test == sel.tests[i + 1]
      c == sel.comms[j + 1]
      x == [rank |-> RankIn(c, p), size |-> Len(LocalGroup(c, p)), peers |-> LocalGroup(c, p),
            group |-> ToSet(LocalGroup(c, p)), self |-> p,
            type |-> sel.types[k + 1], at |-> sel.values[l + 1], run |-> <<i, j, k, l>>]
      f == Functions(test, x)
  IN  IF ~CheckRun(test, c, p, x.type) THEN << >>
      ELSE CheckSync(test) \o f.init \o f.run \o f.cleanup \o CheckSync(test)

Loops(p, sel) ==
  LET I == Len(sel.tests)  J == Len(sel.comms)  K == Len(sel.types)  L == Len(sel.values)
  IN  FlattenSeq([n \in 1..(I * J * K * L) |->
        LET m == n - 1
        IN  Iteration(p, m \div (J * K * L), (m \div (K * L)) % J, (m \div L) % K, m % L, sel)])

ProgramOf(sel) == [p \in Proc |-> Loops(p, sel)]

-----------------------------------------------------------------------------
(* The processes execute their programs.                                   *)

VARIABLES program, ip, library, memory, transfers, messages, windows, locks, exposed, disk,
          file, faults, unreported

Machine == INSTANCE StoreMachine

Init ==
  /\ \E sel \in Selections : program = ProgramOf(sel) /\ library = sel.library
  /\ Machine!Init

vars == Machine!vars
Next == Machine!Next

Spec == Init /\ [][Next]_vars

(* Something happens as long as something can.                             *)
FairSpec == Spec /\ WF_vars(Next)

(* The types of the variables of StoreMachine: among them that windows are *)
(* buffers that exist, that an exclusive lock has one holder, and that who *)
(* has a file open has opened one that exists.                             *)
TypeOK == Machine!TypeOK

-----------------------------------------------------------------------------

(* A library that conforms to MPI is not blamed, whatever it delays: no    *)
(* test looks at a buffer before its data are there, reads a place of a    *)
(* file that has not been written or synchronised, finds a pointer where   *)
(* it does not expect it, or deletes a file that is in use.                *)
NoFalseFailure == library = "sound" => faults = {}

(* Nor do the comparisons that tell nobody what they have found            *)
(* (tst_file_check, allgather, the sums) find a difference then: recording *)
(* what they find would not make a sound library fail.                     *)
ChecksAgree == library = "sound" => unreported = {}

(* A library that has lost a transfer once, or moved the data of another   *)
(* process or to another place, is found out when the tests are over.      *)
FaultNoticed == library = "failed" /\ Machine!Finished => faults # {}

(* "Every test should clean up after itself": buffers, windows, locks and  *)
(* files are gone when all is over, and nothing is under way.  Two buffers *)
(* are left that no code frees: the array of buffers of get_fence and the  *)
(* value that alltoall compares with.                                      *)
NothingLeft ==
  Machine!Finished =>
    /\ messages = {} /\ transfers = {} /\ disk = << >>
    /\ \A p \in Proc : /\ DOMAIN memory[p] \subseteq {Pointers("env"), Pointers("cmp_value")}
                       /\ windows[p] = {} /\ locks[p] = {} /\ exposed[p] = {}
                       /\ file[p] = Machine!NoFile

(* All processes get through all tests: no order of posts, starts, locks,  *)
(* barriers and collective calls deadlocks.                                *)
Completes == <>Machine!Finished

-----------------------------------------------------------------------------
(* What makes the calls of each process correct by themselves, whatever    *)
(* the library delays and whoever comes first.                             *)

(* An operation acquires things that have to be given back: a buffer, its  *)
(* part of a window, a lock, its part in an open file, the file if it is   *)
(* the process it is named after, and what a wait has to be for.           *)
Acquires(p, o) ==
  CASE o.op = "alloc" -> {<<"buffer", s>> : s \in DOMAIN o.buffers}
    [] o.op = "wincreate" -> {<<"window", o.slot>>}
    [] o.op = "lock" -> {<<"lock", o.to>>}
    [] o.op = "post" -> {<<"exposure", p>>}
    [] o.op = "open" -> {<<"open", o.group>>} \cup {<<"file", n>> : n \in {o.name} \cap {p}}
    [] o.op \in {"access", "fileaccess", "fileordered"} -> {<<"transfer", p>>}
    [] OTHER -> {}

Ending == {"fence", "winfree", "unlock", "complete", "sync", "close"}
Releases(p, o) ==
  {<<"transfer", n>> : n \in IF o.op \in Ending THEN {p} ELSE {}}
    \cup CASE o.op = "free" -> {<<"buffer", s>> : s \in o.slots}
           [] o.op = "winfree" -> {<<"window", o.slot>>}
           [] o.op = "unlock" -> {<<"lock", o.to>>}
           [] o.op = "waitexposed" -> {<<"exposure", p>>}
           [] o.op = "close" -> {<<"open", o.group>>}
           [] o.op = "delete" -> {<<"file", o.name>>}
           [] OTHER -> {}

(* What a process holds when n of its operations are over.                 *)
Held(pr, p, n) ==
  {r \in UNION {Acquires(p, pr[p][h]) : h \in 1..n} :
     \E h \in 1..n : /\ r \in Acquires(p, pr[p][h])
                     /\ \A k \in (h + 1)..n : r \notin Releases(p, pr[p][k])}

HasOpen(held) == \E r \in held : r[1] = "open"

(* The operands are of the right kind.                                     *)
WellFormed(o) ==
  /\ o.op = "give" => DOMAIN o.slots \subseteq Proc
  /\ o.op = "post" => o.origins \subseteq Proc
  /\ o.op = "access" => o.kind # "write"
  /\ o.op = "open" => /\ o.name \in o.group /\ o.group \subseteq Proc
                      /\ o.disp \in Int /\ o.stride \in Int
  /\ o.op = "seek" => o.whence \in {"set", "cur", "end"} /\ o.offset \in Int
  /\ o.op = "fileaccess" => o.pointer \in {"individual", "explicit", "shared"}
  /\ o.op = "fileaccess" /\ o.pointer = "explicit" => o.offset \in Int
  /\ o.op \in {"fileaccess", "fileordered"} => o.elements \in Seq(Nat)
  /\ o.op = "fileordered" => o.order \in Seq(Proc) /\ o.group \subseteq Proc
  /\ o.op = "setsize" => o.size \in Nat
  /\ o.op = "expect" => o.what \in {"position", "shared", "size"}

(* Buffers that exist are freed or made windows, and no windows are freed  *)
(* as buffers; one file at a time is open; only the process it is named    *)
(* after deletes a file, when it has closed it.                            *)
InPlace(p, o, held) ==
  /\ o.op = "free" => \A s \in o.slots : <<"buffer", s>> \in held /\ <<"window", s>> \notin held
  /\ o.op = "wincreate" => <<"buffer", o.slot>> \in held
  /\ o.op = "open" => ~HasOpen(held)
  /\ o.op = "close" => <<"open", o.group>> \in held
  /\ o.op \in {"sync", "seek", "fileaccess", "fileordered", "setsize"} => HasOpen(held)
  /\ o.op = "delete" => o.name = p /\ ~HasOpen(held)

(* The processes that open a file together open the same one.              *)
Orderly(pr) ==
  /\ \A p \in Proc :
       /\ pr[p] \in Seq(ToSet(pr[p]))
       /\ \A i \in DOMAIN pr[p] : WellFormed(pr[p][i]) /\ InPlace(p, pr[p][i], Held(pr, p, i - 1))
  /\ \A p, q \in Proc : \A i \in DOMAIN pr[p], j \in DOMAIN pr[q] :
       pr[p][i].op = "open" /\ pr[q][j].op = "open" /\ pr[p][i].group = pr[q][j].group =>
         pr[p][i].name = pr[q][j].name

(* At the end a process holds no more than the two buffers of NothingLeft. *)
Forgotten == {<<"buffer", Pointers("env")>>, <<"buffer", Pointers("cmp_value")>>}
Tidy(pr) == \A p \in Proc : Held(pr, p, Len(pr[p])) \subseteq Forgotten

(* What a process gives to another one, that one collects, and it is given *)
(* once.                                                                   *)
GivesTo(o, q) == o.op = "give" /\ q \in DOMAIN o.slots
CollectsFrom(o, p) ==
  \/ o.op = "take" /\ p \in DOMAIN o.slots
  \/ o.op = "reduce" /\ p \in o.froms

Collected(pr) ==
  \A p, q \in Proc : \A i \in DOMAIN pr[p] :
    GivesTo(pr[p][i], q) =>
      /\ \A h \in DOMAIN pr[p] : GivesTo(pr[p][h], q) /\ pr[p][h].id = pr[p][i].id => h = i
      /\ \E j \in DOMAIN pr[q] : CollectsFrom(pr[q][j], p) /\ pr[q][j].id = pr[p][i].id
=============================================================================
