---------------------------- MODULE StoreMachine ----------------------------
(***************************************************************************)
(* The part of MPI that moves data otherwise than by messages between two  *)
(* processes: collective operations, windows, and files.  A process        *)
(* executes a program, a sequence of operations; its buffers are the slots *)
(* of its memory.  A transfer is an access that has been started and not   *)
(* been performed; when it is performed is free up to the call that must   *)
(* wait for it (the end of an epoch, a wait, a sync, a close).             *)
(*                                                                         *)
(* The library conforms to MPI ("sound"), or it is "faulty": it once       *)
(* loses a transfer or moves the data to or from a wrong place, and has    *)
(* "failed" then.                                                          *)
(***************************************************************************)
EXTENDS Values, FiniteSetsExt

CONSTANT Proc      \* the processes

VARIABLES
  program,    \* what the processes execute
  ip,         \* the next operation of a process
  library,    \* "sound", "faulty" or "failed"
  memory,     \* the buffers of a process: a function from slots to arrays
  transfers,  \* started and not performed
  messages,   \* contributions to collective operations, not yet taken
  windows,    \* the slots of a process that others may access
  locks,      \* who has locked the window of a process, and how
  exposed,    \* the processes whose access a process has posted its window for
  disk,       \* the files: a function from names to data and shared pointer
  file,       \* the file a process has opened
  faults,     \* what a test has reported
  unreported  \* comparisons that failed without a report

vars == <<program, ip, library, memory, transfers, messages, windows, locks, exposed,
          disk, file, faults, unreported>>

Fault == {"data",       \* tst_test_recordfailure
          "position",   \* a pointer or a size is not what it should be
          "nofile",     \* a file to be opened or deleted does not exist
          "inuse",      \* a file is deleted that somebody has open
          "conflict",   \* accesses of one place that may not be concurrent
          "freed"}      \* a buffer that does not exist is used or freed

NoFile == [name |-> -1]        \* files have the numbers of processes as names

(* Every variable has its type; a transfer is one of a call its process    *)
(* has made, an exclusive lock has one holder, and who has a file open has *)
(* opened one that exists.                                                 *)
TypeOK ==
  /\ library \in {"sound", "faulty", "failed"}
  /\ faults \subseteq Fault
  /\ unreported \subseteq Proc
  /\ \A t \in transfers : t.at < ip[t.by]
  /\ \A p \in Proc :
       /\ ip[p] \in 1..(Len(program[p]) + 1)
       /\ windows[p] \subseteq DOMAIN memory[p]
       /\ exposed[p] \subseteq Proc
       /\ \A l \in locks[p] : l.kind = "exclusive" => locks[p] = {l}
       /\ file[p] # NoFile => file[p].name \in DOMAIN disk /\ file[p].position \in Nat
  /\ \A name \in DOMAIN disk : disk[name].shared \in Nat

(* What the processes execute, and against which library, is left to the   *)
(* module that has the programs.                                           *)
Init ==
  /\ ip = [p \in Proc |-> 1]
  /\ memory = [p \in Proc |-> << >>]
  /\ transfers = {}
  /\ messages = {}
  /\ windows = [p \in Proc |-> {}]
  /\ locks = [p \in Proc |-> {}]
  /\ exposed = [p \in Proc |-> {}]
  /\ disk = << >>
  /\ file = [p \in Proc |-> NoFile]
  /\ faults = {}
  /\ unreported = {}

Ended(p) == ip[p] > Len(program[p])
Op(p) == program[p][ip[p]]
Executes(p, op) == ~Ended(p) /\ Op(p).op = op
GoOn(p) == ip' = [ip EXCEPT ![p] = @ + 1]

(* All members of a group leave an operation when all have entered it.     *)
Meet(p, op) ==
  /\ Executes(p, op)
  /\ \A q \in Op(p).group : Executes(q, op) /\ Op(q).group = Op(p).group
GoOnTogether(p) == ip' = [q \in Proc |-> IF q \in Op(p).group THEN ip[q] + 1 ELSE ip[q]]

Blame(condition, fault) == faults' = IF condition THEN faults \cup {fault} ELSE faults

Of(p) == {t \in transfers : t.by = p}
Waited(p) == {t \in Of(p) : t.wait}

Accumulates == {"sum", "max", "min"}

(* The index of an element in a sequence, or 0.                            *)
Find(seq, e) == SelectInSeq(seq, LAMBDA f : f = e)

Data(name) == disk[name].data
Resized(data, n) == [i \in 1..n |-> IF i <= Len(data) THEN data[i] ELSE Unset]

-----------------------------------------------------------------------------
(* The memory of a process.                                                *)

(* tst_type_allocvalues of the slots, some of them set at once.            *)
Alloc(p) ==
  /\ Executes(p, "alloc")
  /\ memory' = [memory EXCEPT ![p] =
       [s \in DOMAIN Op(p).buffers \cup DOMAIN @ |->
          IF s \in DOMAIN Op(p).buffers THEN Op(p).buffers[s] ELSE @[s]]]
  /\ GoOn(p)
  /\ UNCHANGED <<program, library, transfers, messages, windows, locks, exposed, disk, file,
                 faults, unreported>>

Free(p) ==
  /\ Executes(p, "free")
  /\ Blame(~Op(p).slots \subseteq DOMAIN memory[p], "freed")
  /\ memory' = [memory EXCEPT ![p] = [s \in DOMAIN @ \ Op(p).slots |-> @[s]]]
  /\ GoOn(p)
  /\ UNCHANGED <<program, library, transfers, messages, windows, locks, exposed, disk, file,
                 unreported>>

(* Comparisons of the contents of slots; the failure of one is recorded    *)
(* in the list of failed tests, or it is not.                              *)
Check(p) ==
  LET wrong == \E s \in DOMAIN Op(p).expected :
                 IF s \in DOMAIN memory[p]
                 THEN \E k \in DOMAIN Op(p).expected[s] : memory[p][s][k] # Op(p).expected[s][k]
                 ELSE TRUE
  IN  /\ Executes(p, "check")
      /\ Blame(wrong /\ Op(p).recorded, "data")
      /\ unreported' = IF wrong /\ ~Op(p).recorded THEN unreported \cup {p} ELSE unreported
      /\ GoOn(p)
      /\ UNCHANGED <<program, library, memory, transfers, messages, windows, locks, exposed,
                     disk, file>>

-----------------------------------------------------------------------------
(* Collective operations.  A process contributes to one, for some of the   *)
(* others; it takes what some of the others have contributed for it.       *)

Give(p) ==
  /\ Executes(p, "give")
  /\ messages' = messages \cup
       {[id |-> Op(p).id, from |-> p, to |-> q, array |-> memory[p][Op(p).slots[q]]]
          : q \in DOMAIN Op(p).slots}
  /\ GoOn(p)
  /\ UNCHANGED <<program, library, memory, transfers, windows, locks, exposed, disk, file,
                 faults, unreported>>

For(p) == {m \in messages : m.id = Op(p).id /\ m.to = p}

(* Only a faulty library leaves one out.                                   *)
Arrives(given, taken) ==
  IF taken = given THEN UNCHANGED library
  ELSE library = "faulty" /\ Cardinality(given \ taken) = 1 /\ library' = "failed"

(* The contribution of q goes to slots[q].                                 *)
Take(p) ==
  LET froms == DOMAIN Op(p).slots
  IN  /\ Executes(p, "take")
      /\ {m.from : m \in For(p)} = froms
      /\ \E taken \in SUBSET For(p) :
           /\ Arrives(For(p), taken)
           /\ memory' = [memory EXCEPT ![p] =
             [s \in DOMAIN @ |-> IF \E m \in taken : Op(p).slots[m.from] = s
                                THEN (CHOOSE m \in taken : Op(p).slots[m.from] = s).array
                                ELSE @[s]]]
      /\ messages' = messages \ For(p)
      /\ GoOn(p)
      /\ UNCHANGED <<program, transfers, windows, locks, exposed, disk, file, faults, unreported>>

Combined(fun, array, given) ==
  FoldSet(LAMBDA m, a : CombineArrays(fun, a, m.array), array, given)

(* They are combined with what is in the slot mine; the result goes to the *)
(* slot result, which is the same one with MPI_IN_PLACE.                   *)
Reduce(p) ==
  LET o == Op(p)
  IN  /\ Executes(p, "reduce")
      /\ {m.from : m \in For(p)} = o.froms
      /\ \E taken \in SUBSET For(p) :
           /\ Arrives(For(p), taken)
           /\ memory' = [memory EXCEPT ![p][o.result] = Combined(o.fun, memory[p][o.mine], taken)]
      /\ messages' = messages \ For(p)
      /\ GoOn(p)
      /\ UNCHANGED <<program, transfers, windows, locks, exposed, disk, file, faults, unreported>>

Barrier(p) ==
  /\ Meet(p, "barrier")
  /\ GoOnTogether(p)
  /\ UNCHANGED <<program, library, memory, transfers, messages, windows, locks, exposed, disk,
                 file, faults, unreported>>

-----------------------------------------------------------------------------
(* Windows.  A window has one slot of each member of its group.            *)

WinCreate(p) ==
  /\ Meet(p, "wincreate")
  /\ windows' = [q \in Proc |-> IF q \in Op(p).group THEN windows[q] \cup {Op(q).slot}
                                ELSE windows[q]]
  /\ GoOnTogether(p)
  /\ UNCHANGED <<program, library, memory, transfers, messages, locks, exposed, disk, file,
                 faults, unreported>>

(* MPI_Win_fence ends the accesses of all, MPI_Win_free those of all, too. *)
Fence(p) ==
  /\ Meet(p, "fence")
  /\ \A q \in Op(p).group : Of(q) = {}
  /\ GoOnTogether(p)
  /\ UNCHANGED <<program, library, memory, transfers, messages, windows, locks, exposed, disk,
                 file, faults, unreported>>

WinFree(p) ==
  /\ Meet(p, "winfree")
  /\ \A q \in Op(p).group : Of(q) = {}
  /\ windows' = [q \in Proc |-> IF q \in Op(p).group THEN windows[q] \ {Op(q).slot}
                                ELSE windows[q]]
  /\ GoOnTogether(p)
  /\ UNCHANGED <<program, library, memory, transfers, messages, locks, exposed, disk, file,
                 faults, unreported>>

Lock(p) ==
  LET held == locks[Op(p).to]
  IN  /\ Executes(p, "lock")
      /\ held = {} \/ (Op(p).kind = "shared" /\ \A l \in held : l.kind = "shared")
      /\ locks' = [locks EXCEPT ![Op(p).to] = @ \cup {[by |-> p, kind |-> Op(p).kind]}]
      /\ GoOn(p)
      /\ UNCHANGED <<program, library, memory, transfers, messages, windows, exposed, disk,
                     file, faults, unreported>>

Unlock(p) ==
  /\ Executes(p, "unlock")
  /\ Of(p) = {}
  /\ locks' = [locks EXCEPT ![Op(p).to] = {l \in @ : l.by # p}]
  /\ GoOn(p)
  /\ UNCHANGED <<program, library, memory, transfers, messages, windows, exposed, disk, file,
                 faults, unreported>>

(* MPI_Win_start may wait for the post, and does so here.                  *)
Post(p) ==
  /\ Executes(p, "post")
  /\ exposed' = [exposed EXCEPT ![p] = Op(p).origins]
  /\ GoOn(p)
  /\ UNCHANGED <<program, library, memory, transfers, messages, windows, locks, disk, file,
                 faults, unreported>>

Start(p) ==
  /\ Executes(p, "start")
  /\ p \in exposed[Op(p).to]
  /\ GoOn(p)
  /\ UNCHANGED <<program, library, memory, transfers, messages, windows, locks, exposed, disk,
                 file, faults, unreported>>

Complete(p) ==
  /\ Executes(p, "complete")
  /\ Of(p) = {}
  /\ exposed' = [exposed EXCEPT ![Op(p).to] = @ \ {p}]
  /\ GoOn(p)
  /\ UNCHANGED <<program, library, memory, transfers, messages, windows, locks, disk, file,
                 faults, unreported>>

WaitExposed(p) ==
  /\ Executes(p, "waitexposed")
  /\ exposed[p] = {}
  /\ GoOn(p)
  /\ UNCHANGED <<program, library, memory, transfers, messages, windows, locks, exposed, disk,
                 file, faults, unreported>>

(* MPI_Put, MPI_Get and MPI_Accumulate.  Two of an epoch may access one    *)
(* place only if both get or both accumulate.                              *)
Access(p) ==
  LET o == Op(p)
      t == [by |-> p, at |-> ip[p], kind |-> o.kind, to |-> o.to, theirs |-> o.theirs,
            mine |-> o.mine, wait |-> FALSE]
      Concurrent(u) == /\ u.kind \in {"put", "get"} \cup Accumulates
                       /\ u.to = t.to /\ u.theirs = t.theirs
                       /\ u.kind # t.kind \/ t.kind = "put"
  IN  /\ Executes(p, "access")
      /\ transfers' = transfers \cup {t}
      /\ Blame(o.theirs \notin windows[o.to] \/ \E u \in transfers : Concurrent(u), "conflict")
      /\ GoOn(p)
      /\ UNCHANGED <<program, library, memory, messages, windows, locks, exposed, disk, file,
                     unreported>>

-----------------------------------------------------------------------------
(* Files.                                                                  *)

NameOf(p) == file[p].name
Place(p, i) == file[p].disp + file[p].stride * i + 1

(* MPI_File_open with the MPI_File_set_view that follows.  Opening and     *)
(* closing synchronise the group, as they do in all implementations known  *)
(* to the suite; the pointers are at the end of the file in append mode.   *)
Open(p) ==
  LET o == Op(p)
      exists == o.name \in DOMAIN disk
      data == IF exists THEN Data(o.name) ELSE << >>
      start == IF o.append THEN Len(data) ELSE 0
  IN  /\ Meet(p, "open")
      /\ Blame(~exists /\ ~o.create, "nofile")
      /\ disk' = [n \in {o.name} \cup DOMAIN disk |->
                   IF n = o.name THEN [data |-> data, shared |-> start] ELSE disk[n]]
      /\ file' = [q \in Proc |->
                   IF q \in o.group
                   THEN [name |-> o.name, position |-> start, disp |-> Op(q).disp,
                         stride |-> Op(q).stride, atomic |-> o.atomic, seen |-> data]
                   ELSE file[q]]
      /\ GoOnTogether(p)
      /\ UNCHANGED <<program, library, memory, transfers, messages, windows, locks, exposed,
                     unreported>>

Close(p) ==
  /\ Meet(p, "close")
  /\ \A q \in Op(p).group : Of(q) = {}
  /\ file' = [q \in Proc |-> IF q \in Op(p).group THEN NoFile ELSE file[q]]
  /\ GoOnTogether(p)
  /\ UNCHANGED <<program, library, memory, transfers, messages, windows, locks, exposed, disk,
                 faults, unreported>>

(* MPI_File_sync: what was written gets to the file, and what others have  *)
(* brought there can be seen.                                              *)
Sync(p) ==
  /\ Executes(p, "sync")
  /\ Of(p) = {}
  /\ file' = [file EXCEPT ![p].seen = Data(NameOf(p))]
  /\ GoOn(p)
  /\ UNCHANGED <<program, library, memory, transfers, messages, windows, locks, exposed, disk,
                 faults, unreported>>

(* MPI refuses to seek to a place before the first, which MPI_CHECK sees.  *)
Seek(p) ==
  LET to == CASE Op(p).whence = "set" -> Op(p).offset
              [] Op(p).whence = "cur" -> file[p].position + Op(p).offset
              [] Op(p).whence = "end" -> Len(Data(NameOf(p))) + Op(p).offset
  IN  /\ Executes(p, "seek")
      /\ Blame(to < 0, "position")
      /\ file' = [file EXCEPT ![p].position = IF to < 0 THEN @ ELSE to]
      /\ GoOn(p)
      /\ UNCHANGED <<program, library, memory, transfers, messages, windows, locks, exposed, disk,
                     unreported>>

(* An access of n elements at position i of the view of p.  A call that    *)
(* does not block takes or fills the buffer later; the data of one that    *)
(* blocks are out of the buffer when it returns, but in the file only      *)
(* after a sync or a close, unless the file is atomic.                     *)
FileTransfer(p, i) ==
  LET o == Op(p)
      copy == o.kind = "write" /\ ~o.wait
  IN  [by |-> p, at |-> ip[p], kind |-> o.kind, name |-> NameOf(p),
       places |-> [k \in DOMAIN o.elements |-> Place(p, i + k - 1)],
       mine |-> o.mine, elements |-> o.elements, wait |-> o.wait,
       copy |-> IF copy THEN memory[p][o.mine] ELSE << >>]

(* With an individual pointer, or at a position of the caller's.           *)
FileAccess(p) ==
  LET o == Op(p)
      n == Len(o.elements)
  IN  /\ Executes(p, "fileaccess")
      /\ CASE o.pointer = "individual" ->
                 /\ transfers' = transfers \cup {FileTransfer(p, file[p].position)}
                 /\ file' = [file EXCEPT ![p].position = @ + n]
                 /\ UNCHANGED disk
           [] o.pointer = "explicit" ->
                 /\ transfers' = transfers \cup {FileTransfer(p, o.offset)}
                 /\ UNCHANGED <<file, disk>>
           [] o.pointer = "shared" ->
                 /\ transfers' = transfers \cup {FileTransfer(p, disk[NameOf(p)].shared)}
                 /\ disk' = [disk EXCEPT ![NameOf(p)].shared = @ + n]
                 /\ UNCHANGED file
      /\ GoOn(p)
      /\ UNCHANGED <<program, library, memory, messages, windows, locks, exposed, faults,
                     unreported>>

(* MPI_File_write_ordered and MPI_File_read_ordered: one after the other,  *)
(* in the order of the ranks, with the shared pointer.                     *)
FileOrdered(p) ==
  LET n == Len(Op(p).elements)
      name == NameOf(p)
      Before(q) == Find(Op(p).order, q) - 1
  IN  /\ Meet(p, "fileordered")
      /\ transfers' = transfers \cup
           {FileTransfer(q, disk[name].shared + n * Before(q)) : q \in Op(p).group}
      /\ disk' = [disk EXCEPT ![name].shared = @ + n * Len(Op(p).order)]
      /\ GoOnTogether(p)
      /\ UNCHANGED <<program, library, memory, messages, windows, locks, exposed, file, faults,
                     unreported>>

(* MPI_Wait, or the end of a call that blocks.                             *)
Wait(p) ==
  /\ Executes(p, "wait")
  /\ Waited(p) = {}
  /\ GoOn(p)
  /\ UNCHANGED <<program, library, memory, transfers, messages, windows, locks, exposed, disk,
                 file, faults, unreported>>

(* MPI_File_set_size; MPI_File_preallocate never makes a file smaller.     *)
SetSize(p) ==
  LET name == NameOf(p)
      size == IF Op(p).grow /\ Len(Data(name)) > Op(p).size THEN Len(Data(name)) ELSE Op(p).size
  IN  /\ Meet(p, "setsize")
      /\ disk' = [disk EXCEPT ![name].data = Resized(@, size)]
      /\ GoOnTogether(p)
      /\ UNCHANGED <<program, library, memory, transfers, messages, windows, locks, exposed,
                     file, faults, unreported>>

(* The comparison of a pointer or of the size with the expected number,    *)
(* which ends the program if it fails.                                     *)
Expect(p) ==
  LET found == CASE Op(p).what = "position" -> file[p].position
                 [] Op(p).what = "shared" -> disk[NameOf(p)].shared
                 [] Op(p).what = "size" -> Len(Data(NameOf(p)))
  IN  /\ Executes(p, "expect")
      /\ Blame(found # Op(p).number, "position")
      /\ GoOn(p)
      /\ UNCHANGED <<program, library, memory, transfers, messages, windows, locks, exposed,
                     disk, file, unreported>>

Delete(p) ==
  LET name == Op(p).name
  IN  /\ Executes(p, "delete")
      /\ faults' = faults
           \cup (IF Op(p).checked /\ name \notin DOMAIN disk THEN {"nofile"} ELSE {})
           \cup (IF \E q \in Proc : NameOf(q) = name THEN {"inuse"} ELSE {})
      /\ disk' = [n \in DOMAIN disk \ {name} |-> disk[n]]
      /\ GoOn(p)
      /\ UNCHANGED <<program, library, memory, transfers, messages, windows, locks, exposed,
                     file, unreported>>

-----------------------------------------------------------------------------
(* A transfer is performed.                                                *)

Put(t, array) ==
  /\ memory' = [memory EXCEPT ![t.to][t.theirs] =
                  IF t.kind \in Accumulates THEN CombineArrays(t.kind, @, array) ELSE array]
  /\ UNCHANGED disk

Get(t, array) ==
  /\ memory' = [memory EXCEPT ![t.by][t.mine] = array]
  /\ UNCHANGED disk

(* places: where the elements are in the file.                             *)
Grown(size, places) == Max({size} \cup ToSet(places))
Write(t, places) ==
  LET array == IF t.wait THEN memory[t.by][t.mine] ELSE t.copy
      data == Data(t.name)
      size == Grown(Len(data), places)
  IN  /\ disk' = [disk EXCEPT ![t.name].data =
                   [i \in 1..size |->
                      LET k == Find(places, i)
                      IN  IF k = 0 THEN Resized(data, size)[i] ELSE array[t.elements[k]]]]
      /\ UNCHANGED memory

Read(t, places, data) ==
  /\ memory' = [memory EXCEPT ![t.by][t.mine] =
                  [i \in DOMAIN @ |->
                     LET k == Find(t.elements, i)
                     IN  IF k = 0 THEN @[i]
                         ELSE IF places[k] > Len(data) THEN @[i] ELSE data[places[k]]]]
  /\ UNCHANGED disk

(* What a process reads of a file that is not atomic may be as old as its  *)
(* last sync.                                                              *)
Readable(t) ==
  {Data(t.name)} \cup (IF file[t.by].atomic THEN {} ELSE {file[t.by].seen})

Right(t) ==
  CASE t.kind = "get" -> Get(t, memory[t.to][t.theirs])
    [] t.kind = "write" -> Write(t, t.places)
    [] t.kind = "read" -> \E data \in Readable(t) : Read(t, t.places, data)
    [] OTHER -> Put(t, memory[t.by][t.mine])

(* The data of another process, or a place one array further.              *)
Wrong(t) ==
  LET further == [k \in DOMAIN t.places |-> t.places[k] + Len(t.places)]
  IN  CASE t.kind = "get" -> \E q \in Proc \ {t.to} : /\ t.theirs \in windows[q]
                                                    /\ Get(t, memory[q][t.theirs])
        [] t.kind = "write" -> Write(t, further)
        [] t.kind = "read" -> Read(t, further, Data(t.name))
        [] OTHER -> \E q \in Proc \ {t.by} : /\ t.mine \in DOMAIN memory[q]
                                             /\ Put(t, memory[q][t.mine])

Perform(t) ==
  /\ \/ Right(t) /\ UNCHANGED library
     \/ /\ library = "faulty"
        /\ library' = "failed"
        /\ Wrong(t) \/ UNCHANGED <<memory, disk>>
  /\ transfers' = transfers \ {t}
  /\ UNCHANGED <<program, ip, messages, windows, locks, exposed, file, faults, unreported>>

-----------------------------------------------------------------------------

Step(p) ==
  \/ Alloc(p) \/ Free(p) \/ Check(p)
  \/ Give(p) \/ Take(p) \/ Reduce(p) \/ Barrier(p)
  \/ WinCreate(p) \/ Fence(p) \/ WinFree(p) \/ Lock(p) \/ Unlock(p)
  \/ Post(p) \/ Start(p) \/ Complete(p) \/ WaitExposed(p) \/ Access(p)
  \/ Open(p) \/ Close(p) \/ Sync(p) \/ Seek(p) \/ FileAccess(p) \/ FileOrdered(p)
  \/ Wait(p) \/ SetSize(p) \/ Expect(p) \/ Delete(p)

Finished == \A p \in Proc : Ended(p)

Over == Finished /\ UNCHANGED vars

Next ==
  \/ \E p \in Proc : Step(p)
  \/ \E t \in transfers : Perform(t)
  \/ Over
=============================================================================
