--------------------------- MODULE StoreExecution ---------------------------
(***************************************************************************)
(* The outline of a program.  One execution is enough to find it: the      *)
(* first process that can goes on, and an access is performed at once.     *)
(* That it is an outline is checked, not taken from here.                  *)
(*                                                                         *)
(* at[p] tells how many operations p has executed; memory, clock, windows, *)
(* disk, file and start what there is then; been[p] what there was after   *)
(* each of them.                                                           *)
(***************************************************************************)
EXTENDS FileOutline

Call(pr, st, p) == pr[p][st.at[p] + 1]
OpenData(st, p) == st.disk[st.file[p].name].data

StartOf(pr, st, p) ==
  LET c == Call(pr, st, p)
      shared == st.disk[st.file[p].name].shared
  IN  IF c.op \notin FileCalls THEN 0
      ELSE CASE c.op = "fileordered" -> shared + Len(c.elements) * (Machine!Find(c.order, p) - 1)
             [] c.pointer = "individual" -> st.file[p].position
             [] c.pointer = "explicit" -> c.offset
             [] c.pointer = "shared" -> shared
PlacesOf(pr, st, p) ==
  [k \in DOMAIN Call(pr, st, p).elements |->
     st.file[p].disp + st.file[p].stride * (StartOf(pr, st, p) + k - 1) + 1]

(* The memory of p after its operation.                                    *)
MemoryAfter(pr, st, p) ==
  LET c == Call(pr, st, p)
      For == {m \in st.messages : m.id = c.id /\ m.to = p}
      old == st.memory[p]
  IN  CASE c.op = "alloc" -> c.buffers @@ old
        [] c.op = "free" -> [s \in DOMAIN old \ c.slots |-> old[s]]
        [] c.op = "take" -> [s \in DOMAIN old |->
                               IF \E m \in For : c.slots[m.from] = s
                               THEN (CHOOSE m \in For : c.slots[m.from] = s).array ELSE old[s]]
        [] c.op = "reduce" -> [old EXCEPT ![c.result] = Machine!Combined(c.fun, old[c.mine], For)]
        [] c.op \in FileCalls /\ c.kind = "read" ->
             [old EXCEPT ![c.mine] =
               [k \in DOMAIN @ |->
                  LET h == Machine!Find(c.elements, k)
                      place == PlacesOf(pr, st, p)[h]
                  IN  IF h = 0 \/ place > Len(OpenData(st, p)) THEN @[k] ELSE OpenData(st, p)[place]]]
        [] OTHER -> old

(* The files after an operation of those in ps.                            *)
DataAfter(pr, st, p, data) ==
  LET c == Call(pr, st, p)
      places == PlacesOf(pr, st, p)
  IN  IF c.kind = "read" THEN data
      ELSE [i \in 1..Machine!Grown(Len(data), places) |->
              LET k == Machine!Find(places, i)
              IN  IF k # 0 THEN st.memory[p][c.mine][c.elements[k]]
                  ELSE IF i <= Len(data) THEN data[i] ELSE Unset]
Stored(st, name, data, shared) ==
  [n \in {name} \cup DOMAIN st.disk |->
     IF n = name THEN [data |-> data, shared |-> shared] ELSE st.disk[n]]
OpenedData(st, c) == IF c.name \in DOMAIN st.disk THEN st.disk[c.name].data ELSE << >>
OpenedAt(st, c) == IF c.append THEN Len(OpenedData(st, c)) ELSE 0
DiskAfter(pr, st, p, ps) ==
  LET c == Call(pr, st, p)
      name == st.file[p].name
      shared == st.disk[name].shared
      n == Len(c.elements)
      After == FoldSet(LAMBDA q, data : DataAfter(pr, st, q, data), OpenData(st, p), ps)
  IN  CASE c.op = "open" -> Stored(st, c.name, OpenedData(st, c), OpenedAt(st, c))
        [] c.op = "delete" -> [m \in DOMAIN st.disk \ {c.name} |-> st.disk[m]]
        [] c.op = "setsize" ->
             LET size == IF c.grow THEN Max({c.size, Len(OpenData(st, p))}) ELSE c.size
             IN  Stored(st, name, Machine!Resized(OpenData(st, p), size), shared)
        [] c.op = "fileordered" -> Stored(st, name, After, shared + n * Len(c.order))
        [] c.op = "fileaccess" -> Stored(st, name, After, shared + IF c.pointer = "shared" THEN n ELSE 0)
        [] OTHER -> st.disk
FileAfter(pr, st, p) ==
  LET c == Call(pr, st, p)
      old == st.file[p]
  IN  CASE c.op = "open" -> [name |-> c.name, position |-> OpenedAt(st, c), disp |-> c.disp,
                             stride |-> c.stride, atomic |-> c.atomic]
        [] c.op = "close" -> Machine!NoFile
        [] c.op = "seek" ->
             [old EXCEPT !.position = CASE c.whence = "set" -> c.offset
                                        [] c.whence = "cur" -> @ + c.offset
                                        [] c.whence = "end" -> Len(OpenData(st, p)) + c.offset]
        [] c.op = "fileaccess" ->
             [old EXCEPT !.position = @ + IF c.pointer = "individual" THEN Len(c.elements) ELSE 0]
        [] OTHER -> old

WindowsAfter(pr, st, p) ==
  LET c == Call(pr, st, p)
  IN  CASE c.op = "wincreate" -> st.windows[p] \cup {c.slot}
        [] c.op = "winfree" -> st.windows[p] \ {c.slot}
        [] OTHER -> st.windows[p]

-----------------------------------------------------------------------------

Going(pr, st, p) ==
  LET c == Call(pr, st, p)
  IN  /\ st.at[p] < Len(pr[p])
      /\ c.op \in Meeting => \A q \in c.group : /\ st.at[q] < Len(pr[q])
                                               /\ Call(pr, st, q).op = c.op
                                               /\ Call(pr, st, q).group = c.group
      /\ c.op \in {"take", "reduce"} =>
           \A q \in IF c.op = "take" THEN DOMAIN c.slots ELSE c.froms :
             \E m \in st.messages : m.id = c.id /\ m.to = p /\ m.from = q

Gone(pr, st, p) ==
  LET c == Call(pr, st, p)
      ps == IF c.op \in Meeting THEN c.group ELSE {p}
      t == Target(p, c)
      s == Source(p, c)
      memory2 == IF c.op = "access"
                 THEN [st.memory EXCEPT ![t.of][t.slot] =
                         Brought(c.kind, @, st.memory[s.of][s.slot])]
                 ELSE [q \in Proc |-> IF q \in ps THEN MemoryAfter(pr, st, q) ELSE st.memory[q]]
      clock2 == [q \in Proc |-> IF c.op \in Meeting /\ q \in ps
                                THEN [st.clock[q] EXCEPT ![c.group] = @ + 1] ELSE st.clock[q]]
      windows2 == [q \in Proc |-> IF q \in ps THEN WindowsAfter(pr, st, q) ELSE st.windows[q]]
      file2 == [q \in Proc |-> IF q \in ps THEN FileAfter(pr, st, q) ELSE st.file[q]]
      disk2 == DiskAfter(pr, st, p, ps)
  IN  [at |-> [q \in Proc |-> IF q \in ps THEN st.at[q] + 1 ELSE st.at[q]],
       memory |-> memory2, clock |-> clock2, windows |-> windows2, disk |-> disk2, file |-> file2,
       messages |-> IF c.op = "give"
                    THEN st.messages \cup
                           {[id |-> c.id, from |-> p, to |-> q, array |-> st.memory[p][c.slots[q]]]
                              : q \in DOMAIN c.slots}
                    ELSE st.messages,
       been |-> [q \in Proc |->
                   IF q \in ps
                   THEN Append(st.been[q],
                          [memory |-> memory2[q], clock |-> clock2[q], windows |-> windows2[q],
                           disk |-> disk2, file |-> file2[q], start |-> StartOf(pr, st, q)])
                   ELSE st.been[q]]]

RECURSIVE Execution(_, _)
Execution(pr, st) ==
  LET ps == {p \in Proc : Going(pr, st, p)}
  IN  IF ps = {} THEN st.been
      ELSE LET next == Gone(pr, st, Min(ps)) IN IF next = next THEN Execution(pr, next) ELSE {}

Still == [memory |-> << >>, clock |-> [group \in SUBSET Proc |-> 0], windows |-> {},
          disk |-> << >>, file |-> Machine!NoFile, start |-> 0]
ExecutionOf(pr) ==
  Execution(pr, [at |-> [p \in Proc |-> 0], messages |-> {}, disk |-> << >>,
                 memory |-> [p \in Proc |-> Still.memory], clock |-> [p \in Proc |-> Still.clock],
                 windows |-> [p \in Proc |-> {}], file |-> [p \in Proc |-> Machine!NoFile],
                 been |-> [p \in Proc |-> <<Still>>]])

(* An outline but for what is known of slots and of files.                 *)
FrameOf(been) ==
  [p \in Proc |-> [n \in 0..(Len(been[p]) - 1) |->
     [clock |-> been[p][n + 1].clock, windows |-> been[p][n + 1].windows,
      file |-> been[p][n + 1].file, start |-> been[p][n + 1].start]]]
AccessesOf(pr) == UNION {{<<p, i>> : i \in {j \in DOMAIN pr[p] : pr[p][j].op \in Accesses}} : p \in Proc}

-----------------------------------------------------------------------------
(* Slots.  What is got or read is under way, and what others bring comes   *)
(* between the same meetings.                                              *)

ForItself == {"get", "read"}
ComingFor(pr, o, q, n) ==
  {a \in AccessesOf(pr) :
     LET c == pr[a[1]][a[2]]
     IN  /\ c.kind # "write" /\ Target(a[1], c).of = q
         /\ IF c.kind \in ForItself THEN Underway(pr, q, a[2], n)
            ELSE \A group \in SUBSET Proc : {a[1], q} \subseteq group =>
                   o[a[1]][a[2]].clock[group] = o[q][n].clock[group]}
ComingOf(pr, o) == [q \in Proc |-> [n \in Places(pr, q) |-> ComingFor(pr, o, q, n)]]

(* The last array before any of them has come, with those that have.       *)
Moved(pr, been, a) ==
  LET c == pr[a[1]][a[2]]
  IN  been[a[1]][IF c.kind \in ForItself THEN a[2] + 1 ELSE a[2]].memory[c.mine]
SlotEntry(pr, been, coming, q, n, s) ==
  LET From(m) == {a \in coming[q][m] : Target(a[1], pr[a[1]][a[2]]).slot = s}
      from == From(n)
      before == Max({m \in 0..n : From(m) # from})
      Value(come) == FoldSet(LAMBDA a, array : Brought(pr[a[1]][a[2]].kind, array, Moved(pr, been, a)),
                             been[q][before + 1].memory[s], come)
  IN  [from |-> from,
       value |-> IF from = {} THEN [come \in {{}} |-> been[q][n + 1].memory[s]]
                 ELSE [come \in SUBSET from |-> Value(come)]]

-----------------------------------------------------------------------------
(* Files.  The process it is named after always knows what is in a file,   *)
(* the others that have it open as long as it is.                          *)

LastBefore(pr, p, n, ops) == Max({0} \cup {k \in 1..n : pr[p][k].op \in ops})
IsOpen(o, p, n) == File(o, p, n) # Machine!NoFile

(* For each open of p the writes of those that have the file open with p,  *)
(* for each operation those that are over then, and what they touch.       *)
WritesOf(pr) == {a \in AccessesOf(pr) : pr[a[1]][a[2]].op \in FileCalls /\ pr[a[1]][a[2]].kind = "write"}
LedgerOf(pr, o) ==
  [during |-> [p \in Proc |-> [k \in {j \in DOMAIN pr[p] : pr[p][j].op = "open"} |->
     {a \in WritesOf(pr) : /\ a[1] \in pr[p][k].group
                           /\ Joint(pr, o, p, k, a[1], LastBefore(pr, a[1], a[2], {"open"}))}]],
   over |-> [p \in Proc |-> [k \in DOMAIN pr[p] |-> {a \in WritesOf(pr) : Over(pr, o, p, k, a)}]],
   places |-> [a \in WritesOf(pr) |-> ToSet(FilePlaces(pr, o, a[1], a[2]))]]

(* They are to come until all of them are over.                            *)
ToCome(pr, ledger, o, p, n, x) ==
  LET k == LastBefore(pr, p, n, {"open"})
      all == {a \in ledger.during[p][k] : x[2] = Size \/ x[2] \in ledger.places[a]}
  IN  IF ~IsOpen(o, p, n) \/ File(o, p, n).name # x[1] \/ x[2] = Shared THEN {}
      ELSE IF \E h \in (k + 1)..n : all \subseteq ledger.over[p][h] THEN {} ELSE all
CellEntry(pr, been, ledger, o, p, n, x) ==
  LET from == ToCome(pr, ledger, o, p, n, x)
      before == LastBefore(pr, p, n, {"open", "setsize"})
      After(a, old) ==
        LET c == pr[a[1]][a[2]]
            places == FilePlaces(pr, o, a[1], a[2])
        IN  IF x[2] = Size THEN Machine!Grown(old, places)
            ELSE been[a[1]][a[2]].memory[c.mine][c.elements[Machine!Find(places, x[2])]]
  IN  [from |-> from,
       value |-> IF from = {} THEN [come \in {{}} |-> CellOf(been[p][n + 1].disk, x)]
                 ELSE [come \in SUBSET from |->
                         FoldSet(After, CellOf(been[p][before + 1].disk, x), come)]]

(* The shared pointer is not known when somebody else may move it.         *)
Movable(pr, o, p, n, name) ==
  \E q \in Proc \ {p} : \E j \in DOMAIN pr[q] :
    /\ pr[q][j].op = "fileaccess" /\ pr[q][j].pointer = "shared" /\ File(o, q, j - 1).name = name
    /\ Meanwhile(o, p, n, q, j - 1)

LengthOf(been, name) ==
  Max({0} \cup UNION {{CellOf(been[q][m].disk, <<name, Size>>) : m \in DOMAIN been[q]} : q \in Proc})
CellsOf(pr, o, p, n, length) ==
  UNION {{name} \X ((IF Movable(pr, o, p, n, name) THEN Size ELSE Shared)..length[name]) :
           name \in {m \in Proc : m = p \/ m = File(o, p, n).name}}

SeenOf(pr, been, ledger, o, p, n) ==
  LET k == LastBefore(pr, p, n, {"open", "sync"})
      name == File(o, p, n).name
      data == been[p][k + 1].disk[name].data
  IN  IF ~IsOpen(o, p, n) THEN << >>
      ELSE [place \in {i \in DOMAIN data :
              /\ data[i] # Unset
              /\ pr[p][k].op = "sync" => ToCome(pr, ledger, o, p, k - 1, <<name, i>>) = {}}
              |-> data[place]]

-----------------------------------------------------------------------------

(* Makes TLC compute a value once.                                         *)
Forced(value) == IF value = value THEN value ELSE {}

OutlineOf(pr) ==
  LET been == Forced(ExecutionOf(pr))
      frame == Forced(FrameOf(been))
      coming == Forced(ComingOf(pr, frame))
      ledger == Forced(LedgerOf(pr, frame))
      length == Forced([name \in Proc |-> LengthOf(been, name)])
  IN  Forced([p \in Proc |-> [n \in Places(pr, p) |->
        [clock |-> frame[p][n].clock, windows |-> frame[p][n].windows, file |-> frame[p][n].file,
         start |-> frame[p][n].start,
         seen |-> SeenOf(pr, been, ledger, frame, p, n),
         slots |-> [s \in DOMAIN been[p][n + 1].memory |-> SlotEntry(pr, been, coming, p, n, s)],
         cells |-> [x \in CellsOf(pr, frame, p, n, length) |->
                      CellEntry(pr, been, ledger, frame, p, n, x)]]]])
=============================================================================
