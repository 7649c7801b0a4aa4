----------------------------- MODULE FileOutline -----------------------------
(***************************************************************************)
(* What a process can rely on about the files, and what an outline is.     *)
(* What is known of a file has the form of what is known of a slot, but    *)
(* those that meet tell each other what they know.                         *)
(***************************************************************************)
EXTENDS StoreOutline

(* Files.  What a file has, as far as it exists: its size, the shared      *)
(* pointer, and the data, which are unset behind its end.                  *)

Size == 0
Shared == -1
None == -1
Initially(x) == IF x[2] \in {Size, Shared} THEN None ELSE Unset

CellOf(files, x) ==
  IF x[1] \notin DOMAIN files THEN Initially(x)
  ELSE CASE x[2] = Size -> Len(files[x[1]].data)
         [] x[2] = Shared -> files[x[1]].shared
         [] OTHER -> IF x[2] <= Len(files[x[1]].data) THEN files[x[1]].data[x[2]] ELSE Unset

Cells(o, p, n) == o[p][n].cells
File(o, p, n) == o[p][n].file
CellSettled(o, p, n, x) == x \in DOMAIN Cells(o, p, n) /\ Cells(o, p, n)[x].from = {}
CellContent(o, p, n, x) == Cells(o, p, n)[x].value[{}]

(* One of those that execute operation i with p knows that x is v then.    *)
Knows(pr, o, p, i, x, v) ==
  \E q \in Together(pr, p, i) : \A k \in DOMAIN pr[q] : Joint(pr, o, p, i, q, k) =>
    /\ x \in DOMAIN Cells(o, q, k - 1)
    /\ \A a \in Cells(o, q, k - 1)[x].from : Later(pr, o, p, i, a)
    /\ CellContent(o, q, k - 1, x) = v
Exists(pr, o, p, i, name) ==
  \E q \in Together(pr, p, i) : \A k \in DOMAIN pr[q] : Joint(pr, o, p, i, q, k) =>
    CellSettled(o, q, k - 1, <<name, Size>>) /\ CellContent(o, q, k - 1, <<name, Size>>) # None

(* The size of the file that is opened: a new one is empty.                *)
Found(pr, o, p, i, v) ==
  LET x == <<pr[p][i].name, Size>>
  IN  \/ v # None /\ Knows(pr, o, p, i, x, v)
      \/ v = 0 /\ Knows(pr, o, p, i, x, None)

Changing == {"open", "delete", "setsize", "fileordered", "fileaccess"}

(* What a call does to files at once; name is that of the open file.       *)
WritesCell(c, name, x) ==
  CASE c.op = "open" -> x[1] = c.name /\ x[2] \in {Size, Shared}
    [] c.op = "delete" -> x[1] = c.name
    [] c.op = "setsize" -> x[1] = name /\ (x[2] = Size \/ x[2] > c.size)
    [] c.op = "fileordered" -> x[1] = name /\ x[2] = Shared
    [] c.op = "fileaccess" -> c.pointer = "shared" /\ x[1] = name /\ x[2] = Shared
    [] OTHER -> FALSE
SetsCell(pr, o, p, i, x, v) ==
  LET c == pr[p][i]
  IN  CASE c.op = "open" -> IF x[2] = Size \/ c.append THEN Found(pr, o, p, i, v) ELSE v = 0
        [] c.op = "delete" -> v = Initially(x)
        [] c.op = "setsize" ->
             /\ x[2] = Size
             /\ IF c.grow THEN \/ v > c.size /\ Knows(pr, o, p, i, x, v)
                               \/ v = c.size /\ \E d \in 0..c.size : Knows(pr, o, p, i, x, d)
                ELSE v = c.size
        [] c.op = "fileordered" ->
             v \in Int /\ Knows(pr, o, p, i, x, v - Len(c.elements) * Len(c.order))
        [] c.op = "fileaccess" -> v \in Int /\ Knows(pr, o, p, i, x, v - Len(c.elements))
        [] OTHER -> FALSE

(* As for slots; but what one knows all learn who meet it.                 *)
FollowsCell(pr, o, p, i, x) ==
  LET e == Cells(o, p, i)[x]
  IN  IF WritesCell(pr[p][i], File(o, p, i - 1).name, x)
      THEN (\A a \in e.from : Later(pr, o, p, i, a)) /\ SetsCell(pr, o, p, i, x, e.value[{}])
      ELSE \E q \in Together(pr, p, i) : \A k \in DOMAIN pr[q] : Joint(pr, o, p, i, q, k) =>
             /\ x \in DOMAIN Cells(o, q, k - 1)
             /\ LET d == Cells(o, q, k - 1)[x]
                IN  \/ e = d
                    \/ /\ \A a \in d.from : Over(pr, o, p, i, a)
                       /\ \A a \in e.from : Later(pr, o, p, i, a)
                       /\ e.value[{}] = d.value[d.from]

(* Those that do not take part know nothing of what is changed, and those  *)
(* that do all do the same.                                                *)
Undisturbed(pr, o, p, i) ==
  pr[p][i].op \in Changing =>
    \A q \in Proc \ Together(pr, p, i) : \A m \in Places(pr, q) : Meanwhile(o, p, i - 1, q, m) =>
      \A x \in DOMAIN Cells(o, q, m) : ~WritesCell(pr[p][i], File(o, p, i - 1).name, x)
Agreed(pr, o, p, i) ==
  \A q \in Together(pr, p, i) : \A k \in DOMAIN pr[q] : Joint(pr, o, p, i, q, k) =>
    LET c == pr[p][i]
        d == pr[q][k]
    IN  /\ d.op = c.op /\ File(o, q, k - 1).name = File(o, p, i - 1).name
        /\ c.op = "open" => d.name = c.name /\ d.append = c.append /\ d.atomic = c.atomic
        /\ c.op = "setsize" => d.size = c.size /\ d.grow = c.grow
        /\ c.op = "fileordered" => d.order = c.order /\ Len(d.elements) = Len(c.elements)

(* The pointer of a process.                                               *)
SeeksTo(pr, o, p, i, to) ==
  LET c == pr[p][i]
  IN  /\ to \in Nat
      /\ CASE c.whence = "set" -> to = c.offset
           [] c.whence = "cur" -> to = File(o, p, i - 1).position + c.offset
           [] c.whence = "end" -> Knows(pr, o, p, i, <<File(o, p, i - 1).name, Size>>, to - c.offset)
Handles(pr, o, p, i) ==
  LET c == pr[p][i]
      f == File(o, p, i - 1)
      g == File(o, p, i)
  IN  CASE c.op = "open" ->
             /\ g = [name |-> c.name, position |-> g.position, disp |-> c.disp, stride |-> c.stride,
                     atomic |-> c.atomic]
             /\ IF c.append THEN Found(pr, o, p, i, g.position) ELSE g.position = 0
        [] c.op = "close" -> g = Machine!NoFile
        [] c.op = "seek" -> g = [f EXCEPT !.position = g.position] /\ SeeksTo(pr, o, p, i, g.position)
        [] c.op = "fileaccess" /\ c.pointer = "individual" ->
             g = [f EXCEPT !.position = f.position + Len(c.elements)]
        [] OTHER -> g = f

Sees(pr, o, p, i) ==
  \A place \in DOMAIN o[p][i].seen :
    LET c == pr[p][i]
        v == o[p][i].seen[place]
    IN  /\ place \in Nat \ {0} /\ v # Unset
        /\ CASE c.op = "open" -> Knows(pr, o, p, i, <<c.name, place>>, v)
             [] c.op = "sync" -> Knows(pr, o, p, i, <<File(o, p, i - 1).name, place>>, v)
             [] c.op = "close" -> FALSE
             [] OTHER -> place \in DOMAIN o[p][i - 1].seen /\ v = o[p][i - 1].seen[place]

Starts(pr, o, p, i) ==
  LET c == pr[p][i]
      f == File(o, p, i - 1)
  IN  /\ o[p][i].start \in Int
      /\ IF c.op = "fileordered"
         THEN Knows(pr, o, p, i, <<f.name, Shared>>,
                    o[p][i].start - Len(c.elements) * (Machine!Find(c.order, p) - 1))
         ELSE CASE c.pointer = "individual" -> o[p][i].start = f.position
                [] c.pointer = "explicit" -> o[p][i].start = c.offset
                [] c.pointer = "shared" -> Knows(pr, o, p, i, <<f.name, Shared>>, o[p][i].start)

-----------------------------------------------------------------------------
(* What an access does to a file, and to a slot.                           *)

FilePlaces(pr, o, p, i) ==
  [k \in DOMAIN pr[p][i].elements |->
     File(o, p, i - 1).disp + File(o, p, i - 1).stride * (o[p][i].start + k - 1) + 1]

Touches(pr, o, p, i, x) ==
  /\ pr[p][i].op \in FileCalls /\ pr[p][i].kind = "write" /\ x[1] = File(o, p, i - 1).name
  /\ x[2] = Size \/ (x[2] > 0 /\ Machine!Find(FilePlaces(pr, o, p, i), x[2]) # 0)
CellBrought(pr, o, p, i, x, old) ==
  LET c == pr[p][i]
      places == FilePlaces(pr, o, p, i)
  IN  IF x[2] = Size THEN Machine!Grown(old, places)
      ELSE Content(o, p, i - 1, c.mine)[c.elements[Machine!Find(places, x[2])]]

(* What is written is in the buffer as long as it is to be there, and the  *)
(* file is open.                                                           *)
WritesFile(pr, o, p, i) ==
  LET c == pr[p][i]
  IN  /\ Settled(o, p, i - 1, c.mine)
      /\ \A n \in Places(pr, p) : Underway(pr, p, i, n) =>
           /\ c.wait => Settled(o, p, n, c.mine) /\ Content(o, p, n, c.mine) = Content(o, p, i - 1, c.mine)
           /\ \A q \in Proc : \A m \in Places(pr, q) : Meanwhile(o, p, n, q, m) =>
                \A x \in DOMAIN Cells(o, q, m) : Touches(pr, o, p, i, x) =>
                  LET e == Cells(o, q, m)[x]
                  IN  /\ <<p, i>> \in e.from
                      /\ \A come \in SUBSET (e.from \ {<<p, i>>}) :
                           e.value[come \cup {<<p, i>>}] = CellBrought(pr, o, p, i, x, e.value[come])

(* What is read is there, and p has seen it.                               *)
ReadsFile(pr, o, p, i) ==
  LET c == pr[p][i]
      f == File(o, p, i - 1)
      places == FilePlaces(pr, o, p, i)
      At(k) == <<f.name, places[Machine!Find(c.elements, k)]>>
  IN  \A n \in Places(pr, p) : Underway(pr, p, i, n) /\ c.mine \in DOMAIN Slots(o, p, n) =>
        LET e == Slots(o, p, n)[c.mine]
        IN  /\ <<p, i>> \in e.from
            /\ \A come \in SUBSET (e.from \ {<<p, i>>}) :
                 /\ \A k \in DOMAIN e.value[come] : Machine!Find(c.elements, k) # 0 =>
                      /\ At(k)[2] \in Nat \ {0}
                      /\ CellSettled(o, p, n, At(k)) /\ CellContent(o, p, n, At(k)) # Unset
                      /\ ~f.atomic => /\ At(k)[2] \in DOMAIN o[p][n].seen
                                      /\ o[p][n].seen[At(k)[2]] = CellContent(o, p, n, At(k))
                 /\ e.value[come \cup {<<p, i>>}] =
                      [k \in DOMAIN e.value[come] |->
                         IF Machine!Find(c.elements, k) = 0 THEN e.value[come][k]
                         ELSE CellContent(o, p, n, At(k))]

FileCall(pr, o, p, i) ==
  LET c == pr[p][i]
      f == File(o, p, i - 1)
  IN  /\ c.kind \in {"read", "write"}
      /\ Starts(pr, o, p, i)
      /\ \A n \in Places(pr, p) : Underway(pr, p, i, n) =>
           LET g == File(o, p, n) IN g # Machine!NoFile /\ g.name = f.name /\ g.atomic = f.atomic
      /\ IF c.kind = "write" THEN WritesFile(pr, o, p, i) ELSE ReadsFile(pr, o, p, i)

-----------------------------------------------------------------------------

(* What is used is known, and what is compared is as expected.             *)
Uses(pr, o, p, i, c) ==
  /\ c.op = "check" =>
       \A s \in DOMAIN c.expected :
         /\ Settled(o, p, i - 1, s)
         /\ \A k \in DOMAIN c.expected[s] : Content(o, p, i - 1, s)[k] = c.expected[s][k]
  /\ c.op = "give" => \A q \in DOMAIN c.slots : Settled(o, p, i - 1, c.slots[q])
  /\ (c.op = "open" /\ ~c.create) \/ (c.op = "delete" /\ c.checked) => Exists(pr, o, p, i, c.name)
  /\ c.op = "expect" =>
       LET f == File(o, p, i - 1)
           x == <<f.name, Size>>
       IN  /\ f # Machine!NoFile
           /\ CASE c.what = "position" -> f.position = c.number
                [] c.what = "shared" -> Knows(pr, o, p, i, <<f.name, Shared>>, c.number)
                [] c.what = "size" ->
                     /\ x \in DOMAIN Cells(o, p, i - 1)
                     /\ \A come \in SUBSET Cells(o, p, i - 1)[x].from :
                          Cells(o, p, i - 1)[x].value[come] = c.number

(* Access a brings something to slot s of p, or to cell x of a file.       *)
IsAccess(pr, a) ==
  a = <<a[1], a[2]>> /\ a[1] \in Proc /\ a[2] \in DOMAIN pr[a[1]] /\ pr[a[1]][a[2]].op \in Accesses
BringsTo(pr, a, p, s) ==
  /\ IsAccess(pr, a) /\ pr[a[1]][a[2]].kind # "write"
  /\ Target(a[1], pr[a[1]][a[2]]) = [of |-> p, slot |-> s]
BringsToCell(pr, o, a, x) == IsAccess(pr, a) /\ Touches(pr, o, a[1], a[2], x)

Begins(o, p) ==
  /\ o[p][0].slots = << >> /\ o[p][0].windows = {} /\ \A group \in SUBSET Proc : o[p][0].clock[group] = 0
  /\ File(o, p, 0) = Machine!NoFile /\ o[p][0].seen = << >>
  /\ \A x \in DOMAIN Cells(o, p, 0) : Cells(o, p, 0)[x].value[{}] = Initially(x)

Outlined(pr, o) ==
  \A p \in Proc :
    /\ Begins(o, p)
    /\ \A n \in Places(pr, p) :
         /\ \A group \in SUBSET Proc : o[p][n].clock[group] \in Nat
         /\ \A s \in DOMAIN Slots(o, p, n) : \A a \in Slots(o, p, n)[s].from : BringsTo(pr, a, p, s)
         /\ \A x \in DOMAIN Cells(o, p, n) :
              /\ x = <<x[1], x[2]>> /\ x[1] \in Proc /\ x[2] \in {Size, Shared} \cup Nat
              /\ \A a \in Cells(o, p, n)[x].from : BringsToCell(pr, o, a, x)
    /\ \A i \in DOMAIN pr[p] :
         /\ pr[p][i].op \in Singly \cup Meeting
         /\ pr[p][i].op \in Meeting => p \in pr[p][i].group /\ pr[p][i].group \subseteq Proc
         /\ Advances(pr, o, p, i)
         /\ Uses(pr, o, p, i, pr[p][i])
         /\ pr[p][i].op = "access" => Fits(pr, o, p, i) /\ Brings(pr, o, p, i)
         /\ pr[p][i].op \in FileCalls => FileCall(pr, o, p, i)
         /\ \A s \in DOMAIN Slots(o, p, i) : Follows(pr, o, p, i, s)
         /\ Handles(pr, o, p, i) /\ Sees(pr, o, p, i)
         /\ Undisturbed(pr, o, p, i) /\ Agreed(pr, o, p, i)
         /\ \A x \in DOMAIN Cells(o, p, i) : FollowsCell(pr, o, p, i, x)
=============================================================================
