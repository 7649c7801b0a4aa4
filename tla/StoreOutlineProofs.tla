------------------------- MODULE StoreOutlineProofs -------------------------
(***************************************************************************)
(* For any number of processes: if the programs of collective, one-sided   *)
(* or file tests have an outline, then a sound library that delays the     *)
(* data as it likes, and processes that come in any order, make no test    *)
(* fail and no comparison differ.                                          *)
(*                                                                         *)
(* The invariant says that what an outline has of the places of the        *)
(* processes is so: how often they have met, which slots are windows,      *)
(* what is in a slot or in a file when just these data have come, what was *)
(* sent, which file is open where, and what a process has seen of it.      *)
(***************************************************************************)
EXTENDS StoreRunProofs

(* The members of a group have met as often.                               *)
ClockInv(o) ==
  \A group \in SUBSET Proc : \A p, q \in group :
    o[p][ip[p] - 1].clock[group] = o[q][ip[q] - 1].clock[group]

OpenInOutline(o) == \A p \in Proc : windows[p] = o[p][ip[p] - 1].windows

(* A transfer is the access of a call behind its process.                  *)
TransferOf(pr, o, p, i) ==
  LET c == pr[p][i]
  IN  IF c.op = "access"
      THEN [by |-> p, at |-> i, kind |-> c.kind, to |-> c.to, theirs |-> c.theirs, mine |-> c.mine,
            wait |-> FALSE]
      ELSE [by |-> p, at |-> i, kind |-> c.kind, name |-> File(o, p, i - 1).name,
            places |-> FilePlaces(pr, o, p, i), mine |-> c.mine, elements |-> c.elements,
            wait |-> c.wait,
            copy |-> IF c.kind = "write" /\ ~c.wait THEN Content(o, p, i - 1, c.mine) ELSE << >>]
PendingInv(o) ==
  \A t \in transfers :
    /\ t.by \in Proc /\ t.at \in DOMAIN program[t.by] /\ program[t.by][t.at].op \in Accesses
    /\ t = TransferOf(program, o, t.by, t.at)
    /\ Underway(program, t.by, t.at, ip[t.by] - 1)

(* A slot has what it has with the data that have come.                    *)
Delivered(a) == a[2] < ip[a[1]] /\ \A t \in transfers : ~(t.by = a[1] /\ t.at = a[2])
Value(o, p, s) ==
  Slots(o, p, ip[p] - 1)[s].value[{a \in Slots(o, p, ip[p] - 1)[s].from : Delivered(a)}]
SlotInv(o) ==
  \A p \in Proc : \A s \in DOMAIN Slots(o, p, ip[p] - 1) :
    s \in DOMAIN memory[p] /\ memory[p][s] = Value(o, p, s)

SentInv(o) ==
  \A m \in messages :
    m = [id |-> m.id, from |-> m.from, to |-> m.to,
         array |-> Sent(program, o, m.from, m.to, m.id)]

(* The files have what they have with the data that have come.             *)
CellValue(o, p, x) ==
  Cells(o, p, ip[p] - 1)[x].value[{a \in Cells(o, p, ip[p] - 1)[x].from : Delivered(a)}]
CellInv(o) ==
  \A p \in Proc : \A x \in DOMAIN Cells(o, p, ip[p] - 1) : CellOf(disk, x) = CellValue(o, p, x)

(* What a process has open, and what it has seen there.                    *)
Handle(f) ==
  [name |-> f.name, position |-> f.position, disp |-> f.disp, stride |-> f.stride,
   atomic |-> f.atomic]
HandleInv(o) ==
  \A p \in Proc :
    /\ File(o, p, ip[p] - 1) = Machine!NoFile <=> file[p] = Machine!NoFile
    /\ file[p] # Machine!NoFile => File(o, p, ip[p] - 1) = Handle(file[p])
SeenInv(o) ==
  \A p \in Proc : \A place \in DOMAIN o[p][ip[p] - 1].seen :
    /\ file[p] # Machine!NoFile /\ Len(file[p].seen) \in Nat
    /\ place \in Nat \ {0} /\ place <= Len(file[p].seen)
    /\ file[p].seen[place] = o[p][ip[p] - 1].seen[place]

OutlineInv(o) ==
  /\ ClockInv(o) /\ OpenInOutline(o) /\ PendingInv(o) /\ SlotInv(o) /\ SentInv(o)
  /\ CellInv(o) /\ HandleInv(o) /\ SeenInv(o)
  /\ faults = {} /\ unreported = {}

(* What the outline says of the operation a process is at.                 *)
LEMMA AtOutline ==
  ASSUME Orderly(program), PlaceInv, NEW o, Outlined(program, o), NEW x, NEW q \in Proc,
         Machine!Executes(q, x)
  PROVE  /\ x \in Singly \cup Meeting
         /\ ip[q] \in DOMAIN program[q] /\ ip[q] \in Nat \ {0} /\ Machine!Op(q) = program[q][ip[q]]
         /\ Machine!Op(q).op = x /\ program[q][ip[q]].op = x
         /\ x \in Meeting => q \in Machine!Op(q).group /\ Machine!Op(q).group \subseteq Proc
         /\ Advances(program, o, q, ip[q])
         /\ Uses(program, o, q, ip[q], Machine!Op(q))
         /\ x = "access" => Fits(program, o, q, ip[q]) /\ Brings(program, o, q, ip[q])
         /\ x \in FileCalls => FileCall(program, o, q, ip[q])
         /\ \A s \in DOMAIN Slots(o, q, ip[q]) : Follows(program, o, q, ip[q], s)
         /\ Handles(program, o, q, ip[q]) /\ Sees(program, o, q, ip[q])
         /\ Undisturbed(program, o, q, ip[q]) /\ Agreed(program, o, q, ip[q])
         /\ \A y \in DOMAIN Cells(o, q, ip[q]) : FollowsCell(program, o, q, ip[q], y)
<1>1. ip[q] \in DOMAIN program[q] /\ Machine!Op(q) = program[q][ip[q]] /\ Machine!Op(q).op = x
  BY AtOperation
<1>2. /\ program[q][ip[q]].op \in Singly \cup Meeting
      /\ program[q][ip[q]].op \in Meeting =>
           q \in program[q][ip[q]].group /\ program[q][ip[q]].group \subseteq Proc
      /\ Advances(program, o, q, ip[q])
      /\ Uses(program, o, q, ip[q], program[q][ip[q]])
      /\ program[q][ip[q]].op = "access" => Fits(program, o, q, ip[q]) /\ Brings(program, o, q, ip[q])
      /\ program[q][ip[q]].op \in FileCalls => FileCall(program, o, q, ip[q])
      /\ \A s \in DOMAIN Slots(o, q, ip[q]) : Follows(program, o, q, ip[q], s)
      /\ Handles(program, o, q, ip[q]) /\ Sees(program, o, q, ip[q])
      /\ Undisturbed(program, o, q, ip[q]) /\ Agreed(program, o, q, ip[q])
      /\ \A y \in DOMAIN Cells(o, q, ip[q]) : FollowsCell(program, o, q, ip[q], y)
  BY <1>1 DEF Outlined
<1>3. ip[q] \in Nat \ {0}
  BY DEF PlaceInv
<1>4. QED
  BY <1>1, <1>2, <1>3

(* The places of the processes are places of the outline, where clocks are *)
(* numbers and what is to come comes to where it says.                     *)
LEMMA AtPlace ==
  ASSUME Orderly(program), PlaceInv, NEW o, Outlined(program, o), NEW q \in Proc
  PROVE  /\ ip[q] - 1 \in Places(program, q) /\ ip[q] - 1 \in Nat /\ ip[q] \in Nat \ {0}
         /\ \A group \in SUBSET Proc : o[q][ip[q] - 1].clock[group] \in Nat
         /\ \A s \in DOMAIN Slots(o, q, ip[q] - 1) : \A a \in Slots(o, q, ip[q] - 1)[s].from :
              BringsTo(program, a, q, s)
         /\ \A y \in DOMAIN Cells(o, q, ip[q] - 1) :
              /\ y = <<y[1], y[2]>> /\ y[1] \in Proc /\ y[2] \in {Size, Shared} \cup Nat
              /\ \A a \in Cells(o, q, ip[q] - 1)[y].from : BringsToCell(program, o, a, y)
<1>1. Len(program[q]) \in Nat /\ ip[q] \in 1..(Len(program[q]) + 1)
  BY DEF Orderly, PlaceInv
<1>2. ip[q] - 1 \in Places(program, q) /\ ip[q] - 1 \in Nat /\ ip[q] \in Nat \ {0}
  BY <1>1 DEF Places
<1>3. QED
  BY <1>2 DEF Outlined

(* Members of a group leave a meeting together.                            *)
Joined(x) ==
  x \in Meeting =>
    \A q \in Proc : Moves(q, x) =>
      \A r \in Machine!Op(q).group : Moves(r, x) /\ Machine!Op(r).group = Machine!Op(q).group

LEMMA ClockStep ==
  ASSUME Orderly(program), PlaceInv, NEW o, Outlined(program, o), NEW x, Doing(x), NEW q \in Proc,
         NEW group \in SUBSET Proc
  PROVE  /\ ip'[q] = ip[q] => o[q][ip'[q] - 1].clock[group] = o[q][ip[q] - 1].clock[group]
         /\ Moves(q, x) =>
              o[q][ip'[q] - 1].clock[group] = o[q][ip[q] - 1].clock[group] +
                (IF x \in Meeting /\ Machine!Op(q).group = group THEN 1 ELSE 0)
<1>1. ASSUME Moves(q, x)
      PROVE  o[q][ip'[q] - 1].clock[group] = o[q][ip[q] - 1].clock[group] +
               (IF x \in Meeting /\ Machine!Op(q).group = group THEN 1 ELSE 0)
  <2>1. Machine!Executes(q, x) /\ ip'[q] = ip[q] + 1
    BY <1>1 DEF Moves
  <2>2. /\ Advances(program, o, q, ip[q]) /\ ip[q] \in Nat
        /\ Machine!Op(q) = program[q][ip[q]] /\ program[q][ip[q]].op = x
    BY <2>1, AtOutline
  <2>3. ip'[q] - 1 = ip[q]
    BY <2>1, <2>2
  <2>4. QED
    BY <2>2, <2>3 DEF Advances
<1>2. QED
  BY <1>1

LEMMA ClockKept ==
  ASSUME Orderly(program), PlaceInv, NEW o, Outlined(program, o), ClockInv(o), NEW x, Doing(x),
         Joined(x)
  PROVE  ClockInv(o)'
<1>1. SUFFICES ASSUME NEW group \in SUBSET Proc, NEW p \in group, NEW q \in group
               PROVE  o[p][ip'[p] - 1].clock[group] = o[q][ip'[q] - 1].clock[group]
  BY DEF ClockInv
<1> DEFINE Goes(r) == Moves(r, x) /\ x \in Meeting /\ Machine!Op(r).group = group
<1>2. o[p][ip[p] - 1].clock[group] = o[q][ip[q] - 1].clock[group]
  BY DEF ClockInv
<1>3. \A r \in group : o[r][ip'[r] - 1].clock[group] =
                         IF Goes(r) THEN o[r][ip[r] - 1].clock[group] + 1
                                    ELSE o[r][ip[r] - 1].clock[group]
  <2>1. SUFFICES ASSUME NEW r \in group
                 PROVE  o[r][ip'[r] - 1].clock[group] =
                          IF Goes(r) THEN o[r][ip[r] - 1].clock[group] + 1
                                     ELSE o[r][ip[r] - 1].clock[group]
    OBVIOUS
  <2>2. r \in Proc /\ o[r][ip[r] - 1].clock[group] \in Nat
    BY AtPlace
  <2>3. ip'[r] = ip[r] \/ Moves(r, x)
    BY <2>2 DEF Doing
  <2>4. CASE Moves(r, x)
    <3>1. o[r][ip'[r] - 1].clock[group] = o[r][ip[r] - 1].clock[group] +
            (IF x \in Meeting /\ Machine!Op(r).group = group THEN 1 ELSE 0)
      BY <2>2, <2>4, ClockStep
    <3>2. CASE Goes(r)
      BY <3>1, <3>2
    <3>3. CASE ~Goes(r)
      BY <2>2, <2>4, <3>1, <3>3
    <3>4. QED
      BY <3>2, <3>3
  <2>5. CASE ~Moves(r, x)
    BY <2>2, <2>3, <2>5, ClockStep
  <2>6. QED
    BY <2>4, <2>5
<1>4. Goes(p) <=> Goes(q)
  BY DEF Joined
<1> HIDE DEF Goes
<1>5. QED
  BY <1>2, <1>3, <1>4

(* What the processes have executed they have executed meanwhile.          *)
LEMMA Now ==
  ASSUME NEW o, ClockInv(o), NEW p \in Proc, NEW q \in Proc
  PROVE  Meanwhile(o, p, ip[p] - 1, q, ip[q] - 1)
BY DEF ClockInv, Meanwhile

(* Whether the data of an access have come does not change but when they   *)
(* come.                                                                   *)
NothingComes(x) ==
  \/ x \notin Accesses /\ transfers' = transfers
  \/ \E new : /\ transfers' = transfers \cup new
              /\ \A t \in new : t.by \in Proc /\ Moves(t.by, x) /\ t.at = ip[t.by]
              /\ \A q \in Proc : Moves(q, x) => \E t \in new : t.by = q

LEMMA DeliveredKept ==
  ASSUME Orderly(program), PlaceInv, NEW x, Doing(x), NothingComes(x),
         NEW a, a[1] \in Proc, a[2] \in DOMAIN program[a[1]], program[a[1]][a[2]].op \in Accesses
  PROVE  Delivered(a)' <=> Delivered(a)
<1>1. ip[a[1]] \in Nat /\ a[2] \in Nat
  BY DEF PlaceInv, Orderly
<1>2. ip'[a[1]] = ip[a[1]] \/ ip'[a[1]] = ip[a[1]] + 1
  BY DEF Doing, Moves
<1>3. CASE x \notin Accesses /\ transfers' = transfers
  <2>1. a[2] < ip'[a[1]] <=> a[2] < ip[a[1]]
    <3>1. CASE ip'[a[1]] = ip[a[1]]
      BY <3>1
    <3>2. CASE Moves(a[1], x)
      <4>1. program[a[1]][ip[a[1]]].op = x /\ ip'[a[1]] = ip[a[1]] + 1
        BY <3>2 DEF Moves, Machine!Executes, Machine!Op
      <4>2. a[2] # ip[a[1]]
        BY <1>3, <4>1
      <4>3. QED
        BY <1>1, <4>1, <4>2
    <3>3. QED
      BY <3>1, <3>2 DEF Doing
  <2>2. QED
    BY <1>3, <2>1 DEF Delivered
<1>4. ASSUME NEW new, transfers' = transfers \cup new,
             \A t \in new : t.by \in Proc /\ Moves(t.by, x) /\ t.at = ip[t.by],
             \A q \in Proc : Moves(q, x) => \E t \in new : t.by = q
      PROVE  Delivered(a)' <=> Delivered(a)
  <2>1. CASE Moves(a[1], x) /\ a[2] = ip[a[1]]
    <3>1. ~Delivered(a)'
      BY <1>4, <2>1 DEF Delivered
    <3>2. ~Delivered(a)
      BY <1>1, <2>1 DEF Delivered
    <3>3. QED
      BY <3>1, <3>2
  <2>2. CASE ~(Moves(a[1], x) /\ a[2] = ip[a[1]])
    <3>1. a[2] < ip'[a[1]] <=> a[2] < ip[a[1]]
      BY <1>1, <2>2 DEF Doing, Moves
    <3>2. \A t \in new : ~(t.by = a[1] /\ t.at = a[2])
      BY <1>4, <2>2
    <3>3. QED
      BY <1>4, <3>1, <3>2 DEF Delivered
  <2>3. QED
    BY <2>1, <2>2
<1>5. QED
  BY <1>3, <1>4 DEF NothingComes

(* A transfer stays that of a call that its process has not ended.         *)
LEMMA UnderwayKept ==
  ASSUME Orderly(program), PlaceInv, NEW o, PendingInv(o), NEW x, Doing(x), NEW t \in transfers,
         Moves(t.by, x) => ~Ends(program[t.by][t.at], program[t.by][ip[t.by]])
  PROVE  Underway(program, t.by, t.at, ip'[t.by] - 1)
<1>1. t.by \in Proc /\ t.at \in DOMAIN program[t.by] /\ Underway(program, t.by, t.at, ip[t.by] - 1)
  BY DEF PendingInv
<1>2. ip[t.by] \in Nat \ {0} /\ t.at \in Nat
  BY <1>1 DEF PlaceInv, Orderly
<1>3. CASE ip'[t.by] = ip[t.by]
  BY <1>1, <1>3
<1>4. CASE Moves(t.by, x)
  <2>1. ip'[t.by] - 1 = ip[t.by]
    BY <1>2, <1>4 DEF Moves
  <2>2. \A k \in (t.at + 1)..ip[t.by] : k \in (t.at + 1)..(ip[t.by] - 1) \/ k = ip[t.by]
    BY <1>2
  <2>3. t.at <= ip[t.by]
    BY <1>1, <1>2 DEF Underway
  <2>4. QED
    BY <1>1, <1>4, <2>1, <2>2, <2>3 DEF Underway
<1>5. QED
  BY <1>1, <1>3, <1>4 DEF Doing

LEMMA PendingKept ==
  ASSUME Orderly(program), PlaceInv, NEW o, PendingInv(o), NEW x, Doing(x), transfers' = transfers,
         \A t \in transfers :
           Moves(t.by, x) => ~Ends(program[t.by][t.at], program[t.by][ip[t.by]])
  PROVE  PendingInv(o)'
<1>1. ASSUME NEW t \in transfers
      PROVE  Underway(program, t.by, t.at, ip'[t.by] - 1)
  BY <1>1, UnderwayKept
<1>2. program' = program
  BY DEF Doing
<1>3. QED
  BY <1>1, <1>2 DEF PendingInv

(* Those that execute an operation with q are at theirs.                   *)
LEMMA TogetherThere ==
  ASSUME Orderly(program), PlaceInv, NEW o, Outlined(program, o), NEW x, Doing(x), Joined(x),
         ClockInv(o)', NEW q \in Proc, Moves(q, x), NEW r \in Together(program, q, ip[q])
  PROVE  /\ r \in Proc /\ Moves(r, x) /\ ip[r] \in DOMAIN program[r] /\ program[r][ip[r]].op = x
         /\ Joint(program, o, q, ip[q], r, ip[r])
<1>1. /\ Machine!Op(q) = program[q][ip[q]] /\ program[q][ip[q]].op = x
      /\ x \in Meeting => q \in Machine!Op(q).group /\ Machine!Op(q).group \subseteq Proc
  BY AtOutline DEF Moves
<1>2. CASE r = q
  <2>1. ip[r] \in DOMAIN program[r]
    BY <1>2, AtOutline DEF Moves
  <2>2. QED
    BY <1>1, <1>2, <2>1 DEF Joint
<1>3. CASE r # q
  <2>1. x \in Meeting /\ r \in Machine!Op(q).group
    BY <1>1, <1>3 DEF Together
  <2>2. r \in Proc /\ Moves(r, x) /\ Machine!Op(r).group = Machine!Op(q).group
    BY <1>1, <2>1 DEF Joined
  <2>3. /\ ip[r] \in DOMAIN program[r] /\ Machine!Op(r) = program[r][ip[r]]
        /\ program[r][ip[r]].op = x
    BY <2>2, AtOutline DEF Moves
  <2>4. ip'[r] - 1 = ip[r] /\ ip'[q] - 1 = ip[q]
    BY <2>2, AtPlace DEF Moves
  <2>5. o[r][ip[r]].clock[Machine!Op(q).group] = o[q][ip[q]].clock[Machine!Op(q).group]
    <3>1. \A group \in SUBSET Proc : \A u, v \in group :
            o[u][ip'[u] - 1].clock[group] = o[v][ip'[v] - 1].clock[group]
      BY DEF ClockInv
    <3>2. o[r][ip'[r] - 1].clock[Machine!Op(q).group] = o[q][ip'[q] - 1].clock[Machine!Op(q).group]
      BY <1>1, <2>1, <3>1
    <3>3. QED
      BY <2>4, <3>2
  <2>6. QED
    BY <1>1, <1>3, <2>1, <2>2, <2>3, <2>5 DEF Joint
<1>4. QED
  BY <1>2, <1>3

(* What is over has come, and what is later has not.                       *)
LEMMA OverHasCome ==
  ASSUME Orderly(program), PlaceInv, NEW o, Outlined(program, o), NEW x, Doing(x), Joined(x),
         ClockInv(o)', PendingInv(o)', NEW q \in Proc, Moves(q, x),
         NEW a, Over(program, o, q, ip[q], a), a[2] \in Nat
  PROVE  Delivered(a)'
<1>1. /\ a[1] \in Proc /\ Moves(a[1], x) /\ ip[a[1]] \in DOMAIN program[a[1]]
      /\ Joint(program, o, q, ip[q], a[1], ip[a[1]])
  BY TogetherThere DEF Over
<1>2. PICK h \in (a[2] + 1)..ip[a[1]] : Ends(program[a[1]][a[2]], program[a[1]][h])
  BY <1>1 DEF Over
<1>3. ip[a[1]] \in Nat /\ ip'[a[1]] = ip[a[1]] + 1
  BY <1>1 DEF Moves, PlaceInv
<1>4. a[2] < ip'[a[1]]
  BY <1>2, <1>3
<1>5. ASSUME NEW t \in transfers', t.by = a[1], t.at = a[2]
      PROVE  FALSE
  <2>1. Underway(program, t.by, t.at, ip'[t.by] - 1)
    BY <1>5 DEF PendingInv, Doing
  <2>2. h \in (t.at + 1)..(ip'[t.by] - 1)
    BY <1>2, <1>3, <1>5
  <2>3. QED
    BY <1>2, <1>5, <2>1, <2>2 DEF Underway
<1>6. QED
  BY <1>4, <1>5 DEF Delivered

LEMMA LaterHasNot ==
  ASSUME Orderly(program), PlaceInv, NEW o, Outlined(program, o), NEW x, Doing(x), Joined(x),
         NothingComes(x), ClockInv(o)', NEW q \in Proc, Moves(q, x),
         NEW a, Later(program, o, q, ip[q], a), a[2] \in Nat, program[a[1]][a[2]].op \in Accesses
  PROVE  ~Delivered(a)'
<1>1. /\ a[1] \in Proc /\ Moves(a[1], x) /\ ip[a[1]] \in DOMAIN program[a[1]]
      /\ program[a[1]][ip[a[1]]].op = x /\ Joint(program, o, q, ip[q], a[1], ip[a[1]])
  BY TogetherThere DEF Later
<1>2. ip[a[1]] <= a[2]
  BY <1>1 DEF Later
<1>3. ip[a[1]] \in Nat /\ ip'[a[1]] = ip[a[1]] + 1
  BY <1>1 DEF Moves, PlaceInv
<1>4. CASE a[2] = ip[a[1]]
  <2>1. x \in Accesses
    BY <1>1, <1>4
  <2>2. \E t \in transfers' : t.by = a[1] /\ t.at = a[2]
    BY <1>1, <1>4, <2>1 DEF NothingComes
  <2>3. QED
    BY <2>2 DEF Delivered
<1>5. CASE a[2] # ip[a[1]]
  BY <1>2, <1>3, <1>5 DEF Delivered
<1>6. QED
  BY <1>4, <1>5

(* The slots that an operation does not write.                             *)
LEMMA Unwritten ==
  ASSUME Orderly(program), PlaceInv, NEW o, Outlined(program, o), NEW x, Doing(x), Joined(x),
         NothingComes(x), ClockInv(o)', PendingInv(o)', SlotInv(o),
         NEW q \in Proc, Moves(q, x),
         NEW s \in DOMAIN Slots(o, q, ip[q]), s \notin Written(Machine!Op(q))
  PROVE  s \in DOMAIN memory[q] /\ memory[q][s] = Value(o, q, s)'
<1> DEFINE d == Slots(o, q, ip[q] - 1)[s]
           e == Slots(o, q, ip[q])[s]
<1>1. /\ Follows(program, o, q, ip[q], s) /\ Machine!Op(q) = program[q][ip[q]]
      /\ ip[q] \in DOMAIN program[q] /\ ip[q] \in Nat \ {0}
  BY AtOutline DEF Moves
<1>2. /\ s \in DOMAIN Slots(o, q, ip[q] - 1)
      /\ \/ e = d
         \/ /\ \A a \in d.from : Over(program, o, q, ip[q], a)
            /\ \A a \in e.from : Later(program, o, q, ip[q], a)
            /\ e.value[{}] = d.value[d.from]
  BY <1>1 DEF Follows
<1>3. s \in DOMAIN memory[q] /\ memory[q][s] = d.value[{a \in d.from : Delivered(a)}]
  BY <1>2 DEF SlotInv, Value
<1>4. \A a \in d.from \cup e.from : /\ a[1] \in Proc /\ a[2] \in DOMAIN program[a[1]] /\ a[2] \in Nat
                                    /\ program[a[1]][a[2]].op \in Accesses
  <2>1. ip[q] \in Places(program, q) /\ ip[q] - 1 \in Places(program, q)
    BY <1>1 DEF Places, Orderly
  <2>2. \A a \in d.from \cup e.from : BringsTo(program, a, q, s)
    BY <1>2, <2>1 DEF Outlined
  <2>3. QED
    BY <2>2 DEF BringsTo, IsAccess, Orderly
<1>5. ip'[q] - 1 = ip[q]
  BY <1>1 DEF Moves
<1>6. Value(o, q, s)' = e.value[{a \in e.from : Delivered(a)'}]
  BY <1>5 DEF Value
<1> HIDE DEF d, e
<1>7. \A a \in d.from : Delivered(a)' <=> Delivered(a)
  BY <1>4, DeliveredKept
<1>8. CASE e = d
  <2>1. {a \in e.from : Delivered(a)'} = {a \in d.from : Delivered(a)}
    BY <1>7, <1>8
  <2>2. QED
    BY <1>3, <1>6, <1>8, <2>1
<1>9. CASE /\ \A a \in d.from : Over(program, o, q, ip[q], a)
           /\ \A a \in e.from : Later(program, o, q, ip[q], a)
           /\ e.value[{}] = d.value[d.from]
  <2>1. \A a \in d.from : Delivered(a)'
    BY <1>4, <1>9, OverHasCome
  <2>2. {a \in d.from : Delivered(a)} = d.from
    BY <1>7, <2>1
  <2>3. \A a \in e.from : ~Delivered(a)'
    BY <1>4, <1>9, LaterHasNot
  <2>4. {a \in e.from : Delivered(a)'} = {}
    BY <2>3
  <2>5. QED
    BY <1>3, <1>6, <1>9, <2>2, <2>4
<1>10. QED
  BY <1>2, <1>8, <1>9 DEF d, e

(* The slots of a process that does nothing.                               *)
LEMMA Resting ==
  ASSUME Orderly(program), PlaceInv, NEW o, Outlined(program, o), NEW x, Doing(x),
         NothingComes(x), SlotInv(o), NEW q \in Proc, ip'[q] = ip[q],
         NEW s \in DOMAIN Slots(o, q, ip[q] - 1)
  PROVE  s \in DOMAIN memory[q] /\ memory[q][s] = Value(o, q, s)'
<1> DEFINE e == Slots(o, q, ip[q] - 1)[s]
<1>1. s \in DOMAIN memory[q] /\ memory[q][s] = e.value[{a \in e.from : Delivered(a)}]
  BY DEF SlotInv, Value
<1>2. Value(o, q, s)' = e.value[{a \in e.from : Delivered(a)'}]
  BY DEF Value
<1>3. \A a \in e.from : BringsTo(program, a, q, s)
  BY AtPlace
<1> HIDE DEF e
<1>4. \A a \in e.from : Delivered(a)' <=> Delivered(a)
  BY <1>3, DeliveredKept DEF BringsTo, IsAccess
<1>5. {a \in e.from : Delivered(a)'} = {a \in e.from : Delivered(a)}
  BY <1>4
<1>6. QED
  BY <1>1, <1>2, <1>5

(* A slot of which an operation makes what the outline says.               *)
LEMMA WrittenWell ==
  ASSUME Orderly(program), PlaceInv, NEW o, Outlined(program, o), NEW x,
         NEW q \in Proc, Moves(q, x), NEW s \in DOMAIN Slots(o, q, ip[q]),
         s \in Written(Machine!Op(q))
  PROVE  /\ Sets(program, o, q, ip[q], s, Content(o, q, ip[q], s))
         /\ Value(o, q, s)' = Content(o, q, ip[q], s)
<1>1. /\ Follows(program, o, q, ip[q], s) /\ Machine!Op(q) = program[q][ip[q]]
      /\ ip[q] \in Nat \ {0}
  BY AtOutline DEF Moves
<1>2. /\ Slots(o, q, ip[q])[s].from = {}
      /\ Sets(program, o, q, ip[q], s, Content(o, q, ip[q], s))
  BY <1>1 DEF Follows, Content
<1>3. ip'[q] - 1 = ip[q]
  BY <1>1 DEF Moves
<1>4. Value(o, q, s)' = Slots(o, q, ip[q])[s].value[{a \in Slots(o, q, ip[q])[s].from : Delivered(a)'}]
  BY <1>3 DEF Value
<1>5. QED
  BY <1>2, <1>4 DEF Content

(* A slot that is settled has its content.                                 *)
LEMMA SettledHas ==
  ASSUME NEW o, SlotInv(o), NEW q \in Proc, NEW s, Settled(o, q, ip[q] - 1, s)
  PROVE  s \in DOMAIN memory[q] /\ memory[q][s] = Content(o, q, ip[q] - 1, s)
BY DEF SlotInv, Settled, Value, Content

(* The operations that leave the memory alone.                             *)
LEMMA SlotsKept ==
  ASSUME Orderly(program), PlaceInv, NEW o, Outlined(program, o), NEW x, Doing(x), Joined(x),
         NothingComes(x), ClockInv(o)', PendingInv(o)', SlotInv(o), memory' = memory,
         x \notin {"alloc", "free", "take", "reduce"}
  PROVE  SlotInv(o)'
<1>1. SUFFICES ASSUME NEW q \in Proc, NEW s \in DOMAIN Slots(o, q, ip'[q] - 1)
               PROVE  s \in DOMAIN memory[q] /\ memory[q][s] = Value(o, q, s)'
  BY DEF SlotInv
<1>2. CASE ip'[q] = ip[q]
  BY <1>1, <1>2, Resting
<1>3. CASE Moves(q, x)
  <2>1. ip'[q] - 1 = ip[q] /\ Machine!Op(q).op = x
    BY <1>3, AtPlace DEF Moves, Machine!Executes
  <2>2. s \notin Written(Machine!Op(q))
    BY <2>1 DEF Written
  <2>3. QED
    BY <1>1, <1>3, <2>1, <2>2, Unwritten
<1>4. QED
  BY <1>2, <1>3 DEF Doing

(* Operations of one process that write its slots.                         *)
LEMMA SlotsWritten ==
  ASSUME Orderly(program), PlaceInv, NEW o, Outlined(program, o), NEW x, Doing(x), Joined(x),
         NothingComes(x), ClockInv(o)', PendingInv(o)', SlotInv(o),
         NEW p \in Proc, Moves(p, x), \A q \in Proc : Moves(q, x) => q = p,
         \A q \in Proc : q # p => memory'[q] = memory[q],
         \A s : s \in DOMAIN memory[p] /\ s \notin Written(Machine!Op(p)) =>
           s \in DOMAIN memory'[p] /\ memory'[p][s] = memory[p][s],
         \A s \in DOMAIN Slots(o, p, ip[p]) :
           s \in Written(Machine!Op(p)) /\ Sets(program, o, p, ip[p], s, Content(o, p, ip[p], s)) =>
             s \in DOMAIN memory'[p] /\ memory'[p][s] = Content(o, p, ip[p], s)
  PROVE  SlotInv(o)'
<1>1. SUFFICES ASSUME NEW q \in Proc, NEW s \in DOMAIN Slots(o, q, ip'[q] - 1)
               PROVE  s \in DOMAIN memory'[q] /\ memory'[q][s] = Value(o, q, s)'
  BY DEF SlotInv
<1>2. CASE q # p
  <2>1. ip'[q] = ip[q]
    BY <1>2 DEF Doing
  <2>2. QED
    BY <1>1, <1>2, <2>1, Resting
<1>3. CASE q = p
  <2>1. ip'[p] - 1 = ip[p]
    BY AtPlace DEF Moves
  <2>2. CASE s \in Written(Machine!Op(p))
    BY <1>1, <1>3, <2>1, <2>2, WrittenWell
  <2>3. CASE s \notin Written(Machine!Op(p))
    BY <1>1, <1>3, <2>1, <2>3, Unwritten
  <2>4. QED
    BY <2>2, <2>3
<1>4. QED
  BY <1>2, <1>3

-----------------------------------------------------------------------------
(* Files.                                                                  *)

(* What has come of what is known of a place has come after a step, but    *)
(* for what is over or still to come.                                      *)
LEMMA CellSources ==
  ASSUME Orderly(program), PlaceInv, NEW o, Outlined(program, o), NEW q \in Proc,
         NEW n \in Places(program, q), NEW y \in DOMAIN Cells(o, q, n), NEW a \in Cells(o, q, n)[y].from
  PROVE  /\ a[1] \in Proc /\ a[2] \in DOMAIN program[a[1]] /\ a[2] \in Nat
         /\ program[a[1]][a[2]].op \in Accesses
<1>1. BringsToCell(program, o, a, y)
  BY DEF Outlined
<1>2. QED
  BY <1>1 DEF BringsToCell, IsAccess, Orderly

(* What one of those that execute an operation knows is so.                *)
LEMMA KnowsIs ==
  ASSUME Orderly(program), PlaceInv, NEW o, Outlined(program, o), NEW x, Doing(x), Joined(x),
         NothingComes(x), ClockInv(o)', CellInv(o), NEW q \in Proc, Moves(q, x),
         NEW y, NEW v, Knows(program, o, q, ip[q], y, v)
  PROVE  CellOf(disk, y) = v
<1>1. PICK r \in Together(program, q, ip[q]) :
        \A k \in DOMAIN program[r] : Joint(program, o, q, ip[q], r, k) =>
          /\ y \in DOMAIN Cells(o, r, k - 1)
          /\ \A a \in Cells(o, r, k - 1)[y].from : Later(program, o, q, ip[q], a)
          /\ CellContent(o, r, k - 1, y) = v
  BY DEF Knows
<1>2. r \in Proc /\ ip[r] \in DOMAIN program[r] /\ Joint(program, o, q, ip[q], r, ip[r])
  BY TogetherThere
<1> DEFINE d == Cells(o, r, ip[r] - 1)[y]
<1>3. /\ y \in DOMAIN Cells(o, r, ip[r] - 1) /\ d.value[{}] = v
      /\ \A a \in d.from : Later(program, o, q, ip[q], a)
  BY <1>1, <1>2 DEF CellContent
<1>4. ip[r] - 1 \in Places(program, r)
  BY <1>2, AtPlace
<1>5. CellOf(disk, y) = d.value[{a \in d.from : Delivered(a)}]
  BY <1>2, <1>3 DEF CellInv, CellValue
<1>6. \A a \in d.from : /\ a[1] \in Proc /\ a[2] \in DOMAIN program[a[1]] /\ a[2] \in Nat
                        /\ program[a[1]][a[2]].op \in Accesses
  BY <1>2, <1>3, <1>4, CellSources
<1> HIDE DEF d
<1>7. \A a \in d.from : ~Delivered(a)'
  BY <1>3, <1>6, LaterHasNot
<1>8. \A a \in d.from : ~Delivered(a)
  BY <1>6, <1>7, DeliveredKept
<1>9. {a \in d.from : Delivered(a)} = {}
  BY <1>8
<1>10. QED
  BY <1>3, <1>5, <1>9

LEMMA ExistsIs ==
  ASSUME Orderly(program), PlaceInv, NEW o, Outlined(program, o), NEW x, Doing(x), Joined(x),
         ClockInv(o)', CellInv(o), NEW q \in Proc, Moves(q, x),
         NEW name, Exists(program, o, q, ip[q], name)
  PROVE  name \in DOMAIN disk
<1> DEFINE y == <<name, Size>>
<1>1. PICK r \in Together(program, q, ip[q]) :
        \A k \in DOMAIN program[r] : Joint(program, o, q, ip[q], r, k) =>
          CellSettled(o, r, k - 1, y) /\ CellContent(o, r, k - 1, y) # None
  BY DEF Exists
<1>2. r \in Proc /\ ip[r] \in DOMAIN program[r] /\ Joint(program, o, q, ip[q], r, ip[r])
  BY TogetherThere
<1> HIDE DEF y
<1>3. CellSettled(o, r, ip[r] - 1, y) /\ CellContent(o, r, ip[r] - 1, y) # None
  BY <1>1, <1>2
<1>4. CellOf(disk, y) # None
  BY <1>2, <1>3 DEF CellInv, CellValue, CellSettled, CellContent
<1>5. QED
  BY <1>4 DEF y, CellOf, Initially

(* Places that an operation does not write, by those that execute it and   *)
(* by the others; and a place that it writes.                              *)
LEMMA CellUnwritten ==
  ASSUME Orderly(program), PlaceInv, NEW o, Outlined(program, o), NEW x, Doing(x), Joined(x),
         NothingComes(x), ClockInv(o)', PendingInv(o)', CellInv(o), NEW q \in Proc, Moves(q, x),
         NEW y \in DOMAIN Cells(o, q, ip[q]),
         ~WritesCell(program[q][ip[q]], File(o, q, ip[q] - 1).name, y)
  PROVE  CellOf(disk, y) = CellValue(o, q, y)'
<1> DEFINE e == Cells(o, q, ip[q])[y]
           Tells(d) == \/ e = d
                       \/ /\ \A a \in d.from : Over(program, o, q, ip[q], a)
                          /\ \A a \in e.from : Later(program, o, q, ip[q], a)
                          /\ e.value[{}] = d.value[d.from]
<1>1. FollowsCell(program, o, q, ip[q], y) /\ ip[q] \in DOMAIN program[q] /\ ip[q] \in Nat \ {0}
  BY AtOutline DEF Moves
<1>2. PICK r \in Together(program, q, ip[q]) :
        \A k \in DOMAIN program[r] : Joint(program, o, q, ip[q], r, k) =>
          y \in DOMAIN Cells(o, r, k - 1) /\ Tells(Cells(o, r, k - 1)[y])
  BY <1>1 DEF FollowsCell
<1>3. r \in Proc /\ ip[r] \in DOMAIN program[r] /\ Joint(program, o, q, ip[q], r, ip[r])
  BY TogetherThere
<1> DEFINE d == Cells(o, r, ip[r] - 1)[y]
<1> HIDE DEF Tells
<1>4. y \in DOMAIN Cells(o, r, ip[r] - 1) /\ Tells(d)
  BY <1>2, <1>3
<1>5. ip[r] - 1 \in Places(program, r) /\ ip[q] \in Places(program, q)
  BY <1>1, <1>3, AtPlace DEF Places, Orderly
<1>6. CellOf(disk, y) = d.value[{a \in d.from : Delivered(a)}]
  BY <1>3, <1>4 DEF CellInv, CellValue
<1>7. CellValue(o, q, y)' = e.value[{a \in e.from : Delivered(a)'}]
  <2>1. ip'[q] - 1 = ip[q]
    BY <1>1 DEF Moves
  <2>2. QED
    BY <2>1 DEF CellValue
<1>8. \A a \in d.from \cup e.from : /\ a[1] \in Proc /\ a[2] \in DOMAIN program[a[1]] /\ a[2] \in Nat
                                    /\ program[a[1]][a[2]].op \in Accesses
  BY <1>3, <1>4, <1>5, CellSources
<1>9. Tells(d) <=> \/ e = d
                   \/ /\ \A a \in d.from : Over(program, o, q, ip[q], a)
                      /\ \A a \in e.from : Later(program, o, q, ip[q], a)
                      /\ e.value[{}] = d.value[d.from]
  BY DEF Tells
<1> HIDE DEF d, e
<1>10. \A a \in d.from : Delivered(a)' <=> Delivered(a)
  BY <1>8, DeliveredKept
<1>11. CASE e = d
  <2>1. {a \in e.from : Delivered(a)'} = {a \in d.from : Delivered(a)}
    BY <1>10, <1>11
  <2>2. QED
    BY <1>6, <1>7, <1>11, <2>1
<1>12. CASE /\ \A a \in d.from : Over(program, o, q, ip[q], a)
            /\ \A a \in e.from : Later(program, o, q, ip[q], a)
            /\ e.value[{}] = d.value[d.from]
  <2>1. \A a \in d.from : Delivered(a)'
    BY <1>8, <1>12, OverHasCome
  <2>2. {a \in d.from : Delivered(a)} = d.from
    BY <1>10, <2>1
  <2>3. \A a \in e.from : ~Delivered(a)'
    BY <1>8, <1>12, LaterHasNot
  <2>4. {a \in e.from : Delivered(a)'} = {}
    BY <2>3
  <2>5. QED
    BY <1>6, <1>7, <1>12, <2>2, <2>4
<1>13. QED
  BY <1>4, <1>9, <1>11, <1>12

LEMMA CellResting ==
  ASSUME Orderly(program), PlaceInv, NEW o, Outlined(program, o), NEW x, Doing(x),
         NothingComes(x), CellInv(o), NEW q \in Proc, ip'[q] = ip[q],
         NEW y \in DOMAIN Cells(o, q, ip[q] - 1)
  PROVE  CellOf(disk, y) = CellValue(o, q, y)'
<1> DEFINE e == Cells(o, q, ip[q] - 1)[y]
<1>1. CellOf(disk, y) = e.value[{a \in e.from : Delivered(a)}]
  BY DEF CellInv, CellValue
<1>2. CellValue(o, q, y)' = e.value[{a \in e.from : Delivered(a)'}]
  BY DEF CellValue
<1>3. ip[q] - 1 \in Places(program, q)
  BY AtPlace
<1>4. \A a \in e.from : /\ a[1] \in Proc /\ a[2] \in DOMAIN program[a[1]]
                        /\ program[a[1]][a[2]].op \in Accesses
  BY <1>3, CellSources
<1> HIDE DEF e
<1>5. \A a \in e.from : Delivered(a)' <=> Delivered(a)
  BY <1>4, DeliveredKept
<1>6. {a \in e.from : Delivered(a)'} = {a \in e.from : Delivered(a)}
  BY <1>5
<1>7. QED
  BY <1>1, <1>2, <1>6

LEMMA CellWritten ==
  ASSUME Orderly(program), PlaceInv, NEW o, Outlined(program, o), NEW x, Doing(x), Joined(x),
         NothingComes(x), ClockInv(o)', PendingInv(o)', NEW q \in Proc, Moves(q, x),
         NEW y \in DOMAIN Cells(o, q, ip[q]),
         WritesCell(program[q][ip[q]], File(o, q, ip[q] - 1).name, y)
  PROVE  /\ SetsCell(program, o, q, ip[q], y, CellContent(o, q, ip[q], y))
         /\ CellValue(o, q, y)' = CellContent(o, q, ip[q], y)
<1> DEFINE e == Cells(o, q, ip[q])[y]
<1>1. FollowsCell(program, o, q, ip[q], y) /\ ip[q] \in DOMAIN program[q] /\ ip[q] \in Nat \ {0}
  BY AtOutline DEF Moves
<1>2. /\ \A a \in e.from : Later(program, o, q, ip[q], a)
      /\ SetsCell(program, o, q, ip[q], y, e.value[{}])
  BY <1>1 DEF FollowsCell
<1>3. ip[q] \in Places(program, q)
  BY <1>1 DEF Places, Orderly
<1>4. \A a \in e.from : a[2] \in Nat /\ program[a[1]][a[2]].op \in Accesses
  BY <1>3, CellSources
<1>5. CellValue(o, q, y)' = e.value[{a \in e.from : Delivered(a)'}]
  <2>1. ip'[q] - 1 = ip[q]
    BY <1>1 DEF Moves
  <2>2. QED
    BY <2>1 DEF CellValue
<1>6. e.value[{}] = CellContent(o, q, ip[q], y)
  BY DEF CellContent
<1> HIDE DEF e
<1>7. \A a \in e.from : ~Delivered(a)'
  BY <1>2, <1>4, LaterHasNot
<1>8. {a \in e.from : Delivered(a)'} = {}
  BY <1>7
<1>9. QED
  BY <1>2, <1>5, <1>6, <1>8

(* Those that execute an operation together write the same.                *)
LEMMA SameWrites ==
  ASSUME Orderly(program), PlaceInv, NEW o, Outlined(program, o), NEW x, Doing(x), Joined(x),
         ClockInv(o)', NEW p \in Proc, Moves(p, x), NEW q \in Together(program, p, ip[p]), NEW y
  PROVE  WritesCell(program[q][ip[q]], File(o, q, ip[q] - 1).name, y)
           <=> WritesCell(program[p][ip[p]], File(o, p, ip[p] - 1).name, y)
<1>1. CASE q = p
  BY <1>1
<1>2. CASE q # p
  <2>1. /\ program[p][ip[p]].op = x /\ Agreed(program, o, p, ip[p]) /\ x \in Meeting
        /\ ip[q] \in DOMAIN program[q] /\ Joint(program, o, p, ip[p], q, ip[q])
    BY <1>2, AtOutline, TogetherThere DEF Moves, Together
  <2>2. LET c == program[p][ip[p]]
            d == program[q][ip[q]]
        IN  /\ d.op = c.op /\ File(o, q, ip[q] - 1).name = File(o, p, ip[p] - 1).name
            /\ c.op = "open" => d.name = c.name
            /\ c.op = "setsize" => d.size = c.size
    BY <2>1 DEF Agreed
  <2>3. QED
    BY <2>1, <2>2 DEF WritesCell, Meeting
<1>3. QED
  BY <1>1, <1>2

(* The places of files as an outline names them.                           *)
IsCell(y) == y = <<y[1], y[2]>> /\ y[1] \in Proc /\ y[2] \in {Size, Shared} \cup Nat

LEMMA CellsAt ==
  ASSUME Orderly(program), PlaceInv, NEW o, Outlined(program, o), NEW x, Doing(x), NEW q \in Proc,
         NEW y \in DOMAIN Cells(o, q, ip'[q] - 1)
  PROVE  IsCell(y)
<1>1. ip'[q] - 1 \in Places(program, q)
  <2>1. CASE ip'[q] = ip[q]
    BY <2>1, AtPlace
  <2>2. CASE Moves(q, x)
    <3>1. ip'[q] - 1 = ip[q] /\ ip[q] \in DOMAIN program[q] /\ ip[q] \in Nat
      BY <2>2, AtOutline DEF Moves
    <3>2. QED
      BY <3>1 DEF Places, Orderly
  <2>3. QED
    BY <2>1, <2>2 DEF Doing
<1>2. QED
  BY <1>1 DEF Outlined, IsCell

(* The operations that change files; p is one of those that execute it.    *)
(* The places it does not write stay, and the others are as the outline of *)
(* each of those says.                                                     *)
OthersKept(o, p) ==
  \A y : IsCell(y) /\ ~WritesCell(program[p][ip[p]], File(o, p, ip[p] - 1).name, y) =>
    CellOf(disk', y) = CellOf(disk, y)
AsSaid(o, p, x) ==
  \A q \in Proc : Moves(q, x) =>
    \A y, v : /\ IsCell(y) /\ WritesCell(program[p][ip[p]], File(o, p, ip[p] - 1).name, y)
              /\ SetsCell(program, o, q, ip[q], y, v)
              => CellOf(disk', y) = v

LEMMA CellsStep ==
  ASSUME Orderly(program), PlaceInv, NEW o, Outlined(program, o), NEW x, Doing(x), Joined(x),
         NothingComes(x), ClockInv(o), ClockInv(o)', PendingInv(o)', CellInv(o),
         NEW p \in Proc, Moves(p, x),
         \A q \in Proc : Moves(q, x) => q \in Together(program, p, ip[p]),
         OthersKept(o, p), AsSaid(o, p, x)
  PROVE  CellInv(o)'
<1>0. /\ \A y : IsCell(y) /\ ~WritesCell(program[p][ip[p]], File(o, p, ip[p] - 1).name, y) =>
           CellOf(disk', y) = CellOf(disk, y)
      /\ \A q \in Proc : Moves(q, x) =>
           \A y, v : /\ IsCell(y) /\ WritesCell(program[p][ip[p]], File(o, p, ip[p] - 1).name, y)
                     /\ SetsCell(program, o, q, ip[q], y, v)
                     => CellOf(disk', y) = v
  BY DEF OthersKept, AsSaid
<1>1. SUFFICES ASSUME NEW q \in Proc, NEW y \in DOMAIN Cells(o, q, ip'[q] - 1)
               PROVE  CellOf(disk', y) = CellValue(o, q, y)'
  BY DEF CellInv
<1>2. IsCell(y)
  BY CellsAt
<1>3. program[p][ip[p]].op = x /\ Undisturbed(program, o, p, ip[p])
  BY AtOutline DEF Moves
<1>4. CASE Moves(q, x)
  <2>1. ip'[q] - 1 = ip[q]
    BY <1>4, AtPlace DEF Moves
  <2>2. WritesCell(program[q][ip[q]], File(o, q, ip[q] - 1).name, y)
          <=> WritesCell(program[p][ip[p]], File(o, p, ip[p] - 1).name, y)
    BY <1>4, SameWrites
  <2>3. CASE WritesCell(program[p][ip[p]], File(o, p, ip[p] - 1).name, y)
    <3>1. /\ SetsCell(program, o, q, ip[q], y, CellContent(o, q, ip[q], y))
          /\ CellValue(o, q, y)' = CellContent(o, q, ip[q], y)
      BY <1>4, <2>1, <2>2, <2>3, CellWritten
    <3>2. QED
      BY <1>0, <1>2, <1>4, <2>3, <3>1
  <2>4. CASE ~WritesCell(program[p][ip[p]], File(o, p, ip[p] - 1).name, y)
    <3>1. CellOf(disk, y) = CellValue(o, q, y)'
      BY <1>4, <2>1, <2>2, <2>4, CellUnwritten
    <3>2. QED
      BY <1>0, <1>2, <2>4, <3>1
  <2>5. QED
    BY <2>3, <2>4
<1>5. CASE ip'[q] = ip[q]
  <2>1. CellOf(disk, y) = CellValue(o, q, y)'
    BY <1>5, CellResting
  <2>2. q \notin Together(program, p, ip[p])
    BY <1>5, AtPlace, TogetherThere DEF Moves
  <2>3. ~WritesCell(program[p][ip[p]], File(o, p, ip[p] - 1).name, y)
    <3>1. CASE x \in Changing
      <4>1. Meanwhile(o, p, ip[p] - 1, q, ip[q] - 1) /\ ip[q] - 1 \in Places(program, q)
        BY AtPlace, Now
      <4>2. QED
        BY <1>3, <1>5, <2>2, <3>1, <4>1 DEF Undisturbed
    <3>2. CASE x \notin Changing
      BY <1>3, <3>2 DEF WritesCell, Changing
    <3>3. QED
      BY <3>1, <3>2
  <2>4. QED
    BY <1>0, <1>2, <2>1, <2>3
<1>6. QED
  BY <1>4, <1>5 DEF Doing

(* The others.                                                             *)
LEMMA CellsKept ==
  ASSUME Orderly(program), PlaceInv, NEW o, Outlined(program, o), NEW x, Doing(x), Joined(x),
         NothingComes(x), ClockInv(o)', PendingInv(o)', CellInv(o), disk' = disk, x \notin Changing
  PROVE  CellInv(o)'
<1>1. SUFFICES ASSUME NEW q \in Proc, NEW y \in DOMAIN Cells(o, q, ip'[q] - 1)
               PROVE  CellOf(disk, y) = CellValue(o, q, y)'
  BY DEF CellInv
<1>2. CASE ip'[q] = ip[q]
  BY <1>1, <1>2, CellResting
<1>3. CASE Moves(q, x)
  <2>1. ip'[q] - 1 = ip[q] /\ program[q][ip[q]].op = x
    BY <1>3, AtOutline, AtPlace DEF Moves
  <2>2. ~WritesCell(program[q][ip[q]], File(o, q, ip[q] - 1).name, y)
    BY <2>1 DEF WritesCell, Changing
  <2>3. QED
    BY <1>1, <1>3, <2>1, <2>2, CellUnwritten
<1>4. QED
  BY <1>2, <1>3 DEF Doing

(* What a process has open, and what it has seen there.                    *)
LEMMA HandleKept ==
  ASSUME Orderly(program), PlaceInv, NEW o, Outlined(program, o), NEW x, Doing(x), HandleInv(o),
         file' = file, x \notin {"open", "close", "seek", "fileaccess"}
  PROVE  HandleInv(o)'
<1>1. ASSUME NEW q \in Proc
      PROVE  File(o, q, ip'[q] - 1) = File(o, q, ip[q] - 1)
  <2>1. CASE Moves(q, x)
    <3>1. /\ ip'[q] - 1 = ip[q] /\ program[q][ip[q]].op = x /\ Handles(program, o, q, ip[q])
      BY <2>1, AtOutline, AtPlace DEF Moves
    <3>2. QED
      BY <3>1 DEF Handles
  <2>2. CASE ip'[q] = ip[q]
    BY <2>2
  <2>3. QED
    BY <2>1, <2>2 DEF Doing
<1>2. Machine!NoFile' = Machine!NoFile /\ \A f : Handle(f)' = Handle(f)
  BY DEF Machine!NoFile, Handle
<1>3. QED
  BY <1>1, <1>2 DEF HandleInv

LEMMA SeenKept ==
  ASSUME Orderly(program), PlaceInv, NEW o, Outlined(program, o), NEW x, Doing(x), SeenInv(o),
         x \notin {"open", "close", "sync"},
         \A q \in Proc : file[q] # Machine!NoFile =>
           file'[q] # Machine!NoFile /\ file'[q].seen = file[q].seen
  PROVE  SeenInv(o)'
<1>1. ASSUME NEW q \in Proc, NEW place \in DOMAIN o[q][ip'[q] - 1].seen
      PROVE  /\ place \in DOMAIN o[q][ip[q] - 1].seen
             /\ o[q][ip'[q] - 1].seen[place] = o[q][ip[q] - 1].seen[place]
  <2>1. CASE Moves(q, x)
    <3>1. /\ ip'[q] - 1 = ip[q] /\ program[q][ip[q]].op = x /\ Sees(program, o, q, ip[q])
      BY <2>1, AtOutline, AtPlace DEF Moves
    <3>2. QED
      BY <1>1, <3>1 DEF Sees
  <2>2. CASE ip'[q] = ip[q]
    BY <1>1, <2>2
  <2>3. QED
    BY <2>1, <2>2 DEF Doing
<1>2. Machine!NoFile' = Machine!NoFile
  BY DEF Machine!NoFile
<1>3. QED
  BY <1>1, <1>2 DEF SeenInv

(* The windows of a process are those that the outline says.               *)
LEMMA OpenStep ==
  ASSUME Orderly(program), PlaceInv, NEW o, Outlined(program, o), OpenInOutline(o), NEW x, Doing(x),
         NEW q \in Proc
  PROVE  /\ ip'[q] = ip[q] => o[q][ip'[q] - 1].windows = windows[q]
         /\ Moves(q, x) =>
              /\ x = "wincreate" =>
                   o[q][ip'[q] - 1].windows = windows[q] \cup {Machine!Op(q).slot}
              /\ x = "winfree" => o[q][ip'[q] - 1].windows = windows[q] \ {Machine!Op(q).slot}
              /\ x \notin {"wincreate", "winfree"} => o[q][ip'[q] - 1].windows = windows[q]
<1>1. windows[q] = o[q][ip[q] - 1].windows
  BY DEF OpenInOutline
<1>2. ASSUME Moves(q, x)
      PROVE  /\ ip'[q] - 1 = ip[q] /\ Advances(program, o, q, ip[q])
             /\ Machine!Op(q) = program[q][ip[q]] /\ program[q][ip[q]].op = x
  BY <1>2, AtOutline DEF Moves
<1>3. QED
  BY <1>1, <1>2 DEF Advances

(* All that a step does not disturb.                                       *)
LEMMA OutlineRest ==
  ASSUME Orderly(program), PlaceInv, NEW o, Outlined(program, o), OutlineInv(o), NEW x, Doing(x),
         Joined(x), x \notin Accesses, transfers' = transfers,
         x \notin Ending \/ \A q \in Proc : Moves(q, x) => Machine!Of(q) = {},
         x # "wait" \/ \A q \in Proc : Moves(q, x) => Machine!Waited(q) = {}
  PROVE  /\ ClockInv(o)' /\ PendingInv(o)' /\ NothingComes(x)
         /\ windows' = windows /\ x \notin {"wincreate", "winfree"} => OpenInOutline(o)'
         /\ memory' = memory /\ x \notin {"alloc", "free", "take", "reduce"} => SlotInv(o)'
         /\ messages' \subseteq messages => SentInv(o)'
         /\ disk' = disk /\ x \notin Changing => CellInv(o)'
         /\ file' = file /\ x \notin {"open", "close", "seek"} => HandleInv(o)'
         /\ file' = file /\ x \notin {"open", "close", "sync"} => SeenInv(o)'
         /\ faults' = faults => faults' = {}
         /\ unreported' = unreported => unreported' = {}
<1>1. /\ ClockInv(o) /\ OpenInOutline(o) /\ PendingInv(o) /\ SlotInv(o) /\ SentInv(o)
      /\ CellInv(o) /\ HandleInv(o) /\ SeenInv(o) /\ faults = {} /\ unreported = {}
  BY DEF OutlineInv
<1>2. ClockInv(o)'
  BY <1>1, ClockKept
<1>3. ASSUME NEW t \in transfers, Moves(t.by, x)
      PROVE  ~Ends(program[t.by][t.at], program[t.by][ip[t.by]])
  <2>1. /\ t.by \in Proc /\ program[t.by][t.at].op \in Accesses
        /\ t = TransferOf(program, o, t.by, t.at)
    BY <1>1 DEF PendingInv
  <2>2. program[t.by][ip[t.by]].op = x
    BY <1>3, <2>1, AtOutline DEF Moves
  <2>3. x \notin Ending
    BY <1>3, <2>1 DEF Machine!Of
  <2>4. ASSUME x = "wait", program[t.by][t.at].op \in FileCalls, program[t.by][t.at].wait
        PROVE  FALSE
    <3>1. \A q, i : program[q][i].op \in FileCalls =>
            TransferOf(program, o, q, i).wait = program[q][i].wait
      BY DEF TransferOf, FileCalls
    <3> HIDE DEF FileCalls
    <3>4. t.wait = program[t.by][t.at].wait
      <4> HIDE DEF TransferOf
      <4>1. TransferOf(program, o, t.by, t.at).wait = program[t.by][t.at].wait
        BY <2>4, <3>1
      <4>2. QED
        BY <2>1, <4>1
    <3>2. Machine!Waited(t.by) = {}
      BY <1>3, <2>1, <2>4
    <3>3. QED
      BY <2>4, <3>4, <3>2 DEF Machine!Waited, Machine!Of
  <2>5. QED
    BY <2>2, <2>3, <2>4 DEF Ends
<1>4. PendingInv(o)'
  BY <1>1, <1>3, PendingKept
<1>5. NothingComes(x)
  BY DEF NothingComes
<1>6. ASSUME windows' = windows, x \notin {"wincreate", "winfree"}
      PROVE  OpenInOutline(o)'
  <2>1. \A q \in Proc : windows[q] = o[q][ip'[q] - 1].windows
    BY <1>1, <1>6, OpenStep DEF Doing
  <2>2. QED
    BY <1>6, <2>1 DEF OpenInOutline
<1>7. memory' = memory /\ x \notin {"alloc", "free", "take", "reduce"} => SlotInv(o)'
  BY <1>1, <1>2, <1>4, <1>5, SlotsKept
<1>8. ASSUME messages' \subseteq messages  PROVE SentInv(o)'
  <2>1. program' = program
    BY DEF Doing
  <2>2. QED
    BY <1>1, <1>8, <2>1 DEF SentInv
<1>9. disk' = disk /\ x \notin Changing => CellInv(o)'
  BY <1>1, <1>2, <1>4, <1>5, CellsKept
<1>10. file' = file /\ x \notin {"open", "close", "seek"} => HandleInv(o)'
  BY <1>1, HandleKept DEF Accesses, FileCalls
<1>11. file' = file /\ x \notin {"open", "close", "sync"} => SeenInv(o)'
  BY <1>1, SeenKept
<1>12. QED
  BY <1>1, <1>2, <1>4, <1>5, <1>6, <1>7, <1>8, <1>9, <1>10, <1>11

(* The steps that start transfers.                                         *)
LEMMA AccessRest ==
  ASSUME Orderly(program), PlaceInv, NEW o, Outlined(program, o), OutlineInv(o),
         NEW x \in Accesses, Doing(x), Joined(x), NEW new, transfers' = transfers \cup new,
         \A t \in new : /\ t.by \in Proc /\ Moves(t.by, x) /\ t.at = ip[t.by]
                        /\ t = TransferOf(program, o, t.by, t.at),
         \A q \in Proc : Moves(q, x) => \E t \in new : t.by = q,
         UNCHANGED <<memory, windows, messages, unreported>>
  PROVE  /\ ClockInv(o)' /\ PendingInv(o)' /\ NothingComes(x)
         /\ OpenInOutline(o)' /\ SlotInv(o)' /\ SentInv(o)' /\ unreported' = {}
<1>1. /\ ClockInv(o) /\ OpenInOutline(o) /\ PendingInv(o) /\ SlotInv(o) /\ SentInv(o)
      /\ unreported = {}
  BY DEF OutlineInv
<1>2. ClockInv(o)'
  BY <1>1, ClockKept
<1>3. NothingComes(x)
  BY DEF NothingComes
<1>4. x \notin Ending /\ x # "wait" /\ program' = program
  BY DEF Accesses, FileCalls, Ending, Doing
<1>5. ASSUME NEW t \in transfers
      PROVE  Underway(program, t.by, t.at, ip'[t.by] - 1)
  <2>1. t.by \in Proc
    BY <1>1 DEF PendingInv
  <2>2. Moves(t.by, x) => program[t.by][ip[t.by]].op = x
    BY <2>1, AtOutline DEF Moves
  <2>3. Moves(t.by, x) => ~Ends(program[t.by][t.at], program[t.by][ip[t.by]])
    BY <1>4, <2>2 DEF Ends
  <2>4. QED
    BY <1>1, <2>3, UnderwayKept
<1>6. ASSUME NEW t \in new
      PROVE  /\ t.at \in DOMAIN program[t.by] /\ program[t.by][t.at].op \in Accesses
             /\ Underway(program, t.by, t.at, ip'[t.by] - 1)
  <2>1. t.by \in Proc /\ Moves(t.by, x) /\ t.at = ip[t.by]
    OBVIOUS
  <2>2. /\ t.at \in DOMAIN program[t.by] /\ program[t.by][t.at].op = x
        /\ t.at \in Nat /\ ip'[t.by] - 1 = t.at
    BY <2>1, AtOutline DEF Moves
  <2>3. QED
    BY <2>2 DEF Underway
<1>7. PendingInv(o)'
  BY <1>1, <1>4, <1>5, <1>6 DEF PendingInv
<1>8. OpenInOutline(o)'
  <2>1. \A q \in Proc : windows[q] = o[q][ip'[q] - 1].windows
    BY <1>1, OpenStep DEF Doing, Accesses, FileCalls
  <2>2. QED
    BY <2>1 DEF OpenInOutline
<1>9. SlotInv(o)'
  BY <1>1, <1>2, <1>3, <1>7, SlotsKept DEF Accesses, FileCalls
<1>10. SentInv(o)'
  BY <1>1, <1>4 DEF SentInv
<1>11. QED
  BY <1>1, <1>2, <1>3, <1>7, <1>8, <1>9, <1>10

(* The operations that neither start transfers nor wait for any, nor       *)
(* change files.                                                           *)
Steady(x) == x \notin Ending \cup Accesses \cup Changing \cup {"wait"}

(* Operations of one process, and of a group.                              *)
LEMMA AloneJoined ==
  ASSUME PlaceInv, NEW p \in Proc, NEW x, Machine!Executes(p, x), Machine!GoOn(p),
         program' = program, x \notin Meeting
  PROVE  Doing(x) /\ Joined(x) /\ Moves(p, x) /\ \A q \in Proc : Moves(q, x) => q = p
BY Alone DEF Joined

LEMMA JointlyJoined ==
  ASSUME PlaceInv, NEW p \in Proc, NEW x, Machine!Meet(p, x), Machine!GoOnTogether(p),
         program' = program, Machine!Op(p).group \subseteq Proc
  PROVE  /\ Doing(x) /\ Joined(x)
         /\ \A q \in Proc : q \in Machine!Op(p).group <=> Moves(q, x)
BY Jointly DEF Joined

-----------------------------------------------------------------------------
(* Each operation keeps what the outline says.                             *)

LEMMA WindowCallsOutlined ==
  ASSUME Orderly(program), PlaceInv, NEW o, Outlined(program, o), OutlineInv(o), NEW p \in Proc,
         \/ Machine!Lock(p) \/ Machine!Unlock(p) \/ Machine!Post(p) \/ Machine!Start(p)
         \/ Machine!Complete(p) \/ Machine!WaitExposed(p)
  PROVE  OutlineInv(o)'
<1>1. PICK x \in {"lock", "unlock", "post", "start", "complete", "waitexposed"} :
        /\ Machine!Executes(p, x) /\ (x \in {"unlock", "complete"} => Machine!Of(p) = {})
        /\ Machine!GoOn(p)
        /\ UNCHANGED <<program, memory, transfers, messages, windows, disk, file, faults, unreported>>
  BY DEF Machine!Lock, Machine!Unlock, Machine!Post, Machine!Start, Machine!Complete,
     Machine!WaitExposed
<1>2. Doing(x) /\ Joined(x) /\ \A q \in Proc : Moves(q, x) => q = p
  BY <1>1, AloneJoined DEF Meeting
<1>3. x \notin Ending \/ \A q \in Proc : Moves(q, x) => Machine!Of(q) = {}
  BY <1>1, <1>2 DEF Ending
<1>4. x \notin Accesses /\ x \notin Changing
  BY DEF Accesses, FileCalls, Changing
<1>5. QED
  BY <1>1, <1>2, <1>3, <1>4, OutlineRest DEF OutlineInv, Steady

LEMMA BarrierOutlined ==
  ASSUME Orderly(program), PlaceInv, NEW o, Outlined(program, o), OutlineInv(o), NEW p \in Proc,
         Machine!Barrier(p) \/ Machine!Fence(p)
  PROVE  OutlineInv(o)'
<1>1. PICK x \in {"barrier", "fence"} :
        /\ Machine!Meet(p, x) /\ (x = "fence" => \A q \in Machine!Op(p).group : Machine!Of(q) = {})
        /\ Machine!GoOnTogether(p)
        /\ UNCHANGED <<program, memory, transfers, messages, windows, disk, file, faults, unreported>>
  BY DEF Machine!Barrier, Machine!Fence
<1>2. Machine!Op(p).group \subseteq Proc
  BY <1>1, AtOutline DEF Meeting, Machine!Meet
<1>3. Doing(x) /\ Joined(x) /\ \A q \in Proc : q \in Machine!Op(p).group <=> Moves(q, x)
  BY <1>1, <1>2, JointlyJoined
<1>4. x \notin Ending \/ \A q \in Proc : Moves(q, x) => Machine!Of(q) = {}
  BY <1>1, <1>3 DEF Ending
<1>5. x \notin Accesses /\ x \notin Changing
  BY DEF Accesses, FileCalls, Changing
<1>6. QED
  BY <1>1, <1>3, <1>4, <1>5, OutlineRest DEF OutlineInv, Steady

LEMMA WindowOutlined ==
  ASSUME Orderly(program), PlaceInv, NEW o, Outlined(program, o), OutlineInv(o), NEW p \in Proc,
         DOMAIN windows = Proc, Machine!WinCreate(p) \/ Machine!WinFree(p)
  PROVE  OutlineInv(o)'
<1> DEFINE group == Machine!Op(p).group
<1>1. PICK x \in {"wincreate", "winfree"} :
        /\ Machine!Meet(p, x) /\ (x = "winfree" => \A q \in group : Machine!Of(q) = {})
        /\ Machine!GoOnTogether(p)
        /\ windows' = [q \in Proc |->
             IF q \in group THEN IF x = "wincreate" THEN windows[q] \cup {Machine!Op(q).slot}
                                 ELSE windows[q] \ {Machine!Op(q).slot}
             ELSE windows[q]]
        /\ UNCHANGED <<program, memory, transfers, messages, disk, file, faults, unreported>>
  BY DEF Machine!WinCreate, Machine!WinFree
<1>2. group \subseteq Proc
  BY <1>1, AtOutline DEF Meeting, Machine!Meet
<1>3. Doing(x) /\ Joined(x) /\ \A q \in Proc : q \in group <=> Moves(q, x)
  BY <1>1, <1>2, JointlyJoined
<1> HIDE DEF group
<1>4. x \notin Ending \/ \A q \in Proc : Moves(q, x) => Machine!Of(q) = {}
  BY <1>1, <1>3 DEF Ending
<1>5. OpenInOutline(o)
  BY DEF OutlineInv
<1>6. ASSUME NEW q \in Proc
      PROVE  windows'[q] = o[q][ip'[q] - 1].windows
  <2>1. CASE q \in group
    <3>1. windows'[q] = IF x = "wincreate" THEN windows[q] \cup {Machine!Op(q).slot}
                        ELSE windows[q] \ {Machine!Op(q).slot}
      BY <1>1, <2>1
    <3>2. Moves(q, x)
      BY <1>3, <2>1
    <3>3. /\ x = "wincreate" => o[q][ip'[q] - 1].windows = windows[q] \cup {Machine!Op(q).slot}
          /\ x = "winfree" => o[q][ip'[q] - 1].windows = windows[q] \ {Machine!Op(q).slot}
      BY <1>3, <1>5, <3>2, OpenStep
    <3>4. QED
      BY <1>1, <3>1, <3>3
  <2>2. CASE q \notin group
    BY <1>1, <1>3, <1>5, <2>2, OpenStep DEF Doing
  <2>3. QED
    BY <2>1, <2>2
<1>7. OpenInOutline(o)'
  BY <1>6 DEF OpenInOutline
<1>8. x \notin Accesses /\ x \notin Changing
  BY DEF Accesses, FileCalls, Changing
<1>9. QED
  BY <1>1, <1>3, <1>4, <1>7, <1>8, OutlineRest DEF OutlineInv, Steady

LEMMA CheckOutlined ==
  ASSUME Orderly(program), PlaceInv, NEW o, Outlined(program, o), OutlineInv(o), NEW p \in Proc,
         Machine!Check(p)
  PROVE  OutlineInv(o)'
<1> DEFINE expected == Machine!Op(p).expected
           wrong == \E s \in DOMAIN expected :
                      IF s \in DOMAIN memory[p]
                      THEN \E k \in DOMAIN expected[s] : memory[p][s][k] # expected[s][k]
                      ELSE TRUE
<1>1. /\ Machine!Executes(p, "check") /\ Machine!GoOn(p)
      /\ faults' = IF wrong /\ Machine!Op(p).recorded THEN faults \cup {"data"} ELSE faults
      /\ unreported' = IF wrong /\ ~Machine!Op(p).recorded THEN unreported \cup {p} ELSE unreported
      /\ UNCHANGED <<program, memory, transfers, messages, windows, disk, file>>
  BY DEF Machine!Check, Machine!Blame
<1>2. /\ Doing("check") /\ Joined("check") /\ Steady("check")
  BY <1>1, AloneJoined DEF Meeting, Steady, Ending, Accesses, FileCalls, Changing
<1>3. Uses(program, o, p, ip[p], Machine!Op(p)) /\ Machine!Op(p).op = "check"
  BY <1>1, AtOutline
<1>4. SlotInv(o)
  BY DEF OutlineInv
<1>5. ASSUME NEW s \in DOMAIN expected
      PROVE  s \in DOMAIN memory[p] /\ \A k \in DOMAIN expected[s] : memory[p][s][k] = expected[s][k]
  <2>1. /\ Settled(o, p, ip[p] - 1, s)
        /\ \A k \in DOMAIN expected[s] : Content(o, p, ip[p] - 1, s)[k] = expected[s][k]
    BY <1>3 DEF Uses
  <2>2. QED
    BY <1>4, <2>1, SettledHas
<1>6. ~wrong
  BY <1>5
<1> HIDE DEF wrong
<1>7. UNCHANGED <<faults, unreported>>
  BY <1>1, <1>6
<1>8. QED
  BY <1>1, <1>2, <1>7, OutlineRest DEF OutlineInv, Steady

(* Buffers.                                                                *)
LEMMA AllocOutlined ==
  ASSUME Orderly(program), StoreInv, NEW o, Outlined(program, o), OutlineInv(o), NEW p \in Proc,
         Machine!Alloc(p)
  PROVE  OutlineInv(o)'
<1> DEFINE buffers == Machine!Op(p).buffers
<1>1. PlaceInv /\ DOMAIN memory = Proc /\ SlotInv(o)
  BY DEF StoreInv, MemoryInv, OutlineInv
<1>2. /\ Machine!Executes(p, "alloc") /\ Machine!GoOn(p)
      /\ memory' = [memory EXCEPT ![p] =
           [s \in DOMAIN buffers \cup DOMAIN @ |-> IF s \in DOMAIN buffers THEN buffers[s] ELSE @[s]]]
      /\ UNCHANGED <<program, transfers, messages, windows, disk, file, faults, unreported>>
  BY DEF Machine!Alloc
<1>3. /\ Doing("alloc") /\ Joined("alloc") /\ Moves(p, "alloc") /\ Steady("alloc")
      /\ \A q \in Proc : Moves(q, "alloc") => q = p
  BY <1>1, <1>2, AloneJoined DEF Meeting, Steady, Ending, Accesses, FileCalls, Changing
<1>4. Machine!Op(p) = program[p][ip[p]] /\ Machine!Op(p).op = "alloc"
  BY <1>1, <1>2, AtOutline
<1>5. Written(Machine!Op(p)) = DOMAIN buffers
  BY <1>4 DEF Written
<1>6. \A s, array : Sets(program, o, p, ip[p], s, array) => array = buffers[s]
  BY <1>4 DEF Sets
<1> HIDE DEF buffers
<1>7. memory'[p] = [s \in DOMAIN buffers \cup DOMAIN memory[p] |->
                      IF s \in DOMAIN buffers THEN buffers[s] ELSE memory[p][s]]
  BY <1>1, <1>2
<1>8. \A q \in Proc : q # p => memory'[q] = memory[q]
  BY <1>1, <1>2
<1>9. \A s : s \in DOMAIN memory[p] /\ s \notin Written(Machine!Op(p)) =>
        s \in DOMAIN memory'[p] /\ memory'[p][s] = memory[p][s]
  BY <1>5, <1>7
<1>10. \A s \in DOMAIN Slots(o, p, ip[p]) :
         s \in Written(Machine!Op(p)) /\ Sets(program, o, p, ip[p], s, Content(o, p, ip[p], s)) =>
           s \in DOMAIN memory'[p] /\ memory'[p][s] = Content(o, p, ip[p], s)
  BY <1>5, <1>6, <1>7
<1>11. ClockInv(o)' /\ PendingInv(o)' /\ NothingComes("alloc") /\ OpenInOutline(o)' /\ SentInv(o)'
       /\ CellInv(o)' /\ HandleInv(o)' /\ SeenInv(o)' /\ faults' = {} /\ unreported' = {}
  BY <1>1, <1>2, <1>3, OutlineRest DEF Steady
<1>12. SlotInv(o)'
  BY <1>1, <1>3, <1>8, <1>9, <1>10, <1>11, SlotsWritten
<1>13. QED
  BY <1>11, <1>12 DEF OutlineInv

LEMMA FreeOutlined ==
  ASSUME Orderly(program), StoreInv, NEW o, Outlined(program, o), OutlineInv(o), NEW p \in Proc,
         Machine!Free(p)
  PROVE  OutlineInv(o)'
<1> DEFINE slots == Machine!Op(p).slots
<1>1. PlaceInv /\ DOMAIN memory = Proc /\ SlotInv(o) /\ faults = {}
  BY DEF StoreInv, MemoryInv, OutlineInv
<1>2. /\ Machine!Executes(p, "free") /\ Machine!GoOn(p)
      /\ faults' = faults \/ "freed" \in faults'
      /\ memory' = [memory EXCEPT ![p] = [s \in DOMAIN @ \ slots |-> @[s]]]
      /\ UNCHANGED <<program, transfers, messages, windows, disk, file, unreported>>
  BY DEF Machine!Free, Machine!Blame
<1>3. /\ Doing("free") /\ Joined("free") /\ Moves(p, "free") /\ Steady("free")
      /\ \A q \in Proc : Moves(q, "free") => q = p
  BY <1>1, <1>2, AloneJoined DEF Meeting, Steady, Ending, Accesses, FileCalls, Changing
<1>4. Machine!Op(p) = program[p][ip[p]] /\ Machine!Op(p).op = "free"
  BY <1>1, <1>2, AtOutline
<1>5. faults' = faults
  BY <1>2, FreeKeeps DEF StoreInv, OtherInv
<1>6. Written(Machine!Op(p)) = slots
  BY <1>4 DEF Written
<1>7. \A s, array : ~Sets(program, o, p, ip[p], s, array)
  BY <1>4 DEF Sets
<1> HIDE DEF slots
<1>8. memory'[p] = [s \in DOMAIN memory[p] \ slots |-> memory[p][s]]
  BY <1>1, <1>2
<1>9. \A q \in Proc : q # p => memory'[q] = memory[q]
  BY <1>1, <1>2
<1>10. \A s : s \in DOMAIN memory[p] /\ s \notin Written(Machine!Op(p)) =>
         s \in DOMAIN memory'[p] /\ memory'[p][s] = memory[p][s]
  BY <1>6, <1>8
<1>11. ClockInv(o)' /\ PendingInv(o)' /\ NothingComes("free") /\ OpenInOutline(o)' /\ SentInv(o)'
       /\ CellInv(o)' /\ HandleInv(o)' /\ SeenInv(o)' /\ faults' = {} /\ unreported' = {}
  BY <1>1, <1>2, <1>3, <1>5, OutlineRest DEF Steady
<1>12. SlotInv(o)'
  BY <1>1, <1>3, <1>7, <1>9, <1>10, <1>11, SlotsWritten
<1>13. QED
  BY <1>11, <1>12 DEF OutlineInv

-----------------------------------------------------------------------------
(* Contributions to collective operations.                                 *)

(* What is given has, for each receiver, the array that was to be sent.    *)
LEMMA GiveOutlined ==
  ASSUME Orderly(program), Collected(program), StoreInv, NEW o, Outlined(program, o),
         OutlineInv(o), NEW p \in Proc, Machine!Give(p)
  PROVE  OutlineInv(o)'
<1> DEFINE c == Machine!Op(p)
<1>1. PlaceInv /\ SlotInv(o) /\ SentInv(o)
  BY DEF StoreInv, OutlineInv
<1>2. /\ Machine!Executes(p, "give") /\ Machine!GoOn(p)
      /\ messages' = messages \cup
           {[id |-> c.id, from |-> p, to |-> q, array |-> memory[p][c.slots[q]]] : q \in DOMAIN c.slots}
      /\ UNCHANGED <<program, memory, transfers, windows, disk, file, faults, unreported>>
  BY DEF Machine!Give
<1>3. Doing("give") /\ Joined("give") /\ Steady("give")
  BY <1>1, <1>2, AloneJoined DEF Meeting, Steady, Ending, Accesses, FileCalls, Changing
<1>4. /\ ip[p] \in DOMAIN program[p] /\ c = program[p][ip[p]] /\ c.op = "give"
      /\ Uses(program, o, p, ip[p], c)
  BY <1>1, <1>2, AtOutline
<1>5. DOMAIN c.slots \subseteq Proc
  BY <1>1, <1>2, <1>4, AtOperation DEF WellFormed
<1> HIDE DEF c
<1>6. ASSUME NEW q \in DOMAIN c.slots
      PROVE  memory[p][c.slots[q]] = Sent(program, o, p, q, c.id)
  <2> DEFINE Gives(j) == GivesTo(program[p][j], q) /\ program[p][j].id = c.id
  <2>1. Gives(ip[p])
    BY <1>4 DEF GivesTo
  <2>2. \A j \in DOMAIN program[p] : Gives(j) => j = ip[p]
    BY <1>4, <1>5, <2>1 DEF Collected
  <2>3. (CHOOSE j \in DOMAIN program[p] : Gives(j)) = ip[p]
    BY <1>4, <2>1, <2>2
  <2>4. Sent(program, o, p, q, c.id) = Content(o, p, ip[p] - 1, c.slots[q])
    BY <1>4, <2>3 DEF Sent
  <2>5. Settled(o, p, ip[p] - 1, c.slots[q])
    BY <1>4 DEF Uses
  <2>6. QED
    BY <1>1, <2>4, <2>5, SettledHas
<1>7. SentInv(o)'
  BY <1>1, <1>2, <1>6 DEF SentInv
<1>8. QED
  BY <1>1, <1>2, <1>3, <1>7, OutlineRest DEF OutlineInv, Steady

(* What has arrived for a call.                                            *)
LEMMA ForCall ==
  ASSUME NEW o, SentInv(o), NEW p, NEW m \in Machine!For(p)
  PROVE  m = [id |-> Machine!Op(p).id, from |-> m.from, to |-> p,
              array |-> Sent(program, o, m.from, p, Machine!Op(p).id)]
BY DEF Machine!For, SentInv

LEMMA TakeOutlined ==
  ASSUME Orderly(program), StoreInv, NEW o, Outlined(program, o), OutlineInv(o), NEW p \in Proc,
         Machine!Take(p), library' = "sound"
  PROVE  OutlineInv(o)'
<1> DEFINE slots == Machine!Op(p).slots
           given == Machine!For(p)
           Into(s) == {m \in given : slots[m.from] = s}
<1>1. PlaceInv /\ DOMAIN memory = Proc /\ SlotInv(o) /\ SentInv(o)
  BY DEF StoreInv, MemoryInv, OutlineInv
<1>2. PICK taken \in SUBSET given :
        /\ Machine!Arrives(given, taken)
        /\ memory' = [memory EXCEPT ![p] =
             [s \in DOMAIN @ |-> IF \E m \in taken : slots[m.from] = s
                                 THEN (CHOOSE m \in taken : slots[m.from] = s).array ELSE @[s]]]
  BY DEF Machine!Take
<1>3. taken = given
  BY <1>2 DEF Machine!Arrives
<1>4. /\ Machine!Executes(p, "take") /\ Machine!GoOn(p) /\ {m.from : m \in given} = DOMAIN slots
      /\ messages' \subseteq messages
      /\ UNCHANGED <<program, transfers, windows, disk, file, faults, unreported>>
  BY DEF Machine!Take
<1>5. /\ Doing("take") /\ Joined("take") /\ Moves(p, "take") /\ Steady("take")
      /\ \A q \in Proc : Moves(q, "take") => q = p
  BY <1>1, <1>4, AloneJoined DEF Meeting, Steady, Ending, Accesses, FileCalls, Changing
<1>6. Machine!Op(p) = program[p][ip[p]] /\ Machine!Op(p).op = "take"
  BY <1>1, <1>4, AtOutline
<1>7. Written(Machine!Op(p)) = {slots[q] : q \in DOMAIN slots}
  BY <1>6 DEF Written
<1>8. \A s, array : Sets(program, o, p, ip[p], s, array) =>
        /\ s \in DOMAIN Slots(o, p, ip[p] - 1)
        /\ \E q \in DOMAIN slots : /\ slots[q] = s /\ \A r \in DOMAIN slots : slots[r] = s => r = q
                                   /\ array = Sent(program, o, q, p, Machine!Op(p).id)
  BY <1>6 DEF Sets
<1>9. \A m \in given : m.array = Sent(program, o, m.from, p, Machine!Op(p).id)
  BY <1>1, ForCall
<1> HIDE DEF slots, given
<1>10. memory'[p] = [s \in DOMAIN memory[p] |->
                       IF \E m \in given : slots[m.from] = s
                       THEN (CHOOSE m \in given : slots[m.from] = s).array ELSE memory[p][s]]
  BY <1>1, <1>2, <1>3
<1>11. \A q \in Proc : q # p => memory'[q] = memory[q]
  BY <1>1, <1>2
<1>12. \A s : s \in DOMAIN memory[p] /\ s \notin Written(Machine!Op(p)) =>
         s \in DOMAIN memory'[p] /\ memory'[p][s] = memory[p][s]
  BY <1>4, <1>7, <1>10
<1>13. ASSUME NEW s, Sets(program, o, p, ip[p], s, Content(o, p, ip[p], s))
       PROVE  s \in DOMAIN memory'[p] /\ memory'[p][s] = Content(o, p, ip[p], s)
  <2>1. s \in DOMAIN memory[p]
    BY <1>1, <1>8, <1>13 DEF SlotInv
  <2>2. PICK q \in DOMAIN slots :
          /\ slots[q] = s /\ \A r \in DOMAIN slots : slots[r] = s => r = q
          /\ Content(o, p, ip[p], s) = Sent(program, o, q, p, Machine!Op(p).id)
    BY <1>8, <1>13
  <2>3. \E m \in given : slots[m.from] = s
    BY <1>4, <2>2
  <2>4. \A m \in given : slots[m.from] = s => m.array = Content(o, p, ip[p], s)
    BY <1>4, <1>9, <2>2
  <2>5. (CHOOSE m \in given : slots[m.from] = s).array = Content(o, p, ip[p], s)
    BY <2>3, <2>4
  <2>6. QED
    BY <1>10, <2>1, <2>3, <2>5
<1>14. ClockInv(o)' /\ PendingInv(o)' /\ NothingComes("take") /\ OpenInOutline(o)' /\ SentInv(o)'
       /\ CellInv(o)' /\ HandleInv(o)' /\ SeenInv(o)' /\ faults' = {} /\ unreported' = {}
  BY <1>1, <1>4, <1>5, OutlineRest DEF Steady
<1>15. SlotInv(o)'
  BY <1>1, <1>5, <1>11, <1>12, <1>13, <1>14, SlotsWritten
<1>16. QED
  BY <1>14, <1>15 DEF OutlineInv

LEMMA ReduceOutlined ==
  ASSUME Orderly(program), StoreInv, NEW o, Outlined(program, o), OutlineInv(o), NEW p \in Proc,
         Machine!Reduce(p), library' = "sound"
  PROVE  OutlineInv(o)'
<1> DEFINE c == Machine!Op(p)
           given == Machine!For(p)
           Message(q) == [id |-> c.id, from |-> q, to |-> p, array |-> Sent(program, o, q, p, c.id)]
<1>1. PlaceInv /\ DOMAIN memory = Proc /\ SlotInv(o) /\ SentInv(o)
  BY DEF StoreInv, MemoryInv, OutlineInv
<1>2. PICK taken \in SUBSET given :
        /\ Machine!Arrives(given, taken)
        /\ memory' = [memory EXCEPT ![p][c.result] = Machine!Combined(c.fun, memory[p][c.mine], taken)]
  BY DEF Machine!Reduce
<1>3. taken = given
  BY <1>2 DEF Machine!Arrives
<1>4. /\ Machine!Executes(p, "reduce") /\ Machine!GoOn(p) /\ {m.from : m \in given} = c.froms
      /\ messages' \subseteq messages
      /\ UNCHANGED <<program, transfers, windows, disk, file, faults, unreported>>
  BY DEF Machine!Reduce
<1>5. /\ Doing("reduce") /\ Joined("reduce") /\ Moves(p, "reduce") /\ Steady("reduce")
      /\ \A q \in Proc : Moves(q, "reduce") => q = p
  BY <1>1, <1>4, AloneJoined DEF Meeting, Steady, Ending, Accesses, FileCalls, Changing
<1>6. c = program[p][ip[p]] /\ c.op = "reduce"
  BY <1>1, <1>4, AtOutline
<1>7. Written(Machine!Op(p)) = {c.result}
  BY <1>6 DEF Written
<1>8. \A s, array : Sets(program, o, p, ip[p], s, array) =>
        /\ s \in DOMAIN Slots(o, p, ip[p] - 1) /\ Settled(o, p, ip[p] - 1, c.mine)
        /\ array = Machine!Combined(c.fun, Content(o, p, ip[p] - 1, c.mine), {Message(q) : q \in c.froms})
  BY <1>6 DEF Sets
<1>9. \A m \in given : m = Message(m.from)
  BY <1>1, ForCall
<1> HIDE DEF c, given, Message
<1>10. given = {Message(q) : q \in c.froms}
  BY <1>4, <1>9
<1>11. \A q \in Proc : q # p => memory'[q] = memory[q]
  BY <1>1, <1>2
<1>12. \A s : s \in DOMAIN memory[p] =>
         /\ s \in DOMAIN memory'[p]
         /\ memory'[p][s] = IF s = c.result THEN Machine!Combined(c.fun, memory[p][c.mine], given)
                            ELSE memory[p][s]
  BY <1>1, <1>2, <1>3
<1>13. ASSUME NEW s \in Written(Machine!Op(p)),
              Sets(program, o, p, ip[p], s, Content(o, p, ip[p], s))
       PROVE  s \in DOMAIN memory'[p] /\ memory'[p][s] = Content(o, p, ip[p], s)
  <2>1. s \in DOMAIN memory[p] /\ s = c.result
    BY <1>1, <1>7, <1>8, <1>13 DEF SlotInv
  <2>2. memory[p][c.mine] = Content(o, p, ip[p] - 1, c.mine)
    <3>1. Settled(o, p, ip[p] - 1, c.mine)
      BY <1>8, <1>13
    <3>2. QED
      BY <1>1, <3>1, SettledHas
  <2>3. QED
    BY <1>8, <1>10, <1>12, <1>13, <2>1, <2>2
<1>14. ClockInv(o)' /\ PendingInv(o)' /\ NothingComes("reduce") /\ OpenInOutline(o)' /\ SentInv(o)'
       /\ CellInv(o)' /\ HandleInv(o)' /\ SeenInv(o)' /\ faults' = {} /\ unreported' = {}
  BY <1>1, <1>4, <1>5, OutlineRest DEF Steady
<1>15. \A s : s \in DOMAIN memory[p] /\ s \notin Written(Machine!Op(p)) =>
         s \in DOMAIN memory'[p] /\ memory'[p][s] = memory[p][s]
  BY <1>7, <1>12
<1>16. SlotInv(o)'
  BY <1>1, <1>5, <1>11, <1>13, <1>14, <1>15, SlotsWritten
<1>17. QED
  BY <1>14, <1>16 DEF OutlineInv

-----------------------------------------------------------------------------
(* Accesses of windows.                                                    *)

(* An access is of a window that the target has, and no transfer that is   *)
(* under way excludes it.                                                  *)
LEMMA AccessOutlined ==
  ASSUME Orderly(program), PlaceInv, NEW o, Outlined(program, o), OutlineInv(o), NEW p \in Proc,
         Machine!Access(p)
  PROVE  OutlineInv(o)'
<1> DEFINE c == Machine!Op(p)
           t == [by |-> p, at |-> ip[p], kind |-> c.kind, to |-> c.to, theirs |-> c.theirs,
                 mine |-> c.mine, wait |-> FALSE]
           Concurrent(u) == /\ u.kind \in {"put", "get"} \cup Machine!Accumulates
                            /\ u.to = c.to /\ u.theirs = c.theirs
                            /\ u.kind # c.kind \/ c.kind = "put"
<1>1. /\ ClockInv(o) /\ OpenInOutline(o) /\ PendingInv(o) /\ CellInv(o) /\ HandleInv(o) /\ SeenInv(o)
      /\ faults = {}
  BY DEF OutlineInv
<1>2. /\ Machine!Executes(p, "access") /\ Machine!GoOn(p) /\ transfers' = transfers \cup {t}
      /\ \/ faults' = faults
         \/ c.theirs \notin windows[c.to] \/ \E u \in transfers : Concurrent(u)
      /\ UNCHANGED <<program, memory, messages, windows, disk, file, unreported>>
  BY DEF Machine!Access, Machine!Blame
<1>3. /\ Doing("access") /\ Joined("access") /\ Moves(p, "access")
      /\ \A q \in Proc : Moves(q, "access") => q = p
  BY <1>2, AloneJoined DEF Meeting
<1>4. /\ c = program[p][ip[p]] /\ c.op = "access" /\ ip[p] \in DOMAIN program[p]
      /\ ip[p] \in Nat \ {0} /\ Fits(program, o, p, ip[p])
  BY <1>2, AtOutline
<1>5. t = TransferOf(program, o, p, ip[p]) /\ t.by = p /\ t.at = ip[p]
  BY <1>4 DEF TransferOf
<1>6. c.to \in Proc /\ c.theirs \in windows[c.to]
  <2>1. c.to \in Proc
    BY <1>4 DEF Fits
  <2>2. ip[c.to] - 1 \in Places(program, c.to) /\ Meanwhile(o, p, ip[p] - 1, c.to, ip[c.to] - 1)
    BY <1>1, <2>1, AtPlace, Now
  <2>3. QED
    BY <1>1, <1>4, <2>1, <2>2 DEF Fits, OpenInOutline
<1>7. ASSUME NEW u \in transfers  PROVE ~Concurrent(u)
  <2>1. /\ u.by \in Proc /\ u.at \in DOMAIN program[u.by] /\ program[u.by][u.at].op \in Accesses
        /\ u = TransferOf(program, o, u.by, u.at)
        /\ Underway(program, u.by, u.at, ip[u.by] - 1)
    BY <1>1 DEF PendingInv
  <2>2. CASE program[u.by][u.at].op = "access"
    <3>1. ip[u.by] - 1 \in Places(program, u.by) /\ Meanwhile(o, p, ip[p] - 1, u.by, ip[u.by] - 1)
      BY <1>1, <2>1, AtPlace, Now
    <3>2. ~Excludes(program[p][ip[p]], program[u.by][u.at])
      BY <1>4, <2>1, <2>2, <3>1 DEF Fits
    <3>3. /\ u.kind = program[u.by][u.at].kind /\ u.to = program[u.by][u.at].to
          /\ u.theirs = program[u.by][u.at].theirs
      BY <2>1, <2>2 DEF TransferOf
    <3>4. QED
      BY <1>4, <3>2, <3>3 DEF Excludes
  <2>3. CASE program[u.by][u.at].op \in FileCalls
    <3>1. program[u.by][u.at].kind \in {"read", "write"}
      BY <2>1, <2>3 DEF Outlined, FileCall
    <3>2. u.kind = program[u.by][u.at].kind
      BY <2>1 DEF TransferOf
    <3>3. QED
      BY <3>1, <3>2 DEF Machine!Accumulates
  <2>4. QED
    BY <2>1, <2>2, <2>3 DEF Accesses
<1> HIDE DEF c, t, Concurrent
<1>8. faults' = {}
  BY <1>1, <1>2, <1>6, <1>7
<1>9. "access" \in Accesses /\ "access" \notin Changing
      /\ "access" \notin {"open", "close", "seek", "sync", "fileaccess"}
  BY DEF Accesses, Changing
<1>10. ClockInv(o)' /\ PendingInv(o)' /\ NothingComes("access")
       /\ OpenInOutline(o)' /\ SlotInv(o)' /\ SentInv(o)' /\ unreported' = {}
  <2> DEFINE new == {t}
  <2>1. /\ transfers' = transfers \cup new
        /\ \A u \in new : /\ u.by \in Proc /\ Moves(u.by, "access") /\ u.at = ip[u.by]
                           /\ u = TransferOf(program, o, u.by, u.at)
        /\ \A q \in Proc : Moves(q, "access") => \E u \in new : u.by = q
    BY <1>2, <1>3, <1>5
  <2> HIDE DEF new
  <2>2. UNCHANGED <<memory, windows, messages, unreported>>
    BY <1>2
  <2>3. QED
    BY <1>3, <1>9, <2>1, <2>2, AccessRest
<1>11. CellInv(o)'
  <2>1. disk' = disk /\ CellInv(o) /\ Doing("access") /\ Joined("access") /\ "access" \notin Changing
    BY <1>1, <1>2, <1>3, <1>9
  <2>2. QED
    BY <1>10, <2>1, CellsKept
<1>12. HandleInv(o)' /\ SeenInv(o)'
  BY <1>1, <1>2, <1>3, <1>9, HandleKept, SeenKept
<1>13. QED
  BY <1>8, <1>10, <1>11, <1>12 DEF OutlineInv

(* What a transfer does to the buffer that is its target.                  *)
LEMMA Performed ==
  ASSUME DOMAIN memory = Proc, NEW t, NEW c, Machine!Right(t),
         t.kind \in {"get", "put"} \cup Machine!Accumulates,
         t.kind = c.kind, t.to = c.to, t.theirs = c.theirs, t.mine = c.mine,
         NEW q \in Proc, NEW s \in DOMAIN memory[q]
  PROVE  /\ s \in DOMAIN memory'[q]
         /\ memory'[q][s] =
              IF Target(t.by, c) = [of |-> q, slot |-> s]
              THEN Brought(c.kind, memory[q][s], memory[Source(t.by, c).of][Source(t.by, c).slot])
              ELSE memory[q][s]
<1>1. CASE t.kind = "get"
  <2>1. Machine!Get(t, memory[t.to][t.theirs])
    BY <1>1 DEF Machine!Right
  <2>2. memory' = [memory EXCEPT ![t.by][t.mine] = memory[t.to][t.theirs]]
    BY <2>1 DEF Machine!Get
  <2>3. Brought(c.kind, memory[q][s], memory[t.to][t.theirs]) = memory[t.to][t.theirs]
    BY <1>1 DEF Brought, Machine!Accumulates
  <2>4. Target(t.by, c) = [of |-> t.by, slot |-> t.mine] /\ Source(t.by, c) = [of |-> t.to, slot |-> t.theirs]
    BY <1>1 DEF Target, Source
  <2>5. Target(t.by, c) = [of |-> q, slot |-> s] <=> t.by = q /\ t.mine = s
    BY <2>4
  <2>6. /\ s \in DOMAIN memory'[q]
        /\ memory'[q][s] = IF t.by = q /\ t.mine = s THEN memory[t.to][t.theirs] ELSE memory[q][s]
    BY <2>2
  <2>7. QED
    BY <2>3, <2>4, <2>5, <2>6
<1>2. CASE t.kind # "get"
  <2> DEFINE array == memory[t.by][t.mine]
  <2>1. Machine!Put(t, array)
    BY <1>2 DEF Machine!Right, Machine!Accumulates
  <2>2. memory' = [memory EXCEPT ![t.to][t.theirs] = Brought(t.kind, @, array)]
    <3>1. memory' = [memory EXCEPT ![t.to][t.theirs] =
                       IF t.kind \in Machine!Accumulates THEN Machine!CombineArrays(t.kind, @, array) ELSE array]
      BY <2>1 DEF Machine!Put
    <3> HIDE DEF array
    <3>2. \A old : Brought(t.kind, old, array) =
                    IF t.kind \in Machine!Accumulates THEN Machine!CombineArrays(t.kind, old, array) ELSE array
      BY DEF Brought
    <3>3. QED
      BY <3>1, <3>2
  <2>3. Target(t.by, c) = [of |-> t.to, slot |-> t.theirs] /\ Source(t.by, c) = [of |-> t.by, slot |-> t.mine]
    <3>1. c.kind # "get" /\ c.kind # "read"
      BY <1>2 DEF Machine!Accumulates
    <3>2. QED
      BY <3>1 DEF Target, Source
  <2>4. Target(t.by, c) = [of |-> q, slot |-> s] <=> t.to = q /\ t.theirs = s
    BY <2>3
  <2>5. /\ s \in DOMAIN memory'[q]
        /\ memory'[q][s] = IF t.to = q /\ t.theirs = s THEN Brought(t.kind, memory[q][s], array)
                           ELSE memory[q][s]
    BY <2>2
  <2>6. QED
    BY <2>3, <2>4, <2>5
<1>3. QED
  BY <1>1, <1>2

(* A transfer that is performed has come, and nothing else has.            *)
LEMMA Comes ==
  ASSUME Orderly(program), PlaceInv, NEW o, PendingInv(o), NEW t \in transfers,
         transfers' = transfers \ {t}, ip' = ip
  PROVE  /\ ~Delivered(<<t.by, t.at>>)
         /\ \A a : a = <<a[1], a[2]>> => (Delivered(a)' <=> Delivered(a) \/ a = <<t.by, t.at>>)
<1> DEFINE me == <<t.by, t.at>>
<1>1. /\ t.by \in Proc /\ t.at \in DOMAIN program[t.by] /\ t = TransferOf(program, o, t.by, t.at)
      /\ Underway(program, t.by, t.at, ip[t.by] - 1)
  BY DEF PendingInv
<1>2. ip[t.by] \in Nat /\ t.at \in Nat /\ t.at < ip[t.by]
  BY <1>1 DEF PlaceInv, Orderly, Underway
<1>3. ASSUME NEW a, a = <<a[1], a[2]>>
      PROVE  Delivered(a)' <=> Delivered(a) \/ a = me
  <2>1. CASE a = me
    <3>1. a[1] = t.by /\ a[2] = t.at
      BY <2>1
    <3>2. \A u \in transfers : u.by = t.by /\ u.at = t.at => u = t
      BY <1>1 DEF PendingInv
    <3>3. QED
      BY <1>2, <2>1, <3>1, <3>2 DEF Delivered
  <2>2. CASE a # me
    <3>1. ~(t.by = a[1] /\ t.at = a[2])
      BY <1>3, <2>2
    <3>2. QED
      BY <2>2, <3>1 DEF Delivered
  <2>3. QED
    BY <2>1, <2>2
<1>4. ~Delivered(me)
  BY DEF Delivered
<1>5. QED
  BY <1>3, <1>4

(* What a transfer does not touch is as it was, since it is not one of     *)
(* those that bring something there.                                       *)
LEMMA SlotsUntouched ==
  ASSUME Orderly(program), PlaceInv, NEW o, Outlined(program, o), PendingInv(o), SlotInv(o),
         NEW t \in transfers, transfers' = transfers \ {t}, ip' = ip, program' = program,
         memory' = memory, program[t.by][t.at].kind = "write"
  PROVE  SlotInv(o)'
<1>1. SUFFICES ASSUME NEW q \in Proc, NEW s \in DOMAIN Slots(o, q, ip[q] - 1)
               PROVE  s \in DOMAIN memory[q] /\ memory[q][s] = Value(o, q, s)'
  BY DEF SlotInv
<1> DEFINE from == Slots(o, q, ip[q] - 1)[s].from
<1>2. \A a \in from : a = <<a[1], a[2]>> /\ a # <<t.by, t.at>>
  <2>1. SUFFICES ASSUME NEW a \in from  PROVE a = <<a[1], a[2]>> /\ a # <<t.by, t.at>>
    OBVIOUS
  <2>2. BringsTo(program, a, q, s)
    BY AtPlace
  <2>3. QED
    BY <2>2 DEF BringsTo, IsAccess
<1>3. \A a \in from : Delivered(a)' <=> Delivered(a)
  BY <1>2, Comes
<1>4. {a \in from : Delivered(a)'} = {a \in from : Delivered(a)}
  BY <1>3
<1>5. Value(o, q, s)' = Slots(o, q, ip[q] - 1)[s].value[{a \in from : Delivered(a)'}]
  BY DEF Value
<1>6. QED
  BY <1>4, <1>5 DEF SlotInv, Value

LEMMA CellsUntouched ==
  ASSUME Orderly(program), PlaceInv, NEW o, Outlined(program, o), PendingInv(o), CellInv(o),
         NEW t \in transfers, transfers' = transfers \ {t}, ip' = ip, program' = program,
         disk' = disk, program[t.by][t.at].op = "access" \/ program[t.by][t.at].kind # "write"
  PROVE  CellInv(o)'
<1>1. SUFFICES ASSUME NEW q \in Proc, NEW y \in DOMAIN Cells(o, q, ip[q] - 1)
               PROVE  CellOf(disk, y) = CellValue(o, q, y)'
  BY DEF CellInv
<1> DEFINE from == Cells(o, q, ip[q] - 1)[y].from
<1>2. \A a \in from : a = <<a[1], a[2]>> /\ a # <<t.by, t.at>>
  <2>1. SUFFICES ASSUME NEW a \in from  PROVE a = <<a[1], a[2]>> /\ a # <<t.by, t.at>>
    OBVIOUS
  <2>2. BringsToCell(program, o, a, y)
    BY AtPlace
  <2>3. QED
    BY <2>2 DEF BringsToCell, IsAccess, Touches, FileCalls
<1>3. \A a \in from : Delivered(a)' <=> Delivered(a)
  BY <1>2, Comes
<1>4. {a \in from : Delivered(a)'} = {a \in from : Delivered(a)}
  BY <1>3
<1>5. CellValue(o, q, y)' = Cells(o, q, ip[q] - 1)[y].value[{a \in from : Delivered(a)'}]
  BY DEF CellValue
<1>6. QED
  BY <1>4, <1>5 DEF CellInv, CellValue

(* An access of a window is performed.                                     *)
LEMMA BringsNow ==
  ASSUME Orderly(program), PlaceInv, NEW o, Outlined(program, o), ClockInv(o), PendingInv(o),
         NEW t \in transfers, program[t.by][t.at].op = "access"
  PROVE  LET c == program[t.by][t.at]
             tg == Target(t.by, c)
             sr == Source(t.by, c)
             e == Slots(o, tg.of, ip[tg.of] - 1)[tg.slot]
         IN  tg.slot \in DOMAIN Slots(o, tg.of, ip[tg.of] - 1) =>
               /\ <<t.by, t.at>> \in e.from /\ Settled(o, sr.of, ip[sr.of] - 1, sr.slot)
               /\ \A come \in SUBSET (e.from \ {<<t.by, t.at>>}) :
                    e.value[come \cup {<<t.by, t.at>>}] =
                      Brought(c.kind, e.value[come], Content(o, sr.of, ip[sr.of] - 1, sr.slot))
<1> DEFINE c == program[t.by][t.at]
           me == <<t.by, t.at>>
           tg == Target(t.by, c)
           sr == Source(t.by, c)
           Bears(e, h) ==
             /\ Settled(o, sr.of, h, sr.slot)
             /\ \A come \in SUBSET (e.from \ {me}) :
                  e.value[come \cup {me}] = Brought(c.kind, e.value[come], Content(o, sr.of, h, sr.slot))
<1>1. /\ t.by \in Proc /\ t.at \in DOMAIN program[t.by]
      /\ Underway(program, t.by, t.at, ip[t.by] - 1)
  BY DEF PendingInv
<1>2. Fits(program, o, t.by, t.at) /\ Brings(program, o, t.by, t.at)
  BY <1>1 DEF Outlined
<1>3. tg.of \in Proc /\ sr.of \in Proc
  BY <1>1, <1>2 DEF Target, Source, Fits
<1>4. /\ ip[t.by] - 1 \in Places(program, t.by) /\ ip[tg.of] - 1 \in Places(program, tg.of)
      /\ ip[sr.of] - 1 \in Places(program, sr.of)
  BY <1>1, <1>3, AtPlace
<1>5. /\ Meanwhile(o, t.by, ip[t.by] - 1, tg.of, ip[tg.of] - 1)
      /\ Meanwhile(o, t.by, ip[t.by] - 1, sr.of, ip[sr.of] - 1)
  BY <1>1, <1>3, Now
<1>6. \A n \in Places(program, t.by), m \in Places(program, tg.of) :
        /\ Underway(program, t.by, t.at, n) /\ Meanwhile(o, t.by, n, tg.of, m)
        /\ tg.slot \in DOMAIN Slots(o, tg.of, m)
        => /\ me \in Slots(o, tg.of, m)[tg.slot].from
           /\ \A h \in Places(program, sr.of) : Meanwhile(o, t.by, n, sr.of, h) =>
                Bears(Slots(o, tg.of, m)[tg.slot], h)
  BY <1>2, Zenon DEF Brings
<1>7. ASSUME tg.slot \in DOMAIN Slots(o, tg.of, ip[tg.of] - 1)
      PROVE  /\ me \in Slots(o, tg.of, ip[tg.of] - 1)[tg.slot].from
             /\ Bears(Slots(o, tg.of, ip[tg.of] - 1)[tg.slot], ip[sr.of] - 1)
  <2> HIDE DEF Bears, me, tg, sr, c
  <2>1. QED
    BY <1>1, <1>4, <1>5, <1>6, <1>7
<1>8. QED
  BY <1>7, Zenon

LEMMA AccessPerformed ==
  ASSUME Orderly(program), StoreInv, NEW o, Outlined(program, o), OutlineInv(o),
         NEW t \in transfers, Machine!Right(t), transfers' = transfers \ {t}, ip' = ip,
         program' = program, program[t.by][t.at].op = "access"
  PROVE  SlotInv(o)' /\ CellInv(o)'
<1> DEFINE c == program[t.by][t.at]
           me == <<t.by, t.at>>
           tg == Target(t.by, c)
           sr == Source(t.by, c)
<1>1. /\ ClockInv(o) /\ PendingInv(o) /\ SlotInv(o) /\ CellInv(o) /\ PlaceInv
      /\ DOMAIN memory = Proc
  BY DEF OutlineInv, StoreInv, MemoryInv
<1>2. /\ t.by \in Proc /\ t.at \in DOMAIN program[t.by] /\ t = TransferOf(program, o, t.by, t.at)
      /\ Underway(program, t.by, t.at, ip[t.by] - 1)
  BY <1>1 DEF PendingInv
<1>3. t.kind = c.kind /\ t.to = c.to /\ t.theirs = c.theirs /\ t.mine = c.mine
  BY <1>2 DEF TransferOf
<1>4. Fits(program, o, t.by, t.at) /\ Brings(program, o, t.by, t.at)
  BY <1>2 DEF Outlined
<1>5. c.to \in Proc /\ c.kind \in {"get", "put"} \cup Machine!Accumulates
  BY <1>4 DEF Fits
<1>6. tg.of \in Proc /\ sr.of \in Proc
  BY <1>2, <1>5 DEF Target, Source
<1>7. ASSUME NEW q \in Proc, NEW s \in DOMAIN memory[q]
      PROVE  /\ s \in DOMAIN memory'[q]
             /\ memory'[q][s] = IF tg = [of |-> q, slot |-> s]
                                THEN Brought(c.kind, memory[q][s], memory[sr.of][sr.slot])
                                ELSE memory[q][s]
  <2> HIDE DEF c
  <2>1. QED
    BY <1>1, <1>3, <1>5, <1>7, Performed
<1>8. /\ ~Delivered(me)
      /\ \A a : a = <<a[1], a[2]>> => (Delivered(a)' <=> Delivered(a) \/ a = me)
  BY <1>1, Comes
<1>9. SlotInv(o)'
  <2>1. SUFFICES ASSUME NEW q \in Proc, NEW s \in DOMAIN Slots(o, q, ip[q] - 1)
                 PROVE  s \in DOMAIN memory'[q] /\ memory'[q][s] = Value(o, q, s)'
    BY DEF SlotInv
  <2> DEFINE e == Slots(o, q, ip[q] - 1)[s]
             come == {a \in e.from : Delivered(a)}
             came == {a \in e.from : Delivered(a)'}
  <2>2. s \in DOMAIN memory[q] /\ memory[q][s] = e.value[come]
    BY <1>1 DEF SlotInv, Value
  <2>3. Value(o, q, s)' = e.value[came]
    BY DEF Value
  <2>4. \A a \in e.from : BringsTo(program, a, q, s) /\ a = <<a[1], a[2]>>
    BY <1>1, AtPlace DEF BringsTo, IsAccess
  <2>5. CASE tg = [of |-> q, slot |-> s]
    <3>1. q = tg.of /\ s = tg.slot
      BY <2>5
    <3>2. /\ ip[t.by] - 1 \in Places(program, t.by) /\ ip[tg.of] - 1 \in Places(program, tg.of)
          /\ ip[sr.of] - 1 \in Places(program, sr.of)
      BY <1>1, <1>2, <1>6, AtPlace
    <3>3. /\ Meanwhile(o, t.by, ip[t.by] - 1, tg.of, ip[tg.of] - 1)
          /\ Meanwhile(o, t.by, ip[t.by] - 1, sr.of, ip[sr.of] - 1)
      BY <1>1, <1>2, <1>6, Now
    <3>4. /\ me \in e.from
          /\ Settled(o, sr.of, ip[sr.of] - 1, sr.slot)
          /\ \A come1 \in SUBSET (e.from \ {me}) :
               e.value[come1 \cup {me}] =
                 Brought(c.kind, e.value[come1], Content(o, sr.of, ip[sr.of] - 1, sr.slot))
      <4>1. LET g == Slots(o, tg.of, ip[tg.of] - 1)[tg.slot]
            IN  tg.slot \in DOMAIN Slots(o, tg.of, ip[tg.of] - 1) =>
                  /\ me \in g.from /\ Settled(o, sr.of, ip[sr.of] - 1, sr.slot)
                  /\ \A come1 \in SUBSET (g.from \ {me}) :
                       g.value[come1 \cup {me}] =
                         Brought(c.kind, g.value[come1], Content(o, sr.of, ip[sr.of] - 1, sr.slot))
        BY <1>1, BringsNow, Zenon
      <4> HIDE DEF me, tg, sr, c
      <4>2. tg.slot \in DOMAIN Slots(o, tg.of, ip[tg.of] - 1)
        BY <3>1
      <4>3. e = Slots(o, tg.of, ip[tg.of] - 1)[tg.slot]
        BY <3>1
      <4> HIDE DEF e
      <4>4. QED
        BY <4>1, <4>2, <4>3
    <3> HIDE DEF me, tg, sr, e, c
    <3>5. memory[sr.of][sr.slot] = Content(o, sr.of, ip[sr.of] - 1, sr.slot)
      BY <1>1, <1>6, <3>4, SettledHas
    <3>6. come \in SUBSET (e.from \ {me})
      BY <1>8
    <3>7. came = come \cup {me}
      BY <1>8, <2>4, <3>4
    <3> HIDE DEF come, came
    <3>8. /\ s \in DOMAIN memory'[q]
          /\ memory'[q][s] = Brought(c.kind, memory[q][s], memory[sr.of][sr.slot])
      BY <1>7, <2>2, <2>5
    <3>9. e.value[came] = Brought(c.kind, e.value[come], Content(o, sr.of, ip[sr.of] - 1, sr.slot))
      BY <3>4, <3>6, <3>7
    <3>10. QED
      BY <2>2, <2>3, <3>5, <3>8, <3>9
  <2>6. CASE tg # [of |-> q, slot |-> s]
    <3>1. \A a \in e.from : a # me
      BY <2>4, <2>6 DEF BringsTo
    <3> HIDE DEF me, tg, sr, c
    <3>2. came = come
      BY <1>8, <2>4, <3>1
    <3> HIDE DEF e, come, came
    <3>3. s \in DOMAIN memory'[q] /\ memory'[q][s] = memory[q][s]
      BY <1>7, <2>2, <2>6
    <3>4. QED
      BY <2>2, <2>3, <3>2, <3>3
  <2>7. QED
    BY <2>5, <2>6
<1>10. disk' = disk
  <2>1. t.kind \notin {"read", "write"}
    BY <1>3, <1>5 DEF Machine!Accumulates
  <2>2. QED
    BY <2>1 DEF Machine!Right, Machine!Get, Machine!Put
<1>11. CellInv(o)'
  BY <1>1, <1>10, CellsUntouched
<1>12. QED
  BY <1>9, <1>11

(* A transfer of a file is of the file that its process has open.          *)
LEMMA FileTransferOf ==
  ASSUME Orderly(program), StoreInv, NEW o, Outlined(program, o), PendingInv(o), HandleInv(o),
         NEW t \in transfers, program[t.by][t.at].op \in FileCalls
  PROVE  LET c == program[t.by][t.at]
             f == File(o, t.by, t.at - 1)
         IN  /\ t.by \in Proc /\ t.at \in DOMAIN program[t.by] /\ ip[t.by] - 1 \in Places(program, t.by)
             /\ Underway(program, t.by, t.at, ip[t.by] - 1)
             /\ c.kind \in {"read", "write"} /\ FileCall(program, o, t.by, t.at)
             /\ t.kind = c.kind /\ t.mine = c.mine /\ t.elements = c.elements /\ t.wait = c.wait
             /\ t.places = FilePlaces(program, o, t.by, t.at)
             /\ c.kind = "write" /\ ~c.wait => t.copy = Content(o, t.by, t.at - 1, c.mine)
             /\ t.name = f.name /\ file[t.by].atomic = f.atomic /\ t.name \in DOMAIN disk
             /\ disk[t.name] = [data |-> disk[t.name].data, shared |-> disk[t.name].shared]
             /\ Len(disk[t.name].data) \in Nat
<1> DEFINE c == program[t.by][t.at]
           f == File(o, t.by, t.at - 1)
<1>1. PlaceInv /\ FileInv /\ DiskInv
  BY DEF StoreInv
<1>2. /\ t.by \in Proc /\ t.at \in DOMAIN program[t.by] /\ t = TransferOf(program, o, t.by, t.at)
      /\ Underway(program, t.by, t.at, ip[t.by] - 1)
  BY DEF PendingInv
<1>3. ip[t.by] - 1 \in Places(program, t.by)
  BY <1>1, <1>2, AtPlace
<1>4. FileCall(program, o, t.by, t.at)
  BY <1>2 DEF Outlined
<1>5. /\ c.kind \in {"read", "write"}
      /\ LET g == File(o, t.by, ip[t.by] - 1)
         IN  g # Machine!NoFile /\ g.name = f.name /\ g.atomic = f.atomic
  BY <1>2, <1>3, <1>4 DEF FileCall
<1>6. /\ t.kind = c.kind /\ t.mine = c.mine /\ t.elements = c.elements /\ t.wait = c.wait
      /\ t.places = FilePlaces(program, o, t.by, t.at) /\ t.name = f.name
      /\ t.copy = IF c.kind = "write" /\ ~c.wait THEN Content(o, t.by, t.at - 1, c.mine) ELSE << >>
  <2> DEFINE places == FilePlaces(program, o, t.by, t.at)
             copy == IF c.kind = "write" /\ ~c.wait THEN Content(o, t.by, t.at - 1, c.mine) ELSE << >>
  <2>1. t = [by |-> t.by, at |-> t.at, kind |-> c.kind, name |-> f.name, places |-> places,
             mine |-> c.mine, elements |-> c.elements, wait |-> c.wait, copy |-> copy]
    BY <1>2 DEF TransferOf, FileCalls
  <2> HIDE DEF c, f, places, copy
  <2>2. /\ t.kind = c.kind /\ t.mine = c.mine /\ t.elements = c.elements /\ t.wait = c.wait
        /\ t.places = places /\ t.name = f.name /\ t.copy = copy
    BY <2>1
  <2>3. QED
    BY <2>2 DEF places, copy
<1> HIDE DEF c, f
<1>7. file[t.by] # Machine!NoFile /\ File(o, t.by, ip[t.by] - 1) = Handle(file[t.by])
  BY <1>2, <1>5 DEF HandleInv
<1>8. file[t.by].name = t.name /\ file[t.by].atomic = f.atomic
  BY <1>5, <1>6, <1>7 DEF Handle
<1>9. t.name \in DOMAIN disk
  BY <1>1, <1>2, <1>7, <1>8 DEF FileInv
<1>10. /\ disk[t.name] = [data |-> disk[t.name].data, shared |-> disk[t.name].shared]
       /\ Len(disk[t.name].data) \in Nat
  BY <1>1, <1>9 DEF DiskInv
<1>11. QED
  BY <1>2, <1>3, <1>4, <1>5, <1>6, <1>8, <1>9, <1>10 DEF c, f

(* A place of which something is known is one of a file that exists.       *)
LEMMA CellThere ==
  ASSUME NEW name, NEW place \in Nat \ {0}, CellOf(disk, <<name, place>>) # Unset
  PROVE  /\ name \in DOMAIN disk /\ place <= Len(disk[name].data)
         /\ disk[name].data[place] = CellOf(disk, <<name, place>>)
<1> DEFINE y == <<name, place>>
<1>1. y[1] = name /\ y[2] = place /\ place # Size /\ place # Shared
  BY DEF Size, Shared
<1>2. Initially(y) = Unset
  BY <1>1 DEF Initially
<1>3. CellOf(disk, y) = IF name \notin DOMAIN disk THEN Unset
                        ELSE IF place <= Len(disk[name].data) THEN disk[name].data[place] ELSE Unset
  <2> HIDE DEF y
  <2>1. CellOf(disk, y) = IF name \notin DOMAIN disk THEN Initially(y)
                          ELSE IF place <= Len(disk[name].data) THEN disk[name].data[place] ELSE Unset
    BY <1>1 DEF CellOf
  <2>2. QED
    BY <1>2, <2>1
<1>4. QED
  BY <1>3

(* What is settled of a place is so, and is what is read there.            *)
LEMMA SettledCell ==
  ASSUME NEW o, CellInv(o), NEW q \in Proc, NEW y, CellSettled(o, q, ip[q] - 1, y)
  PROVE  CellOf(disk, y) = CellContent(o, q, ip[q] - 1, y)
<1> DEFINE e == Cells(o, q, ip[q] - 1)[y]
<1>1. y \in DOMAIN Cells(o, q, ip[q] - 1) /\ e.from = {}
  BY DEF CellSettled
<1>2. CellOf(disk, y) = e.value[{a \in e.from : Delivered(a)}]
  BY <1>1 DEF CellInv, CellValue
<1>3. e.value[{}] = CellContent(o, q, ip[q] - 1, y)
  BY DEF CellContent
<1> HIDE DEF e
<1>4. {a \in e.from : Delivered(a)} = {}
  BY <1>1
<1>5. QED
  BY <1>2, <1>3, <1>4

LEMMA ReadIs ==
  ASSUME NEW o, CellInv(o), SeenInv(o), NEW q \in Proc, NEW name, NEW place \in Nat \ {0},
         CellSettled(o, q, ip[q] - 1, <<name, place>>),
         NEW v, v = CellContent(o, q, ip[q] - 1, <<name, place>>), v # Unset,
         Len(disk[name].data) \in Nat, NEW data,
         \/ data = disk[name].data
         \/ /\ data = file[q].seen
            /\ place \in DOMAIN o[q][ip[q] - 1].seen /\ o[q][ip[q] - 1].seen[place] = v
  PROVE  ~(place > Len(data)) /\ data[place] = v
<1>1. CellOf(disk, <<name, place>>) = v
  BY SettledCell
<1>2. place <= Len(disk[name].data) /\ disk[name].data[place] = v
  BY <1>1, CellThere
<1>3. CASE data = disk[name].data
  BY <1>2, <1>3
<1>4. CASE /\ data = file[q].seen
           /\ place \in DOMAIN o[q][ip[q] - 1].seen /\ o[q][ip[q] - 1].seen[place] = v
  BY <1>4 DEF SeenInv
<1>5. QED
  BY <1>3, <1>4

(* What is read is the data that the outline says.                         *)
LEMMA ReadPerformed ==
  ASSUME Orderly(program), StoreInv, NEW o, Outlined(program, o), OutlineInv(o),
         NEW t \in transfers, Machine!Right(t), transfers' = transfers \ {t}, ip' = ip,
         program' = program, program[t.by][t.at].op \in FileCalls, program[t.by][t.at].kind = "read"
  PROVE  SlotInv(o)' /\ CellInv(o)'
<1> DEFINE c == program[t.by][t.at]
           f == File(o, t.by, t.at - 1)
           n == ip[t.by] - 1
           me == <<t.by, t.at>>
           places == FilePlaces(program, o, t.by, t.at)
           At(k) == <<f.name, places[Machine!Find(c.elements, k)]>>
<1>1. /\ PendingInv(o) /\ SlotInv(o) /\ CellInv(o) /\ HandleInv(o) /\ SeenInv(o) /\ PlaceInv
      /\ DOMAIN memory = Proc
  BY DEF OutlineInv, StoreInv, MemoryInv
<1>2. /\ t.by \in Proc /\ t.at \in DOMAIN program[t.by] /\ n \in Places(program, t.by)
      /\ Underway(program, t.by, t.at, n) /\ FileCall(program, o, t.by, t.at)
      /\ t.kind = "read" /\ t.mine = c.mine /\ t.elements = c.elements /\ t.places = places
      /\ t.name = f.name /\ file[t.by].atomic = f.atomic /\ t.name \in DOMAIN disk
      /\ Len(disk[t.name].data) \in Nat
  BY <1>1, FileTransferOf
<1>3. ReadsFile(program, o, t.by, t.at)
  BY <1>2 DEF FileCall
<1>4. PICK data \in Machine!Readable(t) : Machine!Read(t, t.places, data)
  BY <1>2 DEF Machine!Right
<1>5. /\ disk' = disk
      /\ memory' = [memory EXCEPT ![t.by][t.mine] =
           [i \in DOMAIN @ |->
              LET k == Machine!Find(t.elements, i)
              IN  IF k = 0 THEN @[i] ELSE IF t.places[k] > Len(data) THEN @[i] ELSE data[t.places[k]]]]
  BY <1>4 DEF Machine!Read
<1>6. CellInv(o)'
  BY <1>1, <1>5, CellsUntouched
<1>7. ASSUME NEW k, At(k)[2] \in Nat \ {0}, CellSettled(o, t.by, n, At(k)),
             CellContent(o, t.by, n, At(k)) # Unset,
             ~f.atomic => /\ At(k)[2] \in DOMAIN o[t.by][n].seen
                          /\ o[t.by][n].seen[At(k)[2]] = CellContent(o, t.by, n, At(k))
      PROVE  ~(At(k)[2] > Len(data)) /\ data[At(k)[2]] = CellContent(o, t.by, n, At(k))
  <2> DEFINE place == At(k)[2]
             v == CellContent(o, t.by, n, At(k))
  <2>1. At(k) = <<t.name, place>> /\ place \in Nat \ {0} /\ v # Unset
    <3>1. At(k) = <<f.name, place>>
      OBVIOUS
    <3> HIDE DEF At, f, n, places
    <3>2. QED
      BY <1>2, <1>7, <3>1
  <2>2. ~f.atomic => place \in DOMAIN o[t.by][n].seen /\ o[t.by][n].seen[place] = v
    <3> HIDE DEF At, f, n, places
    <3>1. QED
      BY <1>7
  <2>3. \/ data = Machine!Data(t.name)
        \/ ~f.atomic /\ data = file[t.by].seen
    BY <1>2, <1>4 DEF Machine!Readable
  <2> HIDE DEF place, At, f
  <2>4. CellSettled(o, t.by, n, <<t.name, place>>) /\ v = CellContent(o, t.by, n, <<t.name, place>>)
    BY <1>7, <2>1
  <2> HIDE DEF v
  <2>5. ~(place > Len(data)) /\ data[place] = v
    BY <1>1, <1>2, <2>1, <2>2, <2>3, <2>4, ReadIs DEF Machine!Data
  <2>6. QED
    BY <2>5 DEF place, v
<1>8. SlotInv(o)'
  <2>1. SUFFICES ASSUME NEW q \in Proc, NEW s \in DOMAIN Slots(o, q, ip[q] - 1)
                 PROVE  s \in DOMAIN memory'[q] /\ memory'[q][s] = Value(o, q, s)'
    BY DEF SlotInv
  <2> DEFINE e == Slots(o, q, ip[q] - 1)[s]
             come == {a \in e.from : Delivered(a)}
             came == {a \in e.from : Delivered(a)'}
  <2>2. s \in DOMAIN memory[q] /\ memory[q][s] = e.value[come]
    BY <1>1 DEF SlotInv, Value
  <2>3. Value(o, q, s)' = e.value[came]
    BY DEF Value
  <2>4. \A a \in e.from : BringsTo(program, a, q, s) /\ a = <<a[1], a[2]>>
    BY <1>1, AtPlace DEF BringsTo, IsAccess
  <2>5. /\ ~Delivered(me)
        /\ \A a : a = <<a[1], a[2]>> => (Delivered(a)' <=> Delivered(a) \/ a = me)
    BY <1>1, Comes
  <2>6. CASE q = t.by /\ s = t.mine
    <3>1. /\ me \in e.from
          /\ \A come1 \in SUBSET (e.from \ {me}) :
               /\ \A k \in DOMAIN e.value[come1] : Machine!Find(c.elements, k) # 0 =>
                    /\ At(k)[2] \in Nat \ {0}
                    /\ CellSettled(o, t.by, n, At(k)) /\ CellContent(o, t.by, n, At(k)) # Unset
                    /\ ~f.atomic => /\ At(k)[2] \in DOMAIN o[t.by][n].seen
                                    /\ o[t.by][n].seen[At(k)[2]] = CellContent(o, t.by, n, At(k))
               /\ e.value[come1 \cup {me}] =
                    [k \in DOMAIN e.value[come1] |->
                       IF Machine!Find(c.elements, k) = 0 THEN e.value[come1][k]
                       ELSE CellContent(o, t.by, n, At(k))]
      <4> DEFINE Gets(m, g) ==
                 /\ me \in g.from
                 /\ \A come1 \in SUBSET (g.from \ {me}) :
                      /\ \A k \in DOMAIN g.value[come1] : Machine!Find(c.elements, k) # 0 =>
                           /\ At(k)[2] \in Nat \ {0}
                           /\ CellSettled(o, t.by, m, At(k)) /\ CellContent(o, t.by, m, At(k)) # Unset
                           /\ ~f.atomic => /\ At(k)[2] \in DOMAIN o[t.by][m].seen
                                           /\ o[t.by][m].seen[At(k)[2]] = CellContent(o, t.by, m, At(k))
                      /\ g.value[come1 \cup {me}] =
                           [k \in DOMAIN g.value[come1] |->
                              IF Machine!Find(c.elements, k) = 0 THEN g.value[come1][k]
                              ELSE CellContent(o, t.by, m, At(k))]
      <4>1. \A m \in Places(program, t.by) :
              Underway(program, t.by, t.at, m) /\ c.mine \in DOMAIN Slots(o, t.by, m) =>
                Gets(m, Slots(o, t.by, m)[c.mine])
        BY <1>3, Zenon DEF ReadsFile
      <4>2. s = c.mine /\ q = t.by /\ s \in DOMAIN Slots(o, t.by, n)
        BY <1>2, <2>6
      <4> HIDE DEF Gets, c
      <4>3. Gets(n, Slots(o, t.by, n)[c.mine])
        BY <1>2, <4>1, <4>2
      <4>4. Gets(n, e)
        BY <4>2, <4>3
      <4> HIDE DEF At, me, e, n, f
      <4>5. QED
        BY <4>4 DEF Gets
    <3> DEFINE old == e.value[come]
               Into(k) == Machine!Find(c.elements, k)
    <3>2. come \in SUBSET (e.from \ {me}) /\ came = come \cup {me}
      <4> HIDE DEF me, e, At, f, n, c, places
      <4>1. me \in e.from
        BY <3>1
      <4>2. come \in SUBSET (e.from \ {me})
        BY <2>5
      <4>3. came = come \cup {me}
        BY <2>4, <2>5, <4>1
      <4>4. QED
        BY <4>2, <4>3
    <3>3. /\ \A k \in DOMAIN old : Into(k) # 0 =>
               ~(At(k)[2] > Len(data)) /\ data[At(k)[2]] = CellContent(o, t.by, n, At(k))
          /\ e.value[came] = [k \in DOMAIN old |-> IF Into(k) = 0 THEN old[k]
                                                   ELSE CellContent(o, t.by, n, At(k))]
      <4> HIDE DEF me, e, come, came, At, f, c, n
      <4>1. e.value[came] = [k \in DOMAIN old |-> IF Into(k) = 0 THEN old[k]
                                                  ELSE CellContent(o, t.by, n, At(k))]
        BY <3>1, <3>2
      <4>2. ASSUME NEW k \in DOMAIN old, Into(k) # 0
            PROVE  ~(At(k)[2] > Len(data)) /\ data[At(k)[2]] = CellContent(o, t.by, n, At(k))
        BY <1>7, <3>1, <3>2, <4>2
      <4>3. QED
        BY <4>1, <4>2
    <3>4. \A k : At(k)[2] = t.places[Into(k)]
      BY <1>2
    <3>5. memory'[q][s] = [k \in DOMAIN old |->
                             IF Into(k) = 0 THEN old[k]
                             ELSE IF t.places[Into(k)] > Len(data) THEN old[k]
                             ELSE data[t.places[Into(k)]]]
      <4> DEFINE New(arr) ==
                   [i \in DOMAIN arr |->
                      IF Machine!Find(t.elements, i) = 0 THEN arr[i]
                      ELSE IF t.places[Machine!Find(t.elements, i)] > Len(data) THEN arr[i]
                      ELSE data[t.places[Machine!Find(t.elements, i)]]]
      <4>1. memory' = [memory EXCEPT ![t.by][t.mine] = New(@)]
        BY <1>5
      <4>2. New(old) = [k \in DOMAIN old |->
                          IF Into(k) = 0 THEN old[k]
                          ELSE IF t.places[Into(k)] > Len(data) THEN old[k]
                          ELSE data[t.places[Into(k)]]]
        BY <1>2
      <4>6. s \in DOMAIN memory[q]
        BY <2>2
      <4> HIDE DEF New, old
      <4>3. memory'[q][s] = New(memory[q][s])
        BY <1>1, <2>6, <4>1, <4>6
      <4>4. memory[q][s] = old
        BY <2>2 DEF old
      <4>5. QED
        BY <4>2, <4>3, <4>4, Zenon
    <3> HIDE DEF old, Into, At, e, me, come, came, n, f, c
    <3>6. memory'[q][s] = e.value[came]
      BY <3>3, <3>4, <3>5
    <3>7. s \in DOMAIN memory'[q]
      BY <1>1, <1>5, <2>2, <2>6
    <3>8. QED
      BY <2>3, <3>6, <3>7
  <2>7. CASE ~(q = t.by /\ s = t.mine)
    <3>1. Target(t.by, c) = [of |-> t.by, slot |-> t.mine]
      BY <1>2 DEF Target
    <3>2. Target(t.by, c) # [of |-> q, slot |-> s]
      BY <2>7, <3>1
    <3>3. \A a \in e.from : a # me
      BY <2>4, <3>2 DEF BringsTo
    <3>4. came = come
      BY <2>4, <2>5, <3>3
    <3>5. s \in DOMAIN memory'[q] /\ memory'[q][s] = memory[q][s]
      BY <1>1, <1>5, <2>2, <2>7
    <3>6. QED
      BY <2>2, <2>3, <3>4, <3>5
  <2>8. QED
    BY <2>6, <2>7
<1>9. QED
  BY <1>6, <1>8

(* What is written gets to its places, and the file is as long as that     *)
(* needs.                                                                  *)
LEMMA WritePerformed ==
  ASSUME Orderly(program), StoreInv, NEW o, Outlined(program, o), OutlineInv(o),
         NEW t \in transfers, Machine!Right(t), transfers' = transfers \ {t}, ip' = ip,
         program' = program, program[t.by][t.at].op \in FileCalls, program[t.by][t.at].kind = "write"
  PROVE  SlotInv(o)' /\ CellInv(o)'
<1> DEFINE c == program[t.by][t.at]
           n == ip[t.by] - 1
           me == <<t.by, t.at>>
           places == FilePlaces(program, o, t.by, t.at)
           data == disk[t.name].data
           size == Machine!Grown(Len(data), places)
           array == Content(o, t.by, t.at - 1, c.mine)
           Into(i) == Machine!Find(places, i)
<1>1. /\ ClockInv(o) /\ PendingInv(o) /\ SlotInv(o) /\ CellInv(o) /\ HandleInv(o) /\ PlaceInv
      /\ TransferInv /\ DiskInv
  BY DEF OutlineInv, StoreInv
<1>2. /\ t.by \in Proc /\ t.at \in DOMAIN program[t.by] /\ n \in Places(program, t.by)
      /\ Underway(program, t.by, t.at, n) /\ FileCall(program, o, t.by, t.at)
      /\ t.kind = "write" /\ t.mine = c.mine /\ t.elements = c.elements /\ t.wait = c.wait
      /\ t.places = places /\ (~c.wait => t.copy = array)
      /\ t.name = File(o, t.by, t.at - 1).name /\ t.name \in DOMAIN disk
      /\ disk[t.name] = [data |-> data, shared |-> disk[t.name].shared] /\ Len(data) \in Nat
  BY <1>1, FileTransferOf
<1>3. WritesFile(program, o, t.by, t.at)
  BY <1>2 DEF FileCall
<1>4. Machine!Write(t, t.places)
  BY <1>2 DEF Machine!Right
<1>5. memory' = memory
  BY <1>4, Zenon DEF Machine!Write
<1>6. SlotInv(o)'
  BY <1>1, <1>5, SlotsUntouched
<1>7. (IF t.wait THEN memory[t.by][t.mine] ELSE t.copy) = array
  <2>1. c.wait => Settled(o, t.by, n, c.mine) /\ Content(o, t.by, n, c.mine) = array
    BY <1>2, <1>3 DEF WritesFile
  <2>2. c.wait => memory[t.by][c.mine] = array
    BY <1>1, <1>2, <2>1, SettledHas
  <2>3. QED
    BY <1>2, <2>2
<1>8. /\ size \in Nat /\ size >= Len(data)
      /\ \A i : Into(i) # 0 => i <= size
  <2>1. t.places \in Seq(Int)
    BY <1>1, <1>2 DEF TransferInv
  <2>2. places \in Seq(Int) /\ Len(places) \in Nat
    BY <1>2, <2>1
  <2> HIDE DEF places
  <2>3. size \in Nat /\ \A z \in {Len(data)} \cup Machine!ToSet(places) : size >= z
    BY <1>2, <2>2, MaxIsNatural DEF Machine!Grown
  <2>4. ASSUME NEW i, Into(i) # 0  PROVE i \in Machine!ToSet(places) /\ i \in Int
    <3>1. Into(i) \in 1..Len(places) /\ places[Into(i)] = i
      BY <2>2, <2>4, FindsIt
    <3>2. QED
      BY <2>2, <3>1 DEF Machine!ToSet
  <2> HIDE DEF size, Into
  <2>5. QED
    BY <2>3, <2>4
<1> DEFINE written == [i \in 1..size |->
                         IF Into(i) = 0 THEN Machine!Resized(data, size)[i] ELSE array[c.elements[Into(i)]]]
<1>9. disk' = [disk EXCEPT ![t.name].data = written]
  <2> DEFINE from == IF t.wait THEN memory[t.by][t.mine] ELSE t.copy
             longer == Machine!Grown(Len(data), t.places)
  <2>1. disk' = [disk EXCEPT ![t.name].data =
                   [i \in 1..longer |->
                      IF Machine!Find(t.places, i) = 0 THEN Machine!Resized(data, longer)[i]
                      ELSE from[t.elements[Machine!Find(t.places, i)]]]]
    BY <1>4, Zenon DEF Machine!Write, Machine!Data
  <2>2. longer = size /\ from = array /\ t.elements = c.elements /\ t.places = places
    BY <1>2, <1>7
  <2> HIDE DEF longer, from, size, array, c, places, data
  <2>3. QED
    BY <2>1, <2>2
<1>10. /\ Len(written) = size
       /\ \A i \in Nat \ {0} :
            (IF i <= Len(written) THEN written[i] ELSE Unset) =
              IF Into(i) # 0 THEN array[c.elements[Into(i)]]
              ELSE IF i <= Len(data) THEN data[i] ELSE Unset
  <2>0. Len(data) \in Nat
    BY <1>2
  <2> HIDE DEF data, size, Into, array, c
  <2>1. \A i \in 1..size : Machine!Resized(data, size)[i] = IF i <= Len(data) THEN data[i] ELSE Unset
    BY DEF Machine!Resized, Machine!Unset, Unset
  <2>2. \A i \in 1..size : written[i] = IF Into(i) = 0 THEN IF i <= Len(data) THEN data[i] ELSE Unset
                                       ELSE array[c.elements[Into(i)]]
    BY <2>1
  <2>3. Len(written) = size
    BY <1>8
  <2> HIDE DEF written
  <2>4. QED
    BY <2>0, <1>8, <2>2, <2>3
<1> HIDE DEF written
<1>11. /\ DOMAIN disk' = DOMAIN disk
       /\ \A m \in DOMAIN disk : m # t.name => disk'[m] = disk[m]
       /\ disk'[t.name].data = written /\ disk'[t.name].shared = disk[t.name].shared
  <2>1. /\ DOMAIN disk' = DOMAIN disk /\ \A m \in DOMAIN disk : m # t.name => disk'[m] = disk[m]
        /\ disk'[t.name] = [disk[t.name] EXCEPT !.data = written]
    BY <1>1, <1>2, <1>9 DEF DiskInv
  <2>2. disk'[t.name] = [data |-> written, shared |-> disk[t.name].shared]
    BY <1>2, <2>1
  <2>3. QED
    BY <2>1, <2>2
<1>12. ASSUME NEW y, IsCell(y)
       PROVE  CellOf(disk', y) = IF Touches(program, o, t.by, t.at, y)
                                 THEN CellBrought(program, o, t.by, t.at, y, CellOf(disk, y))
                                 ELSE CellOf(disk, y)
  <2>1. y[2] \in {Size, Shared} \cup (Nat \ {0}) /\ Size = 0 /\ Shared = -1
    BY <1>12 DEF IsCell, Size, Shared
  <2>2. CASE y[1] # t.name
    <3>1. ~Touches(program, o, t.by, t.at, y)
      BY <1>2, <2>2 DEF Touches
    <3>2. CellOf(disk', y) = CellOf(disk, y)
      <4>1. CASE y[1] \notin DOMAIN disk
        BY <1>11, <4>1 DEF CellOf
      <4>2. CASE y[1] \in DOMAIN disk
        <5>1. disk'[y[1]] = disk[y[1]]
          BY <1>11, <2>2, <4>2
        <5>2. QED
          BY <1>11, <4>2, <5>1 DEF CellOf
      <4>3. QED
        BY <4>1, <4>2
    <3>3. QED
      BY <3>1, <3>2
  <2>3. CASE y[1] = t.name /\ y[2] = Size
    <3>1. Touches(program, o, t.by, t.at, y)
      BY <1>2, <2>3 DEF Touches
    <3>2. CellOf(disk', y) = Len(written)
      <4>1. CellOf(disk', y) = Len(disk'[y[1]].data)
        BY <1>2, <1>11, <2>1, <2>3 DEF CellOf
      <4>2. QED
        BY <1>11, <2>3, <4>1
    <3>5. CellOf(disk, y) = Len(data)
      BY <1>2, <2>1, <2>3 DEF CellOf
    <3>3. CellBrought(program, o, t.by, t.at, y, CellOf(disk, y)) = Machine!Grown(CellOf(disk, y), places)
      BY <2>3 DEF CellBrought
    <3> HIDE DEF Into, array, c, data
    <3>4. QED
      BY <1>10, <3>1, <3>2, <3>3, <3>5
  <2>4. CASE y[1] = t.name /\ y[2] = Shared
    <3>1. ~Touches(program, o, t.by, t.at, y)
      BY <2>1, <2>4 DEF Touches
    <3>2. CellOf(disk', y) = CellOf(disk, y)
      BY <1>2, <1>11, <2>1, <2>4 DEF CellOf
    <3>3. QED
      BY <3>1, <3>2
  <2>5. CASE y[1] = t.name /\ y[2] \in Nat \ {0}
    <3>1. Touches(program, o, t.by, t.at, y) <=> Into(y[2]) # 0
      BY <1>2, <2>1, <2>5 DEF Touches
    <3>2. CellOf(disk', y) = IF y[2] <= Len(written) THEN written[y[2]] ELSE Unset
      BY <1>2, <1>11, <2>1, <2>5 DEF CellOf
    <3>3. CellOf(disk, y) = IF y[2] <= Len(data) THEN data[y[2]] ELSE Unset
      BY <1>2, <2>1, <2>5 DEF CellOf
    <3>4. CellBrought(program, o, t.by, t.at, y, CellOf(disk, y)) = array[c.elements[Into(y[2])]]
      BY <2>1, <2>5 DEF CellBrought
    <3> HIDE DEF Into, array, c, data
    <3>5. QED
      BY <1>10, <2>5, <3>1, <3>2, <3>3, <3>4
  <2>6. QED
    BY <2>1, <2>2, <2>3, <2>4, <2>5
<1>13. /\ ~Delivered(me)
       /\ \A a : a = <<a[1], a[2]>> => (Delivered(a)' <=> Delivered(a) \/ a = me)
  BY <1>1, Comes
<1>14. CellInv(o)'
  <2>1. SUFFICES ASSUME NEW q \in Proc, NEW y \in DOMAIN Cells(o, q, ip[q] - 1)
                 PROVE  CellOf(disk', y) = CellValue(o, q, y)'
    BY DEF CellInv
  <2> DEFINE e == Cells(o, q, ip[q] - 1)[y]
             come == {a \in e.from : Delivered(a)}
             came == {a \in e.from : Delivered(a)'}
  <2>2. CellOf(disk, y) = e.value[come]
    BY <1>1 DEF CellInv, CellValue
  <2>3. CellValue(o, q, y)' = e.value[came]
    BY DEF CellValue
  <2>4. IsCell(y) /\ \A a \in e.from : BringsToCell(program, o, a, y) /\ a = <<a[1], a[2]>>
    <3>1. IsCell(y) /\ \A a \in e.from : BringsToCell(program, o, a, y)
      BY <1>1, AtPlace DEF IsCell
    <3>2. QED
      BY <3>1 DEF BringsToCell, IsAccess
  <2>5. CASE Touches(program, o, t.by, t.at, y)
    <3>1. Meanwhile(o, t.by, n, q, ip[q] - 1) /\ ip[q] - 1 \in Places(program, q)
      BY <1>1, <1>2, AtPlace, Now
    <3>2. /\ me \in e.from
          /\ \A come1 \in SUBSET (e.from \ {me}) :
               e.value[come1 \cup {me}] = CellBrought(program, o, t.by, t.at, y, e.value[come1])
      <4> DEFINE Gains(m, k, x) ==
                 LET g == Cells(o, m, k)[x]
                 IN  /\ me \in g.from
                     /\ \A come1 \in SUBSET (g.from \ {me}) :
                          g.value[come1 \cup {me}] = CellBrought(program, o, t.by, t.at, x, g.value[come1])
      <4>1. \A r \in Proc : \A k \in Places(program, r) : Meanwhile(o, t.by, n, r, k) =>
              \A x \in DOMAIN Cells(o, r, k) : Touches(program, o, t.by, t.at, x) => Gains(r, k, x)
        BY <1>2, <1>3, Zenon DEF WritesFile
      <4> HIDE DEF Gains, n
      <4>2. Gains(q, ip[q] - 1, y)
        BY <2>5, <3>1, <4>1
      <4> HIDE DEF me
      <4>3. QED
        BY <4>2 DEF Gains
    <3> HIDE DEF me, e
    <3>3. come \in SUBSET (e.from \ {me}) /\ came = come \cup {me}
      BY <1>13, <2>4, <3>2
    <3>4. e.value[came] = CellBrought(program, o, t.by, t.at, y, e.value[come])
      BY <3>2, <3>3
    <3>5. QED
      BY <1>12, <2>2, <2>3, <2>4, <2>5, <3>4
  <2>6. CASE ~Touches(program, o, t.by, t.at, y)
    <3>1. \A a \in e.from : a # me
      BY <2>4, <2>6 DEF BringsToCell
    <3>2. came = come
      BY <1>13, <2>4, <3>1
    <3>3. QED
      BY <1>12, <2>2, <2>3, <2>4, <2>6, <3>2
  <2>7. QED
    BY <2>5, <2>6
<1>15. QED
  BY <1>6, <1>14

LEMMA PerformOutlined ==
  ASSUME Orderly(program), StoreInv, NEW o, Outlined(program, o), OutlineInv(o),
         NEW t \in transfers, Machine!Perform(t), library' = "sound"
  PROVE  OutlineInv(o)'
<1>1. /\ ClockInv(o) /\ OpenInOutline(o) /\ PendingInv(o) /\ SentInv(o) /\ HandleInv(o) /\ SeenInv(o)
      /\ faults = {} /\ unreported = {}
  BY DEF OutlineInv
<1>2. /\ Machine!Right(t) /\ transfers' = transfers \ {t}
      /\ UNCHANGED <<program, ip, messages, windows, file, faults, unreported>>
  BY DEF Machine!Perform
<1>3. /\ t.by \in Proc /\ t.at \in DOMAIN program[t.by] /\ program[t.by][t.at].op \in Accesses
  BY <1>1 DEF PendingInv
<1>4. SlotInv(o)' /\ CellInv(o)'
  <2>1. CASE program[t.by][t.at].op = "access"
    BY <1>2, <2>1, AccessPerformed
  <2>2. CASE program[t.by][t.at].op \in FileCalls
    <3>1. program[t.by][t.at].kind \in {"read", "write"}
      BY <1>3, <2>2 DEF Outlined, FileCall
    <3>2. QED
      BY <1>2, <2>2, <3>1, ReadPerformed, WritePerformed
  <2>3. QED
    BY <1>3, <2>1, <2>2 DEF Accesses
<1>5. ClockInv(o)' /\ OpenInOutline(o)' /\ PendingInv(o)' /\ SentInv(o)'
  BY <1>1, <1>2 DEF ClockInv, OpenInOutline, PendingInv, SentInv
<1>6. HandleInv(o)' /\ SeenInv(o)'
  <2>1. Machine!NoFile' = Machine!NoFile /\ \A f : Handle(f)' = Handle(f)
    BY DEF Machine!NoFile, Handle
  <2>2. QED
    BY <1>1, <1>2, <2>1 DEF HandleInv, SeenInv
<1>7. QED
  BY <1>1, <1>2, <1>4, <1>5, <1>6 DEF OutlineInv

-----------------------------------------------------------------------------
(* The operations on files.                                                *)

(* What the disk has at the places of a file.                              *)
LEMMA CellIs ==
  ASSUME NEW files, NEW name \in DOMAIN files
  PROVE  /\ CellOf(files, <<name, Size>>) = Len(files[name].data)
         /\ CellOf(files, <<name, Shared>>) = files[name].shared
         /\ \A place \in Nat \ {0} :
              CellOf(files, <<name, place>>) =
                IF place <= Len(files[name].data) THEN files[name].data[place] ELSE Unset
<1>1. CellOf(files, <<name, Size>>) = Len(files[name].data)
  <2> DEFINE y == <<name, Size>>
  <2>1. y[1] = name /\ y[2] = Size /\ Shared # Size
    BY DEF Size, Shared
  <2> HIDE DEF y
  <2>2. CellOf(files, y) = Len(files[name].data)
    BY <2>1 DEF CellOf
  <2>3. QED
    BY <2>2 DEF y
<1>2. CellOf(files, <<name, Shared>>) = files[name].shared
  <2> DEFINE y == <<name, Shared>>
  <2>1. y[1] = name /\ y[2] = Shared /\ Shared # Size
    BY DEF Size, Shared
  <2> HIDE DEF y
  <2>2. CellOf(files, y) = files[name].shared
    BY <2>1 DEF CellOf
  <2>3. QED
    BY <2>2 DEF y
<1>3. ASSUME NEW place \in Nat \ {0}
      PROVE  CellOf(files, <<name, place>>) =
               IF place <= Len(files[name].data) THEN files[name].data[place] ELSE Unset
  BY DEF CellOf, Size, Shared
<1>4. QED
  BY <1>1, <1>2, <1>3

(* What a process has open is what the outline says, and it is there.      *)
LEMMA OpenThere ==
  ASSUME Orderly(program), StoreInv, NEW o, HandleInv(o), NEW q \in Proc, HasOpen(Has(q))
  PROVE  /\ file[q] # Machine!NoFile /\ File(o, q, ip[q] - 1) = Handle(file[q])
         /\ Opening1(file[q]) /\ File(o, q, ip[q] - 1).name = file[q].name
         /\ File(o, q, ip[q] - 1).position = file[q].position
         /\ file[q].name \in DOMAIN disk /\ file[q].name \in Proc
         /\ disk[file[q].name] = [data |-> disk[file[q].name].data, shared |-> disk[file[q].name].shared]
         /\ disk[file[q].name].shared \in Nat /\ Len(disk[file[q].name].data) \in Nat
<1>1. /\ file[q] # Machine!NoFile /\ Opening1(file[q]) /\ file[q].name \in DOMAIN disk
      /\ file[q].name \in Proc
  BY HasFile
<1>2. File(o, q, ip[q] - 1) = Handle(file[q])
  BY <1>1 DEF HandleInv
<1>3. /\ File(o, q, ip[q] - 1).name = file[q].name
      /\ File(o, q, ip[q] - 1).position = file[q].position
  BY <1>2 DEF Handle
<1>4. /\ disk[file[q].name] = [data |-> disk[file[q].name].data, shared |-> disk[file[q].name].shared]
      /\ disk[file[q].name].shared \in Nat /\ Len(disk[file[q].name].data) \in Nat
  BY <1>1 DEF StoreInv, DiskInv
<1>5. QED
  BY <1>1, <1>2, <1>3, <1>4

(* What the outline says of the next place of a process.                   *)
LEMMA NextPlace ==
  ASSUME Orderly(program), PlaceInv, NEW o, Outlined(program, o), NEW x, Doing(x), NEW q \in Proc
  PROVE  /\ Moves(q, x) => /\ ip'[q] - 1 = ip[q] /\ program[q][ip[q]].op = x
                           /\ Machine!Op(q) = program[q][ip[q]]
                           /\ Handles(program, o, q, ip[q]) /\ Sees(program, o, q, ip[q])
         /\ ~Moves(q, x) => ip'[q] = ip[q]
<1>1. ASSUME Moves(q, x)
      PROVE  /\ ip'[q] - 1 = ip[q] /\ program[q][ip[q]].op = x
             /\ Machine!Op(q) = program[q][ip[q]]
             /\ Handles(program, o, q, ip[q]) /\ Sees(program, o, q, ip[q])
  BY <1>1, AtOutline, AtPlace DEF Moves
<1>2. QED
  BY <1>1 DEF Doing

LEMMA WaitOutlined ==
  ASSUME Orderly(program), StoreInv, NEW o, Outlined(program, o), OutlineInv(o), NEW p \in Proc,
         Machine!Wait(p)
  PROVE  OutlineInv(o)'
<1>1. /\ Machine!Executes(p, "wait") /\ Machine!GoOn(p) /\ Machine!Waited(p) = {} /\ PlaceInv
      /\ UNCHANGED <<program, memory, transfers, messages, windows, disk, file, faults, unreported>>
  BY DEF Machine!Wait, StoreInv
<1>2. Doing("wait") /\ Joined("wait") /\ \A q \in Proc : Moves(q, "wait") => q = p
  BY <1>1, AloneJoined DEF Meeting
<1>3. "wait" \notin Accesses /\ "wait" \notin Changing /\ "wait" \notin Ending
  BY DEF Accesses, FileCalls, Changing, Ending
<1>4. QED
  BY <1>1, <1>2, <1>3, OutlineRest DEF OutlineInv

LEMMA ExpectOutlined ==
  ASSUME Orderly(program), StoreInv, NEW o, Outlined(program, o), OutlineInv(o), NEW p \in Proc,
         Machine!Expect(p)
  PROVE  OutlineInv(o)'
<1> DEFINE c == Machine!Op(p)
           found == CASE c.what = "position" -> file[p].position
                      [] c.what = "shared" -> disk[Machine!NameOf(p)].shared
                      [] c.what = "size" -> Len(Machine!Data(Machine!NameOf(p)))
           f == File(o, p, ip[p] - 1)
           name == file[p].name
<1>1. /\ Machine!Executes(p, "expect") /\ Machine!GoOn(p) /\ PlaceInv
      /\ found = c.number => faults' = faults
      /\ UNCHANGED <<program, memory, transfers, messages, windows, disk, file, unreported>>
  BY DEF Machine!Expect, Machine!Blame, StoreInv
<1>2. /\ Doing("expect") /\ Joined("expect") /\ Moves(p, "expect")
      /\ \A q \in Proc : Moves(q, "expect") => q = p
  BY <1>1, AloneJoined DEF Meeting
<1>3. "expect" \notin Accesses /\ "expect" \notin Changing /\ "expect" \notin Ending
  BY DEF Accesses, FileCalls, Changing, Ending
<1>4. /\ ClockInv(o)' /\ PendingInv(o)' /\ NothingComes("expect")
      /\ OpenInOutline(o)' /\ SlotInv(o)' /\ SentInv(o)' /\ CellInv(o)' /\ HandleInv(o)' /\ SeenInv(o)'
      /\ faults' = faults => faults' = {}
      /\ unreported' = {}
  BY <1>1, <1>2, <1>3, OutlineRest
<1>5. CellInv(o) /\ HandleInv(o)
  BY DEF OutlineInv
<1>6. c.op = "expect" /\ c.what \in {"position", "shared", "size"} /\ Uses(program, o, p, ip[p], c)
  BY <1>1, AtOperation, AtOutline DEF WellFormed
<1> HIDE DEF c
<1>7. /\ f # Machine!NoFile
      /\ c.what = "position" => f.position = c.number
      /\ c.what = "shared" => Knows(program, o, p, ip[p], <<f.name, Shared>>, c.number)
      /\ c.what = "size" =>
           /\ <<f.name, Size>> \in DOMAIN Cells(o, p, ip[p] - 1)
           /\ \A come \in SUBSET Cells(o, p, ip[p] - 1)[<<f.name, Size>>].from :
                Cells(o, p, ip[p] - 1)[<<f.name, Size>>].value[come] = c.number
  BY <1>6 DEF Uses
<1>8. file[p] # Machine!NoFile /\ f = Handle(file[p]) /\ name \in DOMAIN disk
  BY <1>5, <1>7 DEF HandleInv, StoreInv, FileInv
<1>9. f.name = name /\ f.position = file[p].position
  BY <1>8 DEF Handle
<1>10. /\ CellOf(disk, <<name, Size>>) = Len(disk[name].data)
       /\ CellOf(disk, <<name, Shared>>) = disk[name].shared
  BY <1>8, CellIs
<1> HIDE DEF f
<1>11. CASE c.what = "position"
  BY <1>1, <1>4, <1>7, <1>9, <1>11 DEF OutlineInv
<1>12. CASE c.what = "shared"
  <2> DEFINE y == <<name, Shared>>
  <2>1. Knows(program, o, p, ip[p], y, c.number)
    BY <1>7, <1>9, <1>12
  <2>2. CellOf(disk, y) = c.number
    <3> HIDE DEF y
    <3>1. QED
      BY <1>1, <1>2, <1>4, <1>5, <2>1, KnowsIs
  <2>3. found = c.number
    BY <1>10, <1>12, <2>2 DEF Machine!NameOf
  <2>4. QED
    BY <1>1, <1>4, <2>3 DEF OutlineInv
<1>13. CASE c.what = "size"
  <2> DEFINE y == <<name, Size>>
             e == Cells(o, p, ip[p] - 1)[y]
  <2>1. y \in DOMAIN Cells(o, p, ip[p] - 1) /\ \A come \in SUBSET e.from : e.value[come] = c.number
    BY <1>7, <1>9, <1>13
  <2>2. CellOf(disk, y) = e.value[{a \in e.from : Delivered(a)}]
    <3> HIDE DEF y
    <3>1. QED
      BY <1>5, <2>1 DEF CellInv, CellValue
  <2>3. e.value[{a \in e.from : Delivered(a)}] = c.number
    <3> HIDE DEF e
    <3>1. QED
      BY <2>1
  <2>4. found = c.number
    BY <1>10, <1>13, <2>2, <2>3 DEF Machine!NameOf, Machine!Data
  <2>5. QED
    BY <1>1, <1>4, <2>4 DEF OutlineInv
<1>14. QED
  BY <1>6, <1>11, <1>12, <1>13

LEMMA SyncOutlined ==
  ASSUME Orderly(program), StoreInv, NEW o, Outlined(program, o), OutlineInv(o), NEW p \in Proc,
         Machine!Sync(p)
  PROVE  OutlineInv(o)'
<1> DEFINE name == file[p].name
<1>1. /\ Machine!Executes(p, "sync") /\ Machine!GoOn(p) /\ Machine!Of(p) = {} /\ PlaceInv
      /\ UNCHANGED <<program, memory, transfers, messages, windows, disk, faults, unreported>>
  BY DEF Machine!Sync, StoreInv
<1>2. /\ Doing("sync") /\ Joined("sync") /\ Moves(p, "sync")
      /\ \A q \in Proc : Moves(q, "sync") => q = p
  BY <1>1, AloneJoined DEF Meeting
<1>3. "sync" \notin Accesses /\ "sync" \notin Changing
  BY DEF Accesses, FileCalls, Changing
<1>4. /\ ClockInv(o)' /\ PendingInv(o)' /\ NothingComes("sync")
      /\ OpenInOutline(o)' /\ SlotInv(o)' /\ SentInv(o)' /\ CellInv(o)'
      /\ faults' = {} /\ unreported' = {}
  BY <1>1, <1>2, <1>3, OutlineRest
<1>5. CellInv(o) /\ HandleInv(o) /\ SeenInv(o)
  BY DEF OutlineInv
<1>6. HasOpen(Has(p))
  BY <1>1, AtOperation DEF InPlace
<1>7. /\ file[p] # Machine!NoFile /\ File(o, p, ip[p] - 1) = Handle(file[p])
      /\ File(o, p, ip[p] - 1).name = name /\ Opening1(file[p])
      /\ name \in Proc /\ Len(disk[name].data) \in Nat
  BY <1>5, <1>6, OpenThere
<1>8. /\ \A q \in Proc : q # p => file'[q] = file[q]
      /\ file'[p] = [file[p] EXCEPT !.seen = disk[name].data]
  BY DEF Machine!Sync, Machine!Data, Machine!NameOf, StoreInv, FileInv
<1>9. /\ file'[p].seen = disk[name].data /\ file'[p].name = name /\ Handle(file'[p]) = Handle(file[p])
  BY <1>7, <1>8 DEF Opening1, Handle
<1>10. file'[p] # Machine!NoFile
  <2>1. name # -1
    BY <1>7, WorldSizeAssumption DEF Proc
  <2>2. QED
    BY <1>9, <2>1 DEF Machine!NoFile
<1>11. /\ ip'[p] - 1 = ip[p] /\ program[p][ip[p]].op = "sync"
       /\ Handles(program, o, p, ip[p]) /\ Sees(program, o, p, ip[p])
  BY <1>1, <1>2, NextPlace
<1>12. File(o, p, ip[p]) = File(o, p, ip[p] - 1)
  BY <1>11 DEF Handles
<1> HIDE DEF name
<1>13. ASSUME NEW q \in Proc, q # p
       PROVE  ip'[q] = ip[q] /\ file'[q] = file[q]
  BY <1>2, <1>8, <1>13 DEF Doing
<1>14. Machine!NoFile' = Machine!NoFile /\ \A f : Handle(f)' = Handle(f)
  BY DEF Machine!NoFile, Handle
<1>15. HandleInv(o)'
  <2>1. ASSUME NEW q \in Proc
        PROVE  /\ File(o, q, ip'[q] - 1) = Machine!NoFile <=> file'[q] = Machine!NoFile
               /\ file'[q] # Machine!NoFile => File(o, q, ip'[q] - 1) = Handle(file'[q])
    <3>1. CASE q = p
      BY <1>5, <1>7, <1>9, <1>10, <1>11, <1>12, <3>1 DEF HandleInv
    <3>2. CASE q # p
      BY <1>5, <1>13, <3>2 DEF HandleInv
    <3>3. QED
      BY <3>1, <3>2
  <2>2. QED
    BY <1>14, <2>1 DEF HandleInv
<1>16. SeenInv(o)'
  <2>1. ASSUME NEW q \in Proc, NEW place \in DOMAIN o[q][ip'[q] - 1].seen
        PROVE  /\ file'[q] # Machine!NoFile /\ Len(file'[q].seen) \in Nat
               /\ place \in Nat \ {0} /\ place <= Len(file'[q].seen)
               /\ file'[q].seen[place] = o[q][ip'[q] - 1].seen[place]
    <3>1. CASE q = p
      <4> DEFINE v == o[p][ip[p]].seen[place]
      <4>1. /\ place \in Nat \ {0} /\ v # Unset
            /\ Knows(program, o, p, ip[p], <<name, place>>, v)
        BY <1>7, <1>11, <2>1, <3>1 DEF Sees
      <4> HIDE DEF v
      <4>2. CellOf(disk, <<name, place>>) = v
        <5> DEFINE y == <<name, place>>
        <5>1. Knows(program, o, p, ip[p], y, v)
          BY <4>1
        <5> HIDE DEF y
        <5>2. CellOf(disk, y) = v
          BY <1>1, <1>2, <1>4, <1>5, <5>1, KnowsIs
        <5>3. QED
          BY <5>2 DEF y
      <4>3. place <= Len(disk[name].data) /\ disk[name].data[place] = v
        BY <4>1, <4>2, CellThere
      <4>4. QED
        BY <1>7, <1>9, <1>10, <1>11, <3>1, <4>1, <4>3 DEF v
    <3>2. CASE q # p
      BY <1>5, <1>13, <2>1, <3>2 DEF SeenInv
    <3>3. QED
      BY <3>1, <3>2
  <2>2. QED
    BY <1>14, <2>1 DEF SeenInv
<1>17. QED
  BY <1>4, <1>15, <1>16 DEF OutlineInv

LEMMA SeekOutlined ==
  ASSUME Orderly(program), StoreInv, NEW o, Outlined(program, o), OutlineInv(o), NEW p \in Proc,
         Machine!Seek(p)
  PROVE  OutlineInv(o)'
<1> DEFINE c == Machine!Op(p)
           to == CASE c.whence = "set" -> c.offset
                   [] c.whence = "cur" -> file[p].position + c.offset
                   [] c.whence = "end" -> Len(Machine!Data(Machine!NameOf(p))) + c.offset
           at == IF to < 0 THEN file[p].position ELSE to
           g == File(o, p, ip[p])
           name == file[p].name
<1>1. /\ Machine!Executes(p, "seek") /\ Machine!GoOn(p) /\ PlaceInv
      /\ ~(to < 0) => faults' = faults
      /\ file' = [file EXCEPT ![p] = [@ EXCEPT !.position = at]]
      /\ UNCHANGED <<program, memory, transfers, messages, windows, disk, unreported>>
  BY DEF Machine!Seek, Machine!Blame, StoreInv
<1>2. /\ Doing("seek") /\ Joined("seek") /\ Moves(p, "seek")
      /\ \A q \in Proc : Moves(q, "seek") => q = p
  BY <1>1, AloneJoined DEF Meeting
<1>3. "seek" \notin Accesses /\ "seek" \notin Changing /\ "seek" \notin Ending
  BY DEF Accesses, FileCalls, Changing, Ending
<1>4. /\ ClockInv(o)' /\ PendingInv(o)' /\ NothingComes("seek")
      /\ OpenInOutline(o)' /\ SlotInv(o)' /\ SentInv(o)' /\ CellInv(o)'
      /\ faults' = faults => faults' = {}
      /\ unreported' = {}
  BY <1>1, <1>2, <1>3, OutlineRest
<1>5. CellInv(o) /\ HandleInv(o) /\ SeenInv(o)
  BY DEF OutlineInv
<1>6. HasOpen(Has(p)) /\ c.whence \in {"set", "cur", "end"} /\ c.offset \in Int /\ c.op = "seek"
      /\ c = program[p][ip[p]]
  <2> HIDE DEF c
  <2>1. c = program[p][ip[p]] /\ c.op = "seek" /\ WellFormed(c) /\ InPlace(p, c, Has(p))
    BY <1>1, AtOperation DEF c
  <2>2. HasOpen(Has(p))
    BY <2>1 DEF InPlace
  <2>3. c.whence \in {"set", "cur", "end"} /\ c.offset \in Int
    BY <2>1 DEF WellFormed
  <2>4. QED
    BY <2>1, <2>2, <2>3
<1>7. /\ file[p] # Machine!NoFile /\ File(o, p, ip[p] - 1) = Handle(file[p])
      /\ File(o, p, ip[p] - 1).name = name /\ File(o, p, ip[p] - 1).position = file[p].position
      /\ Opening1(file[p]) /\ name \in DOMAIN disk
      /\ name \in Proc /\ Len(disk[name].data) \in Nat
  BY <1>5, <1>6, OpenThere
<1>8. /\ ip'[p] - 1 = ip[p] /\ Handles(program, o, p, ip[p])
  BY <1>1, <1>2, NextPlace
<1> HIDE DEF c
<1>9. /\ g = [File(o, p, ip[p] - 1) EXCEPT !.position = g.position]
      /\ SeeksTo(program, o, p, ip[p], g.position)
  BY <1>6, <1>8 DEF Handles
<1>10. /\ g.position \in Nat
       /\ c.whence = "set" => g.position = c.offset
       /\ c.whence = "cur" => g.position = file[p].position + c.offset
       /\ c.whence = "end" => Knows(program, o, p, ip[p], <<name, Size>>, g.position - c.offset)
  BY <1>6, <1>7, <1>9 DEF SeeksTo
<1> HIDE DEF g
<1>11. c.whence = "end" => Len(disk[name].data) = g.position - c.offset
  <2> DEFINE y == <<name, Size>>
  <2>1. CellOf(disk, y) = Len(disk[name].data)
    BY <1>7, CellIs
  <2>2. c.whence = "end" => Knows(program, o, p, ip[p], y, g.position - c.offset)
    BY <1>10
  <2> HIDE DEF y
  <2>3. c.whence = "end" => CellOf(disk, y) = g.position - c.offset
    BY <1>1, <1>2, <1>4, <1>5, <2>2, KnowsIs
  <2>4. QED
    BY <2>1, <2>3
<1>12. to = g.position
  <2>1. Machine!Data(Machine!NameOf(p)) = disk[name].data
    BY DEF Machine!Data, Machine!NameOf
  <2>2. CASE c.whence = "end"
    <3>1. to = Len(disk[name].data) + c.offset
      BY <2>1, <2>2
    <3>2. QED
      BY <1>6, <1>10, <1>11, <2>2, <3>1
  <2>3. QED
    BY <1>6, <1>10, <2>2
<1> HIDE DEF to
<1>13. faults' = {}
  BY <1>1, <1>4, <1>10, <1>12
<1>14. /\ \A q \in Proc : q # p => file'[q] = file[q]
       /\ file'[p] = [file[p] EXCEPT !.position = g.position]
  BY <1>1, <1>10, <1>12 DEF StoreInv, FileInv
<1>15. /\ file'[p].name = name /\ file'[p].seen = file[p].seen
       /\ Handle(file'[p]) = g
  BY <1>7, <1>9, <1>14 DEF Opening1, Handle
<1>16. file'[p] # Machine!NoFile
  <2>1. name # -1
    BY <1>7, WorldSizeAssumption DEF Proc
  <2>2. QED
    BY <1>15, <2>1 DEF Machine!NoFile
<1>17. g # Machine!NoFile
  <2>1. g.name = name /\ name # -1
    BY <1>7, <1>9, WorldSizeAssumption DEF Handle, Proc
  <2>2. QED
    BY <2>1 DEF Machine!NoFile
<1> HIDE DEF name
<1>18. HandleInv(o)'
  <2>1. ASSUME NEW q \in Proc
        PROVE  /\ File(o, q, ip'[q] - 1) = Machine!NoFile <=> file'[q] = Machine!NoFile
               /\ file'[q] # Machine!NoFile => File(o, q, ip'[q] - 1) = Handle(file'[q])
    <3>1. CASE q = p
      BY <1>8, <1>15, <1>16, <1>17, <3>1 DEF g
    <3>2. CASE q # p
      BY <1>2, <1>5, <1>14, <3>2 DEF HandleInv, Doing
    <3>3. QED
      BY <3>1, <3>2
  <2>2. Machine!NoFile' = Machine!NoFile /\ \A f : Handle(f)' = Handle(f)
    BY DEF Machine!NoFile, Handle
  <2>3. QED
    BY <2>1, <2>2 DEF HandleInv
<1>19. SeenInv(o)'
  <2>1. \A q \in Proc : file[q] # Machine!NoFile =>
          file'[q] # Machine!NoFile /\ file'[q].seen = file[q].seen
    BY <1>14, <1>15, <1>16
  <2>2. QED
    BY <1>1, <1>2, <1>5, <2>1, SeenKept
<1>20. QED
  BY <1>4, <1>13, <1>18, <1>19 DEF OutlineInv

LEMMA CloseOutlined ==
  ASSUME Orderly(program), StoreInv, NEW o, Outlined(program, o), OutlineInv(o), NEW p \in Proc,
         Machine!Close(p)
  PROVE  OutlineInv(o)'
<1> DEFINE group == Machine!Op(p).group
<1>1. /\ PlaceInv /\ Machine!Meet(p, "close") /\ \A q \in group : Machine!Of(q) = {}
      /\ Machine!GoOnTogether(p)
      /\ file' = [q \in Proc |-> IF q \in group THEN Machine!NoFile ELSE file[q]]
      /\ UNCHANGED <<program, memory, transfers, messages, windows, disk, faults, unreported>>
  BY DEF Machine!Close, StoreInv
<1>2. group \subseteq Proc /\ p \in group /\ Machine!Executes(p, "close")
  BY <1>1, AtOutline DEF Meeting, Machine!Meet
<1>3. Doing("close") /\ Joined("close") /\ \A q \in Proc : q \in group <=> Moves(q, "close")
  BY <1>1, <1>2, JointlyJoined
<1> HIDE DEF group
<1>4. "close" \notin Accesses /\ "close" \notin Changing
  BY DEF Accesses, FileCalls, Changing
<1>5. /\ ClockInv(o)' /\ PendingInv(o)' /\ NothingComes("close")
      /\ OpenInOutline(o)' /\ SlotInv(o)' /\ SentInv(o)'
      /\ faults' = {} /\ unreported' = {}
  BY <1>1, <1>3, <1>4, OutlineRest DEF StoreInv
<1>6. CellInv(o) /\ HandleInv(o) /\ SeenInv(o)
  BY DEF OutlineInv
<1>7. CellInv(o)'
  BY <1>1, <1>3, <1>4, <1>5, <1>6, CellsKept DEF StoreInv
<1>8. ASSUME NEW q \in group
      PROVE  /\ q \in Proc /\ ip'[q] - 1 = ip[q] /\ file'[q] = Machine!NoFile
             /\ File(o, q, ip[q]) = Machine!NoFile /\ DOMAIN o[q][ip[q]].seen = {}
  <2>1. q \in Proc /\ Moves(q, "close") /\ file'[q] = Machine!NoFile
    BY <1>1, <1>2, <1>3, <1>8
  <2>2. /\ ip'[q] - 1 = ip[q] /\ program[q][ip[q]].op = "close"
        /\ Handles(program, o, q, ip[q]) /\ Sees(program, o, q, ip[q])
    BY <1>1, <1>3, <2>1, NextPlace
  <2>3. File(o, q, ip[q]) = Machine!NoFile
    BY <2>2 DEF Handles
  <2>4. QED
    BY <2>1, <2>2, <2>3 DEF Sees
<1>9. \A q \in Proc : q \notin group => ip'[q] = ip[q] /\ file'[q] = file[q]
  BY <1>1, <1>3 DEF Doing
<1>10. Machine!NoFile' = Machine!NoFile /\ \A f : Handle(f)' = Handle(f)
  BY DEF Machine!NoFile, Handle
<1>11. HandleInv(o)'
  <2>1. ASSUME NEW q \in Proc
        PROVE  /\ File(o, q, ip'[q] - 1) = Machine!NoFile <=> file'[q] = Machine!NoFile
               /\ file'[q] # Machine!NoFile => File(o, q, ip'[q] - 1) = Handle(file'[q])
    BY <1>6, <1>8, <1>9 DEF HandleInv
  <2>2. QED
    BY <1>10, <2>1 DEF HandleInv
<1>12. SeenInv(o)'
  <2>1. ASSUME NEW q \in Proc, NEW place \in DOMAIN o[q][ip'[q] - 1].seen
        PROVE  q \notin group
    BY <1>8, <2>1
  <2>2. QED
    BY <1>6, <1>9, <1>10, <2>1 DEF SeenInv
<1>13. QED
  BY <1>5, <1>7, <1>11, <1>12 DEF OutlineInv

(* What those that execute an operation together agree on.                 *)
LEMMA Agrees ==
  ASSUME Orderly(program), PlaceInv, NEW o, Outlined(program, o), NEW x, Doing(x), Joined(x),
         ClockInv(o)', NEW p \in Proc, Moves(p, x), NEW q \in Together(program, p, ip[p])
  PROVE  /\ program[q][ip[q]].op = x /\ File(o, q, ip[q] - 1).name = File(o, p, ip[p] - 1).name
         /\ x = "open" => /\ program[q][ip[q]].name = program[p][ip[p]].name
                          /\ program[q][ip[q]].append = program[p][ip[p]].append
                          /\ program[q][ip[q]].atomic = program[p][ip[p]].atomic
         /\ x = "setsize" => /\ program[q][ip[q]].size = program[p][ip[p]].size
                             /\ program[q][ip[q]].grow = program[p][ip[p]].grow
         /\ x = "fileordered" =>
              /\ program[q][ip[q]].order = program[p][ip[p]].order
              /\ Len(program[q][ip[q]].elements) = Len(program[p][ip[p]].elements)
<1>1. /\ program[p][ip[p]].op = x /\ Agreed(program, o, p, ip[p])
      /\ ip[q] \in DOMAIN program[q] /\ Joint(program, o, p, ip[p], q, ip[q])
      /\ program[q][ip[q]].op = x
  BY AtOutline, TogetherThere DEF Moves
<1>2. QED
  BY <1>1 DEF Agreed

(* A place of a file that is not changed.                                  *)
LEMMA CellElsewhere ==
  ASSUME NEW files, NEW others, NEW y, y[1] \in DOMAIN others <=> y[1] \in DOMAIN files,
         y[1] \in DOMAIN files => others[y[1]] = files[y[1]]
  PROVE  CellOf(others, y) = CellOf(files, y)
<1>1. CASE y[1] \in DOMAIN files
  <2>1. y[1] \in DOMAIN others /\ others[y[1]] = files[y[1]]
    BY <1>1
  <2>2. QED
    BY <1>1, <2>1 DEF CellOf
<1>2. CASE y[1] \notin DOMAIN files
  BY <1>2 DEF CellOf
<1>3. QED
  BY <1>1, <1>2

(* A file that is cut or extended with places that are unset.              *)
LEMMA CellResized ==
  ASSUME NEW files, NEW others, NEW name \in DOMAIN files, name \in DOMAIN others,
         NEW size \in Nat, Len(files[name].data) \in Nat,
         others[name].data = Machine!Resized(files[name].data, size),
         others[name].shared = files[name].shared
  PROVE  /\ CellOf(others, <<name, Size>>) = size
         /\ CellOf(others, <<name, Shared>>) = CellOf(files, <<name, Shared>>)
         /\ \A place \in Nat \ {0} : place <= size =>
              CellOf(others, <<name, place>>) = CellOf(files, <<name, place>>)
<1> DEFINE data == files[name].data
           new == others[name].data
<1>1. Machine!Unset = Unset
  BY DEF Machine!Unset, Unset
<1>2. new = [i \in 1..size |-> IF i <= Len(data) THEN data[i] ELSE Unset]
  BY <1>1 DEF Machine!Resized
<1>3. Len(data) \in Nat
  OBVIOUS
<1>4. /\ CellOf(others, <<name, Size>>) = Len(new)
      /\ CellOf(others, <<name, Shared>>) = others[name].shared
      /\ \A place \in Nat \ {0} :
           CellOf(others, <<name, place>>) = IF place <= Len(new) THEN new[place] ELSE Unset
  BY CellIs
<1>5. /\ CellOf(files, <<name, Shared>>) = files[name].shared
      /\ \A place \in Nat \ {0} :
           CellOf(files, <<name, place>>) = IF place <= Len(data) THEN data[place] ELSE Unset
  BY CellIs
<1> HIDE DEF data, new
<1>6. Len(new) = size /\ \A i \in 1..size : new[i] = IF i <= Len(data) THEN data[i] ELSE Unset
  BY <1>2
<1>7. ASSUME NEW place \in Nat \ {0}, place <= size
      PROVE  CellOf(others, <<name, place>>) = CellOf(files, <<name, place>>)
  <2>1. CellOf(others, <<name, place>>) = new[place]
    BY <1>4, <1>6, <1>7
  <2>2. new[place] = IF place <= Len(data) THEN data[place] ELSE Unset
    BY <1>6, <1>7
  <2>3. QED
    BY <1>5, <2>1, <2>2
<1>8. QED
  BY <1>4, <1>5, <1>6, <1>7

LEMMA SetSizeOutlined ==
  ASSUME Orderly(program), StoreInv, NEW o, Outlined(program, o), OutlineInv(o), NEW p \in Proc,
         Machine!SetSize(p)
  PROVE  OutlineInv(o)'
<1> DEFINE c == Machine!Op(p)
           name == file[p].name
           data == disk[name].data
           size == IF c.grow /\ Len(data) > c.size THEN Len(data) ELSE c.size
<1>1. /\ PlaceInv /\ Machine!Meet(p, "setsize") /\ Machine!GoOnTogether(p)
      /\ disk' = [disk EXCEPT ![name].data = Machine!Resized(@, size)]
      /\ UNCHANGED <<program, memory, transfers, messages, windows, file, faults, unreported>>
  BY DEF Machine!SetSize, Machine!Data, Machine!NameOf, StoreInv
<1>2. /\ Machine!Executes(p, "setsize") /\ c.group \subseteq Proc /\ p \in c.group
      /\ c = program[p][ip[p]] /\ c.op = "setsize"
  BY <1>1, AtOutline DEF Meeting, Machine!Meet
<1>3. /\ Doing("setsize") /\ Joined("setsize")
      /\ \A q \in Proc : q \in c.group <=> Moves(q, "setsize")
  BY <1>1, <1>2, JointlyJoined
<1>4. "setsize" \notin Accesses /\ "setsize" \notin Ending
  BY DEF Accesses, FileCalls, Ending
<1>5. /\ ClockInv(o)' /\ PendingInv(o)' /\ NothingComes("setsize")
      /\ OpenInOutline(o)' /\ SlotInv(o)' /\ SentInv(o)' /\ HandleInv(o)' /\ SeenInv(o)'
      /\ faults' = {} /\ unreported' = {}
  BY <1>1, <1>3, <1>4, OutlineRest
<1>6. CellInv(o) /\ HandleInv(o) /\ ClockInv(o)
  BY DEF OutlineInv
<1>7. HasOpen(Has(p)) /\ c.size \in Nat
  BY <1>1, <1>2, AtOperation DEF InPlace, WellFormed
<1>8. /\ File(o, p, ip[p] - 1).name = name /\ name \in DOMAIN disk /\ Len(data) \in Nat
      /\ disk[name] = [data |-> data, shared |-> disk[name].shared]
  BY <1>6, <1>7, OpenThere
<1>9. size \in Nat /\ c.size <= size
  BY <1>7, <1>8
<1>10. Moves(p, "setsize") /\ \A q \in Proc : Moves(q, "setsize") => q \in Together(program, p, ip[p])
  BY <1>2, <1>3 DEF Together, Meeting
<1> HIDE DEF c, name
<1>11. /\ DOMAIN disk' = DOMAIN disk /\ \A m \in DOMAIN disk : m # name => disk'[m] = disk[m]
       /\ disk'[name] = [disk[name] EXCEPT !.data = Machine!Resized(@, size)]
  BY <1>1, <1>8
<1>12. disk'[name].data = Machine!Resized(data, size) /\ disk'[name].shared = disk[name].shared
  BY <1>8, <1>11
<1>13. CellOf(disk, <<name, Size>>) = Len(data)
  BY <1>8, CellIs
<1> HIDE DEF data, size
<1>14. /\ CellOf(disk', <<name, Size>>) = size
       /\ CellOf(disk', <<name, Shared>>) = CellOf(disk, <<name, Shared>>)
       /\ \A place \in Nat \ {0} : place <= size =>
            CellOf(disk', <<name, place>>) = CellOf(disk, <<name, place>>)
  <2> DEFINE new == disk'
  <2>1. /\ name \in DOMAIN disk /\ name \in DOMAIN new /\ size \in Nat /\ Len(disk[name].data) \in Nat
        /\ new[name].data = Machine!Resized(disk[name].data, size)
        /\ new[name].shared = disk[name].shared
    BY <1>8, <1>9, <1>11, <1>12 DEF data
  <2> HIDE DEF new
  <2>2. /\ CellOf(new, <<name, Size>>) = size
        /\ CellOf(new, <<name, Shared>>) = CellOf(disk, <<name, Shared>>)
        /\ \A place \in Nat \ {0} : place <= size =>
             CellOf(new, <<name, place>>) = CellOf(disk, <<name, place>>)
    BY ONLY <2>1, CellResized
  <2>3. QED
    BY <2>2 DEF new
<1>15. ASSUME NEW y, IsCell(y), ~WritesCell(program[p][ip[p]], File(o, p, ip[p] - 1).name, y)
       PROVE  CellOf(disk', y) = CellOf(disk, y)
  <2>1. CASE y[1] # name
    BY <1>11, <2>1, CellElsewhere
  <2>2. CASE y[1] = name
    <3>1. y[2] # Size /\ ~(y[2] > c.size)
      BY <1>2, <1>8, <1>15, <2>2 DEF WritesCell
    <3>2. y = <<name, y[2]>> /\ y[2] \in {Shared} \cup Nat
      BY <1>15, <2>2, <3>1 DEF IsCell
    <3>3. CASE y[2] = Shared
      BY <1>14, <3>2, <3>3
    <3>4. CASE y[2] # Shared
      <4>1. y[2] \in Nat \ {0} /\ y[2] <= size
        BY <1>7, <1>9, <3>1, <3>2, <3>4 DEF Size
      <4>2. CellOf(disk', <<name, y[2]>>) = CellOf(disk, <<name, y[2]>>)
        BY <1>14, <4>1
      <4>3. QED
        BY <3>2, <4>2
    <3>5. QED
      BY <3>3, <3>4
  <2>3. QED
    BY <2>1, <2>2
<1>16. ASSUME NEW q \in Proc, Moves(q, "setsize"), NEW y, NEW v,
              IsCell(y), WritesCell(program[p][ip[p]], File(o, p, ip[p] - 1).name, y),
              SetsCell(program, o, q, ip[q], y, v)
       PROVE  CellOf(disk', y) = v
  <2> DEFINE d == program[q][ip[q]]
  <2>1. d.op = "setsize" /\ d.size = c.size /\ d.grow = c.grow
    BY <1>1, <1>2, <1>3, <1>5, <1>10, <1>16, Agrees
  <2> HIDE DEF d
  <2>2. /\ y[2] = Size
        /\ IF c.grow THEN \/ v > c.size /\ Knows(program, o, q, ip[q], y, v)
                          \/ v = c.size /\ \E k \in 0..c.size : Knows(program, o, q, ip[q], y, k)
           ELSE v = c.size
    BY <1>16, <2>1 DEF SetsCell, d
  <2>3. y[1] = name
    BY <1>2, <1>8, <1>16 DEF WritesCell
  <2>4. y = <<name, Size>>
    BY <1>16, <2>2, <2>3 DEF IsCell
  <2>5. \A w : Knows(program, o, q, ip[q], y, w) => Len(data) = w
    <3>1. ASSUME NEW w, Knows(program, o, q, ip[q], y, w)  PROVE CellOf(disk, y) = w
      BY <1>1, <1>3, <1>5, <1>6, <1>16, <3>1, KnowsIs
    <3>2. QED
      BY <1>13, <2>4, <3>1
  <2>6. v = size
    BY <1>7, <1>8, <2>2, <2>5 DEF size
  <2>7. QED
    BY <1>14, <2>4, <2>6
<1>17. CellInv(o)'
  <2>1. OthersKept(o, p)
    BY <1>15 DEF OthersKept
  <2>2. AsSaid(o, p, "setsize")
    BY <1>16 DEF AsSaid
  <2>3. QED
    BY <1>1, <1>3, <1>5, <1>6, <1>10, <2>1, <2>2, CellsStep
<1>18. QED
  BY <1>5, <1>17 DEF OutlineInv

LEMMA DeleteOutlined ==
  ASSUME Orderly(program), StoreInv, NEW o, Outlined(program, o), OutlineInv(o), NEW p \in Proc,
         Machine!Delete(p)
  PROVE  OutlineInv(o)'
<1> DEFINE c == Machine!Op(p)
           name == c.name
           missing == IF c.checked /\ name \notin DOMAIN disk THEN {"nofile"} ELSE {}
           used == IF \E q \in Proc : Machine!NameOf(q) = name THEN {"inuse"} ELSE {}
<1>1. /\ PlaceInv /\ Machine!Executes(p, "delete") /\ Machine!GoOn(p)
      /\ disk' = [n \in DOMAIN disk \ {name} |-> disk[n]]
      /\ faults' = (faults \cup missing) \cup used
      /\ UNCHANGED <<program, memory, transfers, messages, windows, file, unreported>>
  BY DEF Machine!Delete, StoreInv
<1>2. /\ Doing("delete") /\ Joined("delete") /\ Moves(p, "delete")
      /\ \A q \in Proc : Moves(q, "delete") => q = p
  BY <1>1, AloneJoined DEF Meeting
<1>3. "delete" \notin Accesses /\ "delete" \notin Ending
  BY DEF Accesses, FileCalls, Ending
<1>4. /\ ClockInv(o)' /\ PendingInv(o)' /\ NothingComes("delete")
      /\ OpenInOutline(o)' /\ SlotInv(o)' /\ SentInv(o)' /\ HandleInv(o)' /\ SeenInv(o)'
      /\ unreported' = {}
  BY <1>1, <1>2, <1>3, OutlineRest
<1>5. CellInv(o) /\ ClockInv(o) /\ faults = {}
  BY DEF OutlineInv
<1>6. c = program[p][ip[p]] /\ c.op = "delete" /\ Uses(program, o, p, ip[p], c)
  BY <1>1, AtOutline
<1>7. missing = {}
  <2>1. c.checked => Exists(program, o, p, ip[p], name)
    BY <1>6 DEF Uses
  <2> HIDE DEF c, name
  <2>2. c.checked => name \in DOMAIN disk
    BY <1>1, <1>2, <1>4, <1>5, <2>1, ExistsIs
  <2>3. QED
    BY <2>2
<1>8. used = {}
  <2>1. "inuse" \notin faults'
    BY DeleteKeeps DEF StoreInv, OtherInv
  <2> HIDE DEF c, name, missing
  <2>2. QED
    BY <1>1, <2>1
<1>9. faults' = {}
  BY <1>1, <1>5, <1>7, <1>8
<1> HIDE DEF c
<1>10. ASSUME NEW y, IsCell(y), ~WritesCell(program[p][ip[p]], File(o, p, ip[p] - 1).name, y)
       PROVE  CellOf(disk', y) = CellOf(disk, y)
  <2>1. y[1] # name
    BY <1>6, <1>10 DEF WritesCell
  <2>2. QED
    BY <1>1, <2>1, CellElsewhere
<1>11. ASSUME NEW q \in Proc, Moves(q, "delete"), NEW y, NEW v,
              IsCell(y), WritesCell(program[p][ip[p]], File(o, p, ip[p] - 1).name, y),
              SetsCell(program, o, q, ip[q], y, v)
       PROVE  CellOf(disk', y) = v
  <2>1. y[1] = name
    BY <1>6, <1>11 DEF WritesCell
  <2>2. q = p
    BY <1>2, <1>11
  <2>3. v = Initially(y)
    BY <1>6, <1>11, <2>2 DEF SetsCell
  <2>4. y[1] \notin DOMAIN disk'
    BY <1>1, <2>1
  <2>5. QED
    BY <2>3, <2>4 DEF CellOf
<1>12. \A q \in Proc : Moves(q, "delete") => q \in Together(program, p, ip[p])
  BY <1>2, <1>6 DEF Together, Meeting
<1>13. CellInv(o)'
  <2>1. OthersKept(o, p)
    BY <1>10 DEF OthersKept
  <2>2. AsSaid(o, p, "delete")
    BY <1>11 DEF AsSaid
  <2>3. QED
    BY <1>1, <1>2, <1>4, <1>5, <1>12, <2>1, <2>2, CellsStep
<1>14. QED
  BY <1>4, <1>9, <1>13 DEF OutlineInv

(* What is found when a file is opened.                                    *)
LEMMA FoundIs ==
  ASSUME Orderly(program), PlaceInv, DiskInv, NEW o, Outlined(program, o), NEW x, Doing(x), Joined(x),
         NothingComes(x), ClockInv(o)', CellInv(o), NEW q \in Proc, Moves(q, x),
         NEW v, Found(program, o, q, ip[q], v)
  PROVE  v = IF program[q][ip[q]].name \in DOMAIN disk
             THEN Len(disk[program[q][ip[q]].name].data) ELSE 0
<1> DEFINE name == program[q][ip[q]].name
           y == <<name, Size>>
<1>1. \/ v # None /\ Knows(program, o, q, ip[q], y, v)
      \/ v = 0 /\ Knows(program, o, q, ip[q], y, None)
  BY DEF Found
<1>2. name \in DOMAIN disk => /\ CellOf(disk, y) = Len(disk[name].data)
                              /\ Len(disk[name].data) \in Nat
  BY CellIs DEF DiskInv
<1>3. name \notin DOMAIN disk => CellOf(disk, y) = None
  BY DEF CellOf, Initially
<1> HIDE DEF name, y
<1>4. \A w : Knows(program, o, q, ip[q], y, w) => CellOf(disk, y) = w
  BY KnowsIs
<1>5. QED
  BY <1>1, <1>2, <1>3, <1>4 DEF name, None

LEMMA OpenOutlined ==
  ASSUME Orderly(program), StoreInv, NEW o, Outlined(program, o), OutlineInv(o), NEW p \in Proc,
         Machine!Open(p)
  PROVE  OutlineInv(o)'
<1> DEFINE c == Machine!Op(p)
           name == c.name
           data == IF name \in DOMAIN disk THEN disk[name].data ELSE << >>
           start == IF c.append THEN Len(data) ELSE 0
           opened(q) == [name |-> name, position |-> start, disp |-> Machine!Op(q).disp,
                         stride |-> Machine!Op(q).stride, atomic |-> c.atomic, seen |-> data]
<1>1. /\ PlaceInv /\ DiskInv /\ Machine!Meet(p, "open") /\ Machine!GoOnTogether(p)
      /\ (name \notin DOMAIN disk /\ ~c.create) \/ faults' = faults
      /\ disk' = [n \in {name} \cup DOMAIN disk |->
                    IF n = name THEN [data |-> data, shared |-> start] ELSE disk[n]]
      /\ file' = [q \in Proc |-> IF q \in c.group THEN opened(q) ELSE file[q]]
      /\ UNCHANGED <<program, memory, transfers, messages, windows, unreported>>
  BY DEF Machine!Open, Machine!Blame, Machine!Data, StoreInv
<1>2. /\ Machine!Executes(p, "open") /\ c.group \subseteq Proc /\ p \in c.group
      /\ c = program[p][ip[p]] /\ c.op = "open" /\ Uses(program, o, p, ip[p], c)
  BY <1>1, AtOutline DEF Meeting, Machine!Meet
<1>3. Doing("open") /\ Joined("open") /\ \A q \in Proc : q \in c.group <=> Moves(q, "open")
  BY <1>1, <1>2, JointlyJoined
<1>4. "open" \notin Accesses /\ "open" \notin Ending
  BY DEF Accesses, FileCalls, Ending
<1>5. /\ ClockInv(o)' /\ PendingInv(o)' /\ NothingComes("open")
      /\ OpenInOutline(o)' /\ SlotInv(o)' /\ SentInv(o)'
      /\ faults' = faults => faults' = {}
      /\ unreported' = {}
  BY <1>1, <1>3, <1>4, OutlineRest
<1>6. CellInv(o) /\ HandleInv(o) /\ SeenInv(o) /\ ClockInv(o)
  BY DEF OutlineInv
<1>7. Moves(p, "open") /\ \A q \in Proc : Moves(q, "open") => q \in Together(program, p, ip[p])
  BY <1>2, <1>3 DEF Together, Meeting
<1>8. name \in Proc /\ name # -1
  <2>1. name \in c.group
    BY <1>1, <1>2, AtOperation DEF WellFormed
  <2>2. QED
    BY <1>2, <2>1, WorldSizeAssumption DEF Proc
<1>9. faults' = {}
  <2>1. ~c.create => Exists(program, o, p, ip[p], name)
    BY <1>2 DEF Uses
  <2> HIDE DEF c, name
  <2>2. ~c.create => name \in DOMAIN disk
    BY <1>1, <1>3, <1>5, <1>6, <1>7, <2>1, ExistsIs
  <2>3. QED
    BY <1>1, <1>5, <2>2
<1>10. Len(data) \in Nat /\ start \in Nat
  BY <1>1 DEF DiskInv
<1>11. \A q : /\ opened(q).name = name /\ opened(q).seen = data /\ opened(q) # Machine!NoFile
              /\ Handle(opened(q)) = [name |-> name, position |-> start, disp |-> Machine!Op(q).disp,
                                      stride |-> Machine!Op(q).stride, atomic |-> c.atomic]
  BY <1>8 DEF Machine!NoFile, Handle
<1> HIDE DEF c, opened
<1>12. ASSUME NEW q \in Proc, Moves(q, "open")
       PROVE  /\ program[q][ip[q]].op = "open" /\ Machine!Op(q) = program[q][ip[q]]
              /\ program[q][ip[q]].name = name
              /\ program[q][ip[q]].append = c.append /\ program[q][ip[q]].atomic = c.atomic
              /\ ip'[q] - 1 = ip[q]
              /\ Handles(program, o, q, ip[q]) /\ Sees(program, o, q, ip[q])
  <2>1. /\ Machine!Op(q) = program[q][ip[q]] /\ ip'[q] - 1 = ip[q]
        /\ Handles(program, o, q, ip[q]) /\ Sees(program, o, q, ip[q])
    BY <1>1, <1>3, <1>12, NextPlace
  <2>2. q \in Together(program, p, ip[p])
    BY <1>7, <1>12
  <2>3. /\ program[q][ip[q]].op = "open" /\ program[q][ip[q]].name = program[p][ip[p]].name
        /\ program[q][ip[q]].append = program[p][ip[p]].append
        /\ program[q][ip[q]].atomic = program[p][ip[p]].atomic
    BY <1>1, <1>3, <1>5, <1>7, <2>2, Agrees
  <2>4. QED
    BY <1>2, <2>1, <2>3
<1>13. ASSUME NEW q \in Proc, Moves(q, "open"), NEW v, Found(program, o, q, ip[q], v)
       PROVE  v = Len(data)
  <2>1. v = IF program[q][ip[q]].name \in DOMAIN disk
            THEN Len(disk[program[q][ip[q]].name].data) ELSE 0
    BY <1>1, <1>3, <1>5, <1>6, <1>13, FoundIs
  <2> HIDE DEF name
  <2>2. CASE name \in DOMAIN disk
    BY <1>12, <1>13, <2>1, <2>2
  <2>3. CASE name \notin DOMAIN disk
    BY <1>12, <1>13, <2>1, <2>3
  <2>4. QED
    BY <2>2, <2>3
<1> HIDE DEF name
<1>14. /\ name \in DOMAIN disk' /\ DOMAIN disk' = {name} \cup DOMAIN disk
       /\ \A n \in DOMAIN disk : n # name => disk'[n] = disk[n]
       /\ disk'[name].data = data /\ disk'[name].shared = start
  BY <1>1
<1>15. name \in DOMAIN disk => data = disk[name].data
  OBVIOUS
<1>16. name \notin DOMAIN disk => Len(data) = 0
  OBVIOUS
<1> HIDE DEF data
<1>17. /\ CellOf(disk', <<name, Size>>) = Len(data)
       /\ CellOf(disk', <<name, Shared>>) = start
       /\ \A place \in Nat \ {0} :
            CellOf(disk', <<name, place>>) = IF place <= Len(data) THEN data[place] ELSE Unset
  <2> DEFINE new == disk'
  <2>1. name \in DOMAIN new /\ new[name].data = data /\ new[name].shared = start
    BY <1>14
  <2> HIDE DEF new
  <2>2. /\ CellOf(new, <<name, Size>>) = Len(data)
        /\ CellOf(new, <<name, Shared>>) = start
        /\ \A place \in Nat \ {0} :
             CellOf(new, <<name, place>>) = IF place <= Len(data) THEN data[place] ELSE Unset
    BY ONLY <2>1, CellIs
  <2>3. QED
    BY <2>2 DEF new
<1>18. ASSUME NEW y, IsCell(y), ~WritesCell(program[p][ip[p]], File(o, p, ip[p] - 1).name, y)
       PROVE  CellOf(disk', y) = CellOf(disk, y)
  <2>1. CASE y[1] # name
    BY <1>14, <2>1, CellElsewhere
  <2>2. CASE y[1] = name
    <3>1. y[2] \notin {Size, Shared}
      BY <1>2, <1>18, <2>2 DEF WritesCell, name
    <3>2. y = <<name, y[2]>> /\ y[2] \in Nat \ {0}
      BY <1>18, <2>2, <3>1 DEF IsCell, Size
    <3>3. CellOf(disk', y) = IF y[2] <= Len(data) THEN data[y[2]] ELSE Unset
      BY <1>17, <3>2
    <3>4. CASE name \in DOMAIN disk
      <4>1. \A place \in Nat \ {0} :
              CellOf(disk, <<name, place>>) = IF place <= Len(data) THEN data[place] ELSE Unset
        BY <1>15, <3>4, CellIs
      <4>2. QED
        BY <3>2, <3>3, <4>1
    <3>5. CASE name \notin DOMAIN disk
      <4>1. CellOf(disk', y) = Unset
        BY <1>16, <3>2, <3>3, <3>5
      <4>2. CellOf(disk, y) = Initially(y)
        BY <2>2, <3>5 DEF CellOf
      <4>3. Initially(y) = Unset
        BY <3>1 DEF Initially
      <4>4. QED
        BY <4>1, <4>2, <4>3
    <3>6. QED
      BY <3>4, <3>5
  <2>3. QED
    BY <2>1, <2>2
<1>19. ASSUME NEW q \in Proc, Moves(q, "open"), NEW y, NEW v,
              IsCell(y), WritesCell(program[p][ip[p]], File(o, p, ip[p] - 1).name, y),
              SetsCell(program, o, q, ip[q], y, v)
       PROVE  CellOf(disk', y) = v
  <2>1. y[1] = name /\ y[2] \in {Size, Shared}
    BY <1>2, <1>19 DEF WritesCell, name
  <2>2. y = <<name, y[2]>>
    BY <1>19, <2>1 DEF IsCell
  <2>3. IF y[2] = Size \/ c.append THEN Found(program, o, q, ip[q], v) ELSE v = 0
    BY <1>12, <1>19 DEF SetsCell
  <2>4. y[2] = Size => v = Len(data)
    BY <1>13, <1>19, <2>3
  <2>5. y[2] # Size => v = start
    BY <1>13, <1>19, <2>3
  <2>6. QED
    BY <1>17, <2>1, <2>2, <2>4, <2>5
<1>20. CellInv(o)'
  <2>1. OthersKept(o, p)
    BY <1>18 DEF OthersKept
  <2>2. AsSaid(o, p, "open")
    BY <1>19 DEF AsSaid
  <2>3. QED
    BY <1>1, <1>3, <1>5, <1>6, <1>7, <2>1, <2>2, CellsStep
<1>21. ASSUME NEW q \in Proc, ~Moves(q, "open")
       PROVE  ip'[q] = ip[q] /\ file'[q] = file[q]
  BY <1>1, <1>3, <1>21 DEF Doing
<1>22. ASSUME NEW q \in Proc, Moves(q, "open")
       PROVE  /\ file'[q] = opened(q)
              /\ File(o, q, ip[q]) = Handle(opened(q)) /\ File(o, q, ip[q]) # Machine!NoFile
  <2> DEFINE g == File(o, q, ip[q])
             d == program[q][ip[q]]
  <2>1. file'[q] = opened(q)
    BY <1>1, <1>3, <1>22
  <2>2. /\ g = [name |-> d.name, position |-> g.position, disp |-> d.disp, stride |-> d.stride,
                atomic |-> d.atomic]
        /\ IF d.append THEN Found(program, o, q, ip[q], g.position) ELSE g.position = 0
    BY <1>12, <1>22 DEF Handles
  <2> HIDE DEF g
  <2>3. g.position = start
    BY <1>12, <1>13, <1>22, <2>2
  <2>4. g = [name |-> name, position |-> start, disp |-> Machine!Op(q).disp,
             stride |-> Machine!Op(q).stride, atomic |-> c.atomic]
    BY <1>12, <1>22, <2>2, <2>3
  <2>5. g # Machine!NoFile
    BY <1>8, <2>4 DEF Machine!NoFile
  <2>6. QED
    BY <1>11, <2>1, <2>4, <2>5 DEF g
<1>23. Machine!NoFile' = Machine!NoFile /\ \A f : Handle(f)' = Handle(f)
  BY DEF Machine!NoFile, Handle
<1>24. HandleInv(o)'
  <2>1. ASSUME NEW q \in Proc
        PROVE  /\ File(o, q, ip'[q] - 1) = Machine!NoFile <=> file'[q] = Machine!NoFile
               /\ file'[q] # Machine!NoFile => File(o, q, ip'[q] - 1) = Handle(file'[q])
    <3>1. CASE Moves(q, "open")
      BY <1>11, <1>12, <1>22, <3>1
    <3>2. CASE ~Moves(q, "open")
      BY <1>6, <1>21, <3>2 DEF HandleInv
    <3>3. QED
      BY <3>1, <3>2
  <2>2. QED
    BY <1>23, <2>1 DEF HandleInv
<1>25. SeenInv(o)'
  <2>1. ASSUME NEW q \in Proc, NEW place \in DOMAIN o[q][ip'[q] - 1].seen
        PROVE  /\ file'[q] # Machine!NoFile /\ Len(file'[q].seen) \in Nat
               /\ place \in Nat \ {0} /\ place <= Len(file'[q].seen)
               /\ file'[q].seen[place] = o[q][ip'[q] - 1].seen[place]
    <3>1. CASE Moves(q, "open")
      <4> DEFINE v == o[q][ip[q]].seen[place]
      <4>1. /\ place \in Nat \ {0} /\ v # Unset
            /\ Knows(program, o, q, ip[q], <<name, place>>, v)
        BY <1>12, <2>1, <3>1 DEF Sees
      <4> HIDE DEF v
      <4>2. CellOf(disk, <<name, place>>) = v
        <5> DEFINE y == <<name, place>>
        <5>1. Knows(program, o, q, ip[q], y, v)
          BY <4>1
        <5> HIDE DEF y
        <5>2. CellOf(disk, y) = v
          BY <1>1, <1>3, <1>5, <1>6, <3>1, <5>1, KnowsIs
        <5>3. QED
          BY <5>2 DEF y
      <4>3. name \in DOMAIN disk /\ place <= Len(disk[name].data) /\ disk[name].data[place] = v
        BY <4>1, <4>2, CellThere
      <4>4. file'[q].seen = data /\ file'[q] # Machine!NoFile
        BY <1>11, <1>22, <3>1
      <4>5. QED
        BY <1>10, <1>12, <1>15, <3>1, <4>1, <4>3, <4>4 DEF v
    <3>2. CASE ~Moves(q, "open")
      BY <1>6, <1>21, <2>1, <3>2 DEF SeenInv
    <3>3. QED
      BY <3>1, <3>2
  <2>2. QED
    BY <1>23, <2>1 DEF SeenInv
<1>26. QED
  BY <1>5, <1>9, <1>20, <1>24, <1>25 DEF OutlineInv

(* The transfer that a call starts at the position of the outline is that  *)
(* of the outline.                                                         *)
LEMMA StartsAs ==
  ASSUME Orderly(program), StoreInv, NEW o, Outlined(program, o), HandleInv(o), SlotInv(o),
         NEW x \in FileCalls, NEW q \in Proc, Machine!Executes(q, x)
  PROVE  /\ Machine!FileTransfer(q, o[q][ip[q]].start) = TransferOf(program, o, q, ip[q])
         /\ TransferOf(program, o, q, ip[q]).by = q /\ TransferOf(program, o, q, ip[q]).at = ip[q]
<1> DEFINE c == program[q][ip[q]]
           f == File(o, q, ip[q] - 1)
           start == o[q][ip[q]].start
           copies == c.kind = "write" /\ ~c.wait
<1>1. /\ c = Machine!Op(q) /\ c.op = x /\ FileCall(program, o, q, ip[q]) /\ PlaceInv
      /\ HasOpen(Has(q))
  <2>1. PlaceInv /\ x \in {"fileaccess", "fileordered"}
    BY DEF StoreInv, FileCalls
  <2>2. /\ c = Machine!Op(q) /\ c.op = x /\ FileCall(program, o, q, ip[q])
    BY <2>1, AtOutline
  <2>3. Machine!Op(q).op = x /\ InPlace(q, Machine!Op(q), Has(q))
    BY <2>1, AtOperation
  <2>4. QED
    BY <2>1, <2>2, <2>3 DEF InPlace
<1>2. f.name = file[q].name /\ f.disp = file[q].disp /\ f.stride = file[q].stride
  <2>1. f = Handle(file[q])
    BY <1>1, OpenThere
  <2>2. QED
    BY <2>1 DEF Handle
<1>3. copies => memory[q][c.mine] = Content(o, q, ip[q] - 1, c.mine)
  <2>1. copies => Settled(o, q, ip[q] - 1, c.mine)
    BY <1>1 DEF FileCall, WritesFile
  <2>2. QED
    BY <2>1, SettledHas
<1>4. [k \in DOMAIN c.elements |-> Machine!Place(q, start + k - 1)] = FilePlaces(program, o, q, ip[q])
  BY <1>2 DEF FilePlaces, Machine!Place
<1>5. Machine!FileTransfer(q, start) =
        [by |-> q, at |-> ip[q], kind |-> c.kind, name |-> file[q].name,
         places |-> [k \in DOMAIN c.elements |-> Machine!Place(q, start + k - 1)],
         mine |-> c.mine, elements |-> c.elements, wait |-> c.wait,
         copy |-> IF copies THEN memory[q][c.mine] ELSE << >>]
  BY <1>1 DEF Machine!FileTransfer, Machine!NameOf
<1>6. TransferOf(program, o, q, ip[q]) =
        [by |-> q, at |-> ip[q], kind |-> c.kind, name |-> f.name,
         places |-> FilePlaces(program, o, q, ip[q]), mine |-> c.mine, elements |-> c.elements,
         wait |-> c.wait,
         copy |-> IF copies THEN Content(o, q, ip[q] - 1, c.mine) ELSE << >>]
  BY <1>1 DEF TransferOf, FileCalls
<1> HIDE DEF c, f, start, copies
<1>7. Machine!FileTransfer(q, start) = TransferOf(program, o, q, ip[q])
  BY <1>2, <1>3, <1>4, <1>5, <1>6
<1>8. TransferOf(program, o, q, ip[q]).by = q /\ TransferOf(program, o, q, ip[q]).at = ip[q]
  BY <1>6
<1>9. QED
  BY <1>7, <1>8 DEF start

(* A step that leaves the file alone but for its shared pointer.           *)
LEMMA PointerMoved ==
  ASSUME NEW files, NEW others, NEW name \in DOMAIN files, DOMAIN others = DOMAIN files,
         \A m \in DOMAIN files : m # name => others[m] = files[m],
         others[name].data = files[name].data
  PROVE  /\ CellOf(others, <<name, Shared>>) = others[name].shared
         /\ \A y : IsCell(y) /\ ~(y[1] = name /\ y[2] = Shared) => CellOf(others, y) = CellOf(files, y)
<1>1. CellOf(others, <<name, Shared>>) = others[name].shared
  BY CellIs
<1>2. ASSUME NEW y, IsCell(y), ~(y[1] = name /\ y[2] = Shared)
      PROVE  CellOf(others, y) = CellOf(files, y)
  <2>1. CASE y[1] # name
    BY <2>1, CellElsewhere
  <2>2. CASE y[1] = name
    <3>1. y = <<name, y[2]>> /\ y[2] \in {Size} \cup (Nat \ {0})
      BY <1>2, <2>2 DEF IsCell, Size
    <3> DEFINE data == files[name].data
    <3>2. /\ CellOf(files, <<name, Size>>) = Len(data)
          /\ \A place \in Nat \ {0} :
               CellOf(files, <<name, place>>) = IF place <= Len(data) THEN data[place] ELSE Unset
      BY CellIs
    <3>3. /\ CellOf(others, <<name, Size>>) = Len(data)
          /\ \A place \in Nat \ {0} :
               CellOf(others, <<name, place>>) = IF place <= Len(data) THEN data[place] ELSE Unset
      <4>1. name \in DOMAIN others /\ others[name].data = data
        OBVIOUS
      <4> HIDE DEF data
      <4>2. QED
        BY <4>1, CellIs
    <3> HIDE DEF data
    <3>4. CASE y[2] = Size
      BY <3>1, <3>2, <3>3, <3>4
    <3>5. CASE y[2] \in Nat \ {0}
      BY <3>1, <3>2, <3>3, <3>5
    <3>6. QED
      BY <3>1, <3>4, <3>5
  <2>3. QED
    BY <2>1, <2>2
<1>3. QED
  BY <1>1, <1>2

LEMMA FileAccessOutlined ==
  ASSUME Orderly(program), StoreInv, NEW o, Outlined(program, o), OutlineInv(o), NEW p \in Proc,
         Machine!FileAccess(p)
  PROVE  OutlineInv(o)'
<1> DEFINE c == Machine!Op(p)
           f == File(o, p, ip[p] - 1)
           name == file[p].name
           n == Len(c.elements)
           start == o[p][ip[p]].start
           at == CASE c.pointer = "individual" -> file[p].position
                   [] c.pointer = "explicit" -> c.offset
                   [] c.pointer = "shared" -> disk[name].shared
           t == TransferOf(program, o, p, ip[p])
<1>1. /\ PlaceInv /\ Machine!Executes(p, "fileaccess") /\ Machine!GoOn(p)
      /\ UNCHANGED <<program, memory, messages, windows, faults, unreported>>
  BY DEF Machine!FileAccess, StoreInv
<1>2. /\ Doing("fileaccess") /\ Joined("fileaccess") /\ Moves(p, "fileaccess")
      /\ \A q \in Proc : Moves(q, "fileaccess") => q = p
  BY <1>1, AloneJoined DEF Meeting
<1>3. /\ ClockInv(o) /\ CellInv(o) /\ HandleInv(o) /\ SeenInv(o) /\ SlotInv(o) /\ faults = {}
  BY DEF OutlineInv
<1>4. /\ c = program[p][ip[p]] /\ c.op = "fileaccess" /\ HasOpen(Has(p))
      /\ c.pointer \in {"individual", "explicit", "shared"} /\ c.elements \in Seq(Nat)
  BY <1>1, AtOperation DEF InPlace, WellFormed
<1>5. /\ file[p] # Machine!NoFile /\ f = Handle(file[p]) /\ f.name = name
      /\ f.position = file[p].position /\ Opening1(file[p]) /\ name \in DOMAIN disk
      /\ name \in Proc /\ disk[name] = [data |-> disk[name].data, shared |-> disk[name].shared]
      /\ disk[name].shared \in Nat
  BY <1>3, <1>4, OpenThere
<1>6. /\ c.pointer = "individual" =>
           /\ transfers' = transfers \cup {Machine!FileTransfer(p, file[p].position)}
           /\ file' = [file EXCEPT ![p].position = @ + n]
           /\ disk' = disk
      /\ c.pointer = "explicit" =>
           /\ transfers' = transfers \cup {Machine!FileTransfer(p, c.offset)}
           /\ file' = file /\ disk' = disk
      /\ c.pointer = "shared" =>
           /\ transfers' = transfers \cup {Machine!FileTransfer(p, disk[name].shared)}
           /\ disk' = [disk EXCEPT ![name].shared = @ + n]
           /\ file' = file
  <2>1. CASE c.pointer = "individual"
    BY <2>1 DEF Machine!FileAccess
  <2>2. CASE c.pointer = "explicit"
    BY <2>2 DEF Machine!FileAccess
  <2>3. CASE c.pointer = "shared"
    BY <2>3 DEF Machine!FileAccess, Machine!NameOf
  <2> HIDE DEF c, name, n
  <2>4. QED
    BY <1>4, <2>1, <2>2, <2>3
<1>7. /\ FileCall(program, o, p, ip[p]) /\ ip'[p] - 1 = ip[p] /\ Handles(program, o, p, ip[p])
  BY <1>1, <1>2, AtOutline, NextPlace DEF FileCalls, Accesses
<1>8. ClockInv(o)'
  BY <1>1, <1>2, <1>3, ClockKept
<1>9. transfers' = transfers \cup {Machine!FileTransfer(p, at)}
  BY <1>4, <1>6
<1> HIDE DEF c
<1>10. NothingComes("fileaccess")
  <2> DEFINE new == {Machine!FileTransfer(p, at)}
  <2>1. /\ \A u \in new : u.by \in Proc /\ Moves(u.by, "fileaccess") /\ u.at = ip[u.by]
        /\ \A q \in Proc : Moves(q, "fileaccess") => \E u \in new : u.by = q
    <3>1. Machine!FileTransfer(p, at).by = p /\ Machine!FileTransfer(p, at).at = ip[p]
      BY DEF Machine!FileTransfer
    <3>2. QED
      BY <1>2, <3>1
  <2>2. transfers' = transfers \cup new
    BY <1>9
  <2> HIDE DEF new
  <2>3. QED
    BY <2>1, <2>2 DEF NothingComes
<1>11. c.pointer = "shared" => disk[name].shared = start
  <2> DEFINE y == <<name, Shared>>
  <2>1. c.pointer = "shared" => Knows(program, o, p, ip[p], y, start)
    BY <1>4, <1>5, <1>7 DEF FileCall, Starts
  <2>2. CellOf(disk, y) = disk[name].shared
    BY <1>5, CellIs
  <2> HIDE DEF y
  <2>3. c.pointer = "shared" => CellOf(disk, y) = start
    BY <1>1, <1>2, <1>3, <1>8, <1>10, <2>1, KnowsIs
  <2>4. QED
    BY <2>2, <2>3
<1>12. at = start
  <2>1. /\ c.pointer = "individual" => start = f.position
        /\ c.pointer = "explicit" => start = c.offset
    BY <1>4, <1>7 DEF FileCall, Starts
  <2>2. QED
    BY <1>4, <1>5, <1>11, <2>1
<1> HIDE DEF at
<1>13. /\ t = Machine!FileTransfer(p, at) /\ t.by = p /\ t.at = ip[p]
  <2>1. "fileaccess" \in FileCalls
    BY DEF FileCalls
  <2>2. Machine!FileTransfer(p, start) = t /\ t.by = p /\ t.at = ip[p]
    BY <1>1, <1>3, <2>1, StartsAs
  <2>3. QED
    BY <1>12, <2>2
<1> HIDE DEF t
<1>14. /\ PendingInv(o)' /\ OpenInOutline(o)' /\ SlotInv(o)' /\ SentInv(o)' /\ unreported' = {}
  <2> DEFINE new == {t}
  <2>1. /\ transfers' = transfers \cup new
        /\ \A u \in new : /\ u.by \in Proc /\ Moves(u.by, "fileaccess") /\ u.at = ip[u.by]
                           /\ u = TransferOf(program, o, u.by, u.at)
        /\ \A q \in Proc : Moves(q, "fileaccess") => \E u \in new : u.by = q
    BY <1>2, <1>9, <1>13 DEF t
  <2>2. "fileaccess" \in Accesses /\ UNCHANGED <<memory, windows, messages, unreported>>
    BY <1>1 DEF Accesses, FileCalls
  <2> HIDE DEF new
  <2>3. QED
    BY <1>1, <1>2, <2>1, <2>2, AccessRest
<1>15. name # -1 /\ n \in Nat
  BY <1>4, <1>5, WorldSizeAssumption DEF Proc
<1>16. /\ \A q \in Proc : q # p => file'[q] = file[q]
       /\ file'[p] = IF c.pointer = "individual" THEN [file[p] EXCEPT !.position = @ + n] ELSE file[p]
  <2>1. DOMAIN file = Proc
    BY DEF StoreInv, FileInv
  <2>2. CASE c.pointer = "individual"
    <3>1. file' = [file EXCEPT ![p].position = @ + n]
      BY <1>6, <2>2
    <3> HIDE DEF n
    <3>2. QED
      BY <2>1, <2>2, <3>1
  <2>3. CASE c.pointer # "individual"
    BY <1>4, <1>6, <2>3
  <2>4. QED
    BY <2>2, <2>3
<1>17. File(o, p, ip[p]) = IF c.pointer = "individual" THEN [f EXCEPT !.position = f.position + n] ELSE f
  BY <1>4, <1>7 DEF Handles
<1>18. /\ file'[p].name = name /\ file'[p].seen = file[p].seen
       /\ Handle(file'[p]) = File(o, p, ip[p]) /\ File(o, p, ip[p]).name = name
  <2>1. CASE c.pointer = "individual"
    BY <1>5, <1>15, <1>16, <1>17, <2>1 DEF Opening1, Handle
  <2>2. CASE c.pointer # "individual"
    BY <1>5, <1>16, <1>17, <2>2
  <2>3. QED
    BY <2>1, <2>2
<1>19. file'[p] # Machine!NoFile /\ File(o, p, ip[p]) # Machine!NoFile
  BY <1>15, <1>18 DEF Machine!NoFile
<1>20. HandleInv(o)'
  <2>1. ASSUME NEW q \in Proc
        PROVE  /\ File(o, q, ip'[q] - 1) = Machine!NoFile <=> file'[q] = Machine!NoFile
               /\ file'[q] # Machine!NoFile => File(o, q, ip'[q] - 1) = Handle(file'[q])
    <3>1. CASE q = p
      BY <1>7, <1>18, <1>19, <3>1
    <3>2. CASE q # p
      BY <1>2, <1>3, <1>16, <3>2 DEF HandleInv, Doing
    <3>3. QED
      BY <3>1, <3>2
  <2>2. Machine!NoFile' = Machine!NoFile /\ \A g : Handle(g)' = Handle(g)
    BY DEF Machine!NoFile, Handle
  <2>3. QED
    BY <2>1, <2>2 DEF HandleInv
<1>21. SeenInv(o)'
  <2>1. \A q \in Proc : file[q] # Machine!NoFile =>
          file'[q] # Machine!NoFile /\ file'[q].seen = file[q].seen
    BY <1>16, <1>18, <1>19
  <2>2. QED
    BY <1>1, <1>2, <1>3, <2>1, SeenKept
<1> HIDE DEF f, name
<1>22. \A y : WritesCell(program[p][ip[p]], File(o, p, ip[p] - 1).name, y)
               <=> c.pointer = "shared" /\ y[1] = name /\ y[2] = Shared
  BY <1>4, <1>5 DEF WritesCell, f
<1>23. /\ c.pointer # "shared" => disk' = disk
       /\ c.pointer = "shared" =>
            /\ DOMAIN disk' = DOMAIN disk /\ \A m \in DOMAIN disk : m # name => disk'[m] = disk[m]
            /\ disk'[name].data = disk[name].data /\ disk'[name].shared = disk[name].shared + n
  <2>1. CASE c.pointer = "shared"
    <3>1. /\ DOMAIN disk' = DOMAIN disk /\ \A m \in DOMAIN disk : m # name => disk'[m] = disk[m]
          /\ disk'[name] = [disk[name] EXCEPT !.shared = @ + n]
      <4>1. disk' = [disk EXCEPT ![name].shared = @ + n] /\ name \in DOMAIN disk
        BY <1>5, <1>6, <2>1 DEF name
      <4> HIDE DEF n
      <4>2. QED
        BY <4>1
    <3>2. disk'[name].data = disk[name].data /\ disk'[name].shared = disk[name].shared + n
      <4>1. disk[name] = [data |-> disk[name].data, shared |-> disk[name].shared]
        BY <1>5 DEF name
      <4> HIDE DEF n
      <4>2. QED
        BY <3>1, <4>1
    <3>3. QED
      BY <2>1, <3>1, <3>2
  <2>2. CASE c.pointer # "shared"
    BY <1>4, <1>6, <2>2
  <2>3. QED
    BY <2>1, <2>2
<1>24. c.pointer = "shared" =>
         /\ CellOf(disk', <<name, Shared>>) = disk[name].shared + n
         /\ \A y : IsCell(y) /\ ~(y[1] = name /\ y[2] = Shared) => CellOf(disk', y) = CellOf(disk, y)
  <2>1. SUFFICES ASSUME c.pointer = "shared"
                 PROVE  /\ CellOf(disk', <<name, Shared>>) = disk[name].shared + n
                        /\ \A y : IsCell(y) /\ ~(y[1] = name /\ y[2] = Shared) =>
                             CellOf(disk', y) = CellOf(disk, y)
    OBVIOUS
  <2> DEFINE new == disk'
  <2>2. /\ name \in DOMAIN disk /\ DOMAIN new = DOMAIN disk
        /\ \A m \in DOMAIN disk : m # name => new[m] = disk[m]
        /\ new[name].data = disk[name].data /\ new[name].shared = disk[name].shared + n
    BY <1>5, <1>23, <2>1
  <2> HIDE DEF new
  <2>3. /\ CellOf(new, <<name, Shared>>) = new[name].shared
        /\ \A y : IsCell(y) /\ ~(y[1] = name /\ y[2] = Shared) => CellOf(new, y) = CellOf(disk, y)
    BY <2>2, PointerMoved
  <2>4. QED
    BY <2>2, <2>3 DEF new
<1>25. ASSUME NEW y, IsCell(y), ~WritesCell(program[p][ip[p]], File(o, p, ip[p] - 1).name, y)
       PROVE  CellOf(disk', y) = CellOf(disk, y)
  BY <1>22, <1>23, <1>24, <1>25
<1>26. ASSUME NEW q \in Proc, Moves(q, "fileaccess"), NEW y, NEW v,
              IsCell(y), WritesCell(program[p][ip[p]], File(o, p, ip[p] - 1).name, y),
              SetsCell(program, o, q, ip[q], y, v)
       PROVE  CellOf(disk', y) = v
  <2>1. q = p /\ c.pointer = "shared" /\ y[1] = name /\ y[2] = Shared
    BY <1>2, <1>22, <1>26
  <2>2. y = <<name, Shared>>
    BY <1>26, <2>1 DEF IsCell
  <2>3. v \in Int /\ Knows(program, o, p, ip[p], y, v - n)
    BY <1>4, <1>26, <2>1 DEF SetsCell
  <2>4. CellOf(disk, y) = v - n
    BY <1>1, <1>2, <1>3, <1>8, <1>10, <2>3, KnowsIs
  <2>5. CellOf(disk, y) = disk[name].shared
    BY <1>5, <2>2, CellIs DEF name
  <2>6. QED
    BY <1>5, <1>15, <1>24, <2>1, <2>2, <2>3, <2>4, <2>5 DEF name
<1>27. \A q \in Proc : Moves(q, "fileaccess") => q \in Together(program, p, ip[p])
  BY <1>2, <1>4 DEF Together, Meeting
<1>28. CellInv(o)'
  <2>1. OthersKept(o, p)
    BY <1>25 DEF OthersKept
  <2>2. AsSaid(o, p, "fileaccess")
    BY <1>26 DEF AsSaid
  <2>3. QED
    BY <1>1, <1>2, <1>3, <1>8, <1>10, <1>14, <1>27, <2>1, <2>2, CellsStep
<1>29. QED
  BY <1>1, <1>3, <1>8, <1>14, <1>20, <1>21, <1>28 DEF OutlineInv

LEMMA FileOrderedOutlined ==
  ASSUME Orderly(program), StoreInv, NEW o, Outlined(program, o), OutlineInv(o), NEW p \in Proc,
         Machine!FileOrdered(p)
  PROVE  OutlineInv(o)'
<1> DEFINE c == Machine!Op(p)
           name == file[p].name
           n == Len(c.elements)
           Before(q) == Machine!Find(c.order, q) - 1
           at(q) == disk[name].shared + n * Before(q)
           passed == n * Len(c.order)
           new == {Machine!FileTransfer(q, at(q)) : q \in c.group}
<1>1. /\ PlaceInv /\ Machine!Meet(p, "fileordered") /\ Machine!GoOnTogether(p)
      /\ transfers' = transfers \cup new
      /\ disk' = [disk EXCEPT ![name].shared = @ + passed]
      /\ UNCHANGED <<program, memory, messages, windows, file, faults, unreported>>
  BY DEF Machine!FileOrdered, Machine!NameOf, StoreInv
<1>2. /\ Machine!Executes(p, "fileordered") /\ c.group \subseteq Proc /\ p \in c.group
      /\ c = program[p][ip[p]] /\ c.op = "fileordered"
  BY <1>1, AtOutline DEF Meeting, Machine!Meet
<1>3. /\ Doing("fileordered") /\ Joined("fileordered")
      /\ \A q \in Proc : q \in c.group <=> Moves(q, "fileordered")
  BY <1>1, <1>2, JointlyJoined
<1>4. /\ ClockInv(o) /\ CellInv(o) /\ HandleInv(o) /\ SeenInv(o) /\ SlotInv(o) /\ faults = {}
  BY DEF OutlineInv
<1>5. HasOpen(Has(p)) /\ c.elements \in Seq(Nat) /\ c.order \in Seq(Proc)
  BY <1>1, <1>2, AtOperation DEF InPlace, WellFormed
<1>6. /\ File(o, p, ip[p] - 1).name = name /\ name \in DOMAIN disk
      /\ disk[name] = [data |-> disk[name].data, shared |-> disk[name].shared]
      /\ disk[name].shared \in Nat
  BY <1>4, <1>5, OpenThere
<1>7. n \in Nat /\ Len(c.order) \in Nat
  BY <1>5
<1>8. passed \in Nat /\ \A q : n * Before(q) \in Int
  <2> HIDE DEF n
  <2>1. ASSUME NEW q  PROVE n * Before(q) \in Int
    <3>1. Machine!Find(c.order, q) \in Nat
      BY <1>7, FindsIt
    <3>2. Before(q) \in Int
      BY <3>1
    <3> HIDE DEF Before
    <3>3. QED
      BY <1>7, <3>2
  <2> DEFINE places == Len(c.order)
  <2>2. n \in Nat /\ places \in Nat
    BY <1>7
  <2> HIDE DEF places
  <2>3. n * places \in Nat
    BY <2>2
  <2>4. QED
    BY <2>1, <2>3 DEF places
<1> HIDE DEF c
<1>9. Moves(p, "fileordered") /\ \A q \in Proc : Moves(q, "fileordered") => q \in Together(program, p, ip[p])
  BY <1>2, <1>3 DEF Together, Meeting
<1>10. ClockInv(o)'
  BY <1>1, <1>3, <1>4, ClockKept
<1> HIDE DEF at
<1>11. \A q : Machine!FileTransfer(q, at(q)).by = q /\ Machine!FileTransfer(q, at(q)).at = ip[q]
  BY DEF Machine!FileTransfer
<1>12. /\ \A t \in new : t.by \in Proc /\ Moves(t.by, "fileordered") /\ t.at = ip[t.by]
       /\ \A q \in Proc : Moves(q, "fileordered") => \E t \in new : t.by = q
  <2> DEFINE T(q) == Machine!FileTransfer(q, at(q))
  <2>1. ASSUME NEW q \in c.group
        PROVE  T(q).by \in Proc /\ Moves(T(q).by, "fileordered") /\ T(q).at = ip[T(q).by] /\ T(q).by = q
    <3>1. T(q).by = q /\ T(q).at = ip[q]
      BY <1>11
    <3>2. q \in Proc /\ Moves(q, "fileordered")
      BY <1>2, <1>3, <2>1
    <3> HIDE DEF T
    <3>3. QED
      BY <3>1, <3>2
  <2>2. new = {T(q) : q \in c.group}
    OBVIOUS
  <2> HIDE DEF T, new
  <2>3. \A t \in new : t.by \in Proc /\ Moves(t.by, "fileordered") /\ t.at = ip[t.by]
    BY <2>1, <2>2
  <2>4. ASSUME NEW q \in Proc, Moves(q, "fileordered")  PROVE \E t \in new : t.by = q
    <3>1. q \in c.group
      BY <1>3, <2>4
    <3>2. T(q) \in new /\ T(q).by = q
      BY <2>1, <2>2, <3>1
    <3>3. QED
      BY <3>2
  <2>5. QED
    BY <2>3, <2>4
<1>13. NothingComes("fileordered")
  <2> HIDE DEF new
  <2>1. QED
    BY <1>1, <1>12 DEF NothingComes
<1>14. CellOf(disk, <<name, Shared>>) = disk[name].shared
  BY <1>6, CellIs
<1>15. ASSUME NEW q \in Proc, Moves(q, "fileordered")
       PROVE  /\ Machine!Executes(q, "fileordered")
              /\ program[q][ip[q]].op = "fileordered" /\ program[q][ip[q]].order = c.order
              /\ Len(program[q][ip[q]].elements) = n
              /\ File(o, q, ip[q] - 1).name = name /\ FileCall(program, o, q, ip[q])
  <2>1. q \in Together(program, p, ip[p])
    BY <1>9, <1>15
  <2>2. /\ program[q][ip[q]].op = "fileordered"
        /\ program[q][ip[q]].order = program[p][ip[p]].order
        /\ Len(program[q][ip[q]].elements) = Len(program[p][ip[p]].elements)
        /\ File(o, q, ip[q] - 1).name = File(o, p, ip[p] - 1).name
    BY <1>1, <1>3, <1>9, <1>10, <2>1, Agrees
  <2>3. Machine!Executes(q, "fileordered") /\ "fileordered" \in FileCalls
    BY <1>15 DEF Moves, FileCalls
  <2>4. FileCall(program, o, q, ip[q])
    BY <1>1, <2>3, AtOutline
  <2>5. QED
    BY <1>2, <1>6, <2>2, <2>3, <2>4
<1>16. ASSUME NEW q \in Proc, Moves(q, "fileordered")
       PROVE  o[q][ip[q]].start = at(q)
  <2> DEFINE y == <<name, Shared>>
             start == o[q][ip[q]].start
             d == program[q][ip[q]]
  <2>1. d.op = "fileordered" /\ d.order = c.order /\ Len(d.elements) = n
    BY <1>15, <1>16
  <2>2. start \in Int /\ Knows(program, o, q, ip[q], <<File(o, q, ip[q] - 1).name, Shared>>,
                               start - Len(d.elements) * (Machine!Find(d.order, q) - 1))
    <3>1. Starts(program, o, q, ip[q])
      BY <1>15, <1>16 DEF FileCall
    <3>2. QED
      BY <2>1, <3>1 DEF Starts
  <2> HIDE DEF d
  <2>3. Knows(program, o, q, ip[q], y, start - n * Before(q))
    BY <1>15, <1>16, <2>1, <2>2
  <2> HIDE DEF y
  <2>4. CellOf(disk, y) = start - n * Before(q)
    BY <1>1, <1>3, <1>4, <1>10, <1>13, <1>16, <2>3, KnowsIs
  <2> DEFINE before == n * Before(q)
  <2>5. before \in Int
    BY <1>8
  <2> HIDE DEF before, start, n, Before
  <2>6. disk[name].shared = start - before
    BY <1>14, <2>4 DEF y, before
  <2>7. start = disk[name].shared + before
    BY <1>6, <2>2, <2>5, <2>6 DEF start
  <2>8. QED
    BY <2>7 DEF start, before, at
<1>17. \A t \in new : t = TransferOf(program, o, t.by, t.at)
  <2>1. ASSUME NEW q \in c.group
        PROVE  /\ Machine!FileTransfer(q, at(q)) = TransferOf(program, o, q, ip[q])
               /\ Machine!FileTransfer(q, at(q)).by = q /\ Machine!FileTransfer(q, at(q)).at = ip[q]
    <3>1. q \in Proc /\ Moves(q, "fileordered")
      BY <1>2, <1>3, <2>1
    <3>2. o[q][ip[q]].start = at(q) /\ Machine!Executes(q, "fileordered") /\ "fileordered" \in FileCalls
      BY <1>15, <1>16, <3>1 DEF FileCalls
    <3>3. Machine!FileTransfer(q, o[q][ip[q]].start) = TransferOf(program, o, q, ip[q])
      BY <1>4, <3>1, <3>2, StartsAs
    <3>4. QED
      BY <1>11, <3>2, <3>3
  <2>2. QED
    BY <2>1
<1> HIDE DEF new
<1>18. /\ PendingInv(o)' /\ OpenInOutline(o)' /\ SlotInv(o)' /\ SentInv(o)' /\ unreported' = {}
  <2>1. /\ \A u \in new : /\ u.by \in Proc /\ Moves(u.by, "fileordered") /\ u.at = ip[u.by]
                          /\ u = TransferOf(program, o, u.by, u.at)
        /\ \A q \in Proc : Moves(q, "fileordered") => \E u \in new : u.by = q
    BY <1>12, <1>17
  <2>2. "fileordered" \in Accesses /\ UNCHANGED <<memory, windows, messages, unreported>>
    BY <1>1 DEF Accesses, FileCalls
  <2>3. PlaceInv /\ OutlineInv(o) /\ ClockInv(o)' /\ Joined("fileordered")
    BY <1>1, <1>3, <1>10
  <2>4. QED
    BY <1>1, <1>3, <2>1, <2>2, <2>3, AccessRest
<1>19. HandleInv(o)' /\ SeenInv(o)'
  BY <1>1, <1>3, <1>4, HandleKept, SeenKept
<1> HIDE DEF name, passed
<1>20. /\ DOMAIN disk' = DOMAIN disk /\ \A m \in DOMAIN disk : m # name => disk'[m] = disk[m]
       /\ disk'[name] = [disk[name] EXCEPT !.shared = @ + passed]
  BY <1>1, <1>6
<1>21. disk'[name].data = disk[name].data /\ disk'[name].shared = disk[name].shared + passed
  BY <1>6, <1>20
<1>22. /\ CellOf(disk', <<name, Shared>>) = disk[name].shared + passed
       /\ \A y : IsCell(y) /\ ~(y[1] = name /\ y[2] = Shared) => CellOf(disk', y) = CellOf(disk, y)
  <2> DEFINE now == disk'
  <2>1. /\ name \in DOMAIN disk /\ DOMAIN now = DOMAIN disk
        /\ \A m \in DOMAIN disk : m # name => now[m] = disk[m]
        /\ now[name].data = disk[name].data /\ now[name].shared = disk[name].shared + passed
    BY <1>6, <1>20, <1>21
  <2> HIDE DEF now
  <2>2. /\ CellOf(now, <<name, Shared>>) = now[name].shared
        /\ \A y : IsCell(y) /\ ~(y[1] = name /\ y[2] = Shared) => CellOf(now, y) = CellOf(disk, y)
    BY <2>1, PointerMoved
  <2>3. QED
    BY <2>1, <2>2 DEF now
<1>23. \A y : WritesCell(program[p][ip[p]], File(o, p, ip[p] - 1).name, y)
                <=> y[1] = name /\ y[2] = Shared
  BY <1>2, <1>6 DEF WritesCell
<1>24. ASSUME NEW y, IsCell(y), ~WritesCell(program[p][ip[p]], File(o, p, ip[p] - 1).name, y)
       PROVE  CellOf(disk', y) = CellOf(disk, y)
  BY <1>22, <1>23, <1>24
<1>25. ASSUME NEW q \in Proc, Moves(q, "fileordered"), NEW y, NEW v,
              IsCell(y), WritesCell(program[p][ip[p]], File(o, p, ip[p] - 1).name, y),
              SetsCell(program, o, q, ip[q], y, v)
       PROVE  CellOf(disk', y) = v
  <2>1. y[1] = name /\ y[2] = Shared
    BY <1>23, <1>25
  <2>2. y = <<name, Shared>>
    BY <1>25, <2>1 DEF IsCell
  <2>3. v \in Int /\ Knows(program, o, q, ip[q], y, v - passed)
    <3> DEFINE d == program[q][ip[q]]
    <3>1. d.op = "fileordered" /\ d.order = c.order /\ Len(d.elements) = n
      BY <1>15, <1>25
    <3>2. v \in Int /\ Knows(program, o, q, ip[q], y, v - Len(d.elements) * Len(d.order))
      BY <1>25, <3>1 DEF SetsCell
    <3> HIDE DEF d
    <3>3. QED
      BY <3>1, <3>2 DEF passed
  <2>4. CellOf(disk, y) = v - passed
    BY <1>1, <1>3, <1>4, <1>10, <1>13, <1>25, <2>3, KnowsIs
  <2>5. QED
    BY <1>6, <1>8, <1>14, <1>22, <2>2, <2>3, <2>4
<1>26. CellInv(o)'
  <2>1. OthersKept(o, p)
    BY <1>24 DEF OthersKept
  <2>2. AsSaid(o, p, "fileordered")
    BY <1>25 DEF AsSaid
  <2>3. QED
    BY <1>1, <1>3, <1>4, <1>9, <1>10, <1>13, <1>18, <2>1, <2>2, CellsStep
<1>27. QED
  BY <1>1, <1>4, <1>10, <1>18, <1>19, <1>26 DEF OutlineInv

-----------------------------------------------------------------------------
(* What an outline says remains so.                                        *)

LEMMA StepOutlined ==
  ASSUME Orderly(program), Collected(program), StoreInv, NEW o, Outlined(program, o),
         OutlineInv(o), NEW p \in Proc, Machine!Step(p), library' = "sound"
  PROVE  OutlineInv(o)'
<1>1. PlaceInv /\ DOMAIN windows = Proc
  BY DEF StoreInv, WindowInv
<1>2. CASE Machine!Alloc(p) \/ Machine!Free(p) \/ Machine!Check(p)
  BY <1>1, <1>2, AllocOutlined, FreeOutlined, CheckOutlined
<1>3. CASE Machine!Give(p) \/ Machine!Take(p) \/ Machine!Reduce(p) \/ Machine!Barrier(p)
  BY <1>1, <1>3, GiveOutlined, TakeOutlined, ReduceOutlined, BarrierOutlined
<1>4. CASE Machine!WinCreate(p) \/ Machine!Fence(p) \/ Machine!WinFree(p)
  BY <1>1, <1>4, WindowOutlined, BarrierOutlined
<1>5. CASE \/ Machine!Lock(p) \/ Machine!Unlock(p) \/ Machine!Post(p) \/ Machine!Start(p)
           \/ Machine!Complete(p) \/ Machine!WaitExposed(p)
  BY <1>1, <1>5, WindowCallsOutlined
<1>6. CASE Machine!Access(p)
  BY <1>1, <1>6, AccessOutlined
<1>7. CASE Machine!Open(p) \/ Machine!Close(p) \/ Machine!Sync(p) \/ Machine!Seek(p)
  BY <1>7, OpenOutlined, CloseOutlined, SyncOutlined, SeekOutlined
<1>8. CASE Machine!FileAccess(p) \/ Machine!FileOrdered(p) \/ Machine!Wait(p)
  BY <1>8, FileAccessOutlined, FileOrderedOutlined, WaitOutlined
<1>9. CASE Machine!SetSize(p) \/ Machine!Expect(p) \/ Machine!Delete(p)
  BY <1>9, SetSizeOutlined, ExpectOutlined, DeleteOutlined
<1>10. QED
  BY <1>2, <1>3, <1>4, <1>5, <1>6, <1>7, <1>8, <1>9 DEF Machine!Step

(* A library that is sound after a step was so before.                     *)
LEMMA SoundBefore ==
  ASSUME [Next]_vars, library' = "sound"
  PROVE  library = "sound"
<1>1. CASE \E p \in Proc : Machine!Step(p)
  <2>1. PICK p \in Proc : Machine!Step(p)
    BY <1>1
  <2>2. CASE Machine!Take(p) \/ Machine!Reduce(p)
    BY <2>2 DEF Machine!Take, Machine!Reduce, Machine!Arrives
  <2>3. CASE \/ Machine!Alloc(p) \/ Machine!Free(p) \/ Machine!Check(p)
             \/ Machine!Give(p) \/ Machine!Barrier(p)
    BY <2>3 DEF Machine!Alloc, Machine!Free, Machine!Check, Machine!Give, Machine!Barrier
  <2>4. CASE \/ Machine!WinCreate(p) \/ Machine!Fence(p) \/ Machine!WinFree(p)
             \/ Machine!Lock(p) \/ Machine!Unlock(p)
             \/ Machine!Post(p) \/ Machine!Start(p) \/ Machine!Complete(p)
             \/ Machine!WaitExposed(p) \/ Machine!Access(p)
    BY <2>4 DEF Machine!WinCreate, Machine!Fence, Machine!WinFree, Machine!Lock, Machine!Unlock,
         Machine!Post, Machine!Start, Machine!Complete, Machine!WaitExposed, Machine!Access
  <2>5. CASE \/ Machine!Open(p) \/ Machine!Close(p) \/ Machine!Sync(p) \/ Machine!Seek(p)
             \/ Machine!FileAccess(p) \/ Machine!FileOrdered(p) \/ Machine!Wait(p)
    BY <2>5 DEF Machine!Open, Machine!Close, Machine!Sync, Machine!Seek, Machine!FileAccess,
         Machine!FileOrdered, Machine!Wait
  <2>6. CASE Machine!SetSize(p) \/ Machine!Expect(p) \/ Machine!Delete(p)
    BY <2>6 DEF Machine!SetSize, Machine!Expect, Machine!Delete
  <2>7. QED
    BY <2>1, <2>2, <2>3, <2>4, <2>5, <2>6 DEF Machine!Step
<1>2. CASE \E t \in transfers : Machine!Perform(t)
  BY <1>2 DEF Machine!Perform
<1>3. CASE UNCHANGED vars
  BY <1>3 DEF vars, Machine!vars
<1>4. QED
  BY <1>1, <1>2, <1>3 DEF Next, Machine!Next, Machine!Over, vars

LEMMA NextOutlined ==
  ASSUME Orderly(program), Collected(program), StoreInv, NEW o, Outlined(program, o),
         OutlineInv(o), [Next]_vars, library' = "sound"
  PROVE  OutlineInv(o)'
<1>1. CASE \E p \in Proc : Machine!Step(p)
  BY <1>1, StepOutlined
<1>2. CASE \E t \in transfers : Machine!Perform(t)
  BY <1>2, PerformOutlined
<1>3. CASE UNCHANGED vars
  <2>1. UNCHANGED <<program, ip, memory, transfers, messages, windows, disk, file, faults, unreported>>
    BY <1>3 DEF vars, Machine!vars
  <2>2. \A a : Delivered(a)' <=> Delivered(a)
    BY <2>1 DEF Delivered
  <2>3. \A p, s : Value(o, p, s)' = Value(o, p, s)
    BY <2>1, <2>2 DEF Value
  <2>4. SlotInv(o)'
    BY <2>1, <2>3 DEF OutlineInv, SlotInv
  <2>5. ClockInv(o)' /\ OpenInOutline(o)' /\ PendingInv(o)' /\ SentInv(o)'
    BY <2>1 DEF OutlineInv, ClockInv, OpenInOutline, PendingInv, SentInv
  <2>6. \A p, x : CellValue(o, p, x)' = CellValue(o, p, x)
    BY <2>1, <2>2 DEF CellValue
  <2>7. CellInv(o)'
    BY <2>1, <2>6 DEF OutlineInv, CellInv
  <2>8. HandleInv(o)' /\ SeenInv(o)'
    BY <2>1 DEF OutlineInv, HandleInv, SeenInv, File, Handle
  <2>9. QED
    BY <2>1, <2>4, <2>5, <2>7, <2>8 DEF OutlineInv
<1>4. QED
  BY <1>1, <1>2, <1>3 DEF Next, Machine!Next, Machine!Over, vars

LEMMA InitOutlined ==
  ASSUME Orderly(program), Init, NEW o, Outlined(program, o)
  PROVE  OutlineInv(o)
<1>1. /\ ip = [p \in Proc |-> 1] /\ transfers = {} /\ messages = {} /\ windows = [p \in Proc |-> {}]
      /\ disk = << >> /\ file = [p \in Proc |-> Machine!NoFile] /\ faults = {} /\ unreported = {}
  BY DEF Init, Machine!Init
<1>2. ASSUME NEW p \in Proc
      PROVE  ip[p] - 1 = 0 /\ Begins(o, p)
  BY <1>1 DEF Outlined
<1>3. \A p \in Proc : /\ \A group \in SUBSET Proc : o[p][ip[p] - 1].clock[group] = 0
                      /\ o[p][ip[p] - 1].windows = {} /\ Slots(o, p, ip[p] - 1) = << >>
  BY <1>2 DEF Begins, Slots
<1>4. ClockInv(o) /\ OpenInOutline(o) /\ SlotInv(o)
  BY <1>1, <1>3 DEF ClockInv, OpenInOutline, SlotInv
<1>5. PendingInv(o) /\ SentInv(o)
  BY <1>1 DEF PendingInv, SentInv
<1>6. HandleInv(o) /\ SeenInv(o)
  BY <1>1, <1>2 DEF HandleInv, SeenInv, Begins
<1>7. ASSUME NEW p \in Proc, NEW x \in DOMAIN Cells(o, p, ip[p] - 1)
      PROVE  CellOf(disk, x) = CellValue(o, p, x)
  <2>1. 0 \in Places(program, p)
    BY DEF Orderly, Places
  <2>2. ASSUME NEW a \in Cells(o, p, 0)[x].from
        PROVE  ~Delivered(a)
    <3>1. BringsToCell(program, o, a, x)
      BY <1>2, <1>7, <2>1 DEF Outlined
    <3>2. a[1] \in Proc /\ a[2] \in DOMAIN program[a[1]]
      BY <3>1 DEF BringsToCell, IsAccess
    <3>3. DOMAIN program[a[1]] = 1..Len(program[a[1]])
      BY <3>2 DEF Orderly
    <3>4. QED
      BY <1>1, <3>2, <3>3 DEF Delivered
  <2>3. CellValue(o, p, x) = Cells(o, p, 0)[x].value[{}]
    BY <1>2, <2>2 DEF CellValue
  <2>4. Cells(o, p, 0)[x].value[{}] = Initially(x)
    BY <1>2, <1>7 DEF Begins
  <2>5. CellOf(disk, x) = Initially(x)
    BY <1>1 DEF CellOf
  <2>6. QED
    BY <2>3, <2>4, <2>5
<1>8. QED
  BY <1>1, <1>4, <1>5, <1>6, <1>7 DEF OutlineInv, CellInv

(* What the outlines of a program say is true as long as the library is    *)
(* sound.                                                                  *)
Outlines == \A o : Outlined(program, o) /\ library = "sound" => OutlineInv(o)

LEMMA OutlineInvariant == Spec => [](Orderly(program) /\ Collected(program) => Outlines)
<1> DEFINE Inv == Orderly(program) /\ Collected(program) => StoreInv /\ Outlines
<1>1. Init => Inv
  BY InitKeeps, InitOutlined DEF Outlines
<1>2. Inv /\ [Next]_vars => Inv'
  <2>1. SUFFICES ASSUME Inv, [Next]_vars, Orderly(program)', Collected(program)'
                 PROVE  StoreInv' /\ Outlines'
    OBVIOUS
  <2>2. program' = program
    BY <2>1, ProgramKept
  <2>3. Orderly(program) /\ Collected(program)
    BY <2>1, <2>2
  <2>4. StoreInv /\ Outlines
    BY <2>1, <2>3
  <2>5. ASSUME NEW o, Outlined(program, o), library' = "sound"
        PROVE  OutlineInv(o)'
    <3>1. OutlineInv(o)
      BY <2>1, <2>4, <2>5, SoundBefore DEF Outlines
    <3>2. QED
      BY <2>1, <2>3, <2>4, <2>5, <3>1, NextOutlined
  <2>6. Outlines'
    BY <2>2, <2>5 DEF Outlines
  <2>7. QED
    BY <2>1, <2>3, <2>4, <2>6, NextKeeps
<1>3. QED
  BY <1>1, <1>2, PTL DEF Spec

(* No interleaving and no delay makes a sound library look faulty: if the  *)
(* programs have an outline, then what tst_test_checkstandardarray and its *)
(* like compare is there and is right, and no two accesses that may not be *)
(* concurrent are.                                                         *)
THEOREM NoFalseAlarm ==
  Spec => [](Orderly(program) /\ Collected(program) /\ (\E o : Outlined(program, o)) => NoFalseFailure)
<1>1. (Orderly(program) /\ Collected(program) => Outlines) =>
        (Orderly(program) /\ Collected(program) /\ (\E o : Outlined(program, o)) => NoFalseFailure)
  BY DEF Outlines, OutlineInv, NoFalseFailure
<1>2. QED
  BY <1>1, OutlineInvariant, PTL

(* Then the comparisons that only print what they find agree, too.         *)
THEOREM AllComparisonsAgree ==
  Spec => [](Orderly(program) /\ Collected(program) /\ (\E o : Outlined(program, o)) => ChecksAgree)
<1>1. (Orderly(program) /\ Collected(program) => Outlines) =>
        (Orderly(program) /\ Collected(program) /\ (\E o : Outlined(program, o)) => ChecksAgree)
  BY DEF Outlines, OutlineInv, ChecksAgree
<1>2. QED
  BY <1>1, OutlineInvariant, PTL
=============================================================================
