--------------------------- MODULE StoreRunProofs ---------------------------
(***************************************************************************)
(* For any number of processes and any library, sound or faulty: if the    *)
(* calls of each process are in order by themselves, then no interleaving  *)
(* of the processes and no delay of a transfer makes a variable leave its  *)
(* type, makes a process free what it does not have or delete a file that  *)
(* is in use, or leaves anything behind.                                   *)
(*                                                                         *)
(* What is shared is thereby a function of the places of the processes:    *)
(* the invariant relates each buffer, window, lock, file and transfer to   *)
(* what the operations behind a process have acquired and not released.    *)
(***************************************************************************)
EXTENDS FileOutline, FiniteSetTheorems, WellFoundedInduction, TLAPS

Has(p) == Held(program, p, ip[p] - 1)

PlaceInv ==
  /\ ip \in [Proc -> Nat]
  /\ \A p \in Proc : ip[p] \in 1..(Len(program[p]) + 1)

(* A process has the buffers it has allocated and not freed.               *)
MemoryInv ==
  /\ DOMAIN memory = Proc
  /\ \A p \in Proc : /\ \A s \in DOMAIN memory[p] : <<"buffer", s>> \in Has(p)
                     /\ \A r \in Has(p) : r[1] = "buffer" => r[2] \in DOMAIN memory[p]

WindowInv ==
  /\ DOMAIN windows = Proc
  /\ \A p \in Proc : \A s \in windows[p] :
       s \in DOMAIN memory[p] /\ <<"window", s>> \in Has(p)

LockInv ==
  /\ DOMAIN locks = Proc
  /\ \A q \in Proc : \A l \in locks[q] :
       /\ l.by \in Proc /\ <<"lock", q>> \in Has(l.by)
       /\ l.kind = "exclusive" => locks[q] = {l}

ExposedInv ==
  /\ DOMAIN exposed = Proc
  /\ \A p \in Proc : /\ exposed[p] \subseteq Proc
                     /\ exposed[p] # {} => <<"exposure", p>> \in Has(p)

(* A transfer is of a call behind its process, which has not ended it.     *)
TransferInv ==
  \A t \in transfers :
    /\ t.by \in Proc /\ t.at \in Nat /\ t.at < ip[t.by]
    /\ <<"transfer", t.by>> \in Has(t.by)
    /\ t.kind = "write" => t.places \in Seq(Int)

(* A process has a file open if and only if its last call said so, and all *)
(* that have opened it with him have, the owner among them.                *)
Opening1(f) ==
  /\ f = [name |-> f.name, position |-> f.position, disp |-> f.disp, stride |-> f.stride,
          atomic |-> f.atomic, seen |-> f.seen]
  /\ f.position \in Nat /\ f.disp \in Int /\ f.stride \in Int
FileInv ==
  /\ DOMAIN file = Proc
  /\ \A p \in Proc : file[p] # Machine!NoFile => Opening1(file[p]) /\ file[p].name \in DOMAIN disk
OpenInv ==
  \A p \in Proc :
    /\ file[p] # Machine!NoFile => HasOpen(Has(p))
    /\ \A r \in Has(p) : r[1] = "open" =>
         /\ file[p] # Machine!NoFile
         /\ file[p].name \in r[2] /\ p \in r[2] /\ r[2] \subseteq Proc
         /\ \A q \in r[2] : r \in Has(q)
         /\ \A u \in Has(p) : u[1] = "open" => u = r

(* A file exists as long as its owner has not deleted it.                  *)
DiskInv ==
  /\ disk = [n \in DOMAIN disk |-> disk[n]]
  /\ \A n \in DOMAIN disk :
       /\ n \in Proc /\ <<"file", n>> \in Has(n)
       /\ disk[n] = [data |-> disk[n].data, shared |-> disk[n].shared]
       /\ disk[n].shared \in Nat /\ Len(disk[n].data) \in Nat

(* A contribution has been given and not been collected; what has been     *)
(* collected had been given.                                               *)
Given(p, q, id) ==
  \E i \in 1..(ip[p] - 1) : GivesTo(program[p][i], q) /\ program[p][i].id = id
Taken(p, q, id) ==
  \E j \in 1..(ip[q] - 1) : CollectsFrom(program[q][j], p) /\ program[q][j].id = id
MessageInv ==
  \A m \in messages : /\ m.from \in Proc /\ m.to \in Proc
                      /\ Given(m.from, m.to, m.id) /\ ~Taken(m.from, m.to, m.id)
CollectInv ==
  \A p, q \in Proc : \A j \in 1..(ip[q] - 1) :
    CollectsFrom(program[q][j], p) => Given(p, q, program[q][j].id)
MessagesInv == Collected(program) => MessageInv /\ CollectInv

OtherInv ==
  /\ library \in {"sound", "faulty", "failed"}
  /\ faults \subseteq Machine!Fault \ {"freed", "inuse"}
  /\ unreported \subseteq Proc

StoreInv ==
  /\ PlaceInv /\ MemoryInv /\ WindowInv /\ LockInv /\ ExposedInv /\ TransferInv
  /\ FileInv /\ OpenInv /\ DiskInv /\ MessagesInv /\ OtherInv

-----------------------------------------------------------------------------
(* What a process holds, from one operation to the next.                   *)

(* Before the first operation, nothing.                                    *)
LEMMA HeldAtFirst == ASSUME NEW pr, NEW p  PROVE Held(pr, p, 0) = {}
BY DEF Held

(* An operation takes away what it releases and adds what it acquires.     *)
LEMMA HeldNext ==
  ASSUME NEW pr, NEW p, NEW n \in Nat
  PROVE  Held(pr, p, n + 1) =
           (Held(pr, p, n) \ Releases(p, pr[p][n + 1])) \cup Acquires(p, pr[p][n + 1])
<1> DEFINE A(h) == Acquires(p, pr[p][h])
           R(h) == Releases(p, pr[p][h])
           Holds(r, m) == \E h \in 1..m : r \in A(h) /\ \A k \in (h + 1)..m : r \notin R(k)
<1>1. \A r : \A m \in {n, n + 1} : r \in Held(pr, p, m) <=> Holds(r, m)
  BY DEF Held
<1> HIDE DEF A, R
<1>2. ASSUME NEW r, Holds(r, n + 1)
      PROVE  r \in A(n + 1) \/ (Holds(r, n) /\ r \notin R(n + 1))
  <2>1. PICK h \in 1..(n + 1) : r \in A(h) /\ \A k \in (h + 1)..(n + 1) : r \notin R(k)
    BY <1>2
  <2>2. CASE h = n + 1
    BY <2>1, <2>2
  <2>3. CASE h # n + 1
    <3>1. h \in 1..n /\ n + 1 \in (h + 1)..(n + 1)
      BY <2>3
    <3>2. \A k \in (h + 1)..n : k \in (h + 1)..(n + 1)
      OBVIOUS
    <3>3. QED
      BY <2>1, <3>1, <3>2
  <2>4. QED
    BY <2>2, <2>3
<1>3. ASSUME NEW r, r \in A(n + 1)
      PROVE  Holds(r, n + 1)
  <2>1. n + 1 \in 1..(n + 1) /\ (n + 1 + 1)..(n + 1) = {}
    OBVIOUS
  <2>2. QED
    BY <1>3, <2>1
<1>4. ASSUME NEW r, Holds(r, n), r \notin R(n + 1)
      PROVE  Holds(r, n + 1)
  <2>1. PICK h \in 1..n : r \in A(h) /\ \A k \in (h + 1)..n : r \notin R(k)
    BY <1>4
  <2>2. \A k \in (h + 1)..(n + 1) : k \in (h + 1)..n \/ k = n + 1
    OBVIOUS
  <2>3. h \in 1..(n + 1)
    OBVIOUS
  <2>4. QED
    BY <1>4, <2>1, <2>2, <2>3
<1>5. \A r : Holds(r, n + 1) <=> r \in A(n + 1) \/ (Holds(r, n) /\ r \notin R(n + 1))
  BY <1>2, <1>3, <1>4
<1> HIDE DEF Holds
<1>6. \A r : r \in Held(pr, p, n + 1) <=> r \in A(n + 1) \/ (r \in Held(pr, p, n) /\ r \notin R(n + 1))
  BY <1>1, <1>5
<1>7. Held(pr, p, n + 1) = (Held(pr, p, n) \ R(n + 1)) \cup A(n + 1)
  BY <1>6
<1>8. QED
  BY <1>7 DEF A, R

(* Of each kind, what is acquired, and by which operation.                 *)
LEMMA Acquisitions ==
  ASSUME NEW p, NEW o, NEW r \in Acquires(p, o)
  PROVE  /\ r[1] = "buffer" => o.op = "alloc" /\ r[2] \in DOMAIN o.buffers
         /\ r[1] = "window" => o.op = "wincreate" /\ r[2] = o.slot
         /\ r[1] = "lock" => o.op = "lock" /\ r[2] = o.to
         /\ r[1] = "exposure" => o.op = "post" /\ r[2] = p
         /\ r[1] = "open" => o.op = "open" /\ r = <<"open", o.group>> /\ r[2] = o.group
         /\ r[1] = "file" => o.op = "open" /\ r[2] = p /\ o.name = p
         /\ r[1] = "transfer" => o.op \in {"access", "fileaccess", "fileordered"} /\ r[2] = p
         /\ r[1] \in {"buffer", "window", "lock", "exposure", "open", "file", "transfer"}
BY DEF Acquires

(* Of each kind, what is released, and by which operation.                 *)
LEMMA Discharges ==
  ASSUME NEW p, NEW o, NEW r \in Releases(p, o)
  PROVE  /\ r[1] = "buffer" => o.op = "free" /\ r[2] \in o.slots
         /\ r[1] = "window" => o.op = "winfree" /\ r[2] = o.slot
         /\ r[1] = "lock" => o.op = "unlock" /\ r[2] = o.to
         /\ r[1] = "exposure" => o.op = "waitexposed"
         /\ r[1] = "open" => o.op = "close" /\ r = <<"open", o.group>>
         /\ r[1] = "file" => o.op = "delete" /\ r[2] = o.name
         /\ r[1] = "transfer" => o.op \in Ending
BY DEF Releases

-----------------------------------------------------------------------------
(* Steps of the processes.                                                 *)

(* A step in which some processes execute their next operations.           *)
Moves(q, x) == Machine!Executes(q, x) /\ ip'[q] = ip[q] + 1
Doing(x) ==
  /\ program' = program
  /\ ip' = [q \in Proc |-> ip'[q]]
  /\ \A q \in Proc : ip'[q] = ip[q] \/ Moves(q, x)

(* The places stay within the programs.                                    *)
LEMMA PlaceKept ==
  ASSUME Orderly(program), PlaceInv, NEW x, Doing(x)
  PROVE  PlaceInv'
<1>1. ASSUME NEW q \in Proc
      PROVE  ip'[q] \in 1..(Len(program[q]) + 1)
  <2>1. Len(program[q]) \in Nat
    BY DEF Orderly
  <2>2. CASE ip'[q] = ip[q]
    BY <2>2 DEF PlaceInv
  <2>3. CASE Moves(q, x)
    BY <2>1, <2>3 DEF PlaceInv, Moves, Machine!Executes, Machine!Ended
  <2>4. QED
    BY <2>2, <2>3 DEF Doing
<1>2. program' = program
  BY DEF Doing
<1>3. ip' \in [Proc -> Nat]
  BY <1>1 DEF Doing
<1>4. QED
  BY <1>1, <1>2, <1>3 DEF PlaceInv

(* A process that moves is at an operation of its program.                 *)
LEMMA AtOperation ==
  ASSUME Orderly(program), PlaceInv, NEW x, NEW q \in Proc, Machine!Executes(q, x)
  PROVE  /\ ip[q] \in DOMAIN program[q] /\ Machine!Op(q) = program[q][ip[q]]
         /\ Machine!Op(q).op = x
         /\ WellFormed(Machine!Op(q)) /\ InPlace(q, Machine!Op(q), Has(q))
<1>1. Len(program[q]) \in Nat /\ DOMAIN program[q] = 1..Len(program[q])
  BY DEF Orderly
<1>2. ip[q] \in DOMAIN program[q]
  BY <1>1 DEF PlaceInv, Machine!Executes, Machine!Ended
<1>3. WellFormed(program[q][ip[q]]) /\ InPlace(q, program[q][ip[q]], Held(program, q, ip[q] - 1))
  BY <1>2 DEF Orderly
<1>4. QED
  BY <1>2, <1>3 DEF Machine!Executes, Machine!Op, Has

(* What changes of what a process holds.                                   *)
LEMMA HasKept ==
  ASSUME Orderly(program), PlaceInv, NEW x, Doing(x), NEW q \in Proc
  PROVE  /\ ip'[q] = ip[q] => Has(q)' = Has(q)
         /\ Moves(q, x) => Has(q)' = (Has(q) \ Releases(q, Machine!Op(q))) \cup Acquires(q, Machine!Op(q))
<1>1. program' = program /\ ip[q] \in Nat \ {0}
  BY DEF Doing, PlaceInv
<1>2. ASSUME ip'[q] = ip[q]  PROVE Has(q)' = Has(q)
  BY <1>1, <1>2 DEF Has
<1>3. ASSUME Moves(q, x)
      PROVE  Has(q)' = (Has(q) \ Releases(q, Machine!Op(q))) \cup Acquires(q, Machine!Op(q))
  <2>1. ip'[q] - 1 = (ip[q] - 1) + 1 /\ ip[q] - 1 \in Nat /\ (ip[q] - 1) + 1 = ip[q]
    BY <1>1, <1>3 DEF Moves
  <2>2. Held(program, q, (ip[q] - 1) + 1) =
          (Held(program, q, ip[q] - 1) \ Releases(q, program[q][(ip[q] - 1) + 1]))
            \cup Acquires(q, program[q][(ip[q] - 1) + 1])
    BY <2>1, HeldNext
  <2>3. Has(q)' = Held(program, q, (ip[q] - 1) + 1)
    BY <1>1, <2>1 DEF Has
  <2>4. QED
    BY <2>1, <2>2, <2>3 DEF Has, Machine!Op
<1>4. QED
  BY <1>2, <1>3

(* Things of one kind are kept by the operations that are not about them.  *)
LEMMA Unaffected ==
  ASSUME Orderly(program), PlaceInv, NEW x, Doing(x), NEW q \in Proc, NEW r
  PROVE  /\ r[1] = "buffer" /\ x \notin {"alloc", "free"} => (r \in Has(q)' <=> r \in Has(q))
         /\ r[1] = "open" /\ x \notin {"open", "close"} => (r \in Has(q)' <=> r \in Has(q))
         /\ r \in Has(q) =>
              /\ r[1] = "buffer" /\ x # "free" => r \in Has(q)'
              /\ r[1] = "window" /\ x # "winfree" => r \in Has(q)'
              /\ r[1] = "lock" /\ x # "unlock" => r \in Has(q)'
              /\ r[1] = "exposure" /\ x # "waitexposed" => r \in Has(q)'
              /\ r[1] = "file" /\ x # "delete" => r \in Has(q)'
              /\ r[1] = "transfer" /\ x \notin Ending => r \in Has(q)'
<1>1. CASE ip'[q] = ip[q]
  BY <1>1, HasKept
<1>2. CASE Moves(q, x)
  <2> DEFINE o == Machine!Op(q)
  <2>1. Has(q)' = (Has(q) \ Releases(q, o)) \cup Acquires(q, o) /\ o.op = x
    BY <1>2, HasKept DEF Moves, Machine!Executes
  <2>2. r \in Acquires(q, o) =>
          /\ r[1] = "buffer" => x = "alloc"
          /\ r[1] = "open" => x = "open"
    BY <2>1, Acquisitions
  <2>3. r \in Releases(q, o) =>
          /\ r[1] = "buffer" => x = "free"
          /\ r[1] = "open" => x = "close"
          /\ r[1] = "window" => x = "winfree"
          /\ r[1] = "lock" => x = "unlock"
          /\ r[1] = "exposure" => x = "waitexposed"
          /\ r[1] = "file" => x = "delete"
          /\ r[1] = "transfer" => x \in Ending
    BY <2>1, Discharges
  <2> HIDE DEF o
  <2>4. QED
    BY <2>1, <2>2, <2>3
<1>3. QED
  BY <1>1, <1>2 DEF Doing

(* The parts of the invariant that an operation does not disturb.          *)
SameBuffers == DOMAIN memory' = Proc /\ \A q \in Proc : DOMAIN memory'[q] = DOMAIN memory[q]

LEMMA MemoryKept ==
  ASSUME Orderly(program), PlaceInv, MemoryInv, NEW x, Doing(x), x \notin {"alloc", "free"},
         SameBuffers
  PROVE  MemoryInv'
<1>1. ASSUME NEW q \in Proc, NEW s \in DOMAIN memory'[q]
      PROVE  <<"buffer", s>> \in Has(q)'
  BY <1>1, Unaffected DEF MemoryInv, SameBuffers
<1>2. ASSUME NEW q \in Proc, NEW r \in Has(q)', r[1] = "buffer"
      PROVE  r[2] \in DOMAIN memory'[q]
  BY <1>2, Unaffected DEF MemoryInv, SameBuffers
<1>3. QED
  BY <1>1, <1>2 DEF MemoryInv, SameBuffers

LEMMA WindowKept ==
  ASSUME Orderly(program), PlaceInv, WindowInv, NEW x, Doing(x), x \notin {"free", "winfree"},
         SameBuffers, windows' = windows
  PROVE  WindowInv'
<1>1. ASSUME NEW q \in Proc, NEW s \in windows[q]
      PROVE  s \in DOMAIN memory'[q] /\ <<"window", s>> \in Has(q)'
  BY <1>1, Unaffected DEF WindowInv, SameBuffers
<1>2. QED
  BY <1>1 DEF WindowInv

LEMMA LockKept ==
  ASSUME Orderly(program), PlaceInv, LockInv, NEW x, Doing(x), x # "unlock", locks' = locks
  PROVE  LockInv'
<1>1. ASSUME NEW q \in Proc, NEW l \in locks[q]
      PROVE  <<"lock", q>> \in Has(l.by)'
  BY <1>1, Unaffected DEF LockInv
<1>2. QED
  BY <1>1 DEF LockInv

LEMMA ExposedKept ==
  ASSUME Orderly(program), PlaceInv, ExposedInv, NEW x, Doing(x), x # "waitexposed",
         exposed' = exposed
  PROVE  ExposedInv'
<1>1. ASSUME NEW q \in Proc, exposed[q] # {}
      PROVE  <<"exposure", q>> \in Has(q)'
  BY <1>1, Unaffected DEF ExposedInv
<1>2. QED
  BY <1>1 DEF ExposedInv

(* A process that ends its transfers has none.                             *)
LEMMA TransferKept ==
  ASSUME Orderly(program), PlaceInv, TransferInv, NEW x, Doing(x), transfers' \subseteq transfers,
         x \notin Ending \/ \A q \in Proc : Moves(q, x) => Machine!Of(q) = {}
  PROVE  TransferInv'
<1>1. ASSUME NEW t \in transfers'
      PROVE  t.at < ip'[t.by] /\ <<"transfer", t.by>> \in Has(t.by)'
  <2>1. /\ t \in transfers /\ t.by \in Proc /\ t.at \in Nat /\ t.at < ip[t.by] /\ <<"transfer", t.by>> \in Has(t.by)
        /\ t \in Machine!Of(t.by)
    BY <1>1 DEF TransferInv, Machine!Of
  <2>2. ip[t.by] \in Nat /\ t.by \in Proc
    BY <2>1 DEF PlaceInv
  <2>3. CASE ip'[t.by] = ip[t.by]
    BY <2>1, <2>3, HasKept
  <2>4. CASE Moves(t.by, x)
    <3>1. x \notin Ending
      BY <2>1, <2>4
    <3>2. <<"transfer", t.by>> \in Has(t.by)'
      BY <2>1, <3>1, Unaffected
    <3>3. t.at < ip[t.by] + 1
      BY <2>1, <2>2
    <3>4. QED
      BY <2>4, <3>2, <3>3 DEF Moves
  <2>5. QED
    BY <2>1, <2>3, <2>4 DEF Doing
<1>2. QED
  BY <1>1, ZenonT(30) DEF TransferInv

LEMMA FileKept ==
  ASSUME FileInv, file' = file, DOMAIN disk \subseteq DOMAIN disk'
  PROVE  FileInv'
BY DEF FileInv

LEMMA OpenKept ==
  ASSUME Orderly(program), PlaceInv, FileInv, OpenInv, NEW x, Doing(x), x \notin {"open", "close"},
         \A q \in Proc : /\ file'[q] = Machine!NoFile <=> file[q] = Machine!NoFile
                         /\ file'[q].name = file[q].name
  PROVE  OpenInv'
<1>1. ASSUME NEW q \in Proc, file'[q] # Machine!NoFile
      PROVE  HasOpen(Has(q))'
  BY <1>1, Unaffected DEF OpenInv, HasOpen
<1>2. ASSUME NEW q \in Proc, NEW r \in Has(q)', r[1] = "open"
      PROVE  /\ file'[q] # Machine!NoFile
             /\ file'[q].name \in r[2] /\ q \in r[2] /\ r[2] \subseteq Proc
             /\ \A p \in r[2] : r \in Has(p)'
             /\ \A u \in Has(q)' : u[1] = "open" => u = r
  BY <1>2, Unaffected DEF OpenInv
<1>3. Machine!NoFile' = Machine!NoFile
  BY DEF Machine!NoFile
<1>4. QED
  BY <1>1, <1>2, <1>3 DEF OpenInv

LEMMA DiskKept ==
  ASSUME Orderly(program), PlaceInv, DiskInv, NEW x, Doing(x), x # "delete", disk' = disk
  PROVE  DiskInv'
<1>1. ASSUME NEW n \in DOMAIN disk
      PROVE  <<"file", n>> \in Has(n)'
  BY <1>1, Unaffected DEF DiskInv
<1>2. QED
  BY <1>1 DEF DiskInv

(* What has been given stays given; what is collected is collected by the  *)
(* operation that is executed.                                             *)
LEMMA GivenAndTaken ==
  ASSUME Orderly(program), PlaceInv, NEW x, Doing(x), NEW p \in Proc, NEW q \in Proc, NEW id
  PROVE  /\ Given(p, q, id) => Given(p, q, id)'
         /\ Taken(p, q, id)' =>
              \/ Taken(p, q, id)
              \/ Moves(q, x) /\ CollectsFrom(Machine!Op(q), p) /\ Machine!Op(q).id = id
<1>1. program' = program /\ ip[p] \in Nat /\ ip[q] \in Nat
  BY DEF Doing, PlaceInv
<1>2. ip'[p] \in {ip[p], ip[p] + 1}
  BY DEF Doing, Moves
<1>3. Given(p, q, id) => Given(p, q, id)'
  <2>1. 1..(ip[p] - 1) \subseteq 1..(ip'[p] - 1)
    BY <1>1, <1>2
  <2>2. QED
    BY <1>1, <2>1 DEF Given
<1>4. CASE ip'[q] = ip[q]
  BY <1>1, <1>3, <1>4 DEF Taken
<1>5. CASE Moves(q, x)
  <2>1. \A j \in 1..(ip'[q] - 1) : j \in 1..(ip[q] - 1) \/ j = ip[q]
    BY <1>1, <1>5 DEF Moves
  <2>2. QED
    BY <1>1, <1>3, <1>5, <2>1 DEF Taken, Machine!Op
<1>6. QED
  BY <1>4, <1>5 DEF Doing

(* What has been collected before a step.                                  *)
LEMMA CollectStep ==
  ASSUME Orderly(program), PlaceInv, NEW x, Doing(x), CollectInv,
         \A q \in Proc : Moves(q, x) =>
           \A p \in Proc : CollectsFrom(Machine!Op(q), p) => Given(p, q, Machine!Op(q).id)
  PROVE  CollectInv'
<1>1. ASSUME NEW p \in Proc, NEW q \in Proc, NEW j \in 1..(ip'[q] - 1), CollectsFrom(program[q][j], p)
      PROVE  Given(p, q, program[q][j].id)'
  <2>1. Given(p, q, program[q][j].id)
    <3>1. CASE j \in 1..(ip[q] - 1)
      BY <1>1, <3>1 DEF CollectInv
    <3>2. CASE j \notin 1..(ip[q] - 1)
      <4>1. Moves(q, x) /\ ip[q] \in Nat
        BY <1>1, <3>2 DEF Doing, PlaceInv
      <4>2. j = ip[q]
        BY <1>1, <3>2, <4>1 DEF Moves
      <4>3. QED
        BY <1>1, <4>1, <4>2 DEF Machine!Op
    <3>3. QED
      BY <3>1, <3>2
  <2>2. 1..(ip[p] - 1) \subseteq 1..(ip'[p] - 1)
    BY DEF Doing, Moves, PlaceInv
  <2>3. program' = program
    BY DEF Doing
  <2>4. QED
    BY <2>1, <2>2, <2>3 DEF Given
<1>2. program' = program
  BY DEF Doing
<1>3. QED
  BY <1>1, <1>2 DEF CollectInv

LEMMA MessagesKept ==
  ASSUME Orderly(program), PlaceInv, MessagesInv, NEW x, Doing(x),
         x \notin {"give", "take", "reduce"}, messages' = messages
  PROVE  MessagesInv'
<1>1. SUFFICES ASSUME Collected(program)
               PROVE  (MessageInv /\ CollectInv)'
  BY DEF MessagesInv, Doing
<1>2. MessageInv /\ CollectInv
  BY <1>1 DEF MessagesInv
<1>3. \A q \in Proc : Moves(q, x) => \A p : ~CollectsFrom(Machine!Op(q), p)
  BY DEF Moves, Machine!Executes, CollectsFrom
<1>4. MessageInv'
  <2>1. ASSUME NEW m \in messages
        PROVE  Given(m.from, m.to, m.id)' /\ ~Taken(m.from, m.to, m.id)'
    BY <1>2, <1>3, GivenAndTaken DEF MessageInv
  <2>2. QED
    BY <1>2, <2>1 DEF MessageInv
<1>5. CollectInv'
  BY <1>2, <1>3, CollectStep
<1>6. QED
  BY <1>4, <1>5

(* All that a step does not disturb.                                       *)
LEMMA Rest ==
  ASSUME Orderly(program), StoreInv, NEW x, Doing(x)
  PROVE  /\ PlaceInv'
         /\ (memory' = memory => SameBuffers)
         /\ (x \notin {"alloc", "free"} /\ SameBuffers => MemoryInv')
         /\ (x \notin {"free", "winfree"} /\ SameBuffers /\ windows' = windows => WindowInv')
         /\ (x # "unlock" /\ locks' = locks => LockInv')
         /\ (x # "waitexposed" /\ exposed' = exposed => ExposedInv')
         /\ (x \notin Ending /\ transfers' = transfers => TransferInv')
         /\ (DOMAIN disk \subseteq DOMAIN disk' /\ file' = file => FileInv')
         /\ (x \notin {"open", "close"} /\ file' = file => OpenInv')
         /\ (x # "delete" /\ disk' = disk => DiskInv')
         /\ (x \notin {"give", "take", "reduce"} /\ messages' = messages => MessagesInv')
         /\ (UNCHANGED <<library, faults, unreported>> => OtherInv')
<1>1. PlaceInv'
  BY PlaceKept DEF StoreInv
<1>2. memory' = memory => SameBuffers
  BY DEF StoreInv, MemoryInv, SameBuffers
<1>3. x \notin {"alloc", "free"} /\ SameBuffers => MemoryInv'
  BY MemoryKept DEF StoreInv
<1>4. x \notin {"free", "winfree"} /\ SameBuffers /\ windows' = windows => WindowInv'
  BY WindowKept DEF StoreInv
<1>5. x # "unlock" /\ locks' = locks => LockInv'
  BY LockKept DEF StoreInv
<1>6. x # "waitexposed" /\ exposed' = exposed => ExposedInv'
  BY ExposedKept DEF StoreInv
<1>7. x \notin Ending /\ transfers' = transfers => TransferInv'
  BY TransferKept DEF StoreInv
<1>8. DOMAIN disk \subseteq DOMAIN disk' /\ file' = file => FileInv'
  BY FileKept DEF StoreInv
<1>9. x \notin {"open", "close"} /\ file' = file => OpenInv'
  BY OpenKept DEF StoreInv
<1>10. x # "delete" /\ disk' = disk => DiskInv'
  BY DiskKept DEF StoreInv
<1>11. x \notin {"give", "take", "reduce"} /\ messages' = messages => MessagesInv'
  BY MessagesKept DEF StoreInv
<1>12. UNCHANGED <<library, faults, unreported>> => OtherInv'
  BY DEF StoreInv, OtherInv, Machine!Fault
<1>13. QED
  BY <1>1, <1>2, <1>3, <1>4, <1>5, <1>6, <1>7, <1>8, <1>9, <1>10, <1>11, <1>12

(* A process that goes on alone.                                           *)
LEMMA Alone ==
  ASSUME PlaceInv, NEW p \in Proc, NEW x, Machine!Executes(p, x), Machine!GoOn(p),
         program' = program
  PROVE  Doing(x) /\ Moves(p, x) /\ \A q \in Proc : Moves(q, x) => q = p
<1>1. ip'[p] = ip[p] + 1 /\ \A q \in Proc : q # p => ip'[q] = ip[q]
  BY DEF PlaceInv, Machine!GoOn
<1>2. ip' = [q \in Proc |-> ip'[q]] /\ \A q \in Proc : ip[q] \in Nat
  BY DEF PlaceInv, Machine!GoOn
<1>3. \A q \in Proc : Moves(q, x) => q = p
  BY <1>1, <1>2 DEF Moves
<1>4. QED
  BY <1>1, <1>2, <1>3 DEF Doing, Moves

(* The members of a group that go on together.                             *)
LEMMA Jointly ==
  ASSUME PlaceInv, NEW p \in Proc, NEW x, Machine!Meet(p, x), Machine!GoOnTogether(p),
         program' = program
  PROVE  /\ Doing(x)
         /\ \A q \in Proc : /\ q \in Machine!Op(p).group <=> Moves(q, x)
                            /\ Moves(q, x) => Machine!Op(q).group = Machine!Op(p).group
BY DEF PlaceInv, Machine!GoOnTogether, Machine!Meet, Doing, Moves

-----------------------------------------------------------------------------
(* Each operation keeps the invariant.  Buffers.                           *)

LEMMA AllocKeeps ==
  ASSUME Orderly(program), StoreInv, NEW p \in Proc, Machine!Alloc(p)
  PROVE  StoreInv'
<1> DEFINE o == Machine!Op(p)
<1>1. Doing("alloc") /\ Moves(p, "alloc") /\ \A q \in Proc : Moves(q, "alloc") => q = p
  BY Alone DEF StoreInv, Machine!Alloc
<1>2. /\ DOMAIN memory' = Proc
      /\ \A q \in Proc : DOMAIN memory'[q] = IF q = p THEN DOMAIN o.buffers \cup DOMAIN memory[p]
                                             ELSE DOMAIN memory[q]
  BY DEF StoreInv, MemoryInv, Machine!Alloc
<1>3. Has(p)' = (Has(p) \ Releases(p, o)) \cup Acquires(p, o) /\ o.op = "alloc"
  BY <1>1, HasKept DEF StoreInv, Moves, Machine!Executes
<1>4. \A r \in Releases(p, o) : r[1] # "buffer"
  BY <1>3, Discharges
<1>5. \A q \in Proc : q # p => Has(q)' = Has(q)
  BY <1>1, HasKept DEF StoreInv, Doing
<1>6. \A s \in DOMAIN o.buffers : <<"buffer", s>> \in Acquires(p, o)
  BY <1>3 DEF Acquires
<1>7. \A r \in Acquires(p, o) : r[1] = "buffer" => r[2] \in DOMAIN o.buffers
  BY Acquisitions
<1> HIDE DEF o
<1>8. MemoryInv'
  <2>1. ASSUME NEW q \in Proc, NEW s \in DOMAIN memory'[q]
        PROVE  <<"buffer", s>> \in Has(q)'
    <3>1. CASE q = p
      <4>1. s \in DOMAIN o.buffers \/ <<"buffer", s>> \in Has(p)
        BY <1>2, <2>1, <3>1 DEF StoreInv, MemoryInv
      <4>2. <<"buffer", s>> \notin Releases(p, o)
        BY <1>4
      <4>3. QED
        BY <1>3, <1>6, <3>1, <4>1, <4>2
    <3>2. CASE q # p
      BY <1>2, <1>5, <2>1, <3>2 DEF StoreInv, MemoryInv
    <3>3. QED
      BY <3>1, <3>2
  <2>2. ASSUME NEW q \in Proc, NEW r \in Has(q)', r[1] = "buffer"
        PROVE  r[2] \in DOMAIN memory'[q]
    BY <1>2, <1>3, <1>5, <1>7, <2>2 DEF StoreInv, MemoryInv
  <2>3. QED
    BY <1>2, <2>1, <2>2 DEF MemoryInv
<1>9. WindowInv'
  <2>1. ASSUME NEW q \in Proc, NEW s \in windows[q]
        PROVE  s \in DOMAIN memory'[q] /\ <<"window", s>> \in Has(q)'
    BY <1>1, <1>2, <2>1, Unaffected DEF StoreInv, WindowInv
  <2>2. QED
    BY <2>1 DEF StoreInv, WindowInv, Machine!Alloc
<1>10. PlaceInv' /\ LockInv' /\ ExposedInv' /\ TransferInv' /\ FileInv' /\ OpenInv' /\ DiskInv'
         /\ MessagesInv' /\ OtherInv'
  BY <1>1, Rest DEF Machine!Alloc, Ending
<1>11. QED
  BY <1>8, <1>9, <1>10 DEF StoreInv

LEMMA FreeKeeps ==
  ASSUME Orderly(program), StoreInv, NEW p \in Proc, Machine!Free(p)
  PROVE  StoreInv'
<1> DEFINE o == Machine!Op(p)
<1>1. Doing("free") /\ Moves(p, "free") /\ \A q \in Proc : Moves(q, "free") => q = p
  BY Alone DEF StoreInv, Machine!Free
<1>2. /\ DOMAIN memory' = Proc
      /\ \A q \in Proc : DOMAIN memory'[q] = IF q = p THEN DOMAIN memory[p] \ o.slots
                                             ELSE DOMAIN memory[q]
  BY DEF StoreInv, MemoryInv, Machine!Free
<1>3. Has(p)' = (Has(p) \ Releases(p, o)) \cup Acquires(p, o) /\ o.op = "free"
  BY <1>1, HasKept DEF StoreInv, Moves, Machine!Executes
<1>4. \A q \in Proc : q # p => Has(q)' = Has(q)
  BY <1>1, HasKept DEF StoreInv, Doing
<1>5. \A s : <<"buffer", s>> \in Releases(p, o) <=> s \in o.slots
  <2>1. \A s \in o.slots : <<"buffer", s>> \in Releases(p, o)
    BY <1>3 DEF Releases
  <2>2. \A s : <<"buffer", s>> \in Releases(p, o) => s \in o.slots
    BY Discharges
  <2>3. QED
    BY <2>1, <2>2, ZenonT(30)
<1>6. Acquires(p, o) = {}
  BY <1>3 DEF Acquires
<1>7. \A s \in o.slots : <<"buffer", s>> \in Has(p) /\ <<"window", s>> \notin Has(p)
  BY <1>1, <1>3, AtOperation, ZenonT(30) DEF StoreInv, Moves, InPlace
<1>8. \A r \in Releases(p, o) : r[1] # "window"
  BY <1>3, Discharges
<1>9. \A r \in Has(p) : r[1] = "buffer" /\ r \notin Releases(p, o) => r[2] \notin o.slots
  <2>1. ASSUME NEW r \in Has(p), r[1] = "buffer"
        PROVE  r = <<"buffer", r[2]>>
    BY <2>1 DEF Has, Held, Acquires
  <2>2. QED
    BY <1>5, <2>1
<1>10. o.slots \subseteq DOMAIN memory[p]
  BY <1>7 DEF StoreInv, MemoryInv
<1>11. OtherInv'
  BY <1>10 DEF StoreInv, OtherInv, Machine!Free, Machine!Blame
<1> HIDE DEF o
<1>12. MemoryInv'
  <2>1. ASSUME NEW q \in Proc, NEW s \in DOMAIN memory'[q]
        PROVE  <<"buffer", s>> \in Has(q)'
    BY <1>2, <1>3, <1>4, <1>5, <2>1 DEF StoreInv, MemoryInv
  <2>2. ASSUME NEW q \in Proc, NEW r \in Has(q)', r[1] = "buffer"
        PROVE  r[2] \in DOMAIN memory'[q]
    BY <1>2, <1>3, <1>4, <1>6, <1>9, <2>2 DEF StoreInv, MemoryInv
  <2>3. QED
    BY <1>2, <2>1, <2>2 DEF MemoryInv
<1>13. WindowInv'
  <2>1. ASSUME NEW q \in Proc, NEW s \in windows[q]
        PROVE  s \in DOMAIN memory'[q] /\ <<"window", s>> \in Has(q)'
    BY <1>2, <1>3, <1>4, <1>7, <1>8, <2>1 DEF StoreInv, WindowInv
  <2>2. QED
    BY <2>1 DEF StoreInv, WindowInv, Machine!Free
<1>14. PlaceInv' /\ LockInv' /\ ExposedInv' /\ TransferInv' /\ FileInv' /\ OpenInv' /\ DiskInv'
         /\ MessagesInv'
  BY <1>1, Rest DEF Machine!Free, Ending
<1>15. QED
  BY <1>11, <1>12, <1>13, <1>14 DEF StoreInv

(* Operations that change nothing but what is reported.                    *)
LEMMA QuietKeeps ==
  ASSUME Orderly(program), StoreInv, NEW p \in Proc,
         \/ Machine!Check(p) \/ Machine!Barrier(p) \/ Machine!Start(p) \/ Machine!Wait(p)
         \/ Machine!Expect(p)
  PROVE  StoreInv'
<1>1. CASE Machine!Check(p)
  <2>1. Doing("check")
    BY <1>1, Alone DEF StoreInv, Machine!Check
  <2>2. OtherInv'
    BY <1>1 DEF StoreInv, OtherInv, Machine!Check, Machine!Blame, Machine!Fault
  <2>3. QED
    BY <1>1, <2>1, <2>2, Rest DEF StoreInv, Machine!Check, Ending
<1>2. CASE Machine!Barrier(p)
  BY <1>2, Jointly, Rest DEF StoreInv, Machine!Barrier, Ending
<1>3. CASE Machine!Start(p)
  BY <1>3, Alone, Rest DEF StoreInv, Machine!Start, Ending
<1>4. CASE Machine!Wait(p)
  BY <1>4, Alone, Rest DEF StoreInv, Machine!Wait, Ending
<1>5. CASE Machine!Expect(p)
  <2>1. Doing("expect")
    BY <1>5, Alone DEF StoreInv, Machine!Expect
  <2>2. OtherInv'
    BY <1>5 DEF StoreInv, OtherInv, Machine!Expect, Machine!Blame, Machine!Fault
  <2>3. QED
    BY <1>5, <2>1, <2>2, Rest DEF StoreInv, Machine!Expect, Ending
<1>6. QED
  BY <1>1, <1>2, <1>3, <1>4, <1>5

-----------------------------------------------------------------------------
(* Collective operations.                                                  *)

LEMMA GiveKeeps ==
  ASSUME Orderly(program), StoreInv, NEW p \in Proc, Machine!Give(p)
  PROVE  StoreInv'
<1> DEFINE o == Machine!Op(p)
<1>1. Doing("give") /\ Moves(p, "give") /\ \A q \in Proc : Moves(q, "give") => q = p
  BY Alone DEF StoreInv, Machine!Give
<1>2. /\ ip[p] \in DOMAIN program[p] /\ o = program[p][ip[p]]
      /\ o.op = "give" /\ DOMAIN o.slots \subseteq Proc
  BY <1>1, AtOperation DEF StoreInv, Moves, WellFormed
<1>3. program' = program /\ ip'[p] = ip[p] + 1 /\ ip[p] \in Nat \ {0}
  BY <1>1 DEF Doing, Moves, StoreInv, PlaceInv
<1>4. \A m \in messages' : m \in messages \/ (m.from = p /\ m.to \in DOMAIN o.slots /\ m.id = o.id)
  BY DEF Machine!Give
<1>5. \A q \in Proc : Moves(q, "give") => \A c : ~CollectsFrom(Machine!Op(q), c)
  BY DEF Moves, Machine!Executes, CollectsFrom
<1> HIDE DEF o
<1>6. ASSUME Collected(program)
      PROVE  (MessageInv /\ CollectInv)'
  <2>1. MessageInv /\ CollectInv
    BY <1>6 DEF StoreInv, MessagesInv
  <2>2. ASSUME NEW m \in messages, m \in messages'
        PROVE  m.from \in Proc /\ m.to \in Proc /\ Given(m.from, m.to, m.id)' /\ ~Taken(m.from, m.to, m.id)'
    BY <1>1, <1>5, <2>1, GivenAndTaken DEF StoreInv, MessageInv
  <2>3. ASSUME NEW q \in DOMAIN o.slots, NEW id, id = o.id
        PROVE  Given(p, q, id)' /\ ~Taken(p, q, id)'
    <3>1. GivesTo(program[p][ip[p]], q) /\ program[p][ip[p]].id = id /\ q \in Proc
      BY <1>2, <2>3 DEF GivesTo
    <3>2. Given(p, q, id)'
      <4>1. ip[p] \in 1..(ip'[p] - 1)
        BY <1>3
      <4>2. QED
        BY <1>3, <3>1, <4>1 DEF Given
    <3>3. ~Taken(p, q, id)
      <4>1. SUFFICES ASSUME NEW j \in 1..(ip[q] - 1), CollectsFrom(program[q][j], p),
                            program[q][j].id = id
                     PROVE  FALSE
        BY DEF Taken
      <4>2. PICK i \in 1..(ip[p] - 1) : GivesTo(program[p][i], q) /\ program[p][i].id = id
        BY <2>1, <3>1, <4>1 DEF CollectInv, Given
      <4>3. DOMAIN program[p] = 1..Len(program[p]) /\ Len(program[p]) \in Nat
        BY DEF Orderly
      <4>4. i \in DOMAIN program[p] /\ i # ip[p]
        BY <1>2, <1>3, <4>3
      <4>5. QED
        BY <1>2, <1>6, <3>1, <4>2, <4>4 DEF Collected
    <3>4. QED
      BY <1>1, <1>5, <3>1, <3>2, <3>3, GivenAndTaken DEF StoreInv
  <2>4. MessageInv'
    BY <1>2, <1>4, <2>2, <2>3 DEF MessageInv
  <2>5. CollectInv'
    BY <1>1, <1>5, <2>1, CollectStep DEF StoreInv
  <2>6. QED
    BY <2>4, <2>5
<1>7. MessagesInv'
  BY <1>3, <1>6 DEF MessagesInv
<1>8. PlaceInv' /\ MemoryInv' /\ WindowInv' /\ LockInv' /\ ExposedInv' /\ TransferInv' /\ FileInv'
         /\ OpenInv' /\ DiskInv' /\ OtherInv'
  BY <1>1, Rest DEF Machine!Give, Ending
<1>9. QED
  BY <1>7, <1>8 DEF StoreInv

(* What a process collects is all that was given to it for one call.       *)
LEMMA CollectingKeeps ==
  ASSUME Orderly(program), PlaceInv, MessagesInv, NEW p \in Proc, NEW x,
         Doing(x), Moves(p, x), \A q \in Proc : Moves(q, x) => q = p,
         messages' = messages \ Machine!For(p),
         \A c : CollectsFrom(Machine!Op(p), c) <=> c \in {m.from : m \in Machine!For(p)}
  PROVE  MessagesInv'
<1> DEFINE o == Machine!Op(p)
<1>1. SUFFICES ASSUME Collected(program)
               PROVE  (MessageInv /\ CollectInv)'
  BY DEF MessagesInv, Doing
<1>2. MessageInv /\ CollectInv
  BY <1>1 DEF MessagesInv
<1>3. \A m \in messages : m \in Machine!For(p) <=> m.id = o.id /\ m.to = p
  BY DEF Machine!For
<1>4. \A c : CollectsFrom(o, c) => \E m \in messages : m.from = c /\ m.to = p /\ m.id = o.id
  BY DEF Machine!For
<1> HIDE DEF o
<1>5. ASSUME NEW m \in messages'
      PROVE  m.from \in Proc /\ m.to \in Proc /\ Given(m.from, m.to, m.id)' /\ ~Taken(m.from, m.to, m.id)'
  <2>1. m \in messages /\ ~(m.id = o.id /\ m.to = p)
    BY <1>3, <1>5
  <2>2. m.from \in Proc /\ m.to \in Proc /\ Given(m.from, m.to, m.id) /\ ~Taken(m.from, m.to, m.id)
    BY <1>2, <2>1 DEF MessageInv
  <2>3. ~(Moves(m.to, x) /\ Machine!Op(m.to).id = m.id)
    BY <2>1, <2>2 DEF o
  <2>4. QED
    BY <2>2, <2>3, GivenAndTaken
<1>6. \A c \in Proc : CollectsFrom(o, c) => Given(c, p, o.id)
  BY <1>2, <1>4 DEF MessageInv
<1>7. CollectInv'
  BY <1>2, <1>6, CollectStep DEF o
<1>8. QED
  BY <1>5, <1>7 DEF MessageInv

LEMMA TakeKeeps ==
  ASSUME Orderly(program), StoreInv, NEW p \in Proc, Machine!Take(p)
  PROVE  StoreInv'
<1>1. Doing("take") /\ Moves(p, "take") /\ \A q \in Proc : Moves(q, "take") => q = p
  BY Alone DEF StoreInv, Machine!Take
<1>2. SameBuffers
  BY DEF StoreInv, MemoryInv, SameBuffers, Machine!Take
<1>3. \A c : CollectsFrom(Machine!Op(p), c) <=> c \in {m.from : m \in Machine!For(p)}
  BY DEF Machine!Take, Machine!Executes, CollectsFrom
<1>4. MessagesInv'
  BY <1>1, <1>3, CollectingKeeps DEF StoreInv, Machine!Take
<1>5. OtherInv'
  BY DEF StoreInv, OtherInv, Machine!Take, Machine!Arrives, Machine!Fault
<1>6. QED
  BY <1>1, <1>2, <1>4, <1>5, Rest DEF StoreInv, Machine!Take, Ending

LEMMA ReduceKeeps ==
  ASSUME Orderly(program), StoreInv, NEW p \in Proc, Machine!Reduce(p)
  PROVE  StoreInv'
<1>1. Doing("reduce") /\ Moves(p, "reduce") /\ \A q \in Proc : Moves(q, "reduce") => q = p
  BY Alone DEF StoreInv, Machine!Reduce
<1>2. SameBuffers
  BY DEF StoreInv, MemoryInv, SameBuffers, Machine!Reduce
<1>3. \A c : CollectsFrom(Machine!Op(p), c) <=> c \in {m.from : m \in Machine!For(p)}
  BY DEF Machine!Reduce, Machine!Executes, CollectsFrom
<1>4. MessagesInv'
  BY <1>1, <1>3, CollectingKeeps DEF StoreInv, Machine!Reduce
<1>5. OtherInv'
  BY DEF StoreInv, OtherInv, Machine!Reduce, Machine!Arrives, Machine!Fault
<1>6. UNCHANGED <<transfers, windows, locks, exposed, disk, file>>
  BY DEF Machine!Reduce
<1>7. QED
  BY <1>1, <1>2, <1>4, <1>5, <1>6, Rest DEF StoreInv, Ending

-----------------------------------------------------------------------------
(* Windows.                                                                *)

LEMMA WinCreateKeeps ==
  ASSUME Orderly(program), StoreInv, NEW p \in Proc, Machine!WinCreate(p)
  PROVE  StoreInv'
<1> DEFINE group == Machine!Op(p).group
<1>1. /\ Doing("wincreate")
      /\ \A q \in Proc : q \in group <=> Moves(q, "wincreate")
  BY Jointly DEF StoreInv, Machine!WinCreate
<1>2. SameBuffers
  BY <1>1, Rest DEF Machine!WinCreate
<1>3. /\ DOMAIN windows' = Proc
      /\ \A q \in Proc : windows'[q] = IF q \in group THEN windows[q] \cup {Machine!Op(q).slot}
                                       ELSE windows[q]
  BY DEF Machine!WinCreate
<1> HIDE DEF group
<1>4. WindowInv'
  <2>1. ASSUME NEW q \in Proc, NEW s \in windows'[q]
        PROVE  s \in DOMAIN memory'[q] /\ <<"window", s>> \in Has(q)'
    <3>1. CASE s \in windows[q]
      BY <1>1, <1>2, <3>1, Unaffected DEF StoreInv, WindowInv, SameBuffers
    <3>2. CASE s \notin windows[q]
      <4>1. s = Machine!Op(q).slot /\ Moves(q, "wincreate")
        BY <1>1, <1>3, <2>1, <3>2
      <4>2. Machine!Op(q).op = "wincreate" /\ InPlace(q, Machine!Op(q), Has(q))
        BY <4>1, AtOperation DEF StoreInv, Moves
      <4>3. <<"buffer", s>> \in Has(q)
        BY <4>1, <4>2 DEF InPlace
      <4>4. <<"window", s>> \in Acquires(q, Machine!Op(q))
        BY <4>1, <4>2 DEF Acquires
      <4>5. s \in DOMAIN memory[q]
        BY <4>3 DEF StoreInv, MemoryInv
      <4>6. QED
        BY <1>1, <1>2, <4>1, <4>4, <4>5, HasKept DEF StoreInv, SameBuffers
    <3>3. QED
      BY <3>1, <3>2
  <2>2. QED
    BY <1>3, <2>1 DEF WindowInv
<1>5. QED
  BY <1>1, <1>2, <1>4, Rest DEF StoreInv, Machine!WinCreate, Ending

(* All members of the group have ended their transfers.                    *)
LEMMA FenceKeeps ==
  ASSUME Orderly(program), StoreInv, NEW p \in Proc, Machine!Fence(p)
  PROVE  StoreInv'
<1>1. /\ Doing("fence")
      /\ \A q \in Proc : Moves(q, "fence") => q \in Machine!Op(p).group
  BY Jointly DEF StoreInv, Machine!Fence
<1>2. TransferInv'
  BY <1>1, TransferKept DEF StoreInv, Machine!Fence
<1>3. QED
  BY <1>1, <1>2, Rest DEF StoreInv, Machine!Fence, Ending

LEMMA WinFreeKeeps ==
  ASSUME Orderly(program), StoreInv, NEW p \in Proc, Machine!WinFree(p)
  PROVE  StoreInv'
<1> DEFINE group == Machine!Op(p).group
<1>1. /\ Doing("winfree")
      /\ \A q \in Proc : q \in group <=> Moves(q, "winfree")
  BY Jointly DEF StoreInv, Machine!WinFree
<1>2. TransferInv'
  BY <1>1, TransferKept DEF StoreInv, Machine!WinFree
<1>3. SameBuffers
  BY <1>1, Rest DEF Machine!WinFree
<1>4. /\ DOMAIN windows' = Proc
      /\ \A q \in Proc : windows'[q] = IF q \in group THEN windows[q] \ {Machine!Op(q).slot}
                                       ELSE windows[q]
  BY DEF Machine!WinFree
<1> HIDE DEF group
<1>5. WindowInv'
  <2>1. ASSUME NEW q \in Proc, NEW s \in windows'[q]
        PROVE  s \in DOMAIN memory'[q] /\ <<"window", s>> \in Has(q)'
    <3>1. s \in windows[q] /\ s \in DOMAIN memory'[q] /\ <<"window", s>> \in Has(q)
      BY <1>3, <1>4, <2>1 DEF StoreInv, WindowInv, SameBuffers
    <3>2. CASE q \in group
      <4>1. Moves(q, "winfree") /\ s # Machine!Op(q).slot
        BY <1>1, <1>4, <2>1, <3>2
      <4>2. <<"window", s>> \notin Releases(q, Machine!Op(q))
        BY <4>1, Discharges
      <4>3. QED
        BY <1>1, <3>1, <4>1, <4>2, HasKept DEF StoreInv
    <3>3. CASE q \notin group
      BY <1>1, <3>1, <3>3, HasKept DEF StoreInv, Doing
    <3>4. QED
      BY <3>2, <3>3
  <2>2. QED
    BY <1>4, <2>1 DEF WindowInv
<1>6. QED
  BY <1>1, <1>2, <1>3, <1>5, Rest DEF StoreInv, Machine!WinFree, Ending

(* Locks: those that remain are of processes that have not unlocked.       *)
LEMMA LockKeeps ==
  ASSUME Orderly(program), StoreInv, NEW p \in Proc, Machine!Lock(p)
  PROVE  StoreInv'
<1> DEFINE o == Machine!Op(p)
           new == [by |-> p, kind |-> o.kind]
<1>1. Doing("lock") /\ Moves(p, "lock")
  BY Alone DEF StoreInv, Machine!Lock
<1>2. /\ DOMAIN locks' = Proc
      /\ \A q \in Proc : q # o.to => locks'[q] = locks[q]
      /\ o.to \in Proc => locks'[o.to] = locks[o.to] \cup {new}
  BY DEF StoreInv, LockInv, Machine!Lock
<1>3. \/ locks[o.to] = {}
      \/ new.kind = "shared" /\ \A l \in locks[o.to] : l.kind = "shared"
  BY DEF Machine!Lock
<1>4. <<"lock", o.to>> \in Has(p)'
  <2>1. o.op = "lock"
    BY <1>1 DEF Moves, Machine!Executes
  <2>2. <<"lock", o.to>> \in Acquires(p, o)
    BY <2>1 DEF Acquires
  <2>3. QED
    BY <1>1, <2>2, HasKept DEF StoreInv
<1>5. new.by = p
  OBVIOUS
<1> HIDE DEF o, new
<1>6. LockInv'
  <2>1. ASSUME NEW q \in Proc, NEW l \in locks'[q]
        PROVE  l.by \in Proc /\ <<"lock", q>> \in Has(l.by)'
    <3>1. CASE l \in locks[q]
      BY <1>1, <3>1, Unaffected DEF StoreInv, LockInv
    <3>2. CASE l \notin locks[q]
      <4>1. q = o.to /\ l = new
        BY <1>2, <2>1, <3>2
      <4>2. QED
        BY <1>4, <1>5, <4>1
    <3>3. QED
      BY <3>1, <3>2
  <2>2. ASSUME NEW q \in Proc, NEW l \in locks'[q], l.kind = "exclusive"
        PROVE  locks'[q] = {l}
    <3>1. CASE q # o.to
      BY <1>2, <2>2, <3>1 DEF StoreInv, LockInv
    <3>2. CASE q = o.to /\ locks[q] = {}
      BY <1>2, <2>2, <3>2
    <3>3. CASE q = o.to /\ locks[q] # {}
      BY <1>2, <1>3, <2>2, <3>3
    <3>4. QED
      BY <3>1, <3>2, <3>3
  <2>3. QED
    BY <1>2, <2>1, <2>2 DEF LockInv
<1>7. QED
  BY <1>1, <1>6, Rest DEF StoreInv, Machine!Lock, Ending

LEMMA UnlockKeeps ==
  ASSUME Orderly(program), StoreInv, NEW p \in Proc, Machine!Unlock(p)
  PROVE  StoreInv'
<1> DEFINE o == Machine!Op(p)
<1>1. Doing("unlock") /\ Moves(p, "unlock") /\ \A q \in Proc : Moves(q, "unlock") => q = p
  BY Alone DEF StoreInv, Machine!Unlock
<1>2. /\ DOMAIN locks' = Proc
      /\ \A q \in Proc : q # o.to => locks'[q] = locks[q]
      /\ o.to \in Proc => locks'[o.to] = {l \in locks[o.to] : l.by # p}
  BY DEF StoreInv, LockInv, Machine!Unlock
<1>3. TransferInv'
  BY <1>1, TransferKept DEF StoreInv, Machine!Unlock
<1> HIDE DEF o
<1>4. LockInv'
  <2>1. ASSUME NEW q \in Proc, NEW l \in locks'[q]
        PROVE  <<"lock", q>> \in Has(l.by)'
    <3>1. l \in locks[q] /\ l.by \in Proc /\ <<"lock", q>> \in Has(l.by)
      BY <1>2, <2>1 DEF StoreInv, LockInv
    <3>2. CASE l.by = p
      <4>1. q # o.to
        BY <1>2, <2>1, <3>2
      <4>2. <<"lock", q>> \notin Releases(p, o)
        BY <4>1, Discharges
      <4>3. QED
        BY <1>1, <3>1, <3>2, <4>2, HasKept DEF StoreInv, o
    <3>3. CASE l.by # p
      BY <1>1, <3>1, <3>3, HasKept DEF StoreInv, Doing
    <3>4. QED
      BY <3>2, <3>3
  <2>2. \A q \in Proc : locks'[q] \subseteq locks[q]
    BY <1>2
  <2>3. ASSUME NEW q \in Proc, NEW l \in locks'[q]
        PROVE  l.by \in Proc /\ (l.kind = "exclusive" => locks'[q] = {l})
    <3>1. l \in locks[q] /\ l.by \in Proc /\ (l.kind = "exclusive" => locks[q] = {l})
      BY <2>2, <2>3 DEF StoreInv, LockInv
    <3>2. locks'[q] \subseteq locks[q]
      BY <2>2
    <3>3. QED
      BY <2>3, <3>1, <3>2
  <2>4. QED
    BY <1>2, <2>1, <2>3 DEF LockInv
<1>5. QED
  BY <1>1, <1>3, <1>4, Rest DEF StoreInv, Machine!Unlock, Ending

LEMMA PostKeeps ==
  ASSUME Orderly(program), StoreInv, NEW p \in Proc, Machine!Post(p)
  PROVE  StoreInv'
<1> DEFINE o == Machine!Op(p)
<1>1. Doing("post") /\ Moves(p, "post")
  BY Alone DEF StoreInv, Machine!Post
<1>2. o.op = "post" /\ o.origins \subseteq Proc
  BY <1>1, AtOperation DEF StoreInv, Moves, WellFormed
<1>3. <<"exposure", p>> \in Has(p)'
  <2>1. <<"exposure", p>> \in Acquires(p, o)
    BY <1>2 DEF Acquires
  <2>2. QED
    BY <1>1, <2>1, HasKept DEF StoreInv
<1>4. /\ DOMAIN exposed' = Proc
      /\ \A q \in Proc : exposed'[q] = IF q = p THEN o.origins ELSE exposed[q]
  BY DEF StoreInv, ExposedInv, Machine!Post
<1> HIDE DEF o
<1>5. ExposedInv'
  <2>1. ASSUME NEW q \in Proc
        PROVE  exposed'[q] \subseteq Proc /\ (exposed'[q] # {} => <<"exposure", q>> \in Has(q)')
    BY <1>1, <1>2, <1>3, <1>4, Unaffected DEF StoreInv, ExposedInv
  <2>2. QED
    BY <1>4, <2>1 DEF ExposedInv
<1>6. QED
  BY <1>1, <1>5, Rest DEF StoreInv, Machine!Post, Ending

LEMMA CompleteKeeps ==
  ASSUME Orderly(program), StoreInv, NEW p \in Proc, Machine!Complete(p)
  PROVE  StoreInv'
<1>1. Doing("complete") /\ Moves(p, "complete") /\ \A q \in Proc : Moves(q, "complete") => q = p
  BY Alone DEF StoreInv, Machine!Complete
<1>2. TransferInv'
  BY <1>1, TransferKept DEF StoreInv, Machine!Complete
<1>3. DOMAIN exposed' = Proc /\ \A q \in Proc : exposed'[q] \subseteq exposed[q]
  BY DEF StoreInv, ExposedInv, Machine!Complete
<1>4. ExposedInv'
  <2>1. ASSUME NEW q \in Proc
        PROVE  exposed'[q] \subseteq Proc /\ (exposed'[q] # {} => <<"exposure", q>> \in Has(q)')
    BY <1>1, <1>3, Unaffected DEF StoreInv, ExposedInv
  <2>2. QED
    BY <1>3, <2>1 DEF ExposedInv
<1>5. QED
  BY <1>1, <1>2, <1>4, Rest DEF StoreInv, Machine!Complete, Ending

LEMMA WaitExposedKeeps ==
  ASSUME Orderly(program), StoreInv, NEW p \in Proc, Machine!WaitExposed(p)
  PROVE  StoreInv'
<1>1. /\ Doing("waitexposed") /\ \A q \in Proc : Moves(q, "waitexposed") => q = p
  BY Alone DEF StoreInv, Machine!WaitExposed
<1>2. exposed[p] = {} /\ exposed' = exposed
  BY DEF Machine!WaitExposed
<1>3. ASSUME NEW q \in Proc, exposed[q] # {}
      PROVE  <<"exposure", q>> \in Has(q)'
  BY <1>1, <1>2, <1>3, HasKept DEF StoreInv, ExposedInv, Doing
<1>4. ExposedInv'
  BY <1>2, <1>3 DEF StoreInv, ExposedInv
<1>5. QED
  BY <1>1, <1>4, Rest DEF StoreInv, Machine!WaitExposed, Ending

(* A call that starts transfers of its process.                            *)
LEMMA TransferStarts ==
  ASSUME Orderly(program), PlaceInv, TransferInv, NEW x \in {"access", "fileaccess", "fileordered"},
         Doing(x),
         \A t \in transfers' :
           \/ t \in transfers
           \/ /\ t.by \in Proc /\ t.at = ip[t.by] /\ Moves(t.by, x)
              /\ t.kind = "write" => t.places \in Seq(Int)
  PROVE  TransferInv'
<1>1. ASSUME NEW t \in transfers'
      PROVE  /\ t.by \in Proc /\ t.at \in Nat /\ t.at < ip'[t.by]
             /\ <<"transfer", t.by>> \in Has(t.by)'
             /\ t.kind = "write" => t.places \in Seq(Int)
  <2>1. CASE t \notin transfers
    <3>1. t.by \in Proc /\ ip[t.by] \in Nat /\ t.at = ip[t.by] /\ Moves(t.by, x)
      BY <1>1, <2>1 DEF PlaceInv
    <3>2. Machine!Op(t.by).op = x
      BY <3>1 DEF Moves, Machine!Executes
    <3>3. <<"transfer", t.by>> \in Acquires(t.by, Machine!Op(t.by))
      BY <3>2 DEF Acquires
    <3>4. <<"transfer", t.by>> \in Has(t.by)'
      BY <3>1, <3>3, HasKept
    <3>5. QED
      BY <1>1, <2>1, <3>1, <3>4 DEF Moves
  <2>2. CASE t \in transfers
    <3>1. t.by \in Proc /\ t.at \in Nat /\ ip[t.by] \in Nat /\ t.at < ip[t.by]
      BY <2>2 DEF TransferInv, PlaceInv
    <3>2. ip'[t.by] \in {ip[t.by], ip[t.by] + 1}
      BY <3>1 DEF Doing, Moves
    <3>3. <<"transfer", t.by>> \in Has(t.by)'
      BY <2>2, <3>1, Unaffected DEF TransferInv, Ending
    <3>4. t.at < ip'[t.by]
      BY <3>1, <3>2
    <3>5. QED
      BY <2>2, <3>1, <3>3, <3>4 DEF TransferInv
  <2>3. QED
    BY <1>1, <2>1, <2>2
<1>2. QED
  BY <1>1, ZenonT(30) DEF TransferInv

LEMMA AccessKeeps ==
  ASSUME Orderly(program), StoreInv, NEW p \in Proc, Machine!Access(p)
  PROVE  StoreInv'
<1> DEFINE o == Machine!Op(p)
           t == [by |-> p, at |-> ip[p], kind |-> o.kind, to |-> o.to, theirs |-> o.theirs,
                 mine |-> o.mine, wait |-> FALSE]
<1>1. Doing("access") /\ Moves(p, "access")
  BY Alone DEF StoreInv, Machine!Access
<1>2. o.kind # "write"
  BY <1>1, AtOperation DEF StoreInv, Moves, WellFormed
<1>3. transfers' = transfers \cup {t}
  BY DEF Machine!Access
<1>4. t.by = p /\ t.at = ip[p] /\ t.kind # "write"
  BY <1>2
<1>5. OtherInv'
  BY DEF StoreInv, OtherInv, Machine!Access, Machine!Blame, Machine!Fault
<1>6. UNCHANGED <<memory, messages, windows, locks, exposed, disk, file>>
  BY DEF Machine!Access
<1> HIDE DEF o, t
<1>7. TransferInv'
  BY <1>1, <1>3, <1>4, TransferStarts DEF StoreInv
<1>8. QED
  BY <1>1, <1>5, <1>6, <1>7, Rest DEF StoreInv, Ending

-----------------------------------------------------------------------------
(* Files.                                                                  *)

(* A number and those of a sequence have a greatest one.                   *)
LEMMA MaxIsNatural ==
  ASSUME NEW s \in Seq(Int), NEW m \in Nat
  PROVE  /\ Machine!Max({m} \cup Machine!ToSet(s)) \in Nat
         /\ \A z \in {m} \cup Machine!ToSet(s) : Machine!Max({m} \cup Machine!ToSet(s)) >= z
<1> DEFINE Upto(n) == {m} \cup {s[i] : i \in 1..n}
           Top(n) == \E y \in Upto(n) : \A z \in Upto(n) : y >= z
           Bad == {n \in Nat : n <= Len(s) /\ ~Top(n)}
           Less == OpToRel(<, Nat)
<1>1. Len(s) \in Nat /\ \A i \in 1..Len(s) : s[i] \in Int
  OBVIOUS
<1>2. Upto(0) = {m}
  OBVIOUS
<1>3. \A n \in Nat : Upto(n + 1) = Upto(n) \cup {s[n + 1]}
  <2>1. \A n \in Nat : 1..(n + 1) = 1..n \cup {n + 1}
    OBVIOUS
  <2>2. QED
    BY <2>1
<1>4. \A n \in 0..Len(s) : \A z \in Upto(n) : z \in Int
  BY <1>1
<1> HIDE DEF Upto
<1>5. Bad = {}
  <2>1. SUFFICES ASSUME Bad # {}  PROVE FALSE
    OBVIOUS
  <2>2. PICK n \in Bad : \A k \in Bad : <<k, n>> \notin Less
    <3>1. IsWellFoundedOn(Less, Nat)
      BY NatLessThanWellFounded, ZenonT(30)
    <3> HIDE DEF Less
    <3>2. QED
      BY <2>1, <3>1, WFMin
  <2>3. n \in Nat /\ n <= Len(s) /\ ~Top(n)
    OBVIOUS
  <2>4. n # 0
    <3>1. Top(0)
      <4>1. m \in Upto(0) /\ \A z \in Upto(0) : z = m
        BY <1>2
      <4>2. m >= m
        OBVIOUS
      <4>3. QED
        BY <4>1, <4>2
    <3>2. QED
      BY <2>3, <3>1
  <2>5. n - 1 \in Nat /\ n - 1 < n /\ n - 1 <= Len(s) /\ (n - 1) + 1 = n
    BY <1>1, <2>3, <2>4
  <2>6. Top(n - 1)
    <3>1. <<n - 1, n>> \in Less
      BY <2>3, <2>5 DEF OpToRel
    <3>2. QED
      BY <2>2, <2>5, <3>1, ZenonT(30)
  <2>7. PICK y \in Upto(n - 1) : \A z \in Upto(n - 1) : y >= z
    BY <2>6
  <2>8. Upto(n) = Upto(n - 1) \cup {s[n]} /\ y \in Int /\ s[n] \in Int
    BY <1>1, <1>3, <1>4, <2>3, <2>4, <2>5, <2>7
  <2>9. \A z \in Upto(n - 1) : z \in Int
    BY <1>1, <1>4, <2>5
  <2>10. CASE y >= s[n]
    BY <2>3, <2>7, <2>8, <2>9, <2>10
  <2>11. CASE s[n] >= y
    <3>1. ASSUME NEW z \in Upto(n)  PROVE s[n] >= z
      <4>1. z = s[n] \/ z \in Upto(n - 1)
        BY <2>8
      <4>2. z \in Upto(n - 1) => z \in Int /\ y >= z
        BY <2>7, <2>9
      <4>3. y \in Int /\ s[n] \in Int
        BY <2>8
      <4>4. CASE z = s[n]
        BY <4>3, <4>4
      <4>5. CASE z \in Upto(n - 1)
        BY <2>11, <4>2, <4>3, <4>5
      <4>6. QED
        BY <4>1, <4>4, <4>5
    <3>2. s[n] \in Upto(n)
      BY <2>8
    <3>3. QED
      BY <2>3, <3>1, <3>2
  <2>12. QED
    BY <2>8, <2>10, <2>11
<1>6. Top(Len(s))
  BY <1>1, <1>5
<1> DEFINE S == {m} \cup Machine!ToSet(s)
<1>7. S = Upto(Len(s)) /\ \A z \in S : z \in Int
  <2>1. Machine!ToSet(s) = {s[i] : i \in 1..Len(s)}
    BY DEF Machine!ToSet
  <2>2. QED
    BY <1>1, <1>4, <2>1 DEF Upto
<1>8. \E y \in S : \A z \in S : y >= z
  BY <1>6, <1>7
<1>9. m \in S
  OBVIOUS
<1> HIDE DEF S
<1>10. Machine!Max(S) \in S /\ \A z \in S : Machine!Max(S) >= z
  BY <1>8 DEF Machine!Max
<1>11. Machine!Max(S) >= m /\ Machine!Max(S) \in Int
  BY <1>7, <1>9, <1>10
<1>12. Machine!Max(S) \in Nat
  BY <1>11
<1>13. QED
  BY <1>10, <1>12 DEF S

(* An open file has one form, and NoFile another.                          *)
LEMMA HasFile ==
  ASSUME Orderly(program), StoreInv, NEW q \in Proc, HasOpen(Has(q))
  PROVE  /\ file[q] # Machine!NoFile /\ Opening1(file[q]) /\ file[q].name \in DOMAIN disk
         /\ file[q].name \in Proc
BY DEF StoreInv, FileInv, OpenInv, HasOpen

LEMMA OpenKeeps ==
  ASSUME Orderly(program), StoreInv, NEW p \in Proc, Machine!Open(p)
  PROVE  StoreInv'
<1> DEFINE o == Machine!Op(p)
           data == IF o.name \in DOMAIN disk THEN Machine!Data(o.name) ELSE << >>
           start == IF o.append THEN Len(data) ELSE 0
           opened(q) == [name |-> o.name, position |-> start, disp |-> Machine!Op(q).disp,
                         stride |-> Machine!Op(q).stride, atomic |-> o.atomic, seen |-> data]
<1>1. /\ Doing("open")
      /\ \A q \in Proc : /\ q \in o.group <=> Moves(q, "open")
                         /\ Moves(q, "open") => Machine!Op(q).group = o.group
  BY Jointly DEF StoreInv, Machine!Open
<1>2. /\ disk' = [n \in {o.name} \cup DOMAIN disk |->
                    IF n = o.name THEN [data |-> data, shared |-> start] ELSE disk[n]]
      /\ file' = [q \in Proc |-> IF q \in o.group THEN opened(q) ELSE file[q]]
      /\ UNCHANGED <<library, memory, transfers, messages, windows, locks, exposed, unreported>>
  BY DEF Machine!Open
<1>3. OtherInv'
  BY DEF StoreInv, OtherInv, Machine!Open, Machine!Blame, Machine!Fault
<1>4. Machine!Executes(p, "open")
  BY DEF Machine!Open, Machine!Meet
<1>5. /\ ip[p] \in DOMAIN program[p] /\ o = program[p][ip[p]] /\ o.op = "open"
      /\ o.name \in o.group /\ o.group \subseteq Proc
  BY <1>4, AtOperation DEF StoreInv, WellFormed
<1>6. Len(data) \in Nat /\ start \in Nat
  BY DEF StoreInv, DiskInv, Machine!Data
<1> HIDE DEF o
<1>7. ASSUME NEW q \in o.group
      PROVE  /\ q \in Proc /\ Moves(q, "open") /\ Machine!Op(q).op = "open"
             /\ Machine!Op(q).group = o.group /\ Machine!Op(q).name = o.name
             /\ Machine!Op(q).disp \in Int /\ Machine!Op(q).stride \in Int
             /\ ~HasOpen(Has(q)) /\ <<"open", o.group>> \in Has(q)'
  <2>1. q \in Proc /\ Moves(q, "open") /\ Machine!Op(q).group = o.group
    BY <1>1, <1>5, <1>7
  <2>2. /\ ip[q] \in DOMAIN program[q] /\ Machine!Op(q) = program[q][ip[q]]
        /\ Machine!Op(q).op = "open"
        /\ WellFormed(Machine!Op(q)) /\ InPlace(q, Machine!Op(q), Has(q))
    BY <2>1, AtOperation DEF StoreInv, Moves
  <2>3. Machine!Op(q).name = o.name
    <3>1. \A c, d \in Proc : \A i \in DOMAIN program[c], j \in DOMAIN program[d] :
            program[c][i].op = "open" /\ program[d][j].op = "open"
              /\ program[c][i].group = program[d][j].group => program[c][i].name = program[d][j].name
      BY DEF Orderly
    <3>2. /\ program[p][ip[p]].op = "open" /\ program[q][ip[q]].op = "open"
          /\ program[p][ip[p]].group = program[q][ip[q]].group
      BY <1>5, <2>1, <2>2
    <3>3. program[p][ip[p]].name = program[q][ip[q]].name
      BY <1>5, <2>1, <2>2, <3>1, <3>2
    <3>4. QED
      BY <1>5, <2>2, <3>3
  <2>4. <<"open", o.group>> \in Acquires(q, Machine!Op(q))
    BY <2>1, <2>2 DEF Acquires
  <2>5. QED
    BY <1>1, <2>1, <2>2, <2>3, <2>4, HasKept DEF StoreInv, WellFormed, InPlace
<1>8. o.name \in Proc /\ o.name # -1
  BY <1>5, WorldSizeAssumption DEF Proc
<1>9. \A q : opened(q).name = o.name /\ opened(q) # Machine!NoFile
  BY <1>8 DEF Machine!NoFile
<1>10. ASSUME NEW q \in o.group  PROVE Opening1(opened(q))
  BY <1>6, <1>7, <1>10 DEF Opening1
<1> HIDE DEF opened
<1>11. FileInv'
  <2>1. ASSUME NEW q \in Proc, file'[q] # Machine!NoFile
        PROVE  Opening1(file'[q]) /\ file'[q].name \in DOMAIN disk'
    BY <1>2, <1>9, <1>10, <2>1 DEF StoreInv, FileInv
  <2>2. DOMAIN file' = Proc
    BY <1>2
  <2>3. QED
    BY <2>1, <2>2 DEF FileInv, Opening1, Machine!NoFile
<1>12. OpenInv'
  <2>1. ASSUME NEW q \in Proc, NEW r \in Has(q)', r[1] = "open"
        PROVE  /\ file'[q] # Machine!NoFile
               /\ file'[q].name \in r[2] /\ q \in r[2] /\ r[2] \subseteq Proc
               /\ \A c \in r[2] : r \in Has(c)'
               /\ \A u \in Has(q)' : u[1] = "open" => u = r
    <3>1. CASE q \in o.group
      <4>1. ASSUME NEW u \in Has(q)', u[1] = "open"
            PROVE  u = <<"open", o.group>> /\ u[2] = o.group
        <5>1. u \notin Has(q)
          BY <1>7, <3>1, <4>1 DEF HasOpen
        <5>2. u \in Acquires(q, Machine!Op(q))
          BY <1>1, <1>7, <3>1, <4>1, <5>1, HasKept DEF StoreInv
        <5>3. QED
          BY <1>7, <3>1, <4>1, <5>2, Acquisitions
      <4>2. r = <<"open", o.group>> /\ r[2] = o.group
        BY <2>1, <4>1
      <4>3. \A u \in Has(q)' : u[1] = "open" => u = r
        BY <4>1, <4>2
      <4>4. QED
        BY <1>2, <1>5, <1>7, <1>9, <3>1, <4>2, <4>3
    <3>2. CASE q \notin o.group
      <4>1. r \in Has(q)
        BY <1>1, <2>1, <3>2, HasKept DEF StoreInv, Doing
      <4>2. /\ file[q] # Machine!NoFile /\ file[q].name \in r[2] /\ r[2] \subseteq Proc
            /\ q \in r[2] /\ \A c \in r[2] : r \in Has(c)
            /\ \A u \in Has(q) : u[1] = "open" => u = r
        BY <2>1, <4>1 DEF StoreInv, OpenInv
      <4>3. \A c \in r[2] : c \notin o.group
        BY <1>7, <2>1, <4>2 DEF HasOpen
      <4>4. \A c \in r[2] : r \in Has(c)'
        BY <1>1, <4>2, <4>3, HasKept DEF StoreInv, Doing
      <4>5. Has(q)' = Has(q)
        BY <1>1, <3>2, HasKept DEF StoreInv, Doing
      <4>6. QED
        BY <1>2, <3>2, <4>2, <4>4, <4>5
    <3>3. QED
      BY <3>1, <3>2
  <2>2. ASSUME NEW q \in Proc, file'[q] # Machine!NoFile
        PROVE  HasOpen(Has(q))'
    <3>1. CASE q \in o.group
      <4>1. <<"open", o.group>> \in Has(q)' /\ <<"open", o.group>>[1] = "open"
        BY <1>7, <3>1
      <4>2. QED
        BY <4>1 DEF HasOpen
    <3>2. CASE q \notin o.group
      <4>1. Has(q)' = Has(q) /\ HasOpen(Has(q))
        BY <1>1, <1>2, <2>2, <3>2, HasKept DEF StoreInv, Doing, OpenInv
      <4>2. QED
        BY <4>1 DEF HasOpen
    <3>3. QED
      BY <3>1, <3>2
  <2>3. QED
    BY <2>1, <2>2 DEF OpenInv, Machine!NoFile
<1>13. DiskInv'
  <2>1. ASSUME NEW n \in DOMAIN disk'
        PROVE  n \in Proc /\ <<"file", n>> \in Has(n)'
    <3>1. CASE n = o.name
      <4>1. n \in Proc /\ Moves(n, "open") /\ Machine!Op(n).op = "open" /\ Machine!Op(n).name = n
        BY <1>5, <1>7, <3>1
      <4>2. <<"file", n>> \in Acquires(n, Machine!Op(n))
        BY <4>1 DEF Acquires
      <4>3. QED
        BY <1>1, <4>1, <4>2, HasKept DEF StoreInv
    <3>2. CASE n # o.name
      <4>1. n \in Proc /\ <<"file", n>> \in Has(n)
        BY <1>2, <2>1, <3>2 DEF StoreInv, DiskInv
      <4>2. QED
        BY <1>1, <4>1, Unaffected DEF StoreInv
    <3>3. QED
      BY <3>1, <3>2
  <2>2. ASSUME NEW n \in DOMAIN disk'
        PROVE  /\ disk'[n] = [data |-> disk'[n].data, shared |-> disk'[n].shared]
               /\ disk'[n].shared \in Nat /\ Len(disk'[n].data) \in Nat
    <3>1. CASE n = o.name
      <4>1. disk'[n] = [data |-> data, shared |-> start]
        BY <1>2, <3>1
      <4> HIDE DEF data, start
      <4>2. QED
        BY <1>6, <4>1
    <3>2. CASE n # o.name
      BY <1>2, <2>2, <3>2 DEF StoreInv, DiskInv
    <3>3. QED
      BY <3>1, <3>2
  <2>3. disk' = [n \in DOMAIN disk' |-> disk'[n]]
    BY <1>2
  <2>4. QED
    BY <2>1, <2>2, <2>3 DEF DiskInv
<1>14. QED
  BY <1>1, <1>2, <1>3, <1>11, <1>12, <1>13, Rest DEF StoreInv, Ending

LEMMA CloseKeeps ==
  ASSUME Orderly(program), StoreInv, NEW p \in Proc, Machine!Close(p)
  PROVE  StoreInv'
<1> DEFINE group == Machine!Op(p).group
<1>1. /\ Doing("close")
      /\ \A q \in Proc : /\ q \in group <=> Moves(q, "close")
                         /\ Moves(q, "close") => Machine!Op(q).group = group
  BY Jointly DEF StoreInv, Machine!Close
<1>2. file' = [q \in Proc |-> IF q \in group THEN Machine!NoFile ELSE file[q]]
  BY DEF Machine!Close
<1>3. TransferInv'
  BY <1>1, TransferKept DEF StoreInv, Machine!Close
<1> HIDE DEF group
<1>4. FileInv'
  <2>1. \A q \in Proc : file'[q] # Machine!NoFile => file'[q] = file[q]
    BY <1>2
  <2>2. disk' = disk /\ DOMAIN file' = Proc
    BY <1>2 DEF Machine!Close
  <2>3. QED
    BY <2>1, <2>2 DEF StoreInv, FileInv, Opening1, Machine!NoFile
<1>5. ASSUME NEW q \in Proc, q \in group
      PROVE  /\ Machine!Op(q).op = "close" /\ <<"open", group>> \in Has(q)
             /\ Has(q)' = (Has(q) \ Releases(q, Machine!Op(q))) \cup Acquires(q, Machine!Op(q))
             /\ Acquires(q, Machine!Op(q)) = {}
             /\ <<"open", group>> \in Releases(q, Machine!Op(q))
  <2>1. Moves(q, "close") /\ Machine!Op(q).group = group
    BY <1>1, <1>5
  <2>2. Machine!Op(q).op = "close" /\ InPlace(q, Machine!Op(q), Has(q))
    BY <2>1, AtOperation DEF StoreInv, Moves
  <2>3. QED
    BY <1>1, <2>1, <2>2, HasKept DEF StoreInv, InPlace, Acquires, Releases
<1>6. \A q \in Proc : q \notin group => Has(q)' = Has(q)
  BY <1>1, HasKept DEF StoreInv, Doing
<1>7. ASSUME NEW q \in Proc, NEW r \in Has(q)', r[1] = "open"
      PROVE  q \notin group /\ r \in Has(q)
  <2>1. r \in Has(q)
    BY <1>5, <1>6, <1>7
  <2>2. CASE q \in group
    <3>1. <<"open", group>> \in Has(q) /\ <<"open", group>>[1] = "open"
      BY <1>5, <2>2
    <3>2. r = <<"open", group>>
      BY <1>7, <2>1, <3>1 DEF StoreInv, OpenInv
    <3>3. QED
      BY <1>5, <1>7, <2>2, <3>2
  <2>3. QED
    BY <2>1, <2>2
<1>8. ASSUME NEW q \in Proc, NEW r \in Has(q)', r[1] = "open"
      PROVE  /\ file'[q] # Machine!NoFile
             /\ file'[q].name \in r[2] /\ q \in r[2] /\ r[2] \subseteq Proc
             /\ \A c \in r[2] : r \in Has(c)'
             /\ \A u \in Has(q)' : u[1] = "open" => u = r
  <2>1. q \notin group /\ r \in Has(q) /\ Has(q)' = Has(q) /\ file'[q] = file[q]
    BY <1>2, <1>6, <1>7, <1>8
  <2>2. /\ file[q] # Machine!NoFile /\ file[q].name \in r[2] /\ q \in r[2] /\ r[2] \subseteq Proc
        /\ \A c \in r[2] : r \in Has(c)
        /\ \A u \in Has(q) : u[1] = "open" => u = r
    BY <1>8, <2>1 DEF StoreInv, OpenInv
  <2>3. ASSUME NEW c \in r[2]  PROVE c \notin group
    <3>1. SUFFICES ASSUME c \in group  PROVE FALSE
      OBVIOUS
    <3>2. c \in Proc /\ r \in Has(c)
      BY <2>2, <2>3
    <3>3. <<"open", group>> \in Has(c) /\ <<"open", group>>[1] = "open" /\ <<"open", group>>[2] = group
      BY <1>5, <3>1, <3>2
    <3>4. r = <<"open", group>>
      BY <1>8, <3>2, <3>3 DEF StoreInv, OpenInv
    <3>5. QED
      BY <2>1, <2>2, <3>3, <3>4
  <2>4. QED
    BY <1>6, <2>1, <2>2, <2>3
<1>9. ASSUME NEW q \in Proc, file'[q] # Machine!NoFile
      PROVE  HasOpen(Has(q))'
  <2>1. q \notin group /\ file[q] # Machine!NoFile
    BY <1>2, <1>9
  <2>2. HasOpen(Has(q)) /\ Has(q)' = Has(q)
    BY <1>6, <2>1 DEF StoreInv, OpenInv
  <2>3. QED
    BY <2>2 DEF HasOpen
<1>10. OpenInv'
  BY <1>8, <1>9 DEF OpenInv, Machine!NoFile
<1>11. QED
  BY <1>1, <1>3, <1>4, <1>10, Rest DEF StoreInv, Machine!Close, Ending

(* A process that has a file open changes its pointer, or what it sees.    *)
LEMMA FileAdjusted ==
  ASSUME Orderly(program), StoreInv, NEW x, Doing(x), x \notin {"open", "close"},
         NEW p \in Proc, HasOpen(Has(p)), DOMAIN disk \subseteq DOMAIN disk',
         DOMAIN file' = Proc, \A q \in Proc : q # p => file'[q] = file[q],
         file'[p].name = file[p].name, Opening1(file'[p])
  PROVE  FileInv' /\ OpenInv'
<1>1. file[p] # Machine!NoFile /\ file[p].name \in DOMAIN disk /\ file[p].name \in Proc
  BY HasFile
<1>2. file[p].name # -1
  BY <1>1, WorldSizeAssumption DEF Proc
<1>3. file'[p] # Machine!NoFile
  BY <1>2 DEF Machine!NoFile
<1>4. FileInv'
  <2>1. ASSUME NEW q \in Proc, file'[q] # Machine!NoFile
        PROVE  Opening1(file'[q]) /\ file'[q].name \in DOMAIN disk'
    BY <1>1, <2>1 DEF StoreInv, FileInv
  <2>2. QED
    BY <2>1 DEF FileInv, Opening1, Machine!NoFile
<1>5. \A q \in Proc : /\ file'[q] = Machine!NoFile <=> file[q] = Machine!NoFile
                      /\ file'[q].name = file[q].name
  BY <1>1, <1>3
<1>6. OpenInv'
  BY <1>5, OpenKept DEF StoreInv
<1>7. QED
  BY <1>4, <1>6

LEMMA SyncKeeps ==
  ASSUME Orderly(program), StoreInv, NEW p \in Proc, Machine!Sync(p)
  PROVE  StoreInv'
<1>1. Doing("sync") /\ Moves(p, "sync") /\ \A q \in Proc : Moves(q, "sync") => q = p
  BY Alone DEF StoreInv, Machine!Sync
<1>2. HasOpen(Has(p))
  BY <1>1, AtOperation DEF StoreInv, Moves, InPlace
<1>3. Opening1(file[p])
  BY <1>2, HasFile
<1>4. /\ DOMAIN file = Proc
      /\ file' = [file EXCEPT ![p] = [@ EXCEPT !.seen = Machine!Data(Machine!NameOf(p))]]
  BY DEF StoreInv, FileInv, Machine!Sync
<1>5. /\ DOMAIN file' = Proc /\ \A q \in Proc : q # p => file'[q] = file[q]
      /\ file'[p] = [file[p] EXCEPT !.seen = Machine!Data(Machine!NameOf(p))]
  BY <1>4
<1>6. file'[p].name = file[p].name /\ Opening1(file'[p])
  BY <1>3, <1>5 DEF Opening1
<1>7. disk' = disk
  BY DEF Machine!Sync
<1>8. FileInv' /\ OpenInv'
  BY <1>1, <1>2, <1>5, <1>6, <1>7, FileAdjusted
<1>9. TransferInv'
  BY <1>1, TransferKept DEF StoreInv, Machine!Sync
<1>10. QED
  BY <1>1, <1>8, <1>9, Rest DEF StoreInv, Machine!Sync, Ending

LEMMA SeekKeeps ==
  ASSUME Orderly(program), StoreInv, NEW p \in Proc, Machine!Seek(p)
  PROVE  StoreInv'
<1> DEFINE o == Machine!Op(p)
           to == CASE o.whence = "set" -> o.offset
                   [] o.whence = "cur" -> file[p].position + o.offset
                   [] o.whence = "end" -> Len(Machine!Data(Machine!NameOf(p))) + o.offset
           place == IF to < 0 THEN file[p].position ELSE to
<1>1. Doing("seek") /\ Moves(p, "seek")
  BY Alone DEF StoreInv, Machine!Seek
<1>2. HasOpen(Has(p)) /\ o.whence \in {"set", "cur", "end"} /\ o.offset \in Int
  BY <1>1, AtOperation DEF StoreInv, Moves, InPlace, WellFormed
<1>3. Opening1(file[p]) /\ file[p].name \in DOMAIN disk
  BY <1>2, HasFile
<1>4. to \in Int
  <2>1. Len(Machine!Data(Machine!NameOf(p))) \in Nat /\ file[p].position \in Nat
    BY <1>3 DEF StoreInv, DiskInv, Machine!Data, Machine!NameOf, Opening1
  <2> HIDE DEF o
  <2>2. QED
    BY <1>2, <2>1
<1>5. /\ DOMAIN file = Proc
      /\ file' = [file EXCEPT ![p] = [@ EXCEPT !.position = place]]
  BY DEF StoreInv, FileInv, Machine!Seek
<1>6. OtherInv'
  BY DEF StoreInv, OtherInv, Machine!Seek, Machine!Blame, Machine!Fault
<1> HIDE DEF to
<1>7. place \in Nat
  BY <1>3, <1>4 DEF Opening1
<1> HIDE DEF place
<1>8. /\ DOMAIN file' = Proc /\ \A q \in Proc : q # p => file'[q] = file[q]
      /\ file'[p] = [file[p] EXCEPT !.position = place]
  BY <1>5
<1>9. file'[p].name = file[p].name /\ Opening1(file'[p])
  BY <1>3, <1>7, <1>8 DEF Opening1
<1>10. disk' = disk
  BY DEF Machine!Seek
<1>11. FileInv' /\ OpenInv'
  BY <1>1, <1>2, <1>8, <1>9, <1>10, FileAdjusted
<1>12. QED
  BY <1>1, <1>6, <1>11, Rest DEF StoreInv, Machine!Seek, Ending

(* The places of an access of the file a process has open.                 *)
LEMMA PlacesAreIntegers ==
  ASSUME Orderly(program), StoreInv, NEW q \in Proc, HasOpen(Has(q)),
         Machine!Op(q).elements \in Seq(Nat), NEW i \in Int
  PROVE  /\ Machine!FileTransfer(q, i).places \in Seq(Int)
         /\ Machine!FileTransfer(q, i).by = q
         /\ Machine!FileTransfer(q, i).at = ip[q]
<1> DEFINE elements == Machine!Op(q).elements
           places == [k \in DOMAIN elements |-> Machine!Place(q, i + k - 1)]
<1>1. file[q].disp \in Int /\ file[q].stride \in Int
  BY HasFile DEF Opening1
<1>2. DOMAIN elements = 1..Len(elements) /\ Len(elements) \in Nat
  OBVIOUS
<1>3. \A k \in DOMAIN elements : Machine!Place(q, i + k - 1) \in Int
  <2>1. ASSUME NEW j \in Int  PROVE Machine!Place(q, j) \in Int
    BY <1>1 DEF Machine!Place
  <2>2. \A k \in DOMAIN elements : i + k - 1 \in Int
    BY <1>2
  <2>3. QED
    BY <2>1, <2>2
<1> HIDE DEF elements
<1>4. places \in Seq(Int)
  BY <1>2, <1>3
<1>5. Machine!FileTransfer(q, i).places = places
  BY DEF Machine!FileTransfer, elements
<1>6. QED
  BY <1>4, <1>5 DEF Machine!FileTransfer

(* An operation changes the contents of a file, or its shared pointer.     *)
LEMMA DiskAdjusted ==
  ASSUME Orderly(program), StoreInv, NEW x, Doing(x), x # "delete",
         NEW n \in DOMAIN disk, NEW data, NEW shared \in Nat, Len(data) \in Nat,
         disk' = [m \in DOMAIN disk |-> disk'[m]],
         \A m \in DOMAIN disk : m # n => disk'[m] = disk[m],
         disk'[n] = [data |-> data, shared |-> shared]
  PROVE  DiskInv'
<1>1. /\ disk'[n] = [data |-> data, shared |-> shared]
      /\ \A m \in DOMAIN disk : m # n => disk'[m] = disk[m]
  OBVIOUS
<1>2. ASSUME NEW m \in DOMAIN disk
      PROVE  m \in Proc /\ <<"file", m>> \in Has(m)'
  BY <1>2, Unaffected DEF StoreInv, DiskInv
<1>3. ASSUME NEW m \in DOMAIN disk
      PROVE  /\ disk'[m] = [data |-> disk'[m].data, shared |-> disk'[m].shared]
             /\ disk'[m].shared \in Nat /\ Len(disk'[m].data) \in Nat
  <2>1. CASE m = n
    BY <1>1, <2>1
  <2>2. CASE m # n
    BY <1>1, <1>3, <2>2 DEF StoreInv, DiskInv
  <2>3. QED
    BY <2>1, <2>2
<1>4. QED
  BY <1>1, <1>2, <1>3 DEF DiskInv

LEMMA FileAccessKeeps ==
  ASSUME Orderly(program), StoreInv, NEW p \in Proc, Machine!FileAccess(p)
  PROVE  StoreInv'
<1> DEFINE o == Machine!Op(p)
           name == file[p].name
<1>1. Doing("fileaccess") /\ Moves(p, "fileaccess")
  BY Alone DEF StoreInv, Machine!FileAccess
<1>2. /\ HasOpen(Has(p)) /\ o.elements \in Seq(Nat)
      /\ o.pointer \in {"individual", "explicit", "shared"}
      /\ o.pointer = "explicit" => o.offset \in Int
  BY <1>1, AtOperation DEF StoreInv, Moves, Machine!Executes, InPlace, WellFormed
<1>3. Opening1(file[p]) /\ name \in DOMAIN disk
  BY <1>2, HasFile
<1>4. /\ disk[name] = [data |-> disk[name].data, shared |-> disk[name].shared]
      /\ disk[name].shared \in Nat /\ Len(disk[name].data) \in Nat
  BY <1>3 DEF StoreInv, DiskInv
<1>5. Len(o.elements) \in Nat
  BY <1>2
<1>6. UNCHANGED <<library, memory, messages, windows, locks, exposed, faults, unreported>>
  BY DEF Machine!FileAccess
<1>7. ASSUME NEW i \in Int, transfers' = transfers \cup {Machine!FileTransfer(p, i)}
      PROVE  TransferInv'
  <2>1. /\ Machine!FileTransfer(p, i).places \in Seq(Int)
        /\ Machine!FileTransfer(p, i).by = p /\ Machine!FileTransfer(p, i).at = ip[p]
    BY <1>2, PlacesAreIntegers
  <2>2. QED
    BY <1>1, <1>7, <2>1, TransferStarts DEF StoreInv
<1>8. CASE o.pointer = "individual"
  <2>1. /\ transfers' = transfers \cup {Machine!FileTransfer(p, file[p].position)}
        /\ file' = [file EXCEPT ![p].position = @ + Len(o.elements)]
        /\ disk' = disk
    BY <1>8 DEF Machine!FileAccess
  <2>2. TransferInv'
    BY <1>3, <1>7, <2>1 DEF Opening1
  <2> HIDE DEF o
  <2>3. /\ DOMAIN file' = Proc /\ \A q \in Proc : q # p => file'[q] = file[q]
        /\ file'[p] = [file[p] EXCEPT !.position = @ + Len(o.elements)]
    <3>1. DOMAIN file = Proc
      BY DEF StoreInv, FileInv
    <3>2. QED
      BY <2>1, <3>1
  <2>4. file'[p].name = file[p].name /\ Opening1(file'[p])
    BY <1>3, <1>5, <2>3 DEF Opening1
  <2>5. FileInv' /\ OpenInv'
    BY <1>1, <1>2, <2>1, <2>3, <2>4, FileAdjusted
  <2>6. QED
    BY <1>1, <1>6, <2>1, <2>2, <2>5, Rest DEF StoreInv, Ending
<1>9. CASE o.pointer = "explicit"
  <2>1. transfers' = transfers \cup {Machine!FileTransfer(p, o.offset)} /\ UNCHANGED <<file, disk>>
    BY <1>9 DEF Machine!FileAccess
  <2>2. TransferInv'
    BY <1>2, <1>7, <1>9, <2>1
  <2>3. QED
    BY <1>1, <1>6, <2>1, <2>2, Rest DEF StoreInv, Ending
<1>10. CASE o.pointer = "shared"
  <2>1. /\ transfers' = transfers \cup {Machine!FileTransfer(p, disk[name].shared)}
        /\ disk' = [disk EXCEPT ![name].shared = @ + Len(o.elements)]
        /\ file' = file
    BY <1>10 DEF Machine!FileAccess, Machine!NameOf
  <2>2. TransferInv'
    BY <1>4, <1>7, <2>1
  <2> HIDE DEF o, name
  <2>3. /\ disk' = [m \in DOMAIN disk |-> disk'[m]] /\ \A m \in DOMAIN disk : m # name => disk'[m] = disk[m]
        /\ disk'[name] = [disk[name] EXCEPT !.shared = @ + Len(o.elements)]
    BY <1>3, <2>1
  <2>4. disk'[name] = [data |-> disk[name].data, shared |-> disk[name].shared + Len(o.elements)]
    BY <1>4, <2>3
  <2>5. disk[name].shared + Len(o.elements) \in Nat
    BY <1>4, <1>5
  <2>6. DiskInv'
    BY <1>1, <1>3, <1>4, <2>3, <2>4, <2>5, DiskAdjusted
  <2>7. QED
    BY <1>1, <1>6, <2>1, <2>2, <2>3, <2>6, Rest DEF StoreInv, Ending
<1>11. QED
  BY <1>2, <1>8, <1>9, <1>10

(* A set of natural numbers has a least one.                               *)
LEMMA MinIsNatural ==
  ASSUME NEW I \in SUBSET Nat, I # {}
  PROVE  Machine!Min(I) \in I
<1> DEFINE Less == OpToRel(<, Nat)
<1>1. PICK i \in I : \A k \in I : <<k, i>> \notin Less
  <2>1. IsWellFoundedOn(Less, Nat)
    BY NatLessThanWellFounded, ZenonT(30)
  <2> HIDE DEF Less
  <2>2. QED
    BY <2>1, WFMin
<1>2. ASSUME NEW k \in I  PROVE i <= k
  <2>1. i \in Nat /\ k \in Nat /\ <<k, i>> \notin Less
    BY <1>1, ZenonT(30)
  <2>2. ~(k < i)
    BY <2>1 DEF OpToRel
  <2> HIDE DEF Less
  <2>3. QED
    BY <2>1, <2>2
<1>3. QED
  BY <1>2 DEF Machine!Min

(* What is found is there.                                                 *)
LEMMA FindsIt ==
  ASSUME NEW s, Len(s) \in Nat, NEW e
  PROVE  /\ Machine!Find(s, e) \in Nat
         /\ Machine!Find(s, e) # 0 => /\ Machine!Find(s, e) \in 1..Len(s)
                                     /\ s[Machine!Find(s, e)] = e
<1> DEFINE I == {i \in 1..Len(s) : s[i] = e}
<1>1. Machine!Find(s, e) = IF I # {} THEN Machine!Min(I) ELSE 0
  BY DEF Machine!Find, Machine!SelectInSeq
<1>2. I \in SUBSET Nat /\ \A i \in I : i \in 1..Len(s) /\ s[i] = e
  OBVIOUS
<1> HIDE DEF I
<1>3. CASE I = {}
  <2>1. Machine!Find(s, e) = 0
    BY <1>1, <1>3
  <2>2. QED
    BY <2>1
<1>4. CASE I # {}
  <2>1. Machine!Find(s, e) \in I
    BY <1>1, <1>2, <1>4, MinIsNatural
  <2>2. Machine!Find(s, e) \in 1..Len(s) /\ s[Machine!Find(s, e)] = e
    BY <1>2, <2>1
  <2>3. QED
    BY <2>2
<1>5. QED
  BY <1>3, <1>4

LEMMA FileOrderedKeeps ==
  ASSUME Orderly(program), StoreInv, NEW p \in Proc, Machine!FileOrdered(p)
  PROVE  StoreInv'
<1> DEFINE o == Machine!Op(p)
           name == file[p].name
           n == Len(o.elements)
           Before(q) == Machine!Find(o.order, q) - 1
           start(q) == disk[name].shared + n * Before(q)
           passed == n * Len(o.order)
<1>1. /\ Doing("fileordered")
      /\ \A q \in Proc : q \in o.group <=> Moves(q, "fileordered")
  BY Jointly DEF StoreInv, Machine!FileOrdered
<1>2. Machine!Executes(p, "fileordered")
  BY DEF Machine!FileOrdered, Machine!Meet
<1>3. /\ HasOpen(Has(p)) /\ o.elements \in Seq(Nat)
      /\ o.order \in Seq(Proc) /\ o.group \subseteq Proc
  BY <1>2, AtOperation DEF StoreInv, InPlace, WellFormed
<1>4. name \in DOMAIN disk
  BY <1>3, HasFile
<1>5. /\ disk[name] = [data |-> disk[name].data, shared |-> disk[name].shared]
      /\ disk[name].shared \in Nat /\ Len(disk[name].data) \in Nat
  BY <1>4 DEF StoreInv, DiskInv
<1>6. n \in Nat /\ Len(o.order) \in Nat
  BY <1>3
<1>7. ASSUME NEW q  PROVE Before(q) \in Int
  <2>1. Machine!Find(o.order, q) \in Nat
    BY <1>6, FindsIt
  <2>2. QED
    BY <2>1
<1>8. /\ transfers' = transfers \cup {Machine!FileTransfer(q, start(q)) : q \in o.group}
      /\ disk' = [disk EXCEPT ![name].shared = @ + passed]
  BY DEF Machine!FileOrdered, Machine!NameOf
<1>9. UNCHANGED <<library, memory, messages, windows, locks, exposed, file, faults, unreported>>
  BY DEF Machine!FileOrdered
<1> HIDE DEF Before
<1>10. passed \in Nat /\ \A q : start(q) \in Int
  <2> DEFINE places == Len(o.order)
  <2> HIDE DEF n, places
  <2>1. n * places \in Nat
    BY <1>6 DEF places
  <2> HIDE DEF o
  <2>2. ASSUME NEW q  PROVE start(q) \in Int
    <3>1. Before(q) \in Int
      BY <1>7
    <3>2. n * Before(q) \in Int
      BY <1>6, <3>1
    <3>3. QED
      BY <1>5, <3>2
  <2>3. QED
    BY <2>1, <2>2 DEF places
<1> HIDE DEF start, passed, name
<1>11. ASSUME NEW q \in o.group
       PROVE  /\ q \in Proc /\ Moves(q, "fileordered")
              /\ Machine!FileTransfer(q, start(q)).places \in Seq(Int)
              /\ Machine!FileTransfer(q, start(q)).by = q
              /\ Machine!FileTransfer(q, start(q)).at = ip[q]
  <2>1. q \in Proc /\ Moves(q, "fileordered")
    BY <1>1, <1>3, <1>11
  <2>2. HasOpen(Has(q)) /\ Machine!Op(q).elements \in Seq(Nat)
    BY <2>1, AtOperation DEF StoreInv, Moves, InPlace, WellFormed
  <2>3. QED
    BY <1>10, <2>1, <2>2, PlacesAreIntegers
<1>12. TransferInv'
  BY <1>1, <1>8, <1>11, TransferStarts DEF StoreInv
<1>13. /\ disk' = [m \in DOMAIN disk |-> disk'[m]] /\ \A m \in DOMAIN disk : m # name => disk'[m] = disk[m]
       /\ disk'[name] = [disk[name] EXCEPT !.shared = @ + passed]
  BY <1>4, <1>8
<1>14. disk'[name] = [data |-> disk[name].data, shared |-> disk[name].shared + passed]
  BY <1>5, <1>13
<1>15. disk[name].shared + passed \in Nat
  BY <1>5, <1>10
<1>16. DiskInv'
  BY <1>1, <1>4, <1>5, <1>13, <1>14, <1>15, DiskAdjusted
<1>17. QED
  BY <1>1, <1>9, <1>12, <1>13, <1>16, Rest DEF StoreInv, Ending

LEMMA SetSizeKeeps ==
  ASSUME Orderly(program), StoreInv, NEW p \in Proc, Machine!SetSize(p)
  PROVE  StoreInv'
<1> DEFINE o == Machine!Op(p)
           name == file[p].name
           size == IF o.grow /\ Len(Machine!Data(name)) > o.size THEN Len(Machine!Data(name))
                   ELSE o.size
           data == Machine!Resized(Machine!Data(name), size)
<1>1. Doing("setsize")
  BY Jointly DEF StoreInv, Machine!SetSize
<1>2. Machine!Executes(p, "setsize")
  BY DEF Machine!SetSize, Machine!Meet
<1>3. HasOpen(Has(p)) /\ o.size \in Nat
  BY <1>2, AtOperation DEF StoreInv, InPlace, WellFormed
<1>4. name \in DOMAIN disk
  BY <1>3, HasFile
<1>5. /\ disk[name] = [data |-> disk[name].data, shared |-> disk[name].shared]
      /\ disk[name].shared \in Nat /\ Len(Machine!Data(name)) \in Nat
  BY <1>4 DEF StoreInv, DiskInv, Machine!Data
<1>6. size \in Nat
  BY <1>3, <1>5
<1>7. disk' = [disk EXCEPT ![name].data = Machine!Resized(@, size)]
  BY DEF Machine!SetSize, Machine!NameOf
<1>8. UNCHANGED <<library, memory, transfers, messages, windows, locks, exposed, file, faults,
                  unreported>>
  BY DEF Machine!SetSize
<1> HIDE DEF o, name, size
<1>9. Len(data) \in Nat
  BY <1>6 DEF Machine!Resized
<1>10. /\ disk' = [m \in DOMAIN disk |-> disk'[m]] /\ \A m \in DOMAIN disk : m # name => disk'[m] = disk[m]
       /\ disk'[name] = [disk[name] EXCEPT !.data = Machine!Resized(@, size)]
  BY <1>4, <1>7
<1>11. disk'[name] = [data |-> data, shared |-> disk[name].shared]
  BY <1>5, <1>10 DEF Machine!Data
<1> HIDE DEF data
<1>12. DiskInv'
  BY <1>1, <1>4, <1>5, <1>9, <1>10, <1>11, DiskAdjusted
<1>13. QED
  BY <1>1, <1>8, <1>10, <1>12, Rest DEF StoreInv, Ending

LEMMA DeleteKeeps ==
  ASSUME Orderly(program), StoreInv, NEW p \in Proc, Machine!Delete(p)
  PROVE  StoreInv'
<1>1. Doing("delete") /\ Moves(p, "delete") /\ \A q \in Proc : Moves(q, "delete") => q = p
  BY Alone DEF StoreInv, Machine!Delete
<1>2. Machine!Op(p).name = p /\ ~HasOpen(Has(p)) /\ Machine!Op(p).op = "delete"
  BY <1>1, AtOperation DEF StoreInv, Moves, InPlace
<1>3. ASSUME NEW q \in Proc  PROVE file[q].name # p
  <2>1. CASE file[q] = Machine!NoFile
    BY <2>1, WorldSizeAssumption DEF Machine!NoFile, Proc
  <2>2. CASE file[q] # Machine!NoFile
    <3>1. PICK r \in Has(q) : r[1] = "open"
      BY <2>2 DEF StoreInv, OpenInv, HasOpen
    <3>2. file[q].name \in r[2] /\ \A c \in r[2] : r \in Has(c)
      BY <3>1 DEF StoreInv, OpenInv
    <3>3. QED
      BY <1>2, <3>1, <3>2 DEF HasOpen
  <2>3. QED
    BY <2>1, <2>2
<1>4. disk' = [n \in DOMAIN disk \ {p} |-> disk[n]]
  BY <1>2 DEF Machine!Delete
<1>5. OtherInv'
  BY <1>2, <1>3 DEF StoreInv, OtherInv, Machine!Delete, Machine!NameOf, Machine!Fault
<1>6. FileInv'
  BY <1>3, <1>4 DEF StoreInv, FileInv, Machine!Delete
<1>7. DiskInv'
  <2>1. ASSUME NEW n \in DOMAIN disk'
        PROVE  n \in DOMAIN disk /\ n \in Proc /\ n # p /\ <<"file", n>> \in Has(n)'
               /\ disk'[n] = disk[n]
    <3>1. n \in DOMAIN disk /\ n # p /\ n \in Proc /\ <<"file", n>> \in Has(n) /\ disk'[n] = disk[n]
      BY <1>4, <2>1 DEF StoreInv, DiskInv
    <3>2. Has(n)' = Has(n)
      BY <1>1, <3>1, HasKept DEF StoreInv, Doing
    <3>3. QED
      BY <3>1, <3>2
  <2>2. disk' = [n \in DOMAIN disk' |-> disk'[n]]
    BY <1>4
  <2>3. QED
    BY <2>1, <2>2 DEF StoreInv, DiskInv
<1>8. QED
  BY <1>1, <1>5, <1>6, <1>7, Rest DEF StoreInv, Machine!Delete, Ending

-----------------------------------------------------------------------------
(* A transfer is performed.                                                *)

(* Whatever is brought to a buffer, it is one that exists.                 *)
LEMMA SlotFilled ==
  ASSUME MemoryInv, NEW q, NEW s, NEW array, memory' = [memory EXCEPT ![q][s] = array]
  PROVE  SameBuffers
<1>1. DOMAIN memory' = Proc
  BY DEF MemoryInv
<1>2. ASSUME NEW c \in Proc  PROVE DOMAIN memory'[c] = DOMAIN memory[c]
  BY DEF MemoryInv
<1>3. QED
  BY <1>1, <1>2 DEF SameBuffers

(* A file gets as long as the last place that is written.                  *)
LEMMA WriteKeeps ==
  ASSUME Orderly(program), StoreInv, NEW x, Doing(x), x # "delete",
         NEW t, NEW places \in Seq(Int), Machine!Write(t, places)
  PROVE  DiskInv' /\ DOMAIN disk' = DOMAIN disk /\ memory' = memory
<1> DEFINE array == IF t.wait THEN memory[t.by][t.mine] ELSE t.copy
           data == Machine!Data(t.name)
           size == Machine!Grown(Len(data), places)
           k(i) == Machine!Find(places, i)
           written == [i \in 1..size |-> IF k(i) = 0 THEN Machine!Resized(data, size)[i]
                                         ELSE array[t.elements[k(i)]]]
<1>1. memory' = memory
  BY DEF Machine!Write
<1>2. disk' = [disk EXCEPT ![t.name].data = written]
  BY DEF Machine!Write
<1> HIDE DEF array, k
<1>3. CASE t.name \notin DOMAIN disk
  <2>1. disk' = [n \in DOMAIN disk |-> disk'[n]] /\ \A n \in DOMAIN disk : disk'[n] = disk[n]
    BY <1>2, <1>3
  <2>2. ASSUME NEW n \in DOMAIN disk  PROVE n \in Proc /\ <<"file", n>> \in Has(n)'
    BY <2>2, Unaffected DEF StoreInv, DiskInv
  <2>3. DiskInv'
    BY <2>1, <2>2 DEF StoreInv, DiskInv
  <2>4. QED
    BY <1>1, <2>1, <2>3
<1>4. CASE t.name \in DOMAIN disk
  <2>1. /\ disk[t.name] = [data |-> disk[t.name].data, shared |-> disk[t.name].shared]
        /\ disk[t.name].shared \in Nat /\ Len(data) \in Nat
    BY <1>4 DEF StoreInv, DiskInv, Machine!Data
  <2>2. size \in Nat
    BY <2>1, MaxIsNatural DEF Machine!Grown
  <2> HIDE DEF size
  <2>3. Len(written) \in Nat
    BY <2>2
  <2> HIDE DEF written
  <2>4. /\ disk' = [n \in DOMAIN disk |-> disk'[n]] /\ \A n \in DOMAIN disk : n # t.name => disk'[n] = disk[n]
        /\ disk'[t.name] = [disk[t.name] EXCEPT !.data = written]
    BY <1>2, <1>4
  <2>5. disk'[t.name] = [data |-> written, shared |-> disk[t.name].shared]
    BY <2>1, <2>4
  <2>6. DiskInv'
    BY <1>4, <2>1, <2>3, <2>4, <2>5, DiskAdjusted
  <2>7. QED
    BY <1>1, <2>4, <2>6
<1>5. QED
  BY <1>3, <1>4

LEMMA PerformKeeps ==
  ASSUME Orderly(program), StoreInv, NEW t \in transfers, Machine!Perform(t)
  PROVE  StoreInv'
<1> DEFINE further == [k \in DOMAIN t.places |-> t.places[k] + Len(t.places)]
           Moved == /\ SameBuffers
                    /\ disk' = disk \/ (DiskInv' /\ DOMAIN disk' = DOMAIN disk)
<1>1. Doing("perform") /\ \A q \in Proc : ~Moves(q, "perform")
  BY DEF StoreInv, PlaceInv, Machine!Perform, Doing, Moves
<1>2. MemoryInv
  BY DEF StoreInv
<1>3. ASSUME t.kind = "write"  PROVE t.places \in Seq(Int) /\ further \in Seq(Int)
  <2>1. t.places \in Seq(Int)
    BY <1>3 DEF StoreInv, TransferInv
  <2>2. Len(t.places) \in Nat /\ DOMAIN t.places = 1..Len(t.places)
    BY <2>1
  <2>3. \A k \in DOMAIN t.places : t.places[k] + Len(t.places) \in Int
    BY <2>1, <2>2
  <2>4. QED
    BY <2>1, <2>2, <2>3
<1> HIDE DEF further
<1>4. ASSUME memory' = memory, disk' = disk  PROVE Moved
  BY <1>2, <1>4 DEF SameBuffers, MemoryInv
<1>5. ASSUME NEW array, Machine!Put(t, array) \/ Machine!Get(t, array)
      PROVE  Moved
  BY <1>2, <1>5, SlotFilled DEF Machine!Put, Machine!Get
<1>6. ASSUME NEW places, NEW data, Machine!Read(t, places, data)
      PROVE  Moved
  BY <1>2, <1>6, SlotFilled DEF Machine!Read
<1>7. ASSUME NEW places \in Seq(Int), Machine!Write(t, places)
      PROVE  Moved
  BY <1>1, <1>2, <1>7, WriteKeeps DEF SameBuffers, MemoryInv
<1> HIDE DEF Moved
<1>8. ASSUME Machine!Right(t)  PROVE Moved
  BY <1>3, <1>5, <1>6, <1>7, <1>8 DEF Machine!Right
<1>9. ASSUME Machine!Wrong(t)  PROVE Moved
  BY <1>3, <1>5, <1>6, <1>7, <1>9 DEF Machine!Wrong, further
<1>10. Moved
  BY <1>4, <1>8, <1>9 DEF Machine!Perform
<1>11. UNCHANGED <<messages, windows, locks, exposed, file, faults, unreported>>
  BY DEF Machine!Perform
<1>12. transfers' \subseteq transfers
  BY DEF Machine!Perform
<1>13. TransferInv'
  BY <1>1, <1>12, TransferKept DEF StoreInv, Ending
<1>14. OtherInv'
  BY DEF StoreInv, OtherInv, Machine!Perform, Machine!Fault
<1>15. PlaceInv' /\ MemoryInv' /\ WindowInv' /\ LockInv' /\ ExposedInv' /\ FileInv' /\ OpenInv'
         /\ DiskInv' /\ MessagesInv'
  BY <1>1, <1>10, <1>11, Rest DEF Ending, Moved
<1>16. QED
  BY <1>13, <1>14, <1>15 DEF StoreInv

-----------------------------------------------------------------------------
(* The invariant, and what follows of it.                                  *)

LEMMA StepKeeps ==
  ASSUME Orderly(program), StoreInv, NEW p \in Proc, Machine!Step(p)
  PROVE  StoreInv'
<1>1. CASE Machine!Alloc(p) \/ Machine!Free(p)
  BY <1>1, AllocKeeps, FreeKeeps
<1>2. CASE \/ Machine!Check(p) \/ Machine!Barrier(p) \/ Machine!Start(p) \/ Machine!Wait(p)
           \/ Machine!Expect(p)
  BY <1>2, QuietKeeps
<1>3. CASE Machine!Give(p) \/ Machine!Take(p) \/ Machine!Reduce(p)
  BY <1>3, GiveKeeps, TakeKeeps, ReduceKeeps
<1>4. CASE Machine!WinCreate(p) \/ Machine!Fence(p) \/ Machine!WinFree(p)
  BY <1>4, WinCreateKeeps, FenceKeeps, WinFreeKeeps
<1>5. CASE Machine!Lock(p) \/ Machine!Unlock(p)
  BY <1>5, LockKeeps, UnlockKeeps
<1>6. CASE Machine!Post(p) \/ Machine!Complete(p) \/ Machine!WaitExposed(p)
  BY <1>6, PostKeeps, CompleteKeeps, WaitExposedKeeps
<1>7. CASE Machine!Access(p) \/ Machine!FileAccess(p) \/ Machine!FileOrdered(p)
  BY <1>7, AccessKeeps, FileAccessKeeps, FileOrderedKeeps
<1>8. CASE Machine!Open(p) \/ Machine!Close(p) \/ Machine!Sync(p) \/ Machine!Seek(p)
  BY <1>8, OpenKeeps, CloseKeeps, SyncKeeps, SeekKeeps
<1>9. CASE Machine!SetSize(p) \/ Machine!Delete(p)
  BY <1>9, SetSizeKeeps, DeleteKeeps
<1>10. QED
  BY <1>1, <1>2, <1>3, <1>4, <1>5, <1>6, <1>7, <1>8, <1>9 DEF Machine!Step

(* No step changes what a process has to do.                               *)
LEMMA ProgramKept ==
  ASSUME [Next]_vars
  PROVE  program' = program
<1>1. CASE \E p \in Proc : Machine!Step(p)
  <2>1. PICK p \in Proc : Machine!Step(p)
    BY <1>1
  <2>2. CASE \/ Machine!Alloc(p) \/ Machine!Free(p) \/ Machine!Check(p)
             \/ Machine!Give(p) \/ Machine!Take(p) \/ Machine!Reduce(p) \/ Machine!Barrier(p)
    BY <2>2 DEF Machine!Alloc, Machine!Free, Machine!Check, Machine!Give, Machine!Take,
         Machine!Reduce, Machine!Barrier
  <2>3. CASE \/ Machine!WinCreate(p) \/ Machine!Fence(p) \/ Machine!WinFree(p)
             \/ Machine!Lock(p) \/ Machine!Unlock(p)
             \/ Machine!Post(p) \/ Machine!Start(p) \/ Machine!Complete(p)
             \/ Machine!WaitExposed(p) \/ Machine!Access(p)
    BY <2>3 DEF Machine!WinCreate, Machine!Fence, Machine!WinFree, Machine!Lock, Machine!Unlock,
         Machine!Post, Machine!Start, Machine!Complete, Machine!WaitExposed, Machine!Access
  <2>4. CASE \/ Machine!Open(p) \/ Machine!Close(p) \/ Machine!Sync(p) \/ Machine!Seek(p)
             \/ Machine!FileAccess(p) \/ Machine!FileOrdered(p) \/ Machine!Wait(p)
    BY <2>4 DEF Machine!Open, Machine!Close, Machine!Sync, Machine!Seek, Machine!FileAccess,
         Machine!FileOrdered, Machine!Wait
  <2>5. CASE Machine!SetSize(p) \/ Machine!Expect(p) \/ Machine!Delete(p)
    BY <2>5 DEF Machine!SetSize, Machine!Expect, Machine!Delete
  <2>6. QED
    BY <2>1, <2>2, <2>3, <2>4, <2>5 DEF Machine!Step
<1>2. CASE \E t \in transfers : Machine!Perform(t)
  BY <1>2 DEF Machine!Perform
<1>3. CASE UNCHANGED vars
  BY <1>3 DEF vars, Machine!vars
<1>4. QED
  BY <1>1, <1>2, <1>3 DEF Next, Machine!Next, Machine!Over, vars

LEMMA NextKeeps ==
  ASSUME Orderly(program), StoreInv, [Next]_vars
  PROVE  StoreInv'
<1>1. CASE \E p \in Proc : Machine!Step(p)
  BY <1>1, StepKeeps
<1>2. CASE \E t \in transfers : Machine!Perform(t)
  BY <1>2, PerformKeeps
<1>3. CASE UNCHANGED vars
  BY <1>3 DEF vars, Machine!vars, StoreInv, PlaceInv, MemoryInv, WindowInv, LockInv, ExposedInv,
       TransferInv, FileInv, OpenInv, DiskInv, MessagesInv, MessageInv, CollectInv, Given, Taken,
       OtherInv, Has, Machine!NoFile, Opening1
<1>4. QED
  BY <1>1, <1>2, <1>3 DEF Next, Machine!Next, Machine!Over, vars

LEMMA InitKeeps ==
  ASSUME Init, Orderly(program)
  PROVE  StoreInv
<1>1. /\ ip = [p \in Proc |-> 1] /\ memory = [p \in Proc |-> << >>] /\ transfers = {}
      /\ messages = {} /\ windows = [p \in Proc |-> {}] /\ locks = [p \in Proc |-> {}]
      /\ exposed = [p \in Proc |-> {}] /\ disk = << >> /\ file = [p \in Proc |-> Machine!NoFile]
      /\ faults = {} /\ unreported = {}
  BY DEF Init, Machine!Init
<1>2. \A p \in Proc : Has(p) = {} /\ Len(program[p]) \in Nat
  <2>1. \A p \in Proc : ip[p] - 1 = 0
    BY <1>1
  <2>2. QED
    BY <2>1, HeldAtFirst DEF Has, Orderly
<1>3. PlaceInv
  BY <1>1, <1>2 DEF PlaceInv
<1>4. MemoryInv /\ WindowInv /\ LockInv /\ ExposedInv /\ TransferInv
  BY <1>1, <1>2 DEF MemoryInv, WindowInv, LockInv, ExposedInv, TransferInv
<1>5. FileInv /\ OpenInv /\ DiskInv
  BY <1>1, <1>2 DEF FileInv, OpenInv, DiskInv
<1>6. MessagesInv
  BY <1>1 DEF MessagesInv, MessageInv, CollectInv
<1>7. OtherInv
  BY <1>1, StoreAssumption DEF Init, OtherInv
<1>8. QED
  BY <1>3, <1>4, <1>5, <1>6, <1>7 DEF StoreInv

(* What is true of an orderly program in every reachable state.            *)
LEMMA StoreInvariant == Spec => [](Orderly(program) => StoreInv)
<1> DEFINE Inv == Orderly(program) => StoreInv
<1>1. Init => Inv
  BY InitKeeps
<1>2. Inv /\ [Next]_vars => Inv'
  <2>1. SUFFICES ASSUME Inv, [Next]_vars, Orderly(program)'
                 PROVE  StoreInv'
    OBVIOUS
  <2>2. program' = program
    BY <2>1, ProgramKept
  <2>3. Orderly(program)
    BY <2>1, <2>2
  <2>4. QED
    BY <2>1, <2>3, NextKeeps
<1>3. QED
  BY <1>1, <1>2, PTL DEF Spec

(* The invariant has all that the types say.                               *)
LEMMA TypesFollow == ASSUME StoreInv  PROVE TypeOK
<1>1. /\ library \in {"sound", "faulty", "failed"}
      /\ faults \subseteq Machine!Fault
      /\ unreported \subseteq Proc
  BY DEF StoreInv, OtherInv
<1>2. \A t \in transfers : t.at < ip[t.by]
  BY DEF StoreInv, TransferInv
<1>3. ASSUME NEW p \in Proc
      PROVE  /\ ip[p] \in 1..(Len(program[p]) + 1)
             /\ windows[p] \subseteq DOMAIN memory[p]
             /\ exposed[p] \subseteq Proc
             /\ \A l \in locks[p] : l.kind = "exclusive" => locks[p] = {l}
             /\ file[p] # Machine!NoFile => file[p].name \in DOMAIN disk /\ file[p].position \in Nat
  <2>1. ip[p] \in 1..(Len(program[p]) + 1)
    BY DEF StoreInv, PlaceInv
  <2>2. windows[p] \subseteq DOMAIN memory[p] /\ exposed[p] \subseteq Proc
    BY DEF StoreInv, WindowInv, ExposedInv
  <2>3. \A l \in locks[p] : l.kind = "exclusive" => locks[p] = {l}
    BY DEF StoreInv, LockInv
  <2>4. file[p] # Machine!NoFile => file[p].name \in DOMAIN disk /\ file[p].position \in Nat
    BY DEF StoreInv, FileInv, Opening1
  <2>5. QED
    BY <2>1, <2>2, <2>3, <2>4
<1>4. \A name \in DOMAIN disk : disk[name].shared \in Nat
  BY DEF StoreInv, DiskInv
<1>5. QED
  BY <1>1, <1>2, <1>3, <1>4 DEF TypeOK, Machine!TypeOK

(* When all is over, a process holds what it holds at its end.             *)
LEMMA NothingRemains ==
  ASSUME Orderly(program), Tidy(program), Collected(program), StoreInv
  PROVE  NothingLeft
<1>1. SUFFICES ASSUME Machine!Finished
               PROVE  /\ messages = {} /\ transfers = {} /\ disk = << >>
                      /\ \A p \in Proc :
                           /\ DOMAIN memory[p] \subseteq {Pointers("env"), Pointers("cmp_value")}
                           /\ windows[p] = {} /\ locks[p] = {} /\ exposed[p] = {}
                           /\ file[p] = Machine!NoFile
  BY DEF NothingLeft
<1>2. ASSUME NEW p \in Proc
      PROVE  /\ ip[p] - 1 = Len(program[p]) /\ DOMAIN program[p] = 1..(ip[p] - 1)
             /\ Has(p) \subseteq Forgotten
  <2>1. Len(program[p]) \in Nat /\ DOMAIN program[p] = 1..Len(program[p])
    BY DEF Orderly
  <2>2. ip[p] \in 1..(Len(program[p]) + 1) /\ ip[p] > Len(program[p])
    BY <1>1 DEF StoreInv, PlaceInv, Machine!Finished, Machine!Ended
  <2>3. ip[p] - 1 = Len(program[p])
    BY <2>1, <2>2
  <2>4. QED
    BY <2>1, <2>3 DEF Has, Tidy
<1>3. \A p \in Proc : \A r \in Has(p) : r[1] = "buffer" /\ r[2] \in {Pointers("env"), Pointers("cmp_value")}
  BY <1>2 DEF Forgotten
<1>4. messages = {}
  <2>1. SUFFICES ASSUME NEW m \in messages  PROVE FALSE
    OBVIOUS
  <2>2. /\ m.from \in Proc /\ m.to \in Proc
        /\ Given(m.from, m.to, m.id) /\ ~Taken(m.from, m.to, m.id)
    BY <2>1 DEF StoreInv, MessagesInv, MessageInv
  <2>3. PICK i \in 1..(ip[m.from] - 1) : /\ GivesTo(program[m.from][i], m.to)
                                         /\ program[m.from][i].id = m.id
    BY <2>2 DEF Given
  <2>4. PICK j \in DOMAIN program[m.to] : /\ CollectsFrom(program[m.to][j], m.from)
                                          /\ program[m.to][j].id = program[m.from][i].id
    BY <1>2, <2>2, <2>3 DEF Collected
  <2>5. QED
    BY <1>2, <2>2, <2>3, <2>4 DEF Taken
<1>5. transfers = {}
  BY <1>3 DEF StoreInv, TransferInv
<1>6. disk = << >>
  <2>1. DOMAIN disk = {}
    BY <1>3 DEF StoreInv, DiskInv
  <2>2. disk = [n \in {} |-> disk[n]]
    BY <2>1 DEF StoreInv, DiskInv
  <2>3. QED
    BY <2>2
<1>7. ASSUME NEW p \in Proc
      PROVE  /\ DOMAIN memory[p] \subseteq {Pointers("env"), Pointers("cmp_value")}
             /\ windows[p] = {} /\ locks[p] = {} /\ exposed[p] = {}
             /\ file[p] = Machine!NoFile
  <2>1. DOMAIN memory[p] \subseteq {Pointers("env"), Pointers("cmp_value")}
    BY <1>3 DEF StoreInv, MemoryInv
  <2>2. windows[p] = {}
    BY <1>3 DEF StoreInv, WindowInv
  <2>3. locks[p] = {}
    <3>1. ASSUME NEW l \in locks[p]  PROVE FALSE
      <4>1. l.by \in Proc /\ <<"lock", p>> \in Has(l.by)
        BY <3>1 DEF StoreInv, LockInv
      <4>2. <<"lock", p>>[1] = "buffer"
        BY <1>3, <4>1
      <4>3. QED
        BY <4>2
    <3>2. QED
      BY <3>1
  <2>4. exposed[p] = {}
    BY <1>3 DEF StoreInv, ExposedInv
  <2>5. file[p] = Machine!NoFile
    BY <1>3 DEF StoreInv, OpenInv, HasOpen
  <2>6. QED
    BY <2>1, <2>2, <2>3, <2>4, <2>5
<1>8. QED
  BY <1>4, <1>5, <1>6, <1>7

(* Every variable has its type in every run of orderly programs: no        *)
(* interleaving makes a window of a buffer that is gone, gives a lock to   *)
(* two (MPI_Win_lock in the tests of onesided), or takes a file away from  *)
(* who has it open.                                                        *)
THEOREM TypeCorrect == Spec => [](Orderly(program) => TypeOK)
<1>1. StoreInv => TypeOK
  BY TypesFollow
<1>2. QED
  BY <1>1, StoreInvariant, PTL

(* No process frees a buffer it does not have (tst_*_cleanup), and rank 0  *)
(* of a group never deletes the file while another process of it has it    *)
(* open (MPI_File_delete after the collective MPI_File_close).             *)
THEOREM NothingMisused ==
  Spec => [](Orderly(program) => "freed" \notin faults /\ "inuse" \notin faults)
<1>1. StoreInv => "freed" \notin faults /\ "inuse" \notin faults
  BY DEF StoreInv, OtherInv
<1>2. QED
  BY <1>1, StoreInvariant, PTL

(* If each process gives back by itself what it has taken, and collects    *)
(* what it is given, nothing is left when all are over: no contribution,   *)
(* no transfer, no file, window or lock, and only the two buffers that no  *)
(* cleanup function frees.                                                 *)
THEOREM NothingIsLeft ==
  Spec => [](Orderly(program) /\ Tidy(program) /\ Collected(program) => NothingLeft)
<1>1. (Orderly(program) => StoreInv) =>
        (Orderly(program) /\ Tidy(program) /\ Collected(program) => NothingLeft)
  BY NothingRemains
<1>2. QED
  BY <1>1, StoreInvariant, PTL
=============================================================================
