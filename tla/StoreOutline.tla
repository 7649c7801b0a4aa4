---------------------------- MODULE StoreOutline ----------------------------
(***************************************************************************)
(* What a process can rely on, whatever the others do meanwhile.           *)
(*                                                                         *)
(* An outline o of programs says what is known when p has executed n of    *)
(* its operations, in o[p][n]:                                             *)
(*                                                                         *)
(*   clock     for each group, how often its members have met: where they  *)
(*             are at the same time they have met as often                 *)
(*   windows   the slots of p that are windows                             *)
(*   slots     of some slots the content: from has the accesses <<q, j>>,  *)
(*             operation j of q, whose data may come at any time, and      *)
(*             value the array for each set of those that have come        *)
(*   cells     the same of what is in the files, which all share           *)
(*   file      the file that p has open, and where its pointer is          *)
(*   seen      some of what p has seen of the file at its last sync        *)
(*   start     the position at which operation n accesses the file         *)
(*                                                                         *)
(* Outlined says that o follows from the programs alone: each operation by *)
(* itself leads from one n to the next, and of the others only those count *)
(* that can be executed meanwhile.                                         *)
(***************************************************************************)
EXTENDS StoreRun

Meeting == {"barrier", "wincreate", "fence", "winfree", "open", "close", "fileordered", "setsize"}
Singly == {"alloc", "free", "check", "give", "take", "reduce", "lock", "unlock", "post", "start",
           "complete", "waitexposed", "access", "sync", "seek", "fileaccess", "wait", "expect",
           "delete"}
FileCalls == {"fileaccess", "fileordered"}
Accesses == {"access"} \cup FileCalls

Places(pr, p) == 0..Len(pr[p])
Slots(o, p, n) == o[p][n].slots
Settled(o, p, n, s) == s \in DOMAIN Slots(o, p, n) /\ Slots(o, p, n)[s].from = {}
Content(o, p, n, s) == Slots(o, p, n)[s].value[{}]

(* When p has executed m operations, q may have executed n of its own.     *)
Meanwhile(o, p, m, q, n) ==
  IF p = q THEN m = n
  ELSE \A group \in SUBSET Proc :
         p \in group /\ q \in group => o[p][m].clock[group] = o[q][n].clock[group]

(* Operation i of p is an access that need not be over when p has executed *)
(* n operations.                                                           *)
Ends(c, d) == d.op \in Ending \/ (d.op = "wait" /\ c.op \in FileCalls /\ c.wait)
Underway(pr, p, i, n) == i <= n /\ \A k \in (i + 1)..n : ~Ends(pr[p][i], pr[p][k])

(* When p has executed its operation i, those that have executed theirs    *)
(* with it, and how many each of them has executed then.                   *)
Together(pr, p, i) == IF pr[p][i].op \in Meeting THEN pr[p][i].group ELSE {p}
Joint(pr, o, p, i, q, k) ==
  IF p = q THEN k = i
  ELSE /\ pr[q][k].op \in Meeting /\ pr[q][k].group = pr[p][i].group
       /\ o[q][k].clock[pr[p][i].group] = o[p][i].clock[pr[p][i].group]

(* Then access a is over, or has not yet brought anything.                 *)
Over(pr, o, p, i, a) ==
  /\ a[1] \in Together(pr, p, i)
  /\ \A k \in DOMAIN pr[a[1]] :
       Joint(pr, o, p, i, a[1], k) =>
         \E h \in (a[2] + 1)..k : Ends(pr[a[1]][a[2]], pr[a[1]][h])
Later(pr, o, p, i, a) ==
  /\ a[1] \in Together(pr, p, i)
  /\ \A k \in DOMAIN pr[a[1]] : Joint(pr, o, p, i, a[1], k) => k <= a[2]

-----------------------------------------------------------------------------
(* Clocks and windows.                                                     *)

Advances(pr, o, p, i) ==
  /\ \A group \in SUBSET Proc :
       o[p][i].clock[group] = o[p][i - 1].clock[group] +
                                (IF pr[p][i].op \in Meeting /\ pr[p][i].group = group THEN 1 ELSE 0)
  /\ o[p][i].windows = CASE pr[p][i].op = "wincreate" -> o[p][i - 1].windows \cup {pr[p][i].slot}
                         [] pr[p][i].op = "winfree" -> o[p][i - 1].windows \ {pr[p][i].slot}
                         [] OTHER -> o[p][i - 1].windows

-----------------------------------------------------------------------------
(* What an operation of a process does to its own slots.                   *)

Written(o) ==
  CASE o.op = "alloc" -> DOMAIN o.buffers
    [] o.op = "free" -> o.slots
    [] o.op = "take" -> {o.slots[q] : q \in DOMAIN o.slots}
    [] o.op = "reduce" -> {o.result}
    [] OTHER -> {}

(* The array that p gives to q.                                            *)
Sent(pr, o, p, q, id) ==
  LET j == CHOOSE j \in DOMAIN pr[p] : GivesTo(pr[p][j], q) /\ pr[p][j].id = id
  IN  Content(o, p, j - 1, pr[p][j].slots[q])

Sets(pr, o, p, i, s, array) ==
  LET c == pr[p][i]
  IN  CASE c.op = "alloc" -> array = c.buffers[s]
        [] c.op = "take" ->
             /\ s \in DOMAIN Slots(o, p, i - 1)
             /\ \E q \in DOMAIN c.slots : /\ c.slots[q] = s
                                          /\ \A r \in DOMAIN c.slots : c.slots[r] = s => r = q
                                          /\ array = Sent(pr, o, q, p, c.id)
        [] c.op = "reduce" ->
             /\ s \in DOMAIN Slots(o, p, i - 1) /\ Settled(o, p, i - 1, c.mine)
             /\ array = Machine!Combined(c.fun, Content(o, p, i - 1, c.mine),
                          {[id |-> c.id, from |-> q, to |-> p, array |-> Sent(pr, o, q, p, c.id)]
                             : q \in c.froms})
        [] OTHER -> FALSE

(* A slot that is known after operation i was so before, or is written.    *)
(* Where all that was to come has come, something else may come.           *)
Follows(pr, o, p, i, s) ==
  LET e == Slots(o, p, i)[s]
      d == Slots(o, p, i - 1)[s]
  IN  IF s \in Written(pr[p][i]) THEN e.from = {} /\ Sets(pr, o, p, i, s, e.value[{}])
      ELSE /\ s \in DOMAIN Slots(o, p, i - 1)
           /\ \/ e = d
              \/ /\ \A a \in d.from : Over(pr, o, p, i, a)
                 /\ \A a \in e.from : Later(pr, o, p, i, a)
                 /\ e.value[{}] = d.value[d.from]

-----------------------------------------------------------------------------
(* What an access does to the slots of its target.                         *)

Target(p, c) == IF c.kind \in {"get", "read"} THEN [of |-> p, slot |-> c.mine] ELSE [of |-> c.to, slot |-> c.theirs]
Source(p, c) == IF c.kind = "get" THEN [of |-> c.to, slot |-> c.theirs] ELSE [of |-> p, slot |-> c.mine]
Brought(kind, old, array) ==
  IF kind \in Machine!Accumulates THEN Machine!CombineArrays(kind, old, array) ELSE array

(* As long as it is not over, its target either is not known, or has it as *)
(* one that is to come; its source does not change.                        *)
Brings(pr, o, p, i) ==
  LET c == pr[p][i]
      t == Target(p, c)
      s == Source(p, c)
  IN  \A n \in Places(pr, p), m \in Places(pr, t.of) :
        Underway(pr, p, i, n) /\ Meanwhile(o, p, n, t.of, m) /\ t.slot \in DOMAIN Slots(o, t.of, m) =>
          LET e == Slots(o, t.of, m)[t.slot]
          IN  /\ <<p, i>> \in e.from
              /\ \A k \in Places(pr, s.of) : Meanwhile(o, p, n, s.of, k) =>
                   /\ Settled(o, s.of, k, s.slot)
                   /\ \A come \in SUBSET (e.from \ {<<p, i>>}) :
                        e.value[come \cup {<<p, i>>}] =
                          Brought(c.kind, e.value[come], Content(o, s.of, k, s.slot))

(* It is of a window, and none that excludes it can be under way.          *)
Excludes(c, d) == d.to = c.to /\ d.theirs = c.theirs /\ (d.kind # c.kind \/ c.kind = "put")
Fits(pr, o, p, i) ==
  LET c == pr[p][i]
  IN  /\ c.to \in Proc /\ c.kind \in {"get", "put"} \cup Machine!Accumulates
      /\ \A m \in Places(pr, c.to) : Meanwhile(o, p, i - 1, c.to, m) => c.theirs \in o[c.to][m].windows
      /\ \A q \in Proc : \A j \in DOMAIN pr[q] :
           pr[q][j].op = "access" /\ Excludes(c, pr[q][j]) =>
             \A n \in Places(pr, q) : Underway(pr, q, j, n) => ~Meanwhile(o, p, i - 1, q, n)
=============================================================================
