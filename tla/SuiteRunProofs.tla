--------------------------- MODULE SuiteRunProofs ---------------------------
(***************************************************************************)
(* For any number of processes and threads, and any programs that neither  *)
(* probe nor cancel nor receive from any source: the variables of the      *)
(* library keep their types; and if the messages of the programs are       *)
(* paired, every receive gets the message of its own run whatever the      *)
(* library buffers and whoever comes first, and nothing is left behind.    *)
(***************************************************************************)
EXTENDS SuiteRun, FiniteSetTheorems, WellFoundedInduction, TLAPS

(* The operations of MpiMachine that carry a request, as values.           *)
MessageOf(a, i) ==
  [by |-> a, at |-> i, ctx |-> program[a][i].ctx, tag |-> program[a][i].tag,
   mode |-> program[a][i].mode, run |-> program[a][i].run]
ReceiptOf(b, j) ==
  [by |-> b, at |-> j, src |-> program[b][j].src, ctx |-> program[b][j].ctx,
   tag |-> program[b][j].tag, run |-> program[b][j].run]
Message == {MessageOf(a, i) : a \in Actor, i \in Nat}
Receipt == {ReceiptOf(b, j) : b \in Actor, j \in Nat}

(* Every message is that of a send which has been executed, and the        *)
(* messages of an actor are in the order of its sends.                     *)
ChannelTyped == channel \in [Proc -> [Proc -> Seq(Message)]]
SentBy(pr, place, p, q, m) ==
  /\ m.by[1] = p /\ m.at \in SendsOf(pr, m.by)
  /\ m.at < place[m.by] /\ pr[m.by][m.at].to = q
ChannelSent ==
  \A p, q \in Proc : \A k \in DOMAIN channel[p][q] : SentBy(program, ip, p, q, channel[p][q][k])
ChannelOrdered ==
  \A p, q \in Proc : \A k, l \in DOMAIN channel[p][q] :
    k < l /\ channel[p][q][k].by = channel[p][q][l].by =>
      channel[p][q][k].at < channel[p][q][l].at
ChannelInv == ChannelTyped /\ ChannelSent /\ ChannelOrdered

(* So are the posted receives, which all have requests.                    *)
PostedTyped == posted \in [Proc -> Seq(Receipt)]
PostedBy(q, r) ==
  /\ r.by[1] = q /\ r.at \in RecvsOf(program, r.by)
  /\ r.at < ip[r.by] /\ r.at \in pending[r.by]
PostedByOne == \A q \in Proc : \A k \in DOMAIN posted[q] : PostedBy(q, posted[q][k])
PostedOrdered ==
  \A q \in Proc : \A k, l \in DOMAIN posted[q] :
    k < l /\ posted[q][k].by = posted[q][l].by => posted[q][k].at < posted[q][l].at
PostedInv == PostedTyped /\ PostedByOne /\ PostedOrdered

(* The places of the actors, and their requests.                           *)
PlaceInv ==
  /\ program \in Programs
  /\ ip \in [Actor -> Nat]
  /\ \A a \in Actor : ip[a] \in 1..(Len(program[a]) + 1)
  /\ pending \in [Actor -> SUBSET Nat]
  /\ \A a \in Actor : \A i \in pending[a] :
       i < ip[a] /\ i \in SendsOf(program, a) \cup RecvsOf(program, a)

(* The other variables.                                                    *)
OtherInv ==
  /\ names \subseteq Proc
  /\ count \in [Actor -> Nat]
  /\ room \in [Proc -> Nat]
  /\ faults \subseteq Machine!Fault

TypeInv == PlaceInv /\ ChannelInv /\ PostedInv /\ OtherInv

(* Where the message of a send and the posting of a receive are until they *)
(* are matched.                                                            *)
InChannel(a, i) ==
  \E k \in DOMAIN channel[a[1]][program[a][i].to] :
    LET m == channel[a[1]][program[a][i].to][k]  IN  m.by = a /\ m.at = i
InPosted(b, j) ==
  \E k \in DOMAIN posted[b[1]] : posted[b[1]][k].by = b /\ posted[b[1]][k].at = j

SendMatched(a, i) == i < ip[a] /\ ~InChannel(a, i)
RecvMatched(b, j) == j < ip[b] /\ ~InPosted(b, j)

(* A send is matched if and only if its counterpart is.                    *)
PairInv ==
  \A a, b \in Actor : \A i \in SendsOf(program, a), j \in RecvsOf(program, b) :
    Counterpart(program, a, i, b, j) => (SendMatched(a, i) <=> RecvMatched(b, j))

(* A wait that an actor is past has left it no request.                    *)
WaitInv ==
  \A a \in Actor : \A i \in pending[a], w \in DOMAIN program[a] :
    i < w /\ w < ip[a] /\ program[a][w].op = "wait" =>
      \/ program[a][i].op \notin program[a][w].kinds
      \/ program[a][i].ctx # program[a][w].ctx

-----------------------------------------------------------------------------
(* Sequences.                                                              *)

(* An element is removed, and those behind it move up.                     *)
LEMMA RemoveAtFacts ==
  ASSUME NEW S, NEW s \in Seq(S), NEW i \in DOMAIN s
  PROVE  /\ Machine!RemoveAt(s, i) \in Seq(S)
         /\ DOMAIN Machine!RemoveAt(s, i) = 1..(Len(s) - 1)
         /\ \A k \in 1..(Len(s) - 1) :
              Machine!RemoveAt(s, i)[k] = IF k < i THEN s[k] ELSE s[k + 1]
<1> DEFINE front == SubSeq(s, 1, i - 1)
           back == SubSeq(s, i + 1, Len(s))
<1>1. /\ front \in Seq(S) /\ Len(front) = i - 1
      /\ \A k \in 1..(i - 1) : front[k] = s[k]
  OBVIOUS
<1>2. /\ back \in Seq(S) /\ Len(back) = Len(s) - i
      /\ \A k \in 1..(Len(s) - i) : back[k] = s[k + i]
  OBVIOUS
<1>3. Machine!RemoveAt(s, i) = front \o back
  BY DEF Machine!RemoveAt
<1> HIDE DEF front, back
<1>4. /\ front \o back \in Seq(S) /\ Len(front \o back) = Len(s) - 1
      /\ DOMAIN (front \o back) = 1..(Len(s) - 1)
  BY <1>1, <1>2
<1>5. ASSUME NEW k \in 1..(Len(s) - 1)
      PROVE  (front \o back)[k] = IF k < i THEN s[k] ELSE s[k + 1]
  <2>1. CASE k < i
    BY <2>1, <1>1, <1>2
  <2>2. CASE k >= i
    <3>1. (front \o back)[k] = back[k - (i - 1)] /\ k - (i - 1) \in 1..(Len(s) - i)
      BY <2>2, <1>1, <1>2
    <3>2. (k - (i - 1)) + i = k + 1
      OBVIOUS
    <3>3. QED
      BY <2>2, <3>1, <3>2, <1>2, SMTT(20)
  <2>3. i \in Nat /\ k \in Nat
    OBVIOUS
  <2>4. k < i \/ k >= i
    BY <2>3
  <2>5. QED
    BY <2>1, <2>2, <2>4
<1>6. QED
  BY <1>3, <1>4, <1>5

(* Where an element was before the i-th was removed.                       *)
Was(k, i) == IF k < i THEN k ELSE k + 1

(* The other elements stay, in their order.                                *)
LEMMA Removed ==
  ASSUME NEW S, NEW s \in Seq(S), NEW i \in DOMAIN s, NEW r, r = Machine!RemoveAt(s, i)
  PROVE  /\ r \in Seq(S)
         /\ \A k \in DOMAIN r : /\ k \in Nat /\ Was(k, i) \in DOMAIN s /\ Was(k, i) \in Nat
                               /\ Was(k, i) # i /\ r[k] = s[Was(k, i)]
         /\ \A k, l \in DOMAIN r : k < l => Was(k, i) < Was(l, i)
         /\ \A h \in DOMAIN s : h # i => \E k \in DOMAIN r : r[k] = s[h]
<1>1. /\ r \in Seq(S) /\ DOMAIN r = 1..(Len(s) - 1)
      /\ \A k \in 1..(Len(s) - 1) : r[k] = IF k < i THEN s[k] ELSE s[k + 1]
  BY RemoveAtFacts
<1>2. DOMAIN s = 1..Len(s) /\ Len(s) \in Nat /\ i \in 1..Len(s)
  OBVIOUS
<1>3. ASSUME NEW k \in DOMAIN r
      PROVE  /\ k \in Nat /\ Was(k, i) \in DOMAIN s /\ Was(k, i) \in Nat
             /\ Was(k, i) # i /\ r[k] = s[Was(k, i)]
  BY <1>1, <1>2 DEF Was
<1>4. ASSUME NEW k \in DOMAIN r, NEW l \in DOMAIN r, k < l
      PROVE  Was(k, i) < Was(l, i)
  BY <1>1, <1>2, <1>4 DEF Was
<1>5. ASSUME NEW h \in DOMAIN s, h # i
      PROVE  \E k \in DOMAIN r : r[k] = s[h]
  <2>1. CASE h < i
    <3>1. h \in DOMAIN r /\ r[h] = s[h]
      BY <2>1, <1>1, <1>2
    <3>2. QED
      BY <3>1
  <2>2. CASE h > i
    <3>1. h - 1 \in DOMAIN r /\ ~(h - 1 < i) /\ (h - 1) + 1 = h
      BY <2>2, <1>1, <1>2
    <3>2. r[h - 1] = s[h]
      BY <3>1, <1>1
    <3>3. QED
      BY <3>1, <3>2
  <2>3. QED
    BY <2>1, <2>2, <1>2, <1>5
<1>6. QED
  BY <1>1, <1>3, <1>4, <1>5

(* An element is appended.                                                 *)
LEMMA AppendFacts ==
  ASSUME NEW S, NEW s \in Seq(S), NEW e \in S
  PROVE  /\ Append(s, e) \in Seq(S)
         /\ DOMAIN Append(s, e) = DOMAIN s \cup {Len(s) + 1}
         /\ \A k \in DOMAIN s : Append(s, e)[k] = s[k] /\ k < Len(s) + 1
         /\ Append(s, e)[Len(s) + 1] = e
         /\ DOMAIN s \subseteq Nat /\ Len(s) + 1 \notin DOMAIN s /\ Len(s) + 1 \in Nat
OBVIOUS

(* A sequence without elements is empty.                                   *)
LEMMA NoElements ==
  ASSUME NEW S, NEW s \in Seq(S), \A k \in DOMAIN s : FALSE
  PROVE  s = << >>
<1>1. Len(s) \in Nat /\ DOMAIN s = 1..Len(s)
  OBVIOUS
<1>2. Len(s) = 0
  <2>1. CASE Len(s) >= 1
    <3>1. 1 \in DOMAIN s
      BY <1>1, <2>1
    <3>2. QED
      BY <3>1
  <2>2. QED
    BY <1>1, <2>1
<1>3. QED
  BY <1>2

(* A non-empty set of natural numbers has a least member.                  *)
LEMMA MinOfNaturals ==
  ASSUME NEW S \in SUBSET Nat, S # {}
  PROVE  Machine!Min(S) \in S /\ \A k \in S : Machine!Min(S) <= k
<1> DEFINE Less == {ss \in Nat \X Nat : ss[1] < ss[2]}
<1>1. IsWellFoundedOn(Less, Nat)
  BY NatLessThanWellFounded DEF OpToRel
<1>2. PICK m \in S : \A e \in S : ~(<<e, m>> \in Less)
  <2> HIDE DEF Less
  <2> QED  BY <1>1, WFMin
<1>3. ASSUME NEW e \in S  PROVE m <= e
  <2>1. CASE e < m
    <3>1. <<e, m>> \in Less
      BY <2>1
    <3>2. QED
      BY <3>1, <1>2
  <2>2. QED
    BY <2>1
<1>4. QED
  BY <1>3 DEF Machine!Min

(* The first message for a receive, and the first receive for a message.   *)
LEMMA FirstInFacts ==
  ASSUME NEW S, NEW p, NEW q, NEW r, channel[p][q] \in Seq(S), Machine!FirstIn(p, q, r) # 0
  PROVE  /\ Machine!FirstIn(p, q, r) \in DOMAIN channel[p][q]
         /\ \A k \in DOMAIN channel[p][q] :
              Machine!Matches(r, p, channel[p][q][k]) => Machine!FirstIn(p, q, r) <= k
<1> DEFINE I == {k \in 1..Len(channel[p][q]) : Machine!Matches(r, p, channel[p][q][k])}
<1>1. Machine!FirstIn(p, q, r) = IF I # {} THEN Machine!Min(I) ELSE 0
  BY DEF Machine!FirstIn, Machine!SelectInSeq
<1>2. I # {} /\ I \in SUBSET Nat
  BY <1>1
<1>3. Machine!Min(I) \in I /\ \A k \in I : Machine!Min(I) <= k
  BY <1>2, MinOfNaturals
<1>4. QED
  BY <1>1, <1>2, <1>3

(* The same of the posted receives.                                        *)
LEMMA FirstForFacts ==
  ASSUME NEW S, NEW p, NEW q, NEW m, posted[q] \in Seq(S), Machine!FirstFor(q, p, m) # 0
  PROVE  /\ Machine!FirstFor(q, p, m) \in DOMAIN posted[q]
         /\ Machine!Matches(posted[q][Machine!FirstFor(q, p, m)], p, m)
         /\ \A k \in DOMAIN posted[q] :
              Machine!Matches(posted[q][k], p, m) => Machine!FirstFor(q, p, m) <= k
<1> DEFINE I == {k \in 1..Len(posted[q]) : Machine!Matches(posted[q][k], p, m)}
<1>1. Machine!FirstFor(q, p, m) = IF I # {} THEN Machine!Min(I) ELSE 0
  BY DEF Machine!FirstFor, Machine!SelectInSeq
<1>2. I # {} /\ I \in SUBSET Nat
  BY <1>1
<1>3. Machine!Min(I) \in I /\ \A k \in I : Machine!Min(I) <= k
  BY <1>2, MinOfNaturals
<1>4. QED
  BY <1>1, <1>2, <1>3

-----------------------------------------------------------------------------
(* The steps of a direct program.                                          *)

(* Actors go past operations that carry no message, and past a wait only   *)
(* if it has no request to wait for.                                       *)
Passes ==
  /\ UNCHANGED <<program, channel, posted, pending>>
  /\ ip' \in [Actor -> Nat]
  /\ \A a \in Actor :
       \/ ip'[a] = ip[a]
       \/ /\ ip[a] \in DOMAIN program[a] /\ ip'[a] = ip[a] + 1
          /\ program[a][ip[a]].op \notin {"isend", "irecv"}
          /\ program[a][ip[a]].op = "wait" =>
               \A i \in pending[a] : \/ program[a][i].op \notin program[a][ip[a]].kinds
                                     \/ program[a][i].ctx # program[a][ip[a]].ctx

(* An actor which has not ended is at an operation.                        *)
LEMMA AtOperation ==
  ASSUME Direct(program), PlaceInv, NEW a \in Actor, ~Machine!Ended(a)
  PROVE  /\ ip[a] \in DOMAIN program[a] /\ ip[a] \in Nat /\ Len(program[a]) \in Nat
         /\ DOMAIN program[a] = 1..Len(program[a])
         /\ Machine!Op(a) = program[a][ip[a]]
         /\ Machine!Op(a).op \in {"isend", "irecv", "wait", "barrier", "attach", "detach",
                                  "publish", "unpublish", "lookup"}
<1>1. /\ Len(program[a]) \in Nat /\ DOMAIN program[a] = 1..Len(program[a])
  BY DEF Direct
<1>2. ip[a] \in Nat /\ ip[a] >= 1 /\ ip[a] <= Len(program[a])
  BY <1>1 DEF PlaceInv, Machine!Ended
<1>3. QED
  BY <1>1, <1>2 DEF Direct, Machine!Op

(* Every step is one of these.                                             *)
LEMMA Steps ==
  ASSUME Direct(program), PlaceInv, Machine!Next
  PROVE  \/ \E a \in Actor : Machine!Isend(a) \/ Machine!Irecv(a)
         \/ \E p, q \in Proc : Machine!Match(p, q)
         \/ Passes
<1>1. CASE Machine!Over
  BY <1>1 DEF Machine!Over, Machine!vars, Passes, PlaceInv
<1>2. ASSUME NEW a \in Actor, Machine!Step(a)
      PROVE  Machine!Isend(a) \/ Machine!Irecv(a) \/ Passes
  <2>1. ~Machine!Iprobe(a) /\ ~Machine!Probe(a) /\ ~Machine!RecvProbed(a)
        /\ ~Machine!CancelSend(a) /\ ~Machine!CancelRecvs(a)
    BY AtOperation, ZenonT(30) DEF Machine!Iprobe, Machine!Probe, Machine!RecvProbed,
                                   Machine!CancelSend, Machine!CancelRecvs, Machine!Executes
  <2>2. ASSUME NEW op, op \notin {"isend", "irecv", "wait"}, Machine!Executes(a, op), Machine!GoOn(a),
               UNCHANGED <<program, channel, posted, pending>>
        PROVE  Passes
    BY <2>2, AtOperation DEF Machine!Executes, Machine!GoOn, Passes, PlaceInv
  <2>3. CASE Machine!Wait(a)
    BY <2>3, AtOperation DEF Machine!Wait, Machine!Executes, Machine!GoOn, Passes, PlaceInv
  <2>4. CASE Machine!Barrier(a)
    <3>1. ip' = [b \in Actor |-> IF b \in Machine!Op(a).group THEN ip[b] + 1 ELSE ip[b]]
          /\ \A b \in Machine!Op(a).group : Machine!Executes(b, "barrier")
      BY <2>4 DEF Machine!Barrier, Actor
    <3>2. UNCHANGED <<program, channel, posted, pending>>
      BY <2>4 DEF Machine!Barrier
    <3>3. ip' \in [Actor -> Nat]
      BY <3>1 DEF PlaceInv
    <3>4. ASSUME NEW b \in Actor
          PROVE  \/ ip'[b] = ip[b]
                 \/ /\ ip[b] \in DOMAIN program[b] /\ ip'[b] = ip[b] + 1
                    /\ program[b][ip[b]].op \notin {"isend", "irecv"}
                    /\ program[b][ip[b]].op # "wait"
      BY <3>1, AtOperation DEF Machine!Executes
    <3>5. QED
      BY <3>2, <3>3, <3>4, Zenon DEF Passes
  <2>5. CASE Machine!Attach(a) \/ Machine!Detach(a) \/ Machine!Publish(a)
             \/ Machine!Unpublish(a) \/ Machine!Lookup(a)
    BY <2>2, <2>5 DEF Machine!Attach, Machine!Detach, Machine!Publish, Machine!Unpublish, Machine!Lookup
  <2>6. QED
    BY <1>2, <2>1, <2>3, <2>4, <2>5 DEF Machine!Step
<1>3. QED
  BY <1>1, <1>2 DEF Machine!Next, Actor

(* No step changes the programs.                                           *)
LEMMA SameProgram ==
  ASSUME [Machine!Next]_(Machine!vars)
  PROVE  program' = program
<1>1. ASSUME NEW a, Machine!Step(a)
      PROVE  program' = program
  BY <1>1, ZenonT(30) DEF Machine!Step, Machine!Isend, Machine!Irecv, Machine!Wait, Machine!Barrier,
                          Machine!Iprobe, Machine!Probe, Machine!ProbeFinds, Machine!RecvProbed,
                          Machine!CancelSend, Machine!CancelRecvs, Machine!Attach, Machine!Detach,
                          Machine!Publish, Machine!Unpublish, Machine!Lookup
<1>2. ASSUME NEW p, NEW q, Machine!Match(p, q)
      PROVE  program' = program
  BY <1>2, ZenonT(30) DEF Machine!Match
<1>3. CASE Machine!Over \/ UNCHANGED Machine!vars
  BY <1>3 DEF Machine!Over, Machine!vars
<1>4. QED
  BY <1>1, <1>2, <1>3 DEF Machine!Next

(* The names, counters, buffers and faults keep their types.               *)
LEMMA OtherTyped ==
  ASSUME Direct(program), PlaceInv, OtherInv, Machine!Next
  PROVE  OtherInv'
<1>1. CASE Machine!Over
  BY <1>1 DEF Machine!Over, Machine!vars, OtherInv
<1>2. ASSUME NEW p \in Proc, NEW q \in Proc, Machine!Match(p, q)
      PROVE  OtherInv'
  BY <1>2, ZenonT(30) DEF Machine!Match, Machine!Blame, OtherInv, Machine!Fault
<1>3. ASSUME NEW a \in Actor, Machine!Step(a)
      PROVE  OtherInv'
  <2>1. ~Machine!Iprobe(a) /\ ~Machine!Probe(a) /\ ~Machine!RecvProbed(a)
        /\ ~Machine!CancelSend(a) /\ ~Machine!CancelRecvs(a)
    BY AtOperation, ZenonT(30) DEF Machine!Iprobe, Machine!Probe, Machine!RecvProbed,
                                   Machine!CancelSend, Machine!CancelRecvs, Machine!Executes
  <2>2. CASE Machine!Isend(a)
    <3>1. faults' \in {faults, faults \cup {"notready"}, faults \cup {"overflow"}}
      BY <2>2 DEF Machine!Isend, Machine!Blame
    <3>2. QED
      BY <2>2, <3>1 DEF Machine!Isend, OtherInv, Machine!Fault
  <2>3. CASE Machine!Irecv(a) \/ Machine!Wait(a) \/ Machine!Barrier(a)
    BY <2>3 DEF Machine!Irecv, Machine!Wait, Machine!Barrier, OtherInv
  <2>4. CASE Machine!Attach(a)
    BY <2>4, AtOperation DEF Machine!Attach, Machine!Executes, OtherInv, Direct, Machine!Op
  <2>5. CASE Machine!Detach(a)
    BY <2>5 DEF Machine!Detach, OtherInv
  <2>6. CASE Machine!Publish(a)
    BY <2>6 DEF Machine!Publish, Machine!Blame, Machine!Fault, OtherInv, Actor, Machine!Actor, Machine!ProcOf
  <2>7. CASE Machine!Unpublish(a)
    BY <2>7 DEF Machine!Unpublish, Machine!Blame, Machine!Fault, OtherInv
  <2>8. CASE Machine!Lookup(a)
    BY <2>8 DEF Machine!Lookup, Machine!Blame, Machine!Fault, OtherInv
  <2>9. QED
    BY <1>3, <2>1, <2>2, <2>3, <2>4, <2>5, <2>6, <2>7, <2>8 DEF Machine!Step
<1>4. QED
  BY <1>1, <1>2, <1>3 DEF Machine!Next, Actor

(* What a send does: its message is behind those of its channel.           *)
Sends(a) ==
  LET p == a[1]
      q == program[a][ip[a]].to
  IN  /\ p \in Proc /\ q \in Proc /\ ip[a] \in SendsOf(program, a)
      /\ channel' \in [Proc -> [Proc -> Seq(Message)]]
      /\ channel'[p][q] = Append(channel[p][q], MessageOf(a, ip[a]))
      /\ \A s, t \in Proc : s # p \/ t # q => channel'[s][t] = channel[s][t]
      /\ pending' \in {pending, [pending EXCEPT ![a] = @ \cup {ip[a]}]}
      /\ ip' = [ip EXCEPT ![a] = @ + 1]
      /\ UNCHANGED <<program, posted>>

(* What a receive does: it is behind those of its process.                 *)
Receives(b) ==
  /\ b[1] \in Proc /\ ip[b] \in RecvsOf(program, b)
  /\ posted' = [posted EXCEPT ![b[1]] = Append(@, ReceiptOf(b, ip[b]))]
  /\ pending' = [pending EXCEPT ![b] = @ \cup {ip[b]}]
  /\ ip' = [ip EXCEPT ![b] = @ + 1]
  /\ UNCHANGED <<program, channel>>

(* What a match does: it removes the first message and the first receive   *)
(* that belong to each other.                                              *)
Meets(p, q, i, k) ==
  LET m == channel[p][q][i]
      r == posted[q][k]
  IN  /\ Machine!Matches(r, p, m)
      /\ \A h \in DOMAIN channel[p][q] : Machine!Matches(r, p, channel[p][q][h]) => i <= h
      /\ \A h \in DOMAIN posted[q] : Machine!Matches(posted[q][h], p, m) => k <= h
      /\ channel' \in [Proc -> [Proc -> Seq(Message)]]
      /\ channel'[p][q] = Machine!RemoveAt(channel[p][q], i)
      /\ \A s, t \in Proc : s # p \/ t # q => channel'[s][t] = channel[s][t]
      /\ posted' = [posted EXCEPT ![q] = Machine!RemoveAt(@, k)]
      /\ pending' = [a \in Actor |-> {h \in pending[a] : <<a, h>> \notin {<<m.by, m.at>>, <<r.by, r.at>>}}]
      /\ faults' = (IF m.run # r.run THEN faults \cup {"foreign"} ELSE faults)
      /\ UNCHANGED <<program, ip>>

(* The actions do that.                                                    *)
LEMMA IsendSends ==
  ASSUME Direct(program), PlaceInv, ChannelInv, NEW a \in Actor, Machine!Isend(a)
  PROVE  Sends(a)
<1> DEFINE p == a[1]
           q == program[a][ip[a]].to
<1>1. /\ ip[a] \in DOMAIN program[a] /\ ip[a] \in Nat
      /\ Machine!Op(a) = program[a][ip[a]] /\ program[a][ip[a]].op = "isend"
  BY AtOperation DEF Machine!Isend, Machine!Executes
<1>2. p \in Proc /\ q \in Proc /\ ip[a] \in SendsOf(program, a)
  BY <1>1 DEF Direct, Actor, Machine!Actor, SendsOf
<1>3. /\ channel' = [channel EXCEPT ![p][q] = Append(@, MessageOf(a, ip[a]))]
      /\ ip' = [ip EXCEPT ![a] = @ + 1]
      /\ UNCHANGED <<program, posted>>
  BY <1>1, ZenonT(30) DEF Machine!Isend, Machine!ProcOf, Machine!GoOn, MessageOf
<1>4. MessageOf(a, ip[a]) \in Message
  BY <1>1 DEF Message
<1>5. Append(channel[p][q], MessageOf(a, ip[a])) \in Seq(Message)
  BY <1>2, <1>4 DEF ChannelInv, ChannelTyped
<1>6. pending' \in {pending, [pending EXCEPT ![a] = @ \cup {ip[a]}]}
  BY DEF Machine!Isend
<1>7. /\ channel' \in [Proc -> [Proc -> Seq(Message)]]
      /\ channel'[p][q] = Append(channel[p][q], MessageOf(a, ip[a]))
      /\ \A s, t \in Proc : s # p \/ t # q => channel'[s][t] = channel[s][t]
  <2> HIDE DEF p, q
  <2> QED  BY <1>2, <1>3, <1>5 DEF ChannelInv, ChannelTyped
<1>8. QED
  BY <1>2, <1>3, <1>6, <1>7, ZenonT(30) DEF Sends

(* A receive is posted.                                                    *)
LEMMA IrecvReceives ==
  ASSUME Direct(program), PlaceInv, NEW b \in Actor, Machine!Irecv(b)
  PROVE  Receives(b)
<1>1. /\ ip[b] \in DOMAIN program[b] /\ ip[b] \in Nat
      /\ Machine!Op(b) = program[b][ip[b]] /\ program[b][ip[b]].op = "irecv"
  BY AtOperation DEF Machine!Irecv, Machine!Executes
<1>2. b[1] \in Proc /\ ip[b] \in RecvsOf(program, b)
  BY <1>1 DEF Actor, Machine!Actor, RecvsOf
<1>3. QED
  BY <1>1, <1>2 DEF Machine!Irecv, Machine!ProcOf, Machine!GoOn, ReceiptOf, Receives

(* A match takes the first of both.                                        *)
LEMMA MatchMeets ==
  ASSUME ChannelInv, PostedInv, NEW p \in Proc, NEW q \in Proc, Machine!Match(p, q)
  PROVE  \E i \in DOMAIN channel[p][q], k \in DOMAIN posted[q] : Meets(p, q, i, k)
<1>1. PICK i \in DOMAIN channel[p][q] :
        LET m == channel[p][q][i]
            k == Machine!FirstFor(q, p, m)
            r == posted[q][k]
        IN  /\ k # 0
            /\ Machine!FirstIn(p, q, r) = i
            /\ Machine!Complete({<<m.by, m.at>>, <<r.by, r.at>>})
            /\ Machine!Blame("foreign", m.run # r.run)
            /\ channel' = [channel EXCEPT ![p][q] = Machine!RemoveAt(@, i)]
            /\ posted' = [posted EXCEPT ![q] = Machine!RemoveAt(@, k)]
            /\ UNCHANGED <<program, ip>>
  BY ZenonT(30) DEF Machine!Match
<1> DEFINE m == channel[p][q][i]
           k == Machine!FirstFor(q, p, m)
           r == posted[q][k]
<1>2. channel[p][q] \in Seq(Message) /\ posted[q] \in Seq(Receipt)
  BY DEF ChannelInv, ChannelTyped, PostedInv, PostedTyped
<1>3. /\ k \in DOMAIN posted[q] /\ Machine!Matches(r, p, m)
      /\ \A h \in DOMAIN posted[q] : Machine!Matches(posted[q][h], p, m) => k <= h
  <2>1. k # 0
    BY <1>1, ZenonT(30)
  <2>2. QED
    BY <2>1, <1>2, FirstForFacts
<1>4. i # 0
  BY <1>2
<1>5. \A h \in DOMAIN channel[p][q] : Machine!Matches(r, p, channel[p][q][h]) => i <= h
  <2>1. Machine!FirstIn(p, q, r) = i
    BY <1>1, ZenonT(30)
  <2>2. QED
    BY <2>1, <1>2, <1>4, FirstInFacts
<1>6. Machine!RemoveAt(channel[p][q], i) \in Seq(Message)
  BY <1>2, RemoveAtFacts
<1>7. /\ channel' \in [Proc -> [Proc -> Seq(Message)]]
      /\ channel'[p][q] = Machine!RemoveAt(channel[p][q], i)
      /\ \A s, t \in Proc : s # p \/ t # q => channel'[s][t] = channel[s][t]
  <2>1. channel \in [Proc -> [Proc -> Seq(Message)]]
    BY DEF ChannelInv, ChannelTyped
  <2>2. channel' = [channel EXCEPT ![p][q] = Machine!RemoveAt(@, i)]
    BY <1>1, ZenonT(30)
  <2>3. QED
    BY <2>1, <2>2, <1>6
<1>8. pending' = [a \in Actor |-> {h \in pending[a] : <<a, h>> \notin {<<m.by, m.at>>, <<r.by, r.at>>}}]
      /\ faults' = (IF m.run # r.run THEN faults \cup {"foreign"} ELSE faults)
  BY <1>1 DEF Machine!Complete, Machine!Blame, Actor
<1>9. Meets(p, q, i, k)
  BY <1>1, <1>3, <1>5, <1>7, <1>8, ZenonT(30) DEF Meets
<1>10. QED
  BY <1>3, <1>9

-----------------------------------------------------------------------------
(* The types of the messages and requests are kept.                        *)

(* A message stands for itself.                                            *)
LEMMA FieldsOf ==
  ASSUME NEW a, NEW i
  PROVE  /\ MessageOf(a, i).by = a /\ MessageOf(a, i).at = i
         /\ MessageOf(a, i).ctx = program[a][i].ctx /\ MessageOf(a, i).tag = program[a][i].tag
         /\ MessageOf(a, i).run = program[a][i].run
         /\ ReceiptOf(a, i).by = a /\ ReceiptOf(a, i).at = i
         /\ ReceiptOf(a, i).ctx = program[a][i].ctx /\ ReceiptOf(a, i).tag = program[a][i].tag
         /\ ReceiptOf(a, i).src = program[a][i].src /\ ReceiptOf(a, i).run = program[a][i].run
BY DEF MessageOf, ReceiptOf

(* The messages and receipts of the lists have their parts.                *)
LEMMA Entries ==
  ASSUME ChannelInv, PostedInv, NEW p \in Proc, NEW q \in Proc
  PROVE  /\ channel[p][q] \in Seq(Message) /\ posted[q] \in Seq(Receipt)
         /\ \A k \in DOMAIN channel[p][q] :
              LET m == channel[p][q][k]
              IN  k \in Nat /\ m.by \in Actor /\ m.at \in Nat /\ m = MessageOf(m.by, m.at)
         /\ \A k \in DOMAIN posted[q] :
              LET r == posted[q][k]
              IN  k \in Nat /\ r.by \in Actor /\ r.at \in Nat /\ r = ReceiptOf(r.by, r.at)
<1>1. channel[p][q] \in Seq(Message) /\ posted[q] \in Seq(Receipt)
  BY DEF ChannelInv, ChannelTyped, PostedInv, PostedTyped
<1>2. ASSUME NEW k \in DOMAIN channel[p][q]
      PROVE  LET m == channel[p][q][k]
             IN  k \in Nat /\ m.by \in Actor /\ m.at \in Nat /\ m = MessageOf(m.by, m.at)
  <2>1. channel[p][q][k] \in Message /\ k \in Nat
    BY <1>1
  <2>2. PICK a \in Actor, i \in Nat : channel[p][q][k] = MessageOf(a, i)
    BY <2>1 DEF Message
  <2>3. QED
    BY <2>1, <2>2, FieldsOf
<1>3. ASSUME NEW k \in DOMAIN posted[q]
      PROVE  LET r == posted[q][k]
             IN  k \in Nat /\ r.by \in Actor /\ r.at \in Nat /\ r = ReceiptOf(r.by, r.at)
  <2>1. posted[q][k] \in Receipt /\ k \in Nat
    BY <1>1
  <2>2. PICK a \in Actor, i \in Nat : posted[q][k] = ReceiptOf(a, i)
    BY <2>1 DEF Receipt
  <2>3. QED
    BY <2>1, <2>2, FieldsOf
<1>4. QED
  BY <1>1, <1>2, <1>3

(* An operation of a program is at a place in it.                          *)
LEMMA Places ==
  ASSUME Direct(program), NEW a \in Actor
  PROVE  /\ Len(program[a]) \in Nat /\ DOMAIN program[a] = 1..Len(program[a])
         /\ SendsOf(program, a) \subseteq Nat /\ RecvsOf(program, a) \subseteq Nat
         /\ SendsOf(program, a) \subseteq DOMAIN program[a]
         /\ RecvsOf(program, a) \subseteq DOMAIN program[a]
         /\ SendsOf(program, a) \cap RecvsOf(program, a) = {}
<1>1. /\ Len(program[a]) \in Nat /\ DOMAIN program[a] = 1..Len(program[a])
  BY DEF Direct
<1>2. QED
  BY <1>1 DEF SendsOf, RecvsOf

(* A message that was sent stays sent, as no actor goes back.              *)
LEMMA StillSent ==
  ASSUME NEW pr, NEW place, NEW next, NEW p, NEW q, NEW m, SentBy(pr, place, p, q, m),
         m.by \in Actor, m.at \in Nat,
         \A b \in Actor : place[b] \in Nat /\ next[b] \in Nat /\ place[b] <= next[b]
  PROVE  SentBy(pr, next, p, q, m)
BY DEF SentBy

(* A send keeps the types.                                                 *)
LEMMA SendsTyped ==
  ASSUME Direct(program), PlaceInv, ChannelInv, PostedInv, NEW a \in Actor, Sends(a)
  PROVE  PlaceInv' /\ ChannelInv' /\ PostedInv'
<1> DEFINE p == a[1]
           q == program[a][ip[a]].to
           c == channel[p][q]
           m == MessageOf(a, ip[a])
<1>1. /\ p \in Proc /\ q \in Proc /\ ip[a] \in SendsOf(program, a) /\ ip[a] \in Nat
      /\ program' = program /\ posted' = posted
      /\ ip' \in [Actor -> Nat] /\ ip'[a] = ip[a] + 1
      /\ \A b \in Actor : ip[b] \in Nat /\ ip'[b] \in Nat /\ ip[b] <= ip'[b]
      /\ \A b \in Actor : b # a => ip'[b] = ip[b]
  <2>1. /\ p \in Proc /\ q \in Proc /\ ip[a] \in SendsOf(program, a)
        /\ program' = program /\ posted' = posted /\ ip' = [ip EXCEPT ![a] = @ + 1]
    BY ZenonT(30) DEF Sends
  <2>2. ip \in [Actor -> Nat]
    BY DEF PlaceInv
  <2> HIDE DEF p, q
  <2>3. QED
    BY <2>1, <2>2
<1>2. /\ pending' \in [Actor -> SUBSET Nat]
      /\ \A b \in Actor : pending[b] \subseteq pending'[b]
      /\ \A b \in Actor : \A i \in pending'[b] : i \in pending[b] \/ (b = a /\ i = ip[a])
  <2>1. pending \in [Actor -> SUBSET Nat]
    BY DEF PlaceInv
  <2>2. CASE pending' = pending
    BY <2>1, <2>2
  <2>3. CASE pending' = [pending EXCEPT ![a] = @ \cup {ip[a]}]
    BY <1>1, <2>1, <2>3
  <2>4. QED
    BY <2>2, <2>3, ZenonT(30) DEF Sends
<1>3. PlaceInv'
  <2>1. ASSUME NEW b \in Actor
        PROVE  ip'[b] \in 1..(Len(program[b]) + 1)
    <3>1. CASE b = a
      BY <3>1, <1>1, Places
    <3>2. CASE b # a
      BY <3>2, <1>1 DEF PlaceInv
    <3>3. QED
      BY <3>1, <3>2
  <2>2. ASSUME NEW b \in Actor, NEW i \in pending'[b]
        PROVE  i < ip'[b] /\ i \in SendsOf(program, b) \cup RecvsOf(program, b)
    <3>1. CASE i \in pending[b]
      <4>1. i < ip[b] /\ i \in Nat /\ i \in SendsOf(program, b) \cup RecvsOf(program, b)
        BY <3>1 DEF PlaceInv
      <4>2. QED
        BY <4>1, <1>1
    <3>2. CASE b = a /\ i = ip[a]
      BY <3>2, <1>1
    <3>3. QED
      BY <3>1, <3>2, <1>2
  <2>3. QED
    BY <1>1, <1>2, <2>1, <2>2 DEF PlaceInv
<1>4. PostedInv'
  <2>1. ASSUME NEW t \in Proc, NEW k \in DOMAIN posted[t]
        PROVE  /\ posted[t][k].at < ip'[posted[t][k].by]
               /\ posted[t][k].at \in pending'[posted[t][k].by]
    <3>1. posted[t][k].by \in Actor /\ posted[t][k].at \in Nat
      BY Entries
    <3>2. posted[t][k].at < ip[posted[t][k].by] /\ posted[t][k].at \in pending[posted[t][k].by]
      BY DEF PostedInv, PostedByOne, PostedBy
    <3>3. QED
      BY <3>1, <3>2, <1>1, <1>2
  <2>2. Receipt' = Receipt
    BY <1>1 DEF Receipt, ReceiptOf
  <2>3. PostedTyped' /\ PostedOrdered'
    BY <1>1, <2>2 DEF PostedInv, PostedTyped, PostedOrdered
  <2>4. PostedByOne'
    BY <1>1, <2>1 DEF PostedInv, PostedByOne, PostedBy
  <2>5. QED
    BY <2>3, <2>4 DEF PostedInv
<1>5. ChannelInv'
  <2>1. m \in Message /\ m.by = a /\ m.at = ip[a] /\ c \in Seq(Message)
    <3>1. m \in Message
      BY <1>1 DEF Message
    <3>2. QED
      BY <1>1, <3>1, FieldsOf, Entries
  <2>2. /\ channel'[p][q] = Append(c, m)
        /\ \A s, t \in Proc : s # p \/ t # q => channel'[s][t] = channel[s][t]
        /\ channel' \in [Proc -> [Proc -> Seq(Message)]]
    BY ZenonT(30) DEF Sends
  <2> HIDE DEF m, c
  <2>3. /\ DOMAIN channel'[p][q] = DOMAIN c \cup {Len(c) + 1}
        /\ \A k \in DOMAIN c : channel'[p][q][k] = c[k] /\ k < Len(c) + 1 /\ k \in Nat
        /\ channel'[p][q][Len(c) + 1] = m /\ Len(c) + 1 \in Nat
    BY <2>1, <2>2, AppendFacts
  <2>4. ASSUME NEW s \in Proc, NEW t \in Proc, NEW k \in DOMAIN channel'[s][t]
        PROVE  \/ k \in DOMAIN channel[s][t] /\ channel'[s][t][k] = channel[s][t][k]
               \/ s = p /\ t = q /\ k = Len(c) + 1 /\ channel'[s][t][k] = m
    <3>1. CASE s = p /\ t = q
      BY <3>1, <2>3, ZenonT(30) DEF c
    <3>2. CASE s # p \/ t # q
      BY <3>2, <2>2
    <3>3. QED
      BY <3>1, <3>2
  <2>5. ASSUME NEW s \in Proc, NEW t \in Proc, NEW k \in DOMAIN channel'[s][t]
        PROVE  SentBy(program, ip', s, t, channel'[s][t][k])
    <3>1. CASE s = p /\ t = q /\ k = Len(c) + 1 /\ channel'[s][t][k] = m
      <4>1. SentBy(program, ip', p, q, m)
        BY <1>1, <2>1 DEF SentBy
      <4>2. QED
        BY <3>1, <4>1
    <3>2. CASE k \in DOMAIN channel[s][t] /\ channel'[s][t][k] = channel[s][t][k]
      <4>1. channel[s][t][k].by \in Actor /\ channel[s][t][k].at \in Nat
        BY <3>2, Entries
      <4>2. SentBy(program, ip, s, t, channel[s][t][k])
        BY <3>2 DEF ChannelInv, ChannelSent
      <4>3. SentBy(program, ip', s, t, channel[s][t][k])
        BY <4>1, <4>2, <1>1, StillSent
      <4>4. QED
        BY <3>2, <4>3
    <3>3. QED
      BY <3>1, <3>2, <2>4
  <2>6. ASSUME NEW s \in Proc, NEW t \in Proc, NEW k \in DOMAIN channel'[s][t],
               NEW l \in DOMAIN channel'[s][t], k < l,
               channel'[s][t][k].by = channel'[s][t][l].by
        PROVE  channel'[s][t][k].at < channel'[s][t][l].at
    <3>1. CASE k \in DOMAIN channel[s][t] /\ l \in DOMAIN channel[s][t]
      <4>1. channel'[s][t][k] = channel[s][t][k] /\ channel'[s][t][l] = channel[s][t][l]
        <5>1. CASE s = p /\ t = q
          BY <5>1, <3>1, <2>3, ZenonT(30) DEF c
        <5>2. CASE s # p \/ t # q
          BY <5>2, <2>2
        <5>3. QED
          BY <5>1, <5>2
      <4>2. QED
        BY <4>1, <3>1, <2>6 DEF ChannelInv, ChannelOrdered
    <3>2. CASE k \notin DOMAIN channel[s][t]
      <4>1. s = p /\ t = q /\ k = Len(c) + 1
        BY <3>2, <2>4
      <4>2. l \in DOMAIN c \cup {Len(c) + 1}
        BY <4>1, <2>3
      <4>3. l \in Nat /\ l <= Len(c) + 1 /\ Len(c) + 1 \in Nat
        BY <4>2, <2>3
      <4>4. ~(k < l)
        BY <4>1, <4>3
      <4>5. QED
        BY <4>4, <2>6
    <3>3. CASE k \in DOMAIN channel[s][t] /\ l \notin DOMAIN channel[s][t]
      <4>1. s = p /\ t = q /\ channel'[s][t][l] = m
        BY <3>3, <2>4
      <4>2. channel'[s][t][k] = channel[s][t][k]
        BY <4>1, <3>3, <2>3, ZenonT(30) DEF c
      <4>3. channel[s][t][k].by = a
        BY <4>1, <4>2, <2>1, <2>6
      <4>4. channel[s][t][k].at < ip[channel[s][t][k].by]
        BY <3>3 DEF ChannelInv, ChannelSent, SentBy
      <4>5. QED
        BY <4>1, <4>2, <4>3, <4>4, <2>1, ZenonT(30)
    <3>4. QED
      BY <3>1, <3>2, <3>3
  <2>7. Message' = Message
    BY <1>1 DEF Message, MessageOf
  <2>8. ChannelTyped'
    BY <2>2, <2>7 DEF ChannelTyped
  <2>9. ChannelSent'
    BY <1>1, <2>5 DEF ChannelSent
  <2>10. ChannelOrdered'
    BY <2>6 DEF ChannelOrdered
  <2>11. QED
    BY <2>8, <2>9, <2>10 DEF ChannelInv
<1>6. QED
  BY <1>3, <1>4, <1>5

(* A receive keeps the types.                                              *)
LEMMA ReceivesTyped ==
  ASSUME Direct(program), PlaceInv, ChannelInv, PostedInv, NEW a \in Actor, Receives(a)
  PROVE  PlaceInv' /\ ChannelInv' /\ PostedInv'
<1> DEFINE p == a[1]
           c == posted[p]
           r == ReceiptOf(a, ip[a])
<1>1. /\ p \in Proc /\ ip[a] \in RecvsOf(program, a) /\ ip[a] \in Nat
      /\ program' = program /\ channel' = channel
      /\ ip' \in [Actor -> Nat] /\ ip'[a] = ip[a] + 1
      /\ \A b \in Actor : ip[b] \in Nat /\ ip'[b] \in Nat /\ ip[b] <= ip'[b]
      /\ \A b \in Actor : b # a => ip'[b] = ip[b]
  <2>1. /\ p \in Proc /\ ip[a] \in RecvsOf(program, a)
        /\ program' = program /\ channel' = channel /\ ip' = [ip EXCEPT ![a] = @ + 1]
    BY DEF Receives
  <2>2. ip \in [Actor -> Nat]
    BY DEF PlaceInv
  <2> HIDE DEF p
  <2>3. QED
    BY <2>1, <2>2
<1>2. /\ pending' \in [Actor -> SUBSET Nat] /\ ip[a] \in pending'[a]
      /\ \A b \in Actor : pending[b] \subseteq pending'[b]
      /\ \A b \in Actor : \A i \in pending'[b] : i \in pending[b] \/ (b = a /\ i = ip[a])
  <2>1. pending \in [Actor -> SUBSET Nat]
    BY DEF PlaceInv
  <2>2. pending' = [pending EXCEPT ![a] = @ \cup {ip[a]}]
    BY DEF Receives
  <2>3. QED
    BY <1>1, <2>1, <2>2
<1>3. PlaceInv'
  <2>1. ASSUME NEW b \in Actor
        PROVE  ip'[b] \in 1..(Len(program[b]) + 1)
    <3>1. CASE b = a
      BY <3>1, <1>1, Places
    <3>2. CASE b # a
      BY <3>2, <1>1 DEF PlaceInv
    <3>3. QED
      BY <3>1, <3>2
  <2>2. ASSUME NEW b \in Actor, NEW i \in pending'[b]
        PROVE  i < ip'[b] /\ i \in SendsOf(program, b) \cup RecvsOf(program, b)
    <3>1. CASE i \in pending[b]
      <4>1. i < ip[b] /\ i \in Nat /\ i \in SendsOf(program, b) \cup RecvsOf(program, b)
        BY <3>1 DEF PlaceInv
      <4>2. QED
        BY <4>1, <1>1
    <3>2. CASE b = a /\ i = ip[a]
      BY <3>2, <1>1
    <3>3. QED
      BY <3>1, <3>2, <1>2
  <2>3. QED
    BY <1>1, <1>2, <2>1, <2>2 DEF PlaceInv
<1>4. ChannelInv'
  <2>1. ASSUME NEW s \in Proc, NEW t \in Proc, NEW k \in DOMAIN channel[s][t]
        PROVE  SentBy(program, ip', s, t, channel[s][t][k])
    <3>1. channel[s][t][k].by \in Actor /\ channel[s][t][k].at \in Nat
      BY Entries
    <3>2. SentBy(program, ip, s, t, channel[s][t][k])
      BY DEF ChannelInv, ChannelSent
    <3>3. QED
      BY <3>1, <3>2, <1>1, StillSent
  <2>2. Message' = Message
    BY <1>1 DEF Message, MessageOf
  <2>3. ChannelTyped' /\ ChannelOrdered'
    BY <1>1, <2>2 DEF ChannelInv, ChannelTyped, ChannelOrdered
  <2>4. ChannelSent'
    BY <1>1, <2>1 DEF ChannelSent
  <2>5. QED
    BY <2>3, <2>4 DEF ChannelInv
<1>5. PostedInv'
  <2>1. r \in Receipt /\ r.by = a /\ r.at = ip[a] /\ c \in Seq(Receipt)
    <3>1. r \in Receipt
      BY <1>1 DEF Receipt
    <3>2. QED
      BY <1>1, <3>1, FieldsOf, Entries
  <2>2. posted \in [Proc -> Seq(Receipt)] /\ posted' = [posted EXCEPT ![p] = Append(@, r)]
    BY DEF Receives, PostedInv, PostedTyped
  <2> HIDE DEF r
  <2>3. Append(c, r) \in Seq(Receipt)
    BY <2>1, AppendFacts
  <2> HIDE DEF p
  <2>4. /\ posted'[p] = Append(c, r) /\ posted' \in [Proc -> Seq(Receipt)]
        /\ \A t \in Proc : t # p => posted'[t] = posted[t]
    BY <1>1, <2>2, <2>3
  <2> HIDE DEF c
  <2>5. /\ DOMAIN posted'[p] = DOMAIN c \cup {Len(c) + 1}
        /\ \A k \in DOMAIN c : posted'[p][k] = c[k] /\ k < Len(c) + 1 /\ k \in Nat
        /\ posted'[p][Len(c) + 1] = r /\ Len(c) + 1 \in Nat
    BY <2>1, <2>4, AppendFacts
  <2>6. ASSUME NEW t \in Proc, NEW k \in DOMAIN posted'[t]
        PROVE  \/ k \in DOMAIN posted[t] /\ posted'[t][k] = posted[t][k]
               \/ t = p /\ k = Len(c) + 1 /\ posted'[t][k] = r
    BY <2>4, <2>5 DEF c
  <2>7. ASSUME NEW t \in Proc, NEW k \in DOMAIN posted'[t]
        PROVE  /\ posted'[t][k].by[1] = t
               /\ posted'[t][k].at \in RecvsOf(program, posted'[t][k].by)
               /\ posted'[t][k].at < ip'[posted'[t][k].by]
               /\ posted'[t][k].at \in pending'[posted'[t][k].by]
    <3>1. CASE t = p /\ k = Len(c) + 1 /\ posted'[t][k] = r
      BY <3>1, <1>1, <1>2, <2>1 DEF p
    <3>2. CASE k \in DOMAIN posted[t] /\ posted'[t][k] = posted[t][k]
      <4>1. posted[t][k].by \in Actor /\ posted[t][k].at \in Nat
        BY <3>2, Entries
      <4>2. /\ posted[t][k].by[1] = t
            /\ posted[t][k].at \in RecvsOf(program, posted[t][k].by)
            /\ posted[t][k].at < ip[posted[t][k].by]
            /\ posted[t][k].at \in pending[posted[t][k].by]
        BY <3>2 DEF PostedInv, PostedByOne, PostedBy
      <4>3. QED
        BY <3>2, <4>1, <4>2, <1>1, <1>2
    <3>3. QED
      BY <3>1, <3>2, <2>6
  <2>8. ASSUME NEW t \in Proc, NEW k \in DOMAIN posted'[t], NEW l \in DOMAIN posted'[t], k < l,
               posted'[t][k].by = posted'[t][l].by
        PROVE  posted'[t][k].at < posted'[t][l].at
    <3>1. CASE k \in DOMAIN posted[t] /\ l \in DOMAIN posted[t]
      <4>1. posted'[t][k] = posted[t][k] /\ posted'[t][l] = posted[t][l]
        <5>1. CASE t = p
          BY <5>1, <3>1, <2>5 DEF c
        <5>2. CASE t # p
          BY <5>2, <2>4
        <5>3. QED
          BY <5>1, <5>2
      <4>2. QED
        BY <4>1, <3>1, <2>8 DEF PostedInv, PostedOrdered
    <3>2. CASE k \notin DOMAIN posted[t]
      <4>1. t = p /\ k = Len(c) + 1
        BY <3>2, <2>6
      <4>2. l \in DOMAIN c \cup {Len(c) + 1}
        BY <4>1, <2>5
      <4>3. QED
        BY <4>1, <4>2, <2>5, <2>8
    <3>3. CASE k \in DOMAIN posted[t] /\ l \notin DOMAIN posted[t]
      <4>1. t = p /\ posted'[t][l] = r
        BY <3>3, <2>6
      <4>2. posted'[t][k] = posted[t][k]
        BY <4>1, <3>3, <2>5 DEF c
      <4>3. posted[t][k].by = a
        BY <4>1, <4>2, <2>1, <2>8
      <4>4. posted[t][k].at < ip[posted[t][k].by]
        BY <3>3 DEF PostedInv, PostedByOne, PostedBy
      <4>5. QED
        BY <4>1, <4>2, <4>3, <4>4, <2>1
    <3>4. QED
      BY <3>1, <3>2, <3>3
  <2>9. Receipt' = Receipt
    BY <1>1 DEF Receipt, ReceiptOf
  <2>10. PostedTyped'
    BY <2>4, <2>9 DEF PostedTyped
  <2>11. PostedByOne'
    BY <1>1, <2>7 DEF PostedByOne, PostedBy
  <2>12. PostedOrdered'
    BY <2>8 DEF PostedOrdered
  <2>13. QED
    BY <2>10, <2>11, <2>12 DEF PostedInv
<1>6. QED
  BY <1>3, <1>4, <1>5

(* So do the other operations.                                             *)
LEMMA PassesTyped ==
  ASSUME Direct(program), PlaceInv, ChannelInv, PostedInv, Passes
  PROVE  PlaceInv' /\ ChannelInv' /\ PostedInv'
<1>1. /\ program' = program /\ channel' = channel /\ posted' = posted /\ pending' = pending
      /\ ip' \in [Actor -> Nat]
      /\ \A b \in Actor : ip[b] \in Nat /\ ip'[b] \in Nat /\ ip[b] <= ip'[b]
  BY DEF Passes, PlaceInv
<1>2. PlaceInv'
  <2>1. ASSUME NEW b \in Actor
        PROVE  ip'[b] \in 1..(Len(program[b]) + 1)
    <3>1. ip[b] \in 1..(Len(program[b]) + 1)
      BY DEF PlaceInv
    <3>2. QED
      BY <3>1, Places DEF Passes
  <2>2. ASSUME NEW b \in Actor, NEW i \in pending[b]
        PROVE  i < ip'[b] /\ i \in SendsOf(program, b) \cup RecvsOf(program, b)
    <3>1. i < ip[b] /\ i \in Nat /\ i \in SendsOf(program, b) \cup RecvsOf(program, b)
      BY DEF PlaceInv
    <3>2. QED
      BY <3>1, <1>1
  <2>3. QED
    BY <1>1, <2>1, <2>2 DEF PlaceInv
<1>3. ChannelInv'
  <2>1. ASSUME NEW s \in Proc, NEW t \in Proc, NEW k \in DOMAIN channel[s][t]
        PROVE  SentBy(program, ip', s, t, channel[s][t][k])
    <3>1. channel[s][t][k].by \in Actor /\ channel[s][t][k].at \in Nat
      BY Entries
    <3>2. SentBy(program, ip, s, t, channel[s][t][k])
      BY DEF ChannelInv, ChannelSent
    <3>3. QED
      BY <3>1, <3>2, <1>1, StillSent
  <2>2. Message' = Message
    BY <1>1 DEF Message, MessageOf
  <2>3. ChannelTyped' /\ ChannelOrdered'
    BY <1>1, <2>2 DEF ChannelInv, ChannelTyped, ChannelOrdered
  <2>4. ChannelSent'
    BY <1>1, <2>1 DEF ChannelSent
  <2>5. QED
    BY <2>3, <2>4 DEF ChannelInv
<1>4. PostedInv'
  <2>1. ASSUME NEW t \in Proc, NEW k \in DOMAIN posted[t]
        PROVE  posted[t][k].at < ip'[posted[t][k].by]
    <3>1. posted[t][k].by \in Actor /\ posted[t][k].at \in Nat
      BY Entries
    <3>2. posted[t][k].at < ip[posted[t][k].by]
      BY DEF PostedInv, PostedByOne, PostedBy
    <3>3. QED
      BY <3>1, <3>2, <1>1
  <2>2. Receipt' = Receipt
    BY <1>1 DEF Receipt, ReceiptOf
  <2>3. PostedTyped' /\ PostedOrdered'
    BY <1>1, <2>2 DEF PostedInv, PostedTyped, PostedOrdered
  <2>4. PostedByOne'
    BY <1>1, <2>1 DEF PostedInv, PostedByOne, PostedBy
  <2>5. QED
    BY <2>3, <2>4 DEF PostedInv
<1>5. QED
  BY <1>2, <1>3, <1>4

(* The places of the messages of one actor in a channel, and those of its  *)
(* receives, tell them apart.                                              *)
LEMMA Apart ==
  ASSUME ChannelInv, PostedInv, NEW p \in Proc, NEW q \in Proc
  PROVE  /\ \A k, l \in DOMAIN channel[p][q] :
              channel[p][q][k].by = channel[p][q][l].by /\ channel[p][q][k].at = channel[p][q][l].at
                => k = l
         /\ \A k, l \in DOMAIN posted[q] :
              posted[q][k].by = posted[q][l].by /\ posted[q][k].at = posted[q][l].at => k = l
<1>1. ASSUME NEW k \in DOMAIN channel[p][q], NEW l \in DOMAIN channel[p][q], k # l,
             channel[p][q][k].by = channel[p][q][l].by
      PROVE  channel[p][q][k].at # channel[p][q][l].at
  <2>1. /\ k \in Nat /\ l \in Nat
        /\ channel[p][q][k].at \in Nat /\ channel[p][q][l].at \in Nat
    BY Entries
  <2>2. /\ k < l => channel[p][q][k].at < channel[p][q][l].at
        /\ l < k => channel[p][q][l].at < channel[p][q][k].at
    BY <1>1 DEF ChannelInv, ChannelOrdered
  <2>3. QED
    BY <1>1, <2>1, <2>2
<1>2. ASSUME NEW k \in DOMAIN posted[q], NEW l \in DOMAIN posted[q], k # l,
             posted[q][k].by = posted[q][l].by
      PROVE  posted[q][k].at # posted[q][l].at
  <2>1. /\ k \in Nat /\ l \in Nat /\ posted[q][k].at \in Nat /\ posted[q][l].at \in Nat
    BY Entries
  <2>2. /\ k < l => posted[q][k].at < posted[q][l].at
        /\ l < k => posted[q][l].at < posted[q][k].at
    BY <1>2 DEF PostedInv, PostedOrdered
  <2>3. QED
    BY <1>2, <2>1, <2>2
<1>3. QED
  BY <1>1, <1>2

(* Every message after a match was there before, so was every receive, and *)
(* only the two that met are gone.                                         *)
LEMMA MeetsKeeps ==
  ASSUME ChannelInv, PostedInv, NEW p \in Proc, NEW q \in Proc,
         NEW i \in DOMAIN channel[p][q], NEW k \in DOMAIN posted[q], Meets(p, q, i, k)
  PROVE  /\ posted' \in [Proc -> Seq(Receipt)]
         /\ \A t \in Proc : t # q => posted'[t] = posted[t]
         /\ \A h \in DOMAIN channel'[p][q] :
              /\ Was(h, i) \in DOMAIN channel[p][q] /\ Was(h, i) # i
              /\ channel'[p][q][h] = channel[p][q][Was(h, i)]
         /\ \A h, l \in DOMAIN channel'[p][q] : h < l => Was(h, i) < Was(l, i)
         /\ \A h \in DOMAIN channel[p][q] :
              h # i => \E l \in DOMAIN channel'[p][q] : channel'[p][q][l] = channel[p][q][h]
         /\ \A h \in DOMAIN posted'[q] :
              /\ Was(h, k) \in DOMAIN posted[q] /\ Was(h, k) # k
              /\ posted'[q][h] = posted[q][Was(h, k)]
         /\ \A h, l \in DOMAIN posted'[q] : h < l => Was(h, k) < Was(l, k)
         /\ \A h \in DOMAIN posted[q] :
              h # k => \E l \in DOMAIN posted'[q] : posted'[q][l] = posted[q][h]
<1>1. channel[p][q] \in Seq(Message) /\ posted[q] \in Seq(Receipt) /\ posted \in [Proc -> Seq(Receipt)]
  BY Entries DEF PostedInv, PostedTyped
<1>2. Machine!RemoveAt(posted[q], k) \in Seq(Receipt)
  BY <1>1, RemoveAtFacts
<1>3. posted' = [posted EXCEPT ![q] = Machine!RemoveAt(@, k)]
  BY DEF Meets
<1>4. /\ posted' \in [Proc -> Seq(Receipt)] /\ posted'[q] = Machine!RemoveAt(posted[q], k)
      /\ \A t \in Proc : t # q => posted'[t] = posted[t]
  BY <1>1, <1>2, <1>3
<1>5. channel'[p][q] = Machine!RemoveAt(channel[p][q], i)
  BY DEF Meets
<1>6. /\ \A h \in DOMAIN channel'[p][q] :
           /\ Was(h, i) \in DOMAIN channel[p][q] /\ Was(h, i) # i
           /\ channel'[p][q][h] = channel[p][q][Was(h, i)]
      /\ \A h, l \in DOMAIN channel'[p][q] : h < l => Was(h, i) < Was(l, i)
      /\ \A h \in DOMAIN channel[p][q] :
           h # i => \E l \in DOMAIN channel'[p][q] : channel'[p][q][l] = channel[p][q][h]
  BY <1>1, <1>5, Removed
<1>7. /\ \A h \in DOMAIN posted'[q] :
           /\ Was(h, k) \in DOMAIN posted[q] /\ Was(h, k) # k
           /\ posted'[q][h] = posted[q][Was(h, k)]
      /\ \A h, l \in DOMAIN posted'[q] : h < l => Was(h, k) < Was(l, k)
      /\ \A h \in DOMAIN posted[q] :
           h # k => \E l \in DOMAIN posted'[q] : posted'[q][l] = posted[q][h]
  BY <1>1, <1>4, Removed
<1>8. QED
  BY <1>4, <1>6, <1>7

(* A match keeps the types: the requests it completes are not those of     *)
(* other receives.                                                         *)
LEMMA MeetsTyped ==
  ASSUME Direct(program), PlaceInv, ChannelInv, PostedInv, NEW p \in Proc, NEW q \in Proc,
         NEW i \in DOMAIN channel[p][q], NEW k \in DOMAIN posted[q], Meets(p, q, i, k)
  PROVE  PlaceInv' /\ ChannelInv' /\ PostedInv'
<1> DEFINE m == channel[p][q][i]
           r == posted[q][k]
<1>1. /\ program' = program /\ ip' = ip
      /\ channel' \in [Proc -> [Proc -> Seq(Message)]]
      /\ \A s, t \in Proc : s # p \/ t # q => channel'[s][t] = channel[s][t]
      /\ pending' = [a \in Actor |-> {h \in pending[a] : <<a, h>> \notin {<<m.by, m.at>>, <<r.by, r.at>>}}]
  BY DEF Meets
<1>2. /\ pending' \in [Actor -> SUBSET Nat]
      /\ \A a \in Actor : pending'[a] \subseteq pending[a]
      /\ \A a \in Actor : \A h \in pending[a] :
           ~(a = m.by /\ h = m.at) /\ ~(a = r.by /\ h = r.at) => h \in pending'[a]
  <2> HIDE DEF m, r
  <2>1. pending \in [Actor -> SUBSET Nat]
    BY DEF PlaceInv
  <2>2. QED
    BY <1>1, <2>1
<1>3. PlaceInv'
  BY <1>1, <1>2 DEF PlaceInv
<1>4. ChannelInv'
  <2>1. ASSUME NEW s \in Proc, NEW t \in Proc, NEW h \in DOMAIN channel'[s][t]
        PROVE  SentBy(program, ip, s, t, channel'[s][t][h])
    <3>1. PICK l \in DOMAIN channel[s][t] : channel'[s][t][h] = channel[s][t][l]
      <4>1. CASE s = p /\ t = q
        BY <4>1, MeetsKeeps
      <4>2. CASE s # p \/ t # q
        BY <4>2, <1>1
      <4>3. QED
        BY <4>1, <4>2
    <3>2. SentBy(program, ip, s, t, channel[s][t][l])
      BY <3>1 DEF ChannelInv, ChannelSent
    <3>3. QED
      BY <3>1, <3>2
  <2>2. ASSUME NEW s \in Proc, NEW t \in Proc, NEW h \in DOMAIN channel'[s][t],
               NEW l \in DOMAIN channel'[s][t], h < l,
               channel'[s][t][h].by = channel'[s][t][l].by
        PROVE  channel'[s][t][h].at < channel'[s][t][l].at
    <3>1. CASE s = p /\ t = q
      <4>1. /\ Was(h, i) \in DOMAIN channel[p][q] /\ Was(l, i) \in DOMAIN channel[p][q]
            /\ Was(h, i) < Was(l, i)
            /\ channel'[p][q][h] = channel[p][q][Was(h, i)]
            /\ channel'[p][q][l] = channel[p][q][Was(l, i)]
        BY <3>1, <2>2, MeetsKeeps
      <4>2. QED
        BY <3>1, <2>2, <4>1 DEF ChannelInv, ChannelOrdered
    <3>2. CASE s # p \/ t # q
      <4>1. channel'[s][t] = channel[s][t]
        BY <3>2, <1>1
      <4>2. QED
        BY <4>1, <2>2 DEF ChannelInv, ChannelOrdered
    <3>3. QED
      BY <3>1, <3>2
  <2>3. Message' = Message
    BY <1>1 DEF Message, MessageOf
  <2>4. ChannelTyped'
    BY <1>1, <2>3 DEF ChannelTyped
  <2>5. ChannelSent'
    BY <1>1, <2>1 DEF ChannelSent
  <2>6. ChannelOrdered'
    BY <2>2 DEF ChannelOrdered
  <2>7. QED
    BY <2>4, <2>5, <2>6 DEF ChannelInv
<1>5. PostedInv'
  <2>1. /\ posted' \in [Proc -> Seq(Receipt)]
        /\ \A t \in Proc : t # q => posted'[t] = posted[t]
    BY MeetsKeeps
  <2>2. ASSUME NEW t \in Proc, NEW h \in DOMAIN posted'[t]
        PROVE  /\ posted'[t][h].by[1] = t
               /\ posted'[t][h].at \in RecvsOf(program, posted'[t][h].by)
               /\ posted'[t][h].at < ip[posted'[t][h].by]
               /\ posted'[t][h].at \in pending'[posted'[t][h].by]
    <3>1. PICK l \in DOMAIN posted[t] : /\ posted'[t][h] = posted[t][l]
                                        /\ t = q => l # k
      <4>1. CASE t = q
        BY <4>1, MeetsKeeps
      <4>2. CASE t # q
        BY <4>2, <2>1
      <4>3. QED
        BY <4>1, <4>2
    <3> DEFINE x == posted[t][l]
    <3>2. /\ x.by[1] = t /\ x.at \in RecvsOf(program, x.by) /\ x.at < ip[x.by]
          /\ x.at \in pending[x.by] /\ x.by \in Actor
      BY Entries DEF PostedInv, PostedByOne, PostedBy
    <3>3. ~(x.by = r.by /\ x.at = r.at)
      <4>1. r.by[1] = q
        BY DEF PostedInv, PostedByOne, PostedBy
      <4>2. CASE t = q
        BY <4>2, <3>1, Apart
      <4>3. QED
        BY <4>1, <4>2, <3>2
    <3>4. ~(x.by = m.by /\ x.at = m.at)
      <4>1. m.at \in SendsOf(program, m.by) /\ m.by \in Actor
        BY Entries DEF ChannelInv, ChannelSent, SentBy
      <4>2. QED
        BY <4>1, <3>2, Places
    <3>5. x.at \in pending'[x.by]
      BY <3>2, <3>3, <3>4, <1>2
    <3>6. QED
      BY <3>1, <3>2, <3>5
  <2>3. ASSUME NEW t \in Proc, NEW h \in DOMAIN posted'[t], NEW l \in DOMAIN posted'[t], h < l,
               posted'[t][h].by = posted'[t][l].by
        PROVE  posted'[t][h].at < posted'[t][l].at
    <3>1. CASE t = q
      <4>1. /\ Was(h, k) \in DOMAIN posted[q] /\ Was(l, k) \in DOMAIN posted[q]
            /\ Was(h, k) < Was(l, k)
            /\ posted'[q][h] = posted[q][Was(h, k)]
            /\ posted'[q][l] = posted[q][Was(l, k)]
        BY <3>1, <2>3, MeetsKeeps
      <4>2. QED
        BY <3>1, <2>3, <4>1 DEF PostedInv, PostedOrdered
    <3>2. CASE t # q
      BY <3>2, <2>1, <2>3 DEF PostedInv, PostedOrdered
    <3>3. QED
      BY <3>1, <3>2
  <2>4. Receipt' = Receipt
    BY <1>1 DEF Receipt, ReceiptOf
  <2>5. PostedTyped'
    BY <2>1, <2>4 DEF PostedTyped
  <2>6. PostedByOne'
    BY <1>1, <2>2, ZenonT(30) DEF PostedByOne, PostedBy
  <2>7. PostedOrdered'
    BY <2>3 DEF PostedOrdered
  <2>8. QED
    BY <2>5, <2>6, <2>7 DEF PostedInv
<1>6. QED
  BY <1>3, <1>4, <1>5

(* Initially nothing has happened.                                         *)
LEMMA InitTyped ==
  ASSUME Direct(program), Machine!Init
  PROVE  TypeInv
<1>1. PlaceInv
  <2>1. ASSUME NEW a \in Actor
        PROVE  1 \in 1..(Len(program[a]) + 1)
    BY Places
  <2>2. QED
    BY <2>1 DEF Machine!Init, PlaceInv, Actor
<1>2. ChannelInv
  BY DEF Machine!Init, ChannelInv, ChannelTyped, ChannelSent, SentBy, ChannelOrdered
<1>3. PostedInv
  BY DEF Machine!Init, PostedInv, PostedTyped, PostedByOne, PostedBy, PostedOrdered
<1>4. OtherInv
  BY DEF Machine!Init, OtherInv, Actor
<1>5. QED
  BY <1>1, <1>2, <1>3, <1>4 DEF TypeInv

(* Every step of a direct program keeps the types.                         *)
LEMMA NextTyped ==
  ASSUME Direct(program), TypeInv, [Machine!Next]_(Machine!vars)
  PROVE  TypeInv'
<1>1. CASE Machine!Next
  <2>1. PlaceInv /\ ChannelInv /\ PostedInv /\ OtherInv
    BY DEF TypeInv
  <2>2. OtherInv'
    BY <1>1, <2>1, OtherTyped
  <2>3. CASE \E a \in Actor : Machine!Isend(a) \/ Machine!Irecv(a)
    BY <2>1, <2>3, IsendSends, IrecvReceives, SendsTyped, ReceivesTyped, <2>2 DEF TypeInv
  <2>4. CASE \E p, q \in Proc : Machine!Match(p, q)
    BY <2>1, <2>4, MatchMeets, MeetsTyped, <2>2 DEF TypeInv
  <2>5. CASE Passes
    BY <2>1, <2>5, PassesTyped, <2>2 DEF TypeInv
  <2>6. QED
    BY <1>1, <2>1, <2>3, <2>4, <2>5, Steps
<1>2. CASE UNCHANGED Machine!vars
  <2>1. UNCHANGED <<program, names, ip, channel, posted, pending, count, room, faults>>
    BY <1>2 DEF Machine!vars
  <2>2. Message' = Message /\ Receipt' = Receipt
    BY <2>1 DEF Message, MessageOf, Receipt, ReceiptOf
  <2>3. PlaceInv' /\ OtherInv'
    BY <2>1 DEF TypeInv, PlaceInv, OtherInv
  <2>4. ChannelInv'
    <3>1. ChannelTyped' /\ ChannelOrdered'
      BY <2>1, <2>2 DEF TypeInv, ChannelInv, ChannelTyped, ChannelOrdered
    <3>2. ChannelSent'
      BY <2>1 DEF TypeInv, ChannelInv, ChannelSent
    <3>3. QED
      BY <3>1, <3>2 DEF ChannelInv
  <2>5. PostedInv'
    BY <2>1, <2>2 DEF TypeInv, PostedInv, PostedTyped, PostedByOne, PostedBy, PostedOrdered
  <2>6. QED
    BY <2>3, <2>4, <2>5 DEF TypeInv
<1>3. QED
  BY <1>1, <1>2

(* What is in TypeOK follows.                                              *)
LEMMA TypesAreOK ==
  ASSUME Direct(program), TypeInv
  PROVE  TypeOK
<1>1. PlaceInv /\ ChannelInv /\ PostedInv /\ OtherInv
  BY DEF TypeInv
<1>2. ASSUME NEW a \in Actor, NEW i \in pending[a]
      PROVE  i < ip[a] /\ program[a][i].op \in {"isend", "irecv"}
  BY <1>1 DEF PlaceInv, SendsOf, RecvsOf
<1>3. ASSUME NEW q \in Proc, NEW r \in ToSet(posted[q])
      PROVE  r.by[1] = q /\ r.at \in pending[r.by]
  <2>1. PICK k \in DOMAIN posted[q] : r = posted[q][k]
    BY DEF ToSet
  <2>2. QED
    BY <1>1, <2>1 DEF PostedInv, PostedByOne, PostedBy
<1>4. ASSUME NEW p \in Proc, NEW q \in Proc, NEW m \in ToSet(channel[p][q])
      PROVE  m.by[1] = p
  <2>1. PICK k \in DOMAIN channel[p][q] : m = channel[p][q][k]
    BY DEF ToSet
  <2>2. QED
    BY <1>1, <2>1 DEF ChannelInv, ChannelSent, SentBy
<1>5. QED
  BY <1>1, <1>2, <1>3, <1>4 DEF TypeOK, Machine!TypeOK, PlaceInv, OtherInv, Actor, Machine!ProcOf,
                                Machine!ToSet, ToSet

(* TypeOK: if the programs use no probes and cancel nothing, every         *)
(* posted receive has its request, however many processes and threads      *)
(* there are and whatever they send.                                       *)
THEOREM TypeCorrect == Spec => [](Direct(program) => TypeOK)
<1> DEFINE Inv == Direct(program) => TypeInv
<1>1. Machine!Init => Inv
  BY InitTyped
<1>2. Inv /\ [Machine!Next]_(Machine!vars) => Inv'
  <2>1. ASSUME Inv, [Machine!Next]_(Machine!vars), Direct(program)'
        PROVE  TypeInv'
    <3>1. Direct(program)
      BY <2>1, SameProgram
    <3>2. QED
      BY <2>1, <3>1, NextTyped
  <2>2. QED
    BY <2>1
<1>3. Inv => (Direct(program) => TypeOK)
  BY TypesAreOK
<1>4. QED
  BY <1>1, <1>2, <1>3, PTL DEF Spec, Machine!Spec

-----------------------------------------------------------------------------
(* Counterparts.                                                           *)

(* Of two sends that the same receives could match, the earlier one has    *)
(* the smaller number.                                                     *)
LEMMA SendOrder ==
  ASSUME NEW pr, Direct(pr), NEW a \in Actor, NEW i \in SendsOf(pr, a), NEW h \in SendsOf(pr, a),
         pr[a][h].to = pr[a][i].to, SameEnvelope(pr[a][h], pr[a][i])
  PROVE  /\ i \in Nat /\ h \in Nat /\ Cardinality(EarlierSends(pr, a, i)) \in Nat
         /\ h < i => Cardinality(EarlierSends(pr, a, h)) < Cardinality(EarlierSends(pr, a, i))
<1>1. SendsOf(pr, a) \subseteq Nat
  BY DEF SendsOf, Direct
<1>2. ASSUME NEW k \in SendsOf(pr, a)
      PROVE  IsFiniteSet(EarlierSends(pr, a, k)) /\ Cardinality(EarlierSends(pr, a, k)) \in Nat
  <2>1. EarlierSends(pr, a, k) \in SUBSET (0..k)
    BY <1>1 DEF EarlierSends
  <2>2. IsFiniteSet(0..k)
    BY <1>1, FS_Interval
  <2>3. IsFiniteSet(EarlierSends(pr, a, k))
    BY <2>1, <2>2, FS_Subset
  <2>4. QED
    BY <2>3, FS_CardinalityType
<1>3. ASSUME h < i
      PROVE  Cardinality(EarlierSends(pr, a, h)) < Cardinality(EarlierSends(pr, a, i))
  <2>1. EarlierSends(pr, a, h) \in SUBSET EarlierSends(pr, a, i)
    BY <1>1, <1>3 DEF EarlierSends, SameEnvelope
  <2>2. h \in EarlierSends(pr, a, i) /\ h \notin EarlierSends(pr, a, h)
    BY <1>1, <1>3 DEF EarlierSends
  <2>3. QED
    BY <2>1, <2>2, <1>2, FS_Subset
<1>4. QED
  BY <1>1, <1>2, <1>3

(* The same of receives.                                                   *)
LEMMA RecvOrder ==
  ASSUME NEW pr, Direct(pr), NEW b \in Actor, NEW j \in RecvsOf(pr, b), NEW h \in RecvsOf(pr, b),
         pr[b][h].src = pr[b][j].src, SameEnvelope(pr[b][h], pr[b][j])
  PROVE  /\ j \in Nat /\ h \in Nat /\ Cardinality(EarlierRecvs(pr, b, j)) \in Nat
         /\ h < j => Cardinality(EarlierRecvs(pr, b, h)) < Cardinality(EarlierRecvs(pr, b, j))
<1>1. RecvsOf(pr, b) \subseteq Nat
  BY DEF RecvsOf, Direct
<1>2. ASSUME NEW k \in RecvsOf(pr, b)
      PROVE  IsFiniteSet(EarlierRecvs(pr, b, k)) /\ Cardinality(EarlierRecvs(pr, b, k)) \in Nat
  <2>1. EarlierRecvs(pr, b, k) \in SUBSET (0..k)
    BY <1>1 DEF EarlierRecvs
  <2>2. IsFiniteSet(0..k)
    BY <1>1, FS_Interval
  <2>3. IsFiniteSet(EarlierRecvs(pr, b, k))
    BY <2>1, <2>2, FS_Subset
  <2>4. QED
    BY <2>3, FS_CardinalityType
<1>3. ASSUME h < j
      PROVE  Cardinality(EarlierRecvs(pr, b, h)) < Cardinality(EarlierRecvs(pr, b, j))
  <2>1. EarlierRecvs(pr, b, h) \in SUBSET EarlierRecvs(pr, b, j)
    BY <1>1, <1>3 DEF EarlierRecvs, SameEnvelope
  <2>2. h \in EarlierRecvs(pr, b, j) /\ h \notin EarlierRecvs(pr, b, h)
    BY <1>1, <1>3 DEF EarlierRecvs
  <2>3. QED
    BY <2>1, <2>2, <1>2, FS_Subset
<1>4. QED
  BY <1>1, <1>2, <1>3

(* Counterparts are in the same order in the programs of both actors.      *)
LEMMA PairOrder ==
  ASSUME NEW pr, Direct(pr), NEW a \in Actor, NEW b \in Actor,
         NEW i \in SendsOf(pr, a), NEW h \in SendsOf(pr, a),
         NEW j \in RecvsOf(pr, b), NEW l \in RecvsOf(pr, b),
         Counterpart(pr, a, i, b, j), Counterpart(pr, a, h, b, l),
         SameEnvelope(pr[a][i], pr[a][h])
  PROVE  /\ (i < h) <=> (j < l)
         /\ (i = h) <=> (j = l)
         /\ i \in Nat /\ h \in Nat /\ j \in Nat /\ l \in Nat
<1> DEFINE S(x) == Cardinality(EarlierSends(pr, a, x))
           R(x) == Cardinality(EarlierRecvs(pr, b, x))
<1>1. /\ pr[a][h].to = pr[a][i].to /\ pr[b][l].src = pr[b][j].src
      /\ SameEnvelope(pr[a][h], pr[a][i]) /\ SameEnvelope(pr[b][j], pr[b][l])
      /\ SameEnvelope(pr[b][l], pr[b][j])
      /\ S(i) = R(j) /\ S(h) = R(l)
  BY DEF Counterpart, SameEnvelope
<1>2. /\ i \in Nat /\ h \in Nat /\ S(i) \in Nat /\ S(h) \in Nat
      /\ (i < h => S(i) < S(h)) /\ (h < i => S(h) < S(i))
  BY <1>1, SendOrder
<1>3. /\ j \in Nat /\ l \in Nat /\ R(j) \in Nat /\ R(l) \in Nat
      /\ (j < l => R(j) < R(l)) /\ (l < j => R(l) < R(j))
  BY <1>1, RecvOrder
<1>4. (i = h => S(i) = S(h)) /\ (j = l => R(j) = R(l))
  OBVIOUS
<1> HIDE DEF S, R
<1>5. QED
  BY <1>1, <1>2, <1>3, <1>4

(* The sends of a process that the same receives could match are all of    *)
(* one actor, and so are the receives.                                     *)
LEMMA OneActor ==
  ASSUME NEW pr, Paired(pr), NEW a \in Actor, NEW b \in Actor
  PROVE  /\ \A i \in SendsOf(pr, a), j \in SendsOf(pr, b) :
              a[1] = b[1] /\ pr[a][i].to = pr[b][j].to /\ SameEnvelope(pr[a][i], pr[b][j]) => a = b
         /\ \A i \in RecvsOf(pr, a), j \in RecvsOf(pr, b) :
              a[1] = b[1] /\ pr[a][i].src = pr[b][j].src /\ SameEnvelope(pr[a][i], pr[b][j]) => a = b
BY DEF Paired

(* A send has one counterpart, and a receive too.                          *)
LEMMA OneCounterpart ==
  ASSUME NEW pr, Direct(pr), Paired(pr), NEW a \in Actor, NEW b \in Actor, NEW c \in Actor, NEW d \in Actor,
         NEW i \in SendsOf(pr, a), NEW j \in RecvsOf(pr, b),
         NEW h \in SendsOf(pr, c), NEW l \in RecvsOf(pr, d),
         Counterpart(pr, a, i, b, j), Counterpart(pr, c, h, d, l)
  PROVE  (a = c /\ i = h) <=> (b = d /\ j = l)
<1>1. ASSUME a = c, i = h
      PROVE  b = d /\ j = l
  <2>1. b[1] = d[1] /\ pr[b][j].src = pr[d][l].src /\ SameEnvelope(pr[b][j], pr[d][l])
    BY <1>1 DEF Counterpart, SameEnvelope
  <2>2. b = d
    BY <2>1, OneActor
  <2>3. SameEnvelope(pr[a][i], pr[a][h])
    BY <1>1 DEF SameEnvelope
  <2>4. QED
    BY <1>1, <2>2, <2>3, PairOrder
<1>2. ASSUME b = d, j = l
      PROVE  a = c /\ i = h
  <2>1. a[1] = c[1] /\ pr[a][i].to = pr[c][h].to /\ SameEnvelope(pr[a][i], pr[c][h])
    BY <1>2 DEF Counterpart, SameEnvelope
  <2>2. a = c
    BY <2>1, OneActor
  <2>3. QED
    BY <1>2, <2>1, <2>2, PairOrder
<1>3. QED
  BY <1>1, <1>2

-----------------------------------------------------------------------------
(* What is matched is of one run.                                          *)

(* What a message and a posted receive tell of the program.                *)
LEMMA MessageFacts ==
  ASSUME ChannelInv, PostedInv, NEW p \in Proc, NEW q \in Proc, NEW i \in DOMAIN channel[p][q],
         NEW m, m = channel[p][q][i]
  PROVE  /\ m.by \in Actor /\ m.at \in SendsOf(program, m.by) /\ m.at < ip[m.by]
         /\ m.by[1] = p /\ program[m.by][m.at].to = q /\ i \in Nat
         /\ m = MessageOf(m.by, m.at) /\ m.run = program[m.by][m.at].run
<1>1. m.by \in Actor /\ i \in Nat /\ m = MessageOf(m.by, m.at)
  BY Entries
<1>2. SentBy(program, ip, p, q, m)
  BY DEF ChannelInv, ChannelSent
<1>3. m.run = program[m.by][m.at].run
  BY <1>1, FieldsOf
<1>4. QED
  BY <1>1, <1>2, <1>3 DEF SentBy

(* The same of a receive.                                                  *)
LEMMA ReceiptFacts ==
  ASSUME ChannelInv, PostedInv, NEW q \in Proc, NEW k \in DOMAIN posted[q], NEW r, r = posted[q][k]
  PROVE  /\ r.by \in Actor /\ r.at \in RecvsOf(program, r.by) /\ r.at < ip[r.by]
         /\ r.by[1] = q /\ k \in Nat /\ r.at \in pending[r.by]
         /\ r = ReceiptOf(r.by, r.at) /\ r.run = program[r.by][r.at].run
<1>1. r.by \in Actor /\ k \in Nat /\ r = ReceiptOf(r.by, r.at)
  BY Entries
<1>2. PostedBy(q, r)
  BY DEF PostedInv, PostedByOne
<1>3. r.run = program[r.by][r.at].run
  BY <1>1, FieldsOf
<1>4. QED
  BY <1>1, <1>2, <1>3 DEF PostedBy

(* They match if the send and the receive of the program have the same     *)
(* envelope.                                                               *)
LEMMA Matching ==
  ASSUME Direct(program), ChannelInv, PostedInv, NEW p \in Proc, NEW q \in Proc,
         NEW i \in DOMAIN channel[p][q], NEW k \in DOMAIN posted[q],
         NEW m, m = channel[p][q][i], NEW r, r = posted[q][k]
  PROVE  Machine!Matches(r, p, m) <=> /\ program[r.by][r.at].src = p
                                      /\ SameEnvelope(program[m.by][m.at], program[r.by][r.at])
<1>1. m = MessageOf(m.by, m.at)
  BY MessageFacts
<1>2. r = ReceiptOf(r.by, r.at) /\ r.by \in Actor /\ r.at \in RecvsOf(program, r.by)
  BY ReceiptFacts
<1>3. m.ctx = program[m.by][m.at].ctx /\ m.tag = program[m.by][m.at].tag
  BY <1>1, FieldsOf
<1>4. /\ r.ctx = program[r.by][r.at].ctx /\ r.tag = program[r.by][r.at].tag
      /\ r.src = program[r.by][r.at].src
  BY <1>2, FieldsOf
<1>5. r.src \in Proc /\ r.tag # Wildcard
  <2>1. r.at \in DOMAIN program[r.by] /\ program[r.by][r.at].op = "irecv"
    BY <1>2 DEF RecvsOf
  <2>2. program[r.by][r.at].src \in Proc /\ program[r.by][r.at].tag # Wildcard
    BY <1>2, <2>1 DEF Direct
  <2>3. QED
    BY <1>4, <2>2
<1>6. Machine!Wildcard = -2 /\ Wildcard = -2 /\ -2 \notin Proc
  BY WorldSizeAssumption DEF Machine!Wildcard, Wildcard, Proc
<1>7. Machine!Matches(r, p, m) <=> r.ctx = m.ctx /\ r.src = p /\ r.tag = m.tag
  BY <1>5, <1>6 DEF Machine!Matches
<1>8. QED
  BY <1>3, <1>4, <1>7, ZenonT(30) DEF SameEnvelope

(* The message and the receive that meet are counterparts: the counterpart *)
(* of either would otherwise be before the other one.                      *)
LEMMA MeetsCounterpart ==
  ASSUME Direct(program), Paired(program), PlaceInv, ChannelInv, PostedInv, PairInv,
         NEW p \in Proc, NEW q \in Proc,
         NEW i \in DOMAIN channel[p][q], NEW k \in DOMAIN posted[q], Meets(p, q, i, k)
  PROVE  LET m == channel[p][q][i]
             r == posted[q][k]
         IN  Counterpart(program, m.by, m.at, r.by, r.at)
<1> DEFINE m == channel[p][q][i]
           r == posted[q][k]
           a == m.by
           s == m.at
           b == r.by
           l == r.at
<1>1. /\ a \in Actor /\ s \in SendsOf(program, a) /\ s < ip[a] /\ a[1] = p /\ program[a][s].to = q
      /\ b \in Actor /\ l \in RecvsOf(program, b) /\ l < ip[b] /\ b[1] = q
      /\ program[b][l].src = p /\ SameEnvelope(program[a][s], program[b][l])
      /\ i \in Nat /\ k \in Nat
  <2>1. Machine!Matches(r, p, m)
    BY DEF Meets
  <2>2. /\ m.by \in Actor /\ m.at \in SendsOf(program, m.by) /\ m.at < ip[m.by]
        /\ m.by[1] = p /\ program[m.by][m.at].to = q /\ i \in Nat
    BY MessageFacts
  <2>3. /\ r.by \in Actor /\ r.at \in RecvsOf(program, r.by) /\ r.at < ip[r.by]
        /\ r.by[1] = q /\ k \in Nat
    BY ReceiptFacts
  <2>4. /\ program[r.by][r.at].src = p
        /\ SameEnvelope(program[m.by][m.at], program[r.by][r.at])
    BY <2>1, Matching
  <2>5. QED
    BY <2>2, <2>3, <2>4, ZenonT(30)
<1> HIDE DEF a, s, b, l
<1>2. PICK j \in RecvsOf(program, b) : Counterpart(program, a, s, b, j)
  <2>1. PICK c \in Actor : \E j \in RecvsOf(program, c) : Counterpart(program, a, s, c, j)
    BY <1>1 DEF Paired
  <2>2. PICK j \in RecvsOf(program, c) : Counterpart(program, a, s, c, j)
    BY <2>1
  <2>3. c[1] = b[1] /\ program[c][j].src = program[b][l].src
        /\ SameEnvelope(program[c][j], program[b][l])
    BY <1>1, <2>2 DEF Counterpart, SameEnvelope
  <2>4. c = b
    BY <1>1, <2>3, OneActor
  <2>5. QED
    BY <2>2, <2>4
<1>3. PICK h \in SendsOf(program, a) : Counterpart(program, a, h, b, l)
  <2>1. PICK c \in Actor : \E h \in SendsOf(program, c) : Counterpart(program, c, h, b, l)
    BY <1>1 DEF Paired
  <2>2. PICK h \in SendsOf(program, c) : Counterpart(program, c, h, b, l)
    BY <2>1
  <2>3. c[1] = a[1] /\ program[c][h].to = program[a][s].to
        /\ SameEnvelope(program[c][h], program[a][s])
    BY <1>1, <2>2 DEF Counterpart, SameEnvelope
  <2>4. c = a
    BY <1>1, <2>3, OneActor
  <2>5. QED
    BY <2>2, <2>4
<1>4. /\ SameEnvelope(program[a][s], program[a][h])
      /\ program[b][j].src = p /\ SameEnvelope(program[a][s], program[b][j])
      /\ program[a][h].to = q /\ SameEnvelope(program[a][h], program[b][l])
  BY <1>1, <1>2, <1>3 DEF Counterpart, SameEnvelope
<1>5. /\ (s < h) <=> (j < l)
      /\ (s = h) <=> (j = l)
      /\ s \in Nat /\ h \in Nat /\ j \in Nat /\ l \in Nat
  BY <1>1, <1>2, <1>3, <1>4, PairOrder
<1>6. ip[a] \in Nat /\ ip[b] \in Nat
  BY <1>1 DEF PlaceInv
<1>7. InChannel(a, s) /\ InPosted(b, l)
  BY <1>1, ZenonT(30) DEF InChannel, InPosted, a, s, b, l
<1>8. ~(j < l)
  <2>1. SUFFICES ASSUME j < l  PROVE FALSE
    OBVIOUS
  <2>2. InPosted(b, j)
    <3>1. ~RecvMatched(b, j)
      BY <1>1, <1>2, <1>7 DEF PairInv, SendMatched
    <3>2. j < ip[b]
      BY <2>1, <1>1, <1>5, <1>6
    <3>3. QED
      BY <3>1, <3>2 DEF RecvMatched
  <2>3. PICK g \in DOMAIN posted[q] : posted[q][g].by = b /\ posted[q][g].at = j
    BY <2>2, <1>1 DEF InPosted
  <2>4. Machine!Matches(posted[q][g], p, m) /\ g \in Nat
    <3>1. g \in Nat
      BY ReceiptFacts
    <3>2. Machine!Matches(posted[q][g], p, m) <=>
            /\ program[posted[q][g].by][posted[q][g].at].src = p
            /\ SameEnvelope(program[m.by][m.at], program[posted[q][g].by][posted[q][g].at])
      BY Matching
    <3>3. QED
      BY <3>1, <3>2, <2>3, <1>4, ZenonT(30) DEF a, s
  <2>5. k <= g
    BY <2>4 DEF Meets
  <2>6. k # g
    BY <2>1, <2>3, <1>5 DEF l
  <2>7. l < j
    <3>1. k < g
      BY <2>4, <2>5, <2>6, <1>1
    <3>2. posted[q][k].by = posted[q][g].by
      BY <2>3 DEF b
    <3>3. posted[q][k].at < posted[q][g].at
      BY <3>1, <3>2 DEF PostedInv, PostedOrdered
    <3>4. QED
      BY <3>3, <2>3 DEF l
  <2>8. QED
    BY <2>1, <2>7, <1>5
<1>9. ~(h < s)
  <2>1. SUFFICES ASSUME h < s  PROVE FALSE
    OBVIOUS
  <2>2. InChannel(a, h)
    <3>1. ~SendMatched(a, h)
      BY <1>1, <1>3, <1>7 DEF PairInv, RecvMatched
    <3>2. h < ip[a]
      BY <2>1, <1>1, <1>5, <1>6
    <3>3. QED
      BY <3>1, <3>2 DEF SendMatched
  <2>3. PICK g \in DOMAIN channel[p][q] : channel[p][q][g].by = a /\ channel[p][q][g].at = h
    BY <2>2, <1>1, <1>4 DEF InChannel
  <2>4. Machine!Matches(r, p, channel[p][q][g]) /\ g \in Nat
    <3>1. g \in Nat
      BY MessageFacts
    <3>2. Machine!Matches(r, p, channel[p][q][g]) <=>
            /\ program[r.by][r.at].src = p
            /\ SameEnvelope(program[channel[p][q][g].by][channel[p][q][g].at], program[r.by][r.at])
      BY Matching
    <3>3. QED
      BY <3>1, <3>2, <2>3, <1>1, <1>4, ZenonT(30) DEF b, l
  <2>5. i <= g
    BY <2>4 DEF Meets
  <2>6. i # g
    BY <2>1, <2>3, <1>5 DEF s
  <2>7. s < h
    <3>1. i < g
      BY <2>4, <2>5, <2>6, <1>1
    <3>2. channel[p][q][i].by = channel[p][q][g].by
      BY <2>3 DEF a
    <3>3. channel[p][q][i].at < channel[p][q][g].at
      BY <3>1, <3>2 DEF ChannelInv, ChannelOrdered
    <3>4. QED
      BY <3>3, <2>3 DEF s
  <2>8. QED
    BY <2>1, <2>7, <1>5
<1>10. j = l
  BY <1>5, <1>8, <1>9
<1>11. QED
  BY <1>2, <1>10 DEF a, s, b, l

(* A step that changes for no send and no receive whether it is matched    *)
(* keeps the pairs.                                                        *)
LEMMA PairsStay ==
  ASSUME PairInv, program' = program,
         \A c \in Actor : \A i \in SendsOf(program, c) : SendMatched(c, i)' <=> SendMatched(c, i),
         \A c \in Actor : \A j \in RecvsOf(program, c) : RecvMatched(c, j)' <=> RecvMatched(c, j)
  PROVE  PairInv'
<1>1. ASSUME NEW c \in Actor, NEW d \in Actor,
             NEW i \in SendsOf(program, c), NEW j \in RecvsOf(program, d),
             Counterpart(program, c, i, d, j)
      PROVE  SendMatched(c, i)' <=> RecvMatched(d, j)'
  <2>1. SendMatched(c, i) <=> RecvMatched(d, j)
    BY <1>1 DEF PairInv
  <2>2. SendMatched(c, i)' <=> SendMatched(c, i)
    OBVIOUS
  <2>3. RecvMatched(d, j)' <=> RecvMatched(d, j)
    OBVIOUS
  <2>4. QED
    BY <2>1, <2>2, <2>3
<1>2. QED
  BY <1>1 DEF PairInv

(* A new message is not matched.                                           *)
LEMMA SendsPaired ==
  ASSUME Direct(program), PlaceInv, ChannelInv, PostedInv, PairInv, NEW a \in Actor, Sends(a)
  PROVE  PairInv'
<1> DEFINE p == a[1]
           q == program[a][ip[a]].to
           c == channel[p][q]
           m == MessageOf(a, ip[a])
<1>1. /\ p \in Proc /\ q \in Proc /\ ip[a] \in SendsOf(program, a) /\ ip[a] \in Nat
      /\ program' = program /\ posted' = posted /\ ip' = [ip EXCEPT ![a] = @ + 1]
  BY ZenonT(30) DEF Sends, PlaceInv
<1>2. \A d \in Actor : ip[d] \in Nat /\ ip'[d] = IF d = a THEN ip[a] + 1 ELSE ip[d]
  BY <1>1 DEF PlaceInv
<1>3. m \in Message /\ m.by = a /\ m.at = ip[a] /\ c \in Seq(Message)
  <2>1. m \in Message
    BY <1>1 DEF Message
  <2>2. QED
    BY <1>1, <2>1, FieldsOf, Entries
<1>4. /\ channel'[p][q] = Append(c, m)
      /\ \A s, t \in Proc : s # p \/ t # q => channel'[s][t] = channel[s][t]
  BY ZenonT(30) DEF Sends
<1> HIDE DEF m, c
<1>5. /\ DOMAIN channel'[p][q] = DOMAIN c \cup {Len(c) + 1}
      /\ \A k \in DOMAIN c : channel'[p][q][k] = c[k]
      /\ channel'[p][q][Len(c) + 1] = m
  BY <1>3, <1>4, AppendFacts
<1>6. ASSUME NEW d \in Actor, NEW i \in SendsOf(program, d)
      PROVE  SendMatched(d, i)' <=> SendMatched(d, i)
  <2> DEFINE s == d[1]
             t == program[d][i].to
  <2>1. s \in Proc /\ t \in Proc /\ i \in Nat
    BY Places DEF Direct, SendsOf, Actor, Machine!Actor
  <2>2. InChannel(d, i)' <=> \E k \in DOMAIN channel'[s][t] : channel'[s][t][k].by = d /\ channel'[s][t][k].at = i
    BY <1>1 DEF InChannel
  <2>3. InChannel(d, i) <=> \E k \in DOMAIN channel[s][t] : channel[s][t][k].by = d /\ channel[s][t][k].at = i
    BY DEF InChannel
  <2>4. CASE d = a /\ i = ip[a]
    <3>1. s = p /\ t = q /\ m.by = d /\ m.at = i
      BY <2>4, <1>3
    <3>2. InChannel(d, i)'
      <4> HIDE DEF s, t, p, q
      <4>1. Len(c) + 1 \in DOMAIN channel'[s][t] /\ channel'[s][t][Len(c) + 1] = m
        BY <3>1, <1>5
      <4>2. QED
        BY <2>2, <3>1, <4>1
    <3>3. ~(i < ip[d])
      BY <2>4, <1>1
    <3>4. QED
      BY <3>2, <3>3 DEF SendMatched
  <2>5. CASE ~(d = a /\ i = ip[a])
    <3>1. InChannel(d, i)' <=> InChannel(d, i)
      <4> HIDE DEF s, t
      <4>1. CASE s = p /\ t = q
        <5> HIDE DEF p, q
        <5>1. InChannel(d, i)' <=>
                \/ \E k \in DOMAIN c : c[k].by = d /\ c[k].at = i
                \/ m.by = d /\ m.at = i
          BY <2>2, <4>1, <1>5
        <5>2. QED
          BY <5>1, <2>3, <2>5, <4>1, <1>3 DEF c
      <4>2. CASE s # p \/ t # q
        BY <4>2, <1>4, <2>1, <2>2, <2>3
      <4>3. QED
        BY <4>1, <4>2
    <3>2. (i < ip'[d]) <=> (i < ip[d])
      BY <2>5, <1>1, <1>2, <2>1
    <3>3. QED
      BY <3>1, <3>2 DEF SendMatched
  <2>6. QED
    BY <2>4, <2>5
<1>7. ASSUME NEW d \in Actor, NEW j \in RecvsOf(program, d)
      PROVE  RecvMatched(d, j)' <=> RecvMatched(d, j)
  <2>1. InPosted(d, j)' <=> InPosted(d, j)
    BY <1>1 DEF InPosted
  <2>2. (j < ip'[d]) <=> (j < ip[d])
    <3>1. j \in Nat
      BY Places
    <3>2. ~(d = a /\ j = ip[a])
      BY <1>1, Places
    <3>3. QED
      BY <3>1, <3>2, <1>1, <1>2
  <2>3. QED
    BY <2>1, <2>2 DEF RecvMatched
<1>8. QED
  BY <1>1, <1>6, <1>7, PairsStay

(* Nor is a new receive.                                                   *)
LEMMA ReceivesPaired ==
  ASSUME Direct(program), PlaceInv, ChannelInv, PostedInv, PairInv, NEW a \in Actor, Receives(a)
  PROVE  PairInv'
<1> DEFINE q == a[1]
           c == posted[q]
           r == ReceiptOf(a, ip[a])
<1>1. /\ q \in Proc /\ ip[a] \in RecvsOf(program, a) /\ ip[a] \in Nat
      /\ program' = program /\ channel' = channel /\ ip' = [ip EXCEPT ![a] = @ + 1]
      /\ posted' = [posted EXCEPT ![q] = Append(@, r)] /\ posted \in [Proc -> Seq(Receipt)]
  BY DEF Receives, PlaceInv, PostedInv, PostedTyped
<1>2. \A d \in Actor : ip[d] \in Nat /\ ip'[d] = IF d = a THEN ip[a] + 1 ELSE ip[d]
  BY <1>1 DEF PlaceInv
<1>3. r \in Receipt /\ r.by = a /\ r.at = ip[a] /\ c \in Seq(Receipt)
  <2>1. r \in Receipt
    BY <1>1 DEF Receipt
  <2>2. QED
    BY <1>1, <2>1, FieldsOf, Entries
<1> HIDE DEF r
<1>4. posted'[q] = Append(c, r) /\ \A t \in Proc : t # q => posted'[t] = posted[t]
  BY <1>1
<1>5. /\ DOMAIN posted'[q] = DOMAIN c \cup {Len(c) + 1}
      /\ \A k \in DOMAIN c : posted'[q][k] = c[k]
      /\ posted'[q][Len(c) + 1] = r
  BY <1>3, <1>4, AppendFacts
<1>6. ASSUME NEW d \in Actor, NEW j \in RecvsOf(program, d)
      PROVE  RecvMatched(d, j)' <=> RecvMatched(d, j)
  <2> DEFINE t == d[1]
  <2>1. t \in Proc /\ j \in Nat
    BY Places DEF Actor, Machine!Actor
  <2>2. InPosted(d, j)' <=> \E k \in DOMAIN posted'[t] : posted'[t][k].by = d /\ posted'[t][k].at = j
    BY DEF InPosted
  <2>3. InPosted(d, j) <=> \E k \in DOMAIN posted[t] : posted[t][k].by = d /\ posted[t][k].at = j
    BY DEF InPosted
  <2>4. CASE d = a /\ j = ip[a]
    <3>1. InPosted(d, j)'
      BY <2>2, <2>4, <1>3, <1>5
    <3>2. ~(j < ip[d])
      BY <2>4, <1>1
    <3>3. QED
      BY <3>1, <3>2 DEF RecvMatched
  <2>5. CASE ~(d = a /\ j = ip[a])
    <3>1. InPosted(d, j)' <=> InPosted(d, j)
      <4> HIDE DEF t
      <4>1. CASE t = q
        <5> HIDE DEF q
        <5>1. InPosted(d, j)' <=>
                \/ \E k \in DOMAIN c : c[k].by = d /\ c[k].at = j
                \/ r.by = d /\ r.at = j
          BY <2>2, <4>1, <1>5
        <5>2. QED
          BY <5>1, <2>3, <2>5, <4>1, <1>3
      <4>2. CASE t # q
        BY <4>2, <1>4, <2>1, <2>2, <2>3
      <4>3. QED
        BY <4>1, <4>2
    <3>2. (j < ip'[d]) <=> (j < ip[d])
      BY <2>5, <1>1, <1>2, <2>1
    <3>3. QED
      BY <3>1, <3>2 DEF RecvMatched
  <2>6. QED
    BY <2>4, <2>5
<1>7. ASSUME NEW d \in Actor, NEW i \in SendsOf(program, d)
      PROVE  SendMatched(d, i)' <=> SendMatched(d, i)
  <2>1. InChannel(d, i)' <=> InChannel(d, i)
    BY <1>1 DEF InChannel
  <2>2. (i < ip'[d]) <=> (i < ip[d])
    <3>1. i \in Nat
      BY Places
    <3>2. ~(d = a /\ i = ip[a])
      BY <1>1, Places
    <3>3. QED
      BY <3>1, <3>2, <1>1, <1>2
  <2>3. QED
    BY <2>1, <2>2 DEF SendMatched
<1>8. QED
  BY <1>1, <1>6, <1>7, PairsStay

(* The other operations match nothing.                                     *)
LEMMA PassesPaired ==
  ASSUME Direct(program), PlaceInv, PairInv, Passes
  PROVE  PairInv'
<1>1. program' = program /\ channel' = channel /\ posted' = posted
  BY DEF Passes
<1>2. ASSUME NEW d \in Actor, NEW i \in SendsOf(program, d) \cup RecvsOf(program, d)
      PROVE  (i < ip'[d]) <=> (i < ip[d])
  <2>1. i \in Nat /\ ip[d] \in Nat /\ program[d][i].op \in {"isend", "irecv"}
    BY Places DEF PlaceInv, SendsOf, RecvsOf
  <2>2. \/ ip'[d] = ip[d]
        \/ ip'[d] = ip[d] + 1 /\ program[d][ip[d]].op \notin {"isend", "irecv"}
    BY Zenon DEF Passes
  <2>3. QED
    BY <2>1, <2>2
<1>3. ASSUME NEW d \in Actor, NEW i \in SendsOf(program, d)
      PROVE  SendMatched(d, i)' <=> SendMatched(d, i)
  <2>1. InChannel(d, i)' <=> InChannel(d, i)
    BY <1>1 DEF InChannel
  <2>2. QED
    BY <2>1, <1>2 DEF SendMatched
<1>4. ASSUME NEW d \in Actor, NEW j \in RecvsOf(program, d)
      PROVE  RecvMatched(d, j)' <=> RecvMatched(d, j)
  <2>1. InPosted(d, j)' <=> InPosted(d, j)
    BY <1>1 DEF InPosted
  <2>2. QED
    BY <2>1, <1>2 DEF RecvMatched
<1>5. QED
  BY <1>1, <1>3, <1>4, PairsStay

(* A match makes a send and its counterpart matched, and nothing else.     *)
LEMMA MeetsPaired ==
  ASSUME Direct(program), Paired(program), PlaceInv, ChannelInv, PostedInv, PairInv,
         NEW p \in Proc, NEW q \in Proc,
         NEW i \in DOMAIN channel[p][q], NEW k \in DOMAIN posted[q], Meets(p, q, i, k)
  PROVE  PairInv'
<1> DEFINE a == channel[p][q][i].by
           s == channel[p][q][i].at
           b == posted[q][k].by
           l == posted[q][k].at
<1>1. /\ a \in Actor /\ s \in SendsOf(program, a) /\ s < ip[a] /\ a[1] = p /\ program[a][s].to = q
      /\ b \in Actor /\ l \in RecvsOf(program, b) /\ l < ip[b] /\ b[1] = q
  <2>1. a \in Actor /\ s \in SendsOf(program, a) /\ s < ip[a] /\ a[1] = p /\ program[a][s].to = q
    BY MessageFacts
  <2>2. b \in Actor /\ l \in RecvsOf(program, b) /\ l < ip[b] /\ b[1] = q
    BY ReceiptFacts
  <2>3. QED
    BY <2>1, <2>2
<1>2. Counterpart(program, a, s, b, l)
  BY MeetsCounterpart
<1>3. /\ program' = program /\ ip' = ip
      /\ \A x, y \in Proc : x # p \/ y # q => channel'[x][y] = channel[x][y]
  BY DEF Meets
<1>4. ASSUME NEW d \in Actor, NEW h \in SendsOf(program, d)
      PROVE  SendMatched(d, h)' <=> SendMatched(d, h) \/ (d = a /\ h = s)
  <2> DEFINE x == d[1]
             y == program[d][h].to
  <2>1. x \in Proc /\ y \in Proc
    BY DEF Direct, SendsOf, Actor, Machine!Actor
  <2>2. InChannel(d, h)' <=> \E g \in DOMAIN channel'[x][y] : channel'[x][y][g].by = d /\ channel'[x][y][g].at = h
    BY <1>3 DEF InChannel
  <2>3. InChannel(d, h) <=> \E g \in DOMAIN channel[x][y] : channel[x][y][g].by = d /\ channel[x][y][g].at = h
    BY DEF InChannel
  <2>4. InChannel(d, h)' <=> InChannel(d, h) /\ ~(d = a /\ h = s)
    <3>1. CASE x = p /\ y = q
      <4> HIDE DEF x, y
      <4>1. ASSUME NEW g \in DOMAIN channel'[p][q], channel'[p][q][g].by = d, channel'[p][q][g].at = h
            PROVE  InChannel(d, h) /\ ~(d = a /\ h = s)
        <5>1. /\ Was(g, i) \in DOMAIN channel[p][q] /\ Was(g, i) # i
              /\ channel'[p][q][g] = channel[p][q][Was(g, i)]
          BY MeetsKeeps
        <5>2. InChannel(d, h)
          BY <5>1, <4>1, <3>1, <2>3
        <5>3. ~(d = a /\ h = s)
          BY <5>1, <4>1, Apart
        <5>4. QED
          BY <5>2, <5>3
      <4>2. ASSUME NEW g \in DOMAIN channel[p][q], channel[p][q][g].by = d, channel[p][q][g].at = h,
                   ~(d = a /\ h = s)
            PROVE  InChannel(d, h)'
        <5>1. g # i
          BY <4>2
        <5>2. PICK e \in DOMAIN channel'[p][q] : channel'[p][q][e] = channel[p][q][g]
          BY <5>1, MeetsKeeps
        <5>3. QED
          BY <5>2, <4>2, <3>1, <2>2
      <4>3. QED
        BY <4>1, <4>2, <3>1, <2>2, <2>3
    <3>2. CASE x # p \/ y # q
      <4>1. channel'[x][y] = channel[x][y]
        BY <3>2, <2>1, <1>3
      <4>2. ~(d = a /\ h = s)
        BY <3>2, <1>1
      <4>3. QED
        BY <4>1, <4>2, <2>2, <2>3, ZenonT(30)
    <3>3. QED
      BY <3>1, <3>2
  <2>5. (d = a /\ h = s) => h < ip[d]
    BY <1>1
  <2>6. (h < ip'[d]) <=> (h < ip[d])
    BY <1>3
  <2> HIDE DEF a, s
  <2>7. QED
    BY <2>4, <2>5, <2>6 DEF SendMatched
<1>5. ASSUME NEW d \in Actor, NEW h \in RecvsOf(program, d)
      PROVE  RecvMatched(d, h)' <=> RecvMatched(d, h) \/ (d = b /\ h = l)
  <2> DEFINE y == d[1]
  <2>1. y \in Proc
    BY DEF Actor, Machine!Actor
  <2>2. InPosted(d, h)' <=> \E g \in DOMAIN posted'[y] : posted'[y][g].by = d /\ posted'[y][g].at = h
    BY DEF InPosted
  <2>3. InPosted(d, h) <=> \E g \in DOMAIN posted[y] : posted[y][g].by = d /\ posted[y][g].at = h
    BY DEF InPosted
  <2>4. InPosted(d, h)' <=> InPosted(d, h) /\ ~(d = b /\ h = l)
    <3>1. CASE y = q
      <4> HIDE DEF y
      <4>1. ASSUME NEW g \in DOMAIN posted'[q], posted'[q][g].by = d, posted'[q][g].at = h
            PROVE  InPosted(d, h) /\ ~(d = b /\ h = l)
        <5>1. /\ Was(g, k) \in DOMAIN posted[q] /\ Was(g, k) # k
              /\ posted'[q][g] = posted[q][Was(g, k)]
          BY MeetsKeeps
        <5>2. InPosted(d, h)
          BY <5>1, <4>1, <3>1, <2>3
        <5>3. ~(d = b /\ h = l)
          BY <5>1, <4>1, Apart
        <5>4. QED
          BY <5>2, <5>3
      <4>2. ASSUME NEW g \in DOMAIN posted[q], posted[q][g].by = d, posted[q][g].at = h,
                   ~(d = b /\ h = l)
            PROVE  InPosted(d, h)'
        <5>1. g # k
          BY <4>2
        <5>2. PICK e \in DOMAIN posted'[q] : posted'[q][e] = posted[q][g]
          BY <5>1, MeetsKeeps
        <5>3. QED
          BY <5>2, <4>2, <3>1, <2>2
      <4>3. QED
        BY <4>1, <4>2, <3>1, <2>2, <2>3
    <3>2. CASE y # q
      <4>1. posted'[y] = posted[y]
        BY <3>2, <2>1, MeetsKeeps
      <4>2. ~(d = b /\ h = l)
        BY <3>2, <1>1
      <4>3. QED
        BY <4>1, <4>2, <2>2, <2>3
    <3>3. QED
      BY <3>1, <3>2
  <2>5. (d = b /\ h = l) => h < ip[d]
    BY <1>1
  <2>6. (h < ip'[d]) <=> (h < ip[d])
    BY <1>3
  <2> HIDE DEF b, l
  <2>7. QED
    BY <2>4, <2>5, <2>6 DEF RecvMatched
<1>6. ASSUME NEW c \in Actor, NEW d \in Actor,
             NEW h \in SendsOf(program, c), NEW j \in RecvsOf(program, d),
             Counterpart(program, c, h, d, j)
      PROVE  SendMatched(c, h)' <=> RecvMatched(d, j)'
  <2>1. SendMatched(c, h) <=> RecvMatched(d, j)
    BY <1>6 DEF PairInv
  <2> HIDE DEF a, s, b, l
  <2>2. (a = c /\ s = h) <=> (b = d /\ l = j)
    BY <1>1, <1>2, <1>6, OneCounterpart
  <2>3. SendMatched(c, h)' <=> SendMatched(c, h) \/ (c = a /\ h = s)
    BY <1>4
  <2>4. RecvMatched(d, j)' <=> RecvMatched(d, j) \/ (d = b /\ j = l)
    BY <1>5
  <2>5. QED
    BY <2>1, <2>2, <2>3, <2>4
<1>7. QED
  BY <1>3, <1>6 DEF PairInv

(* Every step of a paired program keeps the pairs.                         *)
LEMMA NextPaired ==
  ASSUME Direct(program), Paired(program), TypeInv, PairInv, [Machine!Next]_(Machine!vars)
  PROVE  PairInv'
<1>1. PlaceInv /\ ChannelInv /\ PostedInv
  BY DEF TypeInv
<1>2. CASE Machine!Next
  <2>1. CASE \E a \in Actor : Machine!Isend(a) \/ Machine!Irecv(a)
    BY <1>1, <2>1, IsendSends, IrecvReceives, SendsPaired, ReceivesPaired
  <2>2. CASE \E p, q \in Proc : Machine!Match(p, q)
    BY <1>1, <2>2, MatchMeets, MeetsPaired
  <2>3. CASE Passes
    BY <1>1, <2>3, PassesPaired
  <2>4. QED
    BY <1>1, <1>2, <2>1, <2>2, <2>3, Steps
<1>3. CASE UNCHANGED Machine!vars
  <2>1. UNCHANGED <<program, ip, channel, posted>>
    BY <1>3 DEF Machine!vars
  <2>2. ASSUME NEW c, NEW i
        PROVE  (SendMatched(c, i)' <=> SendMatched(c, i)) /\ (RecvMatched(c, i)' <=> RecvMatched(c, i))
    BY <2>1 DEF SendMatched, RecvMatched, InChannel, InPosted
  <2>3. QED
    BY <2>1, <2>2, PairsStay
<1>4. QED
  BY <1>2, <1>3

(* Initially nothing is matched.                                           *)
LEMMA InitPaired ==
  ASSUME Direct(program), Machine!Init
  PROVE  PairInv
<1>1. \A a \in Actor : ip[a] = 1
  BY DEF Machine!Init, Actor
<1>2. ASSUME NEW a \in Actor, NEW i \in SendsOf(program, a) \cup RecvsOf(program, a)
      PROVE  ~SendMatched(a, i) /\ ~RecvMatched(a, i)
  <2>1. i \in Nat /\ i >= 1
    BY Places
  <2>2. QED
    BY <2>1, <1>1 DEF SendMatched, RecvMatched
<1>3. QED
  BY <1>2 DEF PairInv

(* A match of paired programs is no fault.                                 *)
LEMMA MeetsBlameless ==
  ASSUME Direct(program), Paired(program), TypeInv, PairInv,
         NEW p \in Proc, NEW q \in Proc, Machine!Match(p, q)
  PROVE  faults' = faults
<1>1. PlaceInv /\ ChannelInv /\ PostedInv
  BY DEF TypeInv
<1>2. PICK i \in DOMAIN channel[p][q], k \in DOMAIN posted[q] : Meets(p, q, i, k)
  BY <1>1, MatchMeets
<1> DEFINE m == channel[p][q][i]
           r == posted[q][k]
<1>3. Counterpart(program, m.by, m.at, r.by, r.at)
  BY <1>1, <1>2, MeetsCounterpart
<1>4. m.run = program[m.by][m.at].run /\ r.run = program[r.by][r.at].run
  <2>1. m.run = program[m.by][m.at].run
    BY <1>1, MessageFacts
  <2>2. r.run = program[r.by][r.at].run
    BY <1>1, ReceiptFacts
  <2>3. QED
    BY <2>1, <2>2
<1>5. m.run = r.run
  BY <1>3, <1>4, ZenonT(30) DEF Counterpart
<1>6. faults' = (IF m.run # r.run THEN faults \cup {"foreign"} ELSE faults)
  BY <1>2 DEF Meets
<1>7. QED
  BY <1>5, <1>6

(* The steps of an actor that can record a fault, and which.               *)
LEMMA StepBlames ==
  ASSUME Direct(program), PlaceInv, NEW a \in Actor, Machine!Step(a)
  PROVE  \/ faults' = faults
         \/ Machine!Op(a).op = "isend" /\ Machine!Op(a).mode = "ready" /\ faults' = faults \cup {"notready"}
         \/ Machine!Op(a).op = "isend" /\ Machine!Op(a).mode = "buffered" /\ faults' = faults \cup {"overflow"}
         \/ Machine!Op(a).op \in {"publish", "unpublish", "lookup"} /\ faults' = faults \cup {"name"}
<1>1. ~Machine!Iprobe(a) /\ ~Machine!Probe(a) /\ ~Machine!RecvProbed(a)
      /\ ~Machine!CancelSend(a) /\ ~Machine!CancelRecvs(a)
  BY AtOperation, ZenonT(30) DEF Machine!Iprobe, Machine!Probe, Machine!RecvProbed,
                                 Machine!CancelSend, Machine!CancelRecvs, Machine!Executes
<1>2. CASE Machine!Isend(a)
  <2>1. Machine!Op(a).op = "isend"
    BY <1>2 DEF Machine!Isend, Machine!Executes
  <2>2. CASE Machine!Op(a).mode = "ready"
    BY <1>2, <2>1, <2>2 DEF Machine!Isend, Machine!Blame
  <2>3. CASE Machine!Op(a).mode = "buffered"
    BY <1>2, <2>1, <2>3 DEF Machine!Isend, Machine!Blame
  <2>4. CASE Machine!Op(a).mode \notin {"ready", "buffered"}
    BY <1>2, <2>4 DEF Machine!Isend
  <2>5. QED
    BY <2>2, <2>3, <2>4
<1>3. CASE Machine!Irecv(a) \/ Machine!Wait(a) \/ Machine!Barrier(a) \/ Machine!Attach(a) \/ Machine!Detach(a)
  BY <1>3 DEF Machine!Irecv, Machine!Wait, Machine!Barrier, Machine!Attach, Machine!Detach
<1>4. CASE Machine!Publish(a) \/ Machine!Unpublish(a) \/ Machine!Lookup(a)
  BY <1>4 DEF Machine!Publish, Machine!Unpublish, Machine!Lookup, Machine!Blame, Machine!Executes
<1>5. QED
  BY <1>1, <1>2, <1>3, <1>4 DEF Machine!Step

(* What holds of paired programs in every state.                           *)
PairedInv ==
  /\ TypeInv /\ PairInv
  /\ "foreign" \notin faults
  /\ Plain(program) => faults = {}

(* It holds initially, and every step keeps it.                            *)
LEMMA NextPairedInv ==
  ASSUME Direct(program), Paired(program), PairedInv, [Machine!Next]_(Machine!vars)
  PROVE  PairedInv'
<1>1. TypeInv /\ PairInv /\ PlaceInv
  BY DEF PairedInv, TypeInv
<1>2. TypeInv' /\ PairInv' /\ program' = program
  BY <1>1, NextTyped, NextPaired, SameProgram
<1>3. "foreign" \notin faults' /\ (Plain(program) => faults' = {})
  <2>1. ASSUME NEW a \in Actor, Machine!Step(a)
        PROVE  "foreign" \notin faults' /\ (Plain(program) => faults' = {})
    <3>1. /\ ip[a] \in DOMAIN program[a] /\ Machine!Op(a) = program[a][ip[a]]
      <4>1. ~Machine!Ended(a)
        BY <2>1, <1>1, Zenon DEF Machine!Step, Machine!Isend, Machine!Irecv, Machine!Wait, Machine!Barrier, Machine!Iprobe,
              Machine!Probe, Machine!RecvProbed, Machine!CancelSend, Machine!CancelRecvs, Machine!Attach,
              Machine!Detach, Machine!Publish, Machine!Unpublish, Machine!Lookup, Machine!Executes
      <4>2. QED
        BY <1>1, <4>1, AtOperation
    <3>2. Plain(program) => /\ Machine!Op(a).op \in {"isend", "irecv", "wait", "barrier"}
                            /\ Machine!Op(a).op = "isend" => Machine!Op(a).mode \in {"standard", "sync"}
      BY <3>1 DEF Plain, Exchanges, SendsOf
    <3>3. QED
      BY <2>1, <3>2, <1>1, StepBlames DEF PairedInv
  <2>2. ASSUME NEW p \in Proc, NEW q \in Proc, Machine!Match(p, q)
        PROVE  "foreign" \notin faults' /\ (Plain(program) => faults' = {})
    BY <2>2, <1>1, MeetsBlameless DEF PairedInv
  <2>3. CASE Machine!Over \/ UNCHANGED Machine!vars
    BY <2>3 DEF Machine!Over, Machine!vars, PairedInv
  <2>4. QED
    BY <2>1, <2>2, <2>3 DEF Machine!Next, Actor
<1>4. QED
  BY <1>2, <1>3 DEF PairedInv

(* So it always holds of them.                                              *)
LEMMA AlwaysPaired == Spec => [](Direct(program) /\ Paired(program) => PairedInv)
<1> DEFINE Inv == Direct(program) /\ Paired(program) => PairedInv
<1>1. Machine!Init => Inv
  BY InitTyped, InitPaired DEF PairedInv, Machine!Init
<1>2. Inv /\ [Machine!Next]_(Machine!vars) => Inv'
  <2>1. ASSUME Inv, [Machine!Next]_(Machine!vars), Direct(program)', Paired(program)'
        PROVE  PairedInv'
    <3>1. Direct(program) /\ Paired(program)
      BY <2>1, SameProgram
    <3>2. QED
      BY <2>1, <3>1, NextPairedInv
  <2>2. QED
    BY <2>1
<1>3. QED
  BY <1>1, <1>2, PTL DEF Spec, Machine!Spec

(* Paired programs never receive data of another run, whatever the library *)
(* buffers and in whatever order it completes: so the check of the         *)
(* received data in the tests fails only if the library is wrong.          *)
THEOREM NothingForeign == Spec => [](Direct(program) /\ Paired(program) => "foreign" \notin faults)
<1>1. (Direct(program) /\ Paired(program) => PairedInv)
        => (Direct(program) /\ Paired(program) => "foreign" \notin faults)
  BY DEF PairedInv
<1>2. QED
  BY <1>1, AlwaysPaired, PTL

(* NoFalseFailure: if they use no other sends than standard and            *)
(* synchronous ones, nothing at all is blamed on a correct library.        *)
THEOREM NoFalseFailures ==
  Spec => [](Direct(program) /\ Paired(program) /\ Plain(program) => NoFalseFailure)
<1>1. (Direct(program) /\ Paired(program) => PairedInv)
        => (Direct(program) /\ Paired(program) /\ Plain(program) => NoFalseFailure)
  BY DEF PairedInv, NoFalseFailure
<1>2. QED
  BY <1>1, AlwaysPaired, PTL

-----------------------------------------------------------------------------
(* What is left when all is over.                                          *)

(* A step keeps it that no request is left before a wait for it.           *)
LEMMA NextWaited ==
  ASSUME Direct(program), TypeInv, WaitInv, [Machine!Next]_(Machine!vars)
  PROVE  WaitInv'
<1>1. PlaceInv /\ ChannelInv /\ PostedInv
  BY DEF TypeInv
<1>2. \A a \in Actor : ip[a] \in Nat /\ pending[a] \subseteq Nat
  BY <1>1 DEF PlaceInv
<1>3. ASSUME NEW a \in Actor, program' = program,
             ip[a] \in SendsOf(program, a) \cup RecvsOf(program, a),
             pending' \in {pending, [pending EXCEPT ![a] = @ \cup {ip[a]}]},
             ip' = [ip EXCEPT ![a] = @ + 1]
      PROVE  WaitInv'
  <2>1. SUFFICES ASSUME NEW c \in Actor, NEW i \in pending'[c], NEW w \in DOMAIN program[c],
                        i < w, w < ip'[c], program[c][w].op = "wait"
                 PROVE  \/ program[c][i].op \notin program[c][w].kinds
                        \/ program[c][i].ctx # program[c][w].ctx
    BY <1>3 DEF WaitInv
  <2>2. w \in Nat
    BY Places
  <2>3. ip'[c] = IF c = a THEN ip[a] + 1 ELSE ip[c]
    BY <1>1, <1>3 DEF PlaceInv
  <2>4. i \in pending[c] \/ (c = a /\ i = ip[a])
    BY <1>1, <1>3 DEF PlaceInv
  <2>5. w < ip[c]
    <3>1. ~(c = a /\ w = ip[a])
      BY <1>3, <2>1 DEF SendsOf, RecvsOf
    <3>2. QED
      BY <3>1, <2>1, <2>2, <2>3, <1>2
  <2>6. i \in pending[c]
    BY <2>1, <2>2, <2>4, <2>5, <1>2
  <2>7. QED
    BY <2>1, <2>5, <2>6 DEF WaitInv
<1>4. CASE Machine!Next
  <2>1. ASSUME NEW a \in Actor, Machine!Isend(a) \/ Machine!Irecv(a)
        PROVE  WaitInv'
    <3>1. CASE Sends(a)
      BY <3>1, <1>3, ZenonT(30) DEF Sends
    <3>2. CASE Receives(a)
      BY <3>2, <1>3 DEF Receives
    <3>3. QED
      BY <2>1, <3>1, <3>2, <1>1, IsendSends, IrecvReceives
  <2>2. ASSUME NEW p \in Proc, NEW q \in Proc, Machine!Match(p, q)
        PROVE  WaitInv'
    <3>1. PICK i \in DOMAIN channel[p][q], k \in DOMAIN posted[q] : Meets(p, q, i, k)
      BY <1>1, <2>2, MatchMeets
    <3>2. program' = program /\ ip' = ip /\ \A a \in Actor : pending'[a] \subseteq pending[a]
      BY <3>1 DEF Meets
    <3>3. QED
      BY <3>2 DEF WaitInv
  <2>3. CASE Passes
    <3>1. program' = program /\ pending' = pending
      BY <2>3 DEF Passes
    <3>2. SUFFICES ASSUME NEW c \in Actor, NEW i \in pending[c], NEW w \in DOMAIN program[c],
                          i < w, w < ip'[c], program[c][w].op = "wait"
                   PROVE  \/ program[c][i].op \notin program[c][w].kinds
                          \/ program[c][i].ctx # program[c][w].ctx
      BY <3>1 DEF WaitInv
    <3>3. CASE w < ip[c]
      BY <3>2, <3>3 DEF WaitInv
    <3>4. CASE ~(w < ip[c])
      <4>1. w \in Nat /\ ip[c] \in Nat
        BY <1>2, Places
      <4>2. ip'[c] = ip[c] \/ ip'[c] = ip[c] + 1
        BY <2>3, Zenon DEF Passes
      <4>3. w = ip[c] /\ ip'[c] # ip[c]
        BY <4>1, <4>2, <3>2, <3>4
      <4>4. QED
        BY <4>3, <3>2, <2>3, Zenon DEF Passes
    <3>5. QED
      BY <3>3, <3>4
  <2>4. QED
    BY <1>1, <1>4, <2>1, <2>2, <2>3, Steps
<1>5. CASE UNCHANGED Machine!vars
  BY <1>5 DEF Machine!vars, WaitInv
<1>6. QED
  BY <1>4, <1>5

(* Programs that only exchange messages publish and attach nothing.        *)
Untouched == names = {} /\ \A p \in Proc : room[p] = 0

(* A step keeps it that way.                                               *)
LEMMA NextUntouched ==
  ASSUME Direct(program), Exchanges(program), PlaceInv, Untouched, [Machine!Next]_(Machine!vars)
  PROVE  Untouched'
<1>1. ASSUME NEW a \in Actor, Machine!Step(a)
      PROVE  names' = names /\ room' = room
  <2>1. ~Machine!Ended(a)
    BY <1>1, Zenon DEF Machine!Step, Machine!Isend, Machine!Irecv, Machine!Wait, Machine!Barrier, Machine!Iprobe,
          Machine!Probe, Machine!RecvProbed, Machine!CancelSend, Machine!CancelRecvs, Machine!Attach,
          Machine!Detach, Machine!Publish, Machine!Unpublish, Machine!Lookup, Machine!Executes
  <2>2. Machine!Op(a).op \in {"isend", "irecv", "wait", "barrier"}
    BY <2>1, AtOperation DEF Exchanges
  <2>3. Machine!Isend(a) \/ Machine!Irecv(a) \/ Machine!Wait(a) \/ Machine!Barrier(a)
    BY <1>1, <2>2, ZenonT(30) DEF Machine!Step, Machine!Iprobe, Machine!Probe, Machine!RecvProbed,
                                  Machine!CancelSend, Machine!CancelRecvs, Machine!Attach,
                                  Machine!Detach, Machine!Publish, Machine!Unpublish,
                                  Machine!Lookup, Machine!Executes
  <2>4. QED
    BY <2>3 DEF Machine!Isend, Machine!Irecv, Machine!Wait, Machine!Barrier
<1>2. ASSUME NEW p \in Proc, NEW q \in Proc, Machine!Match(p, q)
      PROVE  names' = names /\ room' = room
  BY <1>2, ZenonT(30) DEF Machine!Match
<1>3. CASE Machine!Over \/ UNCHANGED Machine!vars
  BY <1>3 DEF Machine!Over, Machine!vars, Untouched
<1>4. QED
  BY <1>1, <1>2, <1>3 DEF Machine!Next, Actor, Untouched

(* When all actors have ended, no request is left, hence no posted         *)
(* receive, hence no message: its counterpart would be posted.             *)
LEMMA NothingAtEnd ==
  ASSUME Direct(program), Paired(program), Waited(program), PairedInv, WaitInv, Untouched,
         Machine!Finished
  PROVE  NothingLeft
<1>1. PlaceInv /\ ChannelInv /\ PostedInv /\ PairInv
  BY DEF PairedInv, TypeInv
<1>2. \A a \in Actor : /\ \A i \in DOMAIN program[a] : i \in Nat /\ i < ip[a]
                       /\ ip[a] \in Nat
  BY <1>1, Places DEF PlaceInv, Machine!Finished, Machine!Ended, Actor
<1>3. ASSUME NEW a \in Actor
      PROVE  pending[a] = {}
  <2>1. SUFFICES ASSUME NEW i \in pending[a]  PROVE FALSE
    OBVIOUS
  <2>2. i \in SendsOf(program, a) \cup RecvsOf(program, a)
    BY <1>1 DEF PlaceInv
  <2>3. PICK w \in DOMAIN program[a] :
          /\ w > i /\ program[a][w].op = "wait"
          /\ program[a][i].op \in program[a][w].kinds /\ program[a][w].ctx = program[a][i].ctx
    BY <2>2 DEF Waited
  <2>4. i \in Nat /\ w \in Nat /\ w < ip[a]
    BY <1>2, <2>2, Places
  <2>5. QED
    BY <2>3, <2>4 DEF WaitInv
<1>4. ASSUME NEW q \in Proc
      PROVE  posted[q] = << >>
  <2>1. ASSUME NEW k \in DOMAIN posted[q]  PROVE FALSE
    BY <1>1, <1>3, Entries DEF PostedInv, PostedByOne, PostedBy
  <2>2. posted[q] \in Seq(Receipt)
    BY <1>1 DEF PostedInv, PostedTyped
  <2>3. QED
    BY <2>1, <2>2, NoElements
<1>5. ASSUME NEW p \in Proc, NEW q \in Proc
      PROVE  channel[p][q] = << >>
  <2>1. ASSUME NEW k \in DOMAIN channel[p][q]  PROVE FALSE
    <3> DEFINE a == channel[p][q][k].by
               i == channel[p][q][k].at
    <3>1. /\ a \in Actor /\ i \in SendsOf(program, a) /\ a[1] = p /\ program[a][i].to = q
      BY <1>1, MessageFacts
    <3>2. ~SendMatched(a, i)
      BY <3>1 DEF SendMatched, InChannel
    <3>3. PICK b \in Actor : \E j \in RecvsOf(program, b) : Counterpart(program, a, i, b, j)
      BY <3>1 DEF Paired
    <3>4. PICK j \in RecvsOf(program, b) : Counterpart(program, a, i, b, j)
      BY <3>3
    <3>5. ~RecvMatched(b, j)
      BY <1>1, <3>1, <3>2, <3>4 DEF PairInv
    <3>6. InPosted(b, j)
      BY <1>2, <3>4, <3>5, Places DEF RecvMatched
    <3>7. b[1] \in Proc
      BY DEF Actor, Machine!Actor
    <3>8. QED
      BY <3>6, <3>7, <1>4 DEF InPosted
  <2>2. channel[p][q] \in Seq(Message)
    BY <1>1 DEF ChannelInv, ChannelTyped
  <2>3. QED
    BY <2>1, <2>2, NoElements
<1>6. QED
  BY <1>3, <1>4, <1>5 DEF NothingLeft, Untouched, Actor, Machine!Actor

(* NothingLeft: paired programs that only exchange messages and wait for   *)
(* all their requests leave no message, no receive and no request behind.  *)
THEOREM NothingIsLeft ==
  Spec => [](Direct(program) /\ Paired(program) /\ Exchanges(program) /\ Waited(program) => NothingLeft)
<1> DEFINE Sound == Direct(program) /\ Paired(program) => PairedInv
           Inv == Direct(program) /\ Paired(program) /\ Exchanges(program) => WaitInv /\ Untouched
<1>1. Machine!Init => Inv
  <2>1. ASSUME Machine!Init  PROVE Untouched
    BY <2>1 DEF Machine!Init, Untouched
  <2>2. ASSUME Machine!Init  PROVE WaitInv
    BY <2>2 DEF Machine!Init, WaitInv, Actor
  <2>3. QED
    BY <2>1, <2>2
<1>2. Inv /\ Sound /\ [Machine!Next]_(Machine!vars) => Inv'
  <2>1. ASSUME Inv, Sound, [Machine!Next]_(Machine!vars),
               Direct(program)', Paired(program)', Exchanges(program)'
        PROVE  (WaitInv /\ Untouched)'
    <3>1. Direct(program) /\ Paired(program) /\ Exchanges(program)
      BY <2>1, SameProgram
    <3>2. TypeInv /\ PlaceInv
      BY <2>1, <3>1 DEF PairedInv, TypeInv
    <3>3. QED
      BY <2>1, <3>1, <3>2, NextWaited, NextUntouched
  <2>2. QED
    BY <2>1
<1>3. Inv /\ Sound =>
        (Direct(program) /\ Paired(program) /\ Exchanges(program) /\ Waited(program) => NothingLeft)
  BY NothingAtEnd DEF NothingLeft
<1>4. Spec => []Sound
  BY AlwaysPaired
<1>5. QED
  BY <1>1, <1>2, <1>3, <1>4, PTL DEF Spec, Machine!Spec
=============================================================================
