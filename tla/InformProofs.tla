---------------------------- MODULE InformProofs ----------------------------
(***************************************************************************)
(* When an inform is sent, and what it says: the spacing and the lateness  *)
(* of informs for every interval and timeout, however long the loop works  *)
(* or a frame trickles in and whatever is done to the clock, and the       *)
(* content of the snapshot for every network, lease file and answer of     *)
(* openNDS.                                                                *)
(***************************************************************************)
EXTENDS InformScheduler, InformProvider, SequenceTheorems, FiniteSetTheorems, TLAPS

(* How next_due, kept on the clock, relates to real time since the last    *)
(* inform.                                                                 *)
DueOnClock ==
  next_due = clock - (time - lastDue) + back - ahead + (IF initial_sent THEN Interval ELSE 0)

(* How long the last inform may be ago at each place of the loop.          *)
Lateness ==
  time - lastDue <=
    CASE pc = "inform"  -> work
      [] pc = "receive" -> Interval + work + parts * RecvTimeout + spent + back
      [] OTHER          -> Interval + work + (parts + 1) * RecvTimeout + back

InformInv ==
  /\ TypeOK
  /\ DueOnClock
  /\ Lateness

(* begin() makes the first inform due at once.                             *)
LEMMA InitInv == Init => InformInv
<1> SUFFICES ASSUME Init
             PROVE  InformInv
  OBVIOUS
<1> USE InformAssumption DEF Init
<1>1. inform \in [seq : 0..(SeqCount - 1), need_reply : BOOLEAN, uptime : Nat]
  OBVIOUS
<1>2. initial_sent \in BOOLEAN
  OBVIOUS
<1>3. next_seq \in 0..(SeqCount - 1)
  BY DEF NextSeq
<1>4. TypeOK
  BY <1>1, <1>2, <1>3 DEF TypeOK
<1>5. DueOnClock /\ Lateness
  BY DEF DueOnClock, Lateness
<1>6. QED
  BY <1>4, <1>5 DEF InformInv

(* The members of the scheduler after poll returned an inform.             *)
LEMMA PollDueType ==
  ASSUME TypeOK, PollDue
  PROVE  TypeOK'
<1> USE InformAssumption
<1>1. Uptime \in Nat /\ NextDue \in Nat
  BY DEF TypeOK, Uptime, NextDue
<1>2. next_seq' \in 0..(SeqCount - 1)
  BY DEF TypeOK, PollDue, NextSeq
<1>3. inform' \in [seq : 0..(SeqCount - 1), need_reply : BOOLEAN, uptime : Nat]
  BY <1>1 DEF TypeOK, PollDue
<1>4. initial_sent' \in BOOLEAN
  BY DEF PollDue
<1>5. /\ pc' = "inform" /\ spent' = 0
      /\ work' \in Nat /\ parts' \in 0..MaxParts
  BY DEF PollDue, TypeOK
<1>6. clock' \in Nat /\ started_at' \in Nat /\ next_due' \in Nat /\ time' \in Nat
      /\ lastDue' \in Nat /\ back' \in Nat /\ ahead' \in Nat
  BY <1>1 DEF PollDue, TypeOK
<1>7. QED
  BY <1>2, <1>3, <1>4, <1>5, <1>6 DEF TypeOK

(* Every step of the loop and of the clock keeps the inductive invariant.  *)
LEMMA StepInv == InformInv /\ [Next]_vars => InformInv'
<1> SUFFICES ASSUME InformInv, [Next]_vars
             PROVE  InformInv'
  OBVIOUS
<1> USE InformAssumption DEF InformInv
<1>1. CASE PollDue
  <2>1. TypeOK'
    BY <1>1, PollDueType
  <2>2. DueOnClock'
    BY <1>1 DEF PollDue, NextDue, DueOnClock, TypeOK
  <2>3. Lateness'
    BY <1>1 DEF PollDue, Lateness, TypeOK
  <2>4. QED
    BY <2>1, <2>2, <2>3
<1>2. CASE PollNotDue
  <2>1. TypeOK'
    BY <1>2 DEF PollNotDue, scheduler, watch, TypeOK
  <2>2. DueOnClock'
    BY <1>2 DEF PollNotDue, scheduler, watch, DueOnClock
  <2>3. time - lastDue < Interval + back - ahead
    BY <1>2 DEF PollNotDue, DueOnClock, TypeOK
  <2>4. Lateness'
    BY <1>2, <2>3 DEF PollNotDue, watch, Lateness, TypeOK
  <2>5. QED
    BY <2>1, <2>2, <2>4
<1>3. CASE InformSent \/ ReceiveTimeout \/ ReceiveRequest \/ RequestHandled
  <2> USE DEF InformSent, ReceiveTimeout, ReceiveRequest, RequestHandled
  <2>1. TypeOK'
    BY <1>3 DEF scheduler, watch, delays, TypeOK
  <2>2. DueOnClock'
    BY <1>3 DEF scheduler, watch, DueOnClock
  <2>3. parts * RecvTimeout \in Nat
        /\ (parts + 1) * RecvTimeout = parts * RecvTimeout + RecvTimeout
    BY DEF TypeOK
  <2>4. Lateness'
    BY <1>3, <2>3 DEF watch, delays, Lateness, TypeOK
  <2>5. QED
    BY <2>1, <2>2, <2>4
<1>4. CASE ReceivePart
  <2>1. TypeOK'
    BY <1>4 DEF ReceivePart, scheduler, watch, TypeOK
  <2>2. DueOnClock'
    BY <1>4 DEF ReceivePart, scheduler, watch, DueOnClock
  <2>3. parts' * RecvTimeout = parts * RecvTimeout + RecvTimeout
        /\ parts * RecvTimeout \in Nat
    BY <1>4 DEF ReceivePart, TypeOK
  <2>4. Lateness'
    BY <1>4, <2>3 DEF ReceivePart, watch, Lateness, TypeOK
  <2>5. QED
    BY <2>1, <2>2, <2>4
<1>5. CASE TickInRead \/ TickAtWork
  <2> USE DEF TickInRead, TickAtWork
  <2>1. TypeOK'
    BY <1>5 DEF scheduler, delays, TypeOK
  <2>2. DueOnClock'
    BY <1>5 DEF scheduler, DueOnClock, TypeOK
  <2>3. parts * RecvTimeout \in Nat /\ (parts + 1) * RecvTimeout \in Nat
    BY DEF TypeOK
  <2>4. Lateness'
    BY <1>5, <2>3 DEF delays, Lateness, TypeOK
  <2>5. QED
    BY <2>1, <2>2, <2>4
<1>6. CASE SetBack \/ SetAhead
  <2>1. TypeOK'
    BY <1>6 DEF SetBack, SetAhead, scheduler, delays, TypeOK
  <2>2. DueOnClock'
    BY <1>6 DEF SetBack, SetAhead, scheduler, DueOnClock, TypeOK
  <2>3. parts * RecvTimeout \in Nat /\ (parts + 1) * RecvTimeout \in Nat
    BY DEF TypeOK
  <2>4. Lateness'
    BY <1>6, <2>3 DEF SetBack, SetAhead, delays, Lateness, TypeOK
  <2>5. QED
    BY <2>1, <2>2, <2>4
<1>7. CASE UNCHANGED vars
  BY <1>7 DEF vars, TypeOK, DueOnClock, Lateness
<1>8. QED
  BY <1>1, <1>2, <1>3, <1>4, <1>5, <1>6, <1>7 DEF Next

(* The invariant of the scheduler and its loop.                            *)
THEOREM SchedulerCorrect == Spec => []InformInv
  BY InitInv, StepInv, PTL DEF Spec

(* Type correctness: among others, no inform carries a negative uptime.    *)
THEOREM SchedulerTypes == Spec => []TypeOK
<1>1. InformInv => TypeOK
  BY DEF InformInv
<1>2. QED
  BY <1>1, SchedulerCorrect, PTL

(* An inform is late by no more than the work, the reads and the           *)
(* adjustments of the clock in its way, however many and long they are.    *)
THEOREM InformsComeInTime == Spec => []InformsKeepComing
<1>1. ASSUME InformInv PROVE InformsKeepComing
  <2>1. /\ parts * RecvTimeout \in Nat
        /\ (parts + 1) * RecvTimeout = parts * RecvTimeout + RecvTimeout
    BY <1>1, InformAssumption DEF InformInv, TypeOK
  <2>2. QED
    BY <1>1, <2>1, InformAssumption DEF InformInv, InformsKeepComing, Lateness, TypeOK
<1>2. QED
  BY <1>1, SchedulerCorrect, PTL

(* Two informs are an interval apart, up to adjustments of the clock.      *)
THEOREM InformsSpaced == Spec => InformsAreSpaced
<1>1. InformInv /\ [Next]_vars =>
        [PollDue /\ initial_sent => time - lastDue >= Interval - ahead + back]_vars
  BY InformAssumption DEF InformInv, DueOnClock, PollDue, TypeOK
<1>2. QED
  BY <1>1, SchedulerCorrect, PTL DEF Spec, InformsAreSpaced

-----------------------------------------------------------------------------
(* The inductive invariant of InformProvider: what each stage knows of the *)
(* network and of the sources asked before it.                             *)

Stages == {"idle", "status", "hostapd", "leases", "portal", "merge", "done"}
Past == {"leases", "portal", "merge", "done"}

(* The entries that hostapd held at some time, and all the time.           *)
NetworkInv ==
  /\ stage \in Stages
  /\ up \subseteq Interfaces /\ assoc \subseteq Macs \X up
  /\ seen \subseteq Macs \X Interfaces /\ held \subseteq Macs \X Interfaces
  /\ stage \in {"status", "hostapd"} => assoc \subseteq seen /\ held \subseteq assoc

(* A listing has the order of Network.                                     *)
Listing(list) ==
  /\ list \in Seq([iface : Interfaces, stations : Nat])
  /\ \A j, k \in 1..Len(list) : \A p, q \in DOMAIN Network :
       j < k /\ Network[p] = list[j].iface /\ Network[q] = list[k].iface => p < q

(* Answers and interfaces are aligned.                                     *)
Aligned(list, answers, said) ==
  /\ answers \in Seq((SUBSET Macs) \cup {NoClients})
  /\ Len(answers) <= Len(list)
  /\ DOMAIN said = {list[k].iface.ifname : k \in 1..Len(answers)}
  /\ \A k \in 1..Len(answers) : said[list[k].iface.ifname] = answers[k]

AnswersInv ==
  /\ Listing(status) /\ Aligned(status, hostapd, told)
  /\ index = Len(hostapd)
  /\ stage \in {"idle", "status"} => status = <<>>
  /\ stage \in Past => index = Len(status)

MembersInv ==
  /\ stage \notin Past => members = NoMembers
  /\ stage \in Past => \/ members = WirelessMembers(status, hostapd)
                       \/ status = <<>> /\ members = NoMembers

ClientsOf(entries) == {HostapdClient(e[1], e[2]) : e \in entries}

(* Who is in associated was there, and who stayed is in it.                *)
AssociatedInv ==
  /\ associated \in Seq(ClientsOf(seen))
  /\ \A k \in 1..Len(hostapd) : \A e \in held :
       hostapd[k] # NoClients /\ e[2] = status[k].iface =>
         \E c \in Range(associated) : c.mac = e[1]

Sessions == PortalAnswers \cup {<<>>}

MetadataInv ==
  /\ stage \in {"idle", "status", "hostapd", "leases", "portal"} => portal = <<>>
  /\ stage = "portal" => lines \in LeaseFiles /\ metadata = LeaseClients(lines)
  /\ stage \in {"merge", "done"} =>
       \/ /\ lines \in LeaseFiles /\ portal \in Sessions
          /\ metadata = LeaseClients(lines) \o PortalClients(portal)
       \/ stage = "done" /\ status = <<>> /\ clients = <<>>

ClientsInv ==
  /\ stage # "done" => clients = <<>>
  /\ stage = "done" => \/ clients = MergeAssociated(associated, metadata)
                       \/ status = <<>> /\ clients = <<>>

ProviderInv ==
  /\ NetworkInv /\ AnswersInv /\ MembersInv
  /\ AssociatedInv /\ MetadataInv /\ ClientsInv

-----------------------------------------------------------------------------
(* Numbers: induction with a set for the property, and the last index.     *)

(* A set of numbers has a least one.                                       *)
LEMMA LeastNumber ==
  ASSUME NEW T \in SUBSET Nat, T # {}
  PROVE  \E n \in T : \A m \in T : n <= m
<1> DEFINE R == OpToRel(<, Nat)
<1>1. IsWellFoundedOn(R, Nat)
  BY NatLessThanWellFounded
<1>2. \A x, y \in Nat : x < y => <<x, y>> \in R
  BY DEF OpToRel
<1> HIDE DEF R
<1>3. PICK n \in T : \A m \in T : ~(<<m, n>> \in R)
  BY <1>1, WFMin
<1>4. \A m \in T : ~(m < n)
  BY <1>2, <1>3
<1>5. QED
  BY <1>3, <1>4

(* A set with 0 and the successors of its numbers has all numbers.         *)
LEMMA Induction ==
  ASSUME NEW S, 0 \in S, \A n \in Nat : n \in S => n + 1 \in S
  PROVE  Nat \subseteq S
<1> SUFFICES ASSUME Nat \ S # {}
             PROVE  FALSE
  OBVIOUS
<1>1. PICK n \in Nat \ S : \A m \in Nat \ S : n <= m
  BY LeastNumber
<1>2. n # 0 /\ n - 1 \in Nat /\ ~(n <= n - 1)
  BY <1>1
<1>3. n - 1 \in S
  BY <1>1, <1>2
<1>4. QED
  BY <1>1, <1>2, <1>3

(* Max of a set of indices is its largest element, the only one of those.  *)
LEMMA LastIndex ==
  ASSUME NEW n \in Nat, NEW I \in SUBSET (1..n), I # {}
  PROVE  /\ Max(I) \in I /\ \A j \in I : j <= Max(I)
         /\ \A k \in I : (\A j \in I : j <= k) => Max(I) = k
<1> DEFINE T == {t \in Nat : n - t \in I}
<1>1. \A i \in I : n - i \in Nat /\ n - (n - i) = i
  OBVIOUS
<1>2. \A i \in I : n - i \in T
  BY <1>1
<1>3. PICK t \in T : \A m \in T : t <= m
  BY <1>2, LeastNumber
<1> DEFINE i == n - t
<1>4. i \in I /\ \A j \in I : j <= i
  BY <1>2, <1>3
<1> HIDE DEF i, T
<1>5. Max(I) \in I /\ \A j \in I : Max(I) >= j
  <2>1. i \in I /\ \A j \in I : i >= j
    BY <1>4
  <2>2. QED
    BY <2>1 DEF Max
<1>6. ASSUME NEW k \in I, \A j \in I : j <= k
      PROVE  Max(I) = k
  <2> DEFINE last == Max(I)
  <2>1. last \in I /\ last >= k /\ last <= k
    BY <1>5, <1>6
  <2> HIDE DEF last
  <2>2. \A j \in I : j \in Int
    OBVIOUS
  <2>3. last = k
    BY <2>1, <2>2
  <2>4. QED
    BY <2>3 DEF last
<1>7. QED
  BY <1>5, <1>6

-----------------------------------------------------------------------------
(* Sequences.                                                              *)

(* FlattenSeq: f[i] is the concatenation of the first i sequences.         *)
Flat(s, f, n) == f = [i \in 1..n |-> IF i = 1 THEN s[i] ELSE f[i - 1] \o s[i]]

(* There is such a function.                                               *)
LEMMA FlatExists ==
  ASSUME NEW s, NEW n \in Nat
  PROVE  \E f : Flat(s, f, n)
<1> DEFINE S == {k \in Nat : \E f : Flat(s, f, k)}
<1>1. 0 \in S
  <2>1. Flat(s, [i \in 1..0 |-> s[i]], 0)
    BY DEF Flat
  <2>2. QED
    BY <2>1
<1>2. ASSUME NEW k \in Nat, k \in S
      PROVE  k + 1 \in S
  <2>1. PICK g : Flat(s, g, k)
    BY <1>2
  <2> DEFINE f == [i \in 1..(k + 1) |->
                     IF i = k + 1 THEN IF i = 1 THEN s[i] ELSE g[i - 1] \o s[i] ELSE g[i]]
  <2>2. ASSUME NEW i \in 1..(k + 1)
        PROVE  f[i] = IF i = 1 THEN s[i] ELSE f[i - 1] \o s[i]
    <3>1. CASE i = k + 1
      <4>1. i # 1 => i - 1 \in 1..(k + 1) /\ i - 1 # k + 1
        BY <2>2, <3>1
      <4>2. i # 1 => f[i - 1] = g[i - 1]
        BY <4>1
      <4>3. QED
        BY <3>1, <4>2
    <3>2. CASE i # k + 1
      <4>1. i \in 1..k
        BY <2>2, <3>2
      <4>2. i # 1 => i - 1 \in 1..k /\ i - 1 \in 1..(k + 1) /\ i - 1 # k + 1
        BY <4>1
      <4>3. g[i] = IF i = 1 THEN s[i] ELSE g[i - 1] \o s[i]
        BY <2>1, <4>1 DEF Flat
      <4>4. i # 1 => f[i - 1] = g[i - 1]
        BY <4>2
      <4>5. f[i] = g[i]
        BY <2>2, <3>2
      <4>6. QED
        BY <4>3, <4>4, <4>5
    <3>3. QED
      BY <3>1, <3>2
  <2>3. Flat(s, f, k + 1)
    BY <2>2 DEF Flat
  <2>4. QED
    BY <2>3
<1>3. Nat \subseteq S
  BY <1>1, <1>2, Induction
<1>4. QED
  BY <1>3

(* FlattenSeq is its last value.                                           *)
LEMMA FlattenIsFlat ==
  ASSUME NEW s, Len(s) \in Nat, Len(s) # 0
  PROVE  \E f : Flat(s, f, Len(s)) /\ FlattenSeq(s) = f[Len(s)]
<1> DEFINE f == CHOOSE g : g = [i \in 1..Len(s) |-> IF i = 1 THEN s[i] ELSE g[i - 1] \o s[i]]
<1>1. \E g : g = [i \in 1..Len(s) |-> IF i = 1 THEN s[i] ELSE g[i - 1] \o s[i]]
  BY FlatExists DEF Flat
<1>2. f = [i \in 1..Len(s) |-> IF i = 1 THEN s[i] ELSE f[i - 1] \o s[i]]
  BY <1>1
<1>3. FlattenSeq(s) = f[Len(s)]
  BY DEF FlattenSeq
<1>4. QED
  BY <1>2, <1>3 DEF Flat

(* q has the elements of s at the positions kept, in their order: pos says *)
(* where they come from.                                                   *)
Kept(q, s, kept, pos) ==
  /\ pos \in [1..Len(q) -> kept]
  /\ \A j \in 1..Len(q) : q[j] = s[pos[j]]
  /\ \A i, j \in 1..Len(q) : i < j => pos[i] < pos[j]
  /\ \A k \in kept : \E j \in 1..Len(q) : pos[j] = k

(* One element more.                                                       *)
LEMMA KeptMore ==
  ASSUME NEW X, NEW s \in Seq(X), NEW kept \in SUBSET (1..Len(s)), NEW n \in Nat,
         n + 1 <= Len(s), NEW q \in Seq(X), NEW pos, Kept(q, s, kept \cap 1..n, pos),
         NEW r, r = q \o (IF n + 1 \in kept THEN <<s[n + 1]>> ELSE <<>>)
  PROVE  r \in Seq(X) /\ \E p : Kept(r, s, kept \cap 1..(n + 1), p)
<1>1. Len(q) \in Nat /\ Len(s) \in Nat /\ s[n + 1] \in X
  BY LenProperties, ElementOfSeq
<1>2. CASE n + 1 \notin kept
  <2>1. r = q
    BY <1>2, ConcatEmptySeq
  <2>2. kept \cap 1..(n + 1) = kept \cap 1..n
    BY <1>2
  <2>3. QED
    BY <2>1, <2>2
<1>3. CASE n + 1 \in kept
  <2>1. /\ r \in Seq(X) /\ Len(r) = Len(q) + 1
        /\ \A j \in 1..Len(q) : r[j] = q[j]
        /\ r[Len(q) + 1] = s[n + 1]
    <3>1. r = q \o <<s[n + 1]>>
      BY <1>3
    <3>2. <<s[n + 1]>> \in Seq(X) /\ Len(<<s[n + 1]>>) = 1 /\ <<s[n + 1]>>[1] = s[n + 1]
      BY <1>1
    <3> DEFINE one == <<s[n + 1]>>
    <3> HIDE DEF one
    <3>3. /\ q \o one \in Seq(X) /\ Len(q \o one) = Len(q) + Len(one)
          /\ \A i \in 1..(Len(q) + Len(one)) :
               (q \o one)[i] = IF i <= Len(q) THEN q[i] ELSE one[i - Len(q)]
      BY <3>2, ConcatProperties DEF one
    <3>4. Len(one) = 1 /\ one[1] = s[n + 1] /\ r = q \o one
      BY <3>1, <3>2 DEF one
    <3>5. (Len(q) + 1) - Len(q) = 1 /\ Len(q) + 1 \in 1..(Len(q) + 1) /\ ~(Len(q) + 1 <= Len(q))
      BY <1>1
    <3>6. QED
      BY <1>1, <3>3, <3>4, <3>5
  <2> DEFINE p == [j \in 1..(Len(q) + 1) |-> IF j = Len(q) + 1 THEN n + 1 ELSE pos[j]]
             all == kept \cap 1..(n + 1)
  <2>2. /\ pos \in [1..Len(q) -> kept \cap 1..n]
        /\ \A j \in 1..Len(q) : q[j] = s[pos[j]]
        /\ \A i, j \in 1..Len(q) : i < j => pos[i] < pos[j]
        /\ \A k \in kept \cap 1..n : \E j \in 1..Len(q) : pos[j] = k
    BY DEF Kept
  <2>3. \A j \in 1..Len(q) : p[j] = pos[j] /\ pos[j] \in kept \cap 1..n
    <3>1. \A j \in 1..Len(q) : j \in 1..(Len(q) + 1) /\ j # Len(q) + 1
      BY <1>1
    <3>2. \A j \in 1..Len(q) : p[j] = pos[j]
      BY <3>1
    <3>3. \A j \in 1..Len(q) : pos[j] \in kept \cap 1..n
      BY <2>2
    <3>4. QED
      BY <3>2, <3>3
  <2>4. p[Len(q) + 1] = n + 1
    BY <1>1
  <2>5. \A j \in 1..(Len(q) + 1) : j \in 1..Len(q) \/ j = Len(q) + 1
    BY <1>1
  <2>6. p \in [1..Len(r) -> all]
    <3>1. DOMAIN p = 1..Len(r) /\ p = [j \in DOMAIN p |-> p[j]]
      BY <2>1
    <3> HIDE DEF p
    <3>2. \A j \in 1..Len(q) : p[j] \in all
      BY <2>3
    <3>3. p[Len(q) + 1] \in all
      BY <1>3, <2>4
    <3>4. \A j \in 1..Len(r) : p[j] \in all
      BY <2>1, <2>5, <3>2, <3>3
    <3>5. QED
      BY <3>1, <3>4
  <2> HIDE DEF p
  <2>7. \A j \in 1..Len(r) : r[j] = s[p[j]]
    BY <2>1, <2>2, <2>3, <2>4, <2>5
  <2>8. ASSUME NEW i \in 1..Len(r), NEW j \in 1..Len(r), i < j
        PROVE  p[i] < p[j]
    <3>1. i \in 1..Len(q)
      BY <1>1, <2>1, <2>8
    <3>2. CASE j \in 1..Len(q)
      BY <2>2, <2>3, <2>8, <3>1, <3>2
    <3>3. CASE j = Len(q) + 1
      <4>1. p[i] \in 1..n /\ p[j] = n + 1
        BY <2>3, <2>4, <3>1, <3>3
      <4>2. QED
        BY <4>1
    <3>4. QED
      BY <2>1, <2>5, <3>2, <3>3
  <2>9. ASSUME NEW k \in all
        PROVE  \E j \in 1..Len(r) : p[j] = k
    <3>1. CASE k = n + 1
      BY <1>1, <2>1, <2>4, <3>1
    <3>2. CASE k # n + 1
      <4>1. k \in kept \cap 1..n
        BY <3>2
      <4>2. PICK j \in 1..Len(q) : pos[j] = k
        BY <2>2, <4>1
      <4>3. j \in 1..Len(r) /\ p[j] = k
        BY <1>1, <2>1, <2>3, <4>2
      <4>4. QED
        BY <4>3
    <3>3. QED
      BY <3>1, <3>2
  <2>10. Kept(r, s, all, p)
    BY <2>6, <2>7, <2>8, <2>9 DEF Kept
  <2>11. QED
    BY <2>1, <2>10
<1>4. QED
  BY <1>2, <1>3

(* Keep does what it says.                                                 *)
LEMMA KeepKeeps ==
  ASSUME NEW X, NEW s \in Seq(X), NEW kept \in SUBSET (1..Len(s))
  PROVE  Keep(s, kept) \in Seq(X) /\ \E pos : Kept(Keep(s, kept), s, kept, pos)
<1> DEFINE item(k) == IF k \in kept THEN <<s[k]>> ELSE <<>>
           t == [k \in DOMAIN s |-> item(k)]
<1>1. Len(s) \in Nat /\ DOMAIN s = 1..Len(s) /\ \A k \in 1..Len(s) : s[k] \in X
  BY LenProperties, ElementOfSeq
<1>2. \A k \in 1..Len(s) : item(k) \in Seq(X)
  BY <1>1
<1>3. t \in Seq(Seq(X)) /\ Len(t) = Len(s) /\ \A k \in 1..Len(s) : t[k] = item(k)
  <2>1. t \in [1..Len(s) -> Seq(X)]
    BY <1>1, <1>2
  <2> HIDE DEF t
  <2>2. t \in Seq(Seq(X)) /\ Len(t) = Len(s)
    BY <1>1, <2>1
  <2>3. QED
    BY <1>1, <2>2 DEF t
<1>4. Keep(s, kept) = FlattenSeq(t)
  BY DEF Keep
<1> HIDE DEF t
<1>5. <<>> \in Seq(X) /\ Kept(<<>>, s, {}, <<>>)
  <2>1. Len(<<>>) = 0 /\ <<>> \in [1..0 -> {}]
    OBVIOUS
  <2>2. QED
    BY <2>1 DEF Kept
<1>6. CASE Len(s) = 0
  <2>1. t = <<>>
    BY <1>3, <1>6, EmptySeq
  <2>2. FlattenSeq(t) = <<>> /\ kept = {}
    BY <1>6, <2>1 DEF FlattenSeq
  <2>3. QED
    BY <1>4, <1>5, <2>2
<1>7. CASE Len(s) # 0
  <2>1. PICK f : Flat(t, f, Len(s)) /\ FlattenSeq(t) = f[Len(s)]
    BY <1>1, <1>3, <1>7, FlattenIsFlat
  <2> DEFINE Good(n) == f[n] \in Seq(X) /\ \E p : Kept(f[n], s, kept \cap 1..n, p)
             S == {n \in Nat : n \in 1..Len(s) => Good(n)}
  <2> HIDE DEF Good
  <2>2. 0 \in S
    OBVIOUS
  <2>3. ASSUME NEW n \in Nat, n \in S
        PROVE  n + 1 \in S
    <3> SUFFICES ASSUME n + 1 \in 1..Len(s)
                 PROVE  Good(n + 1)
      OBVIOUS
    <3>1. f[n + 1] = IF n + 1 = 1 THEN t[n + 1] ELSE f[n] \o t[n + 1]
      <4>1. f[n + 1] = IF n + 1 = 1 THEN t[n + 1] ELSE f[(n + 1) - 1] \o t[n + 1]
        BY <2>1 DEF Flat
      <4>2. (n + 1) - 1 = n
        OBVIOUS
      <4>3. QED
        BY <4>1, <4>2
    <3>2. t[n + 1] = item(n + 1) /\ item(n + 1) \in Seq(X)
      BY <1>2, <1>3
    <3>3. n + 1 <= Len(s)
      BY <1>1
    <3>4. CASE n = 0
      <4>1. f[n + 1] = <<>> \o item(n + 1)
        BY <3>1, <3>2, <3>4, ConcatEmptySeq
      <4>2. kept \cap 1..n = {}
        BY <3>4
      <4>3. Kept(<<>>, s, kept \cap 1..n, <<>>)
        BY <1>5, <4>2
      <4> DEFINE r == f[n + 1]
      <4>4. r \in Seq(X) /\ \E p : Kept(r, s, kept \cap 1..(n + 1), p)
        <5> HIDE DEF r
        <5>1. r = <<>> \o (IF n + 1 \in kept THEN <<s[n + 1]>> ELSE <<>>)
          BY <4>1 DEF r
        <5>2. QED
          BY <1>5, <3>3, <4>3, <5>1, KeptMore
      <4>5. QED
        BY <4>4 DEF Good
    <3>5. CASE n # 0
      <4>1. n \in 1..Len(s) /\ n + 1 # 1
        BY <1>1, <3>3, <3>5
      <4>2. Good(n)
        BY <2>3, <4>1
      <4>3. f[n + 1] = f[n] \o item(n + 1)
        BY <3>1, <3>2, <4>1
      <4>4. f[n] \in Seq(X) /\ \E p : Kept(f[n], s, kept \cap 1..n, p)
        BY <4>2 DEF Good
      <4>5. PICK p : Kept(f[n], s, kept \cap 1..n, p)
        BY <4>4
      <4>6. QED
        BY <3>3, <4>3, <4>4, <4>5, KeptMore DEF Good
    <3>6. QED
      BY <3>4, <3>5
  <2>4. Nat \subseteq S
    <3> HIDE DEF S
    <3>1. QED
      BY <2>2, <2>3, Induction
  <2>5. Good(Len(s))
    BY <1>1, <1>7, <2>4
  <2>6. kept \cap 1..Len(s) = kept
    OBVIOUS
  <2>7. QED
    BY <1>4, <2>1, <2>5, <2>6 DEF Good
<1>8. QED
  BY <1>6, <1>7

(* SetToSeq of a finite set is a list of its elements.                     *)
LEMMA Listed ==
  ASSUME NEW S, IsFiniteSet(S)
  PROVE  SetToSeq(S) \in Seq(S) /\ Range(SetToSeq(S)) = S
<1> DEFINE n == Cardinality(S)
<1>1. n \in Nat /\ ExistsBijection(1..n, S)
  BY FS_CardinalityType
<1>2. \E f \in [1..n -> S] : IsInjective(f)
  BY <1>1 DEF ExistsBijection, Bijection, Injection
<1>3. SetToSeq(S) \in [1..n -> S] /\ IsInjective(SetToSeq(S))
  BY <1>2 DEF SetToSeq
<1>4. SetToSeq(S) \in Injection(1..n, S)
  BY <1>3 DEF Injection
<1>5. IsFiniteSet(1..n) /\ Cardinality(1..n) = n
  BY <1>1, FS_Interval
<1>6. SetToSeq(S) \in Surjection(1..n, S)
  BY <1>4, <1>5, FS_Injection
<1>7. \A x \in S : \E i \in 1..n : SetToSeq(S)[i] = x
  BY <1>6 DEF Surjection
<1> HIDE DEF n
<1>8. PICK q : q = SetToSeq(S)
  OBVIOUS
<1>9. q \in Seq(S)
  BY <1>1, <1>3, <1>8
<1>10. Range(q) = S
  BY <1>3, <1>7, <1>8 DEF Range
<1>11. QED
  BY <1>8, <1>9, <1>10

-----------------------------------------------------------------------------
(* Sums over finite sets: f[s] is the sum of the weights of the subset s.  *)
Summed(w, S, f) ==
  f = [s \in SUBSET S |-> IF s = {} THEN 0
                          ELSE w[CHOOSE x \in s : TRUE] + f[s \ {CHOOSE x \in s : TRUE}]]

(* There is such a function.                                               *)
LEMMA SummedExists ==
  ASSUME NEW w, NEW S, IsFiniteSet(S)
  PROVE  \E f : Summed(w, S, f)
<1> DEFINE c(s) == CHOOSE x \in s : TRUE
           Fits(f, n) == /\ f = [s \in SUBSET S |-> f[s]]
                         /\ \A s \in SUBSET S : Cardinality(s) <= n =>
                              f[s] = IF s = {} THEN 0 ELSE w[c(s)] + f[s \ {c(s)}]
           T == {n \in Nat : \E f : Fits(f, n)}
<1>1. \A s \in SUBSET S : IsFiniteSet(s) /\ Cardinality(s) \in Nat
  BY FS_Subset, FS_CardinalityType
<1>2. \A s \in SUBSET S : s # {} => /\ c(s) \in s /\ s \ {c(s)} \in SUBSET S
                                    /\ Cardinality(s \ {c(s)}) = Cardinality(s) - 1
  <2> SUFFICES ASSUME NEW s \in SUBSET S, s # {}
               PROVE  /\ c(s) \in s /\ s \ {c(s)} \in SUBSET S
                      /\ Cardinality(s \ {c(s)}) = Cardinality(s) - 1
    OBVIOUS
  <2>1. c(s) \in s
    OBVIOUS
  <2>2. PICK x : x = c(s)
    OBVIOUS
  <2>3. Cardinality(s \ {x}) = Cardinality(s) - 1
    BY <1>1, <2>1, <2>2, FS_RemoveElement
  <2>4. QED
    BY <2>1, <2>2, <2>3
<1>3. \A s \in SUBSET S : Cardinality(s) = 0 => s = {}
  BY <1>1, FS_EmptySet
<1> HIDE DEF c
<1>4. 0 \in T
  <2> DEFINE f == [s \in SUBSET S |-> 0]
  <2>1. \A s \in SUBSET S : Cardinality(s) <= 0 => s = {}
    BY <1>1, <1>3
  <2>2. Fits(f, 0)
    BY <2>1
  <2>3. QED
    BY <2>2
<1>5. ASSUME NEW n \in Nat, n \in T
      PROVE  n + 1 \in T
  <2>1. PICK f : Fits(f, n)
    BY <1>5
  <2> DEFINE g == [s \in SUBSET S |-> IF Cardinality(s) = n + 1
                                      THEN w[c(s)] + f[s \ {c(s)}] ELSE f[s]]
  <2>2. ASSUME NEW s \in SUBSET S, Cardinality(s) <= n + 1
        PROVE  g[s] = IF s = {} THEN 0 ELSE w[c(s)] + g[s \ {c(s)}]
    <3>1. s # {} => g[s \ {c(s)}] = f[s \ {c(s)}]
      <4>1. s # {} => s \ {c(s)} \in SUBSET S /\ Cardinality(s \ {c(s)}) # n + 1
        BY <1>1, <1>2, <2>2
      <4>2. QED
        BY <4>1
    <3>2. CASE Cardinality(s) = n + 1
      <4>1. s # {}
        BY <3>2, FS_EmptySet
      <4>2. g[s] = w[c(s)] + f[s \ {c(s)}]
        BY <3>2
      <4> HIDE DEF g
      <4>3. QED
        BY <3>1, <4>1, <4>2
    <3>3. CASE Cardinality(s) # n + 1
      <4>1. Cardinality(s) <= n
        BY <1>1, <2>2, <3>3
      <4>2. f[s] = IF s = {} THEN 0 ELSE w[c(s)] + f[s \ {c(s)}]
        BY <2>1, <4>1
      <4>3. g[s] = f[s]
        BY <3>3
      <4> HIDE DEF g
      <4>4. QED
        BY <3>1, <4>2, <4>3
    <3>4. QED
      BY <3>2, <3>3
  <2>3. g = [s \in SUBSET S |-> g[s]]
    OBVIOUS
  <2> HIDE DEF g
  <2>4. Fits(g, n + 1)
    BY <2>2, <2>3
  <2> HIDE DEF Fits
  <2>5. QED
    BY <2>4
<1>6. Nat \subseteq T
  <2> HIDE DEF T
  <2>1. QED
    BY <1>4, <1>5, Induction
<1>7. PICK f : Fits(f, Cardinality(S))
  BY <1>1, <1>6
<1>8. \A s \in SUBSET S : Cardinality(s) <= Cardinality(S)
  BY FS_Subset
<1>9. \A s \in SUBSET S : f[s] = IF s = {} THEN 0 ELSE w[c(s)] + f[s \ {c(s)}]
  BY <1>7, <1>8
<1>10. f = [s \in SUBSET S |-> IF s = {} THEN 0 ELSE w[c(s)] + f[s \ {c(s)}]]
  BY <1>7, <1>9
<1>11. QED
  BY <1>10 DEF Summed, c

(* SumFunctionOnSet is its value for the whole set.                        *)
LEMMA SumIsSummed ==
  ASSUME NEW w, NEW S, IsFiniteSet(S)
  PROVE  \E f : Summed(w, S, f) /\ SumFunctionOnSet(w, S) = f[S]
<1> DEFINE f == CHOOSE g : g = [s \in SUBSET S |-> IF s = {} THEN 0
                   ELSE w[CHOOSE x \in s : TRUE] + g[s \ {CHOOSE x \in s : TRUE}]]
<1>1. PICK h : Summed(w, S, h)
  BY SummedExists
<1>2. Summed(w, S, f)
  BY <1>1, Zenon DEF Summed
<1>3. SumFunctionOnSet(w, S) = f[S]
  BY DEF SumFunctionOnSet, FoldFunctionOnSet, MapThenFoldSet
<1>4. QED
  BY <1>2, <1>3

(* The sum has any one of the weights in it, whatever the order in which   *)
(* they are added.                                                         *)
LEMMA SummedAdd ==
  ASSUME NEW S, IsFiniteSet(S), NEW w \in [S -> Nat], NEW f, Summed(w, S, f)
  PROVE  \A s \in SUBSET S : f[s] \in Nat /\ \A x \in s : f[s] = w[x] + f[s \ {x}]
<1> DEFINE c(s) == CHOOSE x \in s : TRUE
           Good(s) == f[s] \in Nat /\ \A x \in s : f[s] = w[x] + f[s \ {x}]
           T == {n \in Nat : \A s \in SUBSET S : Cardinality(s) <= n => Good(s)}
<1>1. \A s \in SUBSET S : IsFiniteSet(s) /\ Cardinality(s) \in Nat
  BY FS_Subset, FS_CardinalityType
<1>2. \A s \in SUBSET S : f[s] = IF s = {} THEN 0 ELSE w[c(s)] + f[s \ {c(s)}]
  BY Zenon DEF Summed
<1>3. \A s \in SUBSET S : s # {} => c(s) \in s
  OBVIOUS
<1>4. \A s \in SUBSET S : \A x \in s :
        s \ {x} \in SUBSET S /\ Cardinality(s \ {x}) = Cardinality(s) - 1
  BY <1>1, FS_RemoveElement
<1> HIDE DEF c, Good
<1>5. 0 \in T
  <2>1. ASSUME NEW s \in SUBSET S, Cardinality(s) <= 0
        PROVE  Good(s)
    <3>1. s = {}
      <4>1. Cardinality(s) = 0
        BY <1>1, <2>1
      <4>2. QED
        BY <1>1, <4>1, FS_EmptySet
    <3>2. f[s] = 0
      BY <1>2, <3>1
    <3>3. QED
      BY <3>1, <3>2 DEF Good
  <2>2. QED
    BY <2>1
<1>6. ASSUME NEW n \in Nat, n \in T
      PROVE  n + 1 \in T
  <2>1. ASSUME NEW s \in SUBSET S, Cardinality(s) = n + 1
        PROVE  Good(s)
    <3>1. s # {}
      <4>1. Cardinality({}) = 0
        BY FS_EmptySet
      <4>2. QED
        BY <2>1, <4>1
    <3>2. PICK y : y = c(s) /\ y \in s /\ y \in S
      BY <1>3, <3>1
    <3>3. f[s] = w[y] + f[s \ {y}]
      BY <1>2, <3>1, <3>2
    <3>4. \A x \in s : s \ {x} \in SUBSET S /\ Good(s \ {x}) /\ w[x] \in Nat
      <4>1. (n + 1) - 1 = n
        OBVIOUS
      <4>2. \A x \in s : s \ {x} \in SUBSET S /\ Cardinality(s \ {x}) = n
        BY <1>4, <2>1, <4>1
      <4>3. \A x \in s : Good(s \ {x})
        BY <1>6, <4>2
      <4>4. QED
        BY <4>2, <4>3
    <3>5. f[s] \in Nat
      <4>1. Good(s \ {y}) /\ w[y] \in Nat
        BY <3>2, <3>4
      <4>2. f[s \ {y}] \in Nat
        BY <4>1 DEF Good
      <4>3. QED
        BY <3>3, <4>1, <4>2
    <3>6. ASSUME NEW x \in s, x # y
          PROVE  f[s] = w[x] + f[s \ {x}]
      <4>1. f[s \ {y}] = w[x] + f[(s \ {y}) \ {x}]
        BY <3>2, <3>4, <3>6 DEF Good
      <4>2. f[s \ {x}] = w[y] + f[(s \ {x}) \ {y}]
        BY <3>2, <3>4, <3>6 DEF Good
      <4>3. (s \ {y}) \ {x} = (s \ {x}) \ {y}
        OBVIOUS
      <4>4. f[(s \ {x}) \ {y}] \in Nat
        <5>1. y \in s \ {x} /\ s \ {x} \in SUBSET S
          BY <3>2, <3>6
        <5>2. /\ (s \ {x}) \ {y} \in SUBSET S
              /\ Cardinality((s \ {x}) \ {y}) = Cardinality(s \ {x}) - 1
          BY <1>4, <5>1
        <5>3. Cardinality(s \ {x}) = n
          BY <1>4, <2>1, (n + 1) - 1 = n
        <5>4. Cardinality((s \ {x}) \ {y}) <= n
          BY <5>2, <5>3
        <5>5. Good((s \ {x}) \ {y})
          BY <1>6, <5>2, <5>4
        <5>6. QED
          BY <5>5 DEF Good
      <4> DEFINE rest == f[(s \ {x}) \ {y}]
      <4>5. f[s] = w[y] + (w[x] + rest) /\ f[s \ {x}] = w[y] + rest
        BY <3>3, <4>1, <4>2, <4>3
      <4>6. rest \in Nat /\ w[x] \in Nat /\ w[y] \in Nat
        BY <3>2, <3>4, <4>4
      <4> HIDE DEF rest
      <4>7. QED
        BY <4>5, <4>6
    <3>7. QED
      BY <3>3, <3>5, <3>6 DEF Good
  <2>2. ASSUME NEW s \in SUBSET S, Cardinality(s) <= n + 1
        PROVE  Good(s)
    <3>1. Cardinality(s) <= n \/ Cardinality(s) = n + 1
      BY <1>1, <2>2
    <3>2. Cardinality(s) <= n => Good(s)
      BY <1>6
    <3>3. QED
      BY <2>1, <3>1, <3>2
  <2>3. QED
    BY <2>2
<1>7. Nat \subseteq T
  <2> HIDE DEF T
  <2>1. QED
    BY <1>5, <1>6, Induction
<1>8. \A s \in SUBSET S : Good(s)
  <2>1. \A n \in Nat : n <= n
    OBVIOUS
  <2>2. QED
    BY <1>1, <1>7, <2>1
<1>9. QED
  BY <1>8 DEF Good

(* Sums over a set and over a subset of it agree.                          *)
LEMMA SummedUnique ==
  ASSUME NEW S, IsFiniteSet(S), NEW T \in SUBSET S, NEW w, NEW v,
         \A x \in T : v[x] = w[x],
         NEW f, Summed(w, S, f), NEW g, Summed(v, T, g)
  PROVE  g[T] = f[T]
<1> DEFINE c(s) == CHOOSE x \in s : TRUE
           N == {n \in Nat : \A s \in SUBSET T : Cardinality(s) = n => g[s] = f[s]}
<1>1. \A s \in SUBSET T : s \in SUBSET S /\ IsFiniteSet(s) /\ Cardinality(s) \in Nat
  BY FS_Subset, FS_CardinalityType
<1>2. \A s \in SUBSET S : f[s] = IF s = {} THEN 0 ELSE w[c(s)] + f[s \ {c(s)}]
  BY Zenon DEF Summed
<1>3. \A s \in SUBSET T : g[s] = IF s = {} THEN 0 ELSE v[c(s)] + g[s \ {c(s)}]
  BY Zenon DEF Summed
<1>4. \A s \in SUBSET T : s # {} => c(s) \in s
  OBVIOUS
<1>5. \A s \in SUBSET T : \A x \in s :
        s \ {x} \in SUBSET T /\ Cardinality(s \ {x}) = Cardinality(s) - 1
  BY <1>1, FS_RemoveElement
<1> HIDE DEF c
<1>6. 0 \in N
  <2>1. \A s \in SUBSET T : Cardinality(s) = 0 => s = {}
    BY <1>1, FS_EmptySet
  <2>2. g[{}] = 0 /\ f[{}] = 0
    BY <1>2, <1>3
  <2>3. QED
    BY <2>1, <2>2
<1>7. ASSUME NEW n \in Nat, n \in N
      PROVE  n + 1 \in N
  <2>1. ASSUME NEW s \in SUBSET T, Cardinality(s) = n + 1
        PROVE  g[s] = f[s]
    <3>1. s # {}
      BY <2>1, FS_EmptySet
    <3>2. PICK y : y = c(s) /\ y \in s /\ y \in T
      BY <1>4, <3>1
    <3>3. s \ {y} \in SUBSET T /\ Cardinality(s \ {y}) = n
      BY <1>5, <2>1, <3>2, (n + 1) - 1 = n
    <3>4. g[s \ {y}] = f[s \ {y}] /\ v[y] = w[y]
      BY <1>7, <3>2, <3>3
    <3>5. g[s] = v[y] + g[s \ {y}] /\ f[s] = w[y] + f[s \ {y}]
      BY <1>1, <1>2, <1>3, <3>1, <3>2
    <3>6. QED
      BY <3>4, <3>5
  <2>2. QED
    BY <2>1
<1>8. Nat \subseteq N
  <2> HIDE DEF N
  <2>1. QED
    BY <1>6, <1>7, Induction
<1>9. QED
  BY <1>1, <1>8

(* Sums of numbers: no weight is larger than the sum, and it grows by the  *)
(* weight of an element that is added.                                     *)
LEMMA SumProperties ==
  ASSUME NEW S, IsFiniteSet(S), NEW w \in [S -> Nat]
  PROVE  /\ SumFunctionOnSet(w, {}) = 0
         /\ \A T \in SUBSET S : /\ SumFunctionOnSet(w, T) \in Nat
                                /\ \A x \in T : w[x] <= SumFunctionOnSet(w, T)
         /\ \A T \in SUBSET S : \A x \in S \ T :
              SumFunctionOnSet(w, T \cup {x}) = w[x] + SumFunctionOnSet(w, T)
<1>1. PICK f : Summed(w, S, f)
  BY SummedExists
<1>2. \A T \in SUBSET S : SumFunctionOnSet(w, T) = f[T]
  <2> SUFFICES ASSUME NEW T \in SUBSET S
               PROVE  SumFunctionOnSet(w, T) = f[T]
    OBVIOUS
  <2>1. IsFiniteSet(T)
    BY FS_Subset
  <2>2. PICK g : Summed(w, T, g) /\ SumFunctionOnSet(w, T) = g[T]
    BY <2>1, SumIsSummed
  <2>3. QED
    BY <1>1, <2>2, SummedUnique
<1>3. \A s \in SUBSET S : f[s] \in Nat /\ \A x \in s : f[s] = w[x] + f[s \ {x}]
  BY <1>1, SummedAdd
<1>4. f[{}] = 0
  BY <1>1, Zenon DEF Summed
<1>5. ASSUME NEW T \in SUBSET S, NEW x \in T
      PROVE  w[x] <= SumFunctionOnSet(w, T)
  <2>1. f[T] = w[x] + f[T \ {x}] /\ f[T \ {x}] \in Nat /\ w[x] \in Nat
    BY <1>3
  <2>2. w[x] <= f[T]
    BY <2>1
  <2>3. QED
    BY <1>2, <2>2
<1>6. ASSUME NEW T \in SUBSET S, NEW x \in S \ T
      PROVE  SumFunctionOnSet(w, T \cup {x}) = w[x] + SumFunctionOnSet(w, T)
  <2>1. (T \cup {x}) \ {x} = T /\ T \cup {x} \in SUBSET S
    OBVIOUS
  <2>2. f[T \cup {x}] = w[x] + f[T]
    BY <1>3, <2>1
  <2>3. QED
    BY <1>2, <2>1, <2>2
<1>7. QED
  BY <1>2, <1>3, <1>4, <1>5, <1>6

-----------------------------------------------------------------------------
(* The loops of build, over the indices of a list: what they start from    *)
(* and what one round makes of the value of the round before.              *)

MergeRound(prev, c) ==
  IF c.mac \in DOMAIN prev THEN Put(prev, c.mac, MergeClient(prev[c.mac], c)) ELSE prev

LeaseRound(prev, l) ==
  IF l.mac \notin DOMAIN prev \/ l.expires >= prev[l.mac].expires
  THEN Put(prev, l.mac, l) ELSE prev

Loop(name, a, b) == [name |-> name, a |-> a, b |-> b]

Start(loop) ==
  CASE loop.name = "clients" -> ByMac(loop.a)
    [] loop.name = "leases"  -> <<>>
    [] loop.name = "radios"  -> FromStatus(loop.a)

Round(loop, k, prev) ==
  CASE loop.name = "clients" -> MergeRound(prev, loop.b[k])
    [] loop.name = "leases"  -> LeaseRound(prev, loop.a[k])
    [] loop.name = "radios"  -> Overridden(prev, loop.a[k].iface, loop.b[k])

Looped(loop, f, n) ==
  f = [k \in 0..n |-> IF k = 0 THEN Start(loop) ELSE Round(loop, k, f[k - 1])]

(* A loop has a value after each round.                                    *)
LEMMA LoopExists ==
  ASSUME NEW loop, NEW n \in Nat
  PROVE  \E f : Looped(loop, f, n)
<1> DEFINE S == {m \in Nat : \E f : Looped(loop, f, m)}
<1>1. 0 \in S
  <2> DEFINE f == [k \in 0..0 |-> Start(loop)]
  <2>1. f = [k \in 0..0 |-> IF k = 0 THEN Start(loop) ELSE Round(loop, k, f[k - 1])]
    OBVIOUS
  <2> HIDE DEF f
  <2>2. Looped(loop, f, 0)
    BY <2>1 DEF Looped
  <2>3. QED
    BY <2>2
<1>2. ASSUME NEW m \in Nat, m \in S
      PROVE  m + 1 \in S
  <2>1. PICK g : Looped(loop, g, m)
    BY <1>2
  <2> DEFINE v == Round(loop, m + 1, g[m])
             f == [k \in 0..(m + 1) |-> IF k = m + 1 THEN v ELSE g[k]]
             val(h, k) == IF k = 0 THEN Start(loop) ELSE Round(loop, k, h[k - 1])
  <2>2. ASSUME NEW k \in 0..(m + 1)
        PROVE  f[k] = val(f, k)
    <3>1. CASE k = m + 1
      <4>1. k - 1 = m /\ k # 0 /\ m \in 0..(m + 1) /\ m # m + 1
        BY <3>1
      <4>2. f[k] = v /\ f[m] = g[m]
        BY <3>1, <4>1
      <4> HIDE DEF f
      <4>3. QED
        BY <3>1, <4>1, <4>2
    <3>2. CASE k # m + 1
      <4>1. k \in 0..m
        BY <2>2, <3>2
      <4>2. g[k] = val(g, k)
        BY <2>1, <4>1 DEF Looped
      <4>3. k # 0 => k - 1 \in 0..(m + 1) /\ k - 1 # m + 1
        BY <4>1
      <4>4. f[k] = g[k] /\ (k # 0 => f[k - 1] = g[k - 1])
        BY <2>2, <3>2, <4>3
      <4> HIDE DEF f
      <4>5. QED
        BY <4>2, <4>4
    <3>3. QED
      BY <3>1, <3>2
  <2>3. f = [k \in 0..(m + 1) |-> val(f, k)]
    <3>1. f = [k \in 0..(m + 1) |-> f[k]]
      OBVIOUS
    <3> HIDE DEF f, val
    <3>2. QED
      BY <2>2, <3>1
  <2> HIDE DEF f
  <2>4. Looped(loop, f, m + 1)
    BY <2>3 DEF Looped
  <2>5. QED
    BY <2>4
<1>3. Nat \subseteq S
  <2> HIDE DEF S
  <2>1. QED
    BY <1>1, <1>2, Induction
<1>4. QED
  BY <1>3

(* The value before the loop, and after one round more.                    *)
LEMMA LoopValues ==
  ASSUME NEW loop, NEW n \in Nat, NEW f, Looped(loop, f, n)
  PROVE  /\ f[0] = Start(loop)
         /\ \A k \in Nat : k + 1 <= n => f[k + 1] = Round(loop, k + 1, f[k])
<1>1. \A k \in 0..n : f[k] = IF k = 0 THEN Start(loop) ELSE Round(loop, k, f[k - 1])
  BY Zenon DEF Looped
<1>2. f[0] = Start(loop)
  <2>1. 0 \in 0..n
    OBVIOUS
  <2>2. QED
    BY <1>1, <2>1
<1>3. ASSUME NEW k \in Nat, k + 1 <= n
      PROVE  f[k + 1] = Round(loop, k + 1, f[k])
  <2>1. k + 1 \in 0..n /\ k + 1 # 0 /\ (k + 1) - 1 = k
    BY <1>3
  <2>2. f[k + 1] = Round(loop, k + 1, f[(k + 1) - 1])
    BY <1>1, <2>1
  <2>3. QED
    BY <2>1, <2>2
<1>4. QED
  BY <1>2, <1>3

(* The loop of merge_associated_wireless_client_states.                    *)
LEMMA MergeLoop ==
  ASSUME NEW A, NEW M, Len(M) \in Nat
  PROVE  \E f : /\ f[0] = ByMac(A) /\ MergeAssociated(A, M) = f[Len(M)]
                /\ \A k \in Nat : k + 1 <= Len(M) => f[k + 1] = MergeRound(f[k], M[k + 1])
<1> DEFINE loop == Loop("clients", A, M)
           val(g, k) == IF k = 0 THEN ByMac(A) ELSE MergeRound(g[k - 1], M[k])
           f == CHOOSE g : g = [k \in 0..Len(M) |-> val(g, k)]
<1>1. Start(loop) = ByMac(A) /\ \A k, prev : Round(loop, k, prev) = MergeRound(prev, M[k])
  BY DEF Start, Round, Loop
<1>2. PICK h : Looped(loop, h, Len(M))
  BY LoopExists
<1> HIDE DEF loop
<1>3. h = [k \in 0..Len(M) |-> val(h, k)]
  BY <1>1, <1>2 DEF Looped
<1>4. f = [k \in 0..Len(M) |-> val(f, k)]
  BY <1>3, Zenon
<1>5. MergeAssociated(A, M) = f[Len(M)]
  BY DEF MergeAssociated, MergeRound
<1> HIDE DEF f
<1>6. Looped(loop, f, Len(M))
  BY <1>1, <1>4 DEF Looped
<1>7. QED
  BY <1>1, <1>5, <1>6, LoopValues

(* The loop of clients_from_dhcp_leases.                                   *)
LEMMA LeaseLoop ==
  ASSUME NEW L, Len(L) \in Nat
  PROVE  \E f : /\ f[0] = <<>> /\ NewestLeases(L) = f[Len(L)]
                /\ \A k \in Nat : k + 1 <= Len(L) => f[k + 1] = LeaseRound(f[k], L[k + 1])
<1> DEFINE loop == Loop("leases", L, <<>>)
           val(g, k) == IF k = 0 THEN <<>> ELSE LeaseRound(g[k - 1], L[k])
           f == CHOOSE g : g = [k \in 0..Len(L) |-> val(g, k)]
<1>1. Start(loop) = <<>> /\ \A k, prev : Round(loop, k, prev) = LeaseRound(prev, L[k])
  BY DEF Start, Round, Loop
<1>2. PICK h : Looped(loop, h, Len(L))
  BY LoopExists
<1> HIDE DEF loop
<1>3. h = [k \in 0..Len(L) |-> val(h, k)]
  BY <1>1, <1>2 DEF Looped
<1>4. f = [k \in 0..Len(L) |-> val(f, k)]
  BY <1>3, Zenon
<1>5. NewestLeases(L) = f[Len(L)]
  BY DEF NewestLeases, LeaseRound
<1> HIDE DEF f
<1>6. Looped(loop, f, Len(L))
  BY <1>1, <1>4 DEF Looped
<1>7. QED
  BY <1>1, <1>5, <1>6, LoopValues

(* The loop over the interfaces that hostapd answered for.                 *)
LEMMA RadioLoop ==
  ASSUME NEW list, Len(list) \in Nat, NEW answers, Len(answers) \in Nat,
         Len(answers) <= Len(list)
  PROVE  \E f : /\ f[0] = FromStatus(list)
                /\ WirelessMembers(list, answers) = f[Len(answers)]
                /\ \A k \in Nat : k + 1 <= Len(answers) =>
                     f[k + 1] = Overridden(f[k], list[k + 1].iface, answers[k + 1])
<1> DEFINE n == Min({Len(list), Len(answers)})
           loop == Loop("radios", list, answers)
           val(g, k) == IF k = 0 THEN FromStatus(list)
                        ELSE Overridden(g[k - 1], list[k].iface, answers[k])
           f == CHOOSE g : g = [k \in 0..n |-> val(g, k)]
<1>1. /\ Start(loop) = FromStatus(list)
      /\ \A k, prev : Round(loop, k, prev) = Overridden(prev, list[k].iface, answers[k])
  BY DEF Start, Round, Loop
<1>2. n = Len(answers)
  <2>1. /\ Len(answers) \in {Len(list), Len(answers)}
        /\ \A y \in {Len(list), Len(answers)} : Len(answers) <= y
    OBVIOUS
  <2>2. n \in {Len(list), Len(answers)} /\ \A y \in {Len(list), Len(answers)} : n <= y
    BY <2>1 DEF Min
  <2> HIDE DEF n
  <2>3. QED
    BY <2>2
<1>3. PICK h : Looped(loop, h, n)
  BY <1>2, LoopExists
<1> HIDE DEF loop, n
<1>4. h = [k \in 0..n |-> val(h, k)]
  BY <1>1, <1>3 DEF Looped
<1>5. f = [k \in 0..n |-> val(f, k)]
  BY <1>4, Zenon
<1>6. WirelessMembers(list, answers) = f[n]
  BY DEF WirelessMembers, n
<1> HIDE DEF f
<1>7. Looped(loop, f, n)
  BY <1>1, <1>5 DEF Looped
<1>8. QED
  BY <1>1, <1>2, <1>6, <1>7, LoopValues

-----------------------------------------------------------------------------
(* The clients of a snapshot.                                              *)

MacsOf(list) == {c.mac : c \in Range(list)}

(* A station has the client of one of its entries.                         *)
LEMMA ByMacEntries ==
  ASSUME NEW X, NEW list \in Seq(X)
  PROVE  /\ DOMAIN ByMac(list) = MacsOf(list)
         /\ \A m \in MacsOf(list) : ByMac(list)[m] \in Range(list) /\ ByMac(list)[m].mac = m
<1>1. DOMAIN ByMac(list) = MacsOf(list)
  BY DEF ByMac, MacsOf
<1>2. ASSUME NEW m \in MacsOf(list)
      PROVE  ByMac(list)[m] \in Range(list) /\ ByMac(list)[m].mac = m
  <2> DEFINE I == {k \in 1..Len(list) : list[k].mac = m}
  <2>1. Len(list) \in Nat /\ DOMAIN list = 1..Len(list)
    BY LenProperties
  <2>2. Range(list) = {list[k] : k \in 1..Len(list)}
    BY RangeEquality
  <2>3. I \in SUBSET (1..Len(list)) /\ I # {}
    BY <1>2, <2>2 DEF MacsOf
  <2>4. Max(I) \in I
    <3> HIDE DEF I
    <3>1. QED
      BY <2>1, <2>3, LastIndex
  <2>5. ByMac(list)[m] = list[Max(I)]
    BY <1>2, <2>1 DEF ByMac, MacsOf
  <2>6. PICK k : k = Max(I)
    OBVIOUS
  <2>7. k \in 1..Len(list) /\ list[k].mac = m
    BY <2>4, <2>6
  <2>8. QED
    BY <2>2, <2>5, <2>6, <2>7
<1>3. QED
  BY <1>1, <1>2

(* Metadata adds no station.                                               *)
LEMMA MergedStations ==
  ASSUME NEW X, NEW A \in Seq(X), NEW Y, NEW M \in Seq(Y)
  PROVE  DOMAIN MergeAssociated(A, M) = MacsOf(A)
<1>1. Len(M) \in Nat
  BY LenProperties
<1>2. PICK f : /\ f[0] = ByMac(A) /\ MergeAssociated(A, M) = f[Len(M)]
               /\ \A k \in Nat : k + 1 <= Len(M) => f[k + 1] = MergeRound(f[k], M[k + 1])
  BY <1>1, MergeLoop
<1> DEFINE S == {k \in Nat : k <= Len(M) => DOMAIN f[k] = MacsOf(A)}
<1>3. 0 \in S
  BY <1>2, ByMacEntries
<1>4. ASSUME NEW k \in Nat, k \in S
      PROVE  k + 1 \in S
  <2> SUFFICES ASSUME k + 1 <= Len(M)
               PROVE  DOMAIN f[k + 1] = MacsOf(A)
    OBVIOUS
  <2>1. DOMAIN f[k] = MacsOf(A)
    BY <1>1, <1>4
  <2>2. f[k + 1] = MergeRound(f[k], M[k + 1])
    BY <1>2
  <2>3. QED
    BY <2>1, <2>2 DEF MergeRound, Put
<1>5. Nat \subseteq S
  <2> HIDE DEF S
  <2>1. QED
    BY <1>3, <1>4, Induction
<1>6. QED
  BY <1>1, <1>2, <1>5

(* The entries of a list of clients that set a field for a station.        *)
Setters(M, m, fld, n) == {k \in 1..n : M[k].mac = m /\ M[k][fld] # Unset[fld]}

FieldSource(A, M, m, fld) ==
  LET I == Setters(M, m, fld, Len(M))
  IN  IF I = {} THEN ByMac(A)[m][fld] ELSE M[Max(I)][fld]

(* A station's field is the one that the last of the metadata that sets it *)
(* gives it, else that of its association.                                 *)
LEMMA MergedFields ==
  ASSUME NEW X, NEW A \in Seq(X), NEW Y, NEW M \in Seq(Y), NEW m \in MacsOf(A),
         NEW fld, fld # "mac", fld \in DOMAIN ByMac(A)[m]
  PROVE  MergeAssociated(A, M)[m][fld] = FieldSource(A, M, m, fld)
<1> DEFINE base == ByMac(A)[m]
           I(n) == Setters(M, m, fld, n)
           val(n) == IF I(n) = {} THEN base[fld] ELSE M[Max(I(n))][fld]
<1>1. Len(M) \in Nat
  BY LenProperties
<1>2. PICK f : /\ f[0] = ByMac(A) /\ MergeAssociated(A, M) = f[Len(M)]
               /\ \A k \in Nat : k + 1 <= Len(M) => f[k + 1] = MergeRound(f[k], M[k + 1])
  BY <1>1, MergeLoop
<1> DEFINE Good(k) == /\ DOMAIN f[k] = MacsOf(A) /\ fld \in DOMAIN f[k][m]
                      /\ f[k][m][fld] = val(k)
           S == {k \in Nat : k <= Len(M) => Good(k)}
<1> HIDE DEF Good
<1>3. 0 \in S
  <2>1. I(0) = {}
    BY DEF Setters
  <2>2. DOMAIN f[0] = MacsOf(A)
    BY <1>2, ByMacEntries
  <2>3. QED
    BY <1>2, <2>1, <2>2 DEF Good
<1>4. ASSUME NEW k \in Nat, k \in S
      PROVE  k + 1 \in S
  <2> SUFFICES ASSUME k + 1 <= Len(M)
               PROVE  Good(k + 1)
    OBVIOUS
  <2>1. Good(k)
    BY <1>1, <1>4
  <2>2. PICK c : c = M[k + 1]
    OBVIOUS
  <2>3. f[k + 1] = MergeRound(f[k], c)
    BY <1>2, <2>2
  <2>4. DOMAIN f[k] = MacsOf(A) /\ fld \in DOMAIN f[k][m] /\ f[k][m][fld] = val(k)
    BY <2>1 DEF Good
  <2>5. DOMAIN f[k + 1] = MacsOf(A)
    BY <2>3, <2>4 DEF MergeRound, Put
  <2>6. CASE c.mac # m
    <3>1. f[k + 1][m] = f[k][m]
      BY <2>3, <2>4, <2>6 DEF MergeRound, Put
    <3>2. I(k + 1) = I(k)
      BY <2>2, <2>6 DEF Setters
    <3>3. QED
      BY <2>4, <2>5, <3>1, <3>2 DEF Good
  <2>7. CASE c.mac = m
    <3>1. f[k + 1][m] = MergeClient(f[k][m], c)
      BY <2>3, <2>4, <2>7 DEF MergeRound, Put
    <3>2. /\ DOMAIN f[k + 1][m] = DOMAIN f[k][m]
          /\ f[k + 1][m][fld] = IF c[fld] = Unset[fld] THEN f[k][m][fld] ELSE c[fld]
      BY <2>4, <3>1 DEF MergeClient
    <3>3. CASE c[fld] = Unset[fld]
      <4>1. I(k + 1) = I(k)
        BY <2>2, <3>3 DEF Setters
      <4>2. QED
        BY <2>4, <2>5, <3>2, <3>3, <4>1 DEF Good
    <3>4. CASE c[fld] # Unset[fld]
      <4>1. k + 1 \in I(k + 1) /\ \A j \in I(k + 1) : j <= k + 1
        BY <2>2, <2>7, <3>4 DEF Setters
      <4>2. I(k + 1) \in SUBSET (1..(k + 1)) /\ k + 1 \in Nat
        BY DEF Setters
      <4>3. Max(I(k + 1)) = k + 1
        <5> HIDE DEF I
        <5>1. QED
          BY <4>1, <4>2, LastIndex
      <4>4. val(k + 1) = c[fld]
        BY <2>2, <4>1, <4>3
      <4>5. QED
        BY <2>4, <2>5, <3>2, <3>4, <4>4 DEF Good
    <3>5. QED
      BY <3>3, <3>4
  <2>8. QED
    BY <2>6, <2>7
<1>5. Nat \subseteq S
  <2> HIDE DEF S
  <2>1. QED
    BY <1>3, <1>4, Induction
<1>6. Good(Len(M))
  BY <1>1, <1>5
<1>7. QED
  BY <1>2, <1>6 DEF Good, FieldSource

-----------------------------------------------------------------------------
(* The leases: the newest one of a station is its last to expire, and the  *)
(* later line of two that expire together.                                 *)

Newest(L, m, k, n) ==
  /\ k \in 1..n /\ L[k].mac = m
  /\ \A j \in 1..n : L[j].mac = m => \/ L[j].expires < L[k].expires
                                     \/ L[j].expires = L[k].expires /\ j <= k

(* The stations that hold one of the first n leases.                       *)
Holders(L, n) == {L[j].mac : j \in 1..n}

(* There is only one.                                                      *)
LEMMA NewestUnique ==
  ASSUME NEW L, NEW n \in Nat, \A j \in 1..n : L[j].expires \in Int, NEW m,
         NEW k, Newest(L, m, k, n), NEW i, Newest(L, m, i, n)
  PROVE  i = k
<1>1. k \in 1..n /\ i \in 1..n /\ L[k].mac = m /\ L[i].mac = m
  BY DEF Newest
<1>2. /\ L[k].expires < L[i].expires \/ (L[k].expires = L[i].expires /\ k <= i)
      /\ L[i].expires < L[k].expires \/ (L[i].expires = L[k].expires /\ i <= k)
  BY <1>1 DEF Newest
<1>3. L[k].expires \in Int /\ L[i].expires \in Int
  BY <1>1
<1>4. QED
  BY <1>1, <1>2, <1>3

(* clients_from_dhcp_leases keeps the newest lease of each station.        *)
LEMMA NewestKept ==
  ASSUME NEW X, NEW L \in Seq(X), \A j \in 1..Len(L) : L[j].expires \in Int
  PROVE  /\ DOMAIN NewestLeases(L) = Holders(L, Len(L))
         /\ \A m \in DOMAIN NewestLeases(L) :
              \E k : Newest(L, m, k, Len(L)) /\ NewestLeases(L)[m] = L[k]
<1>1. Len(L) \in Nat
  BY LenProperties
<1>2. PICK f : /\ f[0] = <<>> /\ NewestLeases(L) = f[Len(L)]
               /\ \A k \in Nat : k + 1 <= Len(L) => f[k + 1] = LeaseRound(f[k], L[k + 1])
  BY <1>1, LeaseLoop
<1> DEFINE Of(n) == {L[j].mac : j \in 1..n}
           Good(n) == /\ DOMAIN f[n] = Of(n)
                      /\ \A m \in Of(n) : \E k : Newest(L, m, k, n) /\ f[n][m] = L[k]
           S == {n \in Nat : n <= Len(L) => Good(n)}
<1> HIDE DEF Good
<1>3. 0 \in S
  <2>1. DOMAIN f[0] = {} /\ Of(0) = {}
    BY <1>2
  <2>2. QED
    BY <2>1 DEF Good
<1>4. ASSUME NEW n \in Nat, n \in S
      PROVE  n + 1 \in S
  <2> SUFFICES ASSUME n + 1 <= Len(L)
               PROVE  Good(n + 1)
    OBVIOUS
  <2>1. Good(n)
    BY <1>1, <1>4
  <2>2. PICK l : l = L[n + 1]
    OBVIOUS
  <2>3. f[n + 1] = LeaseRound(f[n], l)
    BY <1>2, <2>2
  <2>4. /\ DOMAIN f[n] = Of(n)
        /\ \A m \in Of(n) : \E k : Newest(L, m, k, n) /\ f[n][m] = L[k]
    BY <2>1 DEF Good
  <2>5. \A j \in 1..(n + 1) : (j \in 1..n \/ j = n + 1) /\ L[j].expires \in Int
    BY <1>1
  <2>6. \A j \in 1..n : j \in 1..(n + 1) /\ j <= n + 1
    OBVIOUS
  <2>7. Of(n + 1) = Of(n) \cup {l.mac}
    <3>1. n + 1 \in 1..(n + 1)
      OBVIOUS
    <3>2. QED
      BY <2>2, <2>5, <2>6, <3>1
  <2>8. DOMAIN f[n + 1] = Of(n + 1)
    <3> HIDE DEF Of
    <3>1. CASE l.mac \in Of(n)
      BY <2>3, <2>4, <2>7, <3>1 DEF LeaseRound, Put
    <3>2. CASE l.mac \notin Of(n)
      BY <2>3, <2>4, <2>7, <3>2 DEF LeaseRound, Put
    <3>3. QED
      BY <3>1, <3>2
  <2>9. ASSUME NEW m \in Of(n), m # l.mac
        PROVE  \E k : Newest(L, m, k, n + 1) /\ f[n + 1][m] = L[k]
    <3>1. PICK k : Newest(L, m, k, n) /\ f[n][m] = L[k]
      BY <2>4
    <3>2. f[n + 1][m] = f[n][m]
      <4> HIDE DEF Of
      <4>1. QED
        BY <2>3, <2>4, <2>9 DEF LeaseRound, Put
    <3>3. Newest(L, m, k, n + 1)
      BY <2>2, <2>5, <2>6, <2>9, <3>1 DEF Newest
    <3>4. QED
      BY <3>1, <3>2, <3>3
  <2>10. \E k : Newest(L, l.mac, k, n + 1) /\ f[n + 1][l.mac] = L[k]
    <3>1. CASE l.mac \in Of(n)
      <4>1. PICK k : Newest(L, l.mac, k, n) /\ f[n][l.mac] = L[k]
        BY <2>4, <3>1
      <4>2. k \in 1..n /\ L[k].expires \in Int /\ l.expires \in Int
        BY <2>2, <2>5, <2>6, <4>1 DEF Newest
      <4>3. CASE l.expires >= L[k].expires
        <5>1. f[n + 1][l.mac] = l
          <6> HIDE DEF Of
          <6>1. f[n + 1] = Put(f[n], l.mac, l)
            BY <2>3, <4>1, <4>3 DEF LeaseRound
          <6>2. QED
            BY <6>1 DEF Put
        <5>2. \A j \in 1..n : L[j].mac = l.mac => L[j].expires <= L[k].expires
          BY <2>5, <2>6, <4>1, <4>2 DEF Newest
        <5>3. \A j \in 1..n : L[j].mac = l.mac => L[j].expires <= l.expires
          BY <2>5, <2>6, <4>2, <4>3, <5>2
        <5>4. Newest(L, l.mac, n + 1, n + 1)
          BY <2>2, <2>5, <2>6, <4>2, <5>3 DEF Newest
        <5>5. QED
          BY <2>2, <5>1, <5>4
      <4>4. CASE ~(l.expires >= L[k].expires)
        <5>1. f[n + 1] = f[n]
          BY <2>3, <2>4, <3>1, <4>1, <4>4 DEF LeaseRound
        <5>2. Newest(L, l.mac, k, n + 1)
          BY <2>2, <2>5, <2>6, <4>1, <4>2, <4>4 DEF Newest
        <5>3. QED
          BY <4>1, <5>1, <5>2
      <4>5. QED
        BY <4>3, <4>4
    <3>2. CASE l.mac \notin Of(n)
      <4>1. f[n + 1][l.mac] = l
        <5> HIDE DEF Of
        <5>1. f[n + 1] = Put(f[n], l.mac, l)
          BY <2>3, <2>4, <3>2 DEF LeaseRound
        <5>2. QED
          BY <5>1 DEF Put
      <4>2. \A j \in 1..n : L[j].mac # l.mac
        BY <3>2
      <4>3. Newest(L, l.mac, n + 1, n + 1)
        BY <2>2, <2>5, <4>2 DEF Newest
      <4>4. QED
        BY <2>2, <4>1, <4>3
    <3>3. QED
      BY <3>1, <3>2
  <2>11. QED
    BY <2>7, <2>8, <2>9, <2>10 DEF Good
<1>5. Nat \subseteq S
  <2> HIDE DEF S
  <2>1. QED
    BY <1>3, <1>4, Induction
<1>6. Good(Len(L))
  BY <1>1, <1>5
<1>7. QED
  BY <1>2, <1>6 DEF Good, Holders

(* Clients made of the newest leases.                                      *)
MadeOfLeases(C, L) ==
  /\ C \in Seq(Range(C))
  /\ \A c \in Range(C) : /\ c.iface = None /\ c.portal = None
                         /\ \E k : Newest(L, c.mac, k, Len(L)) /\ c.ip = L[k].ip
  /\ \A j \in 1..Len(L) : \E c \in Range(C) : c.mac = L[j].mac

(* The leases of a file, and the clients made of them.                     *)
LEMMA LeaseFacts ==
  ASSUME NEW file \in LeaseFiles, NEW L, L = ParsedLeases(file),
         NEW C, C = LeaseClients(file)
  PROVE  /\ Len(L) \in Nat /\ DOMAIN L = 1..Len(L)
         /\ \A j \in 1..Len(L) : L[j].expires \in Int
         /\ MadeOfLeases(C, L)
<1>1. /\ file \in Seq(Range(file))
      /\ \A l \in Range(file) \ {Comment, BadLine} : l.expires \in Int
  BY ProviderAssumption
<1>2. L \in Seq(Range(file)) /\ \A j \in 1..Len(L) : L[j].expires \in Int
  <2>1. CASE BadLine \in Range(file)
    <3>1. L = <<>>
      BY <2>1 DEF ParsedLeases
    <3>2. QED
      BY <3>1
  <2>2. CASE BadLine \notin Range(file)
    <3> DEFINE kept == {k \in DOMAIN file : file[k] # Comment}
    <3>1. L = Keep(file, kept)
      BY <2>2 DEF ParsedLeases
    <3>2. /\ DOMAIN file = 1..Len(file) /\ kept \in SUBSET (1..Len(file))
          /\ \A k \in 1..Len(file) : file[k] \in Range(file)
      BY <1>1, LenProperties DEF Range
    <3>3. \A k \in kept : file[k] \in Range(file) \ {Comment, BadLine}
      BY <2>2, <3>2
    <3> HIDE DEF kept
    <3>4. L \in Seq(Range(file)) /\ \E pos : Kept(L, file, kept, pos)
      BY <1>1, <3>1, <3>2, KeepKeeps
    <3>5. PICK pos : Kept(L, file, kept, pos)
      BY <3>4
    <3>6. \A j \in 1..Len(L) : L[j] \in Range(file) \ {Comment, BadLine}
      BY <3>3, <3>5 DEF Kept
    <3>7. QED
      BY <1>1, <3>4, <3>6
  <2>3. QED
    BY <2>1, <2>2
<1> DEFINE byMac == NewestLeases(L)
           client(m) == [mac |-> m, iface |-> None, ip |-> byMac[m].ip,
                         portal |-> None, down |-> 0]
           all == {client(m) : m \in DOMAIN byMac}
<1>3. /\ DOMAIN byMac = Holders(L, Len(L))
      /\ \A m \in DOMAIN byMac : \E k : Newest(L, m, k, Len(L)) /\ byMac[m] = L[k]
  BY <1>2, NewestKept
<1>4. C = SetToSeq(all)
  BY DEF LeaseClients
<1>5. IsFiniteSet(all)
  <2>1. Len(L) \in Nat
    BY <1>2, LenProperties
  <2>2. IsFiniteSet(1..Len(L))
    BY <2>1, FS_Interval
  <2> DEFINE g == [j \in 1..Len(L) |-> client(L[j].mac)]
  <2>3. all = {g[j] : j \in 1..Len(L)}
    BY <1>3 DEF Holders
  <2>4. g \in Surjection(1..Len(L), all)
    <3>1. g \in [1..Len(L) -> all]
      BY <1>3 DEF Holders
    <3>2. \A x \in all : \E j \in 1..Len(L) : g[j] = x
      BY <2>3
    <3> HIDE DEF g, all
    <3>3. QED
      BY <3>1, <3>2 DEF Surjection
  <2> HIDE DEF g, all
  <2>5. QED
    BY <2>2, <2>4, FS_Surjection
<1>6. C \in Seq(Range(C)) /\ Range(C) = all
  <2> HIDE DEF all
  <2>1. QED
    BY <1>4, <1>5, Listed
<1>7. \A c \in Range(C) : /\ c.iface = None /\ c.portal = None
                          /\ \E k : Newest(L, c.mac, k, Len(L)) /\ c.ip = L[k].ip
  <2> SUFFICES ASSUME NEW c \in all
               PROVE  /\ c.iface = None /\ c.portal = None
                      /\ \E k : Newest(L, c.mac, k, Len(L)) /\ c.ip = L[k].ip
    BY <1>6
  <2>1. PICK m \in DOMAIN byMac : c = client(m)
    OBVIOUS
  <2>2. PICK k : Newest(L, m, k, Len(L)) /\ byMac[m] = L[k]
    BY <1>3
  <2> HIDE DEF byMac
  <2>3. c.mac = m /\ c.iface = None /\ c.portal = None /\ c.ip = L[k].ip
    BY <2>1, <2>2
  <2>4. QED
    BY <2>2, <2>3
<1>8. ASSUME NEW j \in 1..Len(L)
      PROVE  \E c \in Range(C) : c.mac = L[j].mac
  <2>1. L[j].mac \in DOMAIN byMac
    BY <1>3 DEF Holders
  <2> HIDE DEF byMac
  <2>2. client(L[j].mac) \in all /\ client(L[j].mac).mac = L[j].mac
    BY <2>1
  <2>3. QED
    BY <1>6, <2>2
<1>9. QED
  BY <1>2, <1>6, <1>7, <1>8, LenProperties DEF MadeOfLeases

(* The clients that openNDS reports.                                       *)
LEMMA PortalFacts ==
  ASSUME NEW answer \in Sessions, NEW C, C = PortalClients(answer)
  PROVE  /\ C \in Seq(Range(C)) /\ Len(C) = Len(answer) /\ Len(C) \in Nat
         /\ DOMAIN answer = 1..Len(C)
         /\ \A k \in 1..Len(C) : /\ C[k].mac = answer[k].mac /\ C[k].iface = None
                                 /\ C[k].ip = answer[k].ip /\ C[k].portal = answer[k].portal
<1> DEFINE client(k) == [mac |-> answer[k].mac, iface |-> None, ip |-> answer[k].ip,
                         portal |-> answer[k].portal, down |-> answer[k].down]
<1>1. Len(answer) \in Nat /\ DOMAIN answer = 1..Len(answer)
  <2>1. CASE answer = <<>>
    BY <2>1
  <2>2. CASE answer # <<>>
    <3>1. answer \in Seq(Range(answer))
      BY <2>2, ProviderAssumption DEF Sessions
    <3>2. QED
      BY <3>1, LenProperties
  <2>3. QED
    BY <2>1, <2>2
<1>2. C = [k \in 1..Len(answer) |-> client(k)]
  BY <1>1 DEF PortalClients
<1>3. \A k \in 1..Len(answer) : C[k] = client(k)
  BY <1>2
<1>4. C \in Seq(Range(C)) /\ Len(C) = Len(answer)
  <2>1. C = [k \in 1..Len(answer) |-> C[k]]
    BY <1>2
  <2>2. C \in [1..Len(answer) -> Range(C)]
    BY <2>1 DEF Range
  <2>3. QED
    BY <1>1, <2>2
<1>5. \A k \in 1..Len(answer) :
        /\ client(k).mac = answer[k].mac /\ client(k).iface = None
        /\ client(k).ip = answer[k].ip /\ client(k).portal = answer[k].portal
  OBVIOUS
<1> HIDE DEF client
<1>6. QED
  BY <1>1, <1>3, <1>4, <1>5

(* Metadata of n clients of leases and then those of openNDS.              *)
MadeOf(M, C, n, answer) ==
  /\ M \in Seq(Range(M)) /\ n \in Nat /\ Len(M) = n + Len(answer)
  /\ Len(answer) \in Nat /\ DOMAIN answer = 1..Len(answer)
  /\ \A k \in 1..n : M[k] = C[k] /\ M[k] \in Range(C)
  /\ Range(C) = {M[k] : k \in 1..n}
  /\ \A k \in 1..Len(answer) :
       /\ M[n + k].mac = answer[k].mac /\ M[n + k].iface = None
       /\ M[n + k].ip = answer[k].ip /\ M[n + k].portal = answer[k].portal

(* The metadata of a snapshot is that.                                     *)
LEMMA MetadataFacts ==
  ASSUME NEW file \in LeaseFiles, NEW answer \in Sessions,
         NEW M, M = LeaseClients(file) \o PortalClients(answer),
         NEW C, C = LeaseClients(file), NEW n, n = Len(C)
  PROVE  MadeOf(M, C, n, answer)
<1>1. PICK A : A = LeaseClients(file)
  OBVIOUS
<1>2. PICK B : B = PortalClients(answer)
  OBVIOUS
<1>3. A \in Seq(Range(A))
  BY <1>1, LeaseFacts DEF MadeOfLeases
<1>4. /\ B \in Seq(Range(B)) /\ Len(B) = Len(answer) /\ Len(B) \in Nat
      /\ DOMAIN answer = 1..Len(B)
      /\ \A k \in 1..Len(B) : /\ B[k].mac = answer[k].mac /\ B[k].iface = None
                              /\ B[k].ip = answer[k].ip /\ B[k].portal = answer[k].portal
  BY <1>2, PortalFacts
<1> DEFINE X == Range(A) \cup Range(B)
<1>5. A \in Seq(X) /\ B \in Seq(X)
  BY <1>3, <1>4
<1>6. Len(A) \in Nat
  BY <1>3, LenProperties
<1>7. /\ M \in Seq(X) /\ Len(M) = Len(A) + Len(B)
      /\ \A i \in 1..(Len(A) + Len(B)) : M[i] = IF i <= Len(A) THEN A[i] ELSE B[i - Len(A)]
  <2> HIDE DEF X
  <2>1. M = A \o B
    BY <1>1, <1>2
  <2>2. QED
    BY <1>5, <2>1, ConcatProperties
<1>8. Range(A) = {A[k] : k \in 1..Len(A)}
  BY <1>3, RangeEquality
<1>9. ASSUME NEW k \in 1..Len(A)
      PROVE  M[k] = A[k]
  <2>1. Len(B) \in Nat
    BY <1>4
  <2>2. k \in 1..(Len(A) + Len(B)) /\ k <= Len(A)
    BY <1>6, <2>1
  <2>3. QED
    BY <1>7, <2>2
<1>10. ASSUME NEW k \in 1..Len(B)
       PROVE  M[Len(A) + k] = B[k]
  <2>1. /\ Len(A) + k \in 1..(Len(A) + Len(B)) /\ ~(Len(A) + k <= Len(A))
        /\ (Len(A) + k) - Len(A) = k
    BY <1>4, <1>6
  <2>2. QED
    BY <1>7, <2>1
<1>11. M \in Seq(Range(M))
  BY <1>7, SeqOfRange
<1>12. Range(A) = {M[k] : k \in 1..Len(A)}
  BY <1>8, <1>9
<1>13. A = C /\ Len(A) = n
  BY <1>1
<1>14. \A k \in 1..n : M[k] = C[k] /\ M[k] \in Range(C)
  BY <1>8, <1>9, <1>13
<1>15. \A k \in 1..Len(answer) :
         /\ M[n + k].mac = answer[k].mac /\ M[n + k].iface = None
         /\ M[n + k].ip = answer[k].ip /\ M[n + k].portal = answer[k].portal
  <2> SUFFICES ASSUME NEW k \in 1..Len(answer)
               PROVE  /\ M[n + k].mac = answer[k].mac /\ M[n + k].iface = None
                      /\ M[n + k].ip = answer[k].ip /\ M[n + k].portal = answer[k].portal
    OBVIOUS
  <2>1. k \in 1..Len(B)
    BY <1>4
  <2>2. M[n + k] = B[k]
    BY <1>10, <1>13, <2>1
  <2>3. QED
    BY <1>4, <2>1, <2>2
<1>16. QED
  BY <1>4, <1>6, <1>7, <1>11, <1>12, <1>13, <1>14, <1>15 DEF MadeOf


-----------------------------------------------------------------------------
(* Where a station's fields come from.                                     *)

(* The association gives a station its interface and nothing else.         *)
LEMMA AssociationEntry ==
  ASSUME NEW E, NEW A \in Seq(ClientsOf(E)), NEW m \in MacsOf(A)
  PROVE  LET base == ByMac(A)[m]
         IN  /\ base["ip"] = None /\ base["portal"] = None
             /\ {"ip", "portal", "iface"} \subseteq DOMAIN base
             /\ \E e \in E : e[1] = m /\ e[2] = base["iface"]
<1>1. PICK base : base = ByMac(A)[m]
  OBVIOUS
<1>2. base \in Range(A) /\ base.mac = m
  BY <1>1, ByMacEntries
<1>3. Range(A) = {A[k] : k \in 1..Len(A)} /\ \A k \in 1..Len(A) : A[k] \in ClientsOf(E)
  BY RangeEquality
<1>4. base \in ClientsOf(E)
  BY <1>2, <1>3
<1>5. PICK e \in E : base = HostapdClient(e[1], e[2])
  BY <1>4 DEF ClientsOf
<1>6. /\ base["ip"] = None /\ base["portal"] = None /\ base["iface"] = e[2]
      /\ base.mac = e[1] /\ {"ip", "portal", "iface"} \subseteq DOMAIN base
  BY <1>5 DEF HostapdClient
<1>7. e[1] = m
  BY <1>2, <1>6
<1>8. QED
  BY <1>1, <1>6, <1>7

(* The entries of openNDS that give a station an address, a portal state.  *)
Addresses(answer, m) == {k \in DOMAIN answer : answer[k].mac = m /\ answer[k].ip # None}
States(answer, m) == {k \in DOMAIN answer : answer[k].mac = m /\ answer[k].portal # None}

AddressFrom(ip, answer, L, m) ==
  /\ Addresses(answer, m) # {} => ip = answer[Max(Addresses(answer, m))].ip
  /\ Addresses(answer, m) = {} => /\ \A j : Newest(L, m, j, Len(L)) => ip = L[j].ip
                                  /\ (\A k \in 1..Len(L) : L[k].mac # m) => ip = None
  /\ \A k \in 1..Len(L) : L[k].mac = m => \E j : Newest(L, m, j, Len(L))

StateFrom(st, answer, m) ==
  st = IF States(answer, m) # {} THEN answer[Max(States(answer, m))].portal ELSE None

(* Its address is the last one that openNDS gives, else that of its newest *)
(* lease, else none.                                                       *)
LEMMA AddressSource ==
  ASSUME NEW E, NEW A \in Seq(ClientsOf(E)), NEW file \in LeaseFiles,
         NEW answer \in Sessions, NEW m \in MacsOf(A),
         NEW M, M = LeaseClients(file) \o PortalClients(answer),
         NEW L, L = ParsedLeases(file),
         NEW ip, ip = MergeAssociated(A, M)[m]["ip"]
  PROVE  AddressFrom(ip, answer, L, m)
<1>1. PICK C : C = LeaseClients(file)
  OBVIOUS
<1>2. /\ Len(L) \in Nat /\ \A j \in 1..Len(L) : L[j].expires \in Int
      /\ C \in Seq(Range(C))
      /\ \A c \in Range(C) :
              /\ c.iface = None /\ c.portal = None
              /\ \E k : Newest(L, c.mac, k, Len(L)) /\ c.ip = L[k].ip
      /\ \A j \in 1..Len(L) : \E c \in Range(C) : c.mac = L[j].mac
  <2>1. Len(L) \in Nat /\ (\A j \in 1..Len(L) : L[j].expires \in Int) /\ MadeOfLeases(C, L)
    BY <1>1, LeaseFacts
  <2>2. QED
    BY <2>1 DEF MadeOfLeases
<1>3. PICK n : n = Len(C)
  OBVIOUS
<1>4. /\ M \in Seq(Range(M)) /\ n \in Nat /\ Len(M) = n + Len(answer)
      /\ Len(answer) \in Nat /\ DOMAIN answer = 1..Len(answer)
      /\ \A k \in 1..n : M[k] = C[k] /\ M[k] \in Range(C)
      /\ Range(C) = {M[k] : k \in 1..n}
      /\ \A k \in 1..Len(answer) :
                  /\ M[n + k].mac = answer[k].mac /\ M[n + k].iface = None
                  /\ M[n + k].ip = answer[k].ip /\ M[n + k].portal = answer[k].portal
  <2>1. MadeOf(M, C, n, answer)
    BY <1>1, <1>3, MetadataFacts
  <2>2. QED
    BY <2>1 DEF MadeOf
<1>5. PICK I : I = Setters(M, m, "ip", Len(M))
  OBVIOUS
<1>6. ip = IF I = {} THEN None ELSE M[Max(I)].ip
  <2>1. ByMac(A)[m]["ip"] = None /\ "ip" \in DOMAIN ByMac(A)[m]
    BY AssociationEntry
  <2>2. MergeAssociated(A, M)[m]["ip"] =
          FieldSource(A, M, m, "ip")
    <3>1. "ip" # "mac"
      OBVIOUS
    <3>2. M \in Seq(Range(M))
      BY <1>4
    <3>3. QED
      BY <2>1, <3>1, <3>2, MergedFields
  <2>3. QED
    BY <1>5, <2>1, <2>2 DEF FieldSource
<1>7. I = {k \in 1..(n + Len(answer)) : M[k].mac = m /\ M[k].ip # None}
  BY <1>4, <1>5 DEF Setters, Unset
<1>8. ASSUME Addresses(answer, m) # {}
      PROVE  ip = answer[Max(Addresses(answer, m))].ip
  <2>1. PICK D : D = Addresses(answer, m)
    OBVIOUS
  <2>2. D \in SUBSET (1..Len(answer)) /\ D # {}
    BY <1>4, <1>8, <2>1 DEF Addresses
  <2>3. PICK x : x = Max(D)
    OBVIOUS
  <2>4. x \in D /\ \A j \in D : j <= x
    BY <1>4, <2>2, <2>3, LastIndex
  <2>5. x \in 1..Len(answer) /\ answer[x].mac = m /\ answer[x].ip # None
    BY <1>4, <2>1, <2>4 DEF Addresses
  <2>6. n + x \in I
    BY <1>4, <1>7, <2>5
  <2>7. ASSUME NEW k \in I
        PROVE  k <= n + x
    <3>1. CASE k <= n
      BY <1>4, <1>7, <2>5, <3>1
    <3>2. CASE ~(k <= n)
      <4>1. PICK j \in 1..Len(answer) : k = n + j
        <5>1. k - n \in 1..Len(answer) /\ k = n + (k - n)
          BY <1>4, <1>7, <3>2
        <5>2. QED
          BY <5>1
      <4>2. j \in D
        BY <1>4, <1>7, <2>1, <4>1 DEF Addresses
      <4>3. QED
        BY <1>4, <2>4, <2>5, <4>1, <4>2
    <3>3. QED
      BY <3>1, <3>2
  <2>8. Max(I) = n + x
    <3>1. n + Len(answer) \in Nat /\ I \in SUBSET (1..(n + Len(answer))) /\ I # {}
      BY <1>4, <1>7, <2>6
    <3>2. QED
      BY <2>6, <2>7, <3>1, LastIndex
  <2>9. ip = M[n + x].ip
    BY <1>6, <2>6, <2>8
  <2>10. M[n + x].ip = answer[x].ip
    BY <1>4, <2>5
  <2>11. QED
    BY <2>1, <2>3, <2>9, <2>10
<1>9. ASSUME NEW k \in 1..Len(L), L[k].mac = m
      PROVE  \E j : Newest(L, m, j, Len(L))
  BY <1>2, <1>9
<1>10. ASSUME Addresses(answer, m) = {}, NEW k \in I
       PROVE  k \in 1..n /\ M[k] \in Range(C) /\ M[k].mac = m
  <2>1. CASE k <= n
    BY <1>4, <1>7, <2>1
  <2>2. CASE ~(k <= n)
    <3>1. PICK j \in 1..Len(answer) : k = n + j
      <4>1. k - n \in 1..Len(answer) /\ k = n + (k - n)
        BY <1>4, <1>7, <2>2
      <4>2. QED
        BY <4>1
    <3>2. j \in Addresses(answer, m)
      BY <1>4, <1>7, <3>1 DEF Addresses
    <3>3. QED
      BY <1>10, <3>2
  <2>3. QED
    BY <2>1, <2>2
<1>11. I # {} => Max(I) \in I
  <2>1. n + Len(answer) \in Nat /\ I \in SUBSET (1..(n + Len(answer)))
    BY <1>4, <1>7
  <2>2. QED
    BY <2>1, LastIndex
<1>12. ASSUME Addresses(answer, m) = {}, NEW j, Newest(L, m, j, Len(L))
       PROVE  ip = L[j].ip
  <2>1. Len(L) \in Nat
    BY <1>2
  <2>2. \A c \in Range(C) : c.mac = m => c.ip = L[j].ip
    <3> SUFFICES ASSUME NEW c \in Range(C), c.mac = m
                 PROVE  c.ip = L[j].ip
      OBVIOUS
    <3>1. PICK i : Newest(L, m, i, Len(L)) /\ c.ip = L[i].ip
      BY <1>2
    <3>2. i = j
      BY <1>2, <1>12, <2>1, <3>1, NewestUnique
    <3>3. QED
      BY <3>1, <3>2
  <2>3. CASE I # {}
    BY <1>6, <1>10, <1>11, <1>12, <2>2, <2>3
  <2>4. CASE I = {}
    <3>1. j \in 1..Len(L) /\ L[j].mac = m
      BY <1>12 DEF Newest
    <3>2. PICK c \in Range(C) : c.mac = m
      BY <1>2, <3>1
    <3>3. PICK k \in 1..n : c = M[k]
      BY <1>4
    <3>4. c.ip = None
      <4>1. k \in 1..(n + Len(answer)) /\ k \notin I
        BY <1>4, <2>4
      <4>2. QED
        BY <1>7, <3>2, <3>3, <4>1
    <3>5. QED
      BY <1>6, <2>2, <2>4, <3>2, <3>4
  <2>5. QED
    BY <2>3, <2>4
<1>13. ASSUME Addresses(answer, m) = {}, \A k \in 1..Len(L) : L[k].mac # m
       PROVE  ip = None
  <2>1. ASSUME NEW k \in I
        PROVE  FALSE
    <3>1. M[k] \in Range(C) /\ M[k].mac = m
      BY <1>10, <1>13
    <3>2. PICK j : Newest(L, m, j, Len(L))
      BY <1>2, <3>1
    <3>3. QED
      BY <1>13, <3>2 DEF Newest
  <2>2. QED
    BY <1>6, <2>1
<1>14. QED
  BY <1>8, <1>9, <1>12, <1>13 DEF AddressFrom

(* Its portal state is the last one that openNDS gives, else none.         *)
LEMMA PortalSource ==
  ASSUME NEW E, NEW A \in Seq(ClientsOf(E)), NEW file \in LeaseFiles,
         NEW answer \in Sessions, NEW m \in MacsOf(A),
         NEW M, M = LeaseClients(file) \o PortalClients(answer),
         NEW st, st = MergeAssociated(A, M)[m]["portal"]
  PROVE  StateFrom(st, answer, m)
<1>1. PICK C : C = LeaseClients(file)
  OBVIOUS
<1>2. \A c \in Range(C) : c.portal = None
  BY <1>1, LeaseFacts DEF MadeOfLeases
<1>3. PICK n : n = Len(C)
  OBVIOUS
<1>4. /\ M \in Seq(Range(M)) /\ n \in Nat /\ Len(M) = n + Len(answer)
      /\ Len(answer) \in Nat /\ DOMAIN answer = 1..Len(answer)
      /\ \A k \in 1..n : M[k] = C[k] /\ M[k] \in Range(C)
      /\ \A k \in 1..Len(answer) :
                  /\ M[n + k].mac = answer[k].mac /\ M[n + k].iface = None
                  /\ M[n + k].ip = answer[k].ip /\ M[n + k].portal = answer[k].portal
  <2>1. MadeOf(M, C, n, answer)
    BY <1>1, <1>3, MetadataFacts
  <2>2. QED
    BY <2>1 DEF MadeOf
<1>5. PICK I : I = Setters(M, m, "portal", Len(M))
  OBVIOUS
<1>6. st = IF I = {} THEN None ELSE M[Max(I)].portal
  <2>1. ByMac(A)[m]["portal"] = None /\ "portal" \in DOMAIN ByMac(A)[m]
    BY AssociationEntry
  <2>2. MergeAssociated(A, M)[m]["portal"] =
          FieldSource(A, M, m, "portal")
    <3>1. "portal" # "mac"
      OBVIOUS
    <3>2. M \in Seq(Range(M))
      BY <1>4
    <3>3. QED
      BY <2>1, <3>1, <3>2, MergedFields
  <2>3. QED
    BY <1>5, <2>1, <2>2 DEF FieldSource
<1>7. I = {k \in 1..(n + Len(answer)) : M[k].mac = m /\ M[k].portal # None}
  BY <1>4, <1>5 DEF Setters, Unset
<1>8. PICK D : D = States(answer, m)
  OBVIOUS
<1>9. ASSUME NEW k \in I
      PROVE  \E j \in D : k = n + j
  <2>1. CASE k <= n
    BY <1>2, <1>4, <1>7, <2>1
  <2>2. CASE ~(k <= n)
    <3>1. PICK j \in 1..Len(answer) : k = n + j
      <4>1. k - n \in 1..Len(answer) /\ k = n + (k - n)
        BY <1>4, <1>7, <2>2
      <4>2. QED
        BY <4>1
    <3>2. j \in D
      BY <1>4, <1>7, <1>8, <3>1 DEF States
    <3>3. QED
      BY <3>1, <3>2
  <2>3. QED
    BY <2>1, <2>2
<1>10. CASE D = {}
  BY <1>6, <1>8, <1>9, <1>10 DEF StateFrom
<1>11. CASE D # {}
  <2>1. D \in SUBSET (1..Len(answer))
    BY <1>4, <1>8 DEF States
  <2>2. PICK x : x = Max(D)
    OBVIOUS
  <2>3. x \in D /\ \A j \in D : j <= x
    BY <1>4, <1>11, <2>1, <2>2, LastIndex
  <2>4. x \in 1..Len(answer) /\ answer[x].mac = m /\ answer[x].portal # None
    BY <1>4, <1>8, <2>3 DEF States
  <2>5. n + x \in I
    BY <1>4, <1>7, <2>4
  <2>6. \A k \in I : k <= n + x
    BY <1>4, <1>9, <2>1, <2>3, <2>4
  <2>7. Max(I) = n + x
    <3>1. n + Len(answer) \in Nat /\ I \in SUBSET (1..(n + Len(answer))) /\ I # {}
      BY <1>4, <1>7, <2>5
    <3>2. QED
      BY <2>5, <2>6, <3>1, LastIndex
  <2>8. QED
    BY <1>4, <1>6, <1>8, <1>11, <2>2, <2>4, <2>5, <2>7 DEF StateFrom
<1>12. QED
  BY <1>10, <1>11

HeldOn(E, m, i) == \E e \in E : e[1] = m /\ e[2] = i

(* Its interface is one that hostapd held it on.                           *)
LEMMA InterfaceSource ==
  ASSUME NEW E, NEW A \in Seq(ClientsOf(E)), NEW file \in LeaseFiles,
         NEW answer \in Sessions, NEW m \in MacsOf(A),
         NEW M, M = LeaseClients(file) \o PortalClients(answer)
  PROVE  HeldOn(E, m, MergeAssociated(A, M)[m].iface)
<1>1. PICK C : C = LeaseClients(file)
  OBVIOUS
<1>2. \A c \in Range(C) : c.iface = None
  BY <1>1, LeaseFacts DEF MadeOfLeases
<1>3. PICK n : n = Len(C)
  OBVIOUS
<1>4. /\ M \in Seq(Range(M)) /\ n \in Nat /\ Len(M) = n + Len(answer) /\ Len(answer) \in Nat
      /\ \A k \in 1..n : M[k] = C[k] /\ M[k] \in Range(C)
      /\ \A k \in 1..Len(answer) : M[n + k].iface = None
  <2>1. MadeOf(M, C, n, answer)
    BY <1>1, <1>3, MetadataFacts
  <2>2. QED
    BY <2>1 DEF MadeOf
<1>5. ASSUME NEW k \in 1..Len(M)
      PROVE  M[k]["iface"] = None
  <2>1. CASE k <= n
    BY <1>2, <1>4, <2>1
  <2>2. CASE ~(k <= n)
    <3>1. k - n \in 1..Len(answer) /\ n + (k - n) = k
      BY <1>4, <2>2
    <3>2. QED
      BY <1>4, <3>1
  <2>3. QED
    BY <2>1, <2>2
<1>6. Setters(M, m, "iface", Len(M)) = {}
  BY <1>5 DEF Setters, Unset
<1>7. PICK e \in E : e[1] = m /\ e[2] = ByMac(A)[m]["iface"]
  BY AssociationEntry
<1>8. "iface" \in DOMAIN ByMac(A)[m] /\ "iface" # "mac"
  BY AssociationEntry
<1>9. MergeAssociated(A, M)[m]["iface"] = FieldSource(A, M, m, "iface")
  BY <1>4, <1>8, MergedFields
<1>10. QED
  BY <1>6, <1>7, <1>9 DEF FieldSource, HeldOn

-----------------------------------------------------------------------------
(* The inductive invariant implies what the runs check of the clients.     *)

(* Either nothing was asked of the network or the snapshot has the clients *)
(* that the sources give it.                                               *)
LEMMA ClientsOfSnapshot ==
  ASSUME ProviderInv, clients # <<>>
  PROVE  /\ stage = "done" /\ associated \in Seq(ClientsOf(seen))
         /\ lines \in LeaseFiles /\ portal \in Sessions
         /\ metadata = LeaseClients(lines) \o PortalClients(portal)
         /\ clients = MergeAssociated(associated, metadata)
         /\ DOMAIN clients = MacsOf(associated)
<1>1. /\ stage = "done" /\ associated \in Seq(ClientsOf(seen))
      /\ lines \in LeaseFiles /\ portal \in Sessions
      /\ metadata = LeaseClients(lines) \o PortalClients(portal)
      /\ clients = MergeAssociated(associated, metadata)
  BY DEF ProviderInv, ClientsInv, MetadataInv, AssociatedInv
<1>2. metadata \in Seq(Range(metadata))
  <2>1. PICK C : C = LeaseClients(lines)
    OBVIOUS
  <2>2. MadeOf(metadata, C, Len(C), portal)
    BY <1>1, <2>1, MetadataFacts
  <2>3. QED
    BY <2>2 DEF MadeOf
<1>3. DOMAIN MergeAssociated(associated, metadata) = MacsOf(associated)
  BY <1>1, <1>2, MergedStations
<1>4. QED
  BY <1>1, <1>3

(* hostapd held every client of a snapshot on the interface it reports.    *)
LEMMA InvOnlyAssociated ==
  ProviderInv => OnlyAssociated
<1> SUFFICES ASSUME ProviderInv, NEW m \in DOMAIN clients
             PROVE  <<m, clients[m].iface>> \in seen
  BY DEF OnlyAssociated
<1>1. clients # <<>>
  OBVIOUS
<1>2. /\ associated \in Seq(ClientsOf(seen)) /\ lines \in LeaseFiles /\ portal \in Sessions
      /\ metadata = LeaseClients(lines) \o PortalClients(portal)
      /\ clients = MergeAssociated(associated, metadata)
      /\ m \in MacsOf(associated)
  BY <1>1, ClientsOfSnapshot
<1>3. PICK e \in seen : e[1] = m /\ e[2] = clients[m].iface
  <2>1. HeldOn(seen, m, MergeAssociated(associated, metadata)[m].iface)
    BY <1>2, InterfaceSource
  <2>2. QED
    BY <1>2, <2>1 DEF HeldOn
<1>4. seen \subseteq Macs \X Interfaces
  BY DEF ProviderInv, NetworkInv
<1>5. e = <<e[1], e[2]>>
  BY <1>4
<1>6. QED
  BY <1>3, <1>5

(* A station that stayed is missing only where the query failed.           *)
LEMMA InvStayersReported ==
  ProviderInv => StayersReported
<1> SUFFICES ASSUME ProviderInv, stage = "done", NEW s \in Range(status), NEW e \in held,
                    e[2] = s.iface, e[2].ifname \notin Failed
             PROVE  e[1] \in DOMAIN clients
  BY DEF StayersReported
<1>1. /\ Listing(status) /\ Aligned(status, hostapd, told)
      /\ Len(hostapd) = Len(status)
  BY DEF ProviderInv, AnswersInv, Past
<1>2. status \in Seq([iface : Interfaces, stations : Nat])
  BY <1>1 DEF Listing
<1>3. PICK k \in 1..Len(status) : s = status[k]
  <2>1. Range(status) = {status[k] : k \in 1..Len(status)}
    BY <1>2, RangeEquality
  <2>2. QED
    BY <2>1
<1>4. e[2].ifname \in DOMAIN told /\ told[e[2].ifname] = hostapd[k]
  BY <1>1, <1>3 DEF Aligned
<1>5. hostapd[k] # NoClients
  BY <1>4 DEF Failed
<1>6. e[1] \in MacsOf(associated)
  <2>1. PICK c \in Range(associated) : c.mac = e[1]
    BY <1>1, <1>3, <1>5 DEF ProviderInv, AssociatedInv
  <2>2. QED
    BY <2>1 DEF MacsOf
<1>7. status # <<>>
  BY <1>3
<1>8. clients = MergeAssociated(associated, metadata) /\ metadata \in Seq(Range(metadata))
  <2>1. /\ clients = MergeAssociated(associated, metadata)
        /\ lines \in LeaseFiles /\ portal \in Sessions
        /\ metadata = LeaseClients(lines) \o PortalClients(portal)
    BY <1>7 DEF ProviderInv, ClientsInv, MetadataInv
  <2>2. PICK C : C = LeaseClients(lines)
    OBVIOUS
  <2>3. MadeOf(metadata, C, Len(C), portal)
    BY <2>1, <2>2, MetadataFacts
  <2>4. QED
    BY <2>1, <2>3 DEF MadeOf
<1>9. associated \in Seq(ClientsOf(seen))
  BY DEF ProviderInv, AssociatedInv
<1>10. QED
  BY <1>6, <1>8, <1>9, MergedStations

(* Addresses and portal states have the sources that MetadataPrecedence    *)
(* names.                                                                  *)
LEMMA InvMetadataPrecedence ==
  ProviderInv => MetadataPrecedence
<1> SUFFICES ASSUME ProviderInv, stage = "done"
             PROVE  MetadataPrecedence
  BY DEF MetadataPrecedence
<1> DEFINE leases == ParsedLeases(lines)
           own(m) == {k \in DOMAIN leases : leases[k].mac = m}
           IsLast(m, k) == \A j \in own(m) :
             \/ leases[j].expires < leases[k].expires
             \/ leases[j].expires = leases[k].expires /\ j <= k
           newest(m) == CHOOSE k \in own(m) : IsLast(m, k)
           addr(m) == {k \in {k \in DOMAIN portal : portal[k].mac = m} : portal[k].ip # None}
           state(m) == {k \in {k \in DOMAIN portal : portal[k].mac = m} : portal[k].portal # None}
<1> SUFFICES ASSUME NEW m \in DOMAIN clients
             PROVE  /\ clients[m].ip = IF addr(m) # {} THEN portal[Max(addr(m))].ip
                                       ELSE IF own(m) # {} THEN leases[newest(m)].ip
                                       ELSE None
                    /\ clients[m].portal = IF state(m) # {} THEN portal[Max(state(m))].portal
                                           ELSE None
  BY DEF MetadataPrecedence
<1>1. /\ associated \in Seq(ClientsOf(seen)) /\ lines \in LeaseFiles /\ portal \in Sessions
      /\ metadata = LeaseClients(lines) \o PortalClients(portal)
      /\ clients = MergeAssociated(associated, metadata)
      /\ m \in MacsOf(associated)
  <2>1. clients # <<>>
    OBVIOUS
  <2>2. QED
    BY <2>1, ClientsOfSnapshot
<1>2. leases = ParsedLeases(lines)
  OBVIOUS
<1> HIDE DEF leases
<1>3. PICK ip : ip = MergeAssociated(associated, metadata)[m]["ip"]
  OBVIOUS
<1>4. PICK st : st = MergeAssociated(associated, metadata)[m]["portal"]
  OBVIOUS
<1> HIDE DEF own, newest, addr, state, IsLast
<1>5. AddressFrom(ip, portal, leases, m)
  BY <1>1, <1>2, <1>3, AddressSource
<1>6. StateFrom(st, portal, m)
  BY <1>1, <1>4, PortalSource
<1>7. DOMAIN leases = 1..Len(leases) /\ Len(leases) \in Nat
  BY <1>1, <1>2, LeaseFacts
<1>8. \A k : Newest(leases, m, k, Len(leases)) <=> k \in own(m) /\ IsLast(m, k)
  BY <1>7 DEF Newest, own, IsLast
<1>9. own(m) # {} => Newest(leases, m, newest(m), Len(leases))
  <2>1. ASSUME own(m) # {}
        PROVE  \E k \in own(m) : IsLast(m, k)
    BY <1>5, <1>7, <1>8, <2>1 DEF AddressFrom, own
  <2>2. QED
    BY <1>8, <2>1 DEF newest
<1>10. ip = IF Addresses(portal, m) # {} THEN portal[Max(Addresses(portal, m))].ip
            ELSE IF own(m) # {} THEN leases[newest(m)].ip ELSE None
  <2>1. own(m) = {} => \A k \in 1..Len(leases) : leases[k].mac # m
    BY <1>7 DEF own
  <2>2. QED
    BY <1>5, <1>9, <2>1 DEF AddressFrom
<1>11. addr(m) = Addresses(portal, m) /\ state(m) = States(portal, m)
  BY DEF Addresses, States, addr, state
<1>12. clients[m].ip = ip /\ clients[m].portal = st
  BY <1>1, <1>3, <1>4
<1>13. QED
  BY <1>6, <1>10, <1>11, <1>12 DEF StateFrom

-----------------------------------------------------------------------------
(* What the steps of build keep.                                           *)

(* Positions in Network are told apart by the interface's name.            *)
LEMMA NetworkPositions ==
  /\ Len(Network) \in Nat /\ DOMAIN Network = 1..Len(Network)
  /\ \A i \in Interfaces : \E p \in DOMAIN Network : Network[p] = i
  /\ \A p \in DOMAIN Network : Network[p] \in Interfaces
  /\ \A p, q \in DOMAIN Network : Network[p].ifname = Network[q].ifname => p = q
<1>1. Network \in Seq(Interfaces)
  BY ProviderAssumption
<1>2. Range(Network) = {Network[p] : p \in 1..Len(Network)}
  BY <1>1, RangeEquality
<1>3. Len(Network) \in Nat /\ DOMAIN Network = 1..Len(Network)
  BY <1>1, LenProperties
<1>4. QED
  BY <1>2, <1>3, ProviderAssumption DEF Interfaces

(* `status` lists the interfaces that exist in the order of Network.       *)
LEMMA NetworkListing ==
  ASSUME NEW kept \in SUBSET (1..Len(Network)), NEW q, q = Keep(Network, kept),
         NEW c, \A k \in 1..Len(q) : c[k] \in Nat,
         NEW list, list = [k \in DOMAIN q |-> [iface |-> q[k], stations |-> c[k]]]
  PROVE  Listing(list)
<1>1. Network \in Seq(Interfaces)
  BY ProviderAssumption
<1>2. q \in Seq(Interfaces) /\ \E pos : Kept(q, Network, kept, pos)
  BY <1>1, KeepKeeps
<1>3. PICK pos : Kept(q, Network, kept, pos)
  BY <1>2
<1>4. Len(q) \in Nat /\ DOMAIN q = 1..Len(q) /\ \A k \in 1..Len(q) : q[k] \in Interfaces
  BY <1>2, LenProperties
<1>5. list \in [1..Len(q) -> [iface : Interfaces, stations : Nat]]
  BY <1>4
<1>6. list \in Seq([iface : Interfaces, stations : Nat]) /\ Len(list) = Len(q)
  BY <1>4, <1>5
<1>7. \A k \in 1..Len(q) : list[k].iface = q[k]
  BY <1>4
<1>8. \A k \in 1..Len(q) : pos[k] \in DOMAIN Network /\ Network[pos[k]] = q[k]
  BY <1>3, NetworkPositions DEF Kept
<1>9. ASSUME NEW j \in 1..Len(q), NEW k \in 1..Len(q), j < k,
             NEW a \in DOMAIN Network, NEW b \in DOMAIN Network,
             Network[a] = q[j], Network[b] = q[k]
      PROVE  a < b
  <2>1. a = pos[j] /\ b = pos[k]
    <3>1. pos[j] \in DOMAIN Network /\ pos[k] \in DOMAIN Network
      BY <1>8
    <3>2. Network[pos[j]].ifname = Network[a].ifname /\ Network[pos[k]].ifname = Network[b].ifname
      BY <1>8, <1>9
    <3>3. QED
      BY <3>1, <3>2, NetworkPositions
  <2>2. pos[j] < pos[k]
    BY <1>3, <1>9 DEF Kept
  <2>3. QED
    BY <2>1, <2>2
<1>10. \A j, k \in 1..Len(list) : \A a, b \in DOMAIN Network :
         j < k /\ Network[a] = list[j].iface /\ Network[b] = list[k].iface => a < b
  BY <1>6, <1>7, <1>9
<1>11. QED
  BY <1>6, <1>10 DEF Listing

(* No two entries of a listing are the same interface.                     *)
LEMMA DistinctNames ==
  ASSUME NEW list, Listing(list), NEW j \in 1..Len(list), NEW k \in 1..Len(list),
         list[j].iface.ifname = list[k].iface.ifname
  PROVE  j = k
<1>1. list \in Seq([iface : Interfaces, stations : Nat])
  BY DEF Listing
<1>2. list[j].iface \in Interfaces /\ list[k].iface \in Interfaces
  <2>1. list[j] \in [iface : Interfaces, stations : Nat]
    BY <1>1, ElementOfSeq
  <2>2. list[k] \in [iface : Interfaces, stations : Nat]
    BY <1>1, ElementOfSeq
  <2>3. QED
    BY <2>1, <2>2
<1>3. PICK p \in DOMAIN Network : Network[p] = list[j].iface
  BY <1>2, NetworkPositions
<1>4. PICK q \in DOMAIN Network : Network[q] = list[k].iface
  BY <1>2, NetworkPositions
<1>5. p = q
  BY <1>3, <1>4, NetworkPositions
<1>6. p \in Nat /\ q \in Nat
  BY <1>3, <1>4, NetworkPositions
<1>7. ~(j < k)
  BY <1>3, <1>4, <1>5, <1>6 DEF Listing
<1>8. ~(k < j)
  BY <1>3, <1>4, <1>5, <1>6 DEF Listing
<1>9. Len(list) \in Nat
  BY <1>1, LenProperties
<1>10. QED
  BY <1>7, <1>8, <1>9

(* One more answer keeps answers and interfaces aligned.                   *)
LEMMA AlignedMore ==
  ASSUME NEW list, Listing(list), NEW answers, NEW said, Aligned(list, answers, said),
         Len(answers) < Len(list), NEW a \in (SUBSET Macs) \cup {NoClients},
         NEW name, name = list[Len(answers) + 1].iface.ifname
  PROVE  Aligned(list, Append(answers, a), Put(said, name, a))
<1>1. /\ answers \in Seq((SUBSET Macs) \cup {NoClients})
      /\ DOMAIN said = {list[k].iface.ifname : k \in 1..Len(answers)}
      /\ \A k \in 1..Len(answers) : said[list[k].iface.ifname] = answers[k]
  BY DEF Aligned
<1>2. Len(list) \in Nat /\ Len(answers) \in Nat
  BY <1>1, LenProperties DEF Listing
<1>3. PICK more : more = Append(answers, a)
  OBVIOUS
<1>4. PICK now : now = Put(said, name, a)
  OBVIOUS
<1>5. PICK n : n = Len(answers)
  OBVIOUS
<1>6. /\ more \in Seq((SUBSET Macs) \cup {NoClients}) /\ Len(more) = n + 1
      /\ (\A k \in 1..n : more[k] = answers[k]) /\ more[n + 1] = a
  BY <1>1, <1>3, <1>5, AppendProperties
<1>7. \A k \in 1..(n + 1) : k \in 1..n \/ k = n + 1
  BY <1>2, <1>5
<1>8. n + 1 \in 1..(n + 1) /\ \A k \in 1..n : k \in 1..(n + 1)
  BY <1>2, <1>5
<1>9. DOMAIN now = {list[k].iface.ifname : k \in 1..(n + 1)}
  <2>1. DOMAIN now = {list[k].iface.ifname : k \in 1..n} \cup {name}
    BY <1>1, <1>4, <1>5 DEF Put
  <2>2. name = list[n + 1].iface.ifname
    BY <1>5
  <2>3. QED
    BY <1>7, <1>8, <2>1, <2>2
<1>10. ASSUME NEW k \in 1..n
       PROVE  now[list[k].iface.ifname] = more[k]
  <2>1. k \in 1..Len(list) /\ n + 1 \in 1..Len(list) /\ k # n + 1
    BY <1>2, <1>5
  <2>2. list[k].iface.ifname # name
    BY <1>5, <2>1, DistinctNames
  <2>3. list[k].iface.ifname \in DOMAIN said
    BY <1>1, <1>5
  <2>4. now[list[k].iface.ifname] = said[list[k].iface.ifname]
    BY <1>4, <2>2, <2>3 DEF Put
  <2>5. QED
    BY <1>1, <1>5, <1>6, <2>4
<1>11. now[name] = a
  BY <1>4 DEF Put
<1>12. \A k \in 1..(n + 1) : now[list[k].iface.ifname] = more[k]
  BY <1>5, <1>6, <1>7, <1>10, <1>11
<1>13. n + 1 <= Len(list)
  BY <1>2, <1>5
<1>14. QED
  BY <1>3, <1>4, <1>6, <1>9, <1>12, <1>13 DEF Aligned

ClientsOn(S, i) == {HostapdClient(m, i) : m \in S}
Lists(q, S) == \A m \in S : \E c \in Range(q) : c.mac = m

(* The clients of one answer are the stations that the interface holds.    *)
LEMMA StationList ==
  ASSUME NEW i, NEW S \in SUBSET Macs, NEW E, \A m \in S : <<m, i>> \in E,
         NEW q, q = SetToSeq(ClientsOn(S, i))
  PROVE  q \in Seq(ClientsOf(E)) /\ Lists(q, S)
<1> DEFINE T == {HostapdClient(m, i) : m \in S}
           g == [m \in S |-> HostapdClient(m, i)]
<1>1. IsFiniteSet(S)
  BY ProviderAssumption, FS_Subset
<1>2. g \in Surjection(S, T)
  BY DEF Surjection
<1>3. T \subseteq ClientsOf(E)
  <2> SUFFICES ASSUME NEW m \in S
               PROVE  HostapdClient(m, i) \in ClientsOf(E)
    OBVIOUS
  <2>1. <<m, i>> \in E /\ <<m, i>>[1] = m /\ <<m, i>>[2] = i
    OBVIOUS
  <2>2. QED
    BY <2>1 DEF ClientsOf
<1>4. ASSUME NEW m \in S
      PROVE  \E c \in T : c.mac = m
  <2>1. HostapdClient(m, i).mac = m
    BY DEF HostapdClient
  <2>2. QED
    BY <2>1
<1>5. q = SetToSeq(T)
  BY DEF ClientsOn
<1> HIDE DEF T, g
<1>6. IsFiniteSet(T)
  BY <1>1, <1>2, FS_Surjection
<1>7. q \in Seq(T) /\ Range(q) = T
  BY <1>5, <1>6, Listed
<1>8. q \in Seq(ClientsOf(E))
  BY <1>3, <1>7
<1>9. QED
  BY <1>4, <1>7, <1>8 DEF Lists

(* More entries of hostapd leave room for more clients.                    *)
LEMMA ClientsOfMore ==
  ASSUME NEW E, NEW F, E \subseteq F, NEW q \in Seq(ClientsOf(E))
  PROVE  q \in Seq(ClientsOf(F))
<1>1. ClientsOf(E) \subseteq ClientsOf(F)
  BY DEF ClientsOf
<1>2. QED
  BY <1>1

(* A build starts with nothing listed.                                     *)
LEMMA NothingListed ==
  Listing(<<>>) /\ Aligned(<<>>, <<>>, <<>>)
<1>1. Listing(<<>>)
  BY DEF Listing
<1>2. Aligned(<<>>, <<>>, <<>>)
  BY DEF Aligned
<1>3. QED
  BY <1>1, <1>2

-----------------------------------------------------------------------------
(* ProviderInv is inductive.                                               *)

(* It holds before the first build.                                        *)
LEMMA ProviderInvInit ==
  ProviderInit => ProviderInv
<1> SUFFICES ASSUME ProviderInit
             PROVE  ProviderInv
  OBVIOUS
<1> USE DEF ProviderInit
<1>1. NetworkInv
  BY DEF NetworkInv, Stages
<1>2. AnswersInv
  BY NothingListed DEF AnswersInv, Past
<1>3. MembersInv
  BY DEF MembersInv, Past
<1>4. AssociatedInv
  BY DEF AssociatedInv
<1>5. MetadataInv /\ ClientsInv
  BY DEF MetadataInv, ClientsInv
<1>6. QED
  BY <1>1, <1>2, <1>3, <1>4, <1>5 DEF ProviderInv

(* A build starts from nothing.                                            *)
LEMMA BeginKeeps ==
  ProviderInv /\ Begin => ProviderInv'
<1> SUFFICES ASSUME ProviderInv, Begin
             PROVE  ProviderInv'
  OBVIOUS
<1>1. /\ stage' = "status" /\ status' = <<>> /\ index' = 0 /\ hostapd' = <<>>
      /\ associated' = <<>> /\ metadata' = <<>> /\ members' = NoMembers /\ clients' = <<>>
      /\ seen' = assoc /\ held' = assoc /\ told' = <<>> /\ lines' = <<>> /\ portal' = <<>>
      /\ up' = up /\ assoc' = assoc
  BY DEF Begin
<1>2. up \subseteq Interfaces /\ assoc \subseteq Macs \X up
  BY DEF ProviderInv, NetworkInv
<1>3. NetworkInv'
  BY <1>1, <1>2 DEF NetworkInv, Stages
<1>4. AnswersInv'
  BY <1>1, NothingListed DEF AnswersInv, Past
<1>5. MembersInv'
  BY <1>1 DEF MembersInv, Past
<1>6. AssociatedInv'
  BY <1>1 DEF AssociatedInv
<1>7. MetadataInv' /\ ClientsInv'
  BY <1>1 DEF MetadataInv, ClientsInv
<1>8. QED
  BY <1>3, <1>4, <1>5, <1>6, <1>7 DEF ProviderInv

(* Without a listing nothing is asked of hostapd.                          *)
LEMMA StatusFailsKeeps ==
  ProviderInv /\ (StatusFails \/ StatusGarbled) => ProviderInv'
<1> SUFFICES ASSUME ProviderInv, StatusFails \/ StatusGarbled
             PROVE  ProviderInv'
  OBVIOUS
<1>1. /\ stage = "status" /\ stage' \in {"done", "leases"}
      /\ UNCHANGED <<up, assoc, seen, held, told, lines, portal, status, index, hostapd,
                     associated, metadata, members, clients>>
  BY DEF StatusFails, StatusGarbled, network, sources, results
<1>2. /\ status = <<>> /\ index = 0 /\ members = NoMembers /\ clients = <<>> /\ portal = <<>>
  <2>1. status = <<>> /\ index = Len(hostapd) /\ Len(hostapd) <= Len(status)
    BY <1>1 DEF ProviderInv, AnswersInv, Aligned
  <2>2. Len(hostapd) \in Nat /\ Len(<<>>) = 0
    BY LenProperties DEF ProviderInv, AnswersInv, Aligned
  <2>3. QED
    BY <1>1, <2>1, <2>2 DEF ProviderInv, MembersInv, ClientsInv, MetadataInv, Past
<1>3. NetworkInv'
  BY <1>1 DEF ProviderInv, NetworkInv, Stages
<1>4. AnswersInv'
  BY <1>1, <1>2 DEF ProviderInv, AnswersInv, Past
<1>5. MembersInv'
  BY <1>1, <1>2 DEF MembersInv
<1>6. AssociatedInv'
  BY <1>1 DEF ProviderInv, AssociatedInv
<1>7. MetadataInv' /\ ClientsInv'
  BY <1>1, <1>2 DEF MetadataInv, ClientsInv
<1>8. QED
  BY <1>3, <1>4, <1>5, <1>6, <1>7 DEF ProviderInv

(* A listing is put in the order of Network.                               *)
LEMMA StatusAnswersKeeps ==
  ProviderInv /\ StatusAnswers => ProviderInv'
<1> SUFFICES ASSUME ProviderInv, StatusAnswers
             PROVE  ProviderInv'
  OBVIOUS
<1>1. /\ stage = "status" /\ stage' = "hostapd"
      /\ UNCHANGED <<up, assoc, seen, held, told, lines, portal, index, hostapd,
                     associated, metadata, members, clients>>
  BY DEF StatusAnswers, network, sources
<1>2. Listing(status')
  <2> DEFINE kept == {k \in DOMAIN Network : Network[k] \in up}
             q == Keep(Network, kept)
             c == [k \in 1..Len(q) |-> StationCount(q[k])]
  <2>1. kept \in SUBSET (1..Len(Network))
    BY NetworkPositions
  <2>2. \A i : StationCount(i) \in Nat
    <3> SUFFICES ASSUME NEW i
                 PROVE  StationCount(i) \in Nat
      OBVIOUS
    <3>1. StationsOf(i) \in SUBSET Macs
      BY DEF StationsOf
    <3>2. IsFiniteSet(StationsOf(i))
      BY <3>1, ProviderAssumption, FS_Subset
    <3>3. Cardinality(StationsOf(i)) \in Nat
      BY <3>2, FS_CardinalityType
    <3>4. QED
      BY <3>3 DEF StationCount
  <2>3. status' = [k \in DOMAIN q |-> [iface |-> q[k], stations |-> StationCount(q[k])]]
    BY DEF StatusAnswers
  <2>4. DOMAIN q = 1..Len(q)
    <3>1. Network \in Seq(Interfaces)
      BY ProviderAssumption
    <3> HIDE DEF kept
    <3>2. q \in Seq(Interfaces)
      BY <2>1, <3>1, KeepKeeps
    <3>3. QED
      BY <3>2, LenProperties
  <2>5. \A k \in 1..Len(q) : c[k] = StationCount(q[k]) /\ c[k] \in Nat
    BY <2>2
  <2>6. status' = [k \in DOMAIN q |-> [iface |-> q[k], stations |-> c[k]]]
    BY <2>3, <2>4, <2>5
  <2>7. PICK Q : Q = q
    OBVIOUS
  <2>8. PICK list : list = status'
    OBVIOUS
  <2>9. Q = Keep(Network, kept)
    BY <2>7
  <2>10. \A k \in 1..Len(Q) : c[k] \in Nat
    BY <2>5, <2>7
  <2>11. list = [k \in DOMAIN Q |-> [iface |-> Q[k], stations |-> c[k]]]
    BY <2>6, <2>7, <2>8
  <2> HIDE DEF kept, q, c
  <2>12. Listing(list)
    BY <2>1, <2>9, <2>10, <2>11, NetworkListing
  <2>13. QED
    BY <2>8, <2>12
<1>3. hostapd = <<>> /\ index = 0 /\ DOMAIN told = {}
  <2>1. /\ hostapd \in Seq((SUBSET Macs) \cup {NoClients}) /\ Len(hostapd) <= Len(<<>>)
        /\ index = Len(hostapd)
        /\ DOMAIN told = {status[k].iface.ifname : k \in 1..Len(hostapd)}
    BY <1>1 DEF ProviderInv, AnswersInv, Aligned
  <2>2. Len(hostapd) = 0
    BY <2>1, LenProperties
  <2>3. hostapd = <<>>
    BY <2>1, <2>2, EmptySeq
  <2>4. QED
    BY <2>1, <2>2, <2>3
<1>4. Len(status') \in Nat
  BY <1>2, LenProperties DEF Listing
<1>5. Aligned(status', hostapd', told')
  BY <1>1, <1>3, <1>4 DEF Aligned
<1>6. AnswersInv'
  BY <1>1, <1>2, <1>3, <1>5 DEF AnswersInv, Past
<1>7. NetworkInv'
  BY <1>1 DEF ProviderInv, NetworkInv, Stages
<1>8. MembersInv'
  BY <1>1 DEF ProviderInv, MembersInv, Past
<1>9. AssociatedInv'
  BY <1>1, <1>3 DEF ProviderInv, AssociatedInv
<1>10. MetadataInv' /\ ClientsInv'
  BY <1>1 DEF ProviderInv, MetadataInv, ClientsInv
<1>11. QED
  BY <1>6, <1>7, <1>8, <1>9, <1>10 DEF ProviderInv

(* What both outcomes of a query keep.                                     *)
LEMMA QueryKeeps ==
  ASSUME ProviderInv, HostapdAnswers \/ HostapdFails,
         NEW a, a \in (SUBSET Macs) \cup {NoClients}, hostapd' = Append(hostapd, a),
         told' = Put(told, Asked.ifname, a)
  PROVE  NetworkInv' /\ AnswersInv' /\ MembersInv' /\ MetadataInv' /\ ClientsInv'
<1>1. /\ stage = "hostapd" /\ index < Len(status) /\ index' = index + 1
      /\ UNCHANGED <<stage, up, assoc, seen, held, lines, portal, status, metadata,
                     members, clients>>
  BY DEF HostapdAnswers, HostapdFails, network
<1>2. Listing(status) /\ Aligned(status, hostapd, told) /\ index = Len(hostapd)
  BY DEF ProviderInv, AnswersInv
<1>3. Asked.ifname = status[Len(hostapd) + 1].iface.ifname
  BY <1>2 DEF Asked
<1>4. Len(hostapd) < Len(status)
  BY <1>1, <1>2
<1>5. Aligned(status, Append(hostapd, a), Put(told, Asked.ifname, a))
  BY <1>2, <1>3, <1>4, AlignedMore
<1>6. Len(hostapd') = index + 1
  BY <1>2, AppendProperties DEF Aligned
<1>7. AnswersInv'
  BY <1>1, <1>2, <1>5, <1>6 DEF AnswersInv, Past
<1>8. NetworkInv'
  BY <1>1 DEF ProviderInv, NetworkInv
<1>9. MembersInv'
  BY <1>1 DEF ProviderInv, MembersInv, Past
<1>10. MetadataInv' /\ ClientsInv'
  BY <1>1 DEF ProviderInv, MetadataInv, ClientsInv
<1>11. QED
  BY <1>7, <1>8, <1>9, <1>10

(* An answer adds the clients that the interface holds.                    *)
LEMMA HostapdAnswersKeeps ==
  ProviderInv /\ HostapdAnswers => ProviderInv'
<1> SUFFICES ASSUME ProviderInv, HostapdAnswers
             PROVE  ProviderInv'
  OBVIOUS
<1>1. PICK S : S = StationsOf(Asked)
  OBVIOUS
<1>2. PICK i : i = Asked
  OBVIOUS
<1>3. /\ stage = "hostapd" /\ index < Len(status) /\ hostapd' = Append(hostapd, S)
      /\ told' = Put(told, Asked.ifname, S)
      /\ associated' = associated \o SetToSeq(ClientsOn(S, i))
      /\ UNCHANGED <<assoc, seen, held, status>>
  BY <1>1, <1>2 DEF HostapdAnswers, network, ClientsOn
<1>4. S \in SUBSET Macs /\ S = {m \in Macs : <<m, i>> \in assoc}
  BY <1>1, <1>2 DEF StationsOf
<1>5. NetworkInv' /\ AnswersInv' /\ MembersInv' /\ MetadataInv' /\ ClientsInv'
  BY <1>3, <1>4, QueryKeeps
<1>6. /\ assoc \subseteq seen /\ held \subseteq assoc /\ held \subseteq Macs \X Interfaces
      /\ associated \in Seq(ClientsOf(seen)) /\ index = Len(hostapd)
      /\ hostapd \in Seq((SUBSET Macs) \cup {NoClients})
  BY <1>3 DEF ProviderInv, NetworkInv, AssociatedInv, AnswersInv, Aligned
<1>7. PICK q : q = SetToSeq(ClientsOn(S, i))
  OBVIOUS
<1>8. q \in Seq(ClientsOf(seen)) /\ Lists(q, S)
  <2>1. \A m \in S : <<m, i>> \in seen
    BY <1>4, <1>6
  <2>2. QED
    BY <1>4, <1>7, <2>1, StationList
<1>9. associated' = associated \o q
  BY <1>3, <1>7
<1>10. /\ associated' \in Seq(ClientsOf(seen))
       /\ Range(associated') = Range(associated) \cup Range(q)
  BY <1>6, <1>8, <1>9, ConcatProperties, RangeConcatenation
<1>11. ASSUME NEW k \in 1..Len(hostapd'), NEW e \in held,
              hostapd'[k] # NoClients, e[2] = status[k].iface
       PROVE  \E c \in Range(associated') : c.mac = e[1]
  <2>1. /\ Len(hostapd') = Len(hostapd) + 1
        /\ \A j \in 1..Len(hostapd) : hostapd'[j] = hostapd[j]
    BY <1>3, <1>4, <1>6, AppendProperties
  <2>2. Len(hostapd) \in Nat
    BY <1>6, LenProperties
  <2>3. CASE k \in 1..Len(hostapd)
    <3>1. \E c \in Range(associated) : c.mac = e[1]
      BY <1>11, <2>1, <2>3 DEF ProviderInv, AssociatedInv
    <3>2. QED
      BY <1>10, <3>1
  <2>4. CASE k = Len(hostapd) + 1
    <3>1. e[2] = i
      BY <1>2, <1>6, <1>11, <2>4 DEF Asked
    <3>2. e = <<e[1], e[2]>> /\ e[1] \in Macs /\ e \in assoc
      BY <1>6
    <3>3. e[1] \in S
      BY <1>4, <3>1, <3>2
    <3>4. QED
      BY <1>8, <1>10, <3>3 DEF Lists
  <2>5. QED
    BY <2>1, <2>2, <2>3, <2>4
<1>12. AssociatedInv'
  BY <1>3, <1>10, <1>11 DEF AssociatedInv
<1>13. QED
  BY <1>5, <1>12 DEF ProviderInv

(* A failed query adds none and is not an answer.                          *)
LEMMA HostapdFailsKeeps ==
  ProviderInv /\ HostapdFails => ProviderInv'
<1> SUFFICES ASSUME ProviderInv, HostapdFails
             PROVE  ProviderInv'
  OBVIOUS
<1>1. /\ hostapd' = Append(hostapd, NoClients) /\ told' = Put(told, Asked.ifname, NoClients)
      /\ UNCHANGED <<seen, held, status, associated>>
  BY DEF HostapdFails, network
<1>2. NoClients \in (SUBSET Macs) \cup {NoClients}
  OBVIOUS
<1>3. NetworkInv' /\ AnswersInv' /\ MembersInv' /\ MetadataInv' /\ ClientsInv'
  BY <1>1, <1>2, QueryKeeps
<1>4. hostapd \in Seq((SUBSET Macs) \cup {NoClients})
  BY DEF ProviderInv, AnswersInv, Aligned
<1>5. /\ Len(hostapd') = Len(hostapd) + 1 /\ Len(hostapd) \in Nat
      /\ (\A j \in 1..Len(hostapd) : hostapd'[j] = hostapd[j])
      /\ hostapd'[Len(hostapd) + 1] = NoClients
  BY <1>1, <1>2, <1>4, AppendProperties, LenProperties
<1>6. \A k \in 1..Len(hostapd') : hostapd'[k] # NoClients => k \in 1..Len(hostapd)
  BY <1>5
<1>7. AssociatedInv'
  BY <1>1, <1>5, <1>6 DEF ProviderInv, AssociatedInv
<1>8. QED
  BY <1>3, <1>7 DEF ProviderInv

(* The steps after the last query.                                         *)
LEMMA LaterStepsKeep ==
  ProviderInv /\ (AddWireless \/ ReadLeases \/ AskOpenNds \/ MergeClients) => ProviderInv'
<1> SUFFICES ASSUME ProviderInv, AddWireless \/ ReadLeases \/ AskOpenNds \/ MergeClients
             PROVE  ProviderInv'
  OBVIOUS
<1>1. /\ UNCHANGED <<up, assoc, seen, held, told, status, index, hostapd, associated>>
      /\ stage' \in Past
      /\ stage \in Past => UNCHANGED members
      /\ stage \notin Past => index = Len(status) /\ members' = WirelessMembers(status, hostapd)
  BY DEF AddWireless, ReadLeases, AskOpenNds, MergeClients, network, sources, Past
<1>2. NetworkInv'
  BY <1>1 DEF ProviderInv, NetworkInv, Past, Stages
<1>3. AnswersInv'
  BY <1>1 DEF ProviderInv, AnswersInv, Past
<1>4. MembersInv'
  BY <1>1 DEF ProviderInv, MembersInv
<1>5. AssociatedInv'
  BY <1>1 DEF ProviderInv, AssociatedInv
<1>6. MetadataInv' /\ ClientsInv'
  <2>1. CASE AddWireless
    BY <2>1 DEF ProviderInv, MetadataInv, ClientsInv, AddWireless, sources
  <2>2. CASE ReadLeases
    <3>1. /\ stage = "leases" /\ stage' \in {"portal", "merge"} /\ lines' \in LeaseFiles
          /\ metadata' = LeaseClients(lines') /\ portal' = portal /\ clients' = clients
      BY <2>2 DEF ReadLeases
    <3>2. portal = <<>> /\ clients = <<>>
      BY <3>1 DEF ProviderInv, MetadataInv, ClientsInv
    <3>3. metadata' = LeaseClients(lines') \o PortalClients(<<>>)
      <4>1. PICK C : C = LeaseClients(lines')
        OBVIOUS
      <4>2. PICK L : L = ParsedLeases(lines')
        OBVIOUS
      <4>3. MadeOfLeases(C, L)
        BY <3>1, <4>1, <4>2, LeaseFacts
      <4>4. C \in Seq(Range(C))
        BY <4>3 DEF MadeOfLeases
      <4>5. C \o <<>> = C
        BY <4>4, ConcatEmptySeq
      <4>6. PortalClients(<<>>) = <<>>
        BY DEF PortalClients
      <4>7. QED
        BY <3>1, <4>1, <4>5, <4>6
    <3>4. <<>> \in Sessions
      BY DEF Sessions
    <3>5. QED
      BY <3>1, <3>2, <3>3, <3>4 DEF MetadataInv, ClientsInv
  <2>3. CASE AskOpenNds
    BY <2>3 DEF ProviderInv, MetadataInv, ClientsInv, AskOpenNds, Sessions
  <2>4. CASE MergeClients
    BY <2>4 DEF ProviderInv, MetadataInv, ClientsInv, MergeClients, sources
  <2>5. QED
    BY <2>1, <2>2, <2>3, <2>4
<1>7. QED
  BY <1>2, <1>3, <1>4, <1>5, <1>6 DEF ProviderInv

(* A change of the network touches no variable of build.                   *)
LEMMA ChangesKeep ==
  ProviderInv /\ (Associate \/ Disassociate \/ InterfaceDown \/ InterfaceUp) => ProviderInv'
<1> SUFFICES ASSUME ProviderInv, Associate \/ Disassociate \/ InterfaceDown \/ InterfaceUp
             PROVE  ProviderInv'
  OBVIOUS
<1>1. /\ stage \in {"status", "hostapd"} /\ seen' = seen \cup assoc' /\ held' = held \cap assoc'
      /\ UNCHANGED <<stage, told, lines, portal, status, index, hostapd, associated, metadata,
                     members, clients>>
  BY DEF Associate, Disassociate, InterfaceDown, InterfaceUp, Change, sources, results
<1>2. /\ up \subseteq Interfaces /\ assoc \subseteq Macs \X up
      /\ seen \subseteq Macs \X Interfaces /\ held \subseteq Macs \X Interfaces
  BY DEF ProviderInv, NetworkInv
<1>3. up' \subseteq Interfaces /\ assoc' \subseteq Macs \X up'
  <2>1. CASE Associate
    BY <1>2, <2>1 DEF Associate
  <2>2. CASE Disassociate
    BY <1>2, <2>2 DEF Disassociate
  <2>3. CASE InterfaceDown
    <3>1. PICK i \in up : up' = up \ {i} /\ assoc' = {e \in assoc : e[2] # i}
      BY <2>3 DEF InterfaceDown
    <3>2. \A e \in assoc' : e \in Macs \X up /\ e[2] # i
      BY <1>2, <3>1
    <3>3. QED
      BY <1>2, <3>1, <3>2
  <2>4. CASE InterfaceUp
    BY <1>2, <2>4 DEF InterfaceUp
  <2>5. QED
    BY <2>1, <2>2, <2>3, <2>4
<1>4. NetworkInv'
  <2>1. seen' \subseteq Macs \X Interfaces /\ held' \subseteq Macs \X Interfaces
    BY <1>1, <1>2, <1>3
  <2>2. QED
    BY <1>1, <1>3, <2>1 DEF NetworkInv, Stages
<1>5. AnswersInv'
  BY <1>1 DEF ProviderInv, AnswersInv
<1>6. MembersInv'
  BY <1>1 DEF ProviderInv, MembersInv
<1>7. AssociatedInv'
  <2>1. associated \in Seq(ClientsOf(seen))
    BY DEF ProviderInv, AssociatedInv
  <2>2. associated \in Seq(ClientsOf(seen'))
    BY <1>1, <2>1, ClientsOfMore
  <2>3. QED
    BY <1>1, <2>2 DEF ProviderInv, AssociatedInv
<1>8. MetadataInv' /\ ClientsInv'
  BY <1>1 DEF ProviderInv, MetadataInv, ClientsInv
<1>9. QED
  BY <1>4, <1>5, <1>6, <1>7, <1>8 DEF ProviderInv

(* Every step of build, and every change of the network while it runs,     *)
(* keeps what the sources that were asked have said.                       *)
THEOREM ProviderCorrect == ProviderSpec => []ProviderInv
<1>1. ProviderInit => ProviderInv
  BY ProviderInvInit
<1>2. ProviderInv /\ [ProviderNext]_providerVars => ProviderInv'
  <2> SUFFICES ASSUME ProviderInv, [ProviderNext]_providerVars
               PROVE  ProviderInv'
    OBVIOUS
  <2>1. CASE ProviderNext
    BY <2>1, BeginKeeps, StatusFailsKeeps, StatusAnswersKeeps, HostapdAnswersKeeps,
       HostapdFailsKeeps, LaterStepsKeep, ChangesKeep DEF ProviderNext
  <2>2. CASE UNCHANGED providerVars
    <3>1. UNCHANGED <<stage, up, assoc, seen, held, told, lines, portal, status, index,
                      hostapd, associated, metadata, members, clients>>
      BY <2>2 DEF providerVars, network, sources, results
    <3>2. NetworkInv' /\ AnswersInv' /\ MembersInv'
      BY <3>1 DEF ProviderInv, NetworkInv, AnswersInv, MembersInv
    <3>3. AssociatedInv' /\ MetadataInv' /\ ClientsInv'
      BY <3>1 DEF ProviderInv, AssociatedInv, MetadataInv, ClientsInv
    <3>4. QED
      BY <3>2, <3>3 DEF ProviderInv
  <2>3. QED
    BY <2>1, <2>2
<1>3. QED
  BY <1>1, <1>2, PTL DEF ProviderSpec

-----------------------------------------------------------------------------
(* The wireless members.                                                   *)

Entries == [ssid : {i.ssid : i \in Interfaces} \ {None}, clntNum : Nat, down : Nat]
Radios == [stats : [Bands -> Seq(Entries)], staNum : [Bands -> Nat], traffic : [Bands -> Nat]]

(* What an answer counts is a number.                                      *)
LEMMA AnswerCounts ==
  ASSUME NEW a \in SUBSET Macs
  PROVE  Cardinality(a) \in Nat /\ TotalBytes(a) \in Nat
<1>1. IsFiniteSet(Macs) /\ Bytes \in [Macs -> Nat]
  BY ProviderAssumption
<1>2. IsFiniteSet(a)
  BY <1>1, FS_Subset
<1>3. SumFunctionOnSet(Bytes, a) \in Nat
  BY <1>1, SumProperties
<1>4. QED
  BY <1>2, <1>3, FS_CardinalityType DEF TotalBytes

(* The larger of two numbers.                                              *)
LEMMA MaxOfTwo ==
  ASSUME NEW x \in Nat, NEW y \in Nat
  PROVE  Max({x, y}) \in Nat /\ x <= Max({x, y}) /\ y <= Max({x, y})
<1>1. \E z \in {x, y} : \A v \in {x, y} : z >= v
  <2>1. CASE x <= y
    BY <2>1
  <2>2. CASE ~(x <= y)
    BY <2>2
  <2>3. QED
    BY <2>1, <2>2
<1>2. PICK s : s = {x, y}
  OBVIOUS
<1>3. \E z \in s : \A v \in s : z >= v
  BY <1>1, <1>2
<1>4. Max(s) \in s /\ \A v \in s : Max(s) >= v
  BY <1>3 DEF Max
<1>5. PICK z : z = Max(s)
  OBVIOUS
<1>6. z \in Nat /\ x <= z /\ y <= z
  BY <1>2, <1>4, <1>5
<1>7. QED
  BY <1>2, <1>5, <1>6

(* merge_ssid_stats replaces the entries of the same SSID.                 *)
LEMMA MergedStats ==
  ASSUME NEW stats \in Seq(Entries), NEW entry \in Entries
  PROVE  /\ MergeSsidStats(stats, entry) \in Seq(Entries)
         /\ \A e \in Range(MergeSsidStats(stats, entry)) :
              e = entry \/ (e \in Range(stats) /\ e.ssid # entry.ssid)
<1> DEFINE kept == {k \in DOMAIN stats : stats[k].ssid # entry.ssid}
<1>1. Len(stats) \in Nat /\ DOMAIN stats = 1..Len(stats)
  BY LenProperties
<1>2. kept \in SUBSET (1..Len(stats)) /\ \A k \in kept : stats[k].ssid # entry.ssid
  BY <1>1
<1>3. PICK q : q = Keep(stats, kept)
  OBVIOUS
<1>4. MergeSsidStats(stats, entry) = Append(q, entry)
  BY <1>3 DEF MergeSsidStats
<1> HIDE DEF kept
<1>5. q \in Seq(Entries) /\ \E pos : Kept(q, stats, kept, pos)
  BY <1>2, <1>3, KeepKeeps
<1>6. PICK pos : Kept(q, stats, kept, pos)
  BY <1>5
<1>7. \A j \in 1..Len(q) : q[j] = stats[pos[j]] /\ pos[j] \in kept
  BY <1>6 DEF Kept
<1>8. \A j \in 1..Len(q) : q[j] \in Range(stats) /\ q[j].ssid # entry.ssid
  <2>1. Range(stats) = {stats[k] : k \in 1..Len(stats)}
    BY RangeEquality
  <2>2. QED
    BY <1>2, <1>7, <2>1
<1>9. PICK r : r = Append(q, entry)
  OBVIOUS
<1>10. /\ r \in Seq(Entries) /\ Len(r) = Len(q) + 1 /\ r[Len(q) + 1] = entry
       /\ \A j \in 1..Len(q) : r[j] = q[j]
  BY <1>5, <1>9, AppendProperties
<1>11. Len(q) \in Nat
  BY <1>5, LenProperties
<1>12. Range(r) = {r[j] : j \in 1..Len(r)}
  BY <1>10, RangeEquality
<1>13. \A j \in 1..Len(r) : j \in 1..Len(q) \/ j = Len(q) + 1
  BY <1>10, <1>11
<1>14. ASSUME NEW e \in Range(r), e # entry
       PROVE  e \in Range(stats) /\ e.ssid # entry.ssid
  <2>1. PICK j \in 1..Len(r) : e = r[j]
    BY <1>12
  <2>2. j \in 1..Len(q)
    BY <1>10, <1>13, <1>14, <2>1
  <2>3. QED
    BY <1>8, <1>10, <2>1, <2>2
<1>15. \A e \in Range(r) : e = entry \/ (e \in Range(stats) /\ e.ssid # entry.ssid)
  BY <1>14
<1>16. MergeSsidStats(stats, entry) = r
  BY <1>4, <1>9
<1>17. QED
  BY <1>10, <1>15, <1>16

(* The entries that `status` gives a radio are those of its interfaces.    *)
LEMMA ListedStats ==
  ASSUME NEW list, Listing(list), NEW b \in Bands
  PROVE  /\ StatusSsidStats(list, b) \in Seq(Entries)
         /\ \A e \in Range(StatusSsidStats(list, b)) :
              \E k \in 1..Len(list) : list[k].iface.band = b /\ e.clntNum = list[k].stations
<1> DEFINE kept == {k \in DOMAIN list : list[k].iface.band = b /\ list[k].iface.ssid # None}
<1>1. list \in Seq([iface : Interfaces, stations : Nat])
  BY DEF Listing
<1>2. Len(list) \in Nat /\ DOMAIN list = 1..Len(list)
  BY <1>1, LenProperties
<1>3. \A k \in 1..Len(list) : list[k].iface \in Interfaces /\ list[k].stations \in Nat
  <2>1. \A k \in 1..Len(list) : list[k] \in [iface : Interfaces, stations : Nat]
    BY <1>1, ElementOfSeq
  <2>2. QED
    BY <2>1
<1>4. /\ kept \in SUBSET (1..Len(list))
      /\ \A k \in kept : list[k].iface.band = b /\ list[k].iface.ssid # None
  BY <1>2
<1>5. PICK q : q = Keep(list, kept)
  OBVIOUS
<1>6. PICK st : st = [k \in DOMAIN q |-> [ssid |-> q[k].iface.ssid,
                                          clntNum |-> q[k].stations, down |-> 0]]
  OBVIOUS
<1>7. StatusSsidStats(list, b) = st
  BY <1>5, <1>6 DEF StatusSsidStats
<1> HIDE DEF kept
<1>8. q \in Seq([iface : Interfaces, stations : Nat]) /\ \E pos : Kept(q, list, kept, pos)
  BY <1>1, <1>4, <1>5, KeepKeeps
<1>9. PICK pos : Kept(q, list, kept, pos)
  BY <1>8
<1>10. \A j \in 1..Len(q) : q[j] = list[pos[j]] /\ pos[j] \in kept
  BY <1>9 DEF Kept
<1>11. Len(q) \in Nat /\ DOMAIN q = 1..Len(q)
  BY <1>8, LenProperties
<1>12. ASSUME NEW j \in 1..Len(q)
       PROVE  /\ st[j].clntNum = q[j].stations /\ st[j] \in Entries
              /\ \E k \in 1..Len(list) : list[k].iface.band = b /\ q[j].stations = list[k].stations
  <2>1. PICK k \in 1..Len(list) : k \in kept /\ q[j] = list[k]
    BY <1>4, <1>10
  <2>2. /\ q[j].iface \in Interfaces /\ q[j].stations \in Nat /\ q[j].iface.band = b
        /\ q[j].iface.ssid # None
    BY <1>3, <1>4, <2>1
  <2>3. st[j] = [ssid |-> q[j].iface.ssid, clntNum |-> q[j].stations, down |-> 0]
    BY <1>6, <1>11
  <2>4. q[j].iface.ssid \in {i.ssid : i \in Interfaces} \ {None}
    BY <2>2
  <2>5. st[j] \in Entries /\ st[j].clntNum = q[j].stations
    BY <2>2, <2>3, <2>4 DEF Entries
  <2>6. QED
    BY <2>1, <2>2, <2>5
<1>13. st \in Seq(Entries) /\ Len(st) = Len(q)
  <2>1. st = [j \in 1..Len(q) |-> st[j]]
    BY <1>6, <1>11
  <2>2. st \in [1..Len(q) -> Entries]
    BY <1>12, <2>1
  <2>3. QED
    BY <1>11, <2>2
<1>14. Range(st) = {st[j] : j \in 1..Len(q)}
  BY <1>13, RangeEquality
<1>15. QED
  BY <1>7, <1>12, <1>13, <1>14

(* staNum is first the total of what `status` lists for the radio.         *)
LEMMA ListedStaNum ==
  ASSUME NEW list, Listing(list), NEW b \in Bands
  PROVE  /\ StatusStaNum(list, b) \in Nat
         /\ \A k \in 1..Len(list) :
              list[k].iface.band = b => list[k].stations <= StatusStaNum(list, b)
<1>1. list \in Seq([iface : Interfaces, stations : Nat])
  BY DEF Listing
<1>2. Len(list) \in Nat /\ DOMAIN list = 1..Len(list)
  BY <1>1, LenProperties
<1>3. \A k \in 1..Len(list) : list[k].stations \in Nat
  <2>1. \A k \in 1..Len(list) : list[k] \in [iface : Interfaces, stations : Nat]
    BY <1>1, ElementOfSeq
  <2>2. QED
    BY <2>1
<1>4. PICK w : w = [k \in 1..Len(list) |-> list[k].stations]
  OBVIOUS
<1>5. PICK T : T = {k \in 1..Len(list) : list[k].iface.band = b}
  OBVIOUS
<1>6. StatusStaNum(list, b) = SumFunctionOnSet(w, T)
  BY <1>2, <1>4, <1>5 DEF StatusStaNum
<1>7. w \in [1..Len(list) -> Nat] /\ T \in SUBSET (1..Len(list)) /\ IsFiniteSet(1..Len(list))
  <2>1. IsFiniteSet(1..Len(list))
    BY <1>2, FS_Interval
  <2>2. QED
    BY <1>3, <1>4, <1>5, <2>1
<1>8. SumFunctionOnSet(w, T) \in Nat /\ \A k \in T : w[k] <= SumFunctionOnSet(w, T)
  BY <1>7, SumProperties
<1>9. QED
  BY <1>4, <1>5, <1>6, <1>8

(* What `status` gives the radios.                                         *)
LEMMA ListedRadios ==
  ASSUME NEW list, Listing(list)
  PROVE  /\ FromStatus(list) \in Radios
         /\ \A b \in Bands :
              /\ FromStatus(list).traffic[b] = 0
              /\ \A e \in Range(FromStatus(list).stats[b]) : e.clntNum <= FromStatus(list).staNum[b]
<1>1. /\ FromStatus(list).stats = [b \in Bands |-> StatusSsidStats(list, b)]
      /\ FromStatus(list).staNum = [b \in Bands |-> StatusStaNum(list, b)]
      /\ FromStatus(list).traffic = [b \in Bands |-> 0]
      /\ FromStatus(list) = [stats |-> FromStatus(list).stats, staNum |-> FromStatus(list).staNum,
                             traffic |-> FromStatus(list).traffic]
  BY DEF FromStatus
<1>2. FromStatus(list).stats \in [Bands -> Seq(Entries)]
  BY <1>1, ListedStats
<1>3. FromStatus(list).staNum \in [Bands -> Nat]
  BY <1>1, ListedStaNum
<1>4. FromStatus(list).traffic \in [Bands -> Nat]
  BY <1>1
<1>5. FromStatus(list) \in Radios
  BY <1>1, <1>2, <1>3, <1>4 DEF Radios
<1>6. ASSUME NEW b \in Bands, NEW e \in Range(FromStatus(list).stats[b])
      PROVE  e.clntNum <= FromStatus(list).staNum[b]
  <2>1. e \in Range(StatusSsidStats(list, b))
    BY <1>1, <1>6
  <2>2. PICK k \in 1..Len(list) : list[k].iface.band = b /\ e.clntNum = list[k].stations
    BY <2>1, ListedStats
  <2>3. list[k].stations <= StatusStaNum(list, b)
    BY <2>2, ListedStaNum
  <2>4. QED
    BY <1>1, <2>2, <2>3
<1>7. QED
  BY <1>1, <1>5, <1>6

(* Whether the answer of an interface counts for a radio.                  *)
Counts(i, a, b) == i.band = b /\ i.ssid # None /\ a # NoClients

(* An answer of an interface changes its own radio only.                   *)
LEMMA OverriddenRadio ==
  ASSUME NEW r \in Radios, NEW i \in Interfaces, NEW a \in (SUBSET Macs) \cup {NoClients},
         NEW s, s = Overridden(r, i, a), NEW b \in Bands
  PROVE  /\ s \in Radios
         /\ ~Counts(i, a, b) =>
              s.stats[b] = r.stats[b] /\ s.staNum[b] = r.staNum[b] /\ s.traffic[b] = r.traffic[b]
         /\ Counts(i, a, b) =>
              /\ SsidStats(i.ssid, a) \in Entries
              /\ s.stats[b] = MergeSsidStats(r.stats[b], SsidStats(i.ssid, a))
              /\ s.staNum[b] = MergeStaNum(r.staNum[b], a)
              /\ s.traffic[b] = r.traffic[b] + TotalBytes(a)
<1>1. CASE i.band = None \/ i.ssid = None \/ a = NoClients
  <2>1. s = r
    BY <1>1 DEF Overridden
  <2>2. b # None
    BY DEF Bands
  <2>3. QED
    BY <1>1, <2>1, <2>2 DEF Counts
<1>2. CASE ~(i.band = None \/ i.ssid = None \/ a = NoClients)
  <2>1. i.band \in Bands /\ a \in SUBSET Macs
    BY <1>2 DEF Bands
  <2>2. Cardinality(a) \in Nat /\ TotalBytes(a) \in Nat
    BY <2>1, AnswerCounts
  <2>3. i.ssid \in {x.ssid : x \in Interfaces} \ {None}
    BY <1>2
  <2>4. SsidStats(i.ssid, a) \in Entries
    BY <2>2, <2>3 DEF SsidStats, Entries
  <2>5. r.stats \in [Bands -> Seq(Entries)] /\ r.staNum \in [Bands -> Nat] /\ r.traffic \in [Bands -> Nat]
    BY DEF Radios
  <2>6. PICK c : c = i.band
    OBVIOUS
  <2>7. PICK x : x = MergeSsidStats(r.stats[c], SsidStats(i.ssid, a))
    OBVIOUS
  <2>8. PICK y : y = MergeStaNum(r.staNum[c], a)
    OBVIOUS
  <2>9. PICK z : z = r.traffic[c] + TotalBytes(a)
    OBVIOUS
  <2>10. x \in Seq(Entries) /\ y \in Nat /\ z \in Nat
    <3>1. r.stats[c] \in Seq(Entries) /\ r.staNum[c] \in Nat /\ r.traffic[c] \in Nat
      BY <2>1, <2>5, <2>6
    <3>2. x \in Seq(Entries)
      BY <2>4, <2>7, <3>1, MergedStats
    <3>3. y \in Nat
      BY <2>2, <2>8, <3>1, MaxOfTwo DEF MergeStaNum
    <3>4. QED
      BY <2>2, <2>9, <3>1, <3>2, <3>3
  <2>11. s = [r EXCEPT !.stats[c] = x, !.staNum[c] = y, !.traffic[c] = z]
    BY <1>2, <2>6, <2>7, <2>8, <2>9 DEF Overridden, MergeTraffic
  <2>12. /\ s.stats = [r.stats EXCEPT ![c] = x] /\ s.staNum = [r.staNum EXCEPT ![c] = y]
         /\ s.traffic = [r.traffic EXCEPT ![c] = z]
    BY <2>11 DEF Radios
  <2>13. s \in Radios
    <3>1. /\ s.stats \in [Bands -> Seq(Entries)] /\ s.staNum \in [Bands -> Nat]
          /\ s.traffic \in [Bands -> Nat]
      BY <2>1, <2>5, <2>6, <2>10, <2>12
    <3>2. s = [stats |-> s.stats, staNum |-> s.staNum, traffic |-> s.traffic]
      BY <2>11 DEF Radios
    <3>3. QED
      BY <3>1, <3>2 DEF Radios
  <2>14. CASE b = c
    BY <1>2, <2>4, <2>5, <2>6, <2>7, <2>8, <2>9, <2>12, <2>13, <2>14 DEF Counts
  <2>15. CASE b # c
    BY <1>2, <2>5, <2>6, <2>12, <2>13, <2>15 DEF Counts
  <2>16. QED
    BY <2>14, <2>15
<1>3. QED
  BY <1>1, <1>2

(* Which of the first j answers count for a radio, and those of one SSID.  *)
Positions(list, answers, b, j) == {k \in 1..j : Counts(list[k].iface, answers[k], b)}
OfSsid(list, answers, b, x, j) ==
  {k \in Positions(list, answers, b, j) : list[k].iface.ssid = x}
Reached(list, answers, b, j) == {list[k].iface : k \in Positions(list, answers, b, j)}
LastOf(I, k) == k \in I /\ \A i \in I : i <= k

(* What an interface was told to have sent.                                *)
Weight(said) ==
  [i \in Interfaces |-> IF i.ifname \in DOMAIN said /\ said[i.ifname] # NoClients
                        THEN TotalBytes(said[i.ifname]) ELSE 0]

(* An entry of a radio after j answers.                                    *)
EntryGood(e, num, list, answers, b, j) ==
  /\ e.clntNum <= num
  /\ \A k : LastOf(OfSsid(list, answers, b, e.ssid, j), k) => e = SsidStats(e.ssid, answers[k])

(* A radio after j answers.                                                *)
RadioGood(r, list, answers, said, b, j) ==
  /\ r \in Radios
  /\ \A e \in Range(r.stats[b]) : EntryGood(e, r.staNum[b], list, answers, b, j)
  /\ r.traffic[b] = SumFunctionOnSet(Weight(said), Reached(list, answers, b, j))

(* The interfaces are finitely many.                                       *)
LEMMA InterfacesFinite ==
  IsFiniteSet(Interfaces)
<1>1. /\ Len(Network) \in Nat /\ DOMAIN Network = 1..Len(Network)
      /\ \A i \in Interfaces : \E p \in DOMAIN Network : Network[p] = i
  BY NetworkPositions
<1>2. Network \in Seq(Interfaces)
  BY ProviderAssumption
<1>3. Network \in [1..Len(Network) -> Interfaces]
  BY <1>2
<1>4. Network \in Surjection(1..Len(Network), Interfaces)
  BY <1>1, <1>3 DEF Surjection
<1>5. IsFiniteSet(1..Len(Network))
  BY <1>1, FS_Interval
<1>6. QED
  BY <1>4, <1>5, FS_Surjection

(* What the answers of a listing look like.                                *)
LEMMA AlignedFacts ==
  ASSUME NEW list, NEW answers, NEW said, Listing(list), Aligned(list, answers, said)
  PROVE  /\ Len(list) \in Nat /\ Len(answers) \in Nat /\ Len(answers) <= Len(list)
         /\ \A k \in 1..Len(answers) :
              /\ k \in 1..Len(list) /\ list[k].iface \in Interfaces
              /\ answers[k] \in (SUBSET Macs) \cup {NoClients}
              /\ list[k].iface.ifname \in DOMAIN said
              /\ said[list[k].iface.ifname] = answers[k]
         /\ \A name \in DOMAIN said : said[name] \in (SUBSET Macs) \cup {NoClients}
         /\ \A name \in DOMAIN said : \E k \in 1..Len(answers) : list[k].iface.ifname = name
<1>1. /\ list \in Seq([iface : Interfaces, stations : Nat])
      /\ answers \in Seq((SUBSET Macs) \cup {NoClients})
      /\ Len(answers) <= Len(list)
      /\ DOMAIN said = {list[k].iface.ifname : k \in 1..Len(answers)}
      /\ \A k \in 1..Len(answers) : said[list[k].iface.ifname] = answers[k]
  BY DEF Listing, Aligned
<1>2. Len(list) \in Nat /\ Len(answers) \in Nat
  BY <1>1, LenProperties
<1>3. \A k \in 1..Len(list) : list[k].iface \in Interfaces
  <2>1. \A k \in 1..Len(list) : list[k] \in [iface : Interfaces, stations : Nat]
    BY <1>1, ElementOfSeq
  <2>2. QED
    BY <2>1
<1>4. \A k \in 1..Len(answers) : answers[k] \in (SUBSET Macs) \cup {NoClients}
  BY <1>1, ElementOfSeq
<1>5. \A k \in 1..Len(answers) : k \in 1..Len(list)
  BY <1>1, <1>2
<1>6. QED
  BY <1>1, <1>2, <1>3, <1>4, <1>5

(* Weights are numbers.                                                    *)
LEMMA WeightType ==
  ASSUME NEW said, \A name \in DOMAIN said : said[name] \in (SUBSET Macs) \cup {NoClients}
  PROVE  Weight(said) \in [Interfaces -> Nat]
<1>1. ASSUME NEW i \in Interfaces, i.ifname \in DOMAIN said, said[i.ifname] # NoClients
      PROVE  TotalBytes(said[i.ifname]) \in Nat
  <2>1. said[i.ifname] \in SUBSET Macs
    BY <1>1
  <2>2. QED
    BY <2>1, AnswerCounts
<1>2. QED
  BY <1>1 DEF Weight

(* `status` alone: no answer counts yet.                                   *)
LEMMA RadioStart ==
  ASSUME NEW list, NEW answers, NEW said, Listing(list), Aligned(list, answers, said),
         NEW b \in Bands
  PROVE  RadioGood(FromStatus(list), list, answers, said, b, 0)
<1>1. PICK r : r = FromStatus(list)
  OBVIOUS
<1>2. /\ r \in Radios /\ r.traffic[b] = 0
      /\ \A e \in Range(r.stats[b]) : e.clntNum <= r.staNum[b]
  BY <1>1, ListedRadios
<1>3. Positions(list, answers, b, 0) = {}
  BY DEF Positions
<1>4. Reached(list, answers, b, 0) = {} /\ \A x : OfSsid(list, answers, b, x, 0) = {}
  BY <1>3 DEF Reached, OfSsid
<1>5. SumFunctionOnSet(Weight(said), {}) = 0
  <2>1. PICK w : w = Weight(said)
    OBVIOUS
  <2>2. w \in [Interfaces -> Nat]
    BY <2>1, WeightType, AlignedFacts
  <2>3. SumFunctionOnSet(w, {}) = 0
    BY <2>2, InterfacesFinite, SumProperties
  <2>4. QED
    BY <2>1, <2>3
<1>6. \A e \in Range(r.stats[b]) : EntryGood(e, r.staNum[b], list, answers, b, 0)
  BY <1>2, <1>4 DEF EntryGood, LastOf
<1>7. RadioGood(r, list, answers, said, b, 0)
  BY <1>2, <1>4, <1>5, <1>6 DEF RadioGood
<1>8. QED
  BY <1>1, <1>7

(* One more answer.                                                        *)
LEMMA RadioStep ==
  ASSUME NEW list, NEW answers, NEW said, Listing(list), Aligned(list, answers, said),
         NEW b \in Bands, NEW j \in Nat, j + 1 <= Len(answers),
         NEW r, RadioGood(r, list, answers, said, b, j),
         NEW s, s = Overridden(r, list[j + 1].iface, answers[j + 1])
  PROVE  RadioGood(s, list, answers, said, b, j + 1)
<1>1. PICK i : i = list[j + 1].iface
  OBVIOUS
<1>2. PICK a : a = answers[j + 1]
  OBVIOUS
<1>3. /\ Len(list) \in Nat /\ Len(answers) \in Nat /\ Len(answers) <= Len(list)
  BY AlignedFacts
<1>4. j + 1 \in 1..Len(answers) /\ j + 1 \in 1..Len(list)
  BY <1>3
<1>5. /\ i \in Interfaces /\ a \in (SUBSET Macs) \cup {NoClients}
      /\ i.ifname \in DOMAIN said /\ said[i.ifname] = a
  BY <1>1, <1>2, <1>4, AlignedFacts
<1>6. r \in Radios /\ s = Overridden(r, i, a)
  BY <1>1, <1>2 DEF RadioGood
<1>7. s \in Radios
  BY <1>5, <1>6, OverriddenRadio
<1>8. \A k \in 1..(j + 1) : k \in 1..j \/ k = j + 1
  OBVIOUS
<1>9. j + 1 \in 1..(j + 1) /\ \A k \in 1..j : k \in 1..(j + 1) /\ k <= j + 1 /\ k # j + 1
  OBVIOUS
<1>10. CASE ~Counts(i, a, b)
  <2>1. s.stats[b] = r.stats[b] /\ s.staNum[b] = r.staNum[b] /\ s.traffic[b] = r.traffic[b]
    BY <1>5, <1>6, <1>10, OverriddenRadio
  <2>2. Positions(list, answers, b, j + 1) = Positions(list, answers, b, j)
    BY <1>1, <1>2, <1>8, <1>9, <1>10 DEF Positions
  <2>3. /\ Reached(list, answers, b, j + 1) = Reached(list, answers, b, j)
        /\ \A x : OfSsid(list, answers, b, x, j + 1) = OfSsid(list, answers, b, x, j)
    BY <2>2 DEF Reached, OfSsid
  <2>4. \A e \in Range(s.stats[b]) : EntryGood(e, s.staNum[b], list, answers, b, j + 1)
    BY <2>1, <2>3 DEF RadioGood, EntryGood
  <2>5. QED
    BY <1>7, <2>1, <2>3, <2>4 DEF RadioGood
<1>11. CASE Counts(i, a, b)
  <2>1. PICK entry : entry = SsidStats(i.ssid, a)
    OBVIOUS
  <2>2. /\ entry \in Entries /\ s.stats[b] = MergeSsidStats(r.stats[b], entry)
        /\ s.staNum[b] = MergeStaNum(r.staNum[b], a) /\ s.traffic[b] = r.traffic[b] + TotalBytes(a)
    BY <1>5, <1>6, <1>11, <2>1, OverriddenRadio
  <2>3. a \in SUBSET Macs
    BY <1>5, <1>11 DEF Counts
  <2>4. Cardinality(a) \in Nat /\ TotalBytes(a) \in Nat
    BY <2>3, AnswerCounts
  <2>5. /\ r.stats[b] \in Seq(Entries) /\ r.staNum[b] \in Nat /\ r.traffic[b] \in Nat
        /\ s.staNum[b] \in Nat
    BY <1>6, <1>7 DEF Radios
  <2>6. r.staNum[b] <= s.staNum[b] /\ Cardinality(a) <= s.staNum[b]
    BY <2>2, <2>4, <2>5, MaxOfTwo DEF MergeStaNum
  <2>7. Positions(list, answers, b, j + 1) = Positions(list, answers, b, j) \cup {j + 1}
    BY <1>1, <1>2, <1>8, <1>9, <1>11 DEF Positions
  <2>8. entry.ssid = i.ssid /\ entry.clntNum = Cardinality(a)
    BY <2>1 DEF SsidStats
  <2>9. ASSUME NEW e \in Range(s.stats[b])
        PROVE  EntryGood(e, s.staNum[b], list, answers, b, j + 1)
    <3>1. CASE e = entry
      <4>1. j + 1 \in OfSsid(list, answers, b, e.ssid, j + 1)
        BY <1>1, <2>7, <2>8, <3>1 DEF OfSsid
      <4>2. \A k \in OfSsid(list, answers, b, e.ssid, j + 1) : k \in 1..(j + 1)
        BY DEF OfSsid, Positions
      <4>3. \A k : LastOf(OfSsid(list, answers, b, e.ssid, j + 1), k) => k = j + 1
        BY <4>1, <4>2 DEF LastOf
      <4>4. e = SsidStats(e.ssid, answers[j + 1])
        BY <1>2, <2>1, <2>8, <3>1
      <4>5. e.clntNum <= s.staNum[b]
        BY <2>6, <2>8, <3>1
      <4>6. QED
        BY <4>3, <4>4, <4>5 DEF EntryGood
    <3>2. CASE e # entry
      <4>1. e \in Range(r.stats[b]) /\ e.ssid # entry.ssid
        BY <2>2, <2>5, <2>9, <3>2, MergedStats
      <4>2. EntryGood(e, r.staNum[b], list, answers, b, j)
        BY <4>1 DEF RadioGood
      <4>3. OfSsid(list, answers, b, e.ssid, j + 1) = OfSsid(list, answers, b, e.ssid, j)
        BY <1>1, <2>7, <2>8, <4>1 DEF OfSsid
      <4>4. e.clntNum <= s.staNum[b]
        <5>1. e \in Entries
          BY <2>5, <4>1, RangeEquality
        <5>2. e.clntNum \in Nat
          BY <5>1 DEF Entries
        <5>3. e.clntNum <= r.staNum[b]
          BY <4>2 DEF EntryGood
        <5>4. QED
          BY <2>5, <2>6, <5>2, <5>3
      <4>5. QED
        BY <4>2, <4>3, <4>4 DEF EntryGood
    <3>3. QED
      BY <3>1, <3>2
  <2>10. s.traffic[b] = SumFunctionOnSet(Weight(said), Reached(list, answers, b, j + 1))
    <3>1. PICK w : w = Weight(said)
      OBVIOUS
    <3>2. w \in [Interfaces -> Nat] /\ w[i] = TotalBytes(a)
      <4>1. w \in [Interfaces -> Nat]
        BY <3>1, WeightType, AlignedFacts
      <4>2. w[i] = TotalBytes(a)
        BY <1>5, <1>11, <3>1 DEF Weight, Counts
      <4>3. QED
        BY <4>1, <4>2
    <3>3. PICK T : T = Reached(list, answers, b, j)
      OBVIOUS
    <3>4. Reached(list, answers, b, j + 1) = T \cup {i}
      BY <1>1, <2>7, <3>3 DEF Reached
    <3>5. \A k \in Positions(list, answers, b, j) : k \in 1..j /\ k \in 1..Len(answers)
      BY <1>3 DEF Positions
    <3>6. T \in SUBSET Interfaces
      <4>1. \A k \in 1..Len(answers) : list[k].iface \in Interfaces
        BY AlignedFacts
      <4>2. QED
        BY <3>3, <3>5, <4>1 DEF Reached
    <3>7. i \notin T
      <4> SUFFICES ASSUME i \in T
                   PROVE  FALSE
        OBVIOUS
      <4>1. PICK k \in Positions(list, answers, b, j) : list[k].iface = i
        BY <3>3 DEF Reached
      <4>2. k \in 1..j /\ k \in 1..Len(list)
        BY <3>5, <1>3, <4>1
      <4>3. k = j + 1
        BY <1>1, <1>4, <4>1, <4>2, DistinctNames
      <4>4. QED
        BY <4>2, <4>3
    <3>8. SumFunctionOnSet(w, T \cup {i}) = w[i] + SumFunctionOnSet(w, T)
      BY <1>5, <3>2, <3>6, <3>7, InterfacesFinite, SumProperties
    <3>9. r.traffic[b] = SumFunctionOnSet(w, T)
      BY <3>1, <3>3 DEF RadioGood
    <3>10. PICK v : v = SumFunctionOnSet(w, T)
      OBVIOUS
    <3>11. s.traffic[b] = w[i] + v
      BY <2>2, <2>4, <2>5, <3>2, <3>9, <3>10
    <3>12. QED
      BY <3>1, <3>4, <3>8, <3>10, <3>11
  <2>11. QED
    BY <1>7, <2>9, <2>10 DEF RadioGood
<1>12. QED
  BY <1>10, <1>11

(* All the answers.                                                        *)
LEMMA RadioEnd ==
  ASSUME NEW list, NEW answers, NEW said, Listing(list), Aligned(list, answers, said),
         NEW b \in Bands
  PROVE  RadioGood(WirelessMembers(list, answers), list, answers, said, b, Len(answers))
<1>1. /\ Len(list) \in Nat /\ Len(answers) \in Nat /\ Len(answers) <= Len(list)
  BY AlignedFacts
<1>2. PICK f : /\ f[0] = FromStatus(list)
               /\ WirelessMembers(list, answers) = f[Len(answers)]
               /\ \A k \in Nat : k + 1 <= Len(answers) =>
                    f[k + 1] = Overridden(f[k], list[k + 1].iface, answers[k + 1])
  BY <1>1, RadioLoop
<1> DEFINE S == {k \in Nat : k <= Len(answers) => RadioGood(f[k], list, answers, said, b, k)}
<1>3. 0 \in S
  BY <1>2, RadioStart
<1>4. ASSUME NEW k \in Nat, k \in S
      PROVE  k + 1 \in S
  <2> SUFFICES ASSUME k + 1 <= Len(answers)
               PROVE  RadioGood(f[k + 1], list, answers, said, b, k + 1)
    OBVIOUS
  <2>1. RadioGood(f[k], list, answers, said, b, k)
    BY <1>1, <1>4
  <2>2. f[k + 1] = Overridden(f[k], list[k + 1].iface, answers[k + 1])
    BY <1>2
  <2> HIDE DEF S
  <2>3. QED
    BY <2>1, <2>2, RadioStep
<1>5. Nat \subseteq S
  <2> HIDE DEF S
  <2>1. QED
    BY <1>3, <1>4, Induction
<1>6. QED
  BY <1>1, <1>2, <1>5

(* An interface is known by its name.                                      *)
LEMMA InterfaceNames ==
  ASSUME NEW i \in Interfaces, NEW k \in Interfaces, i.ifname = k.ifname
  PROVE  i = k
<1>1. PICK p \in DOMAIN Network : Network[p] = i
  BY NetworkPositions
<1>2. PICK q \in DOMAIN Network : Network[q] = k
  BY NetworkPositions
<1>3. p = q
  BY <1>1, <1>2, NetworkPositions
<1>4. QED
  BY <1>1, <1>2, <1>3

AnsweredIn(said) == {n \in DOMAIN said : said[n] # NoClients}

SameIn(said, b, x) ==
  {k \in DOMAIN Network : Network[k].band = b /\ Network[k].ssid = x
                          /\ Network[k].ifname \in AnsweredIn(said)}

(* The last interface of an SSID that answered is the last of its entries  *)
(* in the listing.                                                         *)
LEMMA LastAnswer ==
  ASSUME NEW list, NEW answers, NEW said, Listing(list), Aligned(list, answers, said),
         NEW b, NEW x, x # None, SameIn(said, b, x) # {}
  PROVE  \E k : /\ LastOf(OfSsid(list, answers, b, x, Len(answers)), k)
                /\ said[Network[Max(SameIn(said, b, x))].ifname] = answers[k]
<1>1. PICK same : same = SameIn(said, b, x)
  OBVIOUS
<1>2. PICK q : q = Max(same)
  OBVIOUS
<1>3. Len(Network) \in Nat /\ same \in SUBSET (1..Len(Network)) /\ same # {}
  BY <1>1, NetworkPositions DEF SameIn
<1>4. q \in same /\ \A p \in same : p <= q
  BY <1>2, <1>3, LastIndex
<1>5. /\ q \in DOMAIN Network /\ Network[q] \in Interfaces /\ Network[q].band = b
      /\ Network[q].ssid = x /\ Network[q].ifname \in DOMAIN said
      /\ said[Network[q].ifname] # NoClients
  BY <1>1, <1>4, NetworkPositions DEF SameIn, AnsweredIn
<1>6. PICK k \in 1..Len(answers) : list[k].iface.ifname = Network[q].ifname
  <2>1. \A name \in DOMAIN said : \E k \in 1..Len(answers) : list[k].iface.ifname = name
    BY AlignedFacts
  <2>2. QED
    BY <1>5, <2>1
<1>7. /\ k \in 1..Len(list) /\ list[k].iface \in Interfaces
      /\ said[list[k].iface.ifname] = answers[k]
  BY AlignedFacts
<1>8. list[k].iface = Network[q]
  BY <1>5, <1>6, <1>7, InterfaceNames
<1>9. k \in OfSsid(list, answers, b, x, Len(answers))
  BY <1>5, <1>7, <1>8 DEF OfSsid, Positions, Counts
<1>10. ASSUME NEW j \in OfSsid(list, answers, b, x, Len(answers))
       PROVE  j <= k
  <2>1. /\ j \in 1..Len(answers) /\ list[j].iface.band = b /\ list[j].iface.ssid = x
        /\ answers[j] # NoClients
    BY DEF OfSsid, Positions, Counts
  <2>2. /\ j \in 1..Len(list) /\ list[j].iface \in Interfaces
        /\ list[j].iface.ifname \in DOMAIN said /\ said[list[j].iface.ifname] = answers[j]
    <3>1. j \in 1..Len(answers)
      BY <2>1
    <3>2. QED
      BY <3>1, AlignedFacts
  <2>3. PICK p \in DOMAIN Network : Network[p] = list[j].iface
    BY <2>2, NetworkPositions
  <2>4. p \in same
    BY <1>1, <2>1, <2>2, <2>3 DEF SameIn, AnsweredIn
  <2>5. p <= q /\ p \in Nat /\ q \in Nat
    BY <1>3, <1>4, <2>4
  <2>6. ASSUME k < j
        PROVE  FALSE
    <3>1. q < p
      BY <1>5, <1>7, <1>8, <2>2, <2>3, <2>6 DEF Listing
    <3>2. QED
      BY <2>5, <3>1
  <2>7. j \in Nat /\ k \in Nat
    BY <2>1, AlignedFacts
  <2>8. QED
    BY <2>6, <2>7
<1>11. LastOf(OfSsid(list, answers, b, x, Len(answers)), k)
  BY <1>9, <1>10 DEF LastOf
<1>12. said[Network[Max(SameIn(said, b, x))].ifname] = answers[k]
  BY <1>1, <1>2, <1>7, <1>8
<1>13. QED
  BY <1>11, <1>12

(* The interfaces whose traffic a radio reports.                           *)
RadioIn(said, b) ==
  {i \in Interfaces : i.band = b /\ i.ssid # None /\ i.ifname \in AnsweredIn(said)}

(* They are the ones that the loop has added up.                           *)
LEMMA ReachedAll ==
  ASSUME NEW list, NEW answers, NEW said, Listing(list), Aligned(list, answers, said), NEW b
  PROVE  Reached(list, answers, b, Len(answers)) = RadioIn(said, b)
<1>1. ASSUME NEW i \in Reached(list, answers, b, Len(answers))
      PROVE  i \in RadioIn(said, b)
  <2>1. PICK k \in 1..Len(answers) : i = list[k].iface /\ Counts(i, answers[k], b)
    BY DEF Reached, Positions
  <2>2. /\ list[k].iface \in Interfaces
        /\ list[k].iface.ifname \in DOMAIN said /\ said[list[k].iface.ifname] = answers[k]
    BY AlignedFacts
  <2>3. QED
    BY <2>1, <2>2 DEF RadioIn, AnsweredIn, Counts
<1>2. ASSUME NEW i \in RadioIn(said, b)
      PROVE  i \in Reached(list, answers, b, Len(answers))
  <2>1. /\ i \in Interfaces /\ i.band = b /\ i.ssid # None /\ i.ifname \in DOMAIN said
        /\ said[i.ifname] # NoClients
    BY DEF RadioIn, AnsweredIn
  <2>2. PICK k \in 1..Len(answers) : list[k].iface.ifname = i.ifname
    <3>1. \A name \in DOMAIN said : \E k \in 1..Len(answers) : list[k].iface.ifname = name
      BY AlignedFacts
    <3>2. QED
      BY <2>1, <3>1
  <2>3. list[k].iface \in Interfaces /\ said[list[k].iface.ifname] = answers[k]
    BY AlignedFacts
  <2>4. list[k].iface = i
    BY <2>1, <2>2, <2>3, InterfaceNames
  <2>5. k \in Positions(list, answers, b, Len(answers))
    BY <2>1, <2>3, <2>4 DEF Positions, Counts
  <2>6. QED
    BY <2>4, <2>5 DEF Reached
<1>3. QED
  BY <1>1, <1>2

(* A total over the interfaces of a radio is the same with other weights   *)
(* for the rest.                                                           *)
LEMMA RadioTraffic ==
  ASSUME NEW said, NEW b, NEW T, T = RadioIn(said, b),
         NEW g, g = [i \in T |-> TotalBytes(said[i.ifname])]
  PROVE  SumFunction(g) = SumFunctionOnSet(Weight(said), T)
<1>1. PICK w : w = Weight(said)
  OBVIOUS
<1>2. T \in SUBSET Interfaces /\ T \in SUBSET T
  BY DEF RadioIn
<1>3. IsFiniteSet(T)
  BY <1>2, InterfacesFinite, FS_Subset
<1>4. \A i \in T : g[i] = w[i]
  BY <1>1 DEF RadioIn, AnsweredIn, Weight
<1>5. SumFunction(g) = SumFunctionOnSet(g, T)
  BY DEF SumFunction, FoldFunction, SumFunctionOnSet
<1>6. PICK f : Summed(w, T, f) /\ SumFunctionOnSet(w, T) = f[T]
  BY <1>3, SumIsSummed
<1>7. PICK h : Summed(g, T, h) /\ SumFunctionOnSet(g, T) = h[T]
  BY <1>3, SumIsSummed
<1>8. h[T] = f[T]
  BY <1>2, <1>3, <1>4, <1>6, <1>7, SummedUnique
<1>9. QED
  BY <1>1, <1>5, <1>6, <1>7, <1>8

(* Every entry of a radio is that of its own SSID.                         *)
LEMMA InvStatsOfOwnSsid ==
  ProviderInv => StatsOfOwnSsid
<1> SUFFICES ASSUME ProviderInv, NEW b \in Bands, NEW e \in Range(members.stats[b])
             PROVE  LET same == {k \in DOMAIN Network :
                                   /\ Network[k].band = b /\ Network[k].ssid = e.ssid
                                   /\ Network[k].ifname \in Answered}
                    IN  same # {} =>
                          LET answer == told[Network[Max(same)].ifname]
                          IN  e.clntNum = Cardinality(answer) /\ e.down = TotalBytes(answer)
  BY DEF StatsOfOwnSsid
<1>1. Listing(status) /\ Aligned(status, hostapd, told)
  BY DEF ProviderInv, AnswersInv
<1>2. members # NoMembers
  <2> SUFFICES ASSUME members = NoMembers
               PROVE  FALSE
    OBVIOUS
  <2>1. members.stats[b] = <<>>
    BY DEF NoMembers
  <2>2. Range(<<>>) = {}
    BY DEF Range
  <2>3. QED
    BY <2>1, <2>2
<1>3. members = WirelessMembers(status, hostapd)
  BY <1>2 DEF ProviderInv, MembersInv
<1>4. RadioGood(members, status, hostapd, told, b, Len(hostapd))
  BY <1>1, <1>3, RadioEnd
<1>5. members \in Radios /\ EntryGood(e, members.staNum[b], status, hostapd, b, Len(hostapd))
  BY <1>4 DEF RadioGood
<1>6. e.ssid # None
  <2>1. members.stats[b] \in Seq(Entries)
    BY <1>5 DEF Radios
  <2>2. e \in Entries
    BY <2>1, RangeEquality
  <2>3. QED
    BY <2>2 DEF Entries
<1>7. PICK same : same = SameIn(told, b, e.ssid)
  OBVIOUS
<1>8. {k \in DOMAIN Network : /\ Network[k].band = b /\ Network[k].ssid = e.ssid
                              /\ Network[k].ifname \in Answered} = same
  BY <1>7 DEF SameIn, AnsweredIn, Answered, Failed
<1>9. ASSUME same # {}
      PROVE  LET answer == told[Network[Max(same)].ifname]
             IN  e.clntNum = Cardinality(answer) /\ e.down = TotalBytes(answer)
  <2>1. PICK k : /\ LastOf(OfSsid(status, hostapd, b, e.ssid, Len(hostapd)), k)
                 /\ told[Network[Max(same)].ifname] = hostapd[k]
    BY <1>1, <1>6, <1>7, <1>9, LastAnswer
  <2>2. e = SsidStats(e.ssid, hostapd[k])
    BY <1>5, <2>1 DEF EntryGood
  <2>3. e.clntNum = Cardinality(hostapd[k]) /\ e.down = TotalBytes(hostapd[k])
    BY <2>2 DEF SsidStats
  <2>4. QED
    BY <2>1, <2>3
<1>10. QED
  BY <1>8, <1>9

(* A radio covers all its interfaces that answered.                        *)
LEMMA InvRadioTotals ==
  ProviderInv => RadioTotals
<1> SUFFICES ASSUME ProviderInv, stage \in {"leases", "portal", "merge", "done"}, status # <<>>,
                    NEW b \in Bands
             PROVE  /\ \A e \in Range(members.stats[b]) : e.clntNum <= members.staNum[b]
                    /\ members.traffic[b] =
                         SumFunction([i \in {j \in Interfaces : /\ j.band = b /\ j.ssid # None
                                                               /\ j.ifname \in Answered}
                                        |-> TotalBytes(told[i.ifname])])
  BY DEF RadioTotals
<1>1. Listing(status) /\ Aligned(status, hostapd, told)
  BY DEF ProviderInv, AnswersInv
<1>2. members = WirelessMembers(status, hostapd)
  BY DEF ProviderInv, MembersInv, Past
<1>3. RadioGood(members, status, hostapd, told, b, Len(hostapd))
  BY <1>1, <1>2, RadioEnd
<1>4. \A e \in Range(members.stats[b]) : e.clntNum <= members.staNum[b]
  BY <1>3 DEF RadioGood, EntryGood
<1>5. PICK T : T = RadioIn(told, b)
  OBVIOUS
<1>6. {j \in Interfaces : /\ j.band = b /\ j.ssid # None /\ j.ifname \in Answered} = T
  BY <1>5 DEF RadioIn, AnsweredIn, Answered, Failed
<1>7. PICK g : g = [i \in T |-> TotalBytes(told[i.ifname])]
  OBVIOUS
<1>8. members.traffic[b] = SumFunctionOnSet(Weight(told), T)
  BY <1>1, <1>3, <1>5, ReachedAll DEF RadioGood
<1>9. SumFunction(g) = SumFunctionOnSet(Weight(told), T)
  BY <1>5, <1>7, RadioTraffic
<1>10. QED
  BY <1>4, <1>6, <1>7, <1>8, <1>9

-----------------------------------------------------------------------------
(* The properties of a snapshot, for any network, any stations and any     *)
(* number of changes while it is put together.                             *)

(* "hostapd association is the active source of truth": no lease and no    *)
(* portal session brings a station into clientStats that hostapd did not   *)
(* hold on the reported interface during the build.                        *)
THEOREM OnlyAssociatedAlways == ProviderSpec => []OnlyAssociated
  BY ProviderCorrect, InvOnlyAssociated, PTL

(* A station that stayed on a listed interface is reported unless the      *)
(* query of that very interface failed.                                    *)
THEOREM StayersReportedAlways == ProviderSpec => []StayersReported
  BY ProviderCorrect, InvStayersReported, PTL

(* Whatever queries fail, the counts of an SSID are those of the last      *)
(* interface of that SSID and band that answered.                          *)
THEOREM StatsOfOwnSsidAlways == ProviderSpec => []StatsOfOwnSsid
  BY ProviderCorrect, InvStatsOfOwnSsid, PTL

(* The traffic of a radio is the total of its interfaces that answered and *)
(* its staNum is no less than the count of any of its SSIDs.               *)
THEOREM RadioTotalsAlways == ProviderSpec => []RadioTotals
  BY ProviderCorrect, InvRadioTotals, PTL

(* A station's address is the one of openNDS, else that of its newest      *)
(* lease, and its portal state is that of openNDS.                         *)
THEOREM MetadataPrecedenceAlways == ProviderSpec => []MetadataPrecedence
  BY ProviderCorrect, InvMetadataPrecedence, PTL
=============================================================================
