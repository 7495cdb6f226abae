--------------------------- MODULE AppliersProofs ---------------------------
(***************************************************************************)
(* The appliers for every set of requests, every platform and every number *)
(* of updates: what a rejected update leaves alone, the openNDS            *)
(* configuration, the networks of the SSIDs, that an update reported as    *)
(* applied is what the device does, and that none with a defect is.        *)
(***************************************************************************)
EXTENDS Appliers, SequenceTheorems, FiniteSetTheorems, TLAPS

(***************************************************************************)
(* The inductive invariant                                                 *)
(***************************************************************************)
(* Outcomes: nothing ran before the plan is accepted, and a platform with  *)
(* the portal has openNDS.                                                 *)
OutcomeInv ==
  /\ pc \in {"idle", "plan", "batch", "reload", "portal", "policy", "clients"}
  /\ pc # "idle" => outcome = "none" /\ update \in Parsed
  /\ pc = "plan" => ~ran
  /\ "portal" \in caps.supports => caps.nds
  /\ caps.maxSsids \in Nat
  /\ RejectedUntouched

(* The elements of a list after the i-th.                                  *)
After(q, i) == {q[j] : j \in (i + 1)..Len(q)}

(* `uci batch`: the networks, their commit, the wireless sections, their   *)
(* commit; a network that is deleted is set again.                         *)
SetNet(key) == Cmd("set", "network", key, "none")

UciShape(c) ==
  /\ c.pkg \in {"network", "wireless"} /\ c.op \in {"delete", "set", "commit"}
  /\ c.op = "commit" => c = Commit(c.pkg)
  /\ c.pkg = "network" /\ c.op = "set" /\ c.key[1] = "vlan" => c.val = "none"

UciFollows(c, rest) ==
  /\ c.pkg = "wireless" \/ c.op = "commit" => \A d \in rest : d.pkg = "wireless"
  /\ c.pkg = "network" /\ c.op # "commit" => Commit("network") \in rest
  /\ c.pkg = "network" /\ c.op = "delete" => SetNet(c.key) \in rest

UciOrder(q) ==
  /\ q \in Seq(Range(q))
  /\ \A i \in 1..Len(q) : UciShape(q[i]) /\ UciFollows(q[i], After(q, i))

(* The network of an SSID, while these commands are still to be run: it is *)
(* committed or will be before the wireless package is.                    *)
Net(key) == <<"network", key, "none">>
Vlanned(t) == t[2][1] \in Range(AllBands) /\ t[3].network[1] = "vlan"
Coming(st, rest, key) == Net(key) \in st \/ SetNet(key) \in rest
Provided(cm, st, rest, key) ==
  IF Commit("network") \in rest THEN Coming(st, rest, key) ELSE Net(key) \in cm

NetsStay(cm, st, rest) ==
  \A t \in Of(cm, "network") : t[2][1] = "vlan" /\ t = Net(t[2]) => Coming(st, rest, t[2])
StagedProvided(cm, st, rest) ==
  \A t \in Of(st, "wireless") : Vlanned(t) => Provided(cm, st, rest, t[3].network)
LinesProvided(cm, st, rest) ==
  \A c \in rest : c.op = "set" /\ c.pkg = "wireless" /\ Vlanned(<<c.pkg, c.key, c.val>>)
                  => Provided(cm, st, rest, c.val.network)
CommittedProvided(cm) ==
  \A t \in Of(cm, "wireless") : Vlanned(t) => Net(t[3].network) \in cm

NetInv(cm, st, rest) ==
  /\ NetsStay(cm, st, rest) /\ StagedProvided(cm, st, rest)
  /\ LinesProvided(cm, st, rest) /\ CommittedProvided(cm)

BatchInv ==
  /\ pc = "batch" => queue # <<>> /\ UciOrder(queue)
  /\ cut \/ NetInv(committed, staged, IF pc = "batch" THEN Range(queue) ELSE {})

(* The openNDS plan: what it adds is part of the policy's configuration C  *)
(* and is not deleted later; nothing but the restart follows the commit.   *)
Removes(c, key) == c.op \in {"delete", "set"} /\ c.pkg = "opennds" /\ c.key = key
Adds(c, t) == c.op \in {"add", "set"} /\ t = <<c.pkg, c.key, c.val>>

NdsShape(c, C) ==
  \/ c.op = "delete" /\ c.pkg = "opennds"
  \/ c.op \in {"add", "set"} /\ c.pkg = "opennds" /\ <<c.pkg, c.key, c.val>> \in C
  \/ c.op \in {"write", "restart"} /\ c.pkg \in {"theme", "opennds"}
  \/ c.op = "commit" /\ c.pkg = "opennds"

NdsFollows(c, rest) ==
  /\ c.op \in {"add", "set"} => \A d \in rest : ~Removes(d, c.key)
  /\ c.op = "commit" => \A d \in rest : d.op = "restart"

NdsOrder(q, C) ==
  /\ q \in Seq(Range(q))
  /\ \A i \in 1..Len(q) : NdsShape(q[i], C) /\ NdsFollows(q[i], After(q, i))

(* The staged configuration on its way to C: what does not belong there    *)
(* will be removed, what is missing will be added.                         *)
Progress(C, rest, st) ==
  /\ \A t \in Of(st, "opennds") : t \in C \/ \E c \in rest : Removes(c, t[2])
  /\ \A t \in C : \/ \E c \in rest : Adds(c, t)
                  \/ t \in st /\ \A c \in rest : ~Removes(c, t[2])

NdsKeys == {Option("fqdn"), Option("users"), Option("themespec"), Option("login")}
KeysKnown(cfg) == \A t \in Of(cfg, "opennds") : t[2] \in NdsKeys

PortalInv ==
  /\ KeysKnown(staged) /\ KeysKnown(committed)
  /\ pc = "policy" =>
       LET C == PolicyConfig(Policy(UpdateOf[update])) IN
       /\ HasPolicyUpdate(UpdateOf[update])
       /\ queue # <<>> /\ NdsOrder(queue, C)
       /\ missed \/ Progress(C, Range(queue), staged)
  /\ PortalFromOneUpdate

AppliersInv == OutcomeInv /\ BatchInv /\ PortalInv

-----------------------------------------------------------------------------
(* Induction over the natural numbers, with a set for the property.        *)

(* A set of numbers has a least one.                                       *)
LEMMA LeastNumber ==
  ASSUME NEW T \in SUBSET Nat, T # {}
  PROVE  \E n \in T : \A m \in T : n <= m
<1> DEFINE R == OpToRel(<, Nat)
<1>1. IsWellFoundedOn(R, Nat)
  BY NatLessThanWellFounded
<1>2. \A x, y \in Nat : x < y => <<x, y>> \in R
  BY DEF OpToRel
<1> HIDE DEF R
<1>3. PICK n \in T : \A m \in T : ~(<<m, n>> \in R)
  BY <1>1, WFMin
<1>4. \A m \in T : ~(m < n)
  BY <1>2, <1>3
<1>5. QED
  BY <1>3, <1>4

(* A set with 0 and the successors of its numbers has all numbers.         *)
LEMMA Induction ==
  ASSUME NEW S, 0 \in S, \A n \in Nat : n \in S => n + 1 \in S
  PROVE  Nat \subseteq S
<1> SUFFICES ASSUME Nat \ S # {}
             PROVE  FALSE
  OBVIOUS
<1>1. PICK n \in Nat \ S : \A m \in Nat \ S : n <= m
  BY LeastNumber
<1>2. n # 0 /\ n - 1 \in Nat /\ ~(n <= n - 1)
  BY <1>1
<1>3. n - 1 \in S
  BY <1>1, <1>2
<1>4. QED
  BY <1>1, <1>2, <1>3

-----------------------------------------------------------------------------
(* FlattenSeq: f[i] is the concatenation of the first i sequences.         *)
Flat(s, f, n) == f = [i \in 1..n |-> IF i = 1 THEN s[i] ELSE f[i - 1] \o s[i]]

(* There is such a function.                                               *)
LEMMA FlatExists ==
  ASSUME NEW s, NEW n \in Nat
  PROVE  \E f : Flat(s, f, n)
<1> DEFINE S == {k \in Nat : \E f : Flat(s, f, k)}
<1>1. 0 \in S
  <2>1. Flat(s, [i \in 1..0 |-> s[i]], 0)
    BY DEF Flat
  <2>2. QED
    BY <2>1
<1>2. ASSUME NEW k \in Nat, k \in S
      PROVE  k + 1 \in S
  <2>1. PICK g : Flat(s, g, k)
    BY <1>2
  <2> DEFINE f == [i \in 1..(k + 1) |->
                     IF i = k + 1 THEN IF i = 1 THEN s[i] ELSE g[i - 1] \o s[i] ELSE g[i]]
  <2>2. ASSUME NEW i \in 1..(k + 1)
        PROVE  f[i] = IF i = 1 THEN s[i] ELSE f[i - 1] \o s[i]
    <3>1. CASE i = k + 1
      <4>1. i # 1 => i - 1 \in 1..(k + 1) /\ i - 1 # k + 1
        BY <2>2, <3>1
      <4>2. i # 1 => f[i - 1] = g[i - 1]
        BY <4>1
      <4>3. QED
        BY <3>1, <4>2
    <3>2. CASE i # k + 1
      <4>1. i \in 1..k
        BY <2>2, <3>2
      <4>2. i # 1 => i - 1 \in 1..k /\ i - 1 \in 1..(k + 1) /\ i - 1 # k + 1
        BY <4>1
      <4>3. g[i] = IF i = 1 THEN s[i] ELSE g[i - 1] \o s[i]
        BY <2>1, <4>1 DEF Flat
      <4>4. i # 1 => f[i - 1] = g[i - 1]
        BY <4>2
      <4>5. f[i] = g[i]
        BY <2>2, <3>2
      <4>6. QED
        BY <4>3, <4>4, <4>5
    <3>3. QED
      BY <3>1, <3>2
  <2>3. Flat(s, f, k + 1)
    BY <2>2 DEF Flat
  <2>4. QED
    BY <2>3
<1>3. Nat \subseteq S
  BY <1>1, <1>2, Induction
<1>4. QED
  BY <1>3

(* FlattenSeq is its last value.                                           *)
LEMMA FlattenIsFlat ==
  ASSUME NEW s, Len(s) \in Nat, Len(s) # 0
  PROVE  \E f : Flat(s, f, Len(s)) /\ FlattenSeq(s) = f[Len(s)]
<1> DEFINE f == CHOOSE g : g = [i \in 1..Len(s) |-> IF i = 1 THEN s[i] ELSE g[i - 1] \o s[i]]
<1>1. \E g : g = [i \in 1..Len(s) |-> IF i = 1 THEN s[i] ELSE g[i - 1] \o s[i]]
  BY FlatExists DEF Flat
<1>2. f = [i \in 1..Len(s) |-> IF i = 1 THEN s[i] ELSE f[i - 1] \o s[i]]
  BY <1>1
<1>3. FlattenSeq(s) = f[Len(s)]
  BY DEF FlattenSeq
<1>4. QED
  BY <1>2, <1>3 DEF Flat

(* A set of sequences with the empty one and their concatenations has what *)
(* FlattenSeq makes of them.                                               *)
LEMMA FlattenClosed ==
  ASSUME NEW Q, <<>> \in Q, \A a, b \in Q : a \o b \in Q,
         NEW s \in Seq(Q)
  PROVE  FlattenSeq(s) \in Q
<1>1. Len(s) \in Nat /\ \A i \in 1..Len(s) : s[i] \in Q
  BY LenProperties, ElementOfSeq
<1>2. CASE Len(s) = 0
  <2>1. s = <<>>
    BY <1>2, EmptySeq
  <2>2. QED
    BY <1>2, <2>1 DEF FlattenSeq
<1>3. CASE Len(s) # 0
  <2>1. PICK f : Flat(s, f, Len(s)) /\ FlattenSeq(s) = f[Len(s)]
    BY <1>1, <1>3, FlattenIsFlat
  <2> DEFINE S == {k \in Nat : k \in 1..Len(s) => f[k] \in Q}
  <2>2. 0 \in S
    OBVIOUS
  <2>3. ASSUME NEW k \in Nat, k \in S 
        PROVE  k + 1 \in S
    <3> SUFFICES ASSUME k + 1 \in 1..Len(s) PROVE f[k + 1] \in Q
      OBVIOUS
    <3>1. f[k + 1] = IF k + 1 = 1 THEN s[k + 1] ELSE f[k] \o s[k + 1]
      <4>1. f[k + 1] = IF k + 1 = 1 THEN s[k + 1] ELSE f[(k + 1) - 1] \o s[k + 1]
        BY <2>1 DEF Flat
      <4>2. (k + 1) - 1 = k
        OBVIOUS
      <4>3. QED
        BY <4>1, <4>2
    <3>2. k # 0 => f[k] \in Q
      BY <1>1, <2>3
    <3>3. QED
      BY <1>1, <3>1, <3>2
  <2>4. Nat \subseteq S
    BY <2>2, <2>3, Induction
  <2>5. QED
    BY <1>1, <1>3, <2>1, <2>4
<1>4. QED
  BY <1>1, <1>2, <1>3

(* What holds with one of the sequences at the end, and stays so with each *)
(* later one after it, holds of what FlattenSeq makes of them.             *)
LEMMA FlattenFrom ==
  ASSUME NEW S, NEW s \in Seq(Seq(S)), NEW m \in 1..Len(s), NEW Q \in SUBSET Seq(S),
         s[m] \in Q, \A a \in Seq(S) : a \o s[m] \in Q,
         \A k \in (m + 1)..Len(s) : \A a \in Q : a \o s[k] \in Q
  PROVE  FlattenSeq(s) \in Q
<1>1. Len(s) \in Nat /\ Len(s) # 0 /\ \A i \in 1..Len(s) : s[i] \in Seq(S)
  BY LenProperties, ElementOfSeq
<1>2. PICK f : Flat(s, f, Len(s)) /\ FlattenSeq(s) = f[Len(s)]
  BY <1>1, FlattenIsFlat
<1> DEFINE Found(k) == f[k] \in Seq(S) /\ (m <= k => f[k] \in Q)
           T == {k \in Nat : k \in 1..Len(s) => Found(k)}
<1>3. 0 \in T
  OBVIOUS
<1>4. ASSUME NEW k \in Nat, k \in T
      PROVE  k + 1 \in T
  <2> SUFFICES ASSUME k + 1 \in 1..Len(s)
               PROVE  Found(k + 1)
    OBVIOUS
  <2>1. f[k + 1] = IF k + 1 = 1 THEN s[k + 1] ELSE f[k] \o s[k + 1]
    <3>1. f[k + 1] = IF k + 1 = 1 THEN s[k + 1] ELSE f[(k + 1) - 1] \o s[k + 1]
      BY <1>2 DEF Flat
    <3>2. (k + 1) - 1 = k
      OBVIOUS
    <3>3. QED
      BY <3>1, <3>2
  <2>2. s[k + 1] \in Seq(S)
    BY <1>1
  <2>3. CASE k = 0
    <3>1. f[k + 1] = s[k + 1] /\ (m <= k + 1 => m = k + 1)
      BY <2>1, <2>3
    <3>2. QED
      BY <2>2, <3>1
  <2>4. CASE k # 0
    <3>1. k \in 1..Len(s) /\ Found(k)
      <4>1. k \in 1..Len(s)
        BY <1>1, <1>4, <2>4
      <4> HIDE DEF Found
      <4>2. QED
        BY <1>4, <4>1
    <3>2. /\ k + 1 # 1 /\ (m <= k + 1 => m <= k \/ m = k + 1)
          /\ m <= k => k + 1 \in (m + 1)..Len(s)
      BY <2>4
    <3>3. f[k + 1] = f[k] \o s[k + 1]
      BY <2>1, <3>2, Zenon
    <3>4. f[k] \o s[k + 1] \in Seq(S)
      BY <2>2, <3>1, ConcatProperties
    <3>5. m <= k + 1 => f[k] \o s[k + 1] \in Q
      <4>1. CASE m <= k
        BY <3>1, <3>2, <4>1
      <4>2. CASE m = k + 1
        BY <3>1, <4>2
      <4>3. QED
        BY <3>2, <4>1, <4>2
    <3>6. QED
      BY <3>3, <3>4, <3>5
  <2>5. QED
    BY <2>3, <2>4
<1>5. Nat \subseteq T
  BY <1>3, <1>4, Induction
<1>6. Found(Len(s))
  BY <1>1, <1>5
<1>7. QED
  BY <1>1, <1>2, <1>6

(* Every element of the sequences is in what FlattenSeq makes of them.     *)
LEMMA FlattenElements ==
  ASSUME NEW S, NEW s \in Seq(Seq(S)), NEW m \in 1..Len(s)
  PROVE  Range(s[m]) \subseteq Range(FlattenSeq(s))
<1> DEFINE R == Range(s[m])
           Q == {q \in Seq(S) : R \subseteq Range(q)}
<1>1. \A i \in 1..Len(s) : s[i] \in Seq(S)
  BY ElementOfSeq
<1>2. \A a, b \in Seq(S) : a \o b \in Seq(S) /\ Range(a \o b) = Range(a) \cup Range(b)
  BY ConcatProperties, RangeConcatenation
<1>3. Len(s) \in Nat /\ \A k \in (m + 1)..Len(s) : k \in 1..Len(s)
  BY LenProperties
<1>4. s[m] \in Q /\ \A a \in Seq(S) : a \o s[m] \in Q
  BY <1>1, <1>2
<1>5. \A k \in (m + 1)..Len(s) : \A a \in Q : a \o s[k] \in Q
  BY <1>1, <1>2, <1>3
<1>6. Q \in SUBSET Seq(S)
  OBVIOUS
<1> HIDE DEF Q
<1>7. FlattenSeq(s) \in Q
  BY <1>4, <1>5, <1>6, FlattenFrom
<1>8. QED
  BY <1>7 DEF Q

-----------------------------------------------------------------------------
(* Sequences and sets                                                      *)

(* A function on 1..n is a sequence.                                       *)
LEMMA FunctionIsSeq ==
  ASSUME NEW S, NEW n \in Nat, NEW f \in [1..n -> S]
  PROVE  f \in Seq(S) /\ Len(f) = n /\ Range(f) = {f[i] : i \in 1..n}
  BY DEF Range

(* SetToSeq lists the elements of a finite set, each of them.              *)
LEMMA Listed ==
  ASSUME NEW S, IsFiniteSet(S)
  PROVE  /\ Cardinality(S) \in Nat
         /\ SetToSeq(S) \in [1..Cardinality(S) -> S]
         /\ \A x \in S : \E i \in 1..Cardinality(S) : SetToSeq(S)[i] = x
<1> DEFINE n == Cardinality(S)
<1>1. n \in Nat /\ ExistsBijection(1..n, S)
  BY FS_CardinalityType
<1>2. \E f \in [1..n -> S] : IsInjective(f)
  BY <1>1 DEF ExistsBijection, Bijection, Injection
<1>3. SetToSeq(S) \in [1..n -> S] /\ IsInjective(SetToSeq(S))
  BY <1>2 DEF SetToSeq
<1>4. SetToSeq(S) \in Injection(1..n, S)
  BY <1>3 DEF Injection
<1>5. IsFiniteSet(1..n) /\ Cardinality(1..n) = n
  BY <1>1, FS_Interval
<1>6. SetToSeq(S) \in Surjection(1..n, S)
  BY <1>4, <1>5, FS_Injection
<1>7. QED
  BY <1>1, <1>3, <1>6 DEF Surjection

(* What is left of a sequence once its head is gone.                       *)
LEMMA HeadAndRest ==
  ASSUME NEW S, NEW q \in Seq(S), q # <<>>
  PROVE  /\ Len(q) \in Nat \ {0} /\ Head(q) = q[1] /\ Head(q) \in S
         /\ Tail(q) \in Seq(S) /\ Range(Tail(q)) = After(q, 1)
         /\ Range(q) = {Head(q)} \cup Range(Tail(q))
         /\ Range(q) \subseteq S
<1>1. Len(q) \in Nat \ {0} /\ Head(q) = q[1] /\ Head(q) \in S
  BY EmptySeq, HeadTailProperties
<1>2. /\ Tail(q) \in Seq(S) /\ Len(Tail(q)) = Len(q) - 1
      /\ \A i \in 1..Len(Tail(q)) : Tail(q)[i] = q[i + 1]
  BY HeadTailProperties
<1>3. Range(q) = {q[i] : i \in 1..Len(q)} /\ Range(Tail(q)) = {Tail(q)[i] : i \in 1..Len(Tail(q))}
  BY <1>2, RangeEquality
<1>4. {Tail(q)[i] : i \in 1..Len(Tail(q))} = After(q, 1)
  <2>1. ASSUME NEW i \in 1..Len(Tail(q))
        PROVE  Tail(q)[i] \in After(q, 1)
    <3>1. i + 1 \in (1 + 1)..Len(q) /\ Tail(q)[i] = q[i + 1]
      BY <1>1, <1>2, <2>1
    <3>2. QED
      BY <3>1 DEF After
  <2>2. ASSUME NEW j \in (1 + 1)..Len(q)
        PROVE  \E i \in 1..Len(Tail(q)) : q[j] = Tail(q)[i]
    <3>1. j - 1 \in 1..Len(Tail(q)) /\ (j - 1) + 1 = j
      BY <1>1, <1>2, <2>2
    <3>2. Tail(q)[j - 1] = q[j]
      BY <1>2, <3>1
    <3>3. QED
      BY <3>1, <3>2
  <2>3. QED
    BY <2>1, <2>2 DEF After
<1>5. {q[i] : i \in 1..Len(q)} = {q[1]} \cup After(q, 1)
  <2>1. \A i \in 1..Len(q) : i = 1 \/ i \in (1 + 1)..Len(q)
    BY <1>1
  <2>2. 1 \in 1..Len(q) /\ (1 + 1)..Len(q) \subseteq 1..Len(q)
    BY <1>1
  <2>3. QED
    BY <2>1, <2>2 DEF After
<1>6. QED
  BY <1>1, <1>2, <1>3, <1>4, <1>5, RangeOfSeq

(* Each element of the rest has the same elements after it as before.      *)
LEMMA AfterInTail ==
  ASSUME NEW S, NEW q \in Seq(S), q # <<>>, NEW i \in 1..Len(Tail(q))
  PROVE  /\ i + 1 \in 1..Len(q) /\ Tail(q)[i] = q[i + 1]
         /\ After(Tail(q), i) = After(q, i + 1)
<1>1. Len(q) \in Nat \ {0}
  BY EmptySeq
<1>2. /\ Len(Tail(q)) = Len(q) - 1
      /\ \A j \in 1..Len(Tail(q)) : Tail(q)[j] = q[j + 1]
  BY HeadTailProperties
<1>3. ASSUME NEW j \in (i + 1)..Len(Tail(q))
      PROVE  j + 1 \in ((i + 1) + 1)..Len(q) /\ Tail(q)[j] = q[j + 1]
  BY <1>1, <1>2, <1>3
<1>4. ASSUME NEW j \in ((i + 1) + 1)..Len(q)
      PROVE  j - 1 \in (i + 1)..Len(Tail(q)) /\ Tail(q)[j - 1] = q[j]
  <2>1. j - 1 \in (i + 1)..Len(Tail(q)) /\ j - 1 \in 1..Len(Tail(q)) /\ (j - 1) + 1 = j
    BY <1>1, <1>2, <1>4
  <2>2. QED
    BY <1>2, <2>1
<1>5. After(Tail(q), i) = After(q, i + 1)
  BY <1>3, <1>4 DEF After
<1>6. QED
  BY <1>1, <1>2, <1>5

(* In a concatenation what follows an element of the first part is the     *)
(* rest of that part and the second one.                                   *)
LEMMA AfterInConcat ==
  ASSUME NEW S, NEW a \in Seq(S), NEW b \in Seq(S)
  PROVE  /\ a \o b \in Seq(S) /\ Range(a \o b) = Range(a) \cup Range(b)
         /\ \A i \in 1..Len(a \o b) :
              \/ /\ i \in 1..Len(a) /\ (a \o b)[i] = a[i]
                 /\ After(a \o b, i) = After(a, i) \cup Range(b)
              \/ /\ i - Len(a) \in 1..Len(b) /\ (a \o b)[i] = b[i - Len(a)]
                 /\ After(a \o b, i) = After(b, i - Len(a))
<1> DEFINE m == Len(a)
           n == Len(b)
           c == a \o b
<1>1. c \in Seq(S) /\ Range(c) = Range(a) \cup Range(b)
  BY ConcatProperties, RangeConcatenation
<1>2. /\ Len(c) = m + n
      /\ \A i \in 1..(m + n) : c[i] = IF i <= m THEN a[i] ELSE b[i - m]
  BY ConcatProperties
<1>3. m \in Nat /\ n \in Nat
  BY LenProperties
<1>4. Range(b) = {b[j] : j \in 1..n}
  BY RangeEquality
<1> HIDE DEF m, n, c
<1>5. ASSUME NEW i \in 1..m
      PROVE  c[i] = a[i] /\ After(c, i) = After(a, i) \cup Range(b)
  <2>1. c[i] = a[i]
    BY <1>2, <1>3, <1>5
  <2>2. ASSUME NEW j \in (i + 1)..Len(c)
        PROVE  c[j] \in After(a, i) \cup Range(b)
    <3>1. CASE j <= m
      <4>1. c[j] = a[j] /\ j \in (i + 1)..m
        BY <1>2, <1>3, <1>5, <2>2, <3>1
      <4>2. QED
        BY <4>1 DEF After, m
    <3>2. CASE ~(j <= m)
      <4>1. c[j] = b[j - m] /\ j - m \in 1..n
        BY <1>2, <1>3, <1>5, <2>2, <3>2
      <4>2. QED
        BY <1>4, <4>1
    <3>3. QED
      BY <3>1, <3>2
  <2>3. ASSUME NEW j \in (i + 1)..m
        PROVE  j \in (i + 1)..Len(c) /\ a[j] = c[j]
    BY <1>2, <1>3, <1>5, <2>3
  <2>4. ASSUME NEW j \in 1..n
        PROVE  m + j \in (i + 1)..Len(c) /\ b[j] = c[m + j]
    <3>1. m + j \in 1..(m + n) /\ ~(m + j <= m) /\ (m + j) - m = j
      BY <1>3, <2>4
    <3>2. m + j \in (i + 1)..Len(c)
      BY <1>2, <1>3, <1>5, <2>4
    <3>3. QED
      BY <1>2, <3>1, <3>2
  <2>5. After(a, i) = {a[j] : j \in (i + 1)..m}
    BY DEF After, m
  <2>6. After(c, i) = {c[j] : j \in (i + 1)..Len(c)}
    BY DEF After
  <2>7. After(c, i) \subseteq After(a, i) \cup Range(b)
    BY <2>2, <2>6
  <2>8. After(a, i) \subseteq After(c, i)
    BY <2>3, <2>5, <2>6
  <2>9. Range(b) \subseteq After(c, i)
    BY <1>4, <2>4, <2>6
  <2>10. QED
    BY <2>1, <2>7, <2>8, <2>9
<1>6. ASSUME NEW i \in (m + 1)..(m + n)
      PROVE  i - m \in 1..n /\ c[i] = b[i - m] /\ After(c, i) = After(b, i - m)
  <2>1. i - m \in 1..n /\ i \in 1..(m + n) /\ ~(i <= m)
    BY <1>3, <1>6
  <2>2. ASSUME NEW j \in (i + 1)..Len(c)
        PROVE  j - m \in ((i - m) + 1)..n /\ c[j] = b[j - m]
    BY <1>2, <1>3, <1>6, <2>2
  <2>3. ASSUME NEW j \in ((i - m) + 1)..n
        PROVE  m + j \in (i + 1)..Len(c) /\ b[j] = c[m + j]
    <3>1. m + j \in 1..(m + n) /\ ~(m + j <= m) /\ (m + j) - m = j
      BY <1>3, <2>1, <2>3
    <3>2. m + j \in (i + 1)..Len(c)
      BY <1>2, <1>3, <1>6, <2>3
    <3>3. QED
      BY <1>2, <3>1, <3>2
  <2>4. After(b, i - m) = {b[j] : j \in ((i - m) + 1)..n}
    BY DEF After, n
  <2>5. After(c, i) = {c[j] : j \in (i + 1)..Len(c)}
    BY DEF After
  <2>6. After(c, i) \subseteq After(b, i - m)
    BY <2>2, <2>4, <2>5
  <2>7. After(b, i - m) \subseteq After(c, i)
    BY <2>3, <2>4, <2>5
  <2>8. QED
    BY <1>2, <2>1, <2>6, <2>7
<1>7. \A i \in 1..Len(c) : i \in 1..m \/ i \in (m + 1)..(m + n)
  BY <1>2, <1>3
<1>8. QED
  BY <1>1, <1>5, <1>6, <1>7 DEF m, n, c

-----------------------------------------------------------------------------
(* What one UCI command does                                               *)

(* The configuration files after a command.                                *)
Filed(cm, st, c) ==
  IF c.op = "commit" THEN (cm \ Of(cm, c.pkg)) \cup Of(st, c.pkg) ELSE cm

(* A command is about its own package only.                                *)
LEMMA OtherPackage ==
  ASSUME NEW cm, NEW st, NEW c, NEW p, c.pkg # p
  PROVE  Of(Effect(st, c), p) = Of(st, p) /\ Of(Filed(cm, st, c), p) = Of(cm, p)
<1>1. ASSUME NEW t, t[1] = p
      PROVE  t \in Effect(st, c) <=> t \in st
  <2>1. t # <<c.pkg, c.key, c.val>>
    BY <1>1
  <2>2. QED
    BY <1>1, <2>1 DEF Effect, Without
<1>2. ASSUME NEW t, t[1] = p
      PROVE  t \in Filed(cm, st, c) <=> t \in cm
  BY <1>2 DEF Filed, Of
<1>3. QED
  BY <1>1, <1>2 DEF Of

(* A commit files what is staged of its package.                           *)
LEMMA CommitFiles ==
  ASSUME NEW cm, NEW st, NEW c, c.op = "commit"
  PROVE  Effect(st, c) = st /\ Of(Filed(cm, st, c), c.pkg) = Of(st, c.pkg)
  BY DEF Effect, Filed, Of

(* The other commands file nothing.                                        *)
LEMMA NothingFiled ==
  ASSUME NEW cm, NEW st, NEW c, c.op # "commit"
  PROVE  Filed(cm, st, c) = cm
  BY DEF Filed

(* The entries of a network.                                               *)
LEMMA NetEntry ==
  ASSUME NEW key
  PROVE  /\ Net(key)[1] = "network" /\ Net(key)[2] = key
         /\ SetNet(key).op = "set" /\ SetNet(key).pkg = "network" /\ SetNet(key).key = key
         /\ Commit("network").op = "commit" /\ Commit("network").pkg = "network"
         /\ \A cfg : Net(key) \in cfg <=> Net(key) \in Of(cfg, "network")
  BY DEF Net, SetNet, Cmd, Commit, Of

(* A network that is there or will be set is so after the next line.       *)
LEMMA StillComing ==
  ASSUME NEW st, NEW c, NEW rest, NEW key, key[1] = "vlan",
         UciShape(c), UciFollows(c, rest), c.pkg = "network", c.op # "commit",
         Coming(st, {c} \cup rest, key)
  PROVE  Coming(Effect(st, c), rest, key)
<1>1. c.op = "delete" \/ c.op = "set"
  BY DEF UciShape
<1>2. CASE c.key = key
  <2>1. CASE c.op = "delete"
    BY <1>2, <2>1 DEF UciFollows, Coming
  <2>2. CASE c.op = "set"
    <3>1. c.val = "none"
      BY <1>2, <2>2 DEF UciShape
    <3>2. <<c.pkg, c.key, c.val>> = Net(key)
      BY <1>2, <3>1 DEF Net
    <3>3. <<c.pkg, c.key, c.val>> \in Effect(st, c)
      BY <2>2 DEF Effect
    <3>4. QED
      BY <3>2, <3>3 DEF Coming
  <2>3. QED
    BY <1>1, <2>1, <2>2
<1>3. CASE c.key # key
  <2>1. SetNet(key) # c
    BY <1>3, NetEntry
  <2>2. Net(key) \in st => Net(key) \in Effect(st, c)
    <3>1. Net(key)[2] # c.key
      BY <1>3, NetEntry
    <3>2. QED
      BY <1>1, <3>1 DEF Effect, Without
  <2>3. QED
    BY <2>1, <2>2 DEF Coming
<1>4. QED
  BY <1>2, <1>3

(* A line about the networks, before their commit.                         *)
LEMMA NetworkLine ==
  ASSUME NEW cm, NEW st, NEW c, NEW rest,
         UciShape(c), UciFollows(c, rest), c.pkg = "network", c.op # "commit",
         NetInv(cm, st, {c} \cup rest)
  PROVE  NetInv(Filed(cm, st, c), Effect(st, c), rest)
<1>1. Filed(cm, st, c) = cm
  BY NothingFiled
<1>2. Of(Effect(st, c), "wireless") = Of(st, "wireless")
  BY OtherPackage
<1>3. Commit("network") \in rest
  BY DEF UciFollows
<1>4. ASSUME NEW key, key[1] = "vlan", Provided(cm, st, {c} \cup rest, key)
      PROVE  Provided(cm, Effect(st, c), rest, key)
  <2>1. Coming(st, {c} \cup rest, key)
    BY <1>3, <1>4 DEF Provided
  <2>2. QED
    BY <1>3, <1>4, <2>1, StillComing DEF Provided
<1>5. NetsStay(cm, Effect(st, c), rest)
  BY StillComing DEF NetInv, NetsStay
<1>6. StagedProvided(cm, Effect(st, c), rest)
  BY <1>2, <1>4 DEF NetInv, StagedProvided, Vlanned
<1>7. LinesProvided(cm, Effect(st, c), rest)
  <2> SUFFICES ASSUME NEW d \in rest, d.op = "set", d.pkg = "wireless",
                      Vlanned(<<d.pkg, d.key, d.val>>)
               PROVE  Provided(cm, Effect(st, c), rest, d.val.network)
    BY DEF LinesProvided
  <2>1. Provided(cm, st, {c} \cup rest, d.val.network)
    BY DEF NetInv, LinesProvided
  <2>2. d.val.network[1] = "vlan"
    BY DEF Vlanned
  <2>3. QED
    BY <1>4, <2>1, <2>2
<1>8. QED
  BY <1>1, <1>5, <1>6, <1>7 DEF NetInv

(* The commit of the networks: every network that the files had is staged. *)
LEMMA NetworkCommit ==
  ASSUME NEW cm, NEW st, NEW c, NEW rest,
         UciFollows(c, rest), c.pkg = "network", c.op = "commit", c = Commit("network"),
         NetInv(cm, st, {c} \cup rest)
  PROVE  NetInv(Filed(cm, st, c), Effect(st, c), rest)
<1> DEFINE filed == Filed(cm, st, c)
<1>1. /\ Effect(st, c) = st /\ Of(filed, "network") = Of(st, "network")
      /\ Of(filed, "wireless") = Of(cm, "wireless")
  BY CommitFiles, OtherPackage
<1> HIDE DEF filed
<1>2. \A d \in rest : d.pkg = "wireless"
  BY DEF UciFollows
<1>3. Commit("network") \notin rest /\ \A key : SetNet(key) \notin {c} \cup rest
  BY <1>2, NetEntry
<1>4. ASSUME NEW key, Coming(st, {c} \cup rest, key)
      PROVE  Net(key) \in st /\ Net(key) \in filed
  <2>1. Net(key) \in st
    BY <1>3, <1>4 DEF Coming
  <2>2. QED
    BY <1>1, <2>1, NetEntry
<1>5. ASSUME NEW key, Provided(cm, st, {c} \cup rest, key)
      PROVE  Provided(filed, st, rest, key)
  <2>1. Coming(st, {c} \cup rest, key)
    BY <1>5 DEF Provided
  <2>2. QED
    BY <1>3, <1>4, <2>1 DEF Provided
<1>6. NetsStay(filed, st, rest)
  BY <1>1 DEF NetsStay, Of, Coming
<1>7. StagedProvided(filed, st, rest)
  BY <1>5 DEF NetInv, StagedProvided
<1>8. LinesProvided(filed, st, rest)
  <2> SUFFICES ASSUME NEW d \in rest, d.op = "set", d.pkg = "wireless",
                      Vlanned(<<d.pkg, d.key, d.val>>)
               PROVE  Provided(filed, st, rest, d.val.network)
    BY DEF LinesProvided
  <2>1. Provided(cm, st, {c} \cup rest, d.val.network)
    BY DEF NetInv, LinesProvided
  <2>2. QED
    BY <1>5, <2>1
<1>9. CommittedProvided(filed)
  <2> SUFFICES ASSUME NEW t \in Of(filed, "wireless"), Vlanned(t)
               PROVE  Net(t[3].network) \in filed
    BY DEF CommittedProvided
  <2> DEFINE key == t[3].network
  <2>1. Net(key) \in Of(cm, "network") /\ key[1] = "vlan"
    BY <1>1, NetEntry DEF NetInv, CommittedProvided, Vlanned
  <2>2. Coming(st, {c} \cup rest, key)
    BY <2>1, NetEntry, ZenonT(40) DEF NetInv, NetsStay
  <2>3. QED
    BY <1>4, <2>2
<1>10. QED
  BY <1>1, <1>6, <1>7, <1>8, <1>9 DEF NetInv, filed

(* A line about the wireless sections: all networks are committed.         *)
LEMMA WirelessLine ==
  ASSUME NEW cm, NEW st, NEW c, NEW rest,
         UciShape(c), UciFollows(c, rest), c.pkg = "wireless",
         NetInv(cm, st, {c} \cup rest)
  PROVE  NetInv(Filed(cm, st, c), Effect(st, c), rest)
<1> DEFINE filed == Filed(cm, st, c)
           next == Effect(st, c)
<1>1. /\ Of(next, "network") = Of(st, "network")
      /\ Of(filed, "network") = Of(cm, "network")
  BY OtherPackage
<1>2. \A d \in rest : d.pkg = "wireless"
  BY DEF UciFollows
<1>3. /\ Commit("network") \notin {c} \cup rest
      /\ \A key : SetNet(key) \notin {c} \cup rest
  BY <1>2, NetEntry
<1>4. ASSUME NEW key
      PROVE  (Net(key) \in filed <=> Net(key) \in cm) /\ (Net(key) \in next <=> Net(key) \in st)
  BY <1>1, NetEntry
<1>5. ASSUME NEW key, Provided(cm, st, {c} \cup rest, key)
      PROVE  Net(key) \in cm /\ Provided(filed, next, rest, key)
  BY <1>3, <1>4, <1>5 DEF Provided
<1>6. NetsStay(filed, next, rest)
  <2> SUFFICES ASSUME NEW t \in Of(filed, "network"), t[2][1] = "vlan", t = Net(t[2])
               PROVE  Coming(next, rest, t[2])
    BY DEF NetsStay
  <2>1. Coming(st, {c} \cup rest, t[2])
    BY <1>1 DEF NetInv, NetsStay
  <2>2. QED
    BY <1>3, <1>4, <2>1 DEF Coming
<1>7. LinesProvided(filed, next, rest)
  <2> SUFFICES ASSUME NEW d \in rest, d.op = "set", d.pkg = "wireless",
                      Vlanned(<<d.pkg, d.key, d.val>>)
               PROVE  Provided(filed, next, rest, d.val.network)
    BY DEF LinesProvided
  <2>1. Provided(cm, st, {c} \cup rest, d.val.network)
    BY DEF NetInv, LinesProvided
  <2>2. QED
    BY <1>5, <2>1
<1>8. StagedProvided(filed, next, rest)
  <2> SUFFICES ASSUME NEW t \in Of(next, "wireless"), Vlanned(t)
               PROVE  Provided(filed, next, rest, t[3].network)
    BY DEF StagedProvided
  <2>1. CASE t \in st
    BY <1>5, <2>1 DEF NetInv, StagedProvided, Of
  <2>2. CASE t \notin st
    <3>1. c.op = "set" /\ t = <<c.pkg, c.key, c.val>>
      BY <2>2 DEF next, Effect, Without, Of, UciShape
    <3>2. t[3] = c.val
      BY <3>1
    <3>3. Provided(cm, st, {c} \cup rest, c.val.network)
      BY <3>1 DEF NetInv, LinesProvided
    <3>4. QED
      BY <1>5, <3>2, <3>3
  <2>3. QED
    BY <2>1, <2>2
<1>9. CommittedProvided(filed)
  <2> SUFFICES ASSUME NEW t \in Of(filed, "wireless"), Vlanned(t)
               PROVE  Net(t[3].network) \in filed
    BY DEF CommittedProvided
  <2>1. t \in Of(cm, "wireless") \/ t \in Of(st, "wireless")
    BY DEF filed, Filed, Of
  <2>2. CASE t \in Of(cm, "wireless")
    BY <1>4, <2>2 DEF NetInv, CommittedProvided
  <2>3. CASE t \in Of(st, "wireless")
    <3>1. Provided(cm, st, {c} \cup rest, t[3].network)
      BY <2>3 DEF NetInv, StagedProvided
    <3>2. QED
      BY <1>4, <1>5, <3>1
  <2>4. QED
    BY <2>1, <2>2, <2>3
<1>10. QED
  BY <1>6, <1>7, <1>8, <1>9 DEF NetInv

(* Any line of the batch.                                                  *)
LEMMA BatchLineNet ==
  ASSUME NEW cm, NEW st, NEW c, NEW rest,
         UciShape(c), UciFollows(c, rest), NetInv(cm, st, {c} \cup rest)
  PROVE  NetInv(Filed(cm, st, c), Effect(st, c), rest)
<1>1. CASE c.pkg = "wireless"
  BY <1>1, WirelessLine
<1>2. CASE c.pkg = "network" /\ c.op = "commit"
  <2>1. c = Commit("network")
    BY <1>2 DEF UciShape
  <2>2. QED
    BY <1>2, <2>1, NetworkCommit
<1>3. CASE c.pkg = "network" /\ c.op # "commit"
  BY <1>3, NetworkLine
<1>4. QED
  BY <1>1, <1>2, <1>3 DEF UciShape

(* Of the two configurations only these packages count.                    *)
LEMMA NetFrame ==
  ASSUME NEW cm, NEW st, NEW cm2, NEW st2, NEW rest, NetInv(cm, st, rest),
         \A p \in {"network", "wireless"} : Of(cm2, p) = Of(cm, p) /\ Of(st2, p) = Of(st, p)
  PROVE  NetInv(cm2, st2, rest)
<1>1. ASSUME NEW key
      PROVE  (Net(key) \in cm2 <=> Net(key) \in cm) /\ (Net(key) \in st2 <=> Net(key) \in st)
  BY NetEntry
<1>2. ASSUME NEW key
      PROVE  /\ Coming(st2, rest, key) <=> Coming(st, rest, key)
             /\ Provided(cm2, st2, rest, key) <=> Provided(cm, st, rest, key)
  BY <1>1 DEF Coming, Provided
<1>3. NetsStay(cm2, st2, rest)
  BY <1>2 DEF NetInv, NetsStay
<1>4. StagedProvided(cm2, st2, rest)
  BY <1>2 DEF NetInv, StagedProvided
<1>5. LinesProvided(cm2, st2, rest)
  BY <1>2 DEF NetInv, LinesProvided
<1>6. CommittedProvided(cm2)
  BY <1>1 DEF NetInv, CommittedProvided
<1>7. QED
  BY <1>3, <1>4, <1>5, <1>6 DEF NetInv

(* The rest of a batch is in order.                                        *)
LEMMA UciOrderRest ==
  ASSUME NEW q, UciOrder(q), q # <<>>
  PROVE  /\ UciOrder(Tail(q)) /\ UciShape(Head(q)) /\ UciFollows(Head(q), Range(Tail(q)))
         /\ Range(q) = {Head(q)} \cup Range(Tail(q))
<1>1. q \in Seq(Range(q)) /\ \A i \in 1..Len(q) : UciShape(q[i]) /\ UciFollows(q[i], After(q, i))
  BY DEF UciOrder
<1>2. /\ Len(q) \in Nat \ {0} /\ Head(q) = q[1] /\ Tail(q) \in Seq(Range(q))
      /\ Range(Tail(q)) = After(q, 1) /\ Range(q) = {Head(q)} \cup Range(Tail(q))
  BY <1>1, HeadAndRest
<1>3. 1 \in 1..Len(q)
  BY <1>2
<1>4. Tail(q) \in Seq(Range(Tail(q)))
  BY <1>2, SeqOfRange
<1>5. ASSUME NEW i \in 1..Len(Tail(q))
      PROVE  UciShape(Tail(q)[i]) /\ UciFollows(Tail(q)[i], After(Tail(q), i))
  <2>1. /\ i + 1 \in 1..Len(q) /\ Tail(q)[i] = q[i + 1]
        /\ After(Tail(q), i) = After(q, i + 1)
    BY <1>1, <1>5, AfterInTail
  <2>2. QED
    BY <1>1, <2>1
<1>6. QED
  BY <1>1, <1>2, <1>3, <1>4, <1>5 DEF UciOrder

(* The rest of an openNDS plan is in order.                                *)
LEMMA NdsOrderRest ==
  ASSUME NEW q, NEW C, NdsOrder(q, C), q # <<>>
  PROVE  /\ NdsOrder(Tail(q), C) /\ NdsShape(Head(q), C) /\ NdsFollows(Head(q), Range(Tail(q)))
         /\ Range(q) = {Head(q)} \cup Range(Tail(q))
<1>1. /\ q \in Seq(Range(q))
      /\ \A i \in 1..Len(q) : NdsShape(q[i], C) /\ NdsFollows(q[i], After(q, i))
  BY DEF NdsOrder
<1>2. /\ Len(q) \in Nat \ {0} /\ Head(q) = q[1] /\ Tail(q) \in Seq(Range(q))
      /\ Range(Tail(q)) = After(q, 1) /\ Range(q) = {Head(q)} \cup Range(Tail(q))
  BY <1>1, HeadAndRest
<1>3. 1 \in 1..Len(q)
  BY <1>2
<1>4. Tail(q) \in Seq(Range(Tail(q)))
  BY <1>2, SeqOfRange
<1>5. ASSUME NEW i \in 1..Len(Tail(q))
      PROVE  NdsShape(Tail(q)[i], C) /\ NdsFollows(Tail(q)[i], After(Tail(q), i))
  <2>1. /\ i + 1 \in 1..Len(q) /\ Tail(q)[i] = q[i + 1]
        /\ After(Tail(q), i) = After(q, i + 1)
    BY <1>1, <1>5, AfterInTail
  <2>2. QED
    BY <1>1, <2>1
<1>6. QED
  BY <1>1, <1>2, <1>3, <1>4, <1>5 DEF NdsOrder

(* A command of the openNDS plan brings the staged configuration nearer to *)
(* that of the policy.                                                     *)
LEMMA NdsLine ==
  ASSUME NEW C, NEW st, NEW c, NEW rest, \A t \in C : t[1] = "opennds",
         NdsShape(c, C), NdsFollows(c, rest), Progress(C, {c} \cup rest, st)
  PROVE  Progress(C, rest, Effect(st, c))
<1> DEFINE next == Effect(st, c)
           made == <<c.pkg, c.key, c.val>>
<1>1. ASSUME NEW t \in Of(next, "opennds"), t \notin C
      PROVE  \E d \in rest : Removes(d, t[2])
  <2>1. t[1] = "opennds" /\ t \in next
    BY <1>1 DEF Of
  <2>2. c.op \in {"add", "set"} => t # made
    BY <1>1 DEF NdsShape
  <2>3. t \in st /\ ~Removes(c, t[2])
    BY <2>1, <2>2 DEF Effect, Without, Removes
  <2>4. PICK d \in {c} \cup rest : Removes(d, t[2])
    BY <1>1, <2>1, <2>3 DEF Progress, Of
  <2>5. QED
    BY <2>3, <2>4
<1>2. ASSUME NEW t \in C, \A d \in rest : ~Adds(d, t)
      PROVE  t \in next /\ \A d \in rest : ~Removes(d, t[2])
  <2>1. CASE Adds(c, t)
    <3>1. c.op \in {"add", "set"} /\ t = made /\ t[2] = c.key
      BY <2>1 DEF Adds
    <3>2. made \in next
      BY <3>1 DEF Effect
    <3>3. \A d \in rest : ~Removes(d, t[2])
      BY <3>1 DEF NdsFollows
    <3>4. QED
      BY <3>1, <3>2, <3>3
  <2>2. CASE ~Adds(c, t)
    <3>1. t \in st /\ ~Removes(c, t[2]) /\ \A d \in rest : ~Removes(d, t[2])
      BY <1>2, <2>2 DEF Progress
    <3>2. t[1] = "opennds"
      OBVIOUS
    <3>3. t \in next
      BY <3>1, <3>2 DEF Effect, Without, Removes
    <3>4. QED
      BY <3>1, <3>3
  <2>3. QED
    BY <2>1, <2>2
<1>3. QED
  BY <1>1, <1>2 DEF Progress

(* When the commit is next, the staged configuration is the policy's.      *)
LEMMA NdsCommit ==
  ASSUME NEW C, NEW st, NEW c, NEW rest, \A t \in C : t[1] = "opennds",
         c.op = "commit", NdsFollows(c, rest), Progress(C, {c} \cup rest, st)
  PROVE  Of(st, "opennds") = C
<1>1. \A d \in {c} \cup rest : d.op \in {"commit", "restart"}
  BY DEF NdsFollows
<1>2. \A d \in {c} \cup rest : \A t : ~Removes(d, t[2]) /\ ~Adds(d, t)
  BY <1>1 DEF Removes, Adds
<1>3. \A t \in C : t \in st
  BY <1>2 DEF Progress
<1>4. \A t \in Of(st, "opennds") : t \in C
  BY <1>2 DEF Progress
<1>5. QED
  BY <1>3, <1>4 DEF Of

(* No command brings an option that no policy has.                         *)
LEMMA KeysStayKnown ==
  ASSUME NEW cm, NEW st, NEW c, NEW C, \A t \in C : t[2] \in NdsKeys,
         KeysKnown(st), KeysKnown(cm), NdsShape(c, C)
  PROVE  KeysKnown(Effect(st, c)) /\ KeysKnown(Filed(cm, st, c))
<1>1. KeysKnown(Filed(cm, st, c))
  BY DEF KeysKnown, Filed, Of
<1>2. ASSUME NEW t \in Of(Effect(st, c), "opennds")
      PROVE  t[2] \in NdsKeys
  <2>1. CASE t \in st
    BY <1>2, <2>1 DEF KeysKnown, Of
  <2>2. CASE t \notin st
    <3>1. c.op \in {"add", "set"} /\ t = <<c.pkg, c.key, c.val>>
      BY <1>2, <2>2 DEF Effect, Without, Of
    <3>2. t \in C
      BY <3>1 DEF NdsShape
    <3>3. QED
      BY <3>2
  <2>3. QED
    BY <2>1, <2>2
<1>3. QED
  BY <1>1, <1>2 DEF KeysKnown

-----------------------------------------------------------------------------
(* build_opennds_plan                                                      *)

(* The elements of a list that has all of them in S, and their followers.  *)
LEMMA ListElements ==
  ASSUME NEW S, NEW q \in Seq(S)
  PROVE  /\ q \in Seq(Range(q)) /\ Range(q) \subseteq S
         /\ \A i \in 1..Len(q) : q[i] \in Range(q) /\ After(q, i) \subseteq Range(q)
<1>1. q \in Seq(Range(q)) /\ Range(q) \subseteq S /\ Range(q) = {q[i] : i \in 1..Len(q)}
  BY SeqOfRange, RangeOfSeq, RangeEquality
<1>2. Len(q) \in Nat
  BY LenProperties
<1>3. ASSUME NEW i \in 1..Len(q)
      PROVE  q[i] \in Range(q) /\ After(q, i) \subseteq Range(q)
  <2>1. (i + 1)..Len(q) \subseteq 1..Len(q)
    BY <1>2
  <2>2. QED
    BY <1>1, <2>1 DEF After
<1>4. QED
  BY <1>1, <1>3

(* Commands that do not get in each other's way, in any order.             *)
LEMMA NdsAnyOrder ==
  ASSUME NEW C, NEW S, NEW q \in Seq(S),
         \A c \in S : /\ NdsShape(c, C) /\ c.op # "commit"
                      /\ c.op \in {"add", "set"} => \A d \in S : ~Removes(d, c.key)
  PROVE  NdsOrder(q, C)
<1>1. /\ q \in Seq(Range(q)) /\ Range(q) \subseteq S
      /\ \A i \in 1..Len(q) : q[i] \in Range(q) /\ After(q, i) \subseteq Range(q)
  BY ListElements
<1>2. ASSUME NEW i \in 1..Len(q)
      PROVE  NdsShape(q[i], C) /\ NdsFollows(q[i], After(q, i))
  <2>1. q[i] \in S /\ After(q, i) \subseteq S
    BY <1>1
  <2>2. QED
    BY <2>1 DEF NdsFollows
<1>3. QED
  BY <1>1, <1>2 DEF NdsOrder

(* One part after another, of which nothing removes what the first adds.   *)
LEMMA NdsConcat ==
  ASSUME NEW C, NEW a, NEW b, NdsOrder(a, C), NdsOrder(b, C),
         \A c \in Range(a) :
           /\ c.op # "commit"
           /\ c.op \in {"add", "set"} => \A d \in Range(b) : ~Removes(d, c.key)
  PROVE  NdsOrder(a \o b, C) /\ Range(a \o b) = Range(a) \cup Range(b)
<1> DEFINE S == Range(a) \cup Range(b)
           q == a \o b
<1>1. a \in Seq(Range(a)) /\ b \in Seq(Range(b))
  BY DEF NdsOrder
<1>2. a \in Seq(S) /\ b \in Seq(S)
  BY <1>1, SeqMonotonic
<1>3. /\ q \in Seq(S) /\ Range(q) = Range(a) \cup Range(b)
      /\ \A i \in 1..Len(q) :
           \/ /\ i \in 1..Len(a) /\ q[i] = a[i]
              /\ After(q, i) = After(a, i) \cup Range(b)
           \/ /\ i - Len(a) \in 1..Len(b) /\ q[i] = b[i - Len(a)]
              /\ After(q, i) = After(b, i - Len(a))
  BY <1>2, AfterInConcat
<1> HIDE DEF q
<1>4. ASSUME NEW i \in 1..Len(a)
      PROVE  NdsShape(a[i], C) /\ NdsFollows(a[i], After(a, i) \cup Range(b))
  <2>1. a[i] \in Range(a)
    BY <1>1, <1>4, ListElements
  <2>2. NdsShape(a[i], C) /\ NdsFollows(a[i], After(a, i))
    BY <1>4 DEF NdsOrder
  <2>3. QED
    BY <2>1, <2>2 DEF NdsFollows
<1>5. \A i \in 1..Len(q) : NdsShape(q[i], C) /\ NdsFollows(q[i], After(q, i))
  BY <1>3, <1>4 DEF NdsOrder
<1>6. q \in Seq(Range(q))
  BY <1>3
<1>7. QED
  BY <1>3, <1>5, <1>6 DEF NdsOrder, q

(* Fields of a command.                                                    *)
LEMMA CmdFields ==
  ASSUME NEW op, NEW pkg, NEW key, NEW val
  PROVE  /\ Cmd(op, pkg, key, val).op = op /\ Cmd(op, pkg, key, val).pkg = pkg
         /\ Cmd(op, pkg, key, val).key = key /\ Cmd(op, pkg, key, val).val = val
  BY DEF Cmd

(* The additions of a list: one command for each of its values.            *)
LEMMA AdditionsOrder ==
  ASSUME NEW C, NEW name, NEW values, IsFiniteSet(values),
         \A v \in values : <<"opennds", Option(name), v>> \in C
  PROVE  LET q == Additions(name, values) IN
         /\ NdsOrder(q, C)
         /\ Range(q) = {Cmd("add", "opennds", Option(name), v) : v \in values}
<1> DEFINE q == Additions(name, values)
           n == Cardinality(values)
           l == SetToSeq(values)
           S == {Cmd("add", "opennds", Option(name), v) : v \in values}
<1>1. n \in Nat /\ l \in [1..n -> values] /\ \A v \in values : \E i \in 1..n : l[i] = v
  BY Listed
<1>2. q = [i \in 1..n |-> Cmd("add", "opennds", Option(name), l[i])]
  BY DEF Additions
<1> HIDE DEF n, l, q
<1>3. q \in [1..n -> S]
  BY <1>1, <1>2
<1>4. q \in Seq(S) /\ Range(q) = {q[i] : i \in 1..n}
  BY <1>1, <1>3, FunctionIsSeq
<1>5. Range(q) = S
  BY <1>1, <1>2, <1>4
<1>6. ASSUME NEW c \in S
      PROVE  NdsShape(c, C) /\ c.op = "add"
  <2>1. PICK v \in values : c = Cmd("add", "opennds", Option(name), v)
    BY <1>6
  <2>2. c.op = "add" /\ c.pkg = "opennds" /\ c.key = Option(name) /\ c.val = v
    BY <2>1, CmdFields
  <2>3. QED
    BY <2>2 DEF NdsShape
<1>7. NdsOrder(q, C)
  <2>1. \A c \in S : /\ NdsShape(c, C) /\ c.op # "commit"
                     /\ c.op \in {"add", "set"} => \A d \in S : ~Removes(d, c.key)
    BY <1>6 DEF Removes
  <2>2. QED
    BY <1>4, <2>1, NdsAnyOrder
<1>8. QED
  BY <1>5, <1>7 DEF q

(* One command.                                                            *)
LEMMA NdsSingle ==
  ASSUME NEW C, NEW c, NdsShape(c, C)
  PROVE  NdsOrder(<<c>>, C) /\ Range(<<c>>) = {c}
<1>1. /\ <<c>> \in Seq({c}) /\ Len(<<c>>) = 1 /\ <<c>>[1] = c
      /\ Range(<<c>>) = {c}
  BY DEF Range
<1>2. After(<<c>>, 1) = {}
  BY <1>1 DEF After
<1>3. NdsFollows(<<c>>[1], After(<<c>>, 1))
  BY <1>2 DEF NdsFollows
<1>4. \A i \in 1..Len(<<c>>) : i = 1
  BY <1>1
<1>5. QED
  BY <1>1, <1>3, <1>4 DEF NdsOrder

(* The deletions of the three lists.                                       *)
LEMMA DeletionsOrder ==
  ASSUME NEW C
  PROVE  /\ NdsOrder(Deletions, C)
         /\ Range(Deletions) = {Cmd("delete", "opennds", Option(name), "") :
                                  name \in {"fqdn", "users", "themespec"}}
         /\ \A c \in Range(Deletions) : c.op = "delete" /\ c.pkg = "opennds"
<1> DEFINE Del(name) == Cmd("delete", "opennds", Option(name), "")
           x == Del("fqdn")
           y == Del("users")
           z == Del("themespec")
           S == {x, y, z}
<1>1. ASSUME NEW name
      PROVE  Del(name).op = "delete" /\ Del(name).pkg = "opennds"
  BY DEF Cmd
<1>2. Deletions = <<x, y, z>>
  BY DEF Deletions
<1>3. S = {Del(name) : name \in {"fqdn", "users", "themespec"}}
  OBVIOUS
<1> HIDE DEF Del
<1>4. /\ x.op = "delete" /\ x.pkg = "opennds" /\ y.op = "delete" /\ y.pkg = "opennds"
      /\ z.op = "delete" /\ z.pkg = "opennds"
  BY <1>1
<1> HIDE DEF x, y, z
<1>5. \A c \in S : c.op = "delete" /\ c.pkg = "opennds"
  BY <1>4
<1>6. <<x, y, z>> \in Seq(S) /\ Range(<<x, y, z>>) = S
  BY DEF Range
<1>7. \A c \in S : /\ NdsShape(c, C) /\ c.op # "commit"
                   /\ c.op \in {"add", "set"} => \A d \in S : ~Removes(d, c.key)
  BY <1>5 DEF NdsShape
<1>8. NdsOrder(<<x, y, z>>, C)
  BY <1>6, <1>7, NdsAnyOrder
<1>9. QED
  BY <1>2, <1>3, <1>5, <1>6, <1>8 DEF Del

(* The login type and, with a redirection, the ThemeSpec script.           *)
LEMMA ThemeOrder ==
  ASSUME NEW P
  PROVE  LET q == ThemeLines(P) IN
         /\ NdsOrder(q, PolicyConfig(P))
         /\ \A c \in Range(q) :
              /\ c.op \in {"set", "write"}
              /\ c.op = "set" => /\ c.pkg = "opennds"
                                 /\ c.key \in {Option("login"), Option("themespec")}
         /\ \E c \in Range(q) : Removes(c, Option("login"))
         /\ IF P.redirect = None
            THEN \E c \in Range(q) : Adds(c, <<"opennds", Option("login"), "1">>)
            ELSE /\ \E c \in Range(q) : Adds(c, <<"opennds", Option("login"), "3">>)
                 /\ \E c \in Range(q) : Adds(c, <<"opennds", Option("themespec"), "path">>)
<1> DEFINE C == PolicyConfig(P)
           Set(name, v) == Cmd("set", "opennds", Option(name), v)
<1>1. ASSUME NEW name, NEW v
      PROVE  /\ Set(name, v).op = "set" /\ Set(name, v).pkg = "opennds"
             /\ Set(name, v).key = Option(name) /\ Set(name, v).val = v
  BY CmdFields
<1> HIDE DEF Set
<1>2. ASSUME NEW name, NEW v
      PROVE  /\ <<"opennds", Option(name), v>> \in C => NdsShape(Set(name, v), C)
             /\ Removes(Set(name, v), Option(name))
             /\ Adds(Set(name, v), <<"opennds", Option(name), v>>)
  BY <1>1 DEF NdsShape, Removes, Adds
<1>3. CASE P.redirect = None
  <2> DEFINE c == Set("login", "1")
  <2>1. ThemeLines(P) = <<c>>
    BY <1>3 DEF ThemeLines, Set
  <2>2. <<"opennds", Option("login"), "1">> \in C
    BY <1>3 DEF PolicyConfig
  <2>3. NdsOrder(<<c>>, C) /\ Range(<<c>>) = {c}
    BY <1>2, <2>2, NdsSingle
  <2>4. QED
    BY <1>1, <1>2, <1>3, <2>1, <2>3
<1>4. CASE P.redirect # None
  <2> DEFINE w == Cmd("write", "theme", Option("theme"), <<P.redirect, P.landing>>)
             l == Set("login", "3")
             t == Set("themespec", "path")
  <2>1. ThemeLines(P) = (<<w>> \o <<l>>) \o <<t>>
    BY <1>4 DEF ThemeLines, Set
  <2>2. /\ <<"opennds", Option("login"), "3">> \in C
        /\ <<"opennds", Option("themespec"), "path">> \in C
    BY <1>4 DEF PolicyConfig
  <2>3. w.op = "write" /\ w.pkg = "theme"
    BY CmdFields
  <2>4. NdsShape(w, C)
    BY <2>3 DEF NdsShape
  <2>5. NdsShape(l, C) /\ NdsShape(t, C)
    BY <1>2, <2>2
  <2>6. /\ l.op = "set" /\ l.pkg = "opennds" /\ l.key = Option("login")
        /\ t.op = "set" /\ t.pkg = "opennds" /\ t.key = Option("themespec")
    BY <1>1
  <2>7. /\ Removes(l, Option("login"))
        /\ Adds(l, <<"opennds", Option("login"), "3">>)
        /\ Adds(t, <<"opennds", Option("themespec"), "path">>)
    BY <1>2
  <2> HIDE DEF w, l, t, C
  <2>8. /\ NdsOrder(<<w>>, C) /\ Range(<<w>>) = {w}
        /\ NdsOrder(<<l>>, C) /\ Range(<<l>>) = {l}
        /\ NdsOrder(<<t>>, C) /\ Range(<<t>>) = {t}
    BY <2>4, <2>5, NdsSingle
  <2>9. NdsOrder(<<w>> \o <<l>>, C) /\ Range(<<w>> \o <<l>>) = {w, l}
    BY <2>3, <2>8, NdsConcat
  <2>10. ~Removes(t, Option("login"))
    BY <2>6 DEF Removes, Option
  <2>11. /\ NdsOrder((<<w>> \o <<l>>) \o <<t>>, C)
         /\ Range((<<w>> \o <<l>>) \o <<t>>) = {w, l, t}
    <3>1. \A c \in Range(<<w>> \o <<l>>) :
            /\ c.op # "commit"
            /\ c.op \in {"add", "set"} => \A d \in Range(<<t>>) : ~Removes(d, c.key)
      BY <2>3, <2>6, <2>8, <2>9, <2>10
    <3>2. QED
      BY <2>8, <2>9, <3>1, NdsConcat
  <2>12. QED
    BY <1>4, <2>1, <2>3, <2>6, <2>7, <2>11 DEF C
<1>5. QED
  BY <1>3, <1>4

(* The commit and the restart.                                             *)
LEMMA NdsEndOrder ==
  ASSUME NEW C
  PROVE  LET q == <<Commit("opennds"), Cmd("restart", "opennds", <<"", "">>, "")>> IN
         /\ NdsOrder(q, C)
         /\ \A c \in Range(q) : c.op \in {"commit", "restart"}
<1> DEFINE a == Commit("opennds")
           b == Cmd("restart", "opennds", <<"", "">>, "")
           q == <<a, b>>
<1>1. a.op = "commit" /\ a.pkg = "opennds" /\ b.op = "restart" /\ b.pkg = "opennds"
  BY DEF Commit, Cmd
<1> HIDE DEF a, b
<1>2. q \in Seq({a, b}) /\ Range(q) = {a, b} /\ Len(q) = 2 /\ q[1] = a /\ q[2] = b
  BY DEF Range
<1> HIDE DEF q
<1>3. After(q, 1) \subseteq {b} /\ After(q, 2) = {}
  BY <1>2 DEF After
<1>4. NdsShape(a, C) /\ NdsShape(b, C)
  BY <1>1 DEF NdsShape
<1>5. NdsFollows(a, After(q, 1)) /\ NdsFollows(b, After(q, 2))
  BY <1>1, <1>3 DEF NdsFollows
<1>6. \A i \in 1..Len(q) : i = 1 \/ i = 2
  BY <1>2
<1>7. NdsOrder(q, C)
  BY <1>2, <1>4, <1>5, <1>6 DEF NdsOrder
<1>8. QED
  BY <1>1, <1>2, <1>7 DEF q, a, b

(* What a policy's configuration consists of.                              *)
LEMMA PolicyKeys ==
  ASSUME NEW P
  PROVE  \A t \in PolicyConfig(P) : t[1] = "opennds" /\ t[2] \in NdsKeys
  BY DEF PolicyConfig, NdsKeys

(* The whole plan.  From any configuration with the known options it leads *)
(* to that of the policy.                                                  *)
LEMMA OpenNdsPlanOrder ==
  ASSUME NEW P, IsFiniteSet(P.fqdns), IsFiniteSet(P.users)
  PROVE  LET q == BuildOpenNdsPlan(P)
             C == PolicyConfig(P)
         IN  /\ q # <<>> /\ NdsOrder(q, C)
             /\ \A st : KeysKnown(st) => Progress(C, Range(q), st)
<1> DEFINE C == PolicyConfig(P)
           D == Deletions
           F == Additions("fqdn", P.fqdns)
           U == Additions("users", P.users)
           T == ThemeLines(P)
           E == <<Commit("opennds"), Cmd("restart", "opennds", <<"", "">>, "")>>
           q == (((D \o F) \o U) \o T) \o E
           Add(name, v) == Cmd("add", "opennds", Option(name), v)
           Del(name) == Cmd("delete", "opennds", Option(name), "")
<1>1. BuildOpenNdsPlan(P) = q
  BY DEF BuildOpenNdsPlan
<1>2. ASSUME NEW name, NEW v
      PROVE  /\ Add(name, v).op = "add" /\ Add(name, v).key = Option(name)
             /\ Adds(Add(name, v), <<"opennds", Option(name), v>>)
             /\ Removes(Del(name), Option(name))
  BY DEF Cmd, Adds, Removes
<1>3. /\ NdsOrder(D, C) /\ Range(D) = {Del(name) : name \in {"fqdn", "users", "themespec"}}
      /\ \A c \in Range(D) : c.op = "delete"
  BY DeletionsOrder
<1>4. NdsOrder(F, C) /\ Range(F) = {Add("fqdn", v) : v \in P.fqdns}
  <2>1. \A v \in P.fqdns : <<"opennds", Option("fqdn"), v>> \in C
    BY DEF PolicyConfig
  <2>2. QED
    BY <2>1, AdditionsOrder
<1>5. NdsOrder(U, C) /\ Range(U) = {Add("users", v) : v \in P.users}
  <2> DEFINE users == P.users
  <2>1. IsFiniteSet(users) /\ \A v \in users : <<"opennds", Option("users"), v>> \in C
    BY DEF PolicyConfig
  <2> HIDE DEF users, C
  <2>2. /\ NdsOrder(Additions("users", users), C)
        /\ Range(Additions("users", users)) = {Cmd("add", "opennds", Option("users"), v) : v \in users}
    BY <2>1, AdditionsOrder, ZenonT(40)
  <2>3. QED
    BY <2>2 DEF users
<1>6. /\ NdsOrder(T, C)
      /\ \A c \in Range(T) :
           /\ c.op \in {"set", "write"}
           /\ c.op = "set" => c.key \in {Option("login"), Option("themespec")}
      /\ \E c \in Range(T) : Removes(c, Option("login"))
  BY ThemeOrder
<1>7. NdsOrder(E, C) /\ \A c \in Range(E) : c.op \in {"commit", "restart"}
  BY NdsEndOrder
<1> HIDE DEF Add, Del
<1>8. /\ \A c \in Range(F) : c.op = "add" /\ c.key = Option("fqdn")
      /\ \A c \in Range(U) : c.op = "add" /\ c.key = Option("users")
  BY <1>2, <1>4, <1>5
<1>9. ASSUME NEW t \in C
      PROVE  \E c \in (Range(F) \cup Range(U)) \cup Range(T) : Adds(c, t)
  <2>1. CASE \E v \in P.fqdns : t = <<"opennds", Option("fqdn"), v>>
    BY <1>2, <1>4, <2>1
  <2>2. CASE \E v \in P.users : t = <<"opennds", Option("users"), v>>
    BY <1>2, <1>5, <2>2
  <2>3. CASE t \in IF P.redirect = None
                   THEN {<<"opennds", Option("login"), "1">>}
                   ELSE {<<"opennds", Option("login"), "3">>,
                         <<"opennds", Option("themespec"), "path">>}
    BY <2>3, ThemeOrder
  <2>4. QED
    BY <1>9, <2>1, <2>2, <2>3 DEF PolicyConfig
<1>10. /\ Option("fqdn") \notin {Option("login"), Option("themespec")}
       /\ Option("users") \notin {Option("login"), Option("themespec")}
  BY DEF Option
<1> HIDE DEF C, D, F, U, T, E
<1>11. NdsOrder(D \o F, C) /\ Range(D \o F) = Range(D) \cup Range(F)
  BY <1>3, <1>4, NdsConcat
<1>12. /\ NdsOrder((D \o F) \o U, C)
       /\ Range((D \o F) \o U) = (Range(D) \cup Range(F)) \cup Range(U)
  <2>1. \A c \in Range(D \o F) :
          c.op # "commit" /\ \A d \in Range(U) : ~Removes(d, c.key)
    BY <1>3, <1>8, <1>11 DEF Removes
  <2>2. QED
    BY <1>5, <1>11, <2>1, NdsConcat, SMTT(30)
<1>13. /\ NdsOrder(((D \o F) \o U) \o T, C)
       /\ Range(((D \o F) \o U) \o T) = ((Range(D) \cup Range(F)) \cup Range(U)) \cup Range(T)
  <2>1. \A c \in Range((D \o F) \o U) :
          /\ c.op # "commit"
          /\ c.op \in {"add", "set"} => \A d \in Range(T) : ~Removes(d, c.key)
    BY <1>3, <1>6, <1>8, <1>10, <1>12 DEF Removes
  <2> DEFINE a == (D \o F) \o U
  <2>2. NdsOrder(a, C) /\ Range(a) = (Range(D) \cup Range(F)) \cup Range(U)
    BY <1>12
  <2>3. \A c \in Range(a) :
          /\ c.op # "commit"
          /\ c.op \in {"add", "set"} => \A d \in Range(T) : ~Removes(d, c.key)
    BY <2>1
  <2> HIDE DEF a
  <2>4. NdsOrder(a, C) /\ NdsOrder(T, C)
    BY <1>6, <2>2
  <2>5. NdsOrder(a \o T, C) /\ Range(a \o T) = Range(a) \cup Range(T)
    BY <2>3, <2>4, NdsConcat
  <2>6. QED
    BY <2>2, <2>5 DEF a
<1>14. /\ NdsOrder(q, C)
       /\ Range(q) = (((Range(D) \cup Range(F)) \cup Range(U)) \cup Range(T)) \cup Range(E)
  <2>1. \A c \in Range(((D \o F) \o U) \o T) :
          c.op # "commit" /\ \A d \in Range(E) : ~Removes(d, c.key)
    BY <1>3, <1>6, <1>7, <1>8, <1>13 DEF Removes
  <2> DEFINE a == ((D \o F) \o U) \o T
  <2>2. NdsOrder(a, C) /\ Range(a) = ((Range(D) \cup Range(F)) \cup Range(U)) \cup Range(T)
    BY <1>13
  <2>3. \A c \in Range(a) :
          /\ c.op # "commit"
          /\ c.op \in {"add", "set"} => \A d \in Range(E) : ~Removes(d, c.key)
    BY <2>1
  <2> HIDE DEF a
  <2>4. NdsOrder(a, C) /\ NdsOrder(E, C)
    BY <1>7, <2>2
  <2>5. NdsOrder(a \o E, C) /\ Range(a \o E) = Range(a) \cup Range(E)
    BY <2>3, <2>4, NdsConcat
  <2>6. QED
    BY <2>2, <2>5 DEF a
<1> HIDE DEF q
<1>15. \A key \in NdsKeys : \E c \in Range(q) : Removes(c, key)
  <2>1. \A name \in {"fqdn", "users", "themespec"} : Removes(Del(name), Option(name))
    BY <1>2
  <2>2. \A name \in {"fqdn", "users", "themespec"} : \E c \in Range(q) : Removes(c, Option(name))
    BY <1>3, <1>14, <2>1
  <2>3. \E c \in Range(q) : Removes(c, Option("login"))
    BY <1>6, <1>14
  <2>4. QED
    BY <2>2, <2>3 DEF NdsKeys
<1>16. \A t \in C : \E c \in Range(q) : Adds(c, t)
  BY <1>9, <1>14
<1>17. q # <<>>
  <2>1. Range(q) # {}
    BY <1>6, <1>14
  <2>2. Range(<<>>) = {}
    BY DEF Range
  <2>3. QED
    BY <2>1, <2>2
<1>18. \A st : KeysKnown(st) => Progress(C, Range(q), st)
  BY <1>15, <1>16 DEF KeysKnown, Progress
<1>19. QED
  BY <1>1, <1>14, <1>17, <1>18 DEF C

-----------------------------------------------------------------------------
(* build_uci_plan                                                          *)

(* Lines about wireless sections alone.                                    *)
LEMMA UciWireless ==
  ASSUME NEW S, NEW q \in Seq(S), \A c \in S : UciShape(c) /\ c.pkg = "wireless"
  PROVE  UciOrder(q)
<1>1. /\ q \in Seq(Range(q)) /\ Range(q) \subseteq S
      /\ \A i \in 1..Len(q) : q[i] \in Range(q) /\ After(q, i) \subseteq Range(q)
  BY ListElements
<1>2. ASSUME NEW i \in 1..Len(q)
      PROVE  UciShape(q[i]) /\ UciFollows(q[i], After(q, i))
  <2>1. q[i] \in S /\ After(q, i) \subseteq S
    BY <1>1
  <2>2. QED
    BY <2>1 DEF UciFollows
<1>3. QED
  BY <1>1, <1>2 DEF UciOrder

(* Wireless lines after a batch.                                           *)
LEMMA UciConcat ==
  ASSUME NEW a, NEW b, UciOrder(a), UciOrder(b), \A c \in Range(b) : c.pkg = "wireless"
  PROVE  UciOrder(a \o b) /\ Range(a \o b) = Range(a) \cup Range(b)
<1> DEFINE S == Range(a) \cup Range(b)
           q == a \o b
<1>1. a \in Seq(Range(a)) /\ b \in Seq(Range(b))
  BY DEF UciOrder
<1>2. a \in Seq(S) /\ b \in Seq(S)
  BY <1>1, SeqMonotonic
<1>3. /\ q \in Seq(S) /\ Range(q) = Range(a) \cup Range(b)
      /\ \A i \in 1..Len(q) :
           \/ /\ i \in 1..Len(a) /\ q[i] = a[i]
              /\ After(q, i) = After(a, i) \cup Range(b)
           \/ /\ i - Len(a) \in 1..Len(b) /\ q[i] = b[i - Len(a)]
              /\ After(q, i) = After(b, i - Len(a))
  BY <1>2, AfterInConcat
<1> HIDE DEF q
<1>4. ASSUME NEW i \in 1..Len(a)
      PROVE  UciShape(a[i]) /\ UciFollows(a[i], After(a, i) \cup Range(b))
  <2>1. UciShape(a[i]) /\ UciFollows(a[i], After(a, i))
    BY <1>4 DEF UciOrder
  <2>2. QED
    BY <2>1 DEF UciFollows
<1>5. \A i \in 1..Len(q) : UciShape(q[i]) /\ UciFollows(q[i], After(q, i))
  BY <1>3, <1>4 DEF UciOrder
<1>6. q \in Seq(Range(q))
  BY <1>3
<1>7. QED
  BY <1>3, <1>5, <1>6 DEF UciOrder, q

(* Lists of lines about networks that set again what they delete.          *)
NetworkList(S) ==
  {q \in Seq(S) : \A i \in 1..Len(q) : q[i].op = "delete" => SetNet(q[i].key) \in After(q, i)}

(* Such lists, one after the other, are one.                               *)
LEMMA NetworkListConcat ==
  ASSUME NEW S, NEW a \in NetworkList(S), NEW b \in NetworkList(S)
  PROVE  a \o b \in NetworkList(S)
<1> DEFINE q == a \o b
<1>1. /\ a \in Seq(S) /\ \A i \in 1..Len(a) : a[i].op = "delete" => SetNet(a[i].key) \in After(a, i)
      /\ b \in Seq(S) /\ \A i \in 1..Len(b) : b[i].op = "delete" => SetNet(b[i].key) \in After(b, i)
  BY DEF NetworkList
<1>2. /\ q \in Seq(S)
      /\ \A i \in 1..Len(q) :
           \/ /\ i \in 1..Len(a) /\ q[i] = a[i]
              /\ After(q, i) = After(a, i) \cup Range(b)
           \/ /\ i - Len(a) \in 1..Len(b) /\ q[i] = b[i - Len(a)]
              /\ After(q, i) = After(b, i - Len(a))
  BY <1>1, AfterInConcat
<1> HIDE DEF q
<1>3. \A i \in 1..Len(q) : q[i].op = "delete" => SetNet(q[i].key) \in After(q, i)
  BY <1>1, <1>2
<1>4. QED
  BY <1>2, <1>3 DEF NetworkList, q

(* Such a list and the commit of the networks.                             *)
LEMMA NetworkPart ==
  ASSUME NEW S, NEW a \in NetworkList(S),
         \A c \in S : UciShape(c) /\ c.pkg = "network" /\ c.op # "commit"
  PROVE  LET q == a \o <<Commit("network")>> IN
         UciOrder(q) /\ Range(q) = Range(a) \cup {Commit("network")}
<1> DEFINE z == Commit("network")
           b == <<z>>
           T == S \cup {z}
           q == a \o b
<1>1. /\ a \in Seq(S)
      /\ \A i \in 1..Len(a) : a[i].op = "delete" => SetNet(a[i].key) \in After(a, i)
  BY DEF NetworkList
<1>2. z.op = "commit" /\ z.pkg = "network" /\ UciShape(z)
  BY DEF Commit, Cmd, UciShape
<1>3. z = Commit("network")
  OBVIOUS
<1> HIDE DEF z
<1>4. /\ b \in Seq(T) /\ Len(b) = 1 /\ b[1] = z /\ Range(b) = {z}
      /\ a \in Seq(T)
  BY <1>1, SeqMonotonic DEF Range
<1>5. After(b, 1) = {}
  BY <1>4 DEF After
<1> HIDE DEF b
<1>6. /\ q \in Seq(T) /\ Range(q) = Range(a) \cup Range(b)
      /\ \A i \in 1..Len(q) :
           \/ /\ i \in 1..Len(a) /\ q[i] = a[i]
              /\ After(q, i) = After(a, i) \cup Range(b)
           \/ /\ i - Len(a) \in 1..Len(b) /\ q[i] = b[i - Len(a)]
              /\ After(q, i) = After(b, i - Len(a))
  BY <1>4, AfterInConcat
<1> HIDE DEF q
<1>7. \A i \in 1..Len(b) : i = 1
  BY <1>4
<1>8. ASSUME NEW i \in 1..Len(q)
      PROVE  UciShape(q[i]) /\ UciFollows(q[i], After(q, i))
  <2>1. CASE i \in 1..Len(a) /\ q[i] = a[i] /\ After(q, i) = After(a, i) \cup {z}
    <3>1. a[i] \in S
      BY <1>1, <2>1, ElementOfSeq
    <3>2. UciShape(a[i]) /\ a[i].pkg = "network" /\ a[i].op # "commit"
      BY <3>1
    <3>3. UciFollows(a[i], After(a, i) \cup {z})
      BY <1>1, <1>3, <2>1, <3>2 DEF UciFollows
    <3>4. QED
      BY <2>1, <3>2, <3>3
  <2>2. CASE q[i] = z /\ After(q, i) = {}
    BY <1>2, <2>2 DEF UciFollows
  <2>3. QED
    BY <1>4, <1>5, <1>6, <1>7, <2>1, <2>2
<1>9. q \in Seq(Range(q))
  BY <1>6, SeqOfRange
<1>10. QED
  BY <1>4, <1>6, <1>8, <1>9 DEF UciOrder, q, b, z

(* The SSIDs that are configured and those that are not are SSIDs of the   *)
(* update.                                                                 *)
LEMMA WlanParts ==
  ASSUME NEW u, NEW cp, u.wlans \in Seq(Range(u.wlans)), cp.maxSsids \in Nat
  PROVE  /\ ActiveWlans(u, cp) \in Seq(Range(u.wlans))
         /\ OmittedWlans(u, cp) \in Seq(Range(u.wlans))
<1> DEFINE s == u.wlans
           S == Range(s)
           m == cp.maxSsids
           n == ActiveCount(u, cp)
<1>1. s \in Seq(S) /\ Len(s) \in Nat /\ m \in Nat
  BY LenProperties
<1>2. \A i \in 1..Len(s) : s[i] \in S
  BY <1>1, ElementOfSeq
<1>3. n = Min({Len(s), m})
  BY DEF ActiveCount
<1>4. /\ ActiveWlans(u, cp) = SubSeq(s, 1, n)
      /\ OmittedWlans(u, cp) = SubSeq(s, n + 1, Len(s))
  BY DEF ActiveWlans, OmittedWlans
<1> HIDE DEF s, S, m, n
<1>5. n \in Nat /\ n <= Len(s)
  BY <1>1, <1>3 DEF Min
<1>6. \A i \in 1..n : s[i] \in S
  BY <1>1, <1>2, <1>5
<1>7. \A i \in (n + 1)..Len(s) : s[i] \in S
  BY <1>1, <1>2, <1>5
<1>8. SubSeq(s, 1, n) \in Seq(S)
  BY <1>5, <1>6, SubSeqProperties
<1>9. SubSeq(s, n + 1, Len(s)) \in Seq(S)
  BY <1>1, <1>5, <1>7, SubSeqProperties
<1>10. QED
  BY <1>4, <1>8, <1>9 DEF s, S

(* A field of the elements of a sequence has finitely many values.         *)
LEMMA FiniteValues ==
  ASSUME NEW S, NEW s \in Seq(S), NEW T, NEW f \in [S -> T],
         NEW R, \A x \in R : \E i \in DOMAIN s : x = f[s[i]]
  PROVE  IsFiniteSet(R)
<1>1. Len(s) \in Nat /\ DOMAIN s = 1..Len(s) /\ \A i \in 1..Len(s) : s[i] \in S
  BY LenProperties, ElementOfSeq
<1> DEFINE g == [i \in 1..Len(s) |-> f[s[i]]]
           all == {g[i] : i \in 1..Len(s)}
<1>2. g \in Surjection(1..Len(s), all)
  BY DEF Surjection
<1>3. R \subseteq all
  BY <1>1
<1>4. IsFiniteSet(1..Len(s))
  BY <1>1, FS_Interval
<1> HIDE DEF g, all
<1>5. IsFiniteSet(all)
  BY <1>2, <1>4, FS_Surjection
<1>6. QED
  BY <1>3, <1>5, FS_Subset

(* The VLANs of the configured SSIDs.                                      *)
Vlans(u, cp) ==
  LET active == ActiveWlans(u, cp) IN {active[i].vlan : i \in DOMAIN active} \ {None}

(* The lines about networks: those of the VLANs, each deleted and set, the *)
(* management VLAN, and the commit if there are any.                       *)
LEMMA NetworkLinesOrder ==
  ASSUME NEW u, NEW cp, u.wlans \in Seq(Range(u.wlans)), cp.maxSsids \in Nat
  PROVE  LET q == NetworkLines(u, cp) IN
         /\ UciOrder(q)
         /\ \A c \in Range(q) : c.pkg = "network"
         /\ \A v \in Vlans(u, cp) : /\ SetNet(VlanSection(v)) \in Range(q)
                                    /\ Commit("network") \in Range(q)
<1> DEFINE active == ActiveWlans(u, cp)
           vlans == Vlans(u, cp)
           n == Cardinality(vlans)
           l == SetToSeq(vlans)
           del(v) == Cmd("delete", "network", VlanSection(v), "")
           set(v) == SetNet(VlanSection(v))
           mg == Cmd("set", "network", <<"management", "">>,
                     IF u.mgmt.enabled THEN <<u.mgmt.vlan>> ELSE <<>>)
           S == ({del(v) : v \in vlans} \cup {set(v) : v \in vlans}) \cup {mg}
           parts == [i \in 1..n |-> SsidVlanLines(l[i])]
           M == ManagementVlanLines(u.mgmt, cp)
           V == FlattenSeq(parts)
           lines == V \o M
<1>1. NetworkLines(u, cp) = IF lines = <<>> THEN <<>> ELSE lines \o <<Commit("network")>>
  BY DEF NetworkLines, Vlans
<1>2. IsFiniteSet(vlans)
  <2> DEFINE W == Range(u.wlans)
             f == [w \in W |-> w.vlan]
             T == {w.vlan : w \in W}
  <2>1. active \in Seq(W)
    BY WlanParts
  <2>2. f \in [W -> T]
    OBVIOUS
  <2> HIDE DEF active
  <2>3. \A i \in DOMAIN active : active[i] \in W
    BY <2>1, LenProperties, ElementOfSeq
  <2>4. \A v \in vlans : \E i \in DOMAIN active : v = f[active[i]]
    BY <2>3 DEF Vlans, active
  <2> HIDE DEF f, T, W, vlans
  <2>5. QED
    BY <2>1, <2>2, <2>4, FiniteValues
<1>3. /\ n \in Nat /\ l \in [1..n -> vlans]
      /\ \A v \in vlans : \E i \in 1..n : l[i] = v
  BY <1>2, Listed
<1>4. ASSUME NEW v
      PROVE  /\ del(v).op = "delete" /\ del(v).pkg = "network" /\ del(v).key = VlanSection(v)
             /\ set(v).op = "set" /\ set(v).pkg = "network" /\ set(v).val = "none"
             /\ SsidVlanLines(v) = <<del(v), set(v)>>
  BY DEF Cmd, SetNet, SsidVlanLines
<1>5. mg.op = "set" /\ mg.pkg = "network" /\ mg.key[1] # "vlan"
  BY DEF Cmd
<1>6. M = <<>> \/ M = <<mg>>
  BY DEF ManagementVlanLines
<1>7. \A v : set(v) = SetNet(VlanSection(v))
  OBVIOUS
<1> HIDE DEF vlans, n, l, del, set, mg
<1>8. \A c \in S : UciShape(c) /\ c.pkg = "network" /\ c.op # "commit"
  <2>1. \A v : /\ UciShape(del(v)) /\ del(v).pkg = "network" /\ del(v).op # "commit"
               /\ UciShape(set(v)) /\ set(v).pkg = "network" /\ set(v).op # "commit"
    BY <1>4 DEF UciShape
  <2>2. UciShape(mg) /\ mg.pkg = "network" /\ mg.op # "commit"
    BY <1>5 DEF UciShape
  <2>3. QED
    BY <2>1, <2>2
<1>9. ASSUME NEW v \in vlans
      PROVE  SsidVlanLines(v) \in NetworkList(S) /\ Range(SsidVlanLines(v)) = {del(v), set(v)}
  <2> DEFINE d == del(v)
             t == set(v)
             q == <<d, t>>
  <2>1. /\ d.op = "delete" /\ d.key = VlanSection(v) /\ t.op = "set"
        /\ SsidVlanLines(v) = q /\ t = SetNet(d.key)
    BY <1>4, <1>7
  <2>2. d \in S /\ t \in S
    BY <1>9
  <2> HIDE DEF d, t, S
  <2>3. q \in Seq(S) /\ Len(q) = 2 /\ q[1] = d /\ q[2] = t /\ Range(q) = {d, t}
    BY <2>2 DEF Range
  <2> HIDE DEF q
  <2>4. t \in After(q, 1)
    BY <2>3 DEF After
  <2>5. \A i \in 1..Len(q) : i = 1 \/ i = 2
    BY <2>3
  <2>6. \A i \in 1..Len(q) : q[i].op = "delete" => SetNet(q[i].key) \in After(q, i)
    BY <2>1, <2>3, <2>4, <2>5
  <2>7. q \in NetworkList(S)
    BY <2>3, <2>6 DEF NetworkList
  <2>8. QED
    BY <2>1, <2>3, <2>7 DEF d, t
<1>10. <<>> \in NetworkList(S)
  BY EmptySeq DEF NetworkList
<1>11. M \in NetworkList(S)
  <2>1. CASE M = <<>>
    BY <1>10, <2>1
  <2>2. CASE M = <<mg>>
    <3>1. M \in Seq(S) /\ Len(M) = 1 /\ M[1] = mg
      BY <2>2
    <3>2. \A i \in 1..Len(M) : M[i].op # "delete"
      BY <1>5, <3>1
    <3>3. QED
      BY <3>1, <3>2 DEF NetworkList
  <2>3. QED
    BY <1>6, <2>1, <2>2
<1> HIDE DEF S, M
<1>12. parts \in [1..n -> NetworkList(S)]
  BY <1>3, <1>9
<1>13. parts \in Seq(NetworkList(S)) /\ Len(parts) = n
  BY <1>3, <1>12, FunctionIsSeq
<1> HIDE DEF parts
<1>14. V \in NetworkList(S)
  BY <1>10, <1>13, FlattenClosed, NetworkListConcat
<1>15. ASSUME NEW v \in vlans
       PROVE  set(v) \in Range(V)
  <2>1. PICK i \in 1..n : l[i] = v
    BY <1>3
  <2>2. NetworkList(S) \subseteq Seq(S)
    BY DEF NetworkList
  <2>3. parts \in Seq(Seq(S))
    BY <1>13, <2>2, SeqMonotonic
  <2>4. Range(parts[i]) \subseteq Range(V)
    BY <1>13, <2>1, <2>3, FlattenElements
  <2>5. parts[i] = SsidVlanLines(v)
    BY <2>1 DEF parts
  <2>6. QED
    BY <1>9, <2>4, <2>5
<1> HIDE DEF V
<1>16. lines \in NetworkList(S)
  BY <1>11, <1>14, NetworkListConcat
<1>17. V \in Seq(S) /\ M \in Seq(S) /\ lines \in Seq(S)
  BY <1>11, <1>14, <1>16 DEF NetworkList
<1>18. Range(lines) = Range(V) \cup Range(M) /\ Range(lines) \subseteq S
  BY <1>17, RangeConcatenation, RangeOfSeq
<1> HIDE DEF lines
<1>19. CASE lines = <<>>
  <2>1. NetworkLines(u, cp) = <<>>
    BY <1>1, <1>19
  <2>2. Range(<<>>) = {} /\ <<>> \in Seq({}) /\ Len(<<>>) = 0
    BY DEF Range
  <2>3. UciOrder(<<>>)
    BY <2>2 DEF UciOrder
  <2>4. vlans = {}
    BY <1>15, <1>18, <1>19, <2>2
  <2>5. QED
    BY <2>1, <2>2, <2>3, <2>4 DEF vlans
<1>20. CASE lines # <<>>
  <2> DEFINE q == lines \o <<Commit("network")>>
  <2>1. NetworkLines(u, cp) = q
    BY <1>1, <1>20
  <2>2. UciOrder(q) /\ Range(q) = Range(lines) \cup {Commit("network")}
    BY <1>8, <1>16, NetworkPart
  <2> HIDE DEF q
  <2>3. \A c \in Range(q) : c.pkg = "network"
    BY <1>8, <1>18, <2>2, NetEntry
  <2>4. \A v \in vlans : set(v) \in Range(q) /\ Commit("network") \in Range(q)
    BY <1>15, <1>18, <2>2
  <2>5. QED
    BY <2>1, <2>2, <2>3, <2>4 DEF vlans, set
<1>21. QED
  BY <1>19, <1>20

(* A line about a wireless section; an SSID it sets is on one of the       *)
(* VLANs, if on any.                                                       *)
WirelessCmd(c, vlans) ==
  /\ c.pkg = "wireless" /\ c.op \in {"set", "delete"}
  /\ c.op = "set" /\ Vlanned(<<c.pkg, c.key, c.val>>) =>
       \E v \in vlans : c.val.network = VlanSection(v)

WirelessList(q, vlans) == q \in Seq(Range(q)) /\ \A c \in Range(q) : WirelessCmd(c, vlans)

(* Lists of such lines.                                                    *)
LEMMA WirelessLists ==
  ASSUME NEW vlans
  PROVE  /\ \A S : \A q \in Seq(S) : (\A c \in S : WirelessCmd(c, vlans)) => WirelessList(q, vlans)
         /\ \A a, b : WirelessList(a, vlans) /\ WirelessList(b, vlans) => WirelessList(a \o b, vlans)
<1>1. ASSUME NEW S, NEW q \in Seq(S), \A c \in S : WirelessCmd(c, vlans)
      PROVE  WirelessList(q, vlans)
  <2>1. q \in Seq(Range(q)) /\ Range(q) \subseteq S
    BY SeqOfRange, RangeOfSeq
  <2>2. QED
    BY <1>1, <2>1 DEF WirelessList
<1>2. ASSUME NEW a, NEW b, WirelessList(a, vlans), WirelessList(b, vlans)
      PROVE  WirelessList(a \o b, vlans)
  <2> DEFINE S == Range(a) \cup Range(b)
             q == a \o b
  <2>1. a \in Seq(S) /\ b \in Seq(S)
    BY <1>2, SeqMonotonic DEF WirelessList
  <2>2. q \in Seq(S)
    BY <2>1, ConcatProperties
  <2>3. \A c \in S : WirelessCmd(c, vlans)
    BY <1>2 DEF WirelessList
  <2> HIDE DEF q, S
  <2>4. QED
    BY <1>1, <2>2, <2>3 DEF q
<1>3. QED
  BY <1>1, <1>2

(* Sections of radios and default SSIDs are not those of SSIDs.            *)
LEMMA NoBand ==
  ASSUME NEW x, NEW y, NEW z, x \in {"radio", "default"}
  PROVE  ~Vlanned(<<"wireless", <<x, y>>, z>>)
<1>1. Range(AllBands) = {"2G", "5G", "5G2", "6G"}
  BY DEF Range, AllBands
<1>2. QED
  BY <1>1 DEF Vlanned

(* The channels of the radios.                                             *)
LEMMA RadioLinesOrder ==
  ASSUME NEW u, NEW vlans, u.radios \in Seq(Range(u.radios))
  PROVE  WirelessList(RadioLines(u), vlans)
<1> DEFINE s == u.radios
           line(r) == Cmd("set", "wireless", <<"radio", RadioSection(r.band, r.radioId)>>, r.channel)
           S == {line(r) : r \in Range(s)}
           part(r) == IF r.channel = None THEN <<>> ELSE <<line(r)>>
           parts == [i \in DOMAIN s |-> part(s[i])]
<1>1. RadioLines(u) = FlattenSeq(parts)
  BY DEF RadioLines
<1>2. Len(s) \in Nat /\ DOMAIN s = 1..Len(s) /\ \A i \in 1..Len(s) : s[i] \in Range(s)
  BY LenProperties, ElementOfSeq
<1>3. ASSUME NEW r
      PROVE  WirelessCmd(line(r), vlans)
  <2>1. /\ line(r).pkg = "wireless" /\ line(r).op = "set" /\ line(r).val = r.channel
        /\ line(r).key = <<"radio", RadioSection(r.band, r.radioId)>>
    BY DEF Cmd
  <2> HIDE DEF line
  <2>2. ~Vlanned(<<line(r).pkg, line(r).key, line(r).val>>)
    BY <2>1, NoBand
  <2>3. QED
    BY <2>1, <2>2 DEF WirelessCmd
<1>4. ASSUME NEW r \in Range(s)
      PROVE  part(r) \in Seq(S)
  <2>1. line(r) \in S
    BY <1>4
  <2> HIDE DEF line, S
  <2>2. <<>> \in Seq(S) /\ <<line(r)>> \in Seq(S)
    BY <2>1
  <2>3. QED
    BY <2>2
<1> HIDE DEF s, line, part
<1>5. parts \in [1..Len(s) -> Seq(S)]
  BY <1>2, <1>4
<1>6. parts \in Seq(Seq(S))
  BY <1>2, <1>5, FunctionIsSeq
<1>7. <<>> \in Seq(S) /\ \A a, b \in Seq(S) : a \o b \in Seq(S)
  BY EmptySeq, ConcatProperties
<1> HIDE DEF parts
<1>8. FlattenSeq(parts) \in Seq(S)
  BY <1>6, <1>7, FlattenClosed
<1>9. \A c \in S : WirelessCmd(c, vlans)
  BY <1>3
<1> HIDE DEF S
<1>10. QED
  BY <1>1, <1>8, <1>9, WirelessLists

(* The default SSIDs.                                                      *)
LEMMA DefaultLinesOrder ==
  ASSUME NEW u, NEW cp, NEW vlans, u.wlans \in Seq(Range(u.wlans)), cp.maxSsids \in Nat
  PROVE  WirelessList(DefaultLines(u, cp), vlans)
<1> DEFINE active == ActiveWlans(u, cp)
           W == Range(u.wlans)
           radio(w) == RadioSection(w.band, w.radioId)
           radios == {radio(active[i]) : i \in DOMAIN active}
           n == Cardinality(radios)
           l == SetToSeq(radios)
           line(x) == Cmd("set", "wireless", <<"default", x>>, "disabled")
           S == {line(x) : x \in radios}
           q == [i \in 1..n |-> line(l[i])]
<1>1. DefaultLines(u, cp) = q
  BY DEF DefaultLines
<1>2. IsFiniteSet(radios)
  <2> DEFINE f == [w \in W |-> radio(w)]
             T == {radio(w) : w \in W}
  <2>1. active \in Seq(W)
    BY WlanParts
  <2>2. f \in [W -> T]
    OBVIOUS
  <2> HIDE DEF active
  <2>3. \A i \in DOMAIN active : active[i] \in W
    BY <2>1, LenProperties, ElementOfSeq
  <2>4. \A x \in radios : \E i \in DOMAIN active : x = f[active[i]]
    BY <2>3
  <2> HIDE DEF f, T, W, radios
  <2>5. QED
    BY <2>1, <2>2, <2>4, FiniteValues
<1>3. n \in Nat /\ l \in [1..n -> radios]
  BY <1>2, Listed
<1>4. ASSUME NEW x
      PROVE  WirelessCmd(line(x), vlans)
  <2>1. /\ line(x).pkg = "wireless" /\ line(x).op = "set" /\ line(x).val = "disabled"
        /\ line(x).key = <<"default", x>>
    BY DEF Cmd
  <2>2. QED
    BY <2>1, NoBand DEF WirelessCmd
<1> HIDE DEF n, l, radios, line
<1>5. q \in [1..n -> S]
  BY <1>3
<1>6. q \in Seq(S)
  BY <1>3, <1>5, FunctionIsSeq
<1>7. \A c \in S : WirelessCmd(c, vlans)
  BY <1>4
<1> HIDE DEF S, q
<1>8. QED
  BY <1>1, <1>6, <1>7, WirelessLists

(* The SSIDs beyond max_ssids.                                             *)
LEMMA OmittedLinesOrder ==
  ASSUME NEW u, NEW cp, NEW vlans, u.wlans \in Seq(Range(u.wlans)), cp.maxSsids \in Nat
  PROVE  WirelessList(OmittedLines(u, cp), vlans)
<1> DEFINE omitted == OmittedWlans(u, cp)
           W == Range(u.wlans)
           line(w) == Cmd("delete", "wireless", WlanSection(w), "")
           S == {line(w) : w \in W}
           q == [i \in DOMAIN omitted |-> line(omitted[i])]
<1>1. OmittedLines(u, cp) = q
  BY DEF OmittedLines
<1>2. omitted \in Seq(W)
  BY WlanParts
<1> HIDE DEF omitted, W
<1>3. /\ Len(omitted) \in Nat /\ DOMAIN omitted = 1..Len(omitted)
      /\ \A i \in 1..Len(omitted) : omitted[i] \in W
  BY <1>2, LenProperties, ElementOfSeq
<1>4. ASSUME NEW w
      PROVE  WirelessCmd(line(w), vlans)
  <2>1. line(w).pkg = "wireless" /\ line(w).op = "delete"
    BY DEF Cmd
  <2>2. QED
    BY <2>1 DEF WirelessCmd
<1> HIDE DEF line
<1>5. q \in [1..Len(omitted) -> S]
  BY <1>3
<1>6. q \in Seq(S)
  BY <1>3, <1>5, FunctionIsSeq
<1>7. \A c \in S : WirelessCmd(c, vlans)
  BY <1>4
<1> HIDE DEF S, q
<1>8. QED
  BY <1>1, <1>6, <1>7, WirelessLists

(* The SSIDs, each with its own settings.                                  *)
LEMMA WlanLinesOrder ==
  ASSUME NEW u, NEW cp, u.wlans \in Seq(Range(u.wlans)), cp.maxSsids \in Nat
  PROVE  WirelessList(WlanLines(u, cp), Vlans(u, cp))
<1> DEFINE active == ActiveWlans(u, cp)
           vlans == Vlans(u, cp)
           A == Range(active)
           del(w) == Cmd("delete", "wireless", WlanSection(w), "")
           bare(w) == Cmd("set", "wireless", WlanSection(w), BareIface)
           full(w) == Cmd("set", "wireless", WlanSection(w), Iface(w))
           S == ({del(w) : w \in A} \cup {bare(w) : w \in A}) \cup {full(w) : w \in A}
           part(w) == <<del(w), bare(w), full(w)>>
           parts == [i \in DOMAIN active |-> part(active[i])]
<1>1. WlanLines(u, cp) = FlattenSeq(parts)
  BY DEF WlanLines
<1>2. active \in Seq(Range(u.wlans))
  BY WlanParts
<1>3. active \in Seq(A) /\ A = {active[i] : i \in 1..Len(active)}
  BY <1>2, SeqOfRange, RangeEquality
<1>4. /\ Len(active) \in Nat /\ DOMAIN active = 1..Len(active)
      /\ \A i \in 1..Len(active) : active[i] \in A
  BY <1>3, LenProperties, ElementOfSeq
<1>5. \A w \in A : w.vlan = None \/ w.vlan \in vlans
  BY <1>3, <1>4 DEF Vlans
<1> HIDE DEF active, vlans, A
<1>6. ASSUME NEW w \in A
      PROVE  /\ WirelessCmd(del(w), vlans) /\ WirelessCmd(bare(w), vlans)
             /\ WirelessCmd(full(w), vlans)
  <2>1. /\ del(w).pkg = "wireless" /\ del(w).op = "delete"
        /\ bare(w).pkg = "wireless" /\ bare(w).op = "set" /\ bare(w).val = BareIface
        /\ full(w).pkg = "wireless" /\ full(w).op = "set" /\ full(w).val = Iface(w)
    BY DEF Cmd
  <2>2. BareIface.network[1] # "vlan"
    BY DEF BareIface
  <2>3. Iface(w).network = IF w.vlan # None THEN VlanSection(w.vlan) ELSE <<"lan", None>>
    BY DEF Iface
  <2>4. Iface(w).network[1] = "vlan" => \E v \in vlans : Iface(w).network = VlanSection(v)
    BY <1>5, <1>6, <2>3
  <2>5. /\ \A c : Vlanned(<<c.pkg, c.key, c.val>>) => c.val.network[1] = "vlan"
    BY DEF Vlanned
  <2> HIDE DEF del, bare, full
  <2>6. WirelessCmd(del(w), vlans)
    BY <2>1 DEF WirelessCmd
  <2>7. WirelessCmd(bare(w), vlans)
    BY <2>1, <2>2, <2>5 DEF WirelessCmd
  <2>8. WirelessCmd(full(w), vlans)
    BY <2>1, <2>4, <2>5 DEF WirelessCmd
  <2>9. QED
    BY <2>6, <2>7, <2>8
<1> HIDE DEF del, bare, full
<1>7. \A w \in A : part(w) \in Seq(S)
  OBVIOUS
<1> HIDE DEF part
<1>8. \A c \in S : WirelessCmd(c, vlans)
  BY <1>6
<1> HIDE DEF S
<1>9. parts \in [1..Len(active) -> Seq(S)]
  BY <1>4, <1>7
<1>10. parts \in Seq(Seq(S))
  BY <1>4, <1>9, FunctionIsSeq
<1>11. <<>> \in Seq(S) /\ \A a, b \in Seq(S) : a \o b \in Seq(S)
  BY EmptySeq, ConcatProperties
<1> HIDE DEF parts
<1>12. FlattenSeq(parts) \in Seq(S)
  BY <1>10, <1>11, FlattenClosed
<1>13. WirelessList(FlattenSeq(parts), vlans)
  BY <1>8, <1>12, WirelessLists
<1>14. QED
  BY <1>1, <1>13 DEF vlans

(* The whole batch: in order, and it sets the networks of its SSIDs.       *)
LEMMA UciPlanOrder ==
  ASSUME NEW u, NEW cp, u.wlans \in Seq(Range(u.wlans)), u.radios \in Seq(Range(u.radios)),
         cp.maxSsids \in Nat
  PROVE  LET q == BuildUciPlan(u, cp) IN
         /\ UciOrder(q)
         /\ \A c \in Range(q) : c.pkg = "wireless" /\ c.op = "set"
                                /\ Vlanned(<<c.pkg, c.key, c.val>>)
              => SetNet(c.val.network) \in Range(q) /\ Commit("network") \in Range(q)
<1> DEFINE vlans == Vlans(u, cp)
           N == NetworkLines(u, cp)
           R == RadioLines(u)
           D == DefaultLines(u, cp)
           O == OmittedLines(u, cp)
           L == WlanLines(u, cp)
           W == ((R \o D) \o O) \o L
           lines == N \o W
           z == Commit("wireless")
           q == lines \o <<z>>
<1>1. BuildUciPlan(u, cp) = IF lines = <<>> THEN <<>> ELSE q
  BY DEF BuildUciPlan
<1>2. /\ UciOrder(N) /\ \A c \in Range(N) : c.pkg = "network"
      /\ \A v \in vlans : SetNet(VlanSection(v)) \in Range(N) /\ Commit("network") \in Range(N)
  BY NetworkLinesOrder
<1>3. WirelessList(R, vlans)
  BY RadioLinesOrder
<1>4. WirelessList(D, vlans)
  BY DefaultLinesOrder
<1>5. WirelessList(O, vlans)
  BY OmittedLinesOrder
<1>6. WirelessList(L, vlans)
  BY WlanLinesOrder
<1>7. z.op = "commit" /\ z.pkg = "wireless" /\ UciShape(z)
  BY DEF Commit, Cmd, UciShape
<1> HIDE DEF vlans, N, R, D, O, L, z
<1>8. WirelessList(R \o D, vlans)
  BY <1>3, <1>4, WirelessLists
<1>9. WirelessList((R \o D) \o O, vlans)
  BY <1>5, <1>8, WirelessLists
<1>10. WirelessList(W, vlans)
  BY <1>6, <1>9, WirelessLists
<1> HIDE DEF W
<1>11. W \in Seq(Range(W)) /\ \A c \in Range(W) : WirelessCmd(c, vlans)
  BY <1>10 DEF WirelessList
<1>12. \A c \in Range(W) : UciShape(c) /\ c.pkg = "wireless"
  BY <1>11 DEF WirelessCmd, UciShape
<1>13. UciOrder(W)
  BY <1>11, <1>12, UciWireless
<1>14. UciOrder(lines) /\ Range(lines) = Range(N) \cup Range(W)
  BY <1>2, <1>12, <1>13, UciConcat
<1> HIDE DEF lines
<1>15. <<z>> \in Seq({z}) /\ Range(<<z>>) = {z}
  BY DEF Range
<1>16. UciOrder(<<z>>)
  BY <1>7, <1>15, UciWireless
<1>17. UciOrder(q) /\ Range(q) = Range(lines) \cup {z}
  BY <1>7, <1>14, <1>15, <1>16, UciConcat
<1> HIDE DEF q
<1>18. ASSUME NEW c \in Range(q), c.pkg = "wireless", c.op = "set",
              Vlanned(<<c.pkg, c.key, c.val>>)
       PROVE  SetNet(c.val.network) \in Range(q) /\ Commit("network") \in Range(q)
  <2>1. c \in Range(W)
    BY <1>2, <1>7, <1>14, <1>17, <1>18
  <2>2. PICK v \in vlans : c.val.network = VlanSection(v)
    BY <1>11, <1>18, <2>1 DEF WirelessCmd
  <2>3. QED
    BY <1>2, <1>14, <1>17, <2>2
<1>19. Range(<<>>) = {} /\ UciOrder(<<>>)
  <2>1. Range(<<>>) = {} /\ <<>> \in Seq({}) /\ Len(<<>>) = 0
    BY DEF Range
  <2>2. QED
    BY <2>1 DEF UciOrder
<1>20. QED
  BY <1>1, <1>17, <1>18, <1>19

(* A new batch provides for the networks it needs.                         *)
LEMMA BatchBegins ==
  ASSUME NEW cm, NEW st, NEW rest, NetInv(cm, st, {}),
         \A c \in rest : c.pkg = "wireless" /\ c.op = "set" /\ Vlanned(<<c.pkg, c.key, c.val>>)
           => SetNet(c.val.network) \in rest /\ Commit("network") \in rest
  PROVE  NetInv(cm, st, rest)
<1>1. ASSUME NEW key, key[1] = "vlan", Net(key) \in cm
      PROVE  Net(key) \in st
  <2>1. Net(key) \in Of(cm, "network") /\ Net(key)[2] = key
    BY <1>1, NetEntry
  <2>2. QED
    BY <1>1, <2>1 DEF NetInv, NetsStay, Coming
<1>2. NetsStay(cm, st, rest)
  BY DEF NetInv, NetsStay, Coming
<1>3. StagedProvided(cm, st, rest)
  BY <1>1 DEF NetInv, StagedProvided, Provided, Coming, Vlanned
<1>4. LinesProvided(cm, st, rest)
  BY DEF LinesProvided, Provided, Coming
<1>5. QED
  BY <1>2, <1>3, <1>4 DEF NetInv

(* A batch that has ended left what it needs.                              *)
LEMMA BatchEnds ==
  ASSUME NEW q, q = <<>>
  PROVE  Range(q) = {}
  BY DEF Range

(* After a reboot the files are all there is.                              *)
LEMMA RebootNet ==
  ASSUME NEW cm, NEW st, NetInv(cm, st, {})
  PROVE  NetInv(cm, cm, {})
<1>1. NetsStay(cm, cm, {})
  BY DEF NetsStay, Coming, Of
<1>2. StagedProvided(cm, cm, {})
  BY DEF NetInv, StagedProvided, CommittedProvided, Provided
<1>3. LinesProvided(cm, cm, {})
  BY DEF LinesProvided
<1>4. QED
  BY <1>1, <1>2, <1>3 DEF NetInv

-----------------------------------------------------------------------------
(* detect_runtime_capabilities                                             *)

(* A finite set of numbers has a largest one.                              *)
LEMMA LargestNumber ==
  ASSUME NEW S \in SUBSET Nat, IsFiniteSet(S), S # {}
  PROVE  Max(S) \in S /\ \A x \in S : x <= Max(S)
<1> DEFINE n == Cardinality(S)
<1>1. n \in Nat /\ SetToSeq(S) \in [1..n -> S] /\ \A x \in S : \E i \in 1..n : SetToSeq(S)[i] = x
  BY Listed
<1>2. PICK f : f \in [1..n -> S] /\ \A x \in S : \E i \in 1..n : f[i] = x
  BY <1>1
<1> HIDE DEF n
<1>3. n # 0 /\ 1 \in 1..n
  <2>1. PICK x : x \in S
    OBVIOUS
  <2>2. PICK i \in 1..n : f[i] = x
    BY <1>2, <2>1
  <2>3. QED
    BY <1>1, <2>2
<1> DEFINE T == {k \in Nat : k + 1 \in 1..n => \E m \in 1..n : \A i \in 1..(k + 1) : f[i] <= f[m]}
<1>4. 0 \in T
  <2>1. f[1] \in Nat /\ 1 \in 1..n
    BY <1>2, <1>3
  <2>2. \A i \in 1..(0 + 1) : f[i] <= f[1]
    BY <2>1
  <2>3. QED
    BY <2>1, <2>2
<1>5. ASSUME NEW k \in Nat, k \in T
      PROVE  k + 1 \in T
  <2> SUFFICES ASSUME (k + 1) + 1 \in 1..n
               PROVE  \E m \in 1..n : \A i \in 1..((k + 1) + 1) : f[i] <= f[m]
    BY <1>5
  <2>1. k + 1 \in 1..n
    BY <1>1
  <2>2. PICK m \in 1..n : \A i \in 1..(k + 1) : f[i] <= f[m]
    BY <1>5, <2>1
  <2> DEFINE j == (k + 1) + 1
  <2>3. j \in 1..n /\ \A i \in 1..j : i \in 1..(k + 1) \/ i = j
    OBVIOUS
  <2>4. \A i \in 1..n : f[i] \in Nat
    BY <1>2
  <2> HIDE DEF j
  <2>5. CASE f[j] <= f[m]
    BY <2>2, <2>3, <2>5 DEF j
  <2>6. CASE ~(f[j] <= f[m])
    <3>1. \A i \in 1..j : i \in 1..n
      BY <1>1, <2>3
    <3>2. \A i \in 1..j : f[i] <= f[j]
      BY <2>2, <2>3, <2>4, <2>6, <3>1
    <3>3. QED
      BY <2>3, <3>2 DEF j
  <2>7. QED
    BY <2>5, <2>6
<1>6. Nat \subseteq T
  <2> HIDE DEF T
  <2>1. QED
    BY <1>4, <1>5, Induction
<1>7. n - 1 \in Nat /\ (n - 1) + 1 = n /\ n \in 1..n
  BY <1>1, <1>3
<1>8. PICK m \in 1..n : \A i \in 1..n : f[i] <= f[m]
  BY <1>6, <1>7
<1>9. f[m] \in S /\ \A x \in S : f[m] >= x
  BY <1>2, <1>8
<1>10. QED
  BY <1>9 DEF Max

(* max_ssids is a number, and the portal is offered with openNDS only.     *)
LEMMA CapabilitiesSound ==
  ASSUME NEW env \in Environment(Limits)
  PROVE  LET cp == DetectCapabilities(env) IN
         cp.maxSsids \in Nat /\ ("portal" \in cp.supports => cp.nds)
<1>1. /\ env.maxSsids \in Limits /\ env.apGroups \in SUBSET Limits
      /\ Limits \subseteq Nat /\ IsFiniteSet(Limits)
  BY AppliersAssumption DEF Environment
<1>2. MaxSsids(env) \in Nat
  <2>1. CASE env.apGroups = {}
    BY <1>1, <2>1 DEF MaxSsids
  <2>2. CASE env.apGroups # {}
    <3> DEFINE a == env.maxSsids
               G == env.apGroups
    <3>1. G \in SUBSET Nat /\ IsFiniteSet(G) /\ G # {} /\ a \in Nat
      BY <1>1, <2>2, FS_Subset
    <3> HIDE DEF a, G
    <3>2. Max(G) \in Nat
      BY <3>1, LargestNumber
    <3> DEFINE b == Max(G)
    <3> HIDE DEF b
    <3>3. Min({a, b}) \in Nat
      BY <3>1, <3>2 DEF Min, b
    <3>4. MaxSsids(env) = Min({a, b}) \/ MaxSsids(env) = a
      BY DEF MaxSsids, a, b, G
    <3>5. QED
      BY <3>1, <3>3, <3>4
  <2>3. QED
    BY <2>1, <2>2
<1>3. DetectCapabilities(env).maxSsids \in Nat
  BY <1>2 DEF DetectCapabilities
<1>4. "portal" \in DetectCapabilities(env).supports => DetectCapabilities(env).nds
  <2>1. CASE env.platform = "other" \/ env.bands = None
    BY <2>1 DEF DetectCapabilities
  <2>2. CASE ~(env.platform = "other" \/ env.bands = None)
    <3>1. DetectCapabilities(env).nds = env.nds
      BY <2>2 DEF DetectCapabilities
    <3>2. "portal" \in DetectCapabilities(env).supports => env.nds
      BY <2>2 DEF DetectCapabilities, When
    <3>3. QED
      BY <3>1, <3>2
  <2>3. QED
    BY <2>1, <2>2
<1>5. QED
  BY <1>3, <1>4

-----------------------------------------------------------------------------
(* Requests                                                                *)

(* Every request is of one of these kinds.                                 *)
LEMMA KindsKnown ==
  ASSUME NEW request \in Requests
  PROVE  KindOf[request] \in {"nobody", "invalid", "unhandled", "inert", "actionable"}
<1>1. KindOf[request] = Kind(request)
  BY DEF KindOf
<1>2. \A body : SetKind(body) \in {"nobody", "invalid", "unhandled", "inert", "actionable"}
  BY DEF SetKind
<1>3. \A body : PortalAuthKind(body) \in {"nobody", "invalid", "inert", "actionable"}
  BY Zenon DEF PortalAuthKind
<1>4. Kind(request) = SetKind(request.body) \/ Kind(request) = PortalAuthKind(request.body)
  BY DEF Kind
<1>5. QED
  BY <1>1, <1>2, <1>3, <1>4

(* Only a request that could be parsed is applied.                         *)
LEMMA AppliedIsParsed ==
  ASSUME NEW request \in Requests, Verdict(request) = "apply"
  PROVE  request \in Parsed
<1>1. KindOf[request] = "actionable"
  BY KindsKnown DEF Verdict
<1>2. QED
  BY <1>1 DEF Parsed

(* What is assumed of the update of a request that could be parsed.        *)
LEMMA UpdateLists ==
  ASSUME NEW request \in Parsed
  PROVE  LET u == UpdateOf[request] IN
         /\ u \in Range(UpdateOf)
         /\ u.wlans \in Seq(Range(u.wlans)) /\ u.radios \in Seq(Range(u.radios))
         /\ u.clients \in Seq(Range(u.clients))
         /\ IsFiniteSet(Policy(u).fqdns) /\ IsFiniteSet(Policy(u).users)
<1>1. UpdateOf[request] \in Range(UpdateOf)
  BY DEF UpdateOf, Range
<1>2. QED
  BY <1>1, AppliersAssumption

-----------------------------------------------------------------------------
(* The steps                                                               *)

(* The initial states.                                                     *)
LEMMA AppliersInit == Init => AppliersInv
<1> SUFFICES ASSUME Init
             PROVE  AppliersInv
  OBVIOUS
<1>1. caps.maxSsids \in Nat /\ ("portal" \in caps.supports => caps.nds)
  BY CapabilitiesSound DEF Init
<1>2. OutcomeInv
  BY <1>1 DEF Init, OutcomeInv, RejectedUntouched
<1>3. BatchInv
  <2>1. NetInv({}, {}, {})
    BY DEF NetInv, NetsStay, StagedProvided, LinesProvided, CommittedProvided, Of
  <2>2. QED
    BY <2>1 DEF Init, BatchInv
<1>4. PortalInv
  BY DEF Init, PortalInv, KeysKnown, Of, PortalFromOneUpdate
<1>5. QED
  BY <1>2, <1>3, <1>4 DEF AppliersInv

(* Outcomes: an update is turned down before any of its commands ran, or   *)
(* not at all.                                                             *)
LEMMA OutcomeStep == AppliersInv /\ [Next]_vars => OutcomeInv'
<1> SUFFICES ASSUME AppliersInv, [Next]_vars
             PROVE  OutcomeInv'
  OBVIOUS
<1>1. OutcomeInv
  BY DEF AppliersInv
<1> USE <1>1 DEF OutcomeInv, RejectedUntouched
<1>2. ASSUME NEW request \in Requests, Receive(request)
      PROVE  OutcomeInv'
  <2>1. CASE Verdict(request) = "apply"
    <3>1. request \in Parsed
      BY <2>1, AppliedIsParsed
    <3>2. QED
      BY <1>2, <2>1, <3>1 DEF Receive
  <2>2. CASE Verdict(request) # "apply"
    BY <1>2, <2>2 DEF Receive
  <2>3. QED
    BY <2>1, <2>2
<1>3. CASE UciRejects
  BY <1>3 DEF UciRejects, Finish
<1>4. CASE UciPlans
  BY <1>4 DEF UciPlans
<1>5. CASE BatchLine
  BY <1>5 DEF BatchLine
<1>6. CASE BatchFails
  BY <1>6 DEF BatchFails, Finish
<1>7. CASE ReloadWifi
  BY <1>7 DEF ReloadWifi
<1>8. CASE ReloadFails
  BY <1>8 DEF ReloadFails, Finish
<1>9. CASE PortalSkipped
  BY <1>9 DEF PortalSkipped, Finish
<1>10. CASE PortalPlans
  BY <1>10 DEF PortalPlans
<1>11. CASE PolicyCommand
  BY <1>11 DEF PolicyCommand, PolicyAdvances
<1>12. CASE DeleteTolerated
  BY <1>12 DEF DeleteTolerated, PolicyAdvances
<1>13. CASE PolicyFails
  BY <1>13 DEF PolicyFails, Finish
<1>14. CASE ClientCommand
  BY <1>14 DEF ClientCommand
<1>15. CASE ClientFails
  BY <1>15 DEF ClientFails, Finish
<1>16. CASE ClientsDone
  BY <1>16 DEF ClientsDone, Finish
<1>17. CASE ProcessDies
  BY <1>17 DEF ProcessDies, Finish
<1>18. CASE Reboot
  BY <1>18 DEF Reboot, Finish
<1>19. CASE UNCHANGED vars
  BY <1>19 DEF vars
<1>20. QED
  BY <1>2, <1>3, <1>4, <1>5, <1>6, <1>7, <1>8, <1>9, <1>10, <1>11, <1>12, <1>13, <1>14,
     <1>15, <1>16, <1>17, <1>18, <1>19 DEF Next

(* Networks: outside of a batch every one of an SSID is in the files, and  *)
(* a batch sets again what it deletes before it commits.                   *)
LEMMA BatchStep == AppliersInv /\ [Next]_vars => BatchInv'
<1> SUFFICES ASSUME AppliersInv, [Next]_vars
             PROVE  BatchInv'
  OBVIOUS
<1>1. OutcomeInv /\ BatchInv /\ PortalInv
  BY DEF AppliersInv
<1>2. ASSUME pc # "batch", pc' # "batch", UNCHANGED <<staged, committed, cut>>
      PROVE  BatchInv'
  BY <1>1, <1>2 DEF BatchInv
<1>3. ASSUME pc' # "batch", cut'
      PROVE  BatchInv'
  BY <1>3 DEF BatchInv
<1>4. ASSUME NEW request \in Requests, Receive(request)
      PROVE  BatchInv'
  BY <1>2, <1>4 DEF Receive, device
<1>5. CASE UciRejects
  BY <1>2, <1>5 DEF UciRejects, Finish, device
<1>6. CASE UciPlans
  <2> DEFINE q == BuildUciPlan(UpdateOf[update], caps)
  <2>1. /\ pc = "plan" /\ queue' = q /\ UNCHANGED <<staged, committed, cut>>
        /\ pc' = IF queue' = <<>> THEN "portal" ELSE "batch"
    BY <1>6 DEF UciPlans, device
  <2>2. update \in Parsed /\ caps.maxSsids \in Nat
    BY <1>1, <2>1 DEF OutcomeInv
  <2>3. /\ UciOrder(q)
        /\ \A c \in Range(q) : c.pkg = "wireless" /\ c.op = "set"
                               /\ Vlanned(<<c.pkg, c.key, c.val>>)
             => SetNet(c.val.network) \in Range(q) /\ Commit("network") \in Range(q)
    <3> DEFINE u == UpdateOf[update]
    <3>1. u.wlans \in Seq(Range(u.wlans)) /\ u.radios \in Seq(Range(u.radios))
      BY <2>2, UpdateLists
    <3> HIDE DEF u
    <3>2. QED
      BY <2>2, <3>1, UciPlanOrder DEF u
  <2> HIDE DEF q
  <2>4. CASE queue' = <<>>
    BY <1>2, <2>1, <2>4
  <2>5. CASE queue' # <<>>
    <3>1. cut \/ NetInv(committed, staged, {})
      BY <1>1, <2>1 DEF BatchInv
    <3>2. cut \/ NetInv(committed, staged, Range(q))
      BY <2>3, <3>1, BatchBegins
    <3>3. QED
      BY <2>1, <2>3, <2>5, <3>2 DEF BatchInv
  <2>6. QED
    BY <2>4, <2>5
<1>7. CASE BatchLine
  <2> DEFINE c == Head(queue)
             rest == Tail(queue)
  <2>1. /\ pc = "batch" /\ queue' = rest /\ cut' = cut
        /\ staged' = Effect(staged, c) /\ committed' = Filed(committed, staged, c)
        /\ pc' = IF queue' = <<>> THEN "reload" ELSE "batch"
    BY <1>7 DEF BatchLine, RunUci, Filed
  <2>2. queue # <<>> /\ UciOrder(queue)
    BY <1>1, <2>1 DEF BatchInv
  <2>3. /\ UciOrder(rest) /\ UciShape(c) /\ UciFollows(c, Range(rest))
        /\ Range(queue) = {c} \cup Range(rest)
    BY <2>2, UciOrderRest
  <2> HIDE DEF c, rest
  <2>4. cut \/ NetInv(committed, staged, {c} \cup Range(rest))
    BY <1>1, <2>1, <2>3 DEF BatchInv
  <2>5. cut \/ NetInv(committed', staged', Range(rest))
    BY <2>1, <2>3, <2>4, BatchLineNet
  <2>6. rest = <<>> => Range(rest) = {}
    BY BatchEnds
  <2>7. QED
    BY <2>1, <2>3, <2>5, <2>6 DEF BatchInv
<1>8. CASE BatchFails
  BY <1>3, <1>8 DEF BatchFails, Finish
<1>9. CASE ReloadWifi
  BY <1>2, <1>9 DEF ReloadWifi
<1>10. CASE ReloadFails
  BY <1>2, <1>10 DEF ReloadFails, Finish, device
<1>11. CASE PortalSkipped
  BY <1>2, <1>11 DEF PortalSkipped, Finish, device
<1>12. CASE PortalPlans
  BY <1>2, <1>12 DEF PortalPlans, Finish, device
<1>13. CASE PolicyCommand
  <2> DEFINE c == Head(queue)
  <2>1. /\ pc = "policy" /\ pc' # "batch" /\ cut' = cut
        /\ staged' = Effect(staged, c) /\ committed' = Filed(committed, staged, c)
    BY <1>13 DEF PolicyCommand, PolicyAdvances, RunUci, Filed
  <2>2. \E C : NdsOrder(queue, C) /\ queue # <<>>
    BY <1>1, <2>1 DEF PortalInv
  <2>3. \E C : NdsShape(c, C)
    BY <2>2, NdsOrderRest
  <2> HIDE DEF c
  <2>4. c.pkg \notin {"network", "wireless"}
    BY <2>3 DEF NdsShape
  <2>5. \A p \in {"network", "wireless"} :
          Of(committed', p) = Of(committed, p) /\ Of(staged', p) = Of(staged, p)
    BY <2>1, <2>4, OtherPackage
  <2>6. cut \/ NetInv(committed, staged, {})
    BY <1>1, <2>1 DEF BatchInv
  <2>7. cut \/ NetInv(committed', staged', {})
    BY <2>5, <2>6, NetFrame
  <2>8. QED
    BY <2>1, <2>7 DEF BatchInv
<1>14. CASE DeleteTolerated
  BY <1>2, <1>14 DEF DeleteTolerated, PolicyAdvances, device
<1>15. CASE PolicyFails
  BY <1>2, <1>15 DEF PolicyFails, Finish, device
<1>16. CASE ClientCommand
  BY <1>2, <1>16 DEF ClientCommand
<1>17. CASE ClientFails
  BY <1>2, <1>17 DEF ClientFails, Finish, device
<1>18. CASE ClientsDone
  BY <1>2, <1>18 DEF ClientsDone, Finish, device
<1>19. CASE ProcessDies
  <2>1. pc' # "batch" /\ UNCHANGED <<staged, committed>> /\ cut' = (cut \/ pc = "batch")
    BY <1>19 DEF ProcessDies, Finish, device
  <2>2. QED
    BY <1>1, <2>1 DEF BatchInv
<1>20. CASE Reboot
  <2>1. /\ pc' # "batch" /\ committed' = committed /\ staged' = committed
        /\ cut' = (cut \/ pc = "batch")
    BY <1>20 DEF Reboot, Finish
  <2>2. CASE cut \/ pc = "batch"
    BY <1>3, <2>1, <2>2
  <2>3. CASE ~(cut \/ pc = "batch")
    <3>1. NetInv(committed, staged, {})
      BY <1>1, <2>3 DEF BatchInv
    <3>2. NetInv(committed, committed, {})
      BY <3>1, RebootNet
    <3>3. QED
      BY <2>1, <3>2 DEF BatchInv
  <2>4. QED
    BY <2>2, <2>3
<1>21. CASE UNCHANGED vars
  BY <1>1, <1>21 DEF vars, device, BatchInv
<1>22. QED
  BY <1>4, <1>5, <1>6, <1>7, <1>8, <1>9, <1>10, <1>11, <1>12, <1>13, <1>14, <1>15, <1>16,
     <1>17, <1>18, <1>19, <1>20, <1>21 DEF Next

(* A command of the openNDS plan, run or passed over as st and cm say,     *)
(* with the rest of the plan after it.                                     *)
LEMMA PolicyAdvance ==
  ASSUME NEW st, NEW cm, NEW q, NEW P, NEW miss, q # <<>>, NdsOrder(q, PolicyConfig(P)),
         KeysKnown(st), KeysKnown(cm), miss \/ Progress(PolicyConfig(P), Range(q), st)
  PROVE  LET c == Head(q) IN
         /\ NdsOrder(Tail(q), PolicyConfig(P))
         /\ KeysKnown(Effect(st, c)) /\ KeysKnown(Filed(cm, st, c))
         /\ miss \/ Progress(PolicyConfig(P), Range(Tail(q)), Effect(st, c))
         /\ \/ miss
            \/ Of(Filed(cm, st, c), "opennds") \in {Of(cm, "opennds"), PolicyConfig(P)}
<1> DEFINE c == Head(q)
           C == PolicyConfig(P)
           rest == Range(Tail(q))
<1>1. \A t \in C : t[1] = "opennds" /\ t[2] \in NdsKeys
  BY PolicyKeys
<1>2. /\ NdsOrder(Tail(q), C) /\ NdsShape(c, C) /\ NdsFollows(c, rest)
      /\ Range(q) = {c} \cup rest
  BY NdsOrderRest
<1> HIDE DEF c, C, rest
<1>3. KeysKnown(Effect(st, c)) /\ KeysKnown(Filed(cm, st, c))
  BY <1>1, <1>2, KeysStayKnown
<1>4. miss \/ Progress(C, {c} \cup rest, st)
  BY <1>2 DEF C
<1>5. miss \/ Progress(C, rest, Effect(st, c))
  BY <1>1, <1>2, <1>4, NdsLine
<1>6. miss \/ Of(Filed(cm, st, c), "opennds") \in {Of(cm, "opennds"), C}
  <2>1. CASE c.op # "commit"
    BY <2>1, NothingFiled
  <2>2. CASE c.op = "commit"
    <3>1. c.pkg = "opennds"
      BY <1>2, <2>2 DEF NdsShape
    <3>2. miss \/ Of(st, "opennds") = C
      BY <1>1, <1>2, <1>4, <2>2, NdsCommit
    <3>3. QED
      BY <2>2, <3>1, <3>2, CommitFiles
  <2>3. QED
    BY <2>1, <2>2
<1>7. QED
  BY <1>2, <1>3, <1>5, <1>6 DEF c, C, rest

(* The openNDS configuration: a plan's commit files what the plan leads    *)
(* to, whatever was staged before it.                                      *)
LEMMA PortalStep == AppliersInv /\ [Next]_vars => PortalInv'
<1> SUFFICES ASSUME AppliersInv, [Next]_vars
             PROVE  PortalInv'
  OBVIOUS
<1>1. OutcomeInv /\ BatchInv /\ PortalInv
  BY DEF AppliersInv
<1>2. KeysKnown(staged) /\ KeysKnown(committed) /\ PortalFromOneUpdate
  BY <1>1 DEF PortalInv
<1>3. ASSUME pc' # "policy", UNCHANGED <<staged, committed, missed>>
      PROVE  PortalInv'
  BY <1>2, <1>3 DEF PortalInv, PortalFromOneUpdate
<1>4. ASSUME NEW request \in Requests, Receive(request)
      PROVE  PortalInv'
  BY <1>3, <1>4 DEF Receive, device
<1>5. CASE UciRejects
  BY <1>3, <1>5 DEF UciRejects, Finish, device
<1>6. CASE UciPlans
  BY <1>3, <1>6 DEF UciPlans, device
<1>7. CASE BatchLine
  <2> DEFINE c == Head(queue)
  <2>1. /\ pc = "batch" /\ pc' # "policy" /\ missed' = missed
        /\ staged' = Effect(staged, c) /\ committed' = Filed(committed, staged, c)
    BY <1>7 DEF BatchLine, RunUci, Filed
  <2>2. UciShape(c)
    BY <1>1, <2>1, UciOrderRest DEF BatchInv
  <2> HIDE DEF c
  <2>3. c.pkg # "opennds"
    BY <2>2 DEF UciShape
  <2>4. /\ Of(staged', "opennds") = Of(staged, "opennds")
        /\ Of(committed', "opennds") = Of(committed, "opennds")
    BY <2>1, <2>3, OtherPackage
  <2>5. QED
    BY <1>2, <2>1, <2>4 DEF PortalInv, KeysKnown, PortalFromOneUpdate
<1>8. CASE BatchFails
  BY <1>3, <1>8 DEF BatchFails, Finish, device
<1>9. CASE ReloadWifi
  BY <1>3, <1>9 DEF ReloadWifi
<1>10. CASE ReloadFails
  BY <1>3, <1>10 DEF ReloadFails, Finish, device
<1>11. CASE PortalSkipped
  BY <1>3, <1>11 DEF PortalSkipped, Finish, device
<1>12. CASE PortalPlans
  <2>1. pc = "portal" /\ UNCHANGED <<staged, committed, missed>>
    BY <1>12 DEF PortalPlans, device
  <2>2. CASE pc' # "policy"
    BY <1>3, <2>1, <2>2
  <2>3. CASE pc' = "policy"
    <3> DEFINE u == UpdateOf[update]
               q == BuildOpenNdsPlan(Policy(u))
    <3>1. HasPolicyUpdate(u) /\ queue' = q /\ update' = update
      BY <1>12, <2>3 DEF PortalPlans, Finish
    <3>2. update \in Parsed
      BY <1>1, <2>1 DEF OutcomeInv
    <3>3. IsFiniteSet(Policy(u).fqdns) /\ IsFiniteSet(Policy(u).users)
      BY <3>2, UpdateLists
    <3>4. /\ q # <<>> /\ NdsOrder(q, PolicyConfig(Policy(u)))
          /\ Progress(PolicyConfig(Policy(u)), Range(q), staged)
      <4> DEFINE P == Policy(u)
      <4>1. IsFiniteSet(P.fqdns) /\ IsFiniteSet(P.users)
        BY <3>3
      <4> HIDE DEF P
      <4>2. /\ BuildOpenNdsPlan(P) # <<>> /\ NdsOrder(BuildOpenNdsPlan(P), PolicyConfig(P))
            /\ Progress(PolicyConfig(P), Range(BuildOpenNdsPlan(P)), staged)
        BY <1>2, <4>1, OpenNdsPlanOrder
      <4>3. QED
        BY <4>2 DEF P
    <3> HIDE DEF q
    <3>5. QED
      BY <1>2, <2>1, <3>1, <3>4 DEF PortalInv, PortalFromOneUpdate
  <2>4. QED
    BY <2>2, <2>3
<1>13. ASSUME pc = "policy"
       PROVE  LET u == UpdateOf[update]
                  C == PolicyConfig(Policy(u))
                  c == Head(queue)
              IN  /\ HasPolicyUpdate(u) /\ NdsOrder(Tail(queue), C) /\ C \in PolicyConfigs
                  /\ KeysKnown(Effect(staged, c)) /\ KeysKnown(Filed(committed, staged, c))
                  /\ missed \/ Progress(C, Range(Tail(queue)), Effect(staged, c))
                  /\ missed \/ Of(Filed(committed, staged, c), "opennds")
                                 \in {Of(committed, "opennds"), C}
  <2> DEFINE P == Policy(UpdateOf[update])
  <2>1. /\ HasPolicyUpdate(UpdateOf[update]) /\ queue # <<>> /\ NdsOrder(queue, PolicyConfig(P))
        /\ missed \/ Progress(PolicyConfig(P), Range(queue), staged)
    BY <1>1, <1>13 DEF PortalInv
  <2>2. PolicyConfig(P) \in PolicyConfigs
    <3>1. UpdateOf[update] \in Range(UpdateOf)
      BY <1>1, <1>13, UpdateLists DEF OutcomeInv
    <3>2. QED
      BY <2>1, <3>1 DEF PolicyConfigs
  <2> HIDE DEF P
  <2>3. LET c == Head(queue) IN
        /\ NdsOrder(Tail(queue), PolicyConfig(P))
        /\ KeysKnown(Effect(staged, c)) /\ KeysKnown(Filed(committed, staged, c))
        /\ missed \/ Progress(PolicyConfig(P), Range(Tail(queue)), Effect(staged, c))
        /\ \/ missed
           \/ Of(Filed(committed, staged, c), "opennds") \in {Of(committed, "opennds"), PolicyConfig(P)}
    BY <1>2, <2>1, PolicyAdvance
  <2>4. QED
    BY <2>1, <2>2, <2>3 DEF P
<1>14. CASE PolicyCommand
  <2> DEFINE c == Head(queue)
  <2>1. /\ pc = "policy" /\ missed' = missed /\ update' = update
        /\ staged' = Effect(staged, c) /\ committed' = Filed(committed, staged, c)
        /\ pc' = "policy" => queue' = Tail(queue) /\ Tail(queue) # <<>>
    BY <1>14 DEF PolicyCommand, PolicyAdvances, RunUci, Filed
  <2>2. KeysKnown(staged') /\ KeysKnown(committed')
    BY <1>13, <2>1
  <2>3. PortalFromOneUpdate'
    BY <1>2, <1>13, <2>1 DEF PortalFromOneUpdate
  <2>4. ASSUME pc' = "policy"
        PROVE  LET C == PolicyConfig(Policy(UpdateOf[update])) IN
               /\ HasPolicyUpdate(UpdateOf[update]) /\ queue' # <<>> /\ NdsOrder(queue', C)
               /\ missed' \/ Progress(C, Range(queue'), staged')
    BY <1>13, <2>1, <2>4
  <2>5. QED
    BY <2>1, <2>2, <2>3, <2>4 DEF PortalInv
<1>15. CASE DeleteTolerated
  <2> DEFINE c == Head(queue)
  <2>1. /\ pc = "policy" /\ update' = update /\ UNCHANGED <<staged, committed>>
        /\ missed' = (missed \/ Effect(staged, c) # staged)
        /\ pc' = "policy" => queue' = Tail(queue) /\ Tail(queue) # <<>>
    BY <1>15 DEF DeleteTolerated, PolicyAdvances, device
  <2>2. PortalFromOneUpdate'
    BY <1>2, <2>1 DEF PortalFromOneUpdate
  <2>3. ASSUME pc' = "policy"
        PROVE  LET C == PolicyConfig(Policy(UpdateOf[update])) IN
               /\ HasPolicyUpdate(UpdateOf[update]) /\ queue' # <<>> /\ NdsOrder(queue', C)
               /\ missed' \/ Progress(C, Range(queue'), staged')
    BY <1>13, <2>1, <2>3
  <2>4. QED
    BY <1>2, <2>1, <2>2, <2>3 DEF PortalInv
<1>16. CASE PolicyFails
  BY <1>3, <1>16 DEF PolicyFails, Finish, device
<1>17. CASE ClientCommand
  BY <1>3, <1>17 DEF ClientCommand
<1>18. CASE ClientFails
  BY <1>3, <1>18 DEF ClientFails, Finish, device
<1>19. CASE ClientsDone
  BY <1>3, <1>19 DEF ClientsDone, Finish, device
<1>20. CASE ProcessDies
  BY <1>3, <1>20 DEF ProcessDies, Finish, device
<1>21. CASE Reboot
  <2>1. pc' # "policy" /\ committed' = committed /\ staged' = committed /\ missed' = missed
    BY <1>21 DEF Reboot, Finish
  <2>2. QED
    BY <1>2, <2>1 DEF PortalInv, PortalFromOneUpdate
<1>22. CASE UNCHANGED vars
  BY <1>1, <1>22 DEF vars, device, PortalInv, PortalFromOneUpdate
<1>23. QED
  BY <1>4, <1>5, <1>6, <1>7, <1>8, <1>9, <1>10, <1>11, <1>12, <1>14, <1>15, <1>16, <1>17,
     <1>18, <1>19, <1>20, <1>21, <1>22 DEF Next

-----------------------------------------------------------------------------
(* The appliers keep their invariant: outcomes, networks and openNDS       *)
(* configuration together, for any requests, platform, failures, process   *)
(* deaths and reboots.                                                     *)
THEOREM AppliersCorrect == Spec => []AppliersInv
<1>1. AppliersInv /\ [Next]_vars => AppliersInv'
  BY OutcomeStep, BatchStep, PortalStep DEF AppliersInv
<1>2. QED
  BY <1>1, AppliersInit, PTL DEF Spec

(* An update that is answered as rejected ran no command: neither          *)
(* RuntimeSupportGuard nor a reconciler turns an update down once an       *)
(* earlier applier changed the device.                                     *)
THEOREM RejectedLeavesDevice == Spec => []RejectedUntouched
<1>1. AppliersInv => RejectedUntouched
  BY DEF AppliersInv, OutcomeInv
<1>2. QED
  BY <1>1, AppliersCorrect, PTL

(* The openNDS configuration in the files is that of one update or empty,  *)
(* wherever earlier plans of OpenNdsPortalReconciler were cut off, unless  *)
(* a tolerated `uci -q delete` failed.                                     *)
THEOREM OnePortalPolicy == Spec => []PortalFromOneUpdate
<1>1. AppliersInv => PortalFromOneUpdate
  BY DEF AppliersInv, PortalInv
<1>2. QED
  BY <1>1, AppliersCorrect, PTL

(* At every line of every batch of OpenWrtUciReconciler an SSID in the     *)
(* files that is on a VLAN has its network there, unless some batch was    *)
(* cut short.                                                              *)
THEOREM SsidsHaveNetworks == Spec => []NetworksExist
<1>1. AppliersInv => NetworksExist
  <2> SUFFICES ASSUME AppliersInv, ~cut,
                      NEW t \in Of(committed, "wireless"), Vlanned(t)
               PROVE  <<"network", t[3].network, "none">> \in committed
    BY DEF NetworksExist, Vlanned
  <2>1. CommittedProvided(committed)
    BY DEF AppliersInv, BatchInv, NetInv
  <2>2. QED
    BY <2>1 DEF CommittedProvided, Net
<1>2. QED
  BY <1>1, AppliersCorrect, PTL

-----------------------------------------------------------------------------
(* An applied update is served: the invariant                              *)

(* What a configuration has of one wireless section, and what a command    *)
(* makes of it.                                                            *)
Section(cfg, s) == {t \in Of(cfg, "wireless") : t[2] = s}
Touches(c, s) == c.pkg = "wireless" /\ c.op \in {"delete", "set"} /\ c.key = s
Result(c) == IF c.op = "set" THEN {<<c.pkg, c.key, c.val>>} ELSE {}

(* The last command about the section makes it v; there is no such command *)
(* any more and it is v.                                                   *)
LastMakes(q, s, v) ==
  \E i \in 1..Len(q) : /\ Touches(q[i], s) /\ Result(q[i]) = v
                       /\ \A d \in After(q, i) : ~Touches(d, s)
Untouched(q, s) == \A c \in Range(q) : ~Touches(c, s)
OnTheWay(q, st, s, v) == LastMakes(q, s, v) \/ (Untouched(q, s) /\ Section(st, s) = v)

(* The sections of an update's SSIDs and what they should be.              *)
Sections(list) == {WlanSection(list[i]) : i \in DOMAIN list}
Goal(active, s) ==
  IF s \in Sections(active) THEN {<<"wireless", s, Iface(LastFor(active, WlanSection, s))>>}
  ELSE {}

(* A configuration with all of the update's SSIDs and their networks.      *)
HasSsids(cfg, u, cp) ==
  /\ \A s \in Sections(u.wlans) : Section(cfg, s) = Goal(ActiveWlans(u, cp), s)
  /\ \A v \in Vlans(u, cp) : Net(VlanSection(v)) \in cfg

(* A batch that leads to such a configuration, and ends with the commit.   *)
BatchLeads(q, cm, st, u, cp) ==
  /\ \A s \in Sections(u.wlans) : OnTheWay(q, st, s, Goal(ActiveWlans(u, cp), s))
  /\ \A v \in Vlans(u, cp) : Provided(cm, st, Range(q), VlanSection(v))
  /\ Commit("wireless") \in Range(q)
  /\ \A i \in 1..Len(q) : q[i].op = "commit" /\ q[i].pkg = "wireless" => After(q, i) = {}

(* The rest of a plan after which openNDS runs the update's policy: the    *)
(* configuration is committed or will be, the same for the ThemeSpec       *)
(* script, and the restart comes last.                                     *)
Script(u) == <<RedirectUrl(u), LandingPage(u)>>
Themed(th, u) == RedirectUrl(u) # None => th = Script(u)
PolicyServed(runs, th, u) ==
  HasPolicyUpdate(u) => runs = PolicyConfig(Policy(u)) /\ Themed(th, u)
PlanLeads(q, cm, th, miss, u) ==
  /\ \/ miss
     \/ \E c \in Range(q) : c.op = "commit"
     \/ Of(cm, "opennds") = PolicyConfig(Policy(u))
  /\ (\E c \in Range(q) : c.op = "write") \/ Themed(th, u)
  /\ \A c \in Range(q) : c.op = "write" => c.val = Script(u)
  /\ \E c \in Range(q) : c.op = "restart"
  /\ \A i \in 1..Len(q) : q[i].op = "restart" => After(q, i) = {}

(* The last item about a client decides, or has decided.                   *)
LastSays(q, mac, off) ==
  \E i \in 1..Len(q) : /\ q[i].mac = mac /\ q[i].unauth = off
                       /\ \A d \in After(q, i) : d.mac # mac
ClientOnTheWay(q, auth, mac, off) ==
  LastSays(q, mac, off) \/ ((\A d \in Range(q) : d.mac # mac) /\ (mac \in auth <=> ~off))
Mac(item) == item.mac
ClientsLead(q, auth, u) ==
  LET items == ClientItems(u) IN
  \A i \in DOMAIN items :
    ClientOnTheWay(q, auth, items[i].mac, LastFor(items, Mac, items[i].mac).unauth)

ServedInv ==
  LET u == UpdateOf[update] IN
  /\ pc # "idle" => GuardAccepts(u) /\ done = NoUpdate
  /\ pc = "batch" => BatchLeads(queue, committed, staged, u, caps)
  /\ pc = "reload" => HasSsids(committed, u, caps)
  /\ pc \in {"portal", "policy", "clients"} => HasSsids(wifi, u, caps)
  /\ pc = "policy" => PlanLeads(queue, committed, theme, missed, u)
  /\ pc = "clients" => /\ missed \/ PolicyServed(portal, theme, u)
                       /\ ClientsLead(queue, authorised, u)
                       /\ queue \in Seq(Range(queue))
  /\ done # NoUpdate => /\ done \in Parsed
                        /\ HasSsids(wifi, UpdateOf[done], caps)
                        /\ missed \/ PolicyServed(portal, theme, UpdateOf[done])
                        /\ ClientsLead(<<>>, authorised, UpdateOf[done])

-----------------------------------------------------------------------------
(* An applied update is served: the batch                                  *)

(* A line of the batch is about one section.                               *)
LEMMA SectionStep ==
  ASSUME NEW st, NEW c, NEW s, c.op # "add"
  PROVE  Section(Effect(st, c), s) = IF Touches(c, s) THEN Result(c) ELSE Section(st, s)
<1>1. CASE ~Touches(c, s)
  <2>1. ASSUME NEW t, t[1] = "wireless", t[2] = s
        PROVE  t \in Effect(st, c) <=> t \in st
    BY <1>1, <2>1 DEF Effect, Without, Touches
  <2>2. QED
    BY <1>1, <2>1 DEF Section, Of
<1>2. CASE Touches(c, s) /\ c.op = "delete"
  BY <1>2 DEF Section, Of, Effect, Without, Touches, Result
<1>3. CASE Touches(c, s) /\ c.op = "set"
  <2> DEFINE e == <<c.pkg, c.key, c.val>>
  <2>1. e[1] = "wireless" /\ e[2] = s
    BY <1>3 DEF Touches
  <2>2. Effect(st, c) = Without(st, "wireless", s) \cup {e} /\ Result(c) = {e}
    BY <1>3 DEF Effect, Touches, Result
  <2> HIDE DEF e
  <2>3. Section(Effect(st, c), s) = {e}
    BY <2>1, <2>2 DEF Section, Of, Without
  <2>4. QED
    BY <1>3, <2>2, <2>3
<1>4. QED
  BY <1>1, <1>2, <1>3 DEF Touches

(* A section stays on its way.                                             *)
LEMMA OnTheWayStep ==
  ASSUME NEW q, q \in Seq(Range(q)), q # <<>>, NEW st, NEW s, NEW v,
         Head(q).op # "add", OnTheWay(q, st, s, v)
  PROVE  OnTheWay(Tail(q), Effect(st, Head(q)), s, v)
<1> DEFINE c == Head(q)
           rest == Tail(q)
<1>1. /\ Len(q) \in Nat \ {0} /\ c = q[1] /\ Range(rest) = After(q, 1)
      /\ Range(q) = {c} \cup Range(rest) /\ Len(rest) = Len(q) - 1
  BY HeadAndRest, HeadTailProperties
<1>2. \A i \in 1..Len(rest) : rest[i] = q[i + 1] /\ After(rest, i) = After(q, i + 1)
  BY AfterInTail
<1>3. Section(Effect(st, c), s) = IF Touches(c, s) THEN Result(c) ELSE Section(st, s)
  BY SectionStep
<1> HIDE DEF c, rest
<1>4. CASE Untouched(q, s) /\ Section(st, s) = v
  BY <1>1, <1>3, <1>4 DEF OnTheWay, Untouched, c, rest
<1>5. CASE LastMakes(q, s, v)
  <2>1. PICK i \in 1..Len(q) : /\ Touches(q[i], s) /\ Result(q[i]) = v
                               /\ \A d \in After(q, i) : ~Touches(d, s)
    BY <1>5 DEF LastMakes
  <2>2. CASE i = 1
    BY <1>1, <1>3, <2>1, <2>2 DEF OnTheWay, Untouched, c, rest
  <2>3. CASE i # 1
    <3>1. i - 1 \in 1..Len(rest) /\ (i - 1) + 1 = i
      BY <1>1, <2>3
    <3>2. rest[i - 1] = q[i] /\ After(rest, i - 1) = After(q, i)
      BY <1>2, <3>1
    <3>3. LastMakes(rest, s, v)
      BY <2>1, <3>1, <3>2 DEF LastMakes
    <3>4. QED
      BY <3>3 DEF OnTheWay, rest
  <2>4. QED
    BY <2>2, <2>3
<1>6. QED
  BY <1>4, <1>5 DEF OnTheWay

(* The last command of a concatenation.                                    *)
LEMMA LastConcat ==
  ASSUME NEW S, NEW a \in Seq(S), NEW b \in Seq(S), NEW s, NEW v
  PROVE  /\ LastMakes(b, s, v) => LastMakes(a \o b, s, v)
         /\ LastMakes(a, s, v) /\ Untouched(b, s) => LastMakes(a \o b, s, v)
<1> DEFINE q == a \o b
<1>1. \A i \in 1..Len(q) :
        \/ /\ i \in 1..Len(a) /\ q[i] = a[i]
           /\ After(q, i) = After(a, i) \cup Range(b)
        \/ /\ i - Len(a) \in 1..Len(b) /\ q[i] = b[i - Len(a)]
           /\ After(q, i) = After(b, i - Len(a))
  BY AfterInConcat
<1>2. Len(q) = Len(a) + Len(b) /\ Len(a) \in Nat /\ Len(b) \in Nat
  BY ConcatProperties, LenProperties
<1> HIDE DEF q
<1>3. ASSUME LastMakes(b, s, v)
      PROVE  LastMakes(q, s, v)
  <2>1. PICK i \in 1..Len(b) : /\ Touches(b[i], s) /\ Result(b[i]) = v
                               /\ \A d \in After(b, i) : ~Touches(d, s)
    BY <1>3 DEF LastMakes
  <2>2. Len(a) + i \in 1..Len(q) /\ Len(a) + i \notin 1..Len(a) /\ (Len(a) + i) - Len(a) = i
    BY <1>2
  <2>3. q[Len(a) + i] = b[i] /\ After(q, Len(a) + i) = After(b, i)
    BY <1>1, <2>2
  <2>4. QED
    BY <2>1, <2>2, <2>3 DEF LastMakes
<1>4. ASSUME LastMakes(a, s, v), Untouched(b, s)
      PROVE  LastMakes(q, s, v)
  <2>1. PICK i \in 1..Len(a) : /\ Touches(a[i], s) /\ Result(a[i]) = v
                               /\ \A d \in After(a, i) : ~Touches(d, s)
    BY <1>4 DEF LastMakes
  <2>2. i \in 1..Len(q) /\ i - Len(a) \notin 1..Len(b)
    BY <1>2
  <2>3. q[i] = a[i] /\ After(q, i) = After(a, i) \cup Range(b)
    BY <1>1, <2>2
  <2>4. QED
    BY <1>4, <2>1, <2>2, <2>3 DEF LastMakes, Untouched
<1>5. QED
  BY <1>3, <1>4 DEF q

(* The last of the places in a list that a set names.                      *)
LEMMA LastIndex ==
  ASSUME NEW n \in Nat, NEW I \in SUBSET (1..n), I # {}
  PROVE  Max(I) \in I /\ \A j \in I : j <= Max(I)
<1>1. IsFiniteSet(1..n)
  BY FS_Interval
<1>2. IsFiniteSet(I)
  BY <1>1, FS_Subset
<1>3. I \in SUBSET Nat
  OBVIOUS
<1>4. QED
  BY <1>2, <1>3, LargestNumber

(* If all commands about a section make the same of it, so does the last.  *)
LEMMA LastOfEqual ==
  ASSUME NEW S, NEW q \in Seq(S), NEW s, NEW v, \E c \in Range(q) : Touches(c, s),
         \A c \in S : Touches(c, s) => Result(c) = v
  PROVE  LastMakes(q, s, v)
<1>1. Len(q) \in Nat /\ Range(q) = {q[i] : i \in 1..Len(q)} /\ \A i \in 1..Len(q) : q[i] \in S
  BY LenProperties, RangeEquality, ElementOfSeq
<1> DEFINE I == {i \in 1..Len(q) : Touches(q[i], s)}
           m == Max(I)
<1>2. I \in SUBSET (1..Len(q)) /\ I # {}
  BY <1>1
<1>3. m \in I /\ \A j \in I : j <= m
  <2> HIDE DEF I
  <2>1. QED
    BY <1>1, <1>2, LastIndex
<1> HIDE DEF m
<1>4. \A j \in (m + 1)..Len(q) : ~Touches(q[j], s)
  BY <1>1, <1>3
<1>5. \A d \in After(q, m) : ~Touches(d, s)
  BY <1>4 DEF After
<1>6. m \in 1..Len(q) /\ Touches(q[m], s) /\ Result(q[m]) = v
  BY <1>1, <1>3
<1>7. QED
  BY <1>5, <1>6 DEF LastMakes

(* Every SSID is configured or not.                                        *)
LEMMA WlanSplit ==
  ASSUME NEW u, NEW cp, u.wlans \in Seq(Range(u.wlans)), cp.maxSsids \in Nat
  PROVE  /\ Sections(ActiveWlans(u, cp)) \subseteq Sections(u.wlans)
         /\ Sections(u.wlans) \subseteq Sections(ActiveWlans(u, cp)) \cup Sections(OmittedWlans(u, cp))
<1> DEFINE s == u.wlans
           S == Range(s)
           m == cp.maxSsids
           n == ActiveCount(u, cp)
           a == ActiveWlans(u, cp)
           o == OmittedWlans(u, cp)
<1>1. s \in Seq(S) /\ Len(s) \in Nat /\ m \in Nat /\ DOMAIN s = 1..Len(s)
  BY LenProperties
<1>2. \A i \in 1..Len(s) : s[i] \in S
  BY <1>1, ElementOfSeq
<1>3. n = Min({Len(s), m})
  BY DEF ActiveCount
<1>4. a = SubSeq(s, 1, n) /\ o = SubSeq(s, n + 1, Len(s))
  BY DEF ActiveWlans, OmittedWlans
<1> HIDE DEF s, S, m, n, a, o
<1>5. n \in Nat /\ n <= Len(s)
  BY <1>1, <1>3 DEF Min
<1>6. \A i \in 1..n : s[i] \in S
  BY <1>1, <1>2, <1>5
<1>7. \A i \in (n + 1)..Len(s) : s[i] \in S
  BY <1>1, <1>2, <1>5
<1>8. /\ a \in Seq(S) /\ Len(a) = IF 1 <= n THEN n - 1 + 1 ELSE 0
      /\ \A i \in 1..(n - 1 + 1) : a[i] = s[1 + i - 1]
  <2>1. /\ SubSeq(s, 1, n) \in Seq(S)
        /\ Len(SubSeq(s, 1, n)) = IF 1 <= n THEN n - 1 + 1 ELSE 0
        /\ \A i \in 1..(n - 1 + 1) : SubSeq(s, 1, n)[i] = s[1 + i - 1]
    BY <1>5, <1>6, SubSeqProperties
  <2>2. QED
    BY <1>4, <2>1, Zenon
<1>9. /\ o \in Seq(S) /\ Len(o) = IF n + 1 <= Len(s) THEN Len(s) - (n + 1) + 1 ELSE 0
      /\ \A i \in 1..(Len(s) - (n + 1) + 1) : o[i] = s[(n + 1) + i - 1]
  <2> DEFINE b == n + 1
             e == Len(s)
  <2>1. b \in Int /\ e \in Int /\ \A i \in b..e : s[i] \in S
    BY <1>1, <1>5, <1>7
  <2> HIDE DEF b, e
  <2>2. /\ SubSeq(s, b, e) \in Seq(S)
        /\ Len(SubSeq(s, b, e)) = IF b <= e THEN e - b + 1 ELSE 0
        /\ \A i \in 1..(e - b + 1) : SubSeq(s, b, e)[i] = s[b + i - 1]
    BY <2>1, SubSeqProperties
  <2>3. QED
    BY <1>4, <2>2, Zenon DEF b, e
<1>10. DOMAIN a = 1..n /\ \A i \in 1..n : i \in 1..Len(s) /\ a[i] = s[i]
  <2>1. Len(a) = n
    BY <1>5, <1>8
  <2>2. \A i \in 1..n : i \in 1..(n - 1 + 1) /\ 1 + i - 1 = i /\ i \in 1..Len(s)
    BY <1>1, <1>5
  <2>3. QED
    BY <1>8, <2>1, <2>2, LenProperties
<1>11. ASSUME NEW i \in (n + 1)..Len(s)
       PROVE  i - n \in DOMAIN o /\ o[i - n] = s[i]
  <2>1. /\ n + 1 <= Len(s) /\ i - n \in 1..(Len(s) - (n + 1) + 1)
        /\ (n + 1) + (i - n) - 1 = i
    BY <1>1, <1>5
  <2>2. DOMAIN o = 1..Len(o) /\ Len(o) = Len(s) - (n + 1) + 1
    BY <1>9, <2>1, LenProperties
  <2>3. QED
    BY <1>9, <2>1, <2>2
<1>12. \A i \in 1..Len(s) : i \in 1..n \/ i \in (n + 1)..Len(s)
  BY <1>1, <1>5
<1>13. Sections(a) \subseteq Sections(s)
  BY <1>1, <1>10 DEF Sections
<1>14. Sections(s) \subseteq Sections(a) \cup Sections(o)
  BY <1>1, <1>10, <1>11, <1>12 DEF Sections
<1>15. QED
  BY <1>13, <1>14 DEF s, a, o

(* An SSID beyond max_ssids is deleted.                                    *)
LEMMA OmittedDeletes ==
  ASSUME NEW u, NEW cp, u.wlans \in Seq(Range(u.wlans)), cp.maxSsids \in Nat,
         NEW s \in Sections(OmittedWlans(u, cp))
  PROVE  LastMakes(OmittedLines(u, cp), s, {})
<1> DEFINE omitted == OmittedWlans(u, cp)
           W == Range(u.wlans)
           line(w) == Cmd("delete", "wireless", WlanSection(w), "")
           S == {line(w) : w \in W}
           q == [i \in DOMAIN omitted |-> line(omitted[i])]
<1>1. OmittedLines(u, cp) = q
  BY DEF OmittedLines
<1>2. omitted \in Seq(W)
  BY WlanParts
<1>3. PICK k \in DOMAIN omitted : s = WlanSection(omitted[k])
  BY DEF Sections
<1> HIDE DEF omitted, W
<1>4. /\ Len(omitted) \in Nat /\ DOMAIN omitted = 1..Len(omitted)
      /\ \A i \in 1..Len(omitted) : omitted[i] \in W
  BY <1>2, LenProperties, ElementOfSeq
<1>5. \A w : /\ line(w).pkg = "wireless" /\ line(w).op = "delete"
             /\ line(w).key = WlanSection(w)
  BY DEF Cmd
<1> HIDE DEF line
<1>6. q \in [1..Len(omitted) -> S] /\ q[k] = line(omitted[k])
  BY <1>4
<1> HIDE DEF q, S
<1>7. q \in Seq(S) /\ Range(q) = {q[i] : i \in 1..Len(omitted)}
  <2> DEFINE n == Len(omitted)
  <2>1. n \in Nat /\ q \in [1..n -> S]
    BY <1>4, <1>6
  <2> HIDE DEF n
  <2>2. q \in Seq(S) /\ Range(q) = {q[i] : i \in 1..n}
    BY <2>1, FunctionIsSeq
  <2>3. QED
    BY <2>2 DEF n
<1>8. q[k] \in Range(q) /\ Touches(q[k], s)
  BY <1>3, <1>4, <1>5, <1>6, <1>7 DEF Touches
<1>9. \A c \in S : Result(c) = {}
  BY <1>5 DEF Result, S
<1>10. LastMakes(q, s, {})
  BY <1>7, <1>8, <1>9, LastOfEqual
<1>11. QED
  BY <1>1, <1>10

(* A configured SSID is set, for the last time as the last SSID with its   *)
(* section says; the lines of the SSIDs are about no other section.        *)
LEMMA WlanLinesSet ==
  ASSUME NEW u, NEW cp, u.wlans \in Seq(Range(u.wlans)), cp.maxSsids \in Nat
  PROVE  LET active == ActiveWlans(u, cp) IN
         /\ \A s \in Sections(active) : LastMakes(WlanLines(u, cp), s, Goal(active, s))
         /\ \A s : s \notin Sections(active) => Untouched(WlanLines(u, cp), s)
<1> DEFINE active == ActiveWlans(u, cp)
           A == Range(active)
           del(w) == Cmd("delete", "wireless", WlanSection(w), "")
           bare(w) == Cmd("set", "wireless", WlanSection(w), BareIface)
           full(w) == Cmd("set", "wireless", WlanSection(w), Iface(w))
           S == ({del(w) : w \in A} \cup {bare(w) : w \in A}) \cup {full(w) : w \in A}
           part(w) == <<del(w), bare(w), full(w)>>
           parts == [i \in DOMAIN active |-> part(active[i])]
<1>1. WlanLines(u, cp) = FlattenSeq(parts)
  BY DEF WlanLines
<1>2. active \in Seq(Range(u.wlans))
  BY WlanParts
<1>3. active \in Seq(A) /\ A = {active[i] : i \in 1..Len(active)}
  BY <1>2, SeqOfRange, RangeEquality
<1>4. /\ Len(active) \in Nat /\ DOMAIN active = 1..Len(active)
      /\ \A i \in 1..Len(active) : active[i] \in A
  BY <1>3, LenProperties, ElementOfSeq
<1> HIDE DEF active, A
<1>5. ASSUME NEW w
      PROVE  /\ del(w).op = "delete" /\ del(w).pkg = "wireless" /\ del(w).key = WlanSection(w)
             /\ bare(w).op = "set" /\ bare(w).pkg = "wireless" /\ bare(w).key = WlanSection(w)
             /\ full(w).op = "set" /\ full(w).pkg = "wireless" /\ full(w).key = WlanSection(w)
             /\ full(w).val = Iface(w)
  BY DEF Cmd
<1> HIDE DEF del, bare, full
<1>6. \A w \in A : part(w) \in Seq(S)
  OBVIOUS
<1>7. ASSUME NEW w
      PROVE  /\ Len(part(w)) = 3 /\ part(w)[3] = full(w)
             /\ Range(part(w)) = {del(w), bare(w), full(w)} /\ After(part(w), 3) = {}
  <2> DEFINE x == del(w)
             y == bare(w)
             z == full(w)
             t == <<x, y, z>>
  <2> HIDE DEF x, y, z
  <2>1. Len(t) = 3 /\ t[3] = z /\ Range(t) = {x, y, z}
    BY DEF Range
  <2>2. After(t, 3) = {}
    BY <2>1 DEF After
  <2>3. QED
    BY <2>1, <2>2 DEF x, y, z
<1> HIDE DEF part
<1>8. parts \in [1..Len(active) -> Seq(S)]
  BY <1>4, <1>6
<1>9. parts \in Seq(Seq(S)) /\ Len(parts) = Len(active)
  BY <1>4, <1>8, FunctionIsSeq
<1>10. \A i \in 1..Len(active) : parts[i] = part(active[i])
  BY <1>4
<1>11. <<>> \in Seq(S) /\ \A a, b \in Seq(S) : a \o b \in Seq(S)
  BY EmptySeq, ConcatProperties
<1> HIDE DEF parts
<1>12. ASSUME NEW s, s \notin Sections(active)
       PROVE  Untouched(FlattenSeq(parts), s)
  <2>1. \A w \in A : WlanSection(w) # s
    BY <1>3, <1>4, <1>12 DEF Sections
  <2>2. \A c \in S : ~Touches(c, s)
    BY <1>5, <2>1 DEF Touches
  <2> HIDE DEF S
  <2>3. FlattenSeq(parts) \in Seq(S)
    BY <1>9, <1>11, FlattenClosed
  <2>4. Range(FlattenSeq(parts)) \subseteq S
    BY <2>3, RangeOfSeq
  <2>5. QED
    BY <2>2, <2>4 DEF Untouched
<1>13. ASSUME NEW s \in Sections(active)
       PROVE  LastMakes(FlattenSeq(parts), s, Goal(active, s))
  <2> DEFINE I == {i \in DOMAIN active : WlanSection(active[i]) = s}
             m == Max(I)
             v == Goal(active, s)
             Q == {q \in Seq(S) : LastMakes(q, s, v)}
  <2>1. I \in SUBSET (1..Len(active)) /\ I # {}
    BY <1>4 DEF Sections
  <2>2. m \in I /\ \A j \in I : j <= m
    <3> HIDE DEF I
    <3>1. QED
      BY <1>4, <2>1, LastIndex
  <2>3. v = {<<"wireless", s, Iface(active[m])>>}
    BY <1>13 DEF Goal, LastFor
  <2> HIDE DEF m, v
  <2>4. m \in 1..Len(active) /\ WlanSection(active[m]) = s
    BY <1>4, <2>2
  <2>5. LastMakes(parts[m], s, v)
    <3> DEFINE w == active[m]
    <3>1. /\ Len(part(w)) = 3 /\ part(w)[3] = full(w) /\ After(part(w), 3) = {}
      BY <1>7
    <3>2. Touches(full(w), s)
      BY <1>5, <2>4 DEF Touches
    <3>3. Result(full(w)) = v
      BY <1>5, <2>3, <2>4 DEF Result
    <3>4. 3 \in 1..Len(part(w))
      BY <3>1
    <3>5. LastMakes(part(w), s, v)
      BY <3>1, <3>2, <3>3, <3>4 DEF LastMakes
    <3>6. QED
      BY <1>10, <2>4, <3>5
  <2>6. ASSUME NEW k \in (m + 1)..Len(active)
        PROVE  k \in 1..Len(active) /\ Untouched(parts[k], s)
    <3>1. k \in 1..Len(active) /\ k \notin I
      BY <1>4, <2>2, <2>4
    <3>2. WlanSection(active[k]) # s
      BY <1>4, <3>1
    <3>3. \A c \in Range(part(active[k])) : ~Touches(c, s)
      BY <1>5, <1>7, <3>2 DEF Touches
    <3>4. QED
      BY <1>10, <3>1, <3>3 DEF Untouched
  <2> HIDE DEF S, I
  <2>7. \A i \in 1..Len(active) : parts[i] \in Seq(S)
    BY <1>8
  <2>8. parts[m] \in Q /\ \A a \in Seq(S) : a \o parts[m] \in Q
    BY <1>11, <2>4, <2>5, <2>7, LastConcat
  <2>9. \A k \in (m + 1)..Len(active) : \A a \in Q : a \o parts[k] \in Q
    BY <1>11, <2>6, <2>7, LastConcat
  <2>10. Q \in SUBSET Seq(S)
    OBVIOUS
  <2> HIDE DEF Q
  <2>11. FlattenSeq(parts) \in Q
    BY <1>9, <2>4, <2>8, <2>9, <2>10, FlattenFrom
  <2>12. QED
    BY <2>11 DEF Q, v
<1>14. QED
  BY <1>1, <1>12, <1>13 DEF active

(* The batch leads to the SSIDs of the update, and an update without a     *)
(* batch has none.                                                         *)
LEMMA UciPlanLeads ==
  ASSUME NEW u, NEW cp, u.wlans \in Seq(Range(u.wlans)), u.radios \in Seq(Range(u.radios)),
         cp.maxSsids \in Nat
  PROVE  LET q == BuildUciPlan(u, cp) IN
         IF q = <<>> THEN Sections(u.wlans) = {} /\ Vlans(u, cp) = {}
         ELSE /\ \A s \in Sections(u.wlans) : LastMakes(q, s, Goal(ActiveWlans(u, cp), s))
              /\ \A v \in Vlans(u, cp) : /\ SetNet(VlanSection(v)) \in Range(q)
                                         /\ Commit("network") \in Range(q)
              /\ Commit("wireless") \in Range(q)
              /\ \A i \in 1..Len(q) : q[i].op = "commit" /\ q[i].pkg = "wireless" => After(q, i) = {}
<1> DEFINE vlans == Vlans(u, cp)
           active == ActiveWlans(u, cp)
           N == NetworkLines(u, cp)
           R == RadioLines(u)
           D == DefaultLines(u, cp)
           O == OmittedLines(u, cp)
           L == WlanLines(u, cp)
           K == (R \o D) \o O
           W == K \o L
           lines == N \o W
           z == Commit("wireless")
           q == lines \o <<z>>
           X == ((Range(N) \cup Range(K)) \cup Range(L)) \cup {z}
<1>1. BuildUciPlan(u, cp) = IF lines = <<>> THEN <<>> ELSE q
  BY DEF BuildUciPlan
<1>2. /\ UciOrder(N) /\ \A c \in Range(N) : c.pkg = "network"
      /\ \A v \in vlans : SetNet(VlanSection(v)) \in Range(N) /\ Commit("network") \in Range(N)
  BY NetworkLinesOrder
<1>3. /\ WirelessList(R, vlans) /\ WirelessList(D, vlans) /\ WirelessList(O, vlans)
      /\ WirelessList(L, vlans)
  BY RadioLinesOrder, DefaultLinesOrder, OmittedLinesOrder, WlanLinesOrder
<1>4. z.op = "commit" /\ z.pkg = "wireless"
  BY DEF Commit, Cmd
<1>5. /\ \A s \in Sections(active) : LastMakes(L, s, Goal(active, s))
      /\ \A s : s \notin Sections(active) => Untouched(L, s)
  BY WlanLinesSet
<1>6. \A s \in Sections(u.wlans) :
        s \in Sections(active) \/ (s \notin Sections(active) /\ LastMakes(O, s, {}))
  BY WlanSplit, OmittedDeletes
<1> HIDE DEF vlans, N, R, D, O, L, z, active
<1>7. WirelessList(R \o D, vlans) /\ WirelessList(K, vlans)
  BY <1>3, WirelessLists
<1>8. /\ N \in Seq(Range(N)) /\ K \in Seq(Range(K)) /\ L \in Seq(Range(L))
      /\ R \o D \in Seq(Range(R \o D)) /\ O \in Seq(Range(O))
      /\ \A c \in Range(K) \cup Range(L) : c.op # "commit"
  BY <1>2, <1>3, <1>7 DEF UciOrder, WirelessList, WirelessCmd
<1>9. \A s, v : LastMakes(O, s, v) => LastMakes(K, s, v)
  <2> DEFINE a == R \o D
             Y == Range(a) \cup Range(O)
  <2>1. a \in Seq(Range(a))
    BY <1>8
  <2> HIDE DEF a
  <2>2. a \in Seq(Y) /\ O \in Seq(Y)
    BY <1>8, <2>1, SeqMonotonic
  <2> HIDE DEF Y
  <2>3. \A s, v : LastMakes(O, s, v) => LastMakes(a \o O, s, v)
    BY <2>2, LastConcat
  <2>4. QED
    BY <2>3 DEF a
<1> HIDE DEF K
<1>10. N \in Seq(X) /\ K \in Seq(X) /\ L \in Seq(X)
  BY <1>8, SeqMonotonic
<1>11. <<z>> \in Seq(X) /\ Range(<<z>>) = {z} /\ Len(<<z>>) = 1 /\ <<z>>[1] = z
  BY DEF Range
<1>12. \A s : Untouched(<<z>>, s)
  BY <1>4, <1>11 DEF Untouched, Touches
<1>13. X = ((Range(N) \cup Range(K)) \cup Range(L)) \cup {z}
  OBVIOUS
<1> HIDE DEF X
<1>14. W \in Seq(X) /\ Range(W) = Range(K) \cup Range(L)
  BY <1>10, ConcatProperties, RangeConcatenation
<1> HIDE DEF W
<1>15. lines \in Seq(X) /\ Range(lines) = Range(N) \cup Range(W)
  BY <1>10, <1>14, ConcatProperties, RangeConcatenation
<1> HIDE DEF lines
<1>16. Range(q) = Range(lines) \cup {z}
  <2> DEFINE b == <<z>>
  <2>1. b \in Seq(X) /\ Range(b) = {z}
    BY <1>11
  <2> HIDE DEF b
  <2>2. Range(lines \o b) = Range(lines) \cup Range(b)
    BY <1>15, <2>1, RangeConcatenation
  <2>3. QED
    BY <2>1, <2>2 DEF b
<1>17. ASSUME NEW s \in Sections(u.wlans)
       PROVE  LastMakes(lines, s, Goal(active, s)) /\ LastMakes(q, s, Goal(active, s))
  <2> DEFINE v == Goal(active, s)
  <2>1. LastMakes(W, s, v)
    <3>1. CASE s \in Sections(active)
      <4>1. LastMakes(L, s, v)
        BY <1>5, <3>1
      <4> HIDE DEF v
      <4>2. QED
        BY <1>10, <4>1, LastConcat DEF W
    <3>2. CASE s \notin Sections(active)
      <4>1. v = {}
        BY <3>2 DEF Goal
      <4>2. LastMakes(O, s, {})
        BY <1>6, <3>2
      <4>3. Untouched(L, s)
        BY <1>5, <3>2
      <4> HIDE DEF v
      <4>4. LastMakes(K, s, v)
        BY <1>9, <4>1, <4>2
      <4>5. QED
        BY <1>10, <4>3, <4>4, LastConcat DEF W
    <3>3. QED
      BY <3>1, <3>2
  <2> HIDE DEF v
  <2>2. LastMakes(lines, s, v)
    BY <1>10, <1>14, <2>1, LastConcat DEF lines
  <2>3. LastMakes(q, s, v)
    BY <1>11, <1>12, <1>15, <2>2, LastConcat
  <2>4. QED
    BY <2>2, <2>3 DEF v
<1>18. ASSUME NEW v \in vlans
       PROVE  /\ SetNet(VlanSection(v)) \in Range(q) /\ Commit("network") \in Range(q)
              /\ Range(lines) # {}
  BY <1>2, <1>15, <1>16
<1>19. ASSUME NEW i \in 1..Len(q), q[i].op = "commit", q[i].pkg = "wireless"
       PROVE  After(q, i) = {}
  <2> DEFINE b == <<z>>
  <2>1. b \in Seq(X) /\ Len(b) = 1
    BY <1>11
  <2> HIDE DEF b
  <2>2. \/ /\ i \in 1..Len(lines) /\ q[i] = lines[i]
        \/ /\ i - Len(lines) \in 1..Len(b)
           /\ After(q, i) = After(b, i - Len(lines))
    BY <1>15, <2>1, AfterInConcat DEF b
  <2>3. i \in 1..Len(lines) => lines[i] \in Range(lines)
    BY <1>15, ListElements
  <2>4. \A c \in Range(lines) : ~(c.op = "commit" /\ c.pkg = "wireless")
    BY <1>2, <1>8, <1>14, <1>15
  <2>5. i - Len(lines) \in 1..Len(b) /\ After(q, i) = After(b, i - Len(lines))
    BY <1>19, <2>2, <2>3, <2>4
  <2>6. i - Len(lines) = 1
    BY <2>1, <2>5
  <2>7. After(b, 1) = {}
    BY <2>1 DEF After
  <2>8. QED
    BY <2>5, <2>6, <2>7
<1>20. CASE lines = <<>>
  <2>1. Range(lines) = {} /\ Len(lines) = 0
    BY <1>20 DEF Range
  <2>2. \A s, v : ~LastMakes(lines, s, v)
    BY <2>1 DEF LastMakes
  <2>3. Sections(u.wlans) = {} /\ vlans = {}
    BY <1>17, <1>18, <2>1, <2>2
  <2>4. QED
    BY <1>1, <1>20, <2>3 DEF vlans
<1>21. CASE lines # <<>>
  <2>1. z \in Range(q)
    BY <1>16
  <2> HIDE DEF q
  <2>2. BuildUciPlan(u, cp) = q
    BY <1>1, <1>21
  <2>3. q # <<>>
    BY <2>1 DEF Range
  <2>4. QED
    BY <1>17, <1>18, <1>19, <2>1, <2>2, <2>3 DEF vlans, z, active
<1>22. QED
  BY <1>20, <1>21

(* A network that is provided for stays so.                                *)
LEMMA ProvidedStep ==
  ASSUME NEW cm, NEW st, NEW c, NEW rest, NEW key, key[1] = "vlan",
         UciShape(c), UciFollows(c, rest), Provided(cm, st, {c} \cup rest, key)
  PROVE  Provided(Filed(cm, st, c), Effect(st, c), rest, key)
<1>1. CASE c.pkg = "wireless"
  <2>1. \A d \in {c} \cup rest : d.pkg = "wireless"
    BY <1>1 DEF UciFollows
  <2>2. Commit("network") \notin {c} \cup rest
    BY <2>1, NetEntry
  <2>3. Net(key) \in Of(cm, "network")
    BY <2>2, NetEntry DEF Provided
  <2>4. Net(key) \in Filed(cm, st, c)
    BY <1>1, <2>3, OtherPackage, NetEntry
  <2>5. QED
    BY <2>2, <2>4 DEF Provided
<1>2. CASE c.pkg = "network" /\ c.op = "commit"
  <2>1. c = Commit("network")
    BY <1>2 DEF UciShape
  <2>2. \A d \in rest : d.pkg = "wireless"
    BY <1>2 DEF UciFollows
  <2>3. Commit("network") \notin rest /\ SetNet(key) \notin {c} \cup rest
    BY <1>2, <2>2, NetEntry
  <2>4. Net(key) \in Of(st, "network")
    BY <2>1, <2>3, NetEntry DEF Provided, Coming
  <2>5. Net(key) \in Filed(cm, st, c)
    BY <1>2, <2>4, CommitFiles, NetEntry
  <2>6. QED
    BY <2>3, <2>5 DEF Provided
<1>3. CASE c.pkg = "network" /\ c.op # "commit"
  <2>1. Commit("network") \in rest
    BY <1>3 DEF UciFollows
  <2>2. Coming(st, {c} \cup rest, key)
    BY <2>1 DEF Provided
  <2>3. Coming(Effect(st, c), rest, key)
    BY <1>3, <2>2, StillComing
  <2>4. QED
    BY <2>1, <2>3 DEF Provided
<1>4. QED
  BY <1>1, <1>2, <1>3 DEF UciShape

(* A line of the batch: it still leads to the SSIDs, and the last one has  *)
(* brought them there.                                                     *)
LEMMA BatchLeadsStep ==
  ASSUME NEW q, NEW cm, NEW st, NEW u, NEW cp, q # <<>>, UciOrder(q),
         BatchLeads(q, cm, st, u, cp)
  PROVE  LET c == Head(q)
             filed == Filed(cm, st, c)
         IN  IF Tail(q) = <<>> THEN HasSsids(filed, u, cp)
             ELSE BatchLeads(Tail(q), filed, Effect(st, c), u, cp)
<1> DEFINE c == Head(q)
           rest == Tail(q)
           filed == Filed(cm, st, c)
           next == Effect(st, c)
           goal(s) == Goal(ActiveWlans(u, cp), s)
<1>1. /\ UciShape(c) /\ UciFollows(c, Range(rest)) /\ Range(q) = {c} \cup Range(rest)
      /\ q \in Seq(Range(q))
  BY UciOrderRest DEF UciOrder
<1>2. /\ Len(q) \in Nat \ {0} /\ c = q[1] /\ Range(rest) = After(q, 1)
      /\ rest \in Seq(Range(q))
  BY <1>1, HeadAndRest
<1>3. c.op # "add"
  BY <1>1 DEF UciShape
<1>4. \A s \in Sections(u.wlans) : OnTheWay(rest, next, s, goal(s))
  BY <1>1, <1>3, OnTheWayStep DEF BatchLeads
<1>5. \A v \in Vlans(u, cp) : Provided(filed, next, Range(rest), VlanSection(v))
  <2> SUFFICES ASSUME NEW v \in Vlans(u, cp)
               PROVE  Provided(filed, next, Range(rest), VlanSection(v))
    OBVIOUS
  <2>1. VlanSection(v)[1] = "vlan"
    BY DEF VlanSection
  <2>2. Provided(cm, st, {c} \cup Range(rest), VlanSection(v))
    BY <1>1 DEF BatchLeads
  <2>3. QED
    BY <1>1, <2>1, <2>2, ProvidedStep
<1>6. Commit("wireless") \in {c} \cup Range(rest)
  BY <1>1 DEF BatchLeads
<1>7. Commit("wireless").op = "commit" /\ Commit("wireless").pkg = "wireless"
  BY DEF Commit, Cmd
<1>8. \A i \in 1..Len(q) : q[i].op = "commit" /\ q[i].pkg = "wireless" => After(q, i) = {}
  BY DEF BatchLeads
<1>9. \A i \in 1..Len(rest) :
        rest[i].op = "commit" /\ rest[i].pkg = "wireless" => After(rest, i) = {}
  <2>1. \A i \in 1..Len(rest) : /\ i + 1 \in 1..Len(q) /\ rest[i] = q[i + 1]
                                /\ After(rest, i) = After(q, i + 1)
    BY <1>1, AfterInTail
  <2>2. QED
    BY <1>8, <2>1
<1> HIDE DEF c, rest, next, filed
<1>10. CASE rest = <<>>
  <2>1. Range(rest) = {} /\ Len(rest) = 0
    BY <1>10 DEF Range
  <2>2. c = Commit("wireless")
    BY <1>6, <2>1
  <2>3. next = st /\ Of(filed, "wireless") = Of(st, "wireless")
    BY <1>7, <2>2, CommitFiles DEF next, filed
  <2>4. \A s \in Sections(u.wlans) : Section(filed, s) = goal(s)
    BY <1>4, <2>1, <2>3 DEF OnTheWay, LastMakes, Section
  <2>5. \A v \in Vlans(u, cp) : Net(VlanSection(v)) \in filed
    BY <1>5, <2>1 DEF Provided
  <2>6. HasSsids(filed, u, cp)
    BY <2>4, <2>5 DEF HasSsids
  <2>7. QED
    BY <1>10, <2>6 DEF c, rest, filed
<1>11. CASE rest # <<>>
  <2>1. Range(rest) # {}
    BY <1>2, <1>11, HeadAndRest
  <2>2. 1 \in 1..Len(q)
    BY <1>2
  <2>3. Commit("wireless") \in Range(rest)
    BY <1>2, <1>6, <1>7, <1>8, <2>1, <2>2
  <2>4. BatchLeads(rest, filed, next, u, cp)
    BY <1>4, <1>5, <1>9, <2>3 DEF BatchLeads
  <2>5. QED
    BY <1>11, <2>4 DEF c, rest, filed, next
<1>12. QED
  BY <1>10, <1>11

(* The plan of an update leads to its SSIDs.                               *)
LEMMA BatchLeadsStart ==
  ASSUME NEW u, NEW cp, NEW cm, NEW st,
         u.wlans \in Seq(Range(u.wlans)), u.radios \in Seq(Range(u.radios)),
         cp.maxSsids \in Nat
  PROVE  LET q == BuildUciPlan(u, cp) IN
         IF q = <<>> THEN \A cfg : HasSsids(cfg, u, cp) ELSE BatchLeads(q, cm, st, u, cp)
<1> DEFINE q == BuildUciPlan(u, cp)
<1>1. IF q = <<>> THEN Sections(u.wlans) = {} /\ Vlans(u, cp) = {}
      ELSE /\ \A s \in Sections(u.wlans) : LastMakes(q, s, Goal(ActiveWlans(u, cp), s))
           /\ \A v \in Vlans(u, cp) : /\ SetNet(VlanSection(v)) \in Range(q)
                                      /\ Commit("network") \in Range(q)
           /\ Commit("wireless") \in Range(q)
           /\ \A i \in 1..Len(q) : q[i].op = "commit" /\ q[i].pkg = "wireless" => After(q, i) = {}
  BY UciPlanLeads
<1> HIDE DEF q
<1>2. CASE q = <<>>
  BY <1>1, <1>2 DEF HasSsids, q
<1>3. CASE q # <<>>
  <2>1. BatchLeads(q, cm, st, u, cp)
    BY <1>1, <1>3 DEF BatchLeads, OnTheWay, Provided, Coming
  <2>2. QED
    BY <1>3, <2>1 DEF q
<1>4. QED
  BY <1>2, <1>3

(* `wifi reload` takes the wireless sections and the networks over.        *)
LEMMA ReloadLeads ==
  ASSUME NEW cm, NEW u, NEW cp, HasSsids(cm, u, cp)
  PROVE  HasSsids(Of(cm, "wireless") \cup Of(cm, "network"), u, cp)
<1> DEFINE w == Of(cm, "wireless") \cup Of(cm, "network")
<1>1. \A s : Section(w, s) = Section(cm, s)
  BY DEF Section, Of
<1>2. \A key : Net(key) \in cm => Net(key) \in w
  BY NetEntry
<1>3. QED
  BY <1>1, <1>2 DEF HasSsids

-----------------------------------------------------------------------------
(* An applied update is served: the portal                                 *)

(* The lines about the ThemeSpec script write the script of the policy, if *)
(* the policy has one.                                                     *)
LEMMA ThemeWrites ==
  ASSUME NEW P
  PROVE  LET q == ThemeLines(P) IN
         /\ \A c \in Range(q) : c.op = "write" => c.val = <<P.redirect, P.landing>>
         /\ P.redirect # None => \E c \in Range(q) : c.op = "write"
<1> DEFINE script == <<P.redirect, P.landing>>
           w == Cmd("write", "theme", Option("theme"), script)
           l == Cmd("set", "opennds", Option("login"), "3")
           p == Cmd("set", "opennds", Option("themespec"), "path")
           o == Cmd("set", "opennds", Option("login"), "1")
<1>1. ThemeLines(P) = IF P.redirect = None THEN <<o>> ELSE <<w, l, p>>
  BY DEF ThemeLines
<1> HIDE DEF script
<1>2. w.op = "write" /\ w.val = script /\ l.op = "set" /\ p.op = "set" /\ o.op = "set"
  BY CmdFields
<1> HIDE DEF w, l, p, o
<1>3. Range(<<o>>) = {o} /\ Range(<<w, l, p>>) = {w, l, p}
  BY DEF Range
<1>4. QED
  BY <1>1, <1>2, <1>3 DEF script

(* The plan of a policy ends with the restart, after a commit and, with a  *)
(* script, its writing.                                                    *)
LEMMA PlanLeadsStart ==
  ASSUME NEW u, IsFiniteSet(Policy(u).fqdns), IsFiniteSet(Policy(u).users),
         NEW cm, NEW th, NEW miss
  PROVE  PlanLeads(BuildOpenNdsPlan(Policy(u)), cm, th, miss, u)
<1> DEFINE P == Policy(u)
           C == PolicyConfig(P)
           D == Deletions
           F == Additions("fqdn", P.fqdns)
           U == Additions("users", P.users)
           T == ThemeLines(P)
           k == Commit("opennds")
           z == Cmd("restart", "opennds", <<"", "">>, "")
           E == <<k, z>>
           X == ((D \o F) \o U) \o T
<1>1. BuildOpenNdsPlan(P) = X \o E
  BY DEF BuildOpenNdsPlan
<1>2. P.redirect = RedirectUrl(u) /\ P.landing = LandingPage(u)
  BY DEF Policy
<1>3. D \in Seq(Range(D)) /\ \A c \in Range(D) : c.op = "delete"
  BY DeletionsOrder DEF NdsOrder
<1>4. ASSUME NEW name, NEW values, IsFiniteSet(values),
             \A v \in values : <<"opennds", Option(name), v>> \in C
      PROVE  /\ Additions(name, values) \in Seq(Range(Additions(name, values)))
             /\ \A c \in Range(Additions(name, values)) : c.op = "add"
  <2> HIDE DEF C
  <2>1. /\ NdsOrder(Additions(name, values), C)
        /\ Range(Additions(name, values)) = {Cmd("add", "opennds", Option(name), v) : v \in values}
    BY <1>4, AdditionsOrder
  <2>2. QED
    BY <2>1, CmdFields DEF NdsOrder
<1>5. /\ \A v \in P.fqdns : <<"opennds", Option("fqdn"), v>> \in C
      /\ \A v \in P.users : <<"opennds", Option("users"), v>> \in C
  <2> HIDE DEF P
  <2>1. QED
    BY DEF PolicyConfig
<1>6. F \in Seq(Range(F)) /\ \A c \in Range(F) : c.op = "add"
  <2> DEFINE values == P.fqdns
  <2>1. IsFiniteSet(values) /\ \A v \in values : <<"opennds", Option("fqdn"), v>> \in C
    BY <1>5
  <2> HIDE DEF values, C
  <2>2. /\ Additions("fqdn", values) \in Seq(Range(Additions("fqdn", values)))
        /\ \A c \in Range(Additions("fqdn", values)) : c.op = "add"
    BY <1>4, <2>1
  <2>3. QED
    BY <2>2 DEF values
<1>7. U \in Seq(Range(U)) /\ \A c \in Range(U) : c.op = "add"
  <2> DEFINE values == P.users
  <2>1. IsFiniteSet(values) /\ \A v \in values : <<"opennds", Option("users"), v>> \in C
    BY <1>5
  <2> HIDE DEF values, C
  <2>2. /\ Additions("users", values) \in Seq(Range(Additions("users", values)))
        /\ \A c \in Range(Additions("users", values)) : c.op = "add"
    BY <1>4, <2>1
  <2>3. QED
    BY <2>2 DEF values
<1>8. /\ T \in Seq(Range(T))
      /\ \A c \in Range(T) : c.op \in {"set", "write"}
  <2> HIDE DEF P
  <2>1. NdsOrder(T, PolicyConfig(P)) /\ \A c \in Range(T) : c.op \in {"set", "write"}
    BY ThemeOrder
  <2>2. QED
    BY <2>1 DEF NdsOrder
<1>9. /\ \A c \in Range(T) : c.op = "write" => c.val = Script(u)
      /\ RedirectUrl(u) # None => \E c \in Range(T) : c.op = "write"
  <2>1. /\ \A c \in Range(T) : c.op = "write" => c.val = <<P.redirect, P.landing>>
        /\ P.redirect # None => \E c \in Range(T) : c.op = "write"
    <3> HIDE DEF P
    <3>1. QED
      BY ThemeWrites
  <2>2. QED
    BY <1>2, <2>1 DEF Script
<1>10. k.op = "commit" /\ z.op = "restart"
  BY DEF Commit, Cmd
<1> HIDE DEF P, C, D, F, U, T, k, z
<1>11. Len(E) = 2 /\ E[1] = k /\ E[2] = z /\ Range(E) = {k, z}
  BY DEF Range
<1> DEFINE Y == (((Range(D) \cup Range(F)) \cup Range(U)) \cup Range(T)) \cup {k, z}
<1>12. E \in Seq(Y)
  OBVIOUS
<1>13. D \in Seq(Y) /\ F \in Seq(Y) /\ U \in Seq(Y) /\ T \in Seq(Y)
  BY <1>3, <1>6, <1>7, <1>8, SeqMonotonic
<1> DEFINE DF == D \o F
           DFU == DF \o U
           q == X \o E
<1> HIDE DEF Y, E
<1>14. DF \in Seq(Y) /\ Range(DF) = Range(D) \cup Range(F)
  BY <1>13, ConcatProperties, RangeConcatenation
<1> HIDE DEF DF
<1>15. DFU \in Seq(Y) /\ Range(DFU) = Range(DF) \cup Range(U)
  BY <1>13, <1>14, ConcatProperties, RangeConcatenation
<1> HIDE DEF DFU
<1>16. X = DFU \o T
  BY DEF DF, DFU
<1> HIDE DEF X
<1>17. X \in Seq(Y) /\ Range(X) = Range(DFU) \cup Range(T)
  BY <1>13, <1>15, <1>16, ConcatProperties, RangeConcatenation
<1>18. /\ Range(q) = Range(X) \cup Range(E)
       /\ \A i \in 1..Len(q) :
            \/ /\ i \in 1..Len(X) /\ q[i] = X[i]
               /\ After(q, i) = After(X, i) \cup Range(E)
            \/ /\ i - Len(X) \in 1..Len(E) /\ q[i] = E[i - Len(X)]
               /\ After(q, i) = After(E, i - Len(X))
  BY <1>12, <1>17, AfterInConcat
<1> HIDE DEF q
<1>19. \A c \in Range(X) : c.op # "restart"
  BY <1>3, <1>6, <1>7, <1>8, <1>14, <1>15, <1>17
<1>20. ASSUME NEW i \in 1..Len(q), q[i].op = "restart"
       PROVE  After(q, i) = {}
  <2>1. \A j \in 1..Len(X) : X[j] \in Range(X)
    BY <1>17, ListElements
  <2>2. i - Len(X) \in 1..Len(E) /\ q[i] = E[i - Len(X)] /\ After(q, i) = After(E, i - Len(X))
    BY <1>18, <1>19, <1>20, <2>1
  <2>3. i - Len(X) = 1 \/ i - Len(X) = 2
    BY <1>11, <2>2
  <2>4. i - Len(X) = 2
    BY <1>10, <1>11, <1>20, <2>2, <2>3
  <2>5. After(E, 2) = {}
    BY <1>11 DEF After
  <2>6. QED
    BY <2>2, <2>4, <2>5
<1>21. \A c \in Range(q) : c.op = "write" => c \in Range(T)
  BY <1>3, <1>6, <1>7, <1>10, <1>11, <1>14, <1>15, <1>17, <1>18
<1>22. k \in Range(q) /\ z \in Range(q) /\ Range(T) \subseteq Range(q)
  BY <1>11, <1>17, <1>18
<1>23. (\E c \in Range(q) : c.op = "write") \/ Themed(th, u)
  BY <1>9, <1>22 DEF Themed
<1>24. PlanLeads(q, cm, th, miss, u)
  BY <1>9, <1>10, <1>20, <1>21, <1>22, <1>23 DEF PlanLeads
<1>25. QED
  BY <1>1, <1>24 DEF P, q

(* A command of the plan: the plan still leads to the policy, and the last *)
(* one is the restart.                                                     *)
LEMMA PlanLeadsStep ==
  ASSUME NEW q, NEW st, NEW cm, NEW th, NEW miss, NEW u, q # <<>>,
         NdsOrder(q, PolicyConfig(Policy(u))),
         miss \/ Progress(PolicyConfig(Policy(u)), Range(q), st),
         PlanLeads(q, cm, th, miss, u)
  PROVE  LET c == Head(q)
             written == IF c.op = "write" THEN c.val ELSE th
         IN  IF Tail(q) = <<>>
             THEN /\ c.op = "restart" /\ Themed(th, u)
                  /\ miss \/ Of(cm, "opennds") = PolicyConfig(Policy(u))
             ELSE PlanLeads(Tail(q), Filed(cm, st, c), written, miss, u)
<1> DEFINE c == Head(q)
           rest == Tail(q)
           C == PolicyConfig(Policy(u))
           filed == Filed(cm, st, c)
           written == IF c.op = "write" THEN c.val ELSE th
<1>1. \A t \in C : t[1] = "opennds"
  BY PolicyKeys
<1> HIDE DEF C
<1>2. /\ NdsOrder(q, C) /\ NdsShape(c, C) /\ NdsFollows(c, Range(rest))
      /\ Range(q) = {c} \cup Range(rest) /\ q \in Seq(Range(q))
      /\ miss \/ Progress(C, Range(q), st)
  <2>1. NdsOrder(q, C) /\ (miss \/ Progress(C, Range(q), st))
    BY DEF C
  <2>2. QED
    BY <2>1, NdsOrderRest DEF NdsOrder
<1>3. /\ Len(q) \in Nat \ {0} /\ c = q[1] /\ Range(rest) = After(q, 1)
      /\ rest \in Seq(Range(q))
  BY <1>2, HeadAndRest
<1>4. /\ miss \/ (\E d \in Range(q) : d.op = "commit") \/ Of(cm, "opennds") = C
      /\ (\E d \in Range(q) : d.op = "write") \/ Themed(th, u)
      /\ \A d \in Range(q) : d.op = "write" => d.val = Script(u)
      /\ \E d \in Range(q) : d.op = "restart"
      /\ \A i \in 1..Len(q) : q[i].op = "restart" => After(q, i) = {}
  BY DEF PlanLeads, C
<1>5. \A i \in 1..Len(rest) : rest[i].op = "restart" => After(rest, i) = {}
  <2>1. \A i \in 1..Len(rest) : /\ i + 1 \in 1..Len(q) /\ rest[i] = q[i + 1]
                                /\ After(rest, i) = After(q, i + 1)
    BY <1>2, AfterInTail
  <2>2. QED
    BY <1>4, <2>1
<1> HIDE DEF c, rest
<1>6. CASE rest = <<>>
  <2>1. Range(rest) = {}
    BY <1>6 DEF Range
  <2>2. c.op = "restart"
    BY <1>2, <1>4, <2>1
  <2>3. \A d \in Range(q) : d.op = "restart"
    BY <1>2, <2>1, <2>2
  <2>4. Themed(th, u) /\ (miss \/ Of(cm, "opennds") = C)
    BY <1>4, <2>3
  <2>5. QED
    BY <1>6, <2>2, <2>4 DEF c, rest, C
<1>7. CASE rest # <<>>
  <2>1. Range(rest) # {} /\ 1 \in 1..Len(q)
    <3>1. 1 \in DOMAIN rest
      BY <1>3, <1>7
    <3>2. QED
      BY <1>3, <3>1 DEF Range
  <2>2. c.op # "restart"
    BY <1>3, <1>4, <2>1
  <2>3. \E d \in Range(rest) : d.op = "restart"
    BY <1>2, <1>4, <2>2
  <2>4. (\E d \in Range(rest) : d.op = "write") \/ Themed(written, u)
    BY <1>2, <1>4 DEF Themed
  <2>5. miss \/ (\E d \in Range(rest) : d.op = "commit") \/ Of(filed, "opennds") = C
    <3>1. CASE c.op # "commit"
      BY <1>2, <1>4, <3>1, NothingFiled
    <3>2. CASE c.op = "commit" /\ ~miss
      <4>1. Progress(C, {c} \cup Range(rest), st)
        BY <1>2, <3>2
      <4>2. Of(st, "opennds") = C
        BY <1>1, <1>2, <3>2, <4>1, NdsCommit
      <4>3. c.pkg = "opennds"
        BY <1>2, <3>2 DEF NdsShape
      <4>4. QED
        BY <3>2, <4>2, <4>3, CommitFiles
    <3>3. QED
      BY <3>1, <3>2
  <2>6. \A d \in Range(rest) : d.op = "write" => d.val = Script(u)
    BY <1>2, <1>4
  <2> HIDE DEF filed, written
  <2>7. PlanLeads(rest, filed, written, miss, u)
    BY <1>5, <2>3, <2>4, <2>5, <2>6 DEF PlanLeads, C
  <2>8. QED
    BY <1>7, <2>7 DEF c, rest, filed, written
<1>8. QED
  BY <1>6, <1>7

-----------------------------------------------------------------------------
(* An applied update is served: the clients                                *)

(* The items about clients are a list, and there are none without a client *)
(* to authorise or not.                                                    *)
LEMMA ClientItemsList ==
  ASSUME NEW u, u.clients \in Seq(Range(u.clients))
  PROVE  /\ ClientItems(u) \in Seq(Range(ClientItems(u)))
         /\ ~HasClientUpdate(u) => ClientItems(u) = <<>>
<1> DEFINE list == u.clients
           S == Range(list)
           part(x) == IF x.unauth = None THEN <<>> ELSE <<x>>
           parts == [i \in DOMAIN list |-> part(list[i])]
<1>1. ClientItems(u) = FlattenSeq(parts)
  BY DEF ClientItems
<1>2. HasClientUpdate(u) <=> \E i \in DOMAIN list : list[i].unauth # None
  BY DEF HasClientUpdate
<1>3. list \in Seq(S)
  OBVIOUS
<1> HIDE DEF list, S
<1>4. /\ Len(list) \in Nat /\ DOMAIN list = 1..Len(list)
      /\ \A i \in 1..Len(list) : list[i] \in S
  BY <1>3, LenProperties, ElementOfSeq
<1>5. \A x \in S : part(x) \in Seq(S)
  OBVIOUS
<1>6. \A x : x.unauth = None => part(x) = <<>>
  OBVIOUS
<1> HIDE DEF part
<1>7. parts \in [1..Len(list) -> Seq(S)]
  BY <1>4, <1>5
<1>8. \A i \in 1..Len(list) : parts[i] = part(list[i])
  BY <1>4
<1>9. DOMAIN parts = 1..Len(list)
  BY <1>4
<1> HIDE DEF parts
<1>10. ClientItems(u) \in Seq(Range(ClientItems(u)))
  <2> DEFINE Q == Seq(S)
  <2>1. <<>> \in Q /\ \A a, b \in Q : a \o b \in Q
    BY EmptySeq, ConcatProperties
  <2>2. parts \in [1..Len(list) -> Q]
    BY <1>7
  <2> HIDE DEF Q
  <2>3. parts \in Seq(Q)
    BY <1>4, <2>2, FunctionIsSeq
  <2>4. FlattenSeq(parts) \in Q
    BY <2>1, <2>3, FlattenClosed
  <2>5. FlattenSeq(parts) \in Seq(S)
    BY <2>4 DEF Q
  <2>6. QED
    BY <1>1, <2>5, SeqOfRange
<1>11. ASSUME ~HasClientUpdate(u)
       PROVE  ClientItems(u) = <<>>
  <2> DEFINE Q == {<<>>}
  <2>1. <<>> \in Q /\ \A a, b \in Q : a \o b \in Q
    <3>1. <<>> \in Seq({}) /\ <<>> \o <<>> = <<>>
      BY EmptySeq, ConcatEmptySeq
    <3>2. QED
      BY <3>1
  <2>2. \A i \in 1..Len(list) : parts[i] \in Q
    BY <1>2, <1>4, <1>6, <1>8, <1>11
  <2> HIDE DEF Q
  <2>3. parts \in [1..Len(list) -> Q]
    BY <1>7, <1>9, <2>2
  <2>4. parts \in Seq(Q)
    BY <1>4, <2>3, FunctionIsSeq
  <2>5. FlattenSeq(parts) \in Q
    BY <2>1, <2>4, FlattenClosed
  <2>6. QED
    BY <1>1, <2>5 DEF Q
<1>12. QED
  BY <1>10, <1>11

(* The last item about a client is about that client, and is the last.     *)
LEMMA LastItem ==
  ASSUME NEW items, items \in Seq(Range(items)), NEW i \in DOMAIN items
  PROVE  /\ LastFor(items, Mac, items[i].mac).mac = items[i].mac
         /\ LastSays(items, items[i].mac, LastFor(items, Mac, items[i].mac).unauth)
<1> DEFINE mac == items[i].mac
           I == {j \in DOMAIN items : items[j].mac = mac}
           m == Max(I)
<1>1. LastFor(items, Mac, mac) = items[m]
  BY DEF LastFor, Mac
<1>2. Len(items) \in Nat /\ DOMAIN items = 1..Len(items)
  BY LenProperties
<1>3. I \in SUBSET (1..Len(items)) /\ I # {}
  BY <1>2
<1>4. m \in I /\ \A j \in I : j <= m
  <2> HIDE DEF I
  <2>1. QED
    BY <1>2, <1>3, LastIndex
<1> HIDE DEF m
<1>5. m \in 1..Len(items) /\ items[m].mac = mac
  BY <1>2, <1>4
<1>6. \A j \in (m + 1)..Len(items) : items[j].mac # mac
  BY <1>2, <1>4, <1>5
<1>7. \A d \in After(items, m) : d.mac # mac
  BY <1>6 DEF After
<1> HIDE DEF mac
<1>8. LastSays(items, mac, items[m].unauth)
  BY <1>5, <1>7 DEF LastSays
<1>9. QED
  BY <1>1, <1>5, <1>8 DEF mac

(* Before the first item every client is yet to be decided.                *)
LEMMA ClientsLeadStart ==
  ASSUME NEW u, u.clients \in Seq(Range(u.clients)), NEW auth
  PROVE  ClientsLead(ClientItems(u), auth, u)
<1>1. ClientItems(u) \in Seq(Range(ClientItems(u)))
  BY ClientItemsList
<1>2. QED
  BY <1>1, LastItem DEF ClientsLead, ClientOnTheWay

(* ndsctl deauth or auth for an item: a client is decided by its last.     *)
LEMMA ClientStep ==
  ASSUME NEW q, q \in Seq(Range(q)), q # <<>>, NEW auth, NEW auth2, NEW mac, NEW off,
         auth2 = IF Head(q).unauth THEN auth \ {Head(q).mac} ELSE auth \cup {Head(q).mac},
         ClientOnTheWay(q, auth, mac, off)
  PROVE  ClientOnTheWay(Tail(q), auth2, mac, off)
<1> DEFINE c == Head(q)
           rest == Tail(q)
<1>1. /\ Len(q) \in Nat \ {0} /\ c = q[1] /\ Range(rest) = After(q, 1)
      /\ Range(q) = {c} \cup Range(rest) /\ Len(rest) = Len(q) - 1
  BY HeadAndRest, HeadTailProperties
<1>2. \A i \in 1..Len(rest) : rest[i] = q[i + 1] /\ After(rest, i) = After(q, i + 1)
  BY AfterInTail
<1>3. /\ c.mac # mac => (mac \in auth2 <=> mac \in auth)
      /\ c.mac = mac => (mac \in auth2 <=> ~c.unauth)
  BY Zenon
<1> HIDE DEF c, rest
<1>4. CASE (\A d \in Range(q) : d.mac # mac) /\ (mac \in auth <=> ~off)
  <2>1. c.mac # mac /\ \A d \in Range(rest) : d.mac # mac
    BY <1>1, <1>4
  <2>2. mac \in auth2 <=> ~off
    BY <1>3, <1>4, <2>1, Zenon
  <2>3. QED
    BY <2>1, <2>2, Zenon DEF ClientOnTheWay, rest
<1>5. CASE LastSays(q, mac, off)
  <2>1. PICK i \in 1..Len(q) : /\ q[i].mac = mac /\ q[i].unauth = off
                               /\ \A d \in After(q, i) : d.mac # mac
    BY <1>5, Zenon DEF LastSays
  <2>2. CASE i = 1
    <3>1. c.mac = mac /\ c.unauth = off /\ \A d \in Range(rest) : d.mac # mac
      BY <1>1, <2>1, <2>2, Zenon
    <3>2. mac \in auth2 <=> ~off
      BY <1>3, <3>1, Zenon
    <3>3. QED
      BY <3>1, <3>2, Zenon DEF ClientOnTheWay, rest
  <2>3. CASE i # 1
    <3>1. i - 1 \in 1..Len(rest) /\ (i - 1) + 1 = i
      BY <1>1, <2>3
    <3>2. rest[i - 1] = q[i] /\ After(rest, i - 1) = After(q, i)
      BY <1>2, <3>1
    <3>3. LastSays(rest, mac, off)
      BY <2>1, <3>1, <3>2, Zenon DEF LastSays
    <3>4. QED
      BY <3>3, Zenon DEF ClientOnTheWay, rest
  <2>4. QED
    BY <2>2, <2>3
<1>6. QED
  BY <1>4, <1>5 DEF ClientOnTheWay

-----------------------------------------------------------------------------
(* An applied update is served: the steps                                  *)

(* A request without anything in it asks for nothing.                      *)
LEMMA InertUpdate ==
  ASSUME NEW request \in Requests, KindOf[request] = "inert"
  PROVE  request \in Parsed /\ UpdateOf[request] = NoFamilies
<1>1. request \in Parsed
  BY DEF Parsed
<1>2. Kind(request) = "inert" /\ UpdateOf[request] = Update(request)
  BY <1>1 DEF KindOf, UpdateOf
<1>3. CASE request.type = "SET_REQUEST"
  <2>1. SetKind(request.body) = "inert" /\ Update(request) = ParseBody(request.body)
    BY <1>2, <1>3 DEF Kind, Update
  <2>2. ~IsActionable(ParseBody(request.body))
    BY <2>1 DEF SetKind
  <2>3. QED
    BY <1>1, <1>2, <2>1, <2>2 DEF IsActionable
<1>4. CASE request.type # "SET_REQUEST"
  <2> DEFINE users == ParseUsers(Member(request.body, "authedUsers"))
  <2>1. PortalAuthKind(request.body) = "inert"
    BY <1>2, <1>4 DEF Kind
  <2>2. Update(request) = [NoFamilies EXCEPT !.clients = users]
    BY <1>4 DEF Update
  <2>3. users = <<>>
    BY <2>1, Zenon DEF PortalAuthKind
  <2> HIDE DEF users
  <2>4. [NoFamilies EXCEPT !.clients = <<>>] = NoFamilies
    <3>1. NoFamilies = [x \in DOMAIN NoFamilies |-> NoFamilies[x]]
      BY Zenon DEF NoFamilies
    <3>2. NoFamilies.clients = <<>>
      BY DEF NoFamilies
    <3>3. \A f : f = [x \in DOMAIN f |-> f[x]] /\ f.clients = <<>>
                => [f EXCEPT !.clients = <<>>] = f
      OBVIOUS
    <3>4. QED
      BY <3>1, <3>2, <3>3
  <2>5. QED
    BY <1>1, <1>2, <2>2, <2>3, <2>4
<1>5. QED
  BY <1>3, <1>4

(* An update without a family is served as it is.                          *)
LEMMA NothingServed ==
  ASSUME caps.maxSsids \in Nat, NEW cfg, NEW auth
  PROVE  /\ HasSsids(cfg, NoFamilies, caps) /\ ~HasPolicyUpdate(NoFamilies)
         /\ ClientsLead(<<>>, auth, NoFamilies)
<1>1. /\ NoFamilies.wlans = <<>> /\ NoFamilies.radios = <<>> /\ NoFamilies.clients = <<>>
      /\ NoFamilies.free = None /\ NoFamilies.portals = <<>>
  BY DEF NoFamilies
<1>2. <<>> \in Seq(Range(<<>>)) /\ DOMAIN <<>> = {}
  BY EmptySeq
<1>3. Sections(<<>>) = {}
  BY <1>2 DEF Sections
<1>4. ~HasPolicyUpdate(NoFamilies) /\ ~HasClientUpdate(NoFamilies)
  BY <1>1, <1>2 DEF HasPolicyUpdate, HasClientUpdate
<1>5. ClientItems(NoFamilies) = <<>>
  BY <1>1, <1>2, <1>4, ClientItemsList
<1>6. ClientsLead(<<>>, auth, NoFamilies)
  BY <1>2, <1>5 DEF ClientsLead
<1>7. Vlans(NoFamilies, caps) = {}
  <2> DEFINE active == ActiveWlans(NoFamilies, caps)
  <2>1. active \in Seq(Range(NoFamilies.wlans))
    BY <1>1, <1>2, WlanParts
  <2>2. Range(NoFamilies.wlans) = {}
    BY <1>1, <1>2 DEF Range
  <2> HIDE DEF active
  <2>3. active \in Seq({})
    BY <2>1, <2>2
  <2>4. DOMAIN active = {}
    BY <2>3, LenProperties, ElementOfSeq
  <2>5. QED
    BY <2>4 DEF Vlans, active
<1>8. QED
  BY <1>1, <1>3, <1>4, <1>6, <1>7 DEF HasSsids

(* The invariant along every step of the appliers.                         *)
LEMMA ServedStep == AppliersInv /\ ServedInv /\ [Next]_vars => ServedInv'
<1> SUFFICES ASSUME AppliersInv, ServedInv, [Next]_vars
             PROVE  ServedInv'
  OBVIOUS
<1> DEFINE u == UpdateOf[update]
           C == PolicyConfig(Policy(u))
<1>1. OutcomeInv /\ BatchInv /\ PortalInv
  BY DEF AppliersInv
<1>2. /\ caps.maxSsids \in Nat
      /\ pc # "idle" => update \in Parsed /\ GuardAccepts(u) /\ done = NoUpdate
  BY <1>1 DEF OutcomeInv, ServedInv
<1>3. pc # "idle" => /\ u.wlans \in Seq(Range(u.wlans)) /\ u.radios \in Seq(Range(u.radios))
                     /\ u.clients \in Seq(Range(u.clients))
                     /\ IsFiniteSet(Policy(u).fqdns) /\ IsFiniteSet(Policy(u).users)
  BY <1>2, UpdateLists
<1>4. ASSUME pc' = "idle", done' = NoUpdate
      PROVE  ServedInv'
  BY <1>4 DEF ServedInv
<1>5. ASSUME pc # "idle", pc' \in {"batch", "reload", "portal", "policy", "clients"},
             UNCHANGED <<update, caps, done>>,
             pc' = "batch" => BatchLeads(queue', committed', staged', u, caps),
             pc' = "reload" => HasSsids(committed', u, caps),
             pc' \in {"portal", "policy", "clients"} => HasSsids(wifi', u, caps),
             pc' = "policy" => PlanLeads(queue', committed', theme', missed', u),
             pc' = "clients" => /\ missed' \/ PolicyServed(portal', theme', u)
                                /\ ClientsLead(queue', authorised', u)
                                /\ queue' \in Seq(Range(queue'))
      PROVE  ServedInv'
  BY <1>2, <1>5, Zenon DEF ServedInv, GuardAccepts
<1>6. ASSUME pc # "idle", pc' = "idle", done' = update, caps' = caps,
             HasSsids(wifi', u, caps), missed' \/ PolicyServed(portal', theme', u),
             ClientsLead(<<>>, authorised', u)
      PROVE  ServedInv'
  BY <1>2, <1>6, Zenon DEF ServedInv
<1>7. /\ pc = "batch" => BatchLeads(queue, committed, staged, u, caps)
      /\ pc = "reload" => HasSsids(committed, u, caps)
      /\ pc \in {"portal", "policy", "clients"} => HasSsids(wifi, u, caps)
      /\ pc = "policy" => PlanLeads(queue, committed, theme, missed, u)
      /\ pc = "clients" => /\ missed \/ PolicyServed(portal, theme, u)
                           /\ ClientsLead(queue, authorised, u)
                           /\ queue \in Seq(Range(queue))
  BY Zenon DEF ServedInv
<1> HIDE DEF u
<1>8. ASSUME NEW request \in Requests, Receive(request)
      PROVE  ServedInv'
  <2>1. CASE Verdict(request) = "apply"
    <3>1. GuardAccepts(UpdateOf[request])
      BY <2>1, KindsKnown DEF Verdict
    <3>2. pc' = "plan" /\ update' = request /\ done' = NoUpdate /\ caps' = caps
      BY <1>8, <2>1 DEF Receive
    <3>3. GuardAccepts(UpdateOf[request])'
      BY <3>1, <3>2 DEF GuardAccepts
    <3>4. QED
      BY <3>2, <3>3 DEF ServedInv
  <2>2. CASE Verdict(request) = "nothing"
    <3>1. KindOf[request] = "inert"
      BY <2>2, KindsKnown DEF Verdict
    <3>2. request \in Parsed /\ UpdateOf[request] = NoFamilies
      BY <3>1, InertUpdate
    <3>3. pc' = "idle" /\ done' = request /\ UNCHANGED <<caps, device>>
      BY <1>8, <2>2 DEF Receive
    <3>4. /\ HasSsids(wifi', NoFamilies, caps) /\ ~HasPolicyUpdate(NoFamilies)
          /\ ClientsLead(<<>>, authorised', NoFamilies)
      BY <1>2, NothingServed
    <3>5. QED
      BY <3>2, <3>3, <3>4 DEF ServedInv, PolicyServed
  <2>3. CASE Verdict(request) \notin {"apply", "nothing"}
    BY <1>4, <1>8, <2>3 DEF Receive
  <2>4. QED
    BY <2>1, <2>2, <2>3
<1>9. CASE UciRejects
  BY <1>4, <1>9 DEF UciRejects, Finish
<1>10. CASE UciPlans
  <2> DEFINE q == BuildUciPlan(u, caps)
  <2>1. IF q = <<>> THEN \A cfg : HasSsids(cfg, u, caps)
        ELSE BatchLeads(q, committed, staged, u, caps)
    BY <1>2, <1>3, <1>10, BatchLeadsStart DEF UciPlans
  <2>2. /\ pc = "plan" /\ queue' = q /\ pc' = IF q = <<>> THEN "portal" ELSE "batch"
        /\ UNCHANGED <<update, caps, done, committed, staged>>
    BY <1>10 DEF UciPlans, device, u
  <2> HIDE DEF q
  <2>3. QED
    BY <1>5, <2>1, <2>2
<1>11. CASE BatchLine
  <2> DEFINE c == Head(queue)
             filed == Filed(committed, staged, c)
             next == Effect(staged, c)
  <2>1. pc = "batch" /\ queue # <<>> /\ UciOrder(queue)
    BY <1>1, <1>11 DEF BatchLine, BatchInv
  <2>2. IF Tail(queue) = <<>> THEN HasSsids(filed, u, caps)
        ELSE BatchLeads(Tail(queue), filed, next, u, caps)
    BY <1>7, <2>1, BatchLeadsStep
  <2>3. /\ queue' = Tail(queue) /\ staged' = next /\ committed' = filed
        /\ pc' = IF Tail(queue) = <<>> THEN "reload" ELSE "batch"
        /\ UNCHANGED <<update, caps, done>>
    BY <1>11 DEF BatchLine, RunUci, Filed
  <2> HIDE DEF filed, next
  <2>4. QED
    BY <1>5, <2>1, <2>2, <2>3
<1>12. CASE BatchFails
  BY <1>4, <1>12 DEF BatchFails, Finish
<1>13. CASE ReloadWifi
  <2>1. /\ pc = "reload" /\ pc' = "portal" /\ UNCHANGED <<update, caps, done>>
        /\ wifi' = Of(committed, "wireless") \cup Of(committed, "network")
    BY <1>13 DEF ReloadWifi
  <2>2. HasSsids(wifi', u, caps)
    BY <1>7, <2>1, ReloadLeads
  <2>3. QED
    BY <1>5, <2>1, <2>2
<1>14. CASE ReloadFails
  BY <1>4, <1>14 DEF ReloadFails, Finish
<1>15. CASE PortalSkipped
  <2>1. /\ pc = "portal" /\ pc' = "idle" /\ done' = update /\ UNCHANGED <<caps, wifi>>
        /\ "portal" \notin caps.supports \/ ~PortalUpdate(u)
    BY <1>15 DEF PortalSkipped, Finish, device, u
  <2>2. ~HasPolicyUpdate(u) /\ ~HasClientUpdate(u)
    <3>1. CASE ~PortalUpdate(u)
      BY <3>1 DEF PortalUpdate
    <3>2. CASE "portal" \notin caps.supports
      <4>1. u.free = None /\ u.portals = <<>> /\ u.clients = <<>>
        BY <1>2, <2>1, <3>2 DEF GuardAccepts
      <4>2. DOMAIN u.clients = {}
        BY <4>1
      <4>3. QED
        BY <4>1, <4>2 DEF HasPolicyUpdate, HasClientUpdate
    <3>3. QED
      BY <2>1, <3>1, <3>2
  <2>3. ClientItems(u) = <<>>
    BY <1>3, <2>1, <2>2, ClientItemsList
  <2>4. ClientsLead(<<>>, authorised', u)
    BY <2>3 DEF ClientsLead
  <2>5. PolicyServed(portal', theme', u)
    BY <2>2 DEF PolicyServed
  <2>6. QED
    BY <1>6, <1>7, <2>1, <2>4, <2>5
<1>16. CASE PortalPlans
  <2>1. pc = "portal" /\ UNCHANGED <<caps, device, missed>>
    BY <1>16 DEF PortalPlans
  <2>2. CASE ~caps.nds
    BY <1>4, <1>16, <2>2 DEF PortalPlans, Finish
  <2>3. CASE caps.nds /\ HasPolicyUpdate(u)
    <3>1. /\ pc' = "policy" /\ queue' = BuildOpenNdsPlan(Policy(u))
          /\ UNCHANGED <<update, done>>
      BY <1>16, <2>3 DEF PortalPlans, u
    <3>2. PlanLeads(queue', committed', theme', missed', u)
      BY <1>3, <2>1, <3>1, PlanLeadsStart
    <3>3. QED
      BY <1>5, <1>7, <2>1, <3>1, <3>2 DEF device
  <2>4. CASE caps.nds /\ ~HasPolicyUpdate(u)
    <3>1. pc' = "clients" /\ queue' = ClientItems(u) /\ UNCHANGED <<update, done>>
      BY <1>16, <2>4 DEF PortalPlans, u
    <3>2. queue' \in Seq(Range(queue')) /\ ClientsLead(queue', authorised', u)
      BY <1>3, <2>1, <3>1, ClientItemsList, ClientsLeadStart
    <3>3. PolicyServed(portal', theme', u)
      BY <2>4 DEF PolicyServed
    <3>4. QED
      BY <1>5, <1>7, <2>1, <3>1, <3>2, <3>3 DEF device
  <2>5. QED
    BY <2>2, <2>3, <2>4
<1>17. ASSUME pc = "policy", PolicyAdvances, UNCHANGED <<caps, update, done, wifi>>,
              IF Tail(queue) = <<>> THEN missed' \/ PolicyServed(portal', theme', u)
              ELSE PlanLeads(Tail(queue), committed', theme', missed', u)
       PROVE  ServedInv'
  <2>1. CASE Tail(queue) = <<>>
    <3>1. pc' = "clients" /\ queue' = ClientItems(u)
      BY <1>17, <2>1 DEF PolicyAdvances, u
    <3>2. queue' \in Seq(Range(queue')) /\ ClientsLead(queue', authorised', u)
      BY <1>3, <1>17, <3>1, ClientItemsList, ClientsLeadStart
    <3>3. QED
      BY <1>5, <1>7, <1>17, <2>1, <3>1, <3>2
  <2>2. CASE Tail(queue) # <<>>
    BY <1>5, <1>7, <1>17, <2>2 DEF PolicyAdvances
  <2>3. QED
    BY <2>1, <2>2
<1>18. pc = "policy" =>
         LET c == Head(queue)
             written == IF c.op = "write" THEN c.val ELSE theme
         IN  IF Tail(queue) = <<>>
             THEN /\ c.op = "restart" /\ Themed(theme, u)
                  /\ missed \/ Of(committed, "opennds") = C
             ELSE PlanLeads(Tail(queue), Filed(committed, staged, c), written, missed, u)
  BY <1>1, <1>7, PlanLeadsStep DEF PortalInv, u
<1> HIDE DEF C
<1>19. CASE PolicyCommand
  <2> DEFINE c == Head(queue)
  <2>1. /\ pc = "policy" /\ PolicyAdvances /\ UNCHANGED <<caps, update, done, wifi, missed>>
        /\ theme' = IF c.op = "write" THEN c.val ELSE theme
        /\ portal' = IF c.op = "restart" THEN Of(committed, "opennds") ELSE portal
        /\ committed' = Filed(committed, staged, c)
    BY <1>19 DEF PolicyCommand, RunUci, Filed
  <2> HIDE DEF c
  <2>2. CASE Tail(queue) = <<>>
    <3>1. c.op = "restart" /\ Themed(theme, u) /\ (missed \/ Of(committed, "opennds") = C)
      BY <1>18, <2>1, <2>2 DEF c
    <3>2. theme' = theme /\ portal' = Of(committed, "opennds")
      BY <2>1, <3>1
    <3>3. missed' \/ PolicyServed(portal', theme', u)
      BY <2>1, <3>1, <3>2 DEF PolicyServed, C
    <3>4. QED
      BY <1>17, <2>1, <2>2, <3>3
  <2>3. CASE Tail(queue) # <<>>
    <3>1. PlanLeads(Tail(queue), committed', theme', missed', u)
      BY <1>18, <2>1, <2>3, Zenon DEF c
    <3>2. QED
      BY <1>17, <2>1, <2>3, <3>1
  <2>4. QED
    BY <2>2, <2>3
<1>20. CASE DeleteTolerated
  <2> DEFINE c == Head(queue)
  <2>1. /\ pc = "policy" /\ PolicyAdvances /\ UNCHANGED <<caps, update, done, device>>
        /\ c.op = "delete" /\ (missed => missed')
    BY <1>20 DEF DeleteTolerated
  <2>2. Tail(queue) # <<>>
    BY <1>18, <2>1
  <2>3. PlanLeads(Tail(queue), committed, theme, missed, u)
    <3>1. Filed(committed, staged, c) = committed
      BY <2>1, NothingFiled
    <3>2. QED
      BY <1>18, <2>1, <2>2, <3>1
  <2>4. PlanLeads(Tail(queue), committed', theme', missed', u)
    BY <2>1, <2>3 DEF PlanLeads, device
  <2>5. QED
    BY <1>17, <2>1, <2>2, <2>4 DEF device
<1>21. CASE PolicyFails
  BY <1>4, <1>21 DEF PolicyFails, Finish
<1>22. CASE ClientCommand
  <2> DEFINE item == Head(queue)
             items == ClientItems(u)
             off(i) == LastFor(items, Mac, items[i].mac).unauth
  <2>1. /\ pc = "clients" /\ pc' = "clients" /\ queue # <<>> /\ queue' = Tail(queue)
        /\ authorised' = IF item.unauth THEN authorised \ {item.mac} ELSE authorised \cup {item.mac}
        /\ UNCHANGED <<caps, update, done, wifi, portal, theme, missed>>
    BY <1>22 DEF ClientCommand
  <2>2. queue \in Seq(Range(queue))
    BY <1>7, <2>1
  <2>3. \A i \in DOMAIN items : ClientOnTheWay(queue, authorised, items[i].mac, off(i))
    BY <1>7, <2>1 DEF ClientsLead
  <2>4. \A i \in DOMAIN items : ClientOnTheWay(Tail(queue), authorised', items[i].mac, off(i))
    <3> HIDE DEF off, items
    <3>1. QED
      BY <2>1, <2>2, <2>3, ClientStep
  <2>5. ClientsLead(queue', authorised', u)
    BY <2>1, <2>4 DEF ClientsLead
  <2>6. queue' \in Seq(Range(queue'))
    <3>1. Tail(queue) \in Seq(Range(queue))
      BY <2>1, <2>2, HeadAndRest
    <3>2. QED
      BY <2>1, <3>1, ListElements
  <2>7. QED
    BY <1>5, <1>7, <2>1, <2>5, <2>6
<1>23. CASE ClientFails
  BY <1>4, <1>23 DEF ClientFails, Finish
<1>24. CASE ClientsDone
  <2>1. /\ pc = "clients" /\ queue = <<>> /\ pc' = "idle" /\ done' = update
        /\ UNCHANGED <<caps, device, missed>>
    BY <1>24 DEF ClientsDone, Finish
  <2>2. QED
    BY <1>6, <1>7, <2>1 DEF device
<1>25. CASE ProcessDies
  BY <1>4, <1>25 DEF ProcessDies, Finish
<1>26. CASE Reboot
  BY <1>4, <1>26 DEF Reboot, Finish
<1>27. CASE UNCHANGED vars
  <2>1. UNCHANGED <<caps, pc, update, queue, done, missed>> /\ UNCHANGED device
    BY <1>27 DEF vars
  <2>2. QED
    BY <2>1, Zenon DEF ServedInv, device, GuardAccepts
<1>28. QED
  BY <1>8, <1>9, <1>10, <1>11, <1>12, <1>13, <1>14, <1>15, <1>16, <1>19, <1>20, <1>21,
     <1>22, <1>23, <1>24, <1>25, <1>26, <1>27 DEF Next

(* A configuration with all of the SSIDs, on the air, serves them.         *)
LEMMA SsidsAreServed ==
  ASSUME NEW u, u.wlans \in Seq(Range(u.wlans)), caps.maxSsids \in Nat,
         HasSsids(wifi, u, caps)
  PROVE  SsidsServed(u)
<1> DEFINE active == ActiveWlans(u, caps)
           sections == {WlanSection(active[i]) : i \in DOMAIN active}
           last(s) == LastFor(active, WlanSection, s)
<1>1. sections = Sections(active)
  BY DEF Sections
<1>2. Sections(active) \subseteq Sections(u.wlans)
  BY WlanSplit
<1>3. \A s \in Sections(u.wlans) : Section(wifi, s) = Goal(active, s)
  BY DEF HasSsids
<1>4. active \in Seq(Range(u.wlans))
  BY WlanParts
<1>5. \A v \in Vlans(u, caps) : Net(VlanSection(v)) \in wifi
  BY DEF HasSsids
<1>6. Vlans(u, caps) = {active[i].vlan : i \in DOMAIN active} \ {None}
  BY DEF Vlans
<1> HIDE DEF active
<1>7. Len(active) \in Nat /\ DOMAIN active = 1..Len(active)
  BY <1>4, LenProperties
<1>8. ASSUME NEW s \in sections
      PROVE  /\ {t \in Of(wifi, "wireless") : t[2] = s} = {<<"wireless", s, Iface(last(s))>>}
             /\ last(s).vlan # None => <<"network", VlanSection(last(s).vlan), "none">> \in wifi
  <2>1. Section(wifi, s) = {<<"wireless", s, Iface(last(s))>>}
    BY <1>1, <1>2, <1>3 DEF Goal
  <2> DEFINE I == {i \in DOMAIN active : WlanSection(active[i]) = s}
  <2>2. last(s) = active[Max(I)]
    BY DEF LastFor
  <2>3. I \in SUBSET (1..Len(active)) /\ I # {}
    BY <1>7
  <2>4. Max(I) \in DOMAIN active
    <3> HIDE DEF I
    <3>1. QED
      BY <1>7, <2>3, LastIndex
  <2>5. last(s).vlan # None => last(s).vlan \in Vlans(u, caps)
    BY <1>6, <2>2, <2>4
  <2> HIDE DEF last
  <2>6. last(s).vlan # None => Net(VlanSection(last(s).vlan)) \in wifi
    BY <1>5, <2>5
  <2>7. QED
    BY <2>1, <2>6 DEF Section, Net
<1>9. ASSUME NEW i \in DOMAIN u.wlans, WlanSection(u.wlans[i]) \notin sections,
             NEW t \in Of(wifi, "wireless")
      PROVE  t[2] # WlanSection(u.wlans[i])
  <2> DEFINE s == WlanSection(u.wlans[i])
  <2>1. s \in Sections(u.wlans)
    BY DEF Sections
  <2>2. Goal(active, s) = {}
    BY <1>1, <1>9 DEF Goal
  <2>3. QED
    BY <1>3, <2>1, <2>2 DEF Section
<1>10. QED
  BY <1>8, <1>9 DEF SsidsServed, active

(* Clients that are all decided are served.                                *)
LEMMA ClientsAreServed ==
  ASSUME NEW u, u.clients \in Seq(Range(u.clients)), ClientsLead(<<>>, authorised, u)
  PROVE  ClientsServed(u)
<1> DEFINE items == ClientItems(u)
           last(i) == LastFor(items, Mac, items[i].mac)
<1>1. items \in Seq(Range(items))
  BY ClientItemsList
<1>2. \A i \in DOMAIN items : ClientOnTheWay(<<>>, authorised, items[i].mac, last(i).unauth)
  BY DEF ClientsLead
<1>3. \A mac, off : ~LastSays(<<>>, mac, off)
  BY DEF LastSays
<1>4. \A i \in DOMAIN items : (items[i].mac \in authorised) <=> ~last(i).unauth
  BY <1>2, <1>3, Zenon DEF ClientOnTheWay
<1>5. \A i \in DOMAIN items : last(i).mac = items[i].mac
  <2> HIDE DEF items
  <2>1. QED
    BY <1>1, LastItem
<1>6. \A i \in DOMAIN items : (last(i).mac \in authorised) <=> ~last(i).unauth
  <2> HIDE DEF last, items
  <2>1. QED
    BY <1>4, <1>5, Zenon
<1>7. ASSUME NEW i \in DOMAIN items
      PROVE  LastFor(items, LAMBDA item : item.mac, items[i].mac) = last(i)
  BY DEF LastFor, Mac
<1>8. QED
  BY <1>6, <1>7, Zenon DEF ClientsServed

(* errcode 0 means applied, for all requests, platforms and histories: the *)
(* SSIDs of the last applied update are on the air with their own settings *)
(* and networks, those beyond the limit are not, openNDS runs its policy   *)
(* (unless a tolerated deletion failed) and its clients are as told,       *)
(* whatever earlier updates left staged.                                   *)
THEOREM AppliedUpdatesServed == Spec => []AppliedIsServed
<1>1. Init => ServedInv
  BY DEF Init, ServedInv
<1>2. AppliersInv /\ ServedInv /\ [Next]_vars => ServedInv'
  BY ServedStep
<1>3. AppliersInv /\ ServedInv => AppliedIsServed
  <2> SUFFICES ASSUME AppliersInv, ServedInv, done # NoUpdate
               PROVE  /\ SsidsServed(UpdateOf[done])
                      /\ missed \/ PortalServed(UpdateOf[done])
                      /\ ClientsServed(UpdateOf[done])
    BY DEF AppliedIsServed
  <2> DEFINE u == UpdateOf[done]
  <2>1. /\ done \in Parsed /\ HasSsids(wifi, u, caps)
        /\ missed \/ PolicyServed(portal, theme, u)
        /\ ClientsLead(<<>>, authorised, u)
    BY Zenon DEF ServedInv
  <2>2. u.wlans \in Seq(Range(u.wlans)) /\ u.clients \in Seq(Range(u.clients))
    BY <2>1, UpdateLists
  <2>3. caps.maxSsids \in Nat
    BY DEF AppliersInv, OutcomeInv
  <2> HIDE DEF u
  <2>4. SsidsServed(u) /\ ClientsServed(u)
    BY <2>1, <2>2, <2>3, SsidsAreServed, ClientsAreServed
  <2>5. missed \/ PortalServed(u)
    BY <2>1, Zenon DEF PolicyServed, PortalServed, Themed, Script
  <2>6. QED
    BY <2>4, <2>5, Zenon DEF u
<1>4. QED
  BY <1>1, <1>2, <1>3, AppliersCorrect, PTL DEF Spec
-----------------------------------------------------------------------------
(* Defects: whatever is wrong with a request, parse_set_request_json or    *)
(* parse_portal_auth_request_json turns it down, up to the error it loses. *)

Refused == {"nobody", "invalid", "unhandled"}

(* What is no list is no list to the parser.                               *)
LEMMA BadListFound ==
  ASSUME NEW raw
  PROVE  NoList(raw) => BadList(raw)
  BY DEF NoList, BadList

(* The items the parser looks at: the object itself or those of the array. *)
LEMMA BadItemFound ==
  ASSUME NEW raw, raw # None
  PROVE  /\ raw.json = "object" => 1 \in DOMAIN Items(raw) /\ Items(raw)[1] = raw
         /\ raw.json = "array" => \A item \in Range(raw.of) :
              \E i \in DOMAIN Items(raw) : Items(raw)[i] = item
<1>1. CASE raw.json = "object"
  <2>1. Items(raw) = <<raw>>
    BY <1>1 DEF Items
  <2>2. QED
    BY <1>1, <2>1
<1>2. CASE raw.json = "array"
  <2>1. Items(raw) = raw.of
    BY <1>2 DEF Items
  <2>2. QED
    BY <1>2, <2>1 DEF Range
<1>3. QED
  BY <1>1, <1>2

(* A flawed list of SSIDs is found by the loop over its items.             *)
LEMMA SsidsFound ==
  ASSUME NEW raw, NoList(raw) \/ FlawedItem(raw, FlawedSsid)
  PROVE  BadItems(raw, BadSsidItem)
<1>1. CASE NoList(raw)
  BY <1>1, BadListFound DEF BadItems
<1>2. CASE FlawedItem(raw, FlawedSsid)
  <2>1. \A item : FlawedSsid(item) => BadSsidItem(item)
    <3>1. \A vlan : NoVlan(vlan) => BadVlanId(vlan)
      BY DEF NoVlan, BadVlanId
    <3>2. \A value : NoObject(value) => ~IsObject(value)
      BY DEF NoObject, IsObject
    <3>3. QED
      BY <3>1, <3>2 DEF FlawedSsid, BadSsidItem
  <2>2. \A item : NoObject(item) => ~IsObject(item)
    BY DEF NoObject, IsObject
  <2>3. QED
    BY <1>2, <2>1, <2>2, BadItemFound DEF BadItems, FlawedItem
<1>3. QED
  BY <1>1, <1>2

(* A flawed list of rules is found.                                        *)
LEMMA RulesFound ==
  ASSUME NEW raw, NoList(raw) \/ FlawedItem(raw, FlawedRule)
  PROVE  BadItems(raw, BadRule)
<1>1. CASE NoList(raw)
  BY <1>1, BadListFound DEF BadItems
<1>2. CASE FlawedItem(raw, FlawedRule)
  <2>1. \A item : FlawedRule(item) => BadRule(item)
    BY DEF FlawedRule, BadRule, NoList, BadList
  <2>2. \A item : NoObject(item) => ~IsObject(item)
    BY DEF NoObject, IsObject
  <2>3. QED
    BY <1>2, <2>1, <2>2, BadItemFound DEF BadItems, FlawedItem
<1>3. QED
  BY <1>1, <1>2

(* A flawed list of clients is found.                                      *)
LEMMA ClientsFound ==
  ASSUME NEW raw, NoList(raw) \/ FlawedItem(raw, FlawedClient)
  PROVE  BadItems(raw, BadClient)
<1>1. CASE NoList(raw)
  BY <1>1, BadListFound DEF BadItems
<1>2. CASE FlawedItem(raw, FlawedClient)
  <2>1. \A item : FlawedClient(item) => BadClient(item)
    BY DEF FlawedClient, BadClient, NoMac, BadMac
  <2>2. \A item : NoObject(item) => ~IsObject(item)
    BY DEF NoObject, IsObject
  <2>3. QED
    BY <1>2, <2>1, <2>2, BadItemFound DEF BadItems, FlawedItem
<1>3. QED
  BY <1>1, <1>2

(* A flawed list of rate limits is found.                                  *)
LEMMA LimitsFound ==
  ASSUME NEW raw, NoList(raw) \/ FlawedItem(raw, FlawedLimit)
  PROVE  BadItems(raw, LAMBDA item : BadMac(Member(item, "mac")))
<1>1. CASE NoList(raw)
  BY <1>1, BadListFound DEF BadItems
<1>2. CASE FlawedItem(raw, FlawedLimit)
  <2>1. \A item : FlawedLimit(item) => BadMac(Member(item, "mac"))
    BY DEF FlawedLimit, NoMac, BadMac
  <2>2. \A item : NoObject(item) => ~IsObject(item)
    BY DEF NoObject, IsObject
  <2>3. QED
    BY <1>2, <2>1, <2>2, BadItemFound DEF BadItems, FlawedItem
<1>3. QED
  BY <1>1, <1>2

(* An item of portalConfigList that is no object is found.                 *)
LEMMA PortalsFound ==
  ASSUME NEW raw, NoList(raw) \/ FlawedItem(raw, FlawedPortal)
  PROVE  BadItems(raw, LAMBDA item : FALSE)
<1>1. CASE NoList(raw)
  BY <1>1, BadListFound DEF BadItems
<1>2. CASE FlawedItem(raw, FlawedPortal)
  <2>1. \A item : FlawedPortal(item) => FALSE
    BY DEF FlawedPortal
  <2>2. \A item : NoObject(item) => ~IsObject(item)
    BY DEF NoObject, IsObject
  <2>3. QED
    BY <1>2, <2>1, <2>2, BadItemFound DEF BadItems, FlawedItem
<1>3. QED
  BY <1>1, <1>2

(* A flawed list of authed users is found.                                 *)
LEMMA UsersFound ==
  ASSUME NEW raw, NoList(raw) \/ FlawedItem(raw, FlawedUser)
  PROVE  BadItems(raw, BadUser)
<1>1. CASE NoList(raw)
  BY <1>1, BadListFound DEF BadItems
<1>2. CASE FlawedItem(raw, FlawedUser)
  <2>1. \A item : FlawedUser(item) => BadUser(item)
    BY DEF FlawedUser, BadUser, Decided, NoMac, BadMac
  <2>2. \A item : NoObject(item) => ~IsObject(item)
    BY DEF NoObject, IsObject
  <2>3. QED
    BY <1>2, <2>1, <2>2, BadItemFound DEF BadItems, FlawedItem
<1>3. QED
  BY <1>1, <1>2

(* The keys of the bands.                                                  *)
LEMMA BandKeys ==
  /\ Range(RadioKey) = {"wirelessBasic_2G", "wirelessBasic_5G", "wirelessBasic_5G2",
                        "wirelessBasic_6G"}
  /\ Range(SsidKey) = {"ssid_2G", "ssid_5G", "ssid_5G2", "ssid_6G"}
<1>1. Range(AllBands) = {"2G", "5G", "5G2", "6G"}
  <2>1. DOMAIN AllBands = {1, 2, 3, 4}
    BY DEF AllBands
  <2>2. /\ AllBands[1] = "2G" /\ AllBands[2] = "5G"
        /\ AllBands[3] = "5G2" /\ AllBands[4] = "6G"
    BY DEF AllBands
  <2>3. QED
    BY <2>1, <2>2 DEF Range
<1>2. DOMAIN RadioKey = {"2G", "5G", "5G2", "6G"} /\ DOMAIN SsidKey = {"2G", "5G", "5G2", "6G"}
  BY <1>1 DEF RadioKey, SsidKey
<1>3. /\ RadioKey["2G"] = "wirelessBasic_2G" /\ RadioKey["5G"] = "wirelessBasic_5G"
      /\ RadioKey["5G2"] = "wirelessBasic_5G2" /\ RadioKey["6G"] = "wirelessBasic_6G"
  BY <1>1 DEF RadioKey
<1>4. /\ SsidKey["2G"] = "ssid_2G" /\ SsidKey["5G"] = "ssid_5G"
      /\ SsidKey["5G2"] = "ssid_5G2" /\ SsidKey["6G"] = "ssid_6G"
  BY <1>1 DEF SsidKey
<1>5. Range(RadioKey) = {RadioKey["2G"], RadioKey["5G"], RadioKey["5G2"], RadioKey["6G"]}
  BY <1>2 DEF Range
<1>6. Range(SsidKey) = {SsidKey["2G"], SsidKey["5G"], SsidKey["5G2"], SsidKey["6G"]}
  BY <1>2 DEF Range
<1>7. QED
  BY <1>3, <1>4, <1>5, <1>6

(* What is wrong with a family is an error of the parser of this family.   *)
LEMMA FamilyFound ==
  ASSUME NEW key, NEW raw, raw # None, Shapeless(key, raw) \/ Flawed(key, raw)
  PROVE  BadFamily(key, raw)
<1>1. NoObject(raw) => ~IsObject(raw)
  BY DEF NoObject, IsObject
<1>2. CASE key \in Range(RadioKey) \cup LedKeys
  <2>1. BadFamily(key, raw) = ~IsObject(raw)
    BY <1>2, BandKeys DEF BadFamily, LedKeys, OperationKeys
  <2>2. ~Flawed(key, raw)
    BY <1>2, BandKeys DEF Flawed, LedKeys, ClientFamilies, OperationKeys
  <2>3. QED
    BY <1>1, <2>1, <2>2 DEF Shapeless
<1>3. CASE key \in Range(SsidKey)
  <2>1. BadFamily(key, raw) = BadSsids(raw)
    BY <1>3, BandKeys DEF BadFamily, LedKeys, OperationKeys
  <2>2. ASSUME Flawed(key, raw)
        PROVE  NoList(Member(raw, "ssid")) \/ FlawedItem(Member(raw, "ssid"), FlawedSsid)
    BY <1>3, <2>2, BandKeys DEF Flawed, ClientFamilies, OperationKeys
  <2>3. ASSUME Flawed(key, raw)
        PROVE  BadItems(Member(raw, "ssid"), BadSsidItem)
    BY <2>2, <2>3, SsidsFound
  <2>4. QED
    BY <1>1, <2>1, <2>3 DEF BadSsids, Shapeless
<1>4. CASE key = "managementVlan"
  <2>1. BadFamily(key, raw) = BadManagementVlan(raw)
    BY <1>4, BandKeys DEF BadFamily, LedKeys, OperationKeys
  <2>2. Flawed(key, raw) => NoVlan(Member(raw, "managementVlanId"))
    BY <1>4, BandKeys DEF Flawed, ClientFamilies, OperationKeys
  <2>3. \A n : NoVlan(n) => BadVlanId(n)
    BY DEF NoVlan, BadVlanId
  <2>4. NoObject(raw) \/ Flawed(key, raw)
    BY DEF Shapeless
  <2>5. BadManagementVlan(raw)
    BY <1>1, <2>2, <2>3, <2>4 DEF BadManagementVlan
  <2>6. QED
    BY <2>1, <2>5
<1>5. CASE key = "portalFreePolicyConfig"
  <2>1. BadFamily(key, raw) = BadFreePolicy(raw)
    BY <1>5, BandKeys DEF BadFamily, LedKeys, OperationKeys
  <2>2. ASSUME Flawed(key, raw)
        PROVE  \E name \in {"portalFreePolicy", "urlPortalFreePolicy"} :
                 NoList(Member(raw, name)) \/ FlawedItem(Member(raw, name), FlawedRule)
    BY <1>5, <2>2, BandKeys DEF Flawed, ClientFamilies, OperationKeys
  <2>3. ASSUME Flawed(key, raw)
        PROVE  \E name \in {"portalFreePolicy", "urlPortalFreePolicy"} :
                 BadItems(Member(raw, name), BadRule)
    BY <2>2, <2>3, RulesFound
  <2>4. QED
    BY <1>1, <2>1, <2>3 DEF BadFreePolicy, Shapeless
<1>6. CASE key = "portalConfigList"
  <2>1. BadFamily(key, raw) = BadItems(raw, LAMBDA item : FALSE)
    BY <1>6, BandKeys DEF BadFamily, LedKeys, OperationKeys
  <2>2. ~Shapeless(key, raw)
    BY <1>6, BandKeys DEF Shapeless, LedKeys
  <2>3. NoList(raw) \/ FlawedItem(raw, FlawedPortal)
    BY <1>6, <2>2, BandKeys DEF Flawed, ClientFamilies, OperationKeys
  <2>4. BadItems(raw, LAMBDA item : FALSE)
    BY <2>3, PortalsFound
  <2>5. QED
    BY <2>1, <2>4
<1>7. CASE key \in ClientFamilies
  <2>1. BadFamily(key, raw) = BadItems(raw, BadClient)
    BY <1>7, BandKeys DEF BadFamily, LedKeys, OperationKeys, ClientFamilies
  <2>2. ~Shapeless(key, raw)
    BY <1>7, BandKeys DEF Shapeless, LedKeys, OperationKeys, ClientFamilies
  <2>3. NoList(raw) \/ FlawedItem(raw, FlawedClient)
    BY <1>7, <2>2, BandKeys DEF Flawed, ClientFamilies, OperationKeys
  <2>4. BadItems(raw, BadClient)
    BY <2>3, ClientsFound
  <2>5. QED
    BY <2>1, <2>4
<1>8. CASE key = "clientRateConfig"
  <2>1. BadFamily(key, raw) = BadRateConfig(raw)
    BY <1>8, BandKeys DEF BadFamily, LedKeys, OperationKeys
  <2>2. ASSUME Flawed(key, raw)
        PROVE  \/ NoList(Member(raw, "clientRateLimit"))
               \/ FlawedItem(Member(raw, "clientRateLimit"), FlawedLimit)
    BY <1>8, <2>2, BandKeys DEF Flawed, ClientFamilies, OperationKeys
  <2>3. ASSUME Flawed(key, raw)
        PROVE  BadItems(Member(raw, "clientRateLimit"),
                        LAMBDA item : BadMac(Member(item, "mac")))
    BY <2>2, <2>3, LimitsFound
  <2>4. QED
    BY <1>1, <2>1, <2>3 DEF BadRateConfig, Shapeless
<1>9. QED
  <2>1. Shapeless(key, raw) =>
          key \in Range(RadioKey) \cup Range(SsidKey) \cup LedKeys
            \cup {"managementVlan", "portalFreePolicyConfig", "clientRateConfig"}
    BY DEF Shapeless
  <2>2. Flawed(key, raw) =>
          \/ key \in Range(SsidKey) \cup ClientFamilies
          \/ key \in {"managementVlan", "portalFreePolicyConfig", "clientRateConfig",
                      "portalConfigList"}
    BY DEF Flawed
  <2>3. QED
    BY <1>2, <1>3, <1>4, <1>5, <1>6, <1>7, <1>8, <2>1, <2>2

(* A request with a defect is refused by the parser unless its only defect *)
(* is the one whose error is lost.                                         *)
LEMMA DefectIsRefused ==
  ASSUME NEW request, Defect(request), ~OnlyLostErrors(request)
  PROVE  Kind(request) \in Refused
<1> DEFINE body == request.body
<1>1. NoObject(body) = ~IsObject(body)
  BY DEF NoObject, IsObject
<1>2. CASE request.type = "SET_REQUEST"
  <2>1. Kind(request) = SetKind(body)
    BY <1>2 DEF Kind
  <2>2. CASE NoObject(body)
    <3>1. SetKind(body) = "nobody"
      BY <1>1, <2>2 DEF SetKind
    <3>2. QED
      BY <2>1, <3>1 DEF Refused
  <2>3. CASE ~NoObject(body)
    <3>1. PICK key \in DOMAIN body.of : FlawIn(body, key) /\ ~ErrorLost(body, key)
      BY <1>2, <2>3, Zenon DEF OnlyLostErrors
    <3> DEFINE raw == body.of[key]
    <3>2. Member(body, key) = raw
      BY DEF Member
    <3>3. CASE key \notin kCommonKeys \cup kKnownKeys \cup kPassiveKeys
      <4>1. UnhandledKeys(body) # {}
        BY <3>3 DEF UnhandledKeys
      <4>2. SetKind(body) \in {"invalid", "unhandled"}
        BY <1>1, <2>3, <4>1 DEF SetKind
      <4>3. QED
        BY <2>1, <4>2 DEF Refused
    <3>4. CASE raw # None /\ (Shapeless(key, raw) \/ Flawed(key, raw))
      <4>1. BadFamily(key, raw)
        BY <3>4, FamilyFound
      <4>2. BadList(raw) => NoList(raw)
        BY DEF BadList, NoList
      <4>3. ~(key = "portalConfigList" /\ ErrorUnseen(body))
        BY <3>1, <3>2, <4>2 DEF ErrorUnseen, ErrorLost, ClientFamilies
      <4>4. ParseFails(body)
        BY <3>4, <4>1, <4>3 DEF ParseFails
      <4>5. SetKind(body) = "invalid"
        BY <1>1, <2>3, <4>4 DEF SetKind
      <4>6. QED
        BY <2>1, <4>5 DEF Refused
    <3>5. QED
      BY <3>1, <3>3, <3>4, Zenon DEF FlawIn
  <2>4. QED
    BY <2>2, <2>3
<1>3. CASE request.type # "SET_REQUEST"
  <2>1. Kind(request) = PortalAuthKind(body)
    BY <1>3 DEF Kind
  <2> DEFINE users == Member(body, "authedUsers")
  <2>2. NoObject(body) \/ NoList(users) \/ FlawedItem(users, FlawedUser)
    BY <1>3, Zenon DEF Defect
  <2>3. NoObject(body) \/ BadItems(users, BadUser)
    BY <2>2, UsersFound
  <2>4. PortalAuthKind(body) \in {"nobody", "invalid"}
    BY <1>1, <2>3, Zenon DEF PortalAuthKind
  <2>5. QED
    BY <2>1, <2>4 DEF Refused
<1>4. QED
  BY <1>2, <1>3

(* Only a request that could be parsed is ever answered with success.      *)
LEMMA SuccessIsParsed ==
  AppliersInv /\ (done = NoUpdate \/ done \in Parsed) /\ [Next]_vars
    => (done = NoUpdate \/ done \in Parsed)'
<1> SUFFICES ASSUME AppliersInv, done = NoUpdate \/ done \in Parsed, [Next]_vars
             PROVE  done' = NoUpdate \/ done' \in Parsed
  OBVIOUS
<1>1. pc # "idle" => update \in Parsed
  BY DEF AppliersInv, OutcomeInv
<1>2. ASSUME NEW request \in Requests, Receive(request)
      PROVE  done' = NoUpdate \/ done' \in Parsed
  <2>1. Verdict(request) = "nothing" => request \in Parsed
    BY KindsKnown DEF Verdict, Parsed
  <2>2. QED
    BY <1>2, <2>1 DEF Receive
<1>3. ASSUME pc # "idle", NEW result, Finish(result)
      PROVE  done' = NoUpdate \/ done' \in Parsed
  BY <1>1, <1>3 DEF Finish
<1>4. CASE done' = done
  BY <1>4
<1>5. CASE UciRejects \/ BatchFails \/ ReloadFails \/ PortalSkipped \/ PolicyFails
             \/ ClientFails \/ ClientsDone \/ ProcessDies
  BY <1>3, <1>5 DEF UciRejects, BatchFails, ReloadFails, PortalSkipped, PolicyFails,
     ClientFails, ClientsDone, ProcessDies
<1>6. CASE PortalPlans
  BY <1>3, <1>4, <1>6 DEF PortalPlans
<1>7. CASE Reboot
  BY <1>7 DEF Reboot, Finish
<1>8. CASE UciPlans \/ BatchLine \/ ReloadWifi \/ PolicyCommand \/ DeleteTolerated
             \/ ClientCommand \/ UNCHANGED vars
  BY <1>4, <1>8 DEF UciPlans, BatchLine, ReloadWifi, PolicyCommand, DeleteTolerated,
     ClientCommand, vars
<1>9. QED
  BY <1>2, <1>5, <1>6, <1>7, <1>8 DEF Next

(* A request with a defect anywhere in it, other than the one whose error  *)
(* parse_body_object loses, is never answered with success, whatever the   *)
(* other requests, the platform and the history: its other families do not *)
(* carry it through.                                                       *)
THEOREM DefectsNeverSucceed == Spec => []DefectsAreRefused
<1>1. Init => done = NoUpdate \/ done \in Parsed
  BY DEF Init
<1>2. AppliersInv /\ (done = NoUpdate \/ done \in Parsed) /\ [Next]_vars
        => (done = NoUpdate \/ done \in Parsed)'
  BY SuccessIsParsed
<1>3. (done = NoUpdate \/ done \in Parsed) => DefectsAreRefused
  <2> SUFFICES ASSUME done \in Parsed, Defect(done), ~OnlyLostErrors(done)
               PROVE  FALSE
    BY DEF DefectsAreRefused
  <2>1. Kind(done) \in Refused
    BY DefectIsRefused
  <2>2. Kind(done) \in {"inert", "actionable"}
    BY DEF Parsed, KindOf
  <2>3. QED
    BY <2>1, <2>2 DEF Refused
<1>4. QED
  BY <1>1, <1>2, <1>3, AppliersCorrect, PTL DEF Spec
=============================================================================
