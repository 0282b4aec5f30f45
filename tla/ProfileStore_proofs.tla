------------------------ MODULE ProfileStore_proofs ------------------------
(***************************************************************************)
(* The known profiles and their files, for any names, any files and any     *)
(* calls.  A list of profiles is reasoned about as the set of its members,  *)
(* no two of which have one name.                                           *)
(***************************************************************************)
EXTENDS ProfileStore, SequenceTheorems, WellFoundedInduction, TLAPS

(* Steps from one natural number to the next *)

LEMMA LeastIndex ==
  ASSUME NEW S, S \subseteq Nat, S # {}
  PROVE  \E i \in S : \A j \in S : i <= j
<1>1. PICK i \in S : \A j \in S : <<j, i>> \notin OpToRel(<, Nat)
  BY NatLessThanWellFounded, WFMin
<1>2. \A j \in S : ~(j < i)
  BY <1>1 DEF OpToRel
<1> QED BY <1>2

\* Induction over a set of numbers.
LEMMA Upwards ==
  ASSUME NEW S, 0 \in S, \A n \in Nat : n \in S => n + 1 \in S
  PROVE  Nat \subseteq S
<1>1. ASSUME Nat \ S # {}
      PROVE  FALSE
  <2>1. PICK i \in Nat \ S : \A j \in Nat \ S : i <= j
    BY <1>1, LeastIndex
  <2>2. i # 0 /\ i - 1 \in Nat /\ i - 1 \in S
    BY <2>1
  <2> QED BY <2>1, <2>2
<1> QED BY <1>1

\* What starts at b and takes the steps G, one after the other.
LEMMA Chain ==
  ASSUME NEW T, NEW b \in T, NEW N \in Nat, NEW G \in [1..N -> [T -> T]]
  PROVE  \E h \in [0..N -> T] : h[0] = b /\ \A n \in 1..N : h[n] = G[n][h[n - 1]]
<1> DEFINE Reached(n, h) == h[0] = b /\ \A k \in 1..n : h[k] = G[k][h[k - 1]]
           S == {n \in Nat : n <= N => \E h \in [0..n -> T] : Reached(n, h)}
<1>1. 0 \in S
  <2>1. [k \in 0..0 |-> b] \in [0..0 -> T] /\ Reached(0, [k \in 0..0 |-> b])
    OBVIOUS
  <2> QED BY <2>1
<1>2. ASSUME NEW n \in Nat, n \in S
      PROVE  n + 1 \in S
  <2>1. CASE n + 1 <= N
    <3>1. PICK h \in [0..n -> T] : Reached(n, h)
      BY <1>2, <2>1
    <3> DEFINE g == [k \in 0..(n + 1) |-> IF k <= n THEN h[k] ELSE G[n + 1][h[n]]]
    <3>2. G[n + 1] \in [T -> T] /\ h[n] \in T
      BY <2>1
    <3>3. g \in [0..(n + 1) -> T]
      BY <3>2
    <3>4. Reached(n + 1, g)
      <4>1. g[0] = b
        BY <3>1
      <4>2. ASSUME NEW k \in 1..(n + 1)
            PROVE  g[k] = G[k][g[k - 1]]
        <5>1. CASE k <= n
          BY <3>1, <5>1
        <5>2. CASE k = n + 1
          BY <5>2
        <5> QED BY <5>1, <5>2
      <4> QED BY <4>1, <4>2
    <3> HIDE DEF g, Reached
    <3> QED BY <3>3, <3>4
  <2>2. CASE ~(n + 1 <= N)
    BY <2>2
  <2> QED BY <2>1, <2>2
<1>3. N \in S
  <2> HIDE DEF S
  <2> QED BY <1>1, <1>2, Upwards
<1> QED BY <1>3

(* Lists of profiles *)

Names(s) == {q.name : q \in ToSet(s)}

\* No two profiles of one name.
Lists == {s \in Seq(AnyProfile) :
            \A i \in 1..Len(s) : \A j \in 1..Len(s) : s[i].name = s[j].name => i = j}

\* A list's members are its places' profiles.
LEMMA Members ==
  ASSUME NEW s \in Seq(AnyProfile)
  PROVE  /\ Len(s) \in Nat /\ DOMAIN s = 1..Len(s)
         /\ ToSet(s) = {s[i] : i \in 1..Len(s)}
         /\ ToSet(s) \subseteq AnyProfile
         /\ \A q \in ToSet(s) : \E i \in 1..Len(s) : q = s[i]
  BY DEF ToSet

LEMMA BuiltInsFacts ==
  /\ BuiltIns \in Lists /\ Len(BuiltIns) = 3
  /\ \A ppd \in 1..3 : BuiltIns[ppd] \in ToSet(BuiltIns)
<1>1. \A ppd \in 1..3 : BuiltIns[ppd].name \in Name
  BY StoreAssumption DEF Name
<1>2. /\ Len(BuiltIns) = 3
      /\ BuiltIns[1] = Profile("quiet", 1, 15, "quiet")
      /\ BuiltIns[2] = Profile("balanced", 2, 20, "balanced")
      /\ BuiltIns[3] = Profile("performance", 3, 25, "performance")
  BY DEF BuiltIns
<1>3. /\ BuiltIns[1].name = "quiet" /\ BuiltIns[2].name = "balanced"
      /\ BuiltIns[3].name = "performance"
  BY <1>2 DEF Profile
<1>4. BuiltIns[1] \in AnyProfile /\ BuiltIns[2] \in AnyProfile /\ BuiltIns[3] \in AnyProfile
  BY <1>1, <1>2, <1>3 DEF AnyProfile, Profile, Tag
<1>5. BuiltIns \in Seq(AnyProfile)
  BY <1>4 DEF BuiltIns
<1>6. ASSUME NEW i \in 1..3, NEW j \in 1..3, BuiltIns[i].name = BuiltIns[j].name
      PROVE  i = j
  BY <1>3, <1>6
<1>7. \A ppd \in 1..3 : BuiltIns[ppd] \in ToSet(BuiltIns)
  BY <1>2, <1>5, Members
<1> QED BY <1>2, <1>5, <1>6, <1>7 DEF Lists
\* A new name goes to the end of the list.
LEMMA AppendFacts ==
  ASSUME NEW s \in Lists, NEW p \in AnyProfile, p.name \notin Names(s)
  PROVE  Append(s, p) \in Lists /\ ToSet(Append(s, p)) = ToSet(s) \cup {p}
<1> DEFINE t == Append(s, p)
<1>1. s \in Seq(AnyProfile) /\ Len(s) \in Nat
  BY DEF Lists
<1>2. /\ t \in Seq(AnyProfile) /\ Len(t) = Len(s) + 1
      /\ \A i \in 1..Len(s) : t[i] = s[i]
      /\ t[Len(s) + 1] = p
  BY <1>1, AppendProperties
<1>3. ToSet(s) = {s[i] : i \in 1..Len(s)}
  BY <1>1, Members
<1>4. \A i \in 1..Len(s) : s[i].name # p.name
  BY <1>3 DEF Names
<1> HIDE DEF t
<1>5. ToSet(t) = {t[i] : i \in 1..Len(t)}
  BY <1>2, Members
<1>6. \A q : q \in ToSet(t) <=> q \in ToSet(s) \/ q = p
  BY <1>1, <1>2, <1>3, <1>5
<1>7. ASSUME NEW i \in 1..Len(t), NEW k \in 1..Len(t), t[i].name = t[k].name
      PROVE  i = k
  <2>1. CASE i <= Len(s) /\ k <= Len(s)
    BY <1>1, <1>2, <1>7, <2>1 DEF Lists
  <2>2. CASE i = Len(s) + 1 /\ k <= Len(s)
    BY <1>1, <1>2, <1>4, <1>7, <2>2
  <2>3. CASE i <= Len(s) /\ k = Len(s) + 1
    BY <1>1, <1>2, <1>4, <1>7, <2>3
  <2>4. CASE i = Len(s) + 1 /\ k = Len(s) + 1
    BY <2>4
  <2> QED BY <1>1, <1>2, <2>1, <2>2, <2>3, <2>4
<1>8. t \in Lists
  BY <1>2, <1>7 DEF Lists
<1> QED BY <1>6, <1>8 DEF t

\* Put is the replacement of whatever has the name.
LEMMA PutFacts ==
  ASSUME NEW s \in Lists, NEW p \in AnyProfile
  PROVE  /\ Put(s, p) \in Lists
         /\ ToSet(Put(s, p)) = {q \in ToSet(s) : q.name # p.name} \cup {p}
<1>1. s \in Seq(AnyProfile) /\ Len(s) \in Nat
  BY DEF Lists
<1>2. ToSet(s) = {s[i] : i \in 1..Len(s)} /\ DOMAIN s = 1..Len(s)
  BY <1>1, Members
<1> DEFINE same == {i \in DOMAIN s : s[i].name = p.name}
<1>3. CASE same = {}
  <2>1. Put(s, p) = Append(s, p)
    BY <1>3 DEF Put
  <2>2. \A q \in ToSet(s) : q.name # p.name
    BY <1>2, <1>3
  <2>3. p.name \notin Names(s)
    BY <2>2 DEF Names
  <2> QED BY <2>1, <2>2, <2>3, AppendFacts
<1>4. CASE same # {}
  <2> DEFINE m == Min(same)
             t == [s EXCEPT ![m] = p]
  <2>1. m \in same
    <3>1. same \subseteq Nat
      BY <1>2
    <3> HIDE DEF same
    <3>2. \E i \in same : \A j \in same : i <= j
      BY <1>4, <3>1, LeastIndex
    <3> QED BY <3>2, Zenon DEF Min
  <2>2. m \in 1..Len(s) /\ s[m].name = p.name
    BY <1>2, <2>1
  <2>3. Put(s, p) = t
    BY <1>4 DEF Put
  <2> HIDE DEF m
  <2>4. /\ t \in Seq(AnyProfile) /\ Len(t) = Len(s)
        /\ \A i \in 1..Len(s) : t[i] = IF i = m THEN p ELSE s[i]
    BY <1>1, <2>2, ExceptSeq
  <2> HIDE DEF t
  <2>5. \A i \in 1..Len(s) : t[i].name = s[i].name
    BY <2>2, <2>4
  <2>6. t \in Lists
    BY <2>4, <2>5 DEF Lists
  <2>7. ToSet(t) = {t[i] : i \in 1..Len(s)}
    BY <2>4, Members
  <2>8. \A i \in 1..Len(s) : s[i].name = p.name => i = m
    BY <2>2 DEF Lists
  <2>9. ASSUME NEW q
        PROVE  q \in ToSet(t) <=> (q \in ToSet(s) /\ q.name # p.name) \/ q = p
    <3>1. ASSUME q \in ToSet(t)
          PROVE  (q \in ToSet(s) /\ q.name # p.name) \/ q = p
      BY <1>2, <2>4, <2>7, <2>8, <3>1
    <3>2. ASSUME q \in ToSet(s), q.name # p.name
          PROVE  q \in ToSet(t)
      BY <1>2, <2>2, <2>4, <2>7, <3>2
    <3>3. p \in ToSet(t)
      BY <2>2, <2>4, <2>7
    <3> QED BY <3>1, <3>2, <3>3
  <2> QED BY <2>3, <2>6, <2>9
<1> QED BY <1>3, <1>4

\* Two lists that share no name are a list together.
LEMMA ConcatFacts ==
  ASSUME NEW s \in Lists, NEW t \in Lists, Names(s) \cap Names(t) = {}
  PROVE  s \o t \in Lists /\ ToSet(s \o t) = ToSet(s) \cup ToSet(t)
<1> DEFINE u == s \o t
<1>1. /\ s \in Seq(AnyProfile) /\ Len(s) \in Nat
      /\ t \in Seq(AnyProfile) /\ Len(t) \in Nat
  BY DEF Lists
<1>2. ToSet(s) = {s[i] : i \in 1..Len(s)} /\ ToSet(t) = {t[i] : i \in 1..Len(t)}
  BY <1>1, Members
<1>3. /\ u \in Seq(AnyProfile) /\ Len(u) = Len(s) + Len(t)
      /\ \A i \in 1..(Len(s) + Len(t)) : u[i] = IF i <= Len(s) THEN s[i] ELSE t[i - Len(s)]
  BY <1>1, ConcatProperties
<1> HIDE DEF u
<1>4. \A i \in 1..Len(s) : i \in 1..Len(u) /\ u[i] = s[i]
  BY <1>1, <1>3
<1>5. \A k \in 1..Len(t) : Len(s) + k \in 1..Len(u) /\ u[Len(s) + k] = t[k]
  <2> TAKE k \in 1..Len(t)
  <2>1. /\ Len(s) + k \in 1..(Len(s) + Len(t)) /\ ~(Len(s) + k <= Len(s))
        /\ (Len(s) + k) - Len(s) = k
    BY <1>1
  <2> QED BY <1>3, <2>1
<1>6. \A i \in 1..Len(u) : i \in 1..Len(s) \/ \E k \in 1..Len(t) : i = Len(s) + k
  <2> TAKE i \in 1..Len(u)
  <2>1. CASE i <= Len(s)
    BY <1>1, <1>3, <2>1
  <2>2. CASE i > Len(s)
    <3>1. i - Len(s) \in 1..Len(t) /\ i = Len(s) + (i - Len(s))
      BY <1>1, <1>3, <2>2
    <3> QED BY <3>1
  <2> QED BY <1>1, <1>3, <2>1, <2>2
<1>7. \A i \in 1..Len(s) : \A k \in 1..Len(t) : s[i].name # t[k].name
  <2>1. \A i \in 1..Len(s) : s[i].name \in Names(s)
    BY <1>2 DEF Names
  <2>2. \A k \in 1..Len(t) : t[k].name \in Names(t)
    BY <1>2 DEF Names
  <2> QED BY <2>1, <2>2
<1>8. ToSet(u) = {u[i] : i \in 1..Len(u)}
  BY <1>3, Members
<1>9. ASSUME NEW q
      PROVE  q \in ToSet(u) <=> q \in ToSet(s) \/ q \in ToSet(t)
  <2>1. ASSUME q \in ToSet(u)
        PROVE  q \in ToSet(s) \/ q \in ToSet(t)
    <3>1. PICK i \in 1..Len(u) : q = u[i]
      BY <1>8, <2>1
    <3>2. CASE i \in 1..Len(s)
      BY <1>2, <1>4, <3>1, <3>2
    <3>3. CASE \E k \in 1..Len(t) : i = Len(s) + k
      BY <1>2, <1>5, <3>1, <3>3
    <3> QED BY <1>6, <3>2, <3>3
  <2>2. ASSUME q \in ToSet(s) \/ q \in ToSet(t)
        PROVE  q \in ToSet(u)
    BY <1>2, <1>4, <1>5, <1>8, <2>2
  <2> QED BY <2>1, <2>2
<1>10. ASSUME NEW i \in 1..Len(u), NEW j \in 1..Len(u), u[i].name = u[j].name
       PROVE  i = j
  <2>1. CASE i \in 1..Len(s) /\ j \in 1..Len(s)
    BY <1>4, <1>10, <2>1 DEF Lists
  <2>2. CASE i \in 1..Len(s) /\ \E k \in 1..Len(t) : j = Len(s) + k
    BY <1>4, <1>5, <1>7, <1>10, <2>2
  <2>3. CASE j \in 1..Len(s) /\ \E k \in 1..Len(t) : i = Len(s) + k
    BY <1>4, <1>5, <1>7, <1>10, <2>3
  <2>4. ASSUME NEW k \in 1..Len(t), NEW l \in 1..Len(t), i = Len(s) + k, j = Len(s) + l
        PROVE  i = j
    <3>1. t[k].name = t[l].name
      BY <1>5, <1>10, <2>4
    <3>2. k = l
      BY <3>1 DEF Lists
    <3> QED BY <2>4, <3>2
  <2> QED BY <1>6, <2>1, <2>2, <2>3, <2>4
<1>11. u \in Lists
  BY <1>3, <1>10 DEF Lists
<1> QED BY <1>9, <1>11 DEF u

\* What stays is what has one of the names.
RetainedStep(s, names, i, u) == IF s[i].name \in names THEN Append(u, s[i]) ELSE u
Retaining(s, names, g) ==
  [i \in 0..Len(s) |-> IF i = 0 THEN <<>> ELSE RetainedStep(s, names, i, g[i - 1])]

\* Whatever satisfies the recursion of Retained, its value does.
LEMMA RetainedIs ==
  ASSUME NEW s, NEW names, NEW g, g = Retaining(s, names, g)
  PROVE  \E h : h = Retaining(s, names, h) /\ Retained(s, names) = h[Len(s)]
  BY Zenon DEF Retained, Retaining, RetainedStep

\* What retain leaves is the members with one of the names.
LEMMA RetainedFacts ==
  ASSUME NEW s \in Lists, NEW names
  PROVE  /\ Retained(s, names) \in Lists
         /\ ToSet(Retained(s, names)) = {q \in ToSet(s) : q.name \in names}
<1>1. s \in Seq(AnyProfile) /\ Len(s) \in Nat
  BY DEF Lists
<1>2. /\ ToSet(s) = {s[i] : i \in 1..Len(s)}
      /\ \A i \in 1..Len(s) : s[i] \in AnyProfile
  BY <1>1, Members
<1> DEFINE T == Seq(AnyProfile)
           G == [i \in 1..Len(s) |-> [u \in T |-> RetainedStep(s, names, i, u)]]
<1>3. G \in [1..Len(s) -> [T -> T]]
  <2>1. \A i \in 1..Len(s) : \A u \in T : RetainedStep(s, names, i, u) \in T
    BY <1>2, AppendProperties DEF RetainedStep
  <2> QED BY <2>1
<1>4. <<>> \in T
  OBVIOUS
<1>5. PICK g \in [0..Len(s) -> T] :
        g[0] = <<>> /\ \A i \in 1..Len(s) : g[i] = G[i][g[i - 1]]
  <2> DEFINE b == <<>>
             N == Len(s)
  <2>1. b \in T /\ N \in Nat /\ G \in [1..N -> [T -> T]]
    BY <1>1, <1>3, <1>4
  <2> HIDE DEF T, G, b, N
  <2>2. \E g \in [0..N -> T] : g[0] = b /\ \A i \in 1..N : g[i] = G[i][g[i - 1]]
    BY <2>1, Chain
  <2> QED BY <2>2 DEF b, N
<1>6. g = Retaining(s, names, g)
  <2>1. ASSUME NEW i \in 1..Len(s)
        PROVE  g[i] = RetainedStep(s, names, i, g[i - 1])
    <3>1. g[i - 1] \in T
      BY <1>1, <1>5
    <3> QED BY <1>5, <3>1
  <2>2. \A i \in 0..Len(s) :
          g[i] = IF i = 0 THEN <<>> ELSE RetainedStep(s, names, i, g[i - 1])
    BY <1>1, <1>5, <2>1
  <2> QED BY <1>5, <2>2 DEF Retaining
<1>7. PICK h : h = Retaining(s, names, h) /\ Retained(s, names) = h[Len(s)]
  BY <1>6, RetainedIs
<1>8. /\ h[0] = <<>>
      /\ \A i \in 1..Len(s) : h[i] = RetainedStep(s, names, i, h[i - 1])
  BY <1>1, <1>7 DEF Retaining
<1> DEFINE Kept(i) == {s[k] : k \in {k \in 1..i : s[k].name \in names}}
           S == {i \in Nat : i <= Len(s) => h[i] \in Lists /\ ToSet(h[i]) = Kept(i)}
<1>9. 0 \in S
  <2>1. <<>> \in Lists /\ ToSet(<<>>) = {}
    BY Members DEF Lists, ToSet
  <2> QED BY <1>8, <2>1
<1>10. ASSUME NEW n \in Nat, n \in S
       PROVE  n + 1 \in S
  <2>1. CASE n + 1 <= Len(s)
    <3>1. h[n] \in Lists /\ ToSet(h[n]) = Kept(n) /\ n + 1 \in 1..Len(s)
      BY <1>1, <1>10, <2>1
    <3>2. h[n + 1] = RetainedStep(s, names, n + 1, h[n])
      <4>1. (n + 1) - 1 = n
        OBVIOUS
      <4> QED BY <1>8, <3>1, <4>1
    <3>3. CASE s[n + 1].name \in names
      <4>1. h[n + 1] = Append(h[n], s[n + 1])
        BY <3>2, <3>3 DEF RetainedStep
      <4>2. \A k \in 1..n : s[k].name # s[n + 1].name
        BY <1>1, <3>1 DEF Lists
      <4>3. s[n + 1].name \notin Names(h[n])
        BY <3>1, <4>2 DEF Names
      <4>4. h[n + 1] \in Lists /\ ToSet(h[n + 1]) = ToSet(h[n]) \cup {s[n + 1]}
        BY <1>2, <3>1, <4>1, <4>3, AppendFacts
      <4>5. Kept(n + 1) = Kept(n) \cup {s[n + 1]}
        BY <3>3
      <4> HIDE DEF Kept
      <4> QED BY <3>1, <4>4, <4>5
    <3>4. CASE s[n + 1].name \notin names
      <4>1. h[n + 1] = h[n]
        BY <3>2, <3>4 DEF RetainedStep
      <4>2. Kept(n + 1) = Kept(n)
        BY <3>4
      <4> HIDE DEF Kept
      <4> QED BY <3>1, <4>1, <4>2
    <3> QED BY <3>3, <3>4
  <2>2. CASE ~(n + 1 <= Len(s))
    BY <2>2
  <2> QED BY <2>1, <2>2
<1>11. Len(s) \in S
  <2> HIDE DEF S
  <2> QED BY <1>1, <1>9, <1>10, Upwards
<1>12. h[Len(s)] \in Lists /\ ToSet(h[Len(s)]) = Kept(Len(s))
  BY <1>1, <1>11
<1>13. Kept(Len(s)) = {q \in ToSet(s) : q.name \in names}
  BY <1>2
<1> HIDE DEF Kept
<1> QED BY <1>7, <1>12, <1>13
(* What a start loads *)

Files == [Name -> AnyProfile \cup {NoFile, Broken}]

\* No file has another profile's name in it.
InPlace(f) == \A s \in Name : Parses(f[s]) => f[s].name = s

Covers(s) == \A ppd \in 1..3 : BuiltIns[ppd].name \in Names(s)

\* A profile that is loaded when the files are in place.
Loads(f, q) ==
  /\ q \in AnyProfile
  /\ IF Parses(f[q.name]) THEN q = f[q.name] ELSE q \in ToSet(BuiltIns)

LoadStep(f, n, s) == IF Parses(f[Stems[n]]) THEN Put(s, f[Stems[n]]) ELSE s
Loading(f, g) ==
  [n \in 0..Len(Stems) |-> IF n = 0 THEN BuiltIns ELSE LoadStep(f, n, g[n - 1])]

\* Whatever satisfies the recursion of LoadFrom, its value does.
LEMMA LoadedIs ==
  ASSUME NEW f, NEW g, g = Loading(f, g)
  PROVE  \E h : h = Loading(f, h) /\ LoadFrom(f) = h[Len(Stems)]
  BY Zenon DEF LoadFrom, Loading, LoadStep

\* Every name is a file's.
LEMMA StemFacts ==
  /\ Len(Stems) \in Nat /\ \A n \in 1..Len(Stems) : Stems[n] \in Name
  /\ \A m \in Name : \E n \in 1..Len(Stems) : Stems[n] = m
<1>1. Stems \in Seq(Name) /\ ToSet(Stems) = Name
  BY StoreAssumption
<1>2. Len(Stems) \in Nat /\ DOMAIN Stems = 1..Len(Stems)
  BY <1>1
<1> QED BY <1>1, <1>2 DEF ToSet

LEMMA ParsesFacts ==
  ASSUME NEW f \in Files, NEW m \in Name, Parses(f[m])
  PROVE  f[m] \in AnyProfile
  BY DEF Files, Parses

\* Nothing that is put into a list takes a built-in's name from it.
LEMMA CoversPut ==
  ASSUME NEW s \in Lists, Covers(s), NEW p \in AnyProfile
  PROVE  Put(s, p) \in Lists /\ Covers(Put(s, p))
<1>1. /\ Put(s, p) \in Lists
      /\ ToSet(Put(s, p)) = {q \in ToSet(s) : q.name # p.name} \cup {p}
  BY PutFacts
<1>2. ASSUME NEW ppd \in 1..3
      PROVE  \E q \in ToSet(Put(s, p)) : BuiltIns[ppd].name = q.name
  <2>1. PICK q \in ToSet(s) : BuiltIns[ppd].name = q.name
    BY DEF Covers, Names
  <2> QED BY <1>1, <2>1
<1> QED BY <1>1, <1>2 DEF Covers, Names

\* The lists a start goes through, file by file.
LEMMA LoadChain ==
  ASSUME NEW f \in Files
  PROVE  \E h : /\ LoadFrom(f) = h[Len(Stems)] /\ h[0] = BuiltIns
                /\ \A n \in 0..Len(Stems) : h[n] \in Lists /\ Covers(h[n])
                /\ \A n \in 1..Len(Stems) : h[n] = LoadStep(f, n, h[n - 1])
<1> DEFINE N == Len(Stems)
           T == {s \in Lists : Covers(s)}
           G == [n \in 1..N |-> [s \in T |-> LoadStep(f, n, s)]]
<1>1. N \in Nat /\ \A n \in 1..N : Stems[n] \in Name
  BY StemFacts
<1>2. BuiltIns \in T
  BY BuiltInsFacts DEF Covers, Names
<1>3. ASSUME NEW n \in 1..N, NEW s \in T
      PROVE  LoadStep(f, n, s) \in T
  <2>1. CASE Parses(f[Stems[n]])
    <3>1. Stems[n] \in Name
      BY <1>1
    <3>2. f[Stems[n]] \in AnyProfile
      BY <2>1, <3>1, ParsesFacts
    <3> QED BY <2>1, <3>2, CoversPut DEF LoadStep
  <2>2. CASE ~Parses(f[Stems[n]])
    BY <2>2 DEF LoadStep
  <2> QED BY <2>1, <2>2
<1>4. G \in [1..N -> [T -> T]]
  <2> HIDE DEF T
  <2> QED BY <1>3
<1>5. PICK g \in [0..N -> T] : g[0] = BuiltIns /\ \A n \in 1..N : g[n] = G[n][g[n - 1]]
  <2>1. N \in Nat /\ BuiltIns \in T /\ G \in [1..N -> [T -> T]]
    BY <1>1, <1>2, <1>4
  <2> HIDE DEF N, T, G
  <2> QED BY <2>1, Chain
<1> HIDE DEF T
<1>6. ASSUME NEW n \in 1..N
      PROVE  g[n] = LoadStep(f, n, g[n - 1])
  <2>1. g[n - 1] \in T
    BY <1>1, <1>5
  <2> QED BY <1>5, <2>1
<1>7. g = Loading(f, g)
  <2>1. \A n \in 0..N : g[n] = IF n = 0 THEN BuiltIns ELSE LoadStep(f, n, g[n - 1])
    BY <1>1, <1>5, <1>6
  <2> QED BY <1>5, <2>1 DEF Loading
<1>8. PICK h : h = Loading(f, h) /\ LoadFrom(f) = h[N]
  BY <1>7, LoadedIs
<1>9. h[0] = BuiltIns /\ \A n \in 1..N : h[n] = LoadStep(f, n, h[n - 1])
  BY <1>1, <1>8 DEF Loading
<1> DEFINE S == {n \in Nat : n <= N => h[n] \in T}
<1>10. 0 \in S
  BY <1>2, <1>9
<1>11. ASSUME NEW n \in Nat, n \in S
       PROVE  n + 1 \in S
  <2>1. CASE n + 1 <= N
    <3>1. h[n] \in T /\ n + 1 \in 1..N /\ (n + 1) - 1 = n
      BY <1>1, <1>11, <2>1
    <3>2. h[n + 1] = LoadStep(f, n + 1, h[n])
      BY <1>9, <3>1
    <3> QED BY <1>3, <3>1, <3>2
  <2>2. CASE ~(n + 1 <= N)
    BY <2>2
  <2> QED BY <2>1, <2>2
<1>12. \A n \in 0..N : h[n] \in T
  <2>1. Nat \subseteq S
    <3> HIDE DEF S
    <3> QED BY <1>10, <1>11, Upwards
  <2> QED BY <1>1, <2>1
<1>13. \A n \in 0..N : h[n] \in Lists /\ Covers(h[n])
  BY <1>12 DEF T
<1> QED BY <1>8, <1>9, <1>13

\* A start knows every built-in's name, and no name twice, whatever is in the files.
LEMMA LoadType ==
  ASSUME NEW f \in Files
  PROVE  LoadFrom(f) \in Lists /\ Covers(LoadFrom(f))
<1>1. PICK h : /\ LoadFrom(f) = h[Len(Stems)]
               /\ \A n \in 0..Len(Stems) : h[n] \in Lists /\ Covers(h[n])
  BY LoadChain
<1>2. Len(Stems) \in 0..Len(Stems)
  BY StemFacts
<1> QED BY <1>1, <1>2

\* With every file in place the order of the files does not matter.
LEMMA LoadMembers ==
  ASSUME NEW f \in Files, InPlace(f)
  PROVE  \A q : q \in ToSet(LoadFrom(f)) <=> Loads(f, q)
<1> DEFINE N == Len(Stems)
<1>1. /\ N \in Nat /\ \A n \in 1..N : Stems[n] \in Name
      /\ \A m \in Name : \E n \in 1..N : Stems[n] = m
  BY StemFacts
<1>2. PICK h : /\ LoadFrom(f) = h[N] /\ h[0] = BuiltIns
               /\ \A n \in 0..N : h[n] \in Lists /\ Covers(h[n])
               /\ \A n \in 1..N : h[n] = LoadStep(f, n, h[n - 1])
  BY LoadChain
<1> DEFINE Read(n) == {Stems[k] : k \in 1..n}
           InIt(n, q) == /\ q \in AnyProfile
                         /\ IF q.name \in Read(n) /\ Parses(f[q.name])
                            THEN q = f[q.name] ELSE q \in ToSet(BuiltIns)
           S == {n \in Nat : n <= N => \A q : q \in ToSet(h[n]) <=> InIt(n, q)}
<1>3. 0 \in S
  <2>1. BuiltIns \in Seq(AnyProfile)
    BY BuiltInsFacts DEF Lists
  <2>2. ToSet(BuiltIns) \subseteq AnyProfile
    BY <2>1, Members
  <2>3. Read(0) = {}
    OBVIOUS
  <2> HIDE DEF Read
  <2> QED BY <1>2, <2>2, <2>3
<1>4. ASSUME NEW n \in Nat, n \in S
      PROVE  n + 1 \in S
  <2>1. CASE n + 1 <= N
    <3> DEFINE m == Stems[n + 1]
    <3>1. /\ \A q : q \in ToSet(h[n]) <=> InIt(n, q)
          /\ n + 1 \in 1..N /\ n \in 0..N /\ (n + 1) - 1 = n
      BY <1>1, <1>4, <2>1
    <3>2. h[n + 1] = LoadStep(f, n + 1, h[n]) /\ m \in Name /\ h[n] \in Lists
      BY <1>1, <1>2, <3>1
    <3>3. Read(n + 1) = Read(n) \cup {m}
      OBVIOUS
    <3> HIDE DEF Read, m
    <3>4. CASE Parses(f[m])
      <4>1. f[m] \in AnyProfile /\ f[m].name = m
        BY <3>2, <3>4, ParsesFacts DEF InPlace
      <4>2. h[n + 1] = Put(h[n], f[m])
        BY <3>2, <3>4 DEF LoadStep, m
      <4>3. ToSet(h[n + 1]) = {q \in ToSet(h[n]) : q.name # m} \cup {f[m]}
        BY <3>2, <4>1, <4>2, PutFacts
      <4>4. ASSUME NEW q
            PROVE  q \in ToSet(h[n + 1]) <=> InIt(n + 1, q)
        <5>1. CASE q \in AnyProfile /\ q.name = m
          BY <3>3, <3>4, <4>1, <4>3, <5>1
        <5>2. CASE q \in AnyProfile /\ q.name # m
          BY <3>1, <3>3, <4>1, <4>3, <5>2
        <5>3. CASE q \notin AnyProfile
          BY <3>1, <4>1, <4>3, <5>3
        <5> QED BY <5>1, <5>2, <5>3
      <4> QED BY <4>4
    <3>5. CASE ~Parses(f[m])
      <4>1. h[n + 1] = h[n]
        BY <3>2, <3>5 DEF LoadStep, m
      <4>2. \A q : InIt(n + 1, q) <=> InIt(n, q)
        BY <3>3, <3>5
      <4> QED BY <3>1, <4>1, <4>2
    <3> QED BY <3>4, <3>5
  <2>2. CASE ~(n + 1 <= N)
    BY <2>2
  <2> QED BY <2>1, <2>2
<1>5. \A q : q \in ToSet(h[N]) <=> InIt(N, q)
  <2>1. N \in S
    <3> HIDE DEF S
    <3> QED BY <1>1, <1>3, <1>4, Upwards
  <2> QED BY <1>1, <2>1
<1>6. Read(N) = Name
  BY <1>1
<1>7. \A q : InIt(N, q) <=> Loads(f, q)
  <2>1. \A q \in AnyProfile : q.name \in Name
    BY DEF AnyProfile
  <2> HIDE DEF Read
  <2> QED BY <1>6, <2>1 DEF Loads
<1> QED BY <1>2, <1>5, <1>7
(* The store *)

Pending == [name : Name \cup {""}, ppd : 0..3, watts : Nat, curve : Tag]

\* Where a call can be, and what of its profile has been checked by then.
Calls ==
  {c \in [pc : {"idle", "ppd", "prompt", "learn", "forget"}, p : Pending] :
     /\ c.pc \in {"ppd", "prompt", "learn"} => c.p \in AnyProfile
     /\ c.pc \in {"prompt", "learn"} => ValidProfile(c.p)
     /\ c.pc = "forget" => c.p.name \in Simple}

StoreType ==
  /\ folder \in Files /\ known \in Lists /\ Covers(known) /\ storeUp \in BOOLEAN
  /\ machine \in [ppd : 1..3, watts : Nat, curve : Tag]
  /\ storeCall \in [StoreClient -> Calls]
  /\ astray \in BOOLEAN

LEMMA ProfileFacts ==
  ASSUME NEW n \in Name \cup {""}, NEW x \in 0..3, NEW w \in Nat, NEW k \in Tag
  PROVE  /\ Profile(n, x, w, k) \in Pending /\ Profile(n, x, w, k).name = n
         /\ n \in Name /\ x \in 1..3 => Profile(n, x, w, k) \in AnyProfile
<1>1. Profile(n, x, w, k).name = n
  BY DEF Profile
<1>2. Profile(n, x, w, k) \in Pending
  BY DEF Profile, Pending
<1>3. ASSUME n \in Name, x \in 1..3
      PROVE  Profile(n, x, w, k) \in AnyProfile
  BY <1>3 DEF Profile, AnyProfile
<1> QED BY <1>1, <1>2, <1>3

LEMMA AnyIsPending == AnyProfile \subseteq Pending
<1>1. ASSUME NEW p \in AnyProfile
      PROVE  p \in Pending
  <2>1. p.name \in Name /\ p.ppd \in 1..3 /\ p.watts \in Nat /\ p.curve \in Tag
    BY DEF AnyProfile
  <2>2. p = [name |-> p.name, ppd |-> p.ppd, watts |-> p.watts, curve |-> p.curve]
    BY DEF AnyProfile
  <2>3. p.name \in Name \cup {""}
    BY <2>1, Zenon
  <2>4. p.ppd \in 0..3
    BY <2>1
  <2> QED BY <2>1, <2>2, <2>3, <2>4 DEF Pending
<1> QED BY <1>1

LEMMA IdleFacts == NoStoreCall \in Calls /\ NoStoreCall.pc = "idle"
<1>1. Profile("", 0, 0, "none") \in Pending
  <2>1. "" \in Name \cup {""} /\ 0 \in 0..3 /\ 0 \in Nat /\ "none" \in Tag
    BY DEF Tag
  <2> QED BY <2>1, ProfileFacts
<1> QED BY <1>1 DEF NoStoreCall, Calls

LEMMA CallFacts ==
  ASSUME NEW t \in StoreClient, storeCall \in [StoreClient -> Calls]
  PROVE  /\ storeCall[t] \in Calls /\ storeCall[t].p \in Pending
         /\ storeCall[t].pc \in {"ppd", "prompt", "learn"} => storeCall[t].p \in AnyProfile
         /\ storeCall[t].pc \in {"prompt", "learn"} => ValidProfile(storeCall[t].p)
         /\ storeCall[t].pc = "forget" => storeCall[t].p.name \in Simple
<1>1. storeCall[t] \in Calls
  OBVIOUS
<1> QED BY <1>1 DEF Calls

\* A call goes on, and no other does.
LEMMA ToStoreFacts ==
  ASSUME NEW t \in StoreClient, storeCall \in [StoreClient -> Calls], NEW pc, NEW p,
         [pc |-> pc, p |-> p] \in Calls, ToStore(t, pc, p)
  PROVE  /\ storeCall' \in [StoreClient -> Calls]
         /\ storeCall'[t].pc = pc /\ storeCall'[t].p = p
         /\ \A u \in StoreClient \ {t} : storeCall'[u] = storeCall[u]
  BY DEF ToStore

\* A call is over, and no other is touched.
LEMMA EndStoreFacts ==
  ASSUME NEW t \in StoreClient, storeCall \in [StoreClient -> Calls], EndStore(t)
  PROVE  /\ storeCall' \in [StoreClient -> Calls] /\ storeCall'[t].pc = "idle"
         /\ \A u \in StoreClient \ {t} : storeCall'[u] = storeCall[u]
  BY IdleFacts DEF EndStore

\* A file is changed.
LEMMA FolderFacts ==
  ASSUME NEW m \in Name, NEW f \in AnyProfile \cup {NoFile, Broken}, folder \in Files
  PROVE  [folder EXCEPT ![m] = f] \in Files
  BY DEF Files

LEMMA ForPpdFacts == \A ppd \in 1..3 : ForPpd(ppd) \in AnyProfile
<1>1. BuiltIns \in Seq(AnyProfile) /\ Len(BuiltIns) = 3
  BY BuiltInsFacts DEF Lists
<1>2. \A ppd \in 1..3 : BuiltIns[ppd] \in AnyProfile
  BY <1>1, ElementOfSeq
<1> QED BY <1>2 DEF ForPpd

\* A file cut short is broken, or a profile with another curve.
LEMMA CutFacts ==
  ASSUME NEW p \in AnyProfile
  PROVE  CutShort(p) \subseteq AnyProfile \cup {NoFile, Broken}
<1>1. [p EXCEPT !.curve = "cut"] \in AnyProfile
  BY DEF AnyProfile, Tag
<1> QED BY <1>1 DEF CutShort

\* What the profile would be that SaveProfile captures.
LEMMA CaptureFacts ==
  ASSUME StoreType, NEW t \in StoreClient, storeCall[t].pc = "ppd"
  PROVE  LET p == [storeCall[t].p EXCEPT
                     !.watts = machine.watts,
                     !.curve = IF machine.curve = "none"
                                 THEN ForPpd(storeCall[t].p.ppd).curve ELSE machine.curve]
         IN p \in AnyProfile
<1> DEFINE q == storeCall[t].p
<1>1. q \in AnyProfile
  BY CallFacts DEF StoreType
<1>2. q.ppd \in 1..3 /\ machine.watts \in Nat /\ machine.curve \in Tag
  BY <1>1 DEF StoreType, AnyProfile
<1>3. ForPpd(q.ppd).curve \in Tag
  <2>1. ForPpd(q.ppd) \in AnyProfile
    BY <1>2, ForPpdFacts
  <2> QED BY <2>1 DEF AnyProfile
<1> DEFINE k == IF machine.curve = "none" THEN ForPpd(q.ppd).curve ELSE machine.curve
<1>4. k \in Tag
  BY <1>2, <1>3
<1> HIDE DEF q, k
<1>5. [q EXCEPT !.watts = machine.watts, !.curve = k] \in AnyProfile
  BY <1>1, <1>2, <1>4 DEF AnyProfile
<1> QED BY <1>5 DEF q, k

\* The deleted profile goes and the built-in of its name, if there is one, comes back.
LEMMA WithoutFacts ==
  ASSUME NEW s \in Lists, Covers(s), NEW n \in Name
  PROVE  /\ KnownWithout(s, n) \in Lists /\ Covers(KnownWithout(s, n))
         /\ \A q : q \in ToSet(KnownWithout(s, n)) <=>
                     IF q.name = n THEN q \in ToSet(BuiltIns) ELSE q \in ToSet(s)
<1> DEFINE a == Retained(s, Name \ {n})
           b == Retained(BuiltIns, {n})
<1>1. /\ s \in Seq(AnyProfile) /\ ToSet(s) \subseteq AnyProfile
      /\ \A q \in ToSet(s) : q.name \in Name
  <2>1. s \in Seq(AnyProfile) /\ ToSet(s) \subseteq AnyProfile
    BY Members DEF Lists
  <2> QED BY <2>1 DEF AnyProfile
<1>2. a \in Lists /\ ToSet(a) = {q \in ToSet(s) : q.name \in Name \ {n}}
  BY RetainedFacts
<1>3. b \in Lists /\ ToSet(b) = {q \in ToSet(BuiltIns) : q.name \in {n}}
  BY BuiltInsFacts, RetainedFacts
<1> HIDE DEF a, b
<1>4. Names(a) \cap Names(b) = {}
  BY <1>2, <1>3 DEF Names
<1>5. a \o b \in Lists /\ ToSet(a \o b) = ToSet(a) \cup ToSet(b)
  BY <1>2, <1>3, <1>4, ConcatFacts
<1>6. KnownWithout(s, n) = a \o b
  BY DEF KnownWithout, a, b
<1>7. \A q : q \in ToSet(KnownWithout(s, n)) <=>
             IF q.name = n THEN q \in ToSet(BuiltIns) ELSE q \in ToSet(s)
  BY <1>1, <1>2, <1>3, <1>5, <1>6
<1>8. ASSUME NEW ppd \in 1..3
      PROVE  \E q \in ToSet(KnownWithout(s, n)) : BuiltIns[ppd].name = q.name
  <2>1. CASE BuiltIns[ppd].name = n
    BY <1>7, <2>1, BuiltInsFacts
  <2>2. CASE BuiltIns[ppd].name # n
    <3>1. PICK q \in ToSet(s) : BuiltIns[ppd].name = q.name
      BY DEF Covers, Names
    <3> QED BY <1>7, <2>2, <3>1
  <2> QED BY <2>1, <2>2
<1> QED BY <1>5, <1>6, <1>7, <1>8 DEF Covers, Names
LEMMA StoreInitType == StoreInit => StoreType
<1> SUFFICES ASSUME StoreInit PROVE StoreType
  OBVIOUS
<1>1. folder \in Files
  BY DEF StoreInit, Files
<1>2. known \in Lists /\ Covers(known)
  BY BuiltInsFacts DEF StoreInit, Covers, Names
<1>3. machine \in [ppd : 1..3, watts : Nat, curve : Tag]
  <2>1. ForPpd(1) \in AnyProfile /\ "none" \in Tag
    BY ForPpdFacts DEF Tag
  <2>2. ForPpd(1).watts \in Nat
    BY <2>1 DEF AnyProfile
  <2> QED BY <2>1, <2>2 DEF StoreInit
<1>4. storeCall \in [StoreClient -> Calls]
  BY IdleFacts DEF StoreInit
<1> QED BY <1>1, <1>2, <1>3, <1>4 DEF StoreInit, StoreType

LEMMA StoreTypeStep == StoreType /\ [StoreNext]_storeVars => StoreType'
<1> SUFFICES ASSUME StoreType, [StoreNext]_storeVars PROVE StoreType'
  OBVIOUS
<1>1. CASE StoreStart
  BY <1>1, LoadType DEF StoreStart, StoreType
<1>2. CASE StoreCrash
  <2>1. folder' \in Files
    <3>1. ASSUME NEW t \in Halfway, storeCall[t].pc = "learn",
                 NEW f \in CutShort(storeCall[t].p),
                 folder' = [folder EXCEPT ![storeCall[t].p.name] = f]
          PROVE  folder' \in Files
      <4>1. storeCall[t].p \in AnyProfile
        BY <3>1, CallFacts DEF StoreType, Halfway
      <4>2. f \in AnyProfile \cup {NoFile, Broken} /\ storeCall[t].p.name \in Name
        BY <4>1, CutFacts DEF AnyProfile
      <4> QED BY <3>1, <4>2, FolderFacts DEF StoreType
    <3> QED BY <1>2, <3>1 DEF StoreCrash, StoreType
  <2>2. storeCall' \in [StoreClient -> Calls]
    BY <1>2, IdleFacts DEF StoreCrash
  <2> QED BY <1>2, <2>1, <2>2 DEF StoreCrash, StoreType
<1>3. CASE MachineMoves
  BY <1>3, StoreAssumption DEF MachineMoves, StoreType
<1>4. ASSUME NEW s \in Touched, EditByHand(s)
      PROVE  StoreType'
  <2>1. s \in Name /\ ByHand \cup {NoFile, Broken} \subseteq AnyProfile \cup {NoFile, Broken}
    BY StoreAssumption
  <2>2. PICK f \in ByHand \cup {NoFile, Broken} : folder' = [folder EXCEPT ![s] = f]
    BY <1>4 DEF EditByHand
  <2>3. folder' \in Files
    BY <2>1, <2>2, FolderFacts DEF StoreType
  <2> QED BY <1>4, <2>3 DEF EditByHand, StoreType
<1>5. ASSUME NEW t \in StoreClient, NEW n \in Touched, SaveAsk(t, n)
      PROVE  StoreType'
  <2> DEFINE p == Profile(n, machine.ppd, 0, "none")
  <2>1. p \in AnyProfile
    <3>1. n \in Name /\ machine.ppd \in 1..3 /\ machine.ppd \in 0..3 /\ "none" \in Tag
      BY StoreAssumption DEF StoreType, Tag
    <3> QED BY <3>1, ProfileFacts
  <2> HIDE DEF p
  <2>2. [pc |-> "ppd", p |-> p] \in Calls
    BY <2>1, AnyIsPending DEF Calls
  <2>3. storeCall' \in [StoreClient -> Calls]
    BY <1>5, <2>2, ToStoreFacts DEF SaveAsk, StoreType, p
  <2> QED BY <1>5, <2>3 DEF SaveAsk, StoreType
<1>6. ASSUME NEW t \in StoreClient, NEW n \in Touched, DeleteFile(t, n)
      PROVE  StoreType'
  <2> DEFINE p == Profile(n, 0, 0, "none")
  <2>1. p \in Pending /\ p.name \in Simple /\ n \in Name
    <3>1. n \in Simple /\ n \in Name /\ "none" \in Tag
      BY <1>6, StoreAssumption DEF DeleteFile, Tag
    <3>2. n \in Name \cup {""}
      BY <3>1, Zenon
    <3>3. 0 \in 0..3 /\ 0 \in Nat
      OBVIOUS
    <3> QED BY <3>1, <3>2, <3>3, ProfileFacts
  <2> HIDE DEF p
  <2>2. [pc |-> "forget", p |-> p] \in Calls
    BY <2>1 DEF Calls
  <2>3. storeCall' \in [StoreClient -> Calls]
    BY <1>6, <2>2, ToStoreFacts DEF DeleteFile, StoreType, p
  <2>4. folder' \in Files
    BY <1>6, <2>1, FolderFacts DEF DeleteFile, StoreType
  <2>5. astray' \in BOOLEAN
    BY <1>6, Zenon DEF DeleteFile, Disturbed, Misnamed, StoreType
  <2> QED BY <1>6, <2>3, <2>4, <2>5 DEF DeleteFile, StoreType
<1>7. ASSUME NEW t \in StoreClient, SaveCapture(t)
      PROVE  StoreType'
  <2> DEFINE p == [storeCall[t].p EXCEPT
                     !.watts = machine.watts,
                     !.curve = IF machine.curve = "none"
                                 THEN ForPpd(storeCall[t].p.ppd).curve ELSE machine.curve]
  <2>1. p \in AnyProfile
    BY <1>7, CaptureFacts DEF SaveCapture
  <2>2. (ValidProfile(p) /\ ToStore(t, "prompt", p)) \/ EndStore(t)
    BY <1>7, Zenon DEF SaveCapture
  <2> HIDE DEF p
  <2>3. ASSUME ValidProfile(p), ToStore(t, "prompt", p)
        PROVE  storeCall' \in [StoreClient -> Calls]
    <3>1. [pc |-> "prompt", p |-> p] \in Calls
      BY <2>1, <2>3, AnyIsPending DEF Calls
    <3> QED BY <2>3, <3>1, ToStoreFacts DEF StoreType
  <2>4. ASSUME EndStore(t)
        PROVE  storeCall' \in [StoreClient -> Calls]
    BY <2>4, EndStoreFacts DEF StoreType
  <2> QED BY <1>7, <2>2, <2>3, <2>4 DEF SaveCapture, StoreType
<1>8. ASSUME NEW t \in StoreClient, SaveFile(t)
      PROVE  StoreType'
  <2> DEFINE p == storeCall[t].p
  <2>1. p \in AnyProfile /\ ValidProfile(p) /\ p.name \in Name
    <3>1. p \in AnyProfile /\ ValidProfile(p)
      BY <1>8, CallFacts DEF SaveFile, StoreType
    <3> QED BY <3>1 DEF AnyProfile
  <2> HIDE DEF p
  <2>2. CASE EndStore(t) /\ UNCHANGED <<folder, astray, storeBudget>>
    BY <1>8, <2>2, EndStoreFacts DEF SaveFile, StoreType
  <2>3. ASSUME folder' = [folder EXCEPT ![p.name] = p],
               astray' = (astray \/ Disturbed(p.name)), ToStore(t, "learn", p)
        PROVE  StoreType'
    <3>1. folder' \in Files
      BY <2>1, <2>3, FolderFacts DEF StoreType
    <3>2. [pc |-> "learn", p |-> p] \in Calls
      BY <2>1, AnyIsPending DEF Calls
    <3>3. storeCall' \in [StoreClient -> Calls]
      BY <2>3, <3>2, ToStoreFacts DEF StoreType
    <3>4. astray' \in BOOLEAN
      BY <2>3, Zenon DEF Disturbed, Misnamed, StoreType
    <3> QED BY <1>8, <3>1, <3>3, <3>4 DEF SaveFile, StoreType
  <2>4. ASSUME NEW f \in CutShort(p), folder' = [folder EXCEPT ![p.name] = f],
               astray' = TRUE, EndStore(t)
        PROVE  StoreType'
    <3>1. folder' \in Files
      <4>1. f \in AnyProfile \cup {NoFile, Broken}
        BY <2>1, CutFacts
      <4> QED BY <2>1, <2>4, <4>1, FolderFacts DEF StoreType
    <3> QED BY <1>8, <2>4, <3>1, EndStoreFacts DEF SaveFile, StoreType
  <2> QED BY <1>8, <2>2, <2>3, <2>4 DEF SaveFile, p
<1>9. ASSUME NEW t \in StoreClient, SaveKnown(t)
      PROVE  StoreType'
  <2>1. storeCall[t].p \in AnyProfile
    BY <1>9, CallFacts DEF SaveKnown, StoreType
  <2>2. known' \in Lists /\ Covers(known')
    BY <1>9, <2>1, CoversPut DEF SaveKnown, StoreType
  <2> QED BY <1>9, <2>2, EndStoreFacts DEF SaveKnown, StoreType
<1>10. ASSUME NEW t \in StoreClient, DeleteKnown(t)
       PROVE  StoreType'
  <2>1. storeCall[t].p.name \in Name
    BY <1>10, CallFacts DEF DeleteKnown, StoreType, Name
  <2>2. known' \in Lists /\ Covers(known')
    BY <1>10, <2>1, WithoutFacts DEF DeleteKnown, StoreType
  <2> QED BY <1>10, <2>2, EndStoreFacts DEF DeleteKnown, StoreType
<1>11. CASE UNCHANGED storeVars
  BY <1>11 DEF storeVars, StoreType
<1> QED
  BY <1>1, <1>2, <1>3, <1>4, <1>5, <1>6, <1>7, <1>8, <1>9, <1>10, <1>11 DEF StoreNext

\* A built-in's name has a profile, and only one, after any saves, deletions, failures,
\* crashes and edits of the files (load_from, delete_profile).
THEOREM BuiltInsSafe == StoreSpec => []BuiltInsKnown
<1>1. StoreType => BuiltInsKnown
  <2> SUFFICES ASSUME StoreType, NEW ppd \in 1..3
               PROVE  \E i \in DOMAIN known : \A j \in DOMAIN known :
                        known[j].name = ForPpd(ppd).name <=> j = i
    BY DEF BuiltInsKnown
  <2>1. known \in Seq(AnyProfile) /\ DOMAIN known = 1..Len(known)
    BY DEF StoreType, Lists
  <2>2. ToSet(known) = {known[i] : i \in 1..Len(known)}
    BY <2>1, Members
  <2>3. PICK q \in ToSet(known) : q.name = ForPpd(ppd).name
    BY DEF StoreType, Covers, Names, ForPpd
  <2>4. PICK i \in 1..Len(known) : q = known[i]
    BY <2>2, <2>3
  <2> QED BY <2>1, <2>3, <2>4 DEF StoreType, Lists
<1> QED BY StoreInitType, StoreTypeStep, <1>1, PTL DEF StoreSpec
\* KnownIsWhatLoads says nothing while calls are between their file and `known`.  Then the
\* files are in place, each such call has a name of its own and its file as it wants it,
\* and the profiles of all other names are known as they would load.
Apart ==
  /\ InPlace(folder)
  /\ \A t \in Halfway : \A u \in Halfway :
       storeCall[t].p.name = storeCall[u].p.name => t = u
  /\ \A t \in Halfway :
       folder[storeCall[t].p.name] =
         IF storeCall[t].pc = "learn" THEN storeCall[t].p ELSE NoFile
  /\ \A q \in AnyProfile :
       (\A t \in Halfway : storeCall[t].p.name # q.name) =>
         (q \in ToSet(known) <=> Loads(folder, q))

Fresh == Halfway = {} /\ ToSet(known) = ToSet(LoadFrom(folder))

AlikeInv ==
  /\ StoreType
  /\ ~storeUp => \A t \in StoreClient : storeCall[t].pc = "idle"
  /\ storeUp /\ ~astray => Fresh \/ Apart

LEMMA MisnamedFacts == Misnamed <=> ~InPlace(folder)
  BY DEF Misnamed, InPlace

\* A fresh start with every file in place is apart from no call.
LEMMA FreshIsApart ==
  ASSUME StoreType, Fresh, InPlace(folder)
  PROVE  Apart
<1>1. \A q : q \in ToSet(known) <=> Loads(folder, q)
  BY LoadMembers DEF StoreType, Fresh
<1> QED BY <1>1 DEF Apart, Fresh

\* With no call half-way, apart means alike.
LEMMA ApartIsAlike ==
  ASSUME StoreType, Apart, Halfway = {}
  PROVE  ToSet(known) = ToSet(LoadFrom(folder))
<1>1. \A q : q \in ToSet(LoadFrom(folder)) <=> Loads(folder, q)
  BY LoadMembers DEF StoreType, Apart
<1>2. ToSet(known) \subseteq AnyProfile
  BY Members DEF StoreType, Lists
<1>3. \A q \in AnyProfile : q \in ToSet(known) <=> Loads(folder, q)
  BY DEF Apart
<1> QED BY <1>1, <1>2, <1>3 DEF Loads

\* What is not loaded from a file is the built-in.
LEMMA NoFileFacts == ~Parses(NoFile) /\ ~Parses(Broken)
  BY DEF Parses

\* A valid profile is one that its file loads as.
LEMMA SavedParses ==
  ASSUME NEW p \in AnyProfile, ValidProfile(p)
  PROVE  Parses(p)
  BY StoreAssumption DEF Parses

LEMMA AlikeInit == StoreInit => AlikeInv
<1> SUFFICES ASSUME StoreInit PROVE AlikeInv
  OBVIOUS
<1>1. \A t \in StoreClient : storeCall[t].pc = "idle"
  BY IdleFacts DEF StoreInit
<1> QED BY <1>1, StoreInitType DEF StoreInit, AlikeInv

\* Nothing that these say changes.
LEMMA AlikeFrame ==
  ASSUME AlikeInv, StoreType', UNCHANGED <<folder, known, astray>>, Halfway' = Halfway,
         \A t \in Halfway : storeCall'[t] = storeCall[t],
         storeUp' = storeUp, storeUp \/ storeCall' = storeCall
  PROVE  AlikeInv'
<1>1. Fresh => Fresh'
  BY DEF Fresh
<1>2. Apart => Apart'
  BY DEF Apart
<1> QED BY <1>1, <1>2 DEF AlikeInv

\* A call comes to its file: the file m becomes f, and the call is half-way.
LEMMA FileWritten ==
  ASSUME AlikeInv, StoreType', NEW t \in StoreClient, t \notin Halfway,
         NEW m \in Name, NEW f, folder' = [folder EXCEPT ![m] = f],
         astray' = (astray \/ Disturbed(m)), known' = known, storeUp, storeUp' = storeUp,
         storeCall'[t].pc \in {"learn", "forget"}, storeCall'[t].p.name = m,
         \A u \in StoreClient \ {t} : storeCall'[u] = storeCall[u],
         f = IF storeCall'[t].pc = "learn" THEN storeCall'[t].p ELSE NoFile
  PROVE  AlikeInv'
<1>1. Halfway' = Halfway \cup {t}
  BY DEF Halfway
<1>2. ASSUME ~astray'
      PROVE  Apart'
  <2>1. ~astray /\ ~Misnamed /\ \A u \in Halfway : storeCall[u].p.name # m
    BY <1>2 DEF Disturbed
  <2>2. Apart
    BY <2>1, MisnamedFacts, FreshIsApart DEF AlikeInv
  <2>3. folder \in Files /\ folder'[m] = f /\ \A n \in Name \ {m} : folder'[n] = folder[n]
    BY DEF AlikeInv, StoreType, Files
  <2>4. InPlace(folder')
    <3>1. Parses(f) => f.name = m
      BY NoFileFacts
    <3> QED BY <2>2, <2>3, <3>1 DEF Apart, InPlace
  <2>5. \A u \in Halfway : storeCall'[u] = storeCall[u] /\ u # t
    BY DEF Halfway
  <2>6. ASSUME NEW u \in Halfway', NEW v \in Halfway',
               storeCall'[u].p.name = storeCall'[v].p.name
        PROVE  u = v
    BY <1>1, <2>1, <2>2, <2>5, <2>6 DEF Apart
  <2>7. ASSUME NEW u \in Halfway'
        PROVE  folder'[storeCall'[u].p.name] =
                 IF storeCall'[u].pc = "learn" THEN storeCall'[u].p ELSE NoFile
    <3>1. CASE u = t
      BY <2>3, <3>1
    <3>2. CASE u \in Halfway
      <4>1. storeCall[u].p.name \in Name
        BY <3>2, CallFacts DEF AlikeInv, StoreType, Halfway, AnyProfile, Name
      <4> QED BY <2>1, <2>2, <2>3, <2>5, <3>2, <4>1 DEF Apart
    <3> QED BY <1>1, <3>1, <3>2
  <2>8. ASSUME NEW q \in AnyProfile, \A u \in Halfway' : storeCall'[u].p.name # q.name
        PROVE  q \in ToSet(known') <=> Loads(folder', q)
    <3>1. q.name # m /\ \A u \in Halfway : storeCall[u].p.name # q.name
      BY <1>1, <2>5, <2>8
    <3>2. folder'[q.name] = folder[q.name]
      BY <2>3, <3>1 DEF AnyProfile
    <3>3. q \in ToSet(known) <=> Loads(folder, q)
      BY <2>2, <3>1 DEF Apart
    <3> QED BY <3>2, <3>3 DEF Loads
  <2> QED BY <2>4, <2>6, <2>7, <2>8 DEF Apart
<1> QED BY <1>2 DEF AlikeInv

\* A call comes to `known`: the profile of its name is known as it would load.
LEMMA CallLearned ==
  ASSUME AlikeInv, StoreType', NEW t \in Halfway, UNCHANGED <<folder, astray>>,
         storeUp, storeUp' = storeUp, storeCall'[t].pc = "idle",
         \A u \in StoreClient \ {t} : storeCall'[u] = storeCall[u],
         \A q \in AnyProfile :
           q \in ToSet(known') <=>
             IF q.name = storeCall[t].p.name
             THEN IF storeCall[t].pc = "learn" THEN q = storeCall[t].p
                                               ELSE q \in ToSet(BuiltIns)
             ELSE q \in ToSet(known)
  PROVE  AlikeInv'
<1> DEFINE m == storeCall[t].p.name
<1>1. Halfway' = Halfway \ {t}
  BY DEF Halfway
<1>2. ASSUME ~astray'
      PROVE  Apart'
  <2>1. Apart
    BY <1>2 DEF AlikeInv, Fresh
  <2>2. \A u \in Halfway \ {t} : storeCall'[u] = storeCall[u]
    BY DEF Halfway
  <2>3. ASSUME NEW q \in AnyProfile, \A u \in Halfway' : storeCall'[u].p.name # q.name
        PROVE  q \in ToSet(known') <=> Loads(folder', q)
    <3>1. CASE q.name # m
      <4>1. \A u \in Halfway : storeCall[u].p.name # q.name
        BY <1>1, <2>2, <2>3, <3>1
      <4> QED BY <2>1, <3>1, <4>1 DEF Apart, Loads
    <3>2. CASE q.name = m /\ storeCall[t].pc = "learn"
      <4>1. folder[q.name] = storeCall[t].p
        BY <2>1, <3>2 DEF Apart
      <4>2. Parses(storeCall[t].p)
        BY <3>2, CallFacts, SavedParses DEF AlikeInv, StoreType, Halfway
      <4> QED BY <3>2, <4>1, <4>2 DEF Loads
    <3>3. CASE q.name = m /\ storeCall[t].pc # "learn"
      <4>1. folder[q.name] = NoFile
        BY <2>1, <3>3 DEF Apart
      <4> QED BY <3>3, <4>1, NoFileFacts DEF Loads
    <3> QED BY <3>1, <3>2, <3>3
  <2>4. \A u \in Halfway' : u \in Halfway /\ storeCall'[u] = storeCall[u]
    BY <1>1, <2>2
  <2>5. /\ InPlace(folder')
        /\ \A u \in Halfway' : \A v \in Halfway' :
             storeCall'[u].p.name = storeCall'[v].p.name => u = v
        /\ \A u \in Halfway' :
             folder'[storeCall'[u].p.name] =
               IF storeCall'[u].pc = "learn" THEN storeCall'[u].p ELSE NoFile
    BY <2>1, <2>4 DEF Apart
  <2> QED BY <2>3, <2>5 DEF Apart
<1> QED BY <1>2 DEF AlikeInv
LEMMA AlikeStep == AlikeInv /\ [StoreNext]_storeVars => AlikeInv'
<1> SUFFICES ASSUME AlikeInv, [StoreNext]_storeVars PROVE AlikeInv'
  OBVIOUS
<1>0. StoreType /\ StoreType'
  BY StoreTypeStep DEF AlikeInv
<1>1. CASE StoreStart
  <2>1. Halfway = {} /\ Halfway' = {}
    BY <1>1 DEF StoreStart, AlikeInv, Halfway
  <2>2. Fresh'
    BY <1>1, <2>1 DEF StoreStart, Fresh
  <2> QED BY <1>0, <1>1, <2>2 DEF StoreStart, AlikeInv
<1>2. CASE StoreCrash
  <2>1. \A t \in StoreClient : storeCall'[t].pc = "idle"
    BY <1>2, IdleFacts DEF StoreCrash
  <2> QED BY <1>0, <1>2, <2>1 DEF StoreCrash, AlikeInv
<1>3. CASE MachineMoves
  <2>1. Halfway' = Halfway
    BY <1>3 DEF MachineMoves, Halfway
  <2> QED BY <1>0, <1>3, <2>1, AlikeFrame DEF MachineMoves
<1>4. ASSUME NEW s \in Touched, EditByHand(s)
      PROVE  AlikeInv'
  <2>1. Halfway' = Halfway
    BY <1>4 DEF EditByHand, Halfway
  <2> QED BY <1>0, <1>4, <2>1 DEF EditByHand, AlikeInv
<1>5. ASSUME NEW t \in StoreClient, NEW n \in Touched, SaveAsk(t, n)
      PROVE  AlikeInv'
  <2>1. /\ storeCall[t].pc = "idle" /\ storeCall'[t].pc = "ppd"
        /\ \A u \in StoreClient \ {t} : storeCall'[u] = storeCall[u]
    BY <1>0, <1>5 DEF SaveAsk, ToStore, StoreType
  <2>2. Halfway' = Halfway /\ \A u \in Halfway : storeCall'[u] = storeCall[u]
    BY <2>1 DEF Halfway
  <2> QED BY <1>0, <1>5, <2>2, AlikeFrame DEF SaveAsk
<1>6. ASSUME NEW t \in StoreClient, NEW n \in Touched, DeleteFile(t, n)
      PROVE  AlikeInv'
  <2> DEFINE p == Profile(n, 0, 0, "none")
  <2>1. n \in Name /\ p.name = n /\ t \notin Halfway
    BY <1>6 DEF DeleteFile, Name, Profile, Halfway
  <2> HIDE DEF p
  <2>2. /\ storeCall'[t].pc = "forget" /\ storeCall'[t].p = p
        /\ \A u \in StoreClient \ {t} : storeCall'[u] = storeCall[u]
    BY <1>0, <1>6 DEF DeleteFile, ToStore, StoreType, p
  <2>3. /\ folder' = [folder EXCEPT ![n] = NoFile] /\ astray' = (astray \/ Disturbed(n))
        /\ known' = known /\ storeUp /\ storeUp' = storeUp
    BY <1>6 DEF DeleteFile
  <2> QED BY <1>0, <2>1, <2>2, <2>3, FileWritten
<1>7. ASSUME NEW t \in StoreClient, SaveCapture(t)
      PROVE  AlikeInv'
  <2>1. storeCall[t].pc = "ppd" /\ storeUp
    BY <1>7 DEF SaveCapture, AlikeInv
  <2>2. /\ storeCall'[t].pc \in {"prompt", "idle"}
        /\ \A u \in StoreClient \ {t} : storeCall'[u] = storeCall[u]
    <3>1. \/ EndStore(t)
          \/ \E p : ToStore(t, "prompt", p)
      BY <1>7, Zenon DEF SaveCapture
    <3>2. CASE EndStore(t)
      BY <1>0, <3>2, EndStoreFacts DEF StoreType
    <3>3. CASE \E p : ToStore(t, "prompt", p)
      BY <1>0, <3>3 DEF ToStore, StoreType
    <3> QED BY <3>1, <3>2, <3>3
  <2>3. Halfway' = Halfway /\ \A u \in Halfway : storeCall'[u] = storeCall[u]
    BY <2>1, <2>2 DEF Halfway
  <2> QED BY <1>0, <1>7, <2>1, <2>3, AlikeFrame DEF SaveCapture
<1>8. ASSUME NEW t \in StoreClient, SaveFile(t)
      PROVE  AlikeInv'
  <2> DEFINE p == storeCall[t].p
  <2>1. p \in AnyProfile /\ p.name \in Name /\ t \notin Halfway /\ storeCall[t].pc = "prompt"
    <3>1. p \in AnyProfile
      BY <1>0, <1>8, CallFacts DEF SaveFile, StoreType
    <3> QED BY <1>8, <3>1 DEF SaveFile, Halfway, AnyProfile
  <2>2. known' = known /\ storeUp' = storeUp /\ storeUp
    BY <1>8 DEF SaveFile, AlikeInv
  <2> HIDE DEF p
  <2>3. CASE EndStore(t) /\ UNCHANGED <<folder, astray, storeBudget>>
    <3>1. /\ storeCall'[t].pc = "idle"
          /\ \A u \in StoreClient \ {t} : storeCall'[u] = storeCall[u]
      BY <1>0, <2>3, EndStoreFacts DEF StoreType
    <3>2. Halfway' = Halfway /\ \A u \in Halfway : storeCall'[u] = storeCall[u]
      BY <2>1, <3>1 DEF Halfway
    <3> QED BY <1>0, <2>2, <2>3, <3>2, AlikeFrame
  <2>4. ASSUME folder' = [folder EXCEPT ![p.name] = p],
               astray' = (astray \/ Disturbed(p.name)), ToStore(t, "learn", p)
        PROVE  AlikeInv'
    <3>1. /\ storeCall'[t].pc = "learn" /\ storeCall'[t].p = p
          /\ \A u \in StoreClient \ {t} : storeCall'[u] = storeCall[u]
      BY <1>0, <2>4 DEF ToStore, StoreType
    <3> QED BY <1>0, <2>1, <2>2, <2>4, <3>1, FileWritten
  <2>5. ASSUME astray' = TRUE
        PROVE  AlikeInv'
    BY <1>0, <2>2, <2>5 DEF AlikeInv
  <2> QED BY <1>8, <2>3, <2>4, <2>5 DEF SaveFile, p
<1>9. ASSUME NEW t \in StoreClient, SaveKnown(t)
      PROVE  AlikeInv'
  <2> DEFINE p == storeCall[t].p
  <2>1. p \in AnyProfile /\ t \in Halfway /\ storeCall[t].pc = "learn"
    BY <1>0, <1>9, CallFacts DEF SaveKnown, StoreType, Halfway
  <2>2. /\ storeCall'[t].pc = "idle"
        /\ \A u \in StoreClient \ {t} : storeCall'[u] = storeCall[u]
    BY <1>0, <1>9, EndStoreFacts DEF SaveKnown, StoreType
  <2>3. ToSet(known') = {q \in ToSet(known) : q.name # p.name} \cup {p}
    BY <1>0, <1>9, <2>1, PutFacts DEF SaveKnown, StoreType
  <2>4. UNCHANGED <<folder, astray, storeUp>> /\ storeUp
    BY <1>9, <2>1 DEF SaveKnown, AlikeInv
  <2> HIDE DEF p
  <2>5. ASSUME NEW q \in AnyProfile
        PROVE  q \in ToSet(known') <=>
                 IF q.name = p.name
                 THEN IF storeCall[t].pc = "learn" THEN q = p ELSE q \in ToSet(BuiltIns)
                 ELSE q \in ToSet(known)
    BY <2>1, <2>3
  <2> QED BY <1>0, <2>1, <2>2, <2>4, <2>5, CallLearned DEF p
<1>10. ASSUME NEW t \in StoreClient, DeleteKnown(t)
       PROVE  AlikeInv'
  <2> DEFINE p == storeCall[t].p
  <2>1. p.name \in Name /\ t \in Halfway /\ storeCall[t].pc = "forget"
    BY <1>0, <1>10, CallFacts DEF DeleteKnown, StoreType, Halfway, Name
  <2>2. /\ storeCall'[t].pc = "idle"
        /\ \A u \in StoreClient \ {t} : storeCall'[u] = storeCall[u]
    BY <1>0, <1>10, EndStoreFacts DEF DeleteKnown, StoreType
  <2>3. \A q : q \in ToSet(known') <=>
               IF q.name = p.name THEN q \in ToSet(BuiltIns) ELSE q \in ToSet(known)
    BY <1>0, <1>10, <2>1, WithoutFacts DEF DeleteKnown, StoreType
  <2>4. UNCHANGED <<folder, astray, storeUp>> /\ storeUp
    BY <1>10, <2>1 DEF DeleteKnown, AlikeInv
  <2> HIDE DEF p
  <2>5. ASSUME NEW q \in AnyProfile
        PROVE  q \in ToSet(known') <=>
                 IF q.name = p.name
                 THEN IF storeCall[t].pc = "learn" THEN q = p ELSE q \in ToSet(BuiltIns)
                 ELSE q \in ToSet(known)
    BY <2>1, <2>3
  <2> QED BY <1>0, <2>1, <2>2, <2>4, <2>5, CallLearned DEF p
<1>11. CASE UNCHANGED storeVars
  <2>1. Halfway' = Halfway
    BY <1>11 DEF storeVars, Halfway
  <2> QED BY <1>0, <1>11, <2>1, AlikeFrame DEF storeVars
<1> QED
  BY <1>1, <1>2, <1>3, <1>4, <1>5, <1>6, <1>7, <1>8, <1>9, <1>10, <1>11 DEF StoreNext

\* What is saved or deleted is what the next start finds, for any number of calls, names,
\* crashes and restarts, unless calls for one name overlapped, a write failed, or files
\* were edited by hand or misnamed (save_profile, delete_profile, load_from).
THEOREM KnownSafe == StoreSpec => []KnownIsWhatLoads
<1>1. AlikeInv => KnownIsWhatLoads
  BY ApartIsAlike DEF AlikeInv, Fresh, KnownIsWhatLoads
<1> QED BY AlikeInit, AlikeStep, <1>1, PTL DEF StoreSpec
=============================================================================
