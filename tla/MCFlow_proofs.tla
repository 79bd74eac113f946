----------------------------- MODULE MCFlow_proofs -----------------------------
(***************************************************************************)
(* Proofs about MCFlow, for every number of edits, every set of nodes and  *)
(* every limit: a snapshot leaves nothing of a flow out, what the diff of  *)
(* two snapshots answers, and what the analysis of a graph finds.          *)
(***************************************************************************)
EXTENDS MCFlow, SequenceTheorems, FiniteSetTheorems, TLAPS

-----------------------------------------------------------------------------
(* Lists and finite sets *)

\* A nonempty set of naturals has a least element: an induction is a set of
\* counterexamples and its least one.
LEMMA Least ==
  ASSUME NEW T, T \subseteq Nat, T # {} PROVE \E x \in T : \A y \in T : x <= y
<1>. DEFINE R == OpToRel(<, Nat)
<1>1. IsWellFoundedOn(R, Nat)
  BY NatLessThanWellFounded
<1>2. \A y, x \in Nat : y < x => <<y, x>> \in R
  BY DEF OpToRel
<1>. HIDE DEF R
<1>3. PICK x \in T : \A y \in T : ~(<<y, x>> \in R)
  BY <1>1, WFMin
<1>4. \A y \in T : ~(y < x)
  BY <1>2, <1>3
<1>5. \A y \in T : x <= y
  BY <1>4
<1>. QED
  BY <1>5

-----------------------------------------------------------------------------
(* Sequences of sequences *)

\* f holds the first m parts, one after the other.
Joined(ss, m, f) == f = [i \in 1..m |-> IF i = 1 THEN ss[i] ELSE f[i - 1] \o ss[i]]

LEMMA JoinedIs ==
  ASSUME NEW X, NEW ss \in Seq(Seq(X)), NEW m \in 0..Len(ss), NEW f, Joined(ss, m, f)
  PROVE  \A i \in 1..m : f[i] = IF i = 1 THEN ss[i] ELSE f[i - 1] \o ss[i]
  BY DEF Joined

LEMMA Joinable ==
  ASSUME NEW X, NEW ss \in Seq(Seq(X))
  PROVE  \A m \in 0..Len(ss) : \E f : Joined(ss, m, f)
<1>. DEFINE T == {m \in 0..Len(ss) : ~ \E f : Joined(ss, m, f)}
<1>. SUFFICES ASSUME T # {} PROVE FALSE
  OBVIOUS
<1>1. PICK m \in T : \A j \in T : m <= j
  <2>. T \subseteq Nat
    OBVIOUS
  <2>. HIDE DEF T
  <2>. QED
    BY Least
<1>2. Joined(ss, 0, [i \in 1..0 |-> 0])
  BY DEF Joined
<1>3. m # 0 /\ m - 1 \in 0..Len(ss) /\ m \in 1..Len(ss)
  BY <1>1, <1>2
<1>4. PICK f : Joined(ss, m - 1, f)
  <2>1. ~(m <= m - 1)
    BY <1>3
  <2>2. m - 1 \notin T
    <3>. HIDE DEF T
    <3>. QED
      BY <1>1, <2>1
  <2>. QED
    BY <1>3, <2>2
<1>. DEFINE g == [i \in 1..m |-> IF i < m THEN f[i] ELSE IF m = 1 THEN ss[m] ELSE f[m - 1] \o ss[m]]
<1>5. ASSUME NEW i \in 1..m PROVE g[i] = IF i = 1 THEN ss[i] ELSE g[i - 1] \o ss[i]
  <2>1. CASE i < m
    <3>1. i \in 1..(m - 1) /\ (i # 1 => i - 1 \in 1..m /\ i - 1 < m)
      BY <1>3, <2>1
    <3>2. g[i] = f[i] /\ (i # 1 => g[i - 1] = f[i - 1])
      BY <2>1, <3>1
    <3>3. f[i] = IF i = 1 THEN ss[i] ELSE f[i - 1] \o ss[i]
      BY <1>4, <3>1 DEF Joined
    <3>. QED
      BY <3>2, <3>3
  <2>2. CASE i = m
    <3>1. m # 1 => m - 1 \in 1..m /\ m - 1 < m
      BY <1>3
    <3>2. m # 1 => g[m - 1] = f[m - 1]
      BY <3>1
    <3>. QED
      BY <2>2, <3>2
  <2>. QED
    BY <1>3, <2>1, <2>2
<1>6. g = [i \in 1..m |-> IF i = 1 THEN ss[i] ELSE g[i - 1] \o ss[i]]
  <2>. DEFINE h == [i \in 1..m |-> IF i = 1 THEN ss[i] ELSE g[i - 1] \o ss[i]]
  <2>1. \A i \in 1..m : g[i] = h[i]
    <3>. HIDE DEF g
    <3>. QED
      BY <1>5
  <2>2. g = [i \in 1..m |-> g[i]]
    OBVIOUS
  <2>3. h = [i \in 1..m |-> h[i]]
    OBVIOUS
  <2>. HIDE DEF g, h
  <2>4. g = h
    BY <2>1, <2>2, <2>3
  <2>. QED
    BY <2>4 DEF h
<1>7. Joined(ss, m, g)
  <2>. HIDE DEF g
  <2>. QED
    BY <1>6 DEF Joined
<1>. HIDE DEF g
<1>. QED
  BY <1>1, <1>7

\* What is in a sequence of sequences, taken together, is what is in its parts.
LEMMA Flattened ==
  ASSUME NEW X, NEW ss \in Seq(Seq(X))
  PROVE  /\ FlattenSeq(ss) \in Seq(X)
         /\ \A x : (\E i \in DOMAIN FlattenSeq(ss) : FlattenSeq(ss)[i] = x)
                     <=> \E k \in DOMAIN ss : \E i \in DOMAIN ss[k] : ss[k][i] = x
<1>1. Len(ss) \in Nat /\ DOMAIN ss = 1..Len(ss) /\ \A i \in 1..Len(ss) : ss[i] \in Seq(X)
  OBVIOUS
<1>2. CASE Len(ss) = 0
  <2>1. FlattenSeq(ss) = ss /\ ss = <<>>
    BY <1>2, EmptySeq DEF FlattenSeq
  <2>. QED
    BY <2>1
<1>3. CASE Len(ss) # 0
  <2>. DEFINE F == CHOOSE f : Joined(ss, Len(ss), f)
              In(s, x) == \E i \in DOMAIN s : s[i] = x
  <2>1. Joined(ss, Len(ss), F)
    <3>1. \E f : Joined(ss, Len(ss), f)
      BY <1>1, Joinable
    <3>. QED
      BY <3>1
  <2>2. FlattenSeq(ss) = F[Len(ss)]
    BY <1>3 DEF FlattenSeq, Joined
  <2>. HIDE DEF F
  <2>. DEFINE Right(m) == /\ F[m] \in Seq(X)
                          /\ \A x : In(F[m], x) <=> \E k \in 1..m : In(ss[k], x)
              T == {m \in 1..Len(ss) : ~Right(m)}
  <2>3. T = {}
    <3>. SUFFICES ASSUME T # {} PROVE FALSE
      OBVIOUS
    <3>1. PICK m \in T : \A j \in T : m <= j
      <4>. T \subseteq Nat
        OBVIOUS
      <4>. HIDE DEF T
      <4>. QED
        BY Least
    <3>2. m \in 1..Len(ss) /\ ~Right(m)
      OBVIOUS
    <3>3. F[m] = IF m = 1 THEN ss[m] ELSE F[m - 1] \o ss[m]
      BY <2>1, <3>2 DEF Joined
    <3>4. CASE m = 1
      <4>1. \A k \in 1..1 : k = 1
        OBVIOUS
      <4>2. F[1] = ss[1] /\ 1 \in 1..1
        BY <3>3, <3>4
      <4>3. Right(1)
        <5>. HIDE DEF In
        <5>. QED
          BY <1>1, <3>2, <3>4, <4>1, <4>2
      <4>. HIDE DEF Right
      <4>. QED
        BY <3>2, <3>4, <4>3
    <3>5. CASE m # 1
      <4>1. m - 1 \in 1..Len(ss) /\ m - 1 < m /\ m \in Nat
        BY <1>1, <3>2, <3>5
      <4>2. Right(m - 1)
        <5>. HIDE DEF Right
        <5>. QED
          BY <3>1, <4>1
      <4>3. F[m] = F[m - 1] \o ss[m] /\ F[m - 1] \in Seq(X) /\ ss[m] \in Seq(X)
        BY <1>1, <3>2, <3>3, <3>5, <4>2
      <4>4. F[m] \in Seq(X) /\ \A x : In(F[m], x) <=> In(F[m - 1], x) \/ In(ss[m], x)
        <5>. DEFINE u == F[m - 1]
                    v == ss[m]
        <5>1. u \in Seq(X) /\ v \in Seq(X) /\ F[m] = u \o v
          BY <4>3
        <5>. HIDE DEF u, v
        <5>2. /\ u \o v \in Seq(X) /\ Len(u \o v) = Len(u) + Len(v)
              /\ \A i \in 1..(Len(u) + Len(v)) : (u \o v)[i] = IF i <= Len(u) THEN u[i] ELSE v[i - Len(u)]
          BY <5>1, ConcatProperties
        <5>3. ASSUME NEW i \in 1..Len(u) PROVE (u \o v)[i] = u[i] /\ i \in 1..(Len(u) + Len(v))
          BY <5>1, <5>2
        <5>4. ASSUME NEW i \in 1..Len(v)
              PROVE  (u \o v)[Len(u) + i] = v[i] /\ Len(u) + i \in 1..(Len(u) + Len(v))
          <6>1. /\ Len(u) + i \in 1..(Len(u) + Len(v)) /\ ~(Len(u) + i <= Len(u))
                /\ (Len(u) + i) - Len(u) = i
            BY <5>1
          <6>. QED
            BY <5>2, <6>1
        <5>5. ASSUME NEW i \in 1..(Len(u) + Len(v))
              PROVE  (i \in 1..Len(u) /\ (u \o v)[i] = u[i])
                     \/ (i - Len(u) \in 1..Len(v) /\ (u \o v)[i] = v[i - Len(u)])
          BY <5>1, <5>2
        <5>6. /\ DOMAIN u = 1..Len(u) /\ DOMAIN v = 1..Len(v)
              /\ DOMAIN (u \o v) = 1..(Len(u) + Len(v))
          BY <5>1, <5>2
        <5>7. \A x : In(u, x) \/ In(v, x) => In(u \o v, x)
          BY <5>3, <5>4, <5>6
        <5>8. \A x : In(u \o v, x) => In(u, x) \/ In(v, x)
          BY <5>5, <5>6
        <5>. HIDE DEF In
        <5>. QED
          BY <5>1, <5>2, <5>7, <5>8 DEF u, v
      <4>5. \A k : k \in 1..m <=> k \in 1..(m - 1) \/ k = m
        BY <4>1
      <4>6. Right(m)
        <5>. HIDE DEF In
        <5>. QED
          BY <4>2, <4>4, <4>5
      <4>. HIDE DEF Right
      <4>. QED
        BY <3>2, <4>6
    <3>. QED
      BY <3>4, <3>5
  <2>4. Right(Len(ss))
    <3>1. Len(ss) \in 1..Len(ss)
      BY <1>1, <1>3
    <3>. HIDE DEF Right
    <3>. QED
      BY <2>3, <3>1
  <2>. QED
    BY <1>1, <2>2, <2>4
<1>. QED
  BY <1>2, <1>3

Listed(s, x) == \E i \in DOMAIN s : s[i] = x

LEMMA Concatenated ==
  ASSUME NEW X, NEW u \in Seq(X), NEW v \in Seq(X)
  PROVE  u \o v \in Seq(X) /\ \A x : Listed(u \o v, x) <=> Listed(u, x) \/ Listed(v, x)
<1>1. /\ u \o v \in Seq(X) /\ Len(u \o v) = Len(u) + Len(v)
      /\ \A i \in 1..(Len(u) + Len(v)) : (u \o v)[i] = IF i <= Len(u) THEN u[i] ELSE v[i - Len(u)]
  BY ConcatProperties
<1>2. ASSUME NEW i \in 1..Len(u) PROVE (u \o v)[i] = u[i] /\ i \in 1..(Len(u) + Len(v))
  BY <1>1
<1>3. ASSUME NEW i \in 1..Len(v)
      PROVE  (u \o v)[Len(u) + i] = v[i] /\ Len(u) + i \in 1..(Len(u) + Len(v))
  <2>1. /\ Len(u) + i \in 1..(Len(u) + Len(v)) /\ ~(Len(u) + i <= Len(u))
        /\ (Len(u) + i) - Len(u) = i
    OBVIOUS
  <2>. QED
    BY <1>1, <2>1
<1>4. ASSUME NEW i \in 1..(Len(u) + Len(v))
      PROVE  (i \in 1..Len(u) /\ (u \o v)[i] = u[i])
             \/ (i - Len(u) \in 1..Len(v) /\ (u \o v)[i] = v[i - Len(u)])
  BY <1>1
<1>5. /\ DOMAIN u = 1..Len(u) /\ DOMAIN v = 1..Len(v) /\ DOMAIN (u \o v) = 1..(Len(u) + Len(v))
  BY <1>1
<1>6. \A x : Listed(u, x) \/ Listed(v, x) => Listed(u \o v, x)
  BY <1>2, <1>3, <1>5 DEF Listed
<1>7. \A x : Listed(u \o v, x) => Listed(u, x) \/ Listed(v, x)
  BY <1>4, <1>5 DEF Listed
<1>. QED
  BY <1>1, <1>6, <1>7

LEMMA FlattenLists ==
  ASSUME NEW X, NEW ss \in Seq(Seq(X))
  PROVE  FlattenSeq(ss) \in Seq(X) /\ \A x : Listed(FlattenSeq(ss), x) <=> \E k \in DOMAIN ss : Listed(ss[k], x)
  BY Flattened, Zenon DEF Listed

LEMMA ImageIsFinite == ASSUME NEW S, IsFiniteSet(S), NEW f PROVE IsFiniteSet({f[x] : x \in S})
<1>. DEFINE T == {f[x] : x \in S}
            g == [x \in S |-> f[x]]
<1>1. g \in Surjection(S, T)
  BY DEF Surjection
<1>. HIDE DEF g, T
<1>2. IsFiniteSet(T)
  BY <1>1, FS_Surjection
<1>. QED
  BY <1>2 DEF T

LEMMA Few ==
  /\ \A x : IsFiniteSet({x})
  /\ \A S, T : IsFiniteSet(S) /\ IsFiniteSet(T) => IsFiniteSet(S \cup T)
  /\ \A S, T : IsFiniteSet(S) /\ T \subseteq S => IsFiniteSet(T)
  /\ IsFiniteSet({})
  BY FS_Singleton, FS_Union, FS_Subset, FS_EmptySet


-----------------------------------------------------------------------------
(* The snapshot of a flow *)

Boxes == {"menu", "task"}
Parts == DOMAIN Base
Options == [id : {"c1", "c2"}, digit : Int, name : Int, action : Parts]

\* The snapshot of a flow of which nothing is said.
Normalized(f) == N!NormalizeFlow(f, D!Unnamed)

\* A configuration, whatever was edited: lists of containers, actions and choices.
Shape(f) ==
  /\ DOMAIN f = {"start", "order", "actions", "choices", "objects", "variables", "manifest", "meta", "version",
               "shapeless"}
  /\ f.order \in Seq(Boxes) /\ f.actions \in [Boxes -> Seq(Parts)] /\ f.choices \in [Boxes -> Seq(Options)]

\* What is read of a container's lists.
LEMMA ListsAre ==
  ASSUME NEW f, Shape(f), NEW c \in Boxes
  PROVE  N!ActionList(f, c) \in Seq(Parts) /\ N!MenuChoiceList(f, c) \in Seq(Options)
<1>1. f.actions[c] \in Seq(Parts) /\ f.choices[c] \in Seq(Options)
  BY DEF Shape
<1>. QED
  BY <1>1 DEF N!ActionList, N!MenuChoiceList

\* The places of one container: its own, its actions' and its choices'.
Place(f, c) == [object |-> f.order[c], within |-> Absent, pointer |-> <<c>>, index |-> c]
ActionPlaces(f, c) ==
  [i \in DOMAIN N!ActionList(f, f.order[c]) |->
     [object |-> N!ActionList(f, f.order[c])[i], within |-> f.order[c], pointer |-> <<c, "actionList", i>>, index |-> i]]
ChoicePlaces(f, c) ==
  [i \in DOMAIN N!MenuChoiceList(f, f.order[c]) |->
     [object |-> N!MenuChoiceList(f, f.order[c])[i].action, within |-> f.order[c],
      pointer |-> <<c, "menuChoiceList", i>>, index |-> i]]
Section(f, c) == <<Place(f, c)>> \o ActionPlaces(f, c) \o ChoicePlaces(f, c)
Places(f, c) ==
  {Place(f, c)} \cup {ActionPlaces(f, c)[i] : i \in DOMAIN ActionPlaces(f, c)}
                \cup {ChoicePlaces(f, c)[i] : i \in DOMAIN ChoicePlaces(f, c)}

LEMMA WalkSections == ASSUME NEW f PROVE N!Walk(f) = FlattenSeq([c \in DOMAIN f.order |-> Section(f, c)])
<1>1. \A s : N!FlattenSeq(s) = FlattenSeq(s)
  BY DEF N!FlattenSeq, FlattenSeq
<1>. DEFINE at(c, list, objects) == [i \in DOMAIN objects |->
          [object |-> objects[i], within |-> f.order[c], pointer |-> <<c, list, i>>, index |-> i]]
<1>2. N!Walk(f) = N!FlattenSeq([c \in DOMAIN f.order |->
        <<Place(f, c)>> \o at(c, "actionList", N!ActionList(f, f.order[c]))
          \o at(c, "menuChoiceList", [i \in DOMAIN N!MenuChoiceList(f, f.order[c]) |-> N!MenuChoiceList(f, f.order[c])[i].action])])
  BY DEF N!Walk, Place
<1>3. \A c : at(c, "actionList", N!ActionList(f, f.order[c])) = ActionPlaces(f, c)
  BY DEF ActionPlaces
<1>4. \A c : at(c, "menuChoiceList", [i \in DOMAIN N!MenuChoiceList(f, f.order[c]) |-> N!MenuChoiceList(f, f.order[c])[i].action])
               = ChoicePlaces(f, c)
  BY DEF ChoicePlaces
<1>. HIDE DEF at
<1>5. [c \in DOMAIN f.order |->
        <<Place(f, c)>> \o at(c, "actionList", N!ActionList(f, f.order[c]))
          \o at(c, "menuChoiceList", [i \in DOMAIN N!MenuChoiceList(f, f.order[c]) |-> N!MenuChoiceList(f, f.order[c])[i].action])]
      = [c \in DOMAIN f.order |-> Section(f, c)]
  BY <1>3, <1>4 DEF Section
<1>. QED
  BY <1>1, <1>2, <1>5

LEMMA SectionIs ==
  ASSUME NEW f, Shape(f), NEW c \in DOMAIN f.order
  PROVE  /\ Section(f, c) \in Seq(Places(f, c))
         /\ \A p \in Places(f, c) : Listed(Section(f, c), p)
<1>. DEFINE p == Place(f, c)
            a == ActionPlaces(f, c)
            b == ChoicePlaces(f, c)
            X == Places(f, c)
<1>1. f.order[c] \in Boxes
  BY DEF Shape
<1>2. /\ N!ActionList(f, f.order[c]) \in Seq(Parts) /\ N!MenuChoiceList(f, f.order[c]) \in Seq(Options)
  BY <1>1, ListsAre
<1>3. DOMAIN a = 1..Len(N!ActionList(f, f.order[c])) /\ Len(N!ActionList(f, f.order[c])) \in Nat
  BY <1>2 DEF ActionPlaces
<1>4. DOMAIN b = 1..Len(N!MenuChoiceList(f, f.order[c])) /\ Len(N!MenuChoiceList(f, f.order[c])) \in Nat
  BY <1>2 DEF ChoicePlaces
<1>5. a = [i \in DOMAIN a |-> a[i]] /\ b = [i \in DOMAIN b |-> b[i]]
  BY DEF ActionPlaces, ChoicePlaces
<1>6. p \in X /\ (\A i \in DOMAIN a : a[i] \in X) /\ \A i \in DOMAIN b : b[i] \in X
  BY DEF Places
<1>7. Section(f, c) = <<p>> \o a \o b
  BY DEF Section
<1>8. \A x \in X : x = p \/ Listed(a, x) \/ Listed(b, x)
  BY DEF Places, Listed
<1>. HIDE DEF p, a, b, X
<1>9. a \in Seq(X) /\ b \in Seq(X) /\ <<p>> \in Seq(X)
  BY <1>3, <1>4, <1>5, <1>6, SMTT(40)
<1>10. Listed(<<p>>, p)
  BY DEF Listed
<1>11. /\ <<p>> \o a \in Seq(X)
       /\ \A x : Listed(<<p>> \o a, x) <=> Listed(<<p>>, x) \/ Listed(a, x)
  BY <1>9, Concatenated
<1>. DEFINE u == <<p>> \o a
<1>. HIDE DEF u
<1>12. u \o b \in Seq(X) /\ \A x : Listed(u \o b, x) <=> Listed(u, x) \/ Listed(b, x)
  BY <1>9, <1>11, Concatenated DEF u
<1>. QED
  BY <1>7, <1>8, <1>10, <1>11, <1>12 DEF X, u

\* The walk visits every place of every container, and nothing else.
LEMMA WalkIs ==
  ASSUME NEW f, Shape(f)
  PROVE  /\ N!ToSet(N!Walk(f)) = UNION {Places(f, c) : c \in DOMAIN f.order}
         /\ IsFiniteSet(N!ToSet(N!Walk(f)))
<1>. DEFINE X == UNION {Places(f, c) : c \in DOMAIN f.order}
            ss == [c \in DOMAIN f.order |-> Section(f, c)]
            w == N!Walk(f)
<1>1. f.order \in Seq(Boxes)
  BY DEF Shape
<1>2. \A c \in DOMAIN f.order : Section(f, c) \in Seq(Places(f, c)) /\ Places(f, c) \subseteq X
  BY SectionIs
<1>3. \A c \in DOMAIN f.order : Section(f, c) \in Seq(X)
  <2>. HIDE DEF X
  <2>. QED
    BY <1>2
<1>4. ss \in Seq(Seq(X)) /\ DOMAIN ss = DOMAIN f.order /\ \A c \in DOMAIN f.order : ss[c] = Section(f, c)
  <2>1. DOMAIN f.order = 1..Len(f.order) /\ Len(f.order) \in Nat
    BY <1>1
  <2>. HIDE DEF X
  <2>. QED
    BY <1>3, <2>1
<1>5. \A x \in X : \E c \in DOMAIN f.order : x \in Places(f, c)
  OBVIOUS
<1>6. w = FlattenSeq(ss)
  BY WalkSections
<1>. HIDE DEF X, ss, w
<1>7. FlattenSeq(ss) \in Seq(X) /\ \A x : Listed(FlattenSeq(ss), x) <=> \E k \in DOMAIN ss : Listed(ss[k], x)
  BY <1>4, FlattenLists, Zenon
<1>8. w \in Seq(X) /\ \A x : Listed(w, x) <=> \E k \in DOMAIN ss : Listed(ss[k], x)
  BY <1>6, <1>7
<1>9. \A x \in X : Listed(w, x)
  <2>. SUFFICES ASSUME NEW x \in X PROVE Listed(w, x)
    OBVIOUS
  <2>1. PICK c \in DOMAIN f.order : x \in Places(f, c)
    BY <1>5
  <2>2. Listed(Section(f, c), x)
    BY <2>1, SectionIs
  <2>. QED
    BY <1>4, <1>8, <2>2
<1>10. N!ToSet(w) = X
  BY <1>8, <1>9 DEF N!ToSet, Listed
<1>11. IsFiniteSet(N!ToSet(w))
  <2>1. DOMAIN w = 1..Len(w) /\ Len(w) \in Nat
    BY <1>8
  <2>2. IsFiniteSet(DOMAIN w)
    BY <2>1, FS_Interval
  <2>. QED
    BY <2>2, ImageIsFinite DEF N!ToSet
<1>. QED
  BY <1>10, <1>11 DEF w, X

\* Every place is in a container that has a place of its own.
LEMMA PlacesAre ==
  ASSUME NEW f, Shape(f), NEW p \in N!ToSet(N!Walk(f))
  PROVE  /\ p.object \in Parts
         /\ p.within # Absent => \E q \in N!ToSet(N!Walk(f)) : q.within = Absent /\ q.object = p.within
<1>. DEFINE w == N!Walk(f)
<1>1. N!ToSet(w) = UNION {Places(f, c) : c \in DOMAIN f.order}
  BY WalkIs
<1>. HIDE DEF w
<1>2. PICK k \in DOMAIN f.order : p \in Places(f, k)
  BY <1>1 DEF w
<1>3. Place(f, k) \in N!ToSet(w) /\ Place(f, k).within = Absent /\ Place(f, k).object = f.order[k]
  <2>1. Place(f, k) \in Places(f, k)
    BY DEF Places
  <2>. QED
    BY <1>1, <2>1 DEF Place
<1>4. f.order[k] \in Boxes /\ Boxes \subseteq Parts
  BY DEF Shape, Boxes, Parts, Base
<1>5. /\ N!ActionList(f, f.order[k]) \in Seq(Parts) /\ N!MenuChoiceList(f, f.order[k]) \in Seq(Options)
  BY <1>4, ListsAre DEF Shape
<1>6. \A i \in DOMAIN ActionPlaces(f, k) :
        ActionPlaces(f, k)[i].within = f.order[k] /\ ActionPlaces(f, k)[i].object \in Parts
  BY <1>5 DEF ActionPlaces
<1>7. \A i \in DOMAIN ChoicePlaces(f, k) :
        ChoicePlaces(f, k)[i].within = f.order[k] /\ ChoicePlaces(f, k)[i].object \in Parts
  <2>1. \A i \in DOMAIN N!MenuChoiceList(f, f.order[k]) : N!MenuChoiceList(f, f.order[k])[i].action \in Parts
    <3>1. \A o \in Options : o.action \in Parts
      BY DEF Options
    <3>2. \A i \in DOMAIN N!MenuChoiceList(f, f.order[k]) : N!MenuChoiceList(f, f.order[k])[i] \in Options
      BY <1>5
    <3>. QED
      BY <3>1, <3>2
  <2>. QED
    BY <2>1 DEF ChoicePlaces
<1>8. p.object \in Parts /\ (p.within = Absent \/ p.within = f.order[k])
  BY <1>2, <1>3, <1>4, <1>6, <1>7 DEF Places
<1>. QED
  BY <1>3, <1>8 DEF w


LEMMA SnapshotIs ==
  ASSUME NEW f, NEW nodes, nodes = N!ExtractNodes(f), NEW known, known = N!Guids(f, nodes)
  PROVE  /\ DOMAIN Normalized(f).nodes = {N!NodeId(f, p) : p \in nodes}
         /\ Normalized(f).edges = UNION {N!ExtractEdges(f, known, p) : p \in N!Referable(f, nodes)}
         /\ Normalized(f).dependencies = N!ExtractDependencies(f, known)
         /\ Normalized(f).warnings = N!NodeWarnings(f, nodes) \cup N!EdgeWarnings(f, nodes, known)
              \cup N!PromptWarnings(f, nodes, N!ExtractDependencies(f, known)) \cup N!DeviationWarnings(f)
              \cup N!SettingsWarnings(f, nodes)
  BY DEF Normalized, N!NormalizeFlow

\* Every edge of a snapshot joins two of its nodes.
LEMMA EdgesJoinNodes ==
  ASSUME NEW f, Shape(f), NEW e \in Normalized(f).edges
  PROVE  {e.from, e.to} \subseteq DOMAIN Normalized(f).nodes
<1>. DEFINE nodes == N!ExtractNodes(f)
            known == N!Guids(f, nodes)
            walk == N!ToSet(N!Walk(f))
<1>1. nodes = {p \in walk : N!Taken(f, p)}
  BY DEF N!ExtractNodes
<1>2. \A p \in walk : p.within # Absent => \E q \in walk : q.within = Absent /\ q.object = p.within
  BY PlacesAre
<1>. HIDE DEF nodes, known, walk
<1>3. DOMAIN Normalized(f).nodes = {N!NodeId(f, p) : p \in nodes}
  BY SnapshotIs DEF nodes, known
<1>4. PICK p \in N!Referable(f, nodes) : e \in N!ExtractEdges(f, known, p)
  BY SnapshotIs DEF nodes, known
<1>5. \A q \in N!Referable(f, nodes) : q \in nodes /\ <<q.object>> \in DOMAIN Normalized(f).nodes
  BY <1>3 DEF N!Referable, N!HasGuid, N!NodeId
<1>6. CASE e \in N!FieldEdges(f, known, p)
  <2>1. e.from = <<p.object>> /\ \E g \in known : e.to = <<g>>
    BY <1>6 DEF N!FieldEdges
  <2>2. known = {q.object : q \in N!Referable(f, nodes)}
    BY DEF known, N!Guids
  <2>. QED
    BY <1>4, <1>5, <2>1, <2>2
<1>7. CASE e \in N!ChoiceEdges(f, p)
  <2>1. /\ p.within # Absent /\ N!HasGuid(f.objects[p.within])
        /\ e.from = <<p.within>> /\ e.to = <<p.object>>
    BY <1>7 DEF N!ChoiceEdges
  <2>2. p \in walk /\ f.objects[p.within].well
    BY <1>1, <1>4, <1>5, <2>1 DEF N!Taken
  <2>3. PICK q \in walk : q.within = Absent /\ q.object = p.within
    BY <1>2, <2>1, <2>2
  <2>4. q \in N!Referable(f, nodes)
    BY <1>1, <2>1, <2>2, <2>3 DEF N!Taken, N!Referable
  <2>. QED
    BY <1>4, <1>5, <2>1, <2>3, <2>4
<1>. QED
  BY <1>4, <1>6, <1>7 DEF N!ExtractEdges

\* Every place of a configuration leaves its trace in the snapshot.
LEMMA PlacesAreRepresented ==
  ASSUME NEW f, report.after = Normalized(f), NEW p \in N!ToSet(N!Walk(f)), N!Reached(f, p)
  PROVE  Represented(f, p)
<1>. DEFINE nodes == N!ExtractNodes(f)
            known == N!Guids(f, nodes)
            raw == f.objects[p.object]
            issued == report.after.warnings
<1>1. nodes = {q \in N!ToSet(N!Walk(f)) : N!Taken(f, q)}
  BY DEF N!ExtractNodes
<1>2. /\ issued = N!NodeWarnings(f, nodes) \cup N!EdgeWarnings(f, nodes, known)
           \cup N!PromptWarnings(f, nodes, N!ExtractDependencies(f, known)) \cup N!DeviationWarnings(f)
           \cup N!SettingsWarnings(f, nodes)
      /\ DOMAIN report.after.nodes = {N!NodeId(f, q) : q \in nodes}
      /\ report.after.edges = UNION {N!ExtractEdges(f, known, q) : q \in N!Referable(f, nodes)}
      /\ report.after.dependencies = N!ExtractDependencies(f, known)
  BY SnapshotIs
<1>. HIDE DEF nodes, known, issued
<1>3. ASSUME ~raw.well PROVE Warned("SCHEMA_DEVIATION", p.pointer)
  <2>. DEFINE w == [code |-> "SCHEMA_DEVIATION", at |-> p.pointer, node |-> Absent]
  <2>1. w \in N!NodeWarnings(f, nodes)
    BY <1>3 DEF N!NodeWarnings
  <2>2. w.code = "SCHEMA_DEVIATION" /\ w.at = p.pointer
    OBVIOUS
  <2>. HIDE DEF w
  <2>3. w \in issued
    BY <1>2, <2>1
  <2>. QED
    BY <2>2, <2>3 DEF Warned, issued
<1>4. ASSUME raw.well PROVE p \in nodes /\ N!NodeId(f, p) \in DOMAIN report.after.nodes
  BY <1>1, <1>2, <1>4 DEF N!Taken, N!Reached
<1>5. ASSUME raw.well, raw.identified PROVE p \in N!Identified(f, nodes)
  BY <1>4, <1>5 DEF N!Identified
<1>6. ASSUME raw.well, raw.identified, raw.long PROVE Warned("TRUNCATED", p.pointer)
  <2>. DEFINE w == [code |-> "TRUNCATED", at |-> p.pointer, node |-> <<p.object>>]
  <2>1. w \in N!SettingsWarnings(f, nodes)
    BY <1>5, <1>6 DEF N!SettingsWarnings
  <2>2. w.code = "TRUNCATED" /\ w.at = p.pointer
    OBVIOUS
  <2>. HIDE DEF w
  <2>3. w \in issued
    BY <1>2, <2>1
  <2>. QED
    BY <2>2, <2>3 DEF Warned, issued
<1>7. ASSUME raw.well, N!HasGuid(raw), NEW s \in N!References(raw), raw.refs[s] # Absent,
             raw.refs[s] \notin DOMAIN report.after.dependencies
      PROVE  \/ \E e \in report.after.edges : e.from = <<p.object>> /\ e.to = <<raw.refs[s]>> /\ e.site = s
             \/ Warned("DANGLING_REFERENCE", Append(p.pointer, s))
  <2>. p \in N!Referable(f, nodes)
    BY <1>4, <1>7 DEF N!Referable
  <2>1. CASE raw.refs[s] \in known
    <3>. DEFINE e == [from |-> <<p.object>>, to |-> <<raw.refs[s]>>, role |-> N!Role(s),
                      condition |-> N!Condition(s), label |-> N!Label(raw, s), site |-> s]
    <3>1. e \in N!FieldEdges(f, known, p)
      BY <1>7, <2>1 DEF N!FieldEdges
    <3>2. e.from = <<p.object>> /\ e.to = <<raw.refs[s]>> /\ e.site = s
      OBVIOUS
    <3>. HIDE DEF e
    <3>3. e \in report.after.edges
      BY <1>2, <3>1 DEF N!ExtractEdges
    <3>. QED
      BY <3>2, <3>3
  <2>2. CASE raw.refs[s] \notin known
    <3>1. ~(raw.refs[s] \in DOMAIN f.manifest /\ f.manifest[raw.refs[s]].well)
      BY <1>2, <1>7 DEF N!ExtractDependencies
    <3>2. N!Dangling(f, known, raw.refs[s])
      BY <1>7, <2>2, <3>1 DEF N!Dangling
    <3>. DEFINE w == [code |-> "DANGLING_REFERENCE", at |-> Append(p.pointer, s), node |-> <<p.object>>]
    <3>3. w \in N!EdgeWarnings(f, nodes, known)
      <4>. DEFINE mine == {[code |-> "DANGLING_REFERENCE", at |-> Append(p.pointer, t), node |-> <<p.object>>] :
                             t \in {u \in N!References(raw) : N!Dangling(f, known, raw.refs[u])}}
      <4>1. w \in mine
        BY <1>7, <3>2
      <4>2. mine \subseteq N!EdgeWarnings(f, nodes, known)
        <5>. HIDE DEF w
        <5>. QED
          BY SMTT(40) DEF N!EdgeWarnings
      <4>. QED
        BY <4>1, <4>2
    <3>4. w.code = "DANGLING_REFERENCE" /\ w.at = Append(p.pointer, s)
      OBVIOUS
    <3>. HIDE DEF w
    <3>5. w \in issued
      BY <1>2, <3>3
    <3>. QED
      BY <3>4, <3>5 DEF Warned, issued
  <2>. QED
    BY <2>1, <2>2
<1>8. Represented(f, p)
  <2>1. CASE ~raw.well
    BY <1>3, <2>1 DEF Represented
  <2>2. CASE raw.well
    BY <1>4, <1>6, <1>7, <2>2 DEF Represented
  <2>. QED
    BY <2>1, <2>2
<1>. QED
  BY <1>8

-----------------------------------------------------------------------------
(* What editing does to a configuration *)

LEMMA ListsReplaced ==
  ASSUME Shape(flow), NEW to \in Seq(Boxes) \cup [Boxes -> Seq(Parts)] \cup [Boxes -> Seq(Options)],
         \/ to \in Seq(Boxes) /\ flow' = [flow EXCEPT !.order = to]
         \/ to \in [Boxes -> Seq(Parts)] /\ flow' = [flow EXCEPT !.actions = to]
         \/ to \in [Boxes -> Seq(Options)] /\ flow' = [flow EXCEPT !.choices = to]
  PROVE  Shape(flow')
  BY DEF Shape

LEMMA OthersReplaced ==
  ASSUME Shape(flow), NEW to,
         \/ flow' = [flow EXCEPT !.start = to] \/ flow' = [flow EXCEPT !.objects = to]
         \/ flow' = [flow EXCEPT !.variables = to] \/ flow' = [flow EXCEPT !.manifest = to]
         \/ flow' = [flow EXCEPT !.meta = to] \/ flow' = [flow EXCEPT !.version = to]
         \/ flow' = [flow EXCEPT !.shapeless = to]
  PROVE  Shape(flow')
  BY DEF Shape

LEMMA ObjectEditKeeps == ASSUME Shape(flow), NEW o, A!ObjectEdited(o) PROVE Shape(flow')
<1>1. \E field, value : A!Becomes(o, field, value)
  BY DEF A!ObjectEdited, A!Renamed, A!Retyped, A!Set, A!Nested, A!Lengthened, A!Anonymous, A!Tracked,
         A!Deviates, A!Pointed, A!Buried, A!Labelled, A!Swapped, A!Compared, A!Written, A!Prompted
<1>2. PICK field, value : A!Becomes(o, field, value)
  BY <1>1
<1>3. flow' = [flow EXCEPT !.objects = [flow.objects EXCEPT ![o] = [flow.objects[o] EXCEPT ![field] = value]]]
  BY <1>2 DEF A!Becomes
<1>. QED
  BY <1>3, OthersReplaced

LEMMA Reversed == ASSUME NEW S, NEW s \in Seq(S) PROVE A!Reverse(s) \in Seq(S)
<1>1. \A i \in 1..Len(s) : s[(Len(s) - i) + 1] \in S
  OBVIOUS
<1>. QED
  BY <1>1 DEF A!Reverse

LEMMA Fronted == ASSUME NEW S, NEW s \in Seq(S), s # <<>> PROVE A!Front(s) \in Seq(S)
<1>1. \A i \in 1..(Len(s) - 1) : s[i] \in S
  OBVIOUS
<1>. QED
  BY <1>1, SubSeqProperties DEF A!Front

\* One container's list of actions, or of choices, is another.
LEMMA ActionsEdited ==
  ASSUME Shape(flow), NEW c \in Boxes, NEW s \in Seq(Parts), flow' = [flow EXCEPT !.actions[c] = s]
  PROVE  Shape(flow')
<1>1. [flow.actions EXCEPT ![c] = s] \in [Boxes -> Seq(Parts)]
  BY DEF Shape
<1>2. flow' = [flow EXCEPT !.actions = [flow.actions EXCEPT ![c] = s]]
  OBVIOUS
<1>. QED
  BY <1>1, <1>2, ListsReplaced

LEMMA ChoicesEdited ==
  ASSUME Shape(flow), NEW c \in Boxes, NEW s \in Seq(Options), flow' = [flow EXCEPT !.choices[c] = s]
  PROVE  Shape(flow')
<1>1. [flow.choices EXCEPT ![c] = s] \in [Boxes -> Seq(Options)]
  BY DEF Shape
<1>2. flow' = [flow EXCEPT !.choices = [flow.choices EXCEPT ![c] = s]]
  OBVIOUS
<1>. QED
  BY <1>1, <1>2, ListsReplaced

LEMMA FlowEditKeeps == ASSUME Shape(flow), A!FlowEdited PROVE Shape(flow')
<1>1. /\ A!Containers = Boxes /\ flow.order \in Seq(Boxes)
      /\ \A c \in Boxes : flow.actions[c] \in Seq(Parts) /\ flow.choices[c] \in Seq(Options)
  BY DEF Shape, A!Containers
<1>2. CASE A!Reordered
  <2>1. PICK c \in Boxes :
          \/ flow' = [flow EXCEPT !.order = A!Reverse(flow.order)]
          \/ flow' = [flow EXCEPT !.actions[c] = A!Reverse(flow.actions[c])]
          \/ flow' = [flow EXCEPT !.choices[c] = A!Reverse(flow.choices[c])]
    BY <1>1, <1>2 DEF A!Reordered
  <2>2. /\ A!Reverse(flow.order) \in Seq(Boxes) /\ A!Reverse(flow.actions[c]) \in Seq(Parts)
        /\ A!Reverse(flow.choices[c]) \in Seq(Options)
    BY <1>1, Reversed
  <2>. QED
    BY <2>1, <2>2, ListsReplaced, ActionsEdited, ChoicesEdited
<1>3. CASE A!Inserted
  <2>1. PICK c \in Boxes : flow' = [flow EXCEPT !.actions[c] = Append(flow.actions[c], "spare")]
    BY <1>1, <1>3 DEF A!Inserted
  <2>2. "spare" \in Parts
    BY DEF Parts, Base
  <2>3. Append(flow.actions[c], "spare") \in Seq(Parts)
    BY <1>1, <2>2
  <2>. QED
    BY <2>1, <2>3, ActionsEdited
<1>4. CASE A!Deleted
  <2>1. PICK c \in Boxes :
          \/ flow.actions[c] # <<>> /\ flow' = [flow EXCEPT !.actions[c] = A!Front(flow.actions[c])]
          \/ flow.choices[c] # <<>> /\ flow' = [flow EXCEPT !.choices[c] = A!Front(flow.choices[c])]
    BY <1>1, <1>4 DEF A!Deleted
  <2>2. /\ flow.actions[c] # <<>> => A!Front(flow.actions[c]) \in Seq(Parts)
        /\ flow.choices[c] # <<>> => A!Front(flow.choices[c]) \in Seq(Options)
    BY <1>1, Fronted
  <2>. QED
    BY <2>1, <2>2, ActionsEdited, ChoicesEdited
<1>5. ASSUME NEW field \in {"digit", "name"}, A!ChoiceEdited(field) PROVE Shape(flow')
  <2>1. PICK c \in Boxes : \E i \in DOMAIN flow.choices[c] :
          flow' = [flow EXCEPT !.choices[c][i] = [flow.choices[c][i] EXCEPT ![field] = 10 - @]]
    BY <1>1, <1>5 DEF A!ChoiceEdited
  <2>2. PICK i \in DOMAIN flow.choices[c] :
          flow' = [flow EXCEPT !.choices[c][i] = [flow.choices[c][i] EXCEPT ![field] = 10 - @]]
    BY <2>1
  <2>. DEFINE ch == flow.choices[c][i]
              new == [ch EXCEPT ![field] = 10 - ch[field]]
              s == [flow.choices[c] EXCEPT ![i] = new]
  <2>3. ch \in Options
    BY <1>1, <2>2
  <2>4. new \in Options
    <3>1. ch[field] \in Int
      BY <2>3 DEF Options
    <3>2. 10 - ch[field] \in Int
      BY <3>1
    <3>. HIDE DEF ch
    <3>. QED
      BY <2>3, <3>2 DEF Options
  <2>5. s \in Seq(Options)
    <3>. HIDE DEF new
    <3>. QED
      BY <1>1, <2>2, <2>4
  <2>6. flow' = [flow EXCEPT !.choices[c] = s]
    <3>1. flow' = [flow EXCEPT !.choices[c][i] =
                     [flow.choices[c][i] EXCEPT ![field] = 10 - flow.choices[c][i][field]]]
      BY <2>2
    <3>2. flow' = [flow EXCEPT !.choices[c][i] = new]
      BY <3>1, Zenon
    <3>3. flow' = [flow EXCEPT !.choices = [flow.choices EXCEPT ![c] = s]]
      BY <3>1
    <3>. QED
      BY <3>3, Zenon
  <2>. HIDE DEF s
  <2>. QED
    BY <2>5, <2>6, ChoicesEdited
<1>6. CASE A!Restarted
  BY <1>6, OthersReplaced DEF A!Restarted
<1>7. CASE A!VariableEdited
  <2>1. \E to : flow' = [flow EXCEPT !.variables = to]
    BY <1>7 DEF A!VariableEdited
  <2>. QED
    BY <2>1, OthersReplaced
<1>8. CASE A!DependencyEdited
  <2>1. \E to : flow' = [flow EXCEPT !.manifest = to]
    BY <1>8 DEF A!DependencyEdited
  <2>. QED
    BY <2>1, OthersReplaced
<1>9. CASE A!Described
  <2>1. \E to : flow' = [flow EXCEPT !.meta = to]
    BY <1>9 DEF A!Described
  <2>. QED
    BY <2>1, OthersReplaced
<1>10. CASE A!Published
  <2>1. \E to : flow' = [flow EXCEPT !.version = to]
    BY <1>10 DEF A!Published
  <2>. QED
    BY <2>1, OthersReplaced
<1>11. CASE A!ListDeviates
  <2>1. \E to : flow' = [flow EXCEPT !.shapeless = to]
    BY <1>11 DEF A!ListDeviates
  <2>. QED
    BY <2>1, OthersReplaced
<1>. QED
  BY <1>2, <1>3, <1>4, <1>5, <1>6, <1>7, <1>8, <1>9, <1>10, <1>11 DEF A!FlowEdited

\* An answer is about the two configurations as they are.
DiffInv ==
  /\ Shape(captured) /\ Shape(flow)
  /\ Compared => report = D!Answer(Normalized(captured), Normalized(flow))

LEMMA FlowShape ==
  ASSUME NEW anonymous, NEW unknown \in Seq(Parts) PROVE Shape(Flow(anonymous, unknown))
<1>. DEFINE f == Flow(anonymous, unknown)
<1>1. /\ DOMAIN f = {"start", "order", "actions", "choices", "objects", "variables", "manifest", "meta", "version",
               "shapeless"}
      /\ f.order = <<"menu", "task">>
      /\ f.actions = [menu |-> <<>>, task |-> <<"decide", "play">> \o unknown]
      /\ f.choices = [menu |-> <<[id |-> "c1", digit |-> 1, name |-> 3, action |-> "first"],
                                 [id |-> "c2", digit |-> 2, name |-> 4, action |-> "second"]>>,
                      task |-> <<>>]
  BY DEF Flow
<1>2. {"decide", "play", "first", "second"} \subseteq Parts
  BY DEF Parts, Base
<1>. HIDE DEF f
<1>3. f.order \in Seq(Boxes)
  BY <1>1 DEF Boxes
<1>4. <<"decide", "play">> \o unknown \in Seq(Parts)
  <2>1. <<"decide", "play">> \in Seq(Parts)
    BY <1>2
  <2>. QED
    BY <2>1
<1>5. f.actions \in [Boxes -> Seq(Parts)]
  <2>1. ASSUME NEW v \in Seq(Parts) PROVE [menu |-> <<>>, task |-> v] \in [Boxes -> Seq(Parts)]
    <3>. DEFINE r == [menu |-> <<>>, task |-> v]
    <3>1. <<>> \in Seq(Parts)
      OBVIOUS
    <3>2. DOMAIN r = Boxes /\ r = [b \in DOMAIN r |-> r[b]]
      BY DEF Boxes
    <3>3. r["menu"] \in Seq(Parts) /\ r["task"] \in Seq(Parts)
      BY <3>1
    <3>. HIDE DEF r
    <3>4. \A b \in Boxes : r[b] \in Seq(Parts)
      BY <3>3 DEF Boxes
    <3>5. r \in [Boxes -> Seq(Parts)]
      BY <3>2, <3>4
    <3>. QED
      BY <3>5 DEF r
  <2>. QED
    BY <1>1, <1>4, <2>1
<1>6. <<[id |-> "c1", digit |-> 1, name |-> 3, action |-> "first"],
        [id |-> "c2", digit |-> 2, name |-> 4, action |-> "second"]>> \in Seq(Options)
  BY <1>2 DEF Options
<1>7. f.choices \in [Boxes -> Seq(Options)]
  <2>1. ASSUME NEW v \in Seq(Options) PROVE [menu |-> v, task |-> <<>>] \in [Boxes -> Seq(Options)]
    <3>. DEFINE r == [menu |-> v, task |-> <<>>]
    <3>1. <<>> \in Seq(Options)
      OBVIOUS
    <3>2. DOMAIN r = Boxes /\ r = [b \in DOMAIN r |-> r[b]]
      BY DEF Boxes
    <3>3. r["menu"] \in Seq(Options) /\ r["task"] \in Seq(Options)
      BY <3>1
    <3>. HIDE DEF r
    <3>4. \A b \in Boxes : r[b] \in Seq(Options)
      BY <3>3 DEF Boxes
    <3>5. r \in [Boxes -> Seq(Options)]
      BY <3>2, <3>4
    <3>. QED
      BY <3>5 DEF r
  <2>. QED
    BY <1>1, <1>6, <2>1
<1>. QED
  BY <1>1, <1>3, <1>5, <1>7 DEF Shape, f

LEMMA DiffInit == FlowInit => DiffInv
<1>. SUFFICES ASSUME FlowInit PROVE DiffInv
  OBVIOUS
<1>1. /\ flow \in {Flow({}, <<>>), Flow({"play"}, <<>>), Flow({}, <<"spare">>)}
      /\ captured = flow /\ report = Absent
  BY DEF FlowInit
<1>2. <<>> \in Seq(Parts) /\ <<"spare">> \in Seq(Parts)
  BY DEF Parts, Base
<1>3. Shape(flow)
  BY <1>1, <1>2, FlowShape
<1>. QED
  BY <1>1, <1>3 DEF DiffInv, Compared

LEMMA DiffStep == ASSUME DiffInv, [FlowNext]_<<subject, diff, analysis>>
                  PROVE  DiffInv'
<1>1. DiffNext \/ UNCHANGED diff
  BY DEF FlowNext
<1>2. CASE UNCHANGED diff
  BY <1>2 DEF diff, DiffInv, Compared
<1>3. ASSUME Edit(Shape(flow')) PROVE DiffInv'
  BY <1>3 DEF Edit, DiffInv, Compared
<1>4. ASSUME NEW o \in A!Objects, Edit(A!ObjectEdited(o)) PROVE DiffInv'
  <2>1. Shape(flow')
    BY <1>4, ObjectEditKeeps DEF Edit, DiffInv
  <2>. QED
    BY <1>3, <1>4, <2>1 DEF Edit
<1>5. CASE Edit(A!FlowEdited)
  <2>1. Shape(flow')
    BY <1>5, FlowEditKeeps DEF Edit, DiffInv
  <2>. QED
    BY <1>3, <1>5, <2>1 DEF Edit
<1>6. CASE D!Compare
  <2>1. UNCHANGED <<captured, flow>>
    BY <1>6 DEF D!Compare
  <2>2. \/ \E side \in {"from", "to"} : report' = [failed |-> side]
        \/ report' = D!Answer(Normalized(captured), Normalized(flow))
    BY <1>6 DEF D!Compare, D!Failure, D!LoadSnapshot, NormalizedAs, Normalized
  <2>3. CASE \E side \in {"from", "to"} : report' = [failed |-> side]
    <3>1. report'.failed # Absent
      BY <2>3, FlowAssumption
    <3>. QED
      BY <2>1, <3>1 DEF DiffInv, Compared
  <2>4. CASE report' = D!Answer(Normalized(captured), Normalized(flow))
    <3>1. Normalized(captured)' = Normalized(captured) /\ Normalized(flow)' = Normalized(flow)
      BY <2>1
    <3>. QED
      BY <2>1, <2>4 DEF DiffInv
  <2>. QED
    BY <2>2, <2>3, <2>4
<1>. QED
  BY <1>1, <1>2, <1>4, <1>5, <1>6 DEF DiffNext

LEMMA DiffAlways == FlowSpec => []DiffInv
<1>1. DiffInv /\ [FlowNext]_<<subject, diff, analysis>> => DiffInv'
  BY DiffStep
<1>. QED
  BY DiffInit, <1>1, PTL DEF FlowSpec

LEMMA ComparedIs ==
  ASSUME DiffInv, Compared
  PROVE  /\ report.before = Normalized(captured) /\ report.after = Normalized(flow)
         /\ report = D!Answer(Normalized(captured), Normalized(flow))
<1>1. report = D!Answer(Normalized(captured), Normalized(flow))
  BY DEF DiffInv
<1>. DEFINE b == Normalized(captured)
            a == Normalized(flow)
<1>. HIDE DEF b, a
<1>2. D!Answer(b, a).before = b /\ D!Answer(b, a).after = a
  BY DEF D!Answer
<1>. QED
  BY <1>1, <1>2 DEF a, b

\* normalizeFlow (normalize.ts, extract-nodes.ts, extract-edges.ts): however often and in
\* whatever way a flow was edited, every place of its arrays and every reference in a form
\* the walks know, of an object with a GUID, is in the snapshot or among its warnings, and
\* every edge joins two nodes.  Lists that are no arrays and the other references are what
\* the code drops without a word, and no part of this.
THEOREM NothingIsLeftOutOfASnapshot == FlowSpec => []EverythingRepresented
<1>1. DiffInv => EverythingRepresented
  <2>. SUFFICES ASSUME DiffInv, Compared PROVE EverythingRepresented
    BY DEF EverythingRepresented
  <2>1. report.after = Normalized(flow) /\ Shape(flow)
    BY ComparedIs DEF DiffInv
  <2>2. \A e \in report.after.edges : {e.from, e.to} \subseteq DOMAIN report.after.nodes
    BY <2>1, EdgesJoinNodes
  <2>3. ToSet(N!Walk(flow)) = N!ToSet(N!Walk(flow))
    BY DEF ToSet, N!ToSet
  <2>4. \A p \in {q \in ToSet(N!Walk(flow)) : N!Reached(flow, q)} : Represented(flow, p)
    BY <2>1, <2>3, PlacesAreRepresented
  <2>. QED
    BY <2>2, <2>4 DEF EverythingRepresented
<1>. QED
  BY DiffAlways, <1>1, PTL

-----------------------------------------------------------------------------
(* Sets listed in some order *)

\* The element that is listed last of a set.
Chosen(s) == CHOOSE x \in s : TRUE
\* h lists those of ss, a set of sets that has with a set each of its subsets.
Listing(ss, h) ==
  h = [s \in ss |-> IF s = {} THEN <<>> ELSE Append(h[s \ {Chosen(s)}], Chosen(s))]
UpTo(S, n) == {s \in SUBSET S : Cardinality(s) <= n}

LEMMA ListingIs ==
  ASSUME NEW ss, NEW h, Listing(ss, h)
  PROVE  \A s \in ss : h[s] = IF s = {} THEN <<>>
                              ELSE Append(h[s \ {Chosen(s)}], Chosen(s))
  BY DEF Listing

\* One element less.
LEMMA Rest ==
  ASSUME NEW S, IsFiniteSet(S), NEW s \in SUBSET S, s # {}, NEW x, x = Chosen(s)
  PROVE  /\ x \in s /\ s \ {x} \in SUBSET S /\ Cardinality(s) \in Nat
         /\ Cardinality(s \ {x}) \in Nat /\ Cardinality(s \ {x}) = Cardinality(s) - 1
<1>1. x \in s
  BY DEF Chosen
<1>2. IsFiniteSet(s)
  BY FS_Subset
<1>3. IsFiniteSet(s \ {x}) /\ Cardinality(s \ {x}) = Cardinality(s) - 1
  BY <1>1, <1>2, FS_RemoveElement
<1>. QED
  BY <1>1, <1>2, <1>3, FS_CardinalityType

LEMMA Listable ==
  ASSUME NEW S, IsFiniteSet(S)
  PROVE  \E h : Listing(SUBSET S, h)
<1>. DEFINE T == {n \in Nat : ~ \E h : Listing(UpTo(S, n), h)}
<1>1. T = {}
  <2>. SUFFICES ASSUME T # {} PROVE FALSE
    OBVIOUS
  <2>1. PICK n \in T : \A m \in T : n <= m
    <3>. T \subseteq Nat
      OBVIOUS
    <3>. HIDE DEF T
    <3>. QED
      BY Least
  <2>2. n \in Nat /\ ~ \E h : Listing(UpTo(S, n), h)
    OBVIOUS
  <2>3. n # 0
    <3>. DEFINE h == [s \in UpTo(S, 0) |-> <<>>]
    <3>1. \A s \in UpTo(S, 0) : s = {}
      <4>. SUFFICES ASSUME NEW s \in UpTo(S, 0) PROVE s = {}
        OBVIOUS
      <4>1. s \in SUBSET S /\ Cardinality(s) <= 0
        BY DEF UpTo
      <4>2. IsFiniteSet(s)
        BY <4>1, FS_Subset
      <4>3. Cardinality(s) = 0
        BY <4>1, <4>2, FS_CardinalityType
      <4>. QED
        BY <4>2, <4>3, FS_EmptySet
    <3>2. h = [s \in UpTo(S, 0) |-> IF s = {} THEN <<>>
                 ELSE Append(h[s \ {Chosen(s)}], Chosen(s))]
      BY <3>1
    <3>3. Listing(UpTo(S, 0), h)
      <4>. HIDE DEF h
      <4>. QED
        BY <3>2 DEF Listing
    <3>. HIDE DEF h
    <3>. QED
      BY <2>2, <3>3
  <2>4. PICK h : Listing(UpTo(S, n - 1), h)
    <3>1. n - 1 \in Nat /\ ~(n <= n - 1)
      BY <2>2, <2>3
    <3>2. n - 1 \notin T
      <4>. HIDE DEF T
      <4>. QED
        BY <2>1, <3>1
    <3>. QED
      BY <3>1, <3>2
  <2>. DEFINE g == [s \in UpTo(S, n) |->
                      IF s = {} THEN <<>>
                      ELSE IF Cardinality(s) <= n - 1 THEN h[s]
                      ELSE Append(h[s \ {Chosen(s)}], Chosen(s))]
  <2>5. ASSUME NEW s \in UpTo(S, n)
        PROVE  g[s] = IF s = {} THEN <<>> ELSE Append(g[s \ {Chosen(s)}], Chosen(s))
    <3>1. s \in SUBSET S /\ Cardinality(s) <= n
      BY DEF UpTo
    <3>2. CASE s = {}
      BY <3>2
    <3>3. CASE s # {}
      <4>. DEFINE x == Chosen(s)
                  t == s \ {x}
      <4>1. /\ x \in s /\ t \in SUBSET S /\ Cardinality(s) \in Nat
            /\ Cardinality(t) \in Nat /\ Cardinality(t) = Cardinality(s) - 1
        BY <3>1, <3>3, Rest
      <4>2. t \in UpTo(S, n) /\ t \in UpTo(S, n - 1) /\ Cardinality(t) <= n - 1
        BY <2>2, <3>1, <4>1 DEF UpTo
      <4>3. g[t] = h[t]
        <5>1. CASE t = {}
          <6>1. h[t] = <<>>
            BY <2>4, <4>2, <5>1, ListingIs
          <6>. HIDE DEF t
          <6>. QED
            BY <4>2, <5>1, <6>1
        <5>2. CASE t # {}
          <6>. HIDE DEF t
          <6>. QED
            BY <4>2, <5>2
        <5>. QED
          BY <5>1, <5>2
      <4>4. g[s] = Append(h[t], x)
        <5>1. CASE Cardinality(s) <= n - 1
          <6>1. s \in UpTo(S, n - 1)
            BY <3>1, <5>1 DEF UpTo
          <6>2. h[s] = IF s = {} THEN <<>> ELSE Append(h[s \ {Chosen(s)}], Chosen(s))
            BY <2>4, <6>1, ListingIs, ZenonT(40)
          <6>3. h[s] = Append(h[t], x)
            BY <3>3, <6>2
          <6>4. g[s] = h[s]
            BY <3>3, <5>1
          <6>. QED
            BY <6>3, <6>4
        <5>2. CASE ~(Cardinality(s) <= n - 1)
          BY <3>3, <5>2
        <5>. QED
          BY <5>1, <5>2
      <4>. HIDE DEF g
      <4>. QED
        BY <3>3, <4>3, <4>4
    <3>. QED
      BY <3>2, <3>3
  <2>. DEFINE k == [s \in UpTo(S, n) |-> IF s = {} THEN <<>>
                      ELSE Append(g[s \ {Chosen(s)}], Chosen(s))]
  <2>6. \A s \in UpTo(S, n) : g[s] = k[s]
    <3>. HIDE DEF g
    <3>. QED
      BY <2>5
  <2>7. g = [s \in UpTo(S, n) |-> g[s]]
    OBVIOUS
  <2>8. k = [s \in UpTo(S, n) |-> k[s]]
    OBVIOUS
  <2>9. g = k
    <3>. HIDE DEF g, k
    <3>. QED
      BY <2>6, <2>7, <2>8
  <2>10. Listing(UpTo(S, n), g)
    <3>. HIDE DEF g
    <3>. QED
      BY <2>9 DEF Listing
  <2>. HIDE DEF g
  <2>. QED
    BY <2>2, <2>10
<1>2. UpTo(S, Cardinality(S)) = SUBSET S
  BY FS_Subset DEF UpTo
<1>3. Cardinality(S) \in Nat
  BY FS_CardinalityType
<1>4. Cardinality(S) \notin T
  BY <1>1
<1>. QED
  BY <1>2, <1>3, <1>4

\* A finite set is listed once and for all.
LEMMA InOrderIs ==
  ASSUME NEW S, IsFiniteSet(S)
  PROVE  /\ D!InOrder(S) \in Seq(S)
         /\ \A x \in S : \E i \in DOMAIN D!InOrder(S) : D!InOrder(S)[i] = x
<1>. DEFINE h == CHOOSE f : Listing(SUBSET S, f)
            In(s, x) == \E i \in DOMAIN s : s[i] = x
            Right(s) == h[s] \in Seq(S) /\ \A x \in s : In(h[s], x)
            T == {n \in Nat : \E s \in SUBSET S : Cardinality(s) = n /\ ~Right(s)}
<1>1. D!InOrder(S) = h[S]
  BY DEF D!InOrder, D!FoldSet, D!MapThenFoldSet, Listing, Chosen
<1>2. Listing(SUBSET S, h)
  BY Listable
<1>. HIDE DEF h
<1>3. \A s \in SUBSET S : h[s] = IF s = {} THEN <<>>
                                 ELSE Append(h[s \ {Chosen(s)}], Chosen(s))
  BY <1>2, ListingIs, Zenon
<1>4. T = {}
  <2>. SUFFICES ASSUME T # {} PROVE FALSE
    OBVIOUS
  <2>1. PICK n \in T : \A m \in T : n <= m
    <3>. T \subseteq Nat
      OBVIOUS
    <3>. HIDE DEF T
    <3>. QED
      BY Least
  <2>2. PICK s \in SUBSET S : Cardinality(s) = n /\ ~Right(s)
    OBVIOUS
  <2>3. s # {}
    <3>1. CASE s = {}
      <4>1. h[s] = <<>>
        BY <1>3, <3>1, Zenon
      <4>2. <<>> \in Seq(S)
        OBVIOUS
      <4>. QED
        BY <2>2, <3>1, <4>1, <4>2
    <3>. QED
      BY <3>1
  <2>. DEFINE x == Chosen(s)
              t == s \ {x}
  <2>4. /\ x \in s /\ t \in SUBSET S /\ Cardinality(s) \in Nat
        /\ Cardinality(t) \in Nat /\ Cardinality(t) = Cardinality(s) - 1
    BY <2>3, Rest
  <2>5. h[s] = Append(h[t], x)
    <3>1. h[s] = IF s = {} THEN <<>> ELSE Append(h[s \ {Chosen(s)}], Chosen(s))
      BY <1>3, Zenon
    <3>. QED
      BY <2>3, <3>1
  <2>6. \A y \in s : y = x \/ y \in t
    OBVIOUS
  <2>. HIDE DEF x, t
  <2>7. Right(t)
    <3>1. Cardinality(t) \notin T
      <4>1. ~(n <= Cardinality(t))
        BY <2>2, <2>4
      <4>. HIDE DEF T
      <4>. QED
        BY <2>1, <4>1
    <3>. HIDE DEF Right
    <3>. QED
      BY <2>4, <3>1
  <2>8. x \in S /\ h[t] \in Seq(S)
    BY <2>4, <2>7
  <2>9. h[s] \in Seq(S) /\ \A y : In(h[t], y) \/ y = x => In(h[s], y)
    <3>. DEFINE u == h[t]
                v == Append(u, x)
    <3>1. u \in Seq(S)
      BY <2>8
    <3>2. /\ v \in Seq(S) /\ Len(v) = Len(u) + 1 /\ v[Len(u) + 1] = x
          /\ \A i \in 1..Len(u) : v[i] = u[i]
      <4>. HIDE DEF u
      <4>. QED
        BY <2>8, <3>1, AppendProperties
    <3>. HIDE DEF u, v
    <3>3. Len(u) \in Nat /\ DOMAIN u = 1..Len(u) /\ DOMAIN v = 1..(Len(u) + 1)
      BY <3>1, <3>2
    <3>4. \A i \in DOMAIN u : i \in DOMAIN v /\ v[i] = u[i]
      BY <3>2, <3>3
    <3>5. Len(u) + 1 \in DOMAIN v
      BY <3>3
    <3>6. \A y : In(u, y) \/ y = x => In(v, y)
      BY <3>2, <3>4, <3>5
    <3>7. h[s] = v
      BY <2>5 DEF u, v
    <3>. HIDE DEF In
    <3>. QED
      BY <3>2, <3>6, <3>7 DEF u
  <2>10. Right(s)
    <3>. HIDE DEF In
    <3>. QED
      BY <2>6, <2>7, <2>9
  <2>. QED
    BY <2>2, <2>10
<1>5. Cardinality(S) \in Nat /\ Cardinality(S) \notin T
  BY <1>4, FS_CardinalityType
<1>6. Right(S)
  <2>. HIDE DEF Right
  <2>. QED
    BY <1>5
<1>. QED
  BY <1>1, <1>6

-----------------------------------------------------------------------------
(* The changes of a diff, in order *)

LEMMA SameFlatten == \A ss : D!FlattenSeq(ss) = FlattenSeq(ss)
  BY DEF D!FlattenSeq, FlattenSeq

\* The changes of one category and one operation.
Those(s, category, operation) ==
  FlattenSeq([i \in DOMAIN s |->
    IF s[i].category = category /\ s[i].operation = operation THEN <<s[i]>> ELSE <<>>])

LEMMA ThoseAre ==
  ASSUME NEW X, NEW s \in Seq(X), NEW category, NEW operation
  PROVE  /\ Those(s, category, operation) \in Seq(X)
         /\ \A i \in DOMAIN s : s[i].category = category /\ s[i].operation = operation =>
              \E k \in DOMAIN Those(s, category, operation) : Those(s, category, operation)[k] = s[i]
<1>. DEFINE Part(i) == IF s[i].category = category /\ s[i].operation = operation THEN <<s[i]>> ELSE <<>>
            ss == [i \in DOMAIN s |-> Part(i)]
            t == Those(s, category, operation)
<1>1. t = FlattenSeq(ss)
  BY DEF Those
<1>2. DOMAIN s = 1..Len(s) /\ Len(s) \in Nat
  OBVIOUS
<1>3. \A i \in DOMAIN s : Part(i) \in Seq(X)
  <2>. SUFFICES ASSUME NEW i \in DOMAIN s PROVE Part(i) \in Seq(X)
    OBVIOUS
  <2>1. s[i] \in X
    OBVIOUS
  <2>2. <<s[i]>> \in Seq(X) /\ <<>> \in Seq(X)
    BY <2>1
  <2>. QED
    BY <2>2
<1>4. ss \in Seq(Seq(X)) /\ DOMAIN ss = DOMAIN s /\ \A i \in DOMAIN s : ss[i] = Part(i)
  <2>. HIDE DEF Part
  <2>. QED
    BY <1>2, <1>3
<1>5. \A i \in DOMAIN s : s[i].category = category /\ s[i].operation = operation =>
        1 \in DOMAIN Part(i) /\ Part(i)[1] = s[i]
  OBVIOUS
<1>. HIDE DEF t, ss, Part
<1>6. t \in Seq(X) /\ \A x : (\E i \in DOMAIN t : t[i] = x) <=> \E k \in DOMAIN ss : \E i \in DOMAIN ss[k] : ss[k][i] = x
  <2>1. /\ FlattenSeq(ss) \in Seq(X)
        /\ \A x : (\E i \in DOMAIN FlattenSeq(ss) : FlattenSeq(ss)[i] = x)
                    <=> \E k \in DOMAIN ss : \E i \in DOMAIN ss[k] : ss[k][i] = x
    <3>1. ss \in Seq(Seq(X))
      BY <1>4
    <3>. QED
      BY <3>1, Flattened, Zenon
  <2>. QED
    BY <1>1, <2>1
<1>7. ASSUME NEW i \in DOMAIN s, s[i].category = category, s[i].operation = operation
      PROVE  \E k \in DOMAIN t : t[k] = s[i]
  <2>1. 1 \in DOMAIN ss[i] /\ ss[i][1] = s[i] /\ i \in DOMAIN ss
    BY <1>4, <1>5, <1>7
  <2>. QED
    BY <1>6, <2>1
<1>. QED
  BY <1>6, <1>7 DEF t

LEMMA SortedHolds ==
  ASSUME NEW X, NEW s \in Seq(X)
  PROVE  /\ D!Sorted(s) \in Seq(X)
         /\ \A i \in DOMAIN s :
              (\E a \in DOMAIN D!CategoryOrder, b \in DOMAIN D!OperationOrder :
                 s[i].category = D!CategoryOrder[a] /\ s[i].operation = D!OperationOrder[b])
              => \E k \in DOMAIN D!Sorted(s) : D!Sorted(s)[k] = s[i]
<1>. DEFINE K == D!CategoryOrder
            O == D!OperationOrder
            row(a) == [b \in DOMAIN O |-> Those(s, K[a], O[b])]
            ss == [a \in DOMAIN K |-> FlattenSeq(row(a))]
            t == D!Sorted(s)
<1>1. t = FlattenSeq(ss)
  BY SameFlatten DEF D!Sorted, Those
<1>2. /\ DOMAIN K = 1..11 /\ DOMAIN O = 1..3
  BY DEF D!CategoryOrder, D!OperationOrder
<1>. HIDE DEF K, O, t
<1>3. \A a \in DOMAIN K : row(a) \in Seq(Seq(X))
  <2>1. \A a \in DOMAIN K : \A b \in DOMAIN O : Those(s, K[a], O[b]) \in Seq(X)
    BY ThoseAre
  <2>2. ASSUME NEW a \in DOMAIN K PROVE row(a) \in Seq(Seq(X))
    <3>1. \A b \in 1..3 : Those(s, K[a], O[b]) \in Seq(X)
      BY <1>2, <2>1
    <3>. QED
      BY <1>2, <3>1
  <2>. QED
    BY <2>2
<1>4. \A a \in DOMAIN K, b \in DOMAIN O : row(a)[b] = Those(s, K[a], O[b]) /\ b \in DOMAIN row(a)
  OBVIOUS
<1>. HIDE DEF row
<1>5. \A a \in DOMAIN K : /\ FlattenSeq(row(a)) \in Seq(X)
         /\ \A x : (\E i \in DOMAIN FlattenSeq(row(a)) : FlattenSeq(row(a))[i] = x)
                    <=> \E k \in DOMAIN row(a) : \E i \in DOMAIN row(a)[k] : row(a)[k][i] = x
  BY <1>3, Flattened, Zenon
<1>6. ss \in Seq(Seq(X)) /\ DOMAIN ss = DOMAIN K /\ \A a \in DOMAIN K : ss[a] = FlattenSeq(row(a))
  BY <1>2, <1>5
<1>. HIDE DEF ss
<1>7. /\ t \in Seq(X)
      /\ \A x : (\E i \in DOMAIN t : t[i] = x) <=> \E k \in DOMAIN ss : \E i \in DOMAIN ss[k] : ss[k][i] = x
  <2>1. /\ FlattenSeq(ss) \in Seq(X)
        /\ \A x : (\E i \in DOMAIN FlattenSeq(ss) : FlattenSeq(ss)[i] = x)
                    <=> \E k \in DOMAIN ss : \E i \in DOMAIN ss[k] : ss[k][i] = x
    <3>1. ss \in Seq(Seq(X))
      BY <1>6
    <3>. QED
      BY <3>1, Flattened, Zenon
  <2>. QED
    BY <1>1, <2>1
<1>8. ASSUME NEW i \in DOMAIN s, NEW a \in DOMAIN K, NEW b \in DOMAIN O,
             s[i].category = K[a], s[i].operation = O[b]
      PROVE  \E k \in DOMAIN t : t[k] = s[i]
  <2>1. \E k \in DOMAIN Those(s, K[a], O[b]) : Those(s, K[a], O[b])[k] = s[i]
    <3>1. \A j \in DOMAIN s : s[j].category = K[a] /\ s[j].operation = O[b] =>
            \E k \in DOMAIN Those(s, K[a], O[b]) : Those(s, K[a], O[b])[k] = s[j]
      <4>. DEFINE category == K[a]
                  operation == O[b]
      <4>1. \A j \in DOMAIN s : s[j].category = category /\ s[j].operation = operation =>
              \E k \in DOMAIN Those(s, category, operation) : Those(s, category, operation)[k] = s[j]
        <5>. HIDE DEF category, operation
        <5>. QED
          BY ThoseAre
      <4>. QED
        BY <4>1
    <3>. QED
      BY <1>8, <3>1
  <2>2. \E k \in DOMAIN row(a) : \E j \in DOMAIN row(a)[k] : row(a)[k][j] = s[i]
    BY <1>4, <2>1
  <2>3. \E j \in DOMAIN FlattenSeq(row(a)) : FlattenSeq(row(a))[j] = s[i]
    BY <1>5, <2>2
  <2>4. \E k \in DOMAIN ss : \E j \in DOMAIN ss[k] : ss[k][j] = s[i]
    BY <1>6, <2>3
  <2>. QED
    BY <1>7, <2>4
<1>. QED
  BY <1>7, <1>8 DEF K, O, t

\* What f makes of the elements of a set, in the order of the set.
Mapped(f, S) == [i \in DOMAIN D!InOrder(S) |-> f[D!InOrder(S)[i]]]

LEMMA MappedIs ==
  ASSUME NEW S, IsFiniteSet(S), NEW X, NEW f, \A e \in S : f[e] \in X
  PROVE  Mapped(f, S) \in Seq(X) /\ \A e \in S : Listed(Mapped(f, S), f[e])
<1>. DEFINE l == D!InOrder(S)
            m == [i \in DOMAIN l |-> f[l[i]]]
<1>1. l \in Seq(S) /\ \A x \in S : \E i \in DOMAIN l : l[i] = x
  BY InOrderIs
<1>. HIDE DEF l
<1>2. DOMAIN l = 1..Len(l) /\ Len(l) \in Nat /\ \A i \in DOMAIN l : l[i] \in S
  BY <1>1
<1>3. m \in Seq(X)
  BY <1>2
<1>4. \A e \in S : Listed(m, f[e])
  BY <1>1, <1>2 DEF Listed
<1>. QED
  BY <1>3, <1>4 DEF Mapped, l

LEMMA InOrderLists ==
  ASSUME NEW S, IsFiniteSet(S), NEW X, S \subseteq X
  PROVE  D!InOrder(S) \in Seq(X) /\ \A x \in S : Listed(D!InOrder(S), x)
<1>1. D!InOrder(S) \in Seq(S) /\ \A x \in S : Listed(D!InOrder(S), x)
  BY InOrderIs DEF Listed
<1>. QED
  BY <1>1


\* What a diff finds, before it is put in order.
Presence(e) == D!Change("action-changed", e.id, e.operation, "presence")
Altered(nodes) == {n \in nodes : n.operation = "changed"}
Unmatched(nodes) == {n \in nodes : n.operation # "changed"}
Found(b, a, nodes, edges, variables, dependencies) ==
  D!MetadataChanges(b, a) \cup D!EntryChanges(b, a) \cup {Presence(e) : e \in Unmatched(nodes)}
  \cup {D!ClassifyEdgeChange(e) : e \in edges} \cup {D!VariableChange(e) : e \in variables}
  \cup D!PromptChanges(nodes) \cup {D!DependencyChange(e) : e \in dependencies}
  \cup D!VersionChanges(b, a) \cup D!CoverageWarnings(b, a)
  \cup UNION {D!NodeChanges(e) : e \in Altered(nodes)}

LEMMA NodeChangesAreFew == \A e : IsFiniteSet(D!NodeChanges(e))
<1>. DEFINE s(e) == IF D!Has(e, "supportLevel")
                      THEN {D!Change("coverage-changed", e.id, "changed",
                              D!CoverageDirection(e.before.supportLevel, e.after.supportLevel))} ELSE {}
            t(e) == IF D!Has(e, "settings") THEN {D!ClassifySettingsChange(e)} ELSE {}
            rest(e) == e.changedFields \ {"supportLevel", "settings"}
            u(e) == IF rest(e) # {} THEN {D!ClassifyNodeReconfigured(e, rest(e))} ELSE {}
<1>1. \A e : IsFiniteSet(s(e)) /\ IsFiniteSet(t(e)) /\ IsFiniteSet(u(e))
  BY Few
<1>2. \A e : D!NodeChanges(e) = s(e) \cup t(e) \cup u(e)
  BY DEF D!NodeChanges
<1>. HIDE DEF s, t, u
<1>. QED
  BY <1>1, <1>2, Few

\* Finitely much is found.
FewFound(b, a, nodes, edges, variables, dependencies) ==
  /\ IsFiniteSet(nodes) /\ IsFiniteSet(edges) /\ IsFiniteSet(variables) /\ IsFiniteSet(dependencies)
  /\ IsFiniteSet(D!MetadataChanges(b, a)) /\ IsFiniteSet(D!EntryChanges(b, a))
  /\ IsFiniteSet(D!CoverageWarnings(b, a))

LEMMA BuiltIs ==
  ASSUME NEW b, NEW a, NEW nodes, NEW edges, NEW variables, NEW dependencies,
         FewFound(b, a, nodes, edges, variables, dependencies),
         NEW X, X = Found(b, a, nodes, edges, variables, dependencies)
  PROVE  \E s \in Seq(X) : /\ D!BuildChanges(b, a, nodes, edges, variables, dependencies) = D!Sorted(s)
                           /\ \A c \in X : Listed(s, c)
<1>. USE DEF FewFound
<1>. DEFINE s1 == D!InOrder(D!MetadataChanges(b, a))
            s2 == D!InOrder(D!EntryChanges(b, a))
            s3 == Mapped([e \in nodes |-> Presence(e)], Unmatched(nodes))
            s4 == Mapped([e \in edges |-> D!ClassifyEdgeChange(e)], edges)
            s5 == Mapped([e \in variables |-> D!VariableChange(e)], variables)
            s6 == D!InOrder(D!PromptChanges(nodes))
            s7 == Mapped([e \in dependencies |-> D!DependencyChange(e)], dependencies)
            s8 == D!InOrder(D!VersionChanges(b, a))
            s9 == D!InOrder(D!CoverageWarnings(b, a))
            ss == Mapped([e \in nodes |-> D!InOrder(D!NodeChanges(e))], Altered(nodes))
            s10 == FlattenSeq(ss)
            s == s1 \o s2 \o s3 \o s4 \o s5 \o s6 \o s7 \o s8 \o s9 \o s10
<1>1. D!BuildChanges(b, a, nodes, edges, variables, dependencies) = D!Sorted(s)
  <2>. DEFINE each(f(_), S) == [i \in DOMAIN D!InOrder(S) |-> f(D!InOrder(S)[i])]
              r3 == [i \in DOMAIN D!InOrder(Unmatched(nodes)) |-> Presence(D!InOrder(Unmatched(nodes))[i])]
              r4 == [i \in DOMAIN D!InOrder(edges) |-> D!ClassifyEdgeChange(D!InOrder(edges)[i])]
              r5 == [i \in DOMAIN D!InOrder(variables) |-> D!VariableChange(D!InOrder(variables)[i])]
              r7 == [i \in DOMAIN D!InOrder(dependencies) |-> D!DependencyChange(D!InOrder(dependencies)[i])]
              rr == [i \in DOMAIN D!InOrder(Altered(nodes)) |->
                       D!InOrder(D!NodeChanges(D!InOrder(Altered(nodes))[i]))]
  <2>1. D!BuildChanges(b, a, nodes, edges, variables, dependencies)
          = D!Sorted(s1 \o s2 \o r3 \o r4 \o r5 \o s6 \o r7 \o s8 \o s9 \o D!FlattenSeq(rr))
    BY DEF D!BuildChanges, Presence, Altered, Unmatched
  <2>2. \A S : IsFiniteSet(S) => \A i \in DOMAIN D!InOrder(S) : D!InOrder(S)[i] \in S
    <3>. SUFFICES ASSUME NEW S, IsFiniteSet(S) PROVE \A i \in DOMAIN D!InOrder(S) : D!InOrder(S)[i] \in S
      OBVIOUS
    <3>1. D!InOrder(S) \in Seq(S)
      BY InOrderIs
    <3>. QED
      BY <3>1
  <2>3. /\ IsFiniteSet(Unmatched(nodes)) /\ Unmatched(nodes) \subseteq nodes
        /\ IsFiniteSet(Altered(nodes)) /\ Altered(nodes) \subseteq nodes
    BY Few DEF Unmatched, Altered
  <2>4. r3 = s3
    BY <2>2, <2>3 DEF Mapped
  <2>5. r4 = s4
    BY <2>2 DEF Mapped
  <2>6. r5 = s5
    BY <2>2 DEF Mapped
  <2>7. r7 = s7
    BY <2>2 DEF Mapped
  <2>8. rr = ss
    BY <2>2, <2>3 DEF Mapped
  <2>. HIDE DEF r3, r4, r5, r7, rr, s1, s2, s3, s4, s5, s6, s7, s8, s9, ss
  <2>. QED
    BY <2>1, <2>4, <2>5, <2>6, <2>7, <2>8, SameFlatten
<1>2. /\ D!MetadataChanges(b, a) \subseteq X /\ D!EntryChanges(b, a) \subseteq X
      /\ \A e \in Unmatched(nodes) : Presence(e) \in X
      /\ \A e \in edges : D!ClassifyEdgeChange(e) \in X
      /\ \A e \in variables : D!VariableChange(e) \in X
      /\ D!PromptChanges(nodes) \subseteq X
      /\ \A e \in dependencies : D!DependencyChange(e) \in X
      /\ D!VersionChanges(b, a) \subseteq X /\ D!CoverageWarnings(b, a) \subseteq X
      /\ \A e \in Altered(nodes) : D!NodeChanges(e) \subseteq X
  BY DEF Found
<1>3. /\ IsFiniteSet(Unmatched(nodes)) /\ IsFiniteSet(Altered(nodes))
      /\ Unmatched(nodes) \subseteq nodes /\ Altered(nodes) \subseteq nodes
  BY Few DEF Unmatched, Altered
<1>4. IsFiniteSet(D!PromptChanges(nodes)) /\ IsFiniteSet(D!VersionChanges(b, a))
  <2>. DEFINE played == {n \in nodes : D!Has(n, "promptRefs")}
              f == [e \in nodes |-> D!Change("prompt-reference-changed", e.id, "changed", "node")]
  <2>1. D!PromptChanges(nodes) = {f[e] : e \in played}
    BY DEF D!PromptChanges
  <2>2. IsFiniteSet(played)
    BY Few
  <2>3. IsFiniteSet({f[e] : e \in played})
    <3>. HIDE DEF f, played
    <3>. QED
      BY <2>2, ImageIsFinite
  <2>4. IsFiniteSet(D!VersionChanges(b, a))
    BY Few DEF D!VersionChanges
  <2>. QED
    BY <2>1, <2>3, <2>4
<1>5. s1 \in Seq(X) /\ \A c \in D!MetadataChanges(b, a) : Listed(s1, c)
  BY <1>2, InOrderLists
<1>6. s2 \in Seq(X) /\ \A c \in D!EntryChanges(b, a) : Listed(s2, c)
  BY <1>2, InOrderLists
<1>7. s3 \in Seq(X) /\ \A e \in Unmatched(nodes) : Listed(s3, Presence(e))
  <2>. DEFINE f == [e \in nodes |-> Presence(e)]
  <2>1. \A e \in Unmatched(nodes) : f[e] = Presence(e)
    BY <1>3
  <2>. HIDE DEF f
  <2>2. Mapped(f, Unmatched(nodes)) \in Seq(X) /\ \A e \in Unmatched(nodes) : Listed(Mapped(f, Unmatched(nodes)), f[e])
    BY <1>2, <1>3, <2>1, MappedIs
  <2>. QED
    BY <2>1, <2>2 DEF f
<1>8. s4 \in Seq(X) /\ \A e \in edges : Listed(s4, D!ClassifyEdgeChange(e))
  <2>. DEFINE f == [e \in edges |-> D!ClassifyEdgeChange(e)]
  <2>1. \A e \in edges : f[e] = D!ClassifyEdgeChange(e)
    OBVIOUS
  <2>. HIDE DEF f
  <2>2. Mapped(f, edges) \in Seq(X) /\ \A e \in edges : Listed(Mapped(f, edges), f[e])
    BY <1>2, <2>1, MappedIs
  <2>. QED
    BY <2>1, <2>2 DEF f
<1>9. s5 \in Seq(X) /\ \A e \in variables : Listed(s5, D!VariableChange(e))
  <2>. DEFINE f == [e \in variables |-> D!VariableChange(e)]
  <2>1. \A e \in variables : f[e] = D!VariableChange(e)
    OBVIOUS
  <2>. HIDE DEF f
  <2>2. Mapped(f, variables) \in Seq(X) /\ \A e \in variables : Listed(Mapped(f, variables), f[e])
    BY <1>2, <2>1, MappedIs
  <2>. QED
    BY <2>1, <2>2 DEF f
<1>10. s6 \in Seq(X) /\ \A c \in D!PromptChanges(nodes) : Listed(s6, c)
  BY <1>2, <1>4, InOrderLists
<1>11. s7 \in Seq(X) /\ \A e \in dependencies : Listed(s7, D!DependencyChange(e))
  <2>. DEFINE f == [e \in dependencies |-> D!DependencyChange(e)]
  <2>1. \A e \in dependencies : f[e] = D!DependencyChange(e)
    OBVIOUS
  <2>. HIDE DEF f
  <2>2. Mapped(f, dependencies) \in Seq(X) /\ \A e \in dependencies : Listed(Mapped(f, dependencies), f[e])
    BY <1>2, <2>1, MappedIs
  <2>. QED
    BY <2>1, <2>2 DEF f
<1>12. s8 \in Seq(X) /\ \A c \in D!VersionChanges(b, a) : Listed(s8, c)
  BY <1>2, <1>4, InOrderLists
<1>13. s9 \in Seq(X) /\ \A c \in D!CoverageWarnings(b, a) : Listed(s9, c)
  BY <1>2, InOrderLists
<1>14. s10 \in Seq(X) /\ \A e \in Altered(nodes) : \A c \in D!NodeChanges(e) : Listed(s10, c)
  <2>. DEFINE f == [e \in nodes |-> D!InOrder(D!NodeChanges(e))]
  <2>1. \A e \in Altered(nodes) : f[e] = D!InOrder(D!NodeChanges(e))
    BY <1>3
  <2>2. \A e \in Altered(nodes) : /\ D!InOrder(D!NodeChanges(e)) \in Seq(X)
                                  /\ \A c \in D!NodeChanges(e) : Listed(D!InOrder(D!NodeChanges(e)), c)
    BY <1>2, NodeChangesAreFew, InOrderLists
  <2>. HIDE DEF f
  <2>3. ss \in Seq(Seq(X)) /\ \A e \in Altered(nodes) : Listed(ss, f[e])
    <3>1. \A e \in Altered(nodes) : f[e] \in Seq(X)
      BY <2>1, <2>2
    <3>2. Mapped(f, Altered(nodes)) \in Seq(Seq(X)) /\ \A e \in Altered(nodes) : Listed(Mapped(f, Altered(nodes)), f[e])
      BY <1>3, <3>1, MappedIs
    <3>. QED
      BY <3>2 DEF f
  <2>. HIDE DEF ss
  <2>4. s10 \in Seq(X) /\ \A x : Listed(s10, x) <=> \E k \in DOMAIN ss : Listed(ss[k], x)
    BY <2>3, FlattenLists, Zenon
  <2>5. ASSUME NEW e \in Altered(nodes), NEW c \in D!NodeChanges(e) PROVE Listed(s10, c)
    <3>1. PICK k \in DOMAIN ss : ss[k] = f[e]
      BY <2>3 DEF Listed
    <3>2. Listed(ss[k], c)
      BY <2>1, <2>2, <3>1
    <3>. QED
      BY <2>4, <3>2
  <2>. QED
    BY <2>4, <2>5
<1>. HIDE DEF s1, s2, s3, s4, s5, s6, s7, s8, s9, s10, ss
<1>. DEFINE t2 == s1 \o s2
            t3 == t2 \o s3
            t4 == t3 \o s4
            t5 == t4 \o s5
            t6 == t5 \o s6
            t7 == t6 \o s7
            t8 == t7 \o s8
            t9 == t8 \o s9
            t10 == t9 \o s10
<1>15. s = t10
  OBVIOUS
<1>16. t2 \in Seq(X) /\ \A x : Listed(t2, x) <=> Listed(s1, x) \/ Listed(s2, x)
  BY <1>5, <1>6, Concatenated
<1>. HIDE DEF t2
<1>17. t3 \in Seq(X) /\ \A x : Listed(t3, x) <=> Listed(t2, x) \/ Listed(s3, x)
  BY <1>7, <1>16, Concatenated
<1>. HIDE DEF t3
<1>18. t4 \in Seq(X) /\ \A x : Listed(t4, x) <=> Listed(t3, x) \/ Listed(s4, x)
  BY <1>8, <1>17, Concatenated
<1>. HIDE DEF t4
<1>19. t5 \in Seq(X) /\ \A x : Listed(t5, x) <=> Listed(t4, x) \/ Listed(s5, x)
  BY <1>9, <1>18, Concatenated
<1>. HIDE DEF t5
<1>20. t6 \in Seq(X) /\ \A x : Listed(t6, x) <=> Listed(t5, x) \/ Listed(s6, x)
  BY <1>10, <1>19, Concatenated
<1>. HIDE DEF t6
<1>21. t7 \in Seq(X) /\ \A x : Listed(t7, x) <=> Listed(t6, x) \/ Listed(s7, x)
  BY <1>11, <1>20, Concatenated
<1>. HIDE DEF t7
<1>22. t8 \in Seq(X) /\ \A x : Listed(t8, x) <=> Listed(t7, x) \/ Listed(s8, x)
  BY <1>12, <1>21, Concatenated
<1>. HIDE DEF t8
<1>23. t9 \in Seq(X) /\ \A x : Listed(t9, x) <=> Listed(t8, x) \/ Listed(s9, x)
  BY <1>13, <1>22, Concatenated
<1>. HIDE DEF t9
<1>24. t10 \in Seq(X) /\ \A x : Listed(t10, x) <=> Listed(t9, x) \/ Listed(s10, x)
  BY <1>14, <1>23, Concatenated
<1>. HIDE DEF t10
<1>25. \A x : \/ Listed(s1, x) \/ Listed(s2, x) \/ Listed(s3, x) \/ Listed(s4, x) \/ Listed(s5, x)
              \/ Listed(s6, x) \/ Listed(s7, x) \/ Listed(s8, x) \/ Listed(s9, x) \/ Listed(s10, x)
              => Listed(t10, x)
  BY <1>16, <1>17, <1>18, <1>19, <1>20, <1>21, <1>22, <1>23, <1>24
<1>26. ASSUME NEW c \in X PROVE Listed(t10, c)
  <2>1. \/ c \in D!MetadataChanges(b, a) \/ c \in D!EntryChanges(b, a)
        \/ \E e \in Unmatched(nodes) : c = Presence(e)
        \/ \E e \in edges : c = D!ClassifyEdgeChange(e)
        \/ \E e \in variables : c = D!VariableChange(e)
        \/ c \in D!PromptChanges(nodes)
        \/ \E e \in dependencies : c = D!DependencyChange(e)
        \/ c \in D!VersionChanges(b, a) \/ c \in D!CoverageWarnings(b, a)
        \/ \E e \in Altered(nodes) : c \in D!NodeChanges(e)
    BY DEF Found
  <2>. QED
    BY <1>5, <1>6, <1>7, <1>8, <1>9, <1>10, <1>11, <1>12, <1>13, <1>14, <1>25, <2>1
<1>. HIDE DEF s
<1>. QED
  BY <1>1, <1>15, <1>24, <1>26

-----------------------------------------------------------------------------
(* A snapshot is finite, and so is what is found between two of them *)

\* A configuration, whatever was edited: finitely many references, variables, resources
\* and settings of its own.
Sized(f) ==
  /\ DOMAIN f.objects = Parts
  /\ \A o \in Parts : "refs" \in DOMAIN f.objects[o] /\ IsFiniteSet(DOMAIN f.objects[o].refs)
  /\ IsFiniteSet(DOMAIN f.variables) /\ IsFiniteSet(DOMAIN f.manifest)

LEMMA OthersResized ==
  ASSUME Shape(flow), Sized(flow), NEW to,
         \/ flow' = [flow EXCEPT !.start = to] \/ flow' = [flow EXCEPT !.order = to]
         \/ flow' = [flow EXCEPT !.actions = to] \/ flow' = [flow EXCEPT !.choices = to]
         \/ flow' = [flow EXCEPT !.version = to] \/ flow' = [flow EXCEPT !.meta = to]
         \/ flow' = [flow EXCEPT !.shapeless = to]
         \/ flow' = [flow EXCEPT !.variables = to] /\ DOMAIN to = DOMAIN flow.variables
         \/ flow' = [flow EXCEPT !.manifest = to] /\ DOMAIN to = DOMAIN flow.manifest
  PROVE  Sized(flow')
  BY DEF Shape, Sized

LEMMA ObjectResized ==
  ASSUME Shape(flow), Sized(flow), NEW o \in A!Objects, A!ObjectEdited(o)
  PROVE  Sized(flow')
<1>1. \E field, value : /\ A!Becomes(o, field, value)
                        /\ field = "refs" => DOMAIN value = DOMAIN flow.objects[o].refs
  <2>1. CASE A!Pointed(o)
    BY <2>1 DEF A!Pointed
  <2>2. CASE ~A!Pointed(o)
    <3>1. \E field \in {"name", "type", "setting", "deep", "long", "identified", "guid", "well", "buried",
                       "label", "operands", "writes", "prompt"} :
            \E value : A!Becomes(o, field, value)
      BY <2>2 DEF A!ObjectEdited, A!Renamed, A!Retyped, A!Set, A!Nested, A!Lengthened, A!Anonymous,
         A!Tracked, A!Deviates, A!Buried, A!Labelled, A!Swapped, A!Compared, A!Written, A!Prompted
    <3>. QED
      BY <3>1
  <2>. QED
    BY <2>1, <2>2
<1>2. PICK field, value : /\ A!Becomes(o, field, value)
                          /\ field = "refs" => DOMAIN value = DOMAIN flow.objects[o].refs
  BY <1>1
<1>. DEFINE new == [flow.objects[o] EXCEPT ![field] = value]
            to == [flow.objects EXCEPT ![o] = new]
<1>3. flow' = [flow EXCEPT !.objects = to]
  BY <1>2 DEF A!Becomes
<1>4. o \in Parts /\ DOMAIN flow.objects = Parts
  BY DEF Sized, A!Objects
<1>5. "refs" \in DOMAIN flow.objects[o] /\ IsFiniteSet(DOMAIN flow.objects[o].refs)
  BY <1>4 DEF Sized
<1>6. "refs" \in DOMAIN new /\ DOMAIN new.refs = DOMAIN flow.objects[o].refs
  BY <1>2, <1>5
<1>. HIDE DEF new
<1>7. /\ DOMAIN to = Parts /\ to[o] = new
      /\ \A x \in Parts : x # o => to[x] = flow.objects[x]
  BY <1>4
<1>. HIDE DEF to
<1>8. \A x \in Parts : "refs" \in DOMAIN to[x] /\ IsFiniteSet(DOMAIN to[x].refs)
  BY <1>5, <1>6, <1>7 DEF Sized
<1>9. flow'.objects = to /\ flow'.variables = flow.variables /\ flow'.manifest = flow.manifest
  BY <1>3 DEF Shape
<1>. QED
  BY <1>7, <1>8, <1>9 DEF Sized

LEMMA FlowResized == ASSUME Shape(flow), Sized(flow), A!FlowEdited PROVE Sized(flow')
<1>1. CASE A!Reordered \/ A!Inserted \/ A!Deleted
  <2>1. \E to : \/ flow' = [flow EXCEPT !.order = to] \/ flow' = [flow EXCEPT !.actions = to]
                \/ flow' = [flow EXCEPT !.choices = to]
    BY <1>1 DEF A!Reordered, A!Inserted, A!Deleted
  <2>. QED
    BY <2>1, OthersResized
<1>2. ASSUME NEW field \in {"digit", "name"}, A!ChoiceEdited(field) PROVE Sized(flow')
  <2>1. \E to : flow' = [flow EXCEPT !.choices = to]
    BY <1>2 DEF A!ChoiceEdited
  <2>. QED
    BY <2>1, OthersResized
<1>3. CASE A!Restarted
  BY <1>3, OthersResized DEF A!Restarted
<1>4. CASE A!VariableEdited
  <2>1. \E to : flow' = [flow EXCEPT !.variables = to] /\ DOMAIN to = DOMAIN flow.variables
    BY <1>4 DEF A!VariableEdited
  <2>. QED
    BY <2>1, OthersResized
<1>5. CASE A!DependencyEdited
  <2>1. \E to : flow' = [flow EXCEPT !.manifest = to] /\ DOMAIN to = DOMAIN flow.manifest
    BY <1>5 DEF A!DependencyEdited
  <2>. QED
    BY <2>1, OthersResized
<1>6. CASE A!Described
  <2>1. \E to : flow' = [flow EXCEPT !.meta = to]
    BY <1>6 DEF A!Described
  <2>. QED
    BY <2>1, OthersResized
<1>7. CASE A!Published
  BY <1>7, OthersResized DEF A!Published
<1>8. CASE A!ListDeviates
  <2>1. \E to : flow' = [flow EXCEPT !.shapeless = to]
    BY <1>8 DEF A!ListDeviates
  <2>. QED
    BY <2>1, OthersResized
<1>. QED
  BY <1>1, <1>2, <1>3, <1>4, <1>5, <1>6, <1>7, <1>8 DEF A!FlowEdited

LEMMA FlowSize == ASSUME NEW anonymous, NEW unknown PROVE Sized(Flow(anonymous, unknown))
<1>. DEFINE f == Flow(anonymous, unknown)
<1>1. /\ f.objects = [o \in DOMAIN Base |-> Object(o, anonymous)]
      /\ DOMAIN f.variables = {"tries", "limit"} /\ DOMAIN f.manifest = {"queue", "hello"}
  BY DEF Flow
<1>. HIDE DEF f
<1>2. \A o : "refs" \in DOMAIN Object(o, anonymous) /\ DOMAIN Object(o, anonymous).refs = Sites(o)
  BY DEF Object
<1>3. ASSUME NEW x, NEW y, NEW z, NEW S, S = {x} \/ S = {x, y} \/ S = {x, y, z} PROVE IsFiniteSet(S)
  <2>1. IsFiniteSet({x}) /\ IsFiniteSet({y}) /\ IsFiniteSet({z})
    BY Few
  <2>2. IsFiniteSet({x} \cup {y})
    BY <2>1, Few
  <2>3. IsFiniteSet(({x} \cup {y}) \cup {z})
    BY <2>1, <2>2, Few
  <2>4. S = {x} \/ S = {x} \cup {y} \/ S = ({x} \cup {y}) \cup {z}
    BY <1>3
  <2>. QED
    BY <2>1, <2>2, <2>3, <2>4
<1>4. \A o : IsFiniteSet(Sites(o))
  <2>1. \A o : Sites(o) = {} \/ \E x, y, z : Sites(o) = {x} \/ Sites(o) = {x, y} \/ Sites(o) = {x, y, z}
    <3>. TAKE o
    <3>1. \/ Sites(o) = {} \/ Sites(o) = {"nextAction"} \/ Sites(o) = {"startAction"}
          \/ Sites(o) = {"taskReference"} \/ Sites(o) = {"yes", "no"}
          \/ Sites(o) = {"nextAction", "menuReference", "retryTarget"}
      BY DEF Sites
    <3>. QED
      BY <3>1, Zenon
  <2>. QED
    BY <1>3, <2>1, Few
<1>5. \A o \in Parts : f.objects[o] = Object(o, anonymous)
  BY <1>1 DEF Parts
<1>6. DOMAIN f.objects = Parts
  BY <1>1 DEF Parts
<1>7. \A o \in Parts : "refs" \in DOMAIN f.objects[o] /\ IsFiniteSet(DOMAIN f.objects[o].refs)
  BY <1>2, <1>4, <1>5
<1>8. IsFiniteSet(DOMAIN f.variables) /\ IsFiniteSet(DOMAIN f.manifest)
  <2>1. /\ \E x, y : DOMAIN f.variables = {x, y}
        /\ \E x, y : DOMAIN f.manifest = {x, y}
    BY <1>1, Zenon
  <2>. QED
    BY <1>3, <2>1
<1>. QED
  BY <1>6, <1>7, <1>8 DEF Sized, f

LEMMA SizedAlways == FlowSpec => [](Sized(captured) /\ Sized(flow))
<1>. DEFINE Inv == Sized(captured) /\ Sized(flow)
<1>1. FlowInit => Inv
  BY FlowSize DEF FlowInit
<1>2. ASSUME DiffInv, Inv, [FlowNext]_<<subject, diff, analysis>>
      PROVE  Inv'
  <2>1. DiffNext \/ UNCHANGED diff
    BY <1>2 DEF FlowNext
  <2>2. CASE UNCHANGED diff \/ D!Compare
    <3>1. UNCHANGED <<captured, flow>>
      BY <2>2 DEF diff, D!Compare
    <3>. QED
      BY <1>2, <3>1
  <2>3. ASSUME NEW o \in A!Objects, Edit(A!ObjectEdited(o)) PROVE Inv'
    <3>1. Shape(flow) /\ Sized(flow) /\ A!ObjectEdited(o) /\ captured' = captured
      BY <1>2, <2>3 DEF Edit, DiffInv
    <3>. QED
      BY <1>2, <3>1, ObjectResized
  <2>4. CASE Edit(A!FlowEdited)
    <3>1. Shape(flow) /\ Sized(flow) /\ A!FlowEdited /\ captured' = captured
      BY <1>2, <2>4 DEF Edit, DiffInv
    <3>. QED
      BY <1>2, <3>1, FlowResized
  <2>. QED
    BY <2>1, <2>2, <2>3, <2>4 DEF DiffNext
<1>. QED
  BY <1>1, <1>2, DiffAlways, PTL DEF FlowSpec

\* What a snapshot has of a configuration that is sized is finite.
LEMMA SnapshotIsSized ==
  ASSUME NEW f, Shape(f), Sized(f), NEW s, s = Normalized(f)
  PROVE  /\ IsFiniteSet(DOMAIN s.nodes) /\ IsFiniteSet(s.entryNodeIds) /\ IsFiniteSet(s.edges)
         /\ IsFiniteSet(DOMAIN s.variables) /\ IsFiniteSet(DOMAIN s.dependencies)
         /\ IsFiniteSet({w \in s.warnings : w.code = "UNSUPPORTED_NODE_TYPE"})
         /\ IsFiniteSet(DOMAIN s.meta)
<1>. DEFINE nodes == N!ExtractNodes(f)
            known == N!Guids(f, nodes)
            id == [p \in nodes |-> N!NodeId(f, p)]
<1>1. nodes \subseteq N!ToSet(N!Walk(f))
  BY DEF N!ExtractNodes
<1>2. IsFiniteSet(nodes)
  BY <1>1, WalkIs, Few
<1>3. \A p \in nodes : p.object \in Parts
  BY <1>1, PlacesAre
<1>4. /\ DOMAIN s.nodes = {N!NodeId(f, p) : p \in nodes}
      /\ s.edges = UNION {N!ExtractEdges(f, known, p) : p \in N!Referable(f, nodes)}
      /\ s.dependencies = N!ExtractDependencies(f, known)
      /\ s.warnings = N!NodeWarnings(f, nodes) \cup N!EdgeWarnings(f, nodes, known)
              \cup N!PromptWarnings(f, nodes, N!ExtractDependencies(f, known)) \cup N!DeviationWarnings(f)
              \cup N!SettingsWarnings(f, nodes)
  BY SnapshotIs
<1>5. /\ s.entryNodeIds = N!EntryNodeIds(f, nodes, s.edges) /\ DOMAIN s.variables \subseteq DOMAIN f.variables
      /\ s.meta = D!Unnamed
  BY <1>4 DEF Normalized, N!NormalizeFlow, N!ExtractVariables
<1>. HIDE DEF nodes, known
<1>6. IsFiniteSet({N!NodeId(f, p) : p \in nodes})
  <2>1. \A p \in nodes : id[p] = N!NodeId(f, p)
    OBVIOUS
  <2>. HIDE DEF id
  <2>2. IsFiniteSet({id[p] : p \in nodes})
    BY <1>2, ImageIsFinite
  <2>. QED
    BY <2>1, <2>2
<1>7. IsFiniteSet(s.entryNodeIds)
  <2>1. s.entryNodeIds \subseteq {N!NodeId(f, p) : p \in nodes}
    BY <1>5 DEF N!EntryNodeIds
  <2>. QED
    BY <1>6, <2>1, Few
<1>8. ASSUME NEW p \in nodes PROVE IsFiniteSet(N!ExtractEdges(f, known, p))
  <2>. DEFINE raw == f.objects[p.object]
              used == {t \in N!References(raw) : raw.refs[t] \in known}
              edge == [t \in used |->
                [from |-> <<p.object>>, to |-> <<raw.refs[t]>>, role |-> N!Role(t), condition |-> N!Condition(t),
                 label |-> N!Label(raw, t), site |-> t]]
  <2>1. N!FieldEdges(f, known, p) = {edge[t] : t \in used}
    BY DEF N!FieldEdges
  <2>2. IsFiniteSet(used)
    <3>1. used \subseteq DOMAIN raw.refs /\ IsFiniteSet(DOMAIN raw.refs)
      BY <1>3 DEF Sized, N!References
    <3>. HIDE DEF used, raw
    <3>. QED
      BY <3>1, Few
  <2>3. IsFiniteSet({edge[t] : t \in used})
    <3>. HIDE DEF used, edge
    <3>. QED
      BY <2>2, ImageIsFinite
  <2>4. IsFiniteSet(N!ChoiceEdges(f, p))
    BY Few DEF N!ChoiceEdges
  <2>. QED
    BY <2>1, <2>3, <2>4, Few DEF N!ExtractEdges
<1>9. IsFiniteSet(s.edges)
  <2>. DEFINE own == N!Referable(f, nodes)
              each == [p \in own |-> N!ExtractEdges(f, known, p)]
  <2>1. own \subseteq nodes
    BY DEF N!Referable
  <2>2. \A p \in own : each[p] = N!ExtractEdges(f, known, p)
    OBVIOUS
  <2>. HIDE DEF own, each
  <2>3. IsFiniteSet({each[p] : p \in own}) /\ \A x \in {each[p] : p \in own} : IsFiniteSet(x)
    <3>1. IsFiniteSet(own)
      BY <1>2, <2>1, Few
    <3>2. IsFiniteSet({each[p] : p \in own})
      BY <3>1, ImageIsFinite
    <3>. QED
      BY <1>8, <2>1, <2>2, <3>2
  <2>4. IsFiniteSet(UNION {each[p] : p \in own})
    BY <2>3, FS_UNION
  <2>5. s.edges = UNION {each[p] : p \in own}
    BY <1>4, <2>2 DEF own
  <2>. QED
    BY <2>4, <2>5
<1>10. IsFiniteSet(DOMAIN s.variables) /\ IsFiniteSet(DOMAIN s.dependencies) /\ IsFiniteSet(DOMAIN s.meta)
  <2>1. /\ DOMAIN s.variables \subseteq DOMAIN f.variables
        /\ DOMAIN s.dependencies \subseteq DOMAIN f.manifest
    BY <1>4, <1>5 DEF N!ExtractDependencies
  <2>2. IsFiniteSet({"name", "secure"} \cup {"languages"}) /\ DOMAIN s.meta = {"name", "secure"} \cup {"languages"}
    <3>1. IsFiniteSet({"name"} \cup {"secure"})
      BY Few
    <3>2. {"name"} \cup {"secure"} = {"name", "secure"} /\ IsFiniteSet({"languages"})
      BY Few
    <3>3. DOMAIN s.meta = {"name", "secure"} \cup {"languages"}
      BY <1>5 DEF D!Unnamed
    <3>. QED
      BY <3>1, <3>2, <3>3, Few
  <2>. QED
    BY <2>1, <2>2, Few DEF Sized
<1>11. IsFiniteSet({w \in s.warnings : w.code = "UNSUPPORTED_NODE_TYPE"})
  <2>. DEFINE said == {w \in s.warnings : w.code = "UNSUPPORTED_NODE_TYPE"}
              warning == [p \in nodes |->
                [code |-> "UNSUPPORTED_NODE_TYPE", at |-> p.pointer, node |-> N!NodeId(f, p)]]
  <2>1. ASSUME NEW w \in said PROVE \E p \in nodes : w = warning[p]
    <3>1. w.code = "UNSUPPORTED_NODE_TYPE"
      OBVIOUS
    <3>2. w \notin N!EdgeWarnings(f, nodes, known)
      BY <3>1 DEF N!EdgeWarnings
    <3>3. /\ w \notin N!PromptWarnings(f, nodes, N!ExtractDependencies(f, known))
          /\ w \notin N!DeviationWarnings(f) /\ w \notin N!SettingsWarnings(f, nodes)
      BY <3>1 DEF N!PromptWarnings, N!DeviationWarnings, N!SettingsWarnings
    <3>4. w \in N!NodeWarnings(f, nodes)
      BY <1>4, <2>1, <3>2, <3>3
    <3>5. \E p \in nodes : w = [code |-> "UNSUPPORTED_NODE_TYPE", at |-> p.pointer, node |-> N!NodeId(f, p)]
      BY <3>1, <3>4 DEF N!NodeWarnings
    <3>. QED
      BY <3>5
  <2>. HIDE DEF said, warning
  <2>2. IsFiniteSet({warning[p] : p \in nodes})
    BY <1>2, ImageIsFinite
  <2>3. said \subseteq {warning[p] : p \in nodes}
    BY <2>1
  <2>4. IsFiniteSet(said)
    BY <2>2, <2>3, Few
  <2>. QED
    BY <2>4 DEF said
<1>. QED
  BY <1>4, <1>6, <1>7, <1>9, <1>10, <1>11

LEMMA Several ==
  ASSUME NEW R, IsFiniteSet(R), NEW S, IsFiniteSet(S), NEW T, IsFiniteSet(T), NEW U, IsFiniteSet(U)
  PROVE  IsFiniteSet(R \cup S \cup T \cup U)
<1>1. IsFiniteSet(R \cup S)
  BY Few
<1>2. IsFiniteSet((R \cup S) \cup T)
  BY <1>1, Few
<1>. QED
  BY <1>2, Few

\* What is found between two finite snapshots is finite.
LEMMA DiffByIdIsFinite ==
  ASSUME NEW b, IsFiniteSet(DOMAIN b), NEW a, IsFiniteSet(DOMAIN a)
  PROVE  IsFiniteSet(D!DiffById(b, a))
<1>. DEFINE new == DOMAIN a \ DOMAIN b
            old == DOMAIN b \ DOMAIN a
            both == {m \in DOMAIN b \cap DOMAIN a : b[m] # a[m]}
            f == [n \in new |-> D!Entry("added", Absent, a[n], {}, n)]
            g == [n \in old |-> D!Entry("removed", b[n], Absent, {}, n)]
            h == [n \in both |-> D!Entry("changed", b[n], a[n], D!ChangedFields(b[n], a[n]), n)]
<1>1. D!DiffById(b, a) = {f[n] : n \in new} \cup {g[n] : n \in old} \cup {h[n] : n \in both}
  <2>1. /\ {f[n] : n \in new} = {D!Entry("added", Absent, a[n], {}, n) : n \in new}
        /\ {g[n] : n \in old} = {D!Entry("removed", b[n], Absent, {}, n) : n \in old}
        /\ {h[n] : n \in both} = {D!Entry("changed", b[n], a[n], D!ChangedFields(b[n], a[n]), n) : n \in both}
    OBVIOUS
  <2>. HIDE DEF f, g, h
  <2>. QED
    BY <2>1 DEF D!DiffById
<1>2. IsFiniteSet(new) /\ IsFiniteSet(old) /\ IsFiniteSet(both)
  BY Few
<1>. HIDE DEF f, g, h, new, old, both
<1>3. IsFiniteSet({f[n] : n \in new}) /\ IsFiniteSet({g[n] : n \in old}) /\ IsFiniteSet({h[n] : n \in both})
  BY <1>2, ImageIsFinite
<1>4. IsFiniteSet({f[n] : n \in new} \cup {g[n] : n \in old} \cup {h[n] : n \in both} \cup {})
  BY <1>3, Few, Several
<1>. QED
  BY <1>1, <1>4

LEMMA DiffEdgesIsFinite ==
  ASSUME NEW b, IsFiniteSet(b), NEW a, IsFiniteSet(a)
  PROVE  IsFiniteSet(D!DiffEdges(b, a))
<1>. DEFINE differing(p) == {x \in {"to", "condition", "label"} : p[1][x] # p[2][x]}
            f == [p \in b \X a |-> D!Entry("changed", p[1], p[2], {"label"}, D!EdgeId(p[2]))]
            g == [p \in b \X a |-> D!Entry("changed", p[1], p[2], differing(p), D!EdgeId(p[2]))]
            h == [e \in a |-> D!Entry("added", Absent, e, {}, D!EdgeId(e))]
            k == [e \in b |-> D!Entry("removed", e, Absent, {}, D!EdgeId(e))]
            all == {f[p] : p \in b \X a} \cup {g[p] : p \in b \X a} \cup {h[e] : e \in a} \cup {k[e] : e \in b}
<1>1. D!DiffEdges(b, a) \subseteq all
  <2>1. /\ \A p \in b \X a : f[p] = D!Entry("changed", p[1], p[2], {"label"}, D!EdgeId(p[2]))
        /\ \A p \in b \X a : g[p] = D!Entry("changed", p[1], p[2], differing(p), D!EdgeId(p[2]))
        /\ \A e \in a : h[e] = D!Entry("added", Absent, e, {}, D!EdgeId(e))
        /\ \A e \in b : k[e] = D!Entry("removed", e, Absent, {}, D!EdgeId(e))
    OBVIOUS
  <2>2. ASSUME NEW x \in D!DiffEdges(b, a)
        PROVE  \/ \E p \in b \X a : x = D!Entry("changed", p[1], p[2], {"label"}, D!EdgeId(p[2]))
               \/ \E p \in b \X a : x = D!Entry("changed", p[1], p[2], differing(p), D!EdgeId(p[2]))
               \/ \E e \in a : x = D!Entry("added", Absent, e, {}, D!EdgeId(e))
               \/ \E e \in b : x = D!Entry("removed", e, Absent, {}, D!EdgeId(e))
    BY DEF D!DiffEdges
  <2>. HIDE DEF f, g, h, k, differing
  <2>3. ASSUME NEW x \in D!DiffEdges(b, a) PROVE x \in all
    <3>1. \/ x \in {f[p] : p \in b \X a} \/ x \in {g[p] : p \in b \X a}
          \/ x \in {h[e] : e \in a} \/ x \in {k[e] : e \in b}
      <4>1. CASE \E p \in b \X a : x = D!Entry("changed", p[1], p[2], {"label"}, D!EdgeId(p[2]))
        BY <2>1, <4>1
      <4>2. CASE \E p \in b \X a : x = D!Entry("changed", p[1], p[2], differing(p), D!EdgeId(p[2]))
        BY <2>1, <4>2
      <4>3. CASE \E e \in a : x = D!Entry("added", Absent, e, {}, D!EdgeId(e))
        BY <2>1, <4>3
      <4>4. CASE \E e \in b : x = D!Entry("removed", e, Absent, {}, D!EdgeId(e))
        BY <2>1, <4>4
      <4>. QED
        BY <2>2, <4>1, <4>2, <4>3, <4>4
    <3>. QED
      BY <3>1
  <2>. QED
    BY <2>3
<1>2. IsFiniteSet(b \X a)
  BY FS_Product
<1>. HIDE DEF f, g, h, k
<1>3. /\ IsFiniteSet({f[p] : p \in b \X a}) /\ IsFiniteSet({g[p] : p \in b \X a})
      /\ IsFiniteSet({h[e] : e \in a}) /\ IsFiniteSet({k[e] : e \in b})
  BY <1>2, ImageIsFinite
<1>4. IsFiniteSet(all)
  BY <1>3, Several
<1>. HIDE DEF all
<1>. QED
  BY <1>1, <1>4, Few

LEMMA FoundElsewhereIsFinite ==
  ASSUME NEW b, NEW a, IsFiniteSet(DOMAIN b.meta), IsFiniteSet(b.entryNodeIds), IsFiniteSet(a.entryNodeIds),
         IsFiniteSet({w \in a.warnings : w.code = "UNSUPPORTED_NODE_TYPE"})
  PROVE  /\ IsFiniteSet(D!MetadataChanges(b, a)) /\ IsFiniteSet(D!EntryChanges(b, a))
         /\ IsFiniteSet(D!CoverageWarnings(b, a))
<1>1. IsFiniteSet(D!MetadataChanges(b, a))
  <2>. DEFINE S == D!ChangedFields(b.meta, a.meta)
              f == [x \in S |-> D!Change(IF x = "languages" THEN "prompt-reference-changed"
                                         ELSE "flow-metadata-changed", <<"flow">>, "changed", x)]
  <2>1. D!MetadataChanges(b, a) = {f[x] : x \in S}
    BY DEF D!MetadataChanges
  <2>2. IsFiniteSet(S)
    BY Few DEF D!ChangedFields
  <2>3. IsFiniteSet({f[x] : x \in S})
    <3>. HIDE DEF f, S
    <3>. QED
      BY <2>2, ImageIsFinite
  <2>. QED
    BY <2>1, <2>3
<1>2. IsFiniteSet(D!EntryChanges(b, a))
  <2>. DEFINE new == a.entryNodeIds \ b.entryNodeIds
              old == b.entryNodeIds \ a.entryNodeIds
              f == [n \in new |-> D!Change("entry-point-changed", n, "added", "entry")]
              g == [n \in old |-> D!Change("entry-point-changed", n, "removed", "entry")]
  <2>1. D!EntryChanges(b, a) = {f[n] : n \in new} \cup {g[n] : n \in old}
    BY DEF D!EntryChanges
  <2>2. IsFiniteSet(new) /\ IsFiniteSet(old)
    BY Few
  <2>3. IsFiniteSet({f[n] : n \in new}) /\ IsFiniteSet({g[n] : n \in old})
    <3>. HIDE DEF f, g, new, old
    <3>. QED
      BY <2>2, ImageIsFinite
  <2>. HIDE DEF f, g
  <2>. QED
    BY <2>1, <2>3, Few
<1>3. IsFiniteSet(D!CoverageWarnings(b, a))
  <2>. DEFINE S == {w \in a.warnings : w.code = "UNSUPPORTED_NODE_TYPE"}
              f == [w \in S |-> D!Change("coverage-changed", w.node, "added", "regressed")]
              T == {w \in a.warnings : /\ w.code \in {"UNSUPPORTED_NODE_TYPE"}
                                       /\ \A v \in b.warnings : D!WarningKey(v) # D!WarningKey(w)}
  <2>1. D!CoverageWarnings(b, a) = {D!Change("coverage-changed", w.node, "added", "regressed") : w \in T}
    BY DEF D!CoverageWarnings
  <2>2. T \subseteq S /\ \A w \in S : f[w] = D!Change("coverage-changed", w.node, "added", "regressed")
    OBVIOUS
  <2>. HIDE DEF f, S, T
  <2>3. IsFiniteSet({f[w] : w \in S})
    BY ImageIsFinite DEF S
  <2>4. D!CoverageWarnings(b, a) \subseteq {f[w] : w \in S}
    BY <2>1, <2>2
  <2>. QED
    BY <2>3, <2>4, Few
<1>. QED
  BY <1>1, <1>2, <1>3

-----------------------------------------------------------------------------
(* A regression of the coverage *)

\* The changes of a diff have the categories and the operations that the order knows.
Named(c) == /\ \E i \in DOMAIN D!CategoryOrder : c.category = D!CategoryOrder[i]
            /\ \E i \in DOMAIN D!OperationOrder : c.operation = D!OperationOrder[i]

LEMMA RegressionIsNamed ==
  ASSUME NEW about, NEW operation \in {"added", "changed"}, NEW c,
         c = D!Change("coverage-changed", about, operation, "regressed")
  PROVE  Named(c) /\ D!ClassifyOne(c) = "coverage-regression"
<1>1. c.category = "coverage-changed" /\ c.operation = operation /\ c.aspect = "regressed"
  BY DEF D!Change
<1>2. /\ 3 \in DOMAIN D!CategoryOrder /\ D!CategoryOrder[3] = "coverage-changed"
      /\ {1, 2} \subseteq DOMAIN D!OperationOrder
      /\ D!OperationOrder[1] = "added" /\ D!OperationOrder[2] = "changed"
  BY DEF D!CategoryOrder, D!OperationOrder
<1>3. Named(c)
  BY <1>1, <1>2 DEF Named
<1>4. D!ClassifyOne(c) = "coverage-regression"
  BY <1>1 DEF D!ClassifyOne
<1>. QED
  BY <1>3, <1>4

\* Whatever a diff of two configurations finds is among its changes.
LEMMA ChangesAre ==
  ASSUME NEW b, NEW a,
         \E f : Shape(f) /\ Sized(f) /\ b = Normalized(f),
         \E f : Shape(f) /\ Sized(f) /\ a = Normalized(f),
         NEW X, X = Found(b, a, D!DiffById(b.nodes, a.nodes), D!DiffEdges(b.edges, a.edges),
                          D!DiffById(b.variables, a.variables), D!DiffById(b.dependencies, a.dependencies))
  PROVE  /\ D!DiffSnapshots(b, a).changes \in Seq(X)
         /\ \A c \in X : Named(c) => Listed(D!DiffSnapshots(b, a).changes, c)
<1>. DEFINE nodes == D!DiffById(b.nodes, a.nodes)
            edges == D!DiffEdges(b.edges, a.edges)
            variables == D!DiffById(b.variables, a.variables)
            dependencies == D!DiffById(b.dependencies, a.dependencies)
            changes == D!DiffSnapshots(b, a).changes
<1>1. ASSUME NEW s \in {a, b}
      PROVE  /\ IsFiniteSet(DOMAIN s.nodes) /\ IsFiniteSet(s.entryNodeIds) /\ IsFiniteSet(s.edges)
             /\ IsFiniteSet(DOMAIN s.variables) /\ IsFiniteSet(DOMAIN s.dependencies)
             /\ IsFiniteSet({w \in s.warnings : w.code = "UNSUPPORTED_NODE_TYPE"})
             /\ IsFiniteSet(DOMAIN s.meta)
  BY SnapshotIsSized
<1>2. changes = D!BuildChanges(b, a, nodes, edges, variables, dependencies)
  BY DEF D!DiffSnapshots, D!DiffVariables, D!DiffDependencies
<1>3. /\ IsFiniteSet(nodes) /\ IsFiniteSet(edges) /\ IsFiniteSet(variables) /\ IsFiniteSet(dependencies)
  BY <1>1, DiffByIdIsFinite, DiffEdgesIsFinite
<1>4. FewFound(b, a, nodes, edges, variables, dependencies)
  BY <1>1, <1>3, FoundElsewhereIsFinite DEF FewFound
<1>. HIDE DEF nodes, edges, variables, dependencies, changes
<1>5. X = Found(b, a, nodes, edges, variables, dependencies)
  BY DEF nodes, edges, variables, dependencies
<1>6. PICK s \in Seq(X) : /\ D!BuildChanges(b, a, nodes, edges, variables, dependencies) = D!Sorted(s)
                          /\ \A c \in X : Listed(s, c)
  BY <1>4, <1>5, BuiltIs
<1>7. changes = D!Sorted(s) /\ changes \in Seq(X)
  BY <1>2, <1>6, SortedHolds
<1>8. ASSUME NEW c \in X, Named(c) PROVE Listed(changes, c)
  <2>1. PICK i \in DOMAIN s : s[i] = c
    BY <1>6 DEF Listed
  <2>2. \E k \in DOMAIN D!Sorted(s) : D!Sorted(s)[k] = s[i]
    BY <1>8, <2>1, SortedHolds DEF Named
  <2>. QED
    BY <1>7, <2>1, <2>2 DEF Listed
<1>. QED
  BY <1>7, <1>8 DEF changes

\* The block is the second line of what is said, and the cut leaves two lines at least.
LEMMA BlockIsSaid ==
  ASSUME NEW b, NEW a, NEW X, D!DiffSnapshots(b, a).changes \in Seq(X),
         NEW c, Listed(D!DiffSnapshots(b, a).changes, c), D!ClassifyOne(c) = "coverage-regression"
  PROVE  <<"BLOCKED">> \in ToSet(D!Answer(b, a).answer.materialJourneyChanges)
<1>. DEFINE snapshots == D!DiffSnapshots(b, a)
            changes == snapshots.changes
            review == D!ClassifyChanges(changes)
            basis == D!BasisNote(snapshots)
            line(i) == D!DescribeClassifiedChange(review.classified[i])
            rest == [i \in DOMAIN review.classified |-> line(i)]
            Y == {basis, <<"BLOCKED">>} \cup {line(i) : i \in DOMAIN changes}
            blocked == <<"BLOCKED">>
            head == <<basis>> \o <<blocked>>
            lines == head \o rest
            said == D!Capped(lines)
<1>1. D!ClassifyOne(c) \in {D!ClassifyOne(x) : x \in D!ToSet(changes)}
  BY DEF Listed, D!ToSet
<1>2. review.blocksApproval /\ DOMAIN review.classified = DOMAIN changes
  <2>. HIDE DEF changes
  <2>. QED
    BY <1>1 DEF D!ClassifyChanges
<1>3. D!Answer(b, a).answer.materialJourneyChanges = D!Capped(D!MaterialJourneyChanges(snapshots, review))
  <2>. HIDE DEF review, snapshots
  <2>1. D!Answer(b, a).answer = D!FlowDiffOf(snapshots, review, b, a)
    BY DEF D!Answer, snapshots, review, changes
  <2>. QED
    BY <2>1 DEF D!FlowDiffOf
<1>4. rest \in Seq(Y)
  <2>1. DOMAIN changes = 1..Len(changes) /\ Len(changes) \in Nat
    OBVIOUS
  <2>. HIDE DEF line, changes, review
  <2>. QED
    BY <1>2, <2>1
<1>5. head \in Seq(Y) /\ Len(head) = 2 /\ head[2] = blocked
  <2>1. basis \in Y /\ blocked \in Y
    <3>. HIDE DEF basis, line, changes
    <3>. QED
      OBVIOUS
  <2>. HIDE DEF basis, blocked, Y
  <2>2. <<basis>> \in Seq(Y) /\ <<blocked>> \in Seq(Y) /\ Len(<<basis>>) = 1 /\ Len(<<blocked>>) = 1
    BY <2>1
  <2>. QED
    BY <2>2, ConcatProperties
<1>6. D!MaterialJourneyChanges(snapshots, review) = lines
  <2>. HIDE DEF snapshots, review
  <2>1. D!BlockNote(review) = << <<"BLOCKED">> >>
    BY <1>2 DEF D!BlockNote
  <2>2. D!MaterialJourneyChanges(snapshots, review) = <<basis>> \o << <<"BLOCKED">> >> \o rest
    BY <2>1 DEF D!MaterialJourneyChanges
  <2>. QED
    BY <2>2
<1>. HIDE DEF rest, head, Y, basis, snapshots, review, line
<1>7. lines \in Seq(Y) /\ Len(lines) >= 2 /\ lines[2] = <<"BLOCKED">>
  <2>2. /\ head \o rest \in Seq(Y) /\ Len(head \o rest) = Len(head) + Len(rest)
        /\ \A i \in 1..(Len(head) + Len(rest)) :
             (head \o rest)[i] = IF i <= Len(head) THEN head[i] ELSE rest[i - Len(head)]
    BY <1>4, <1>5, ConcatProperties
  <2>3. Len(rest) \in Nat
    BY <1>4
  <2>4. Len(head \o rest) >= 2 /\ (head \o rest)[2] = <<"BLOCKED">>
    BY <1>5, <2>2, <2>3
  <2>. QED
    BY <2>2, <2>4
<1>8. 2 \in DOMAIN said /\ said[2] = <<"BLOCKED">>
  <2>. HIDE DEF lines
  <2>1. CASE Len(lines) <= MaxListItems
    BY <1>7, <2>1 DEF D!Capped
  <2>2. CASE ~(Len(lines) <= MaxListItems)
    <3>. DEFINE kept == SubSeq(lines, 1, MaxListItems)
                note == <<"omitted", Len(lines) - MaxListItems>>
    <3>1. MaxListItems \in Nat /\ MaxListItems > 1 /\ Len(lines) \in Nat
      BY <1>7, FlowAssumption
    <3>2. kept \in Seq(Y) /\ Len(kept) = MaxListItems /\ kept[2] = lines[2]
      BY <1>7, <2>2, <3>1, SubSeqProperties
    <3>. HIDE DEF kept, note
    <3>3. Append(kept, note)[2] = kept[2] /\ 2 \in DOMAIN Append(kept, note)
      BY <3>1, <3>2
    <3>4. said = Append(kept, note)
      BY <2>2 DEF D!Capped, kept, note
    <3>. QED
      BY <1>7, <3>2, <3>3, <3>4
  <2>. QED
    BY <2>1, <2>2
<1>9. D!Answer(b, a).answer.materialJourneyChanges = said
  BY <1>3, <1>6
<1>. HIDE DEF said
<1>. QED
  BY <1>8, <1>9 DEF ToSet

\* A node of an identified object is what is said of the object.
LEMMA NodeIs ==
  ASSUME NEW f, NEW q \in Live(f)
  PROVE  /\ <<q.object>> \in DOMAIN Normalized(f).nodes
         /\ \E p \in Live(f) : /\ p.object = q.object
              /\ Normalized(f).nodes[<<q.object>>] = N!ToSnapshotNode(f, Normalized(f).dependencies, p)
<1>. DEFINE nodes == N!ExtractNodes(f)
            known == N!Guids(f, nodes)
            dependencies == N!ExtractDependencies(f, known)
            byId == [n \in {N!NodeId(f, p) : p \in nodes} |-> CHOOSE p \in nodes : N!NodeId(f, p) = n]
            id == <<q.object>>
            p0 == CHOOSE p \in nodes : N!NodeId(f, p) = id
<1>0. Normalized(f).dependencies = dependencies
  BY DEF Normalized, N!NormalizeFlow
<1>1. Normalized(f).nodes = [n \in DOMAIN byId |-> N!ToSnapshotNode(f, dependencies, byId[n])]
  BY DEF Normalized, N!NormalizeFlow
<1>2. q \in nodes /\ f.objects[q.object].identified
  BY DEF Live
<1>3. N!NodeId(f, q) = id
  BY <1>2 DEF N!NodeId
<1>4. p0 \in nodes /\ N!NodeId(f, p0) = id
  BY <1>2, <1>3
<1>5. id \in DOMAIN byId /\ byId[id] = p0
  BY <1>2, <1>3
<1>. HIDE DEF p0, byId, nodes, known, dependencies
<1>6. p0.object = q.object
  <2>1. CASE f.objects[p0.object].identified
    BY <1>4, <2>1 DEF N!NodeId
  <2>2. CASE ~f.objects[p0.object].identified
    <3>1. \E x, y, z, w : N!NodeId(f, p0) = <<x, y, z, w>>
      BY <2>2 DEF N!NodeId
    <3>. QED
      BY <1>4, <3>1
  <2>. QED
    BY <2>1, <2>2
<1>7. id \in DOMAIN Normalized(f).nodes /\ Normalized(f).nodes[id] = N!ToSnapshotNode(f, dependencies, p0)
  BY <1>1, <1>5
<1>8. p0 \in Live(f)
  BY <1>2, <1>4, <1>6 DEF Live, nodes
<1>. QED
  BY <1>6, <1>7, <1>8, <1>0

\* The node of a live object has the support level of the object.
LEMMA NodeOf ==
  ASSUME NEW f, NEW q \in Live(f)
  PROVE  /\ <<q.object>> \in DOMAIN Normalized(f).nodes
         /\ "supportLevel" \in DOMAIN Normalized(f).nodes[<<q.object>>]
         /\ Normalized(f).nodes[<<q.object>>].supportLevel = N!SupportLevel(f.objects[q.object])
<1>1. PICK p \in Live(f) :
        /\ p.object = q.object
        /\ Normalized(f).nodes[<<q.object>>] = N!ToSnapshotNode(f, Normalized(f).dependencies, p)
  BY NodeIs
<1>2. /\ "supportLevel" \in DOMAIN N!ToSnapshotNode(f, Normalized(f).dependencies, p)
      /\ N!ToSnapshotNode(f, Normalized(f).dependencies, p).supportLevel = N!SupportLevel(f.objects[p.object])
  BY DEF N!ToSnapshotNode
<1>. QED
  BY <1>1, <1>2, NodeIs

\* An object that was understood and is not any more.
LEMMA LessIsUnderstood ==
  ASSUME NEW o \in Unknown(flow), NEW p \in Live(captured), p.object = o, o \notin Unknown(captured),
         NEW b, b = Normalized(captured), NEW a, a = Normalized(flow)
  PROVE  \E e \in D!DiffById(b.nodes, a.nodes) :
           /\ e.operation = "changed"
           /\ D!Change("coverage-changed", <<o>>, "changed", "regressed") \in D!NodeChanges(e)
<1>. DEFINE n == <<o>>
            e == D!Entry("changed", b.nodes[n], a.nodes[n], D!ChangedFields(b.nodes[n], a.nodes[n]), n)
<1>1. PICK q \in Live(flow) : q.object = o /\ flow.objects[o].type \notin Known
  BY DEF Unknown
<1>2. captured.objects[o].type \in Known
  BY DEF Unknown
<1>3. /\ n \in DOMAIN b.nodes /\ "supportLevel" \in DOMAIN b.nodes[n]
      /\ b.nodes[n].supportLevel = N!SupportLevel(captured.objects[o])
  BY NodeOf
<1>4. n \in DOMAIN a.nodes /\ a.nodes[n].supportLevel = N!SupportLevel(flow.objects[o])
  BY <1>1, NodeOf
<1>5. b.nodes[n].supportLevel = "full" /\ a.nodes[n].supportLevel = "partial"
  BY <1>1, <1>2, <1>3, <1>4 DEF N!SupportLevel
<1>6. b.nodes[n] # a.nodes[n]
  BY <1>5
<1>7. e \in D!DiffById(b.nodes, a.nodes)
  BY <1>3, <1>4, <1>6 DEF D!DiffById
<1>8. /\ e.operation = "changed" /\ e.id = n /\ e.before = b.nodes[n] /\ e.after = a.nodes[n]
      /\ e.changedFields = D!ChangedFields(b.nodes[n], a.nodes[n])
  BY DEF D!Entry
<1>. HIDE DEF e
<1>9. "supportLevel" \in e.changedFields
  BY <1>3, <1>5, <1>8 DEF D!ChangedFields
<1>10. D!CoverageDirection("full", "partial") = "regressed"
  BY DEF D!CoverageDirection, D!Rank
<1>11. D!Change("coverage-changed", n, "changed", "regressed") \in D!NodeChanges(e)
  <2>1. D!Has(e, "supportLevel")
    BY <1>9 DEF D!Has
  <2>2. D!CoverageDirection(e.before.supportLevel, e.after.supportLevel) = "regressed"
    BY <1>5, <1>8, <1>10
  <2>. QED
    BY <1>8, <2>1, <2>2 DEF D!NodeChanges
<1>. QED
  BY <1>7, <1>8, <1>11

\* The first object that is not understood at all.
LEMMA FirstUnknown ==
  ASSUME NEW q \in Live(flow), flow.objects[q.object].type \notin Known,
         NEW b, \A w \in b.warnings : w.code # "UNSUPPORTED_NODE_TYPE", NEW a, a = Normalized(flow)
  PROVE  \E about : D!Change("coverage-changed", about, "added", "regressed") \in D!CoverageWarnings(b, a)
<1>. DEFINE nodes == N!ExtractNodes(flow)
            w == [code |-> "UNSUPPORTED_NODE_TYPE", at |-> q.pointer, node |-> N!NodeId(flow, q)]
<1>1. q \in nodes
  BY DEF Live
<1>2. N!SupportLevel(flow.objects[q.object]) # "full"
  BY DEF N!SupportLevel
<1>3. w \in N!NodeWarnings(flow, nodes)
  BY <1>1, <1>2 DEF N!NodeWarnings
<1>4. w \in a.warnings
  <2>. HIDE DEF w, nodes
  <2>. QED
    BY <1>3, SnapshotIs DEF nodes
<1>5. \A v \in b.warnings : D!WarningKey(v) # D!WarningKey(w)
  BY DEF D!WarningKey
<1>6. w.code \in {"UNSUPPORTED_NODE_TYPE"}
  OBVIOUS
<1>. HIDE DEF w
<1>7. D!Change("coverage-changed", w.node, "added", "regressed") \in D!CoverageWarnings(b, a)
  BY <1>4, <1>5, <1>6 DEF D!CoverageWarnings
<1>. QED
  BY <1>7

\* buildChanges, classifyChanges and createDiffFlow (diff.ts, change-classification.ts,
\* diff-flow.ts): an object that is understood less than in the version compared with, or
\* the first that is not understood, blocks the approval, and the block is in the answer
\* however many changes are found and however many lines the answer may have, two at least.
THEOREM ARegressionBlocks == FlowSpec => []CoverageRegressionBlocks
<1>. DEFINE Less == \E o \in Unknown(flow) : \E p \in Live(captured) : p.object = o /\ o \notin Unknown(captured)
            First == Unknown(flow) # {} /\ \A w \in report.before.warnings : w.code # "UNSUPPORTED_NODE_TYPE"
<1>1. ASSUME DiffInv, Sized(captured), Sized(flow), Compared, Less \/ First PROVE <<"BLOCKED">> \in Said
  <2>. DEFINE b == Normalized(captured)
              a == Normalized(flow)
              nodes == D!DiffById(b.nodes, a.nodes)
              X == Found(b, a, nodes, D!DiffEdges(b.edges, a.edges),
                         D!DiffById(b.variables, a.variables), D!DiffById(b.dependencies, a.dependencies))
  <2>1. report.before = b /\ report = D!Answer(b, a) /\ Shape(captured) /\ Shape(flow)
    BY <1>1, ComparedIs DEF DiffInv
  <2>2. \E about : \E operation \in {"added", "changed"} : D!Change("coverage-changed", about, operation, "regressed") \in X
    <3>1. CASE Less
      <4>1. PICK o \in Unknown(flow) : \E p \in Live(captured) : p.object = o /\ o \notin Unknown(captured)
        BY <3>1
      <4>2. PICK e \in nodes : /\ e.operation = "changed"
                               /\ D!Change("coverage-changed", <<o>>, "changed", "regressed") \in D!NodeChanges(e)
        BY <4>1, LessIsUnderstood
      <4>3. e \in Altered(nodes)
        BY <4>2 DEF Altered
      <4>. HIDE DEF nodes, a, b
      <4>4. D!Change("coverage-changed", <<o>>, "changed", "regressed") \in X
        BY <4>2, <4>3 DEF Found
      <4>. HIDE DEF X
      <4>. QED
        BY <4>4
    <3>2. CASE First
      <4>1. PICK q \in Live(flow) : flow.objects[q.object].type \notin Known
        BY <3>2 DEF Unknown
      <4>2. \A w \in b.warnings : w.code # "UNSUPPORTED_NODE_TYPE"
        BY <2>1, <3>2
      <4>3. PICK about : D!Change("coverage-changed", about, "added", "regressed") \in D!CoverageWarnings(b, a)
        BY <4>1, <4>2, FirstUnknown
      <4>. HIDE DEF nodes, a, b
      <4>4. D!Change("coverage-changed", about, "added", "regressed") \in X
        BY <4>3 DEF Found
      <4>. HIDE DEF X
      <4>. QED
        BY <4>4
    <3>. QED
      BY <1>1, <3>1, <3>2
  <2>3. PICK about : \E operation \in {"added", "changed"} :
          D!Change("coverage-changed", about, operation, "regressed") \in X
    BY <2>2
  <2>7. PICK operation \in {"added", "changed"} : D!Change("coverage-changed", about, operation, "regressed") \in X
    BY <2>3
  <2>. DEFINE c == D!Change("coverage-changed", about, operation, "regressed")
  <2>4. Named(c) /\ D!ClassifyOne(c) = "coverage-regression"
    BY RegressionIsNamed
  <2>5. /\ D!DiffSnapshots(b, a).changes \in Seq(X)
        /\ \A x \in X : Named(x) => Listed(D!DiffSnapshots(b, a).changes, x)
    BY <1>1, <2>1, ChangesAre
  <2>. HIDE DEF X, a, b, c
  <2>6. <<"BLOCKED">> \in ToSet(D!Answer(b, a).answer.materialJourneyChanges)
    BY <2>4, <2>5, <2>7, BlockIsSaid DEF c
  <2>. QED
    BY <2>1, <2>6 DEF Said
<1>2. DiffInv /\ Sized(captured) /\ Sized(flow) => CoverageRegressionBlocks
  BY <1>1 DEF CoverageRegressionBlocks
<1>. QED
  BY DiffAlways, SizedAlways, <1>2, PTL

-----------------------------------------------------------------------------
(* What a configuration is made of, whatever was edited *)

Variables == {"tries", "limit"}
Listings == {"queue", "hello"}

\* Objects point from the sites of their kind, read variables and play resources.
Legible(f) ==
  /\ \A o \in Parts :
       /\ {"refs", "operands", "prompt"} \subseteq DOMAIN f.objects[o]
       /\ DOMAIN f.objects[o].refs = Sites(o)
       /\ f.objects[o].operands \in Seq(Variables)
       /\ f.objects[o].prompt \in {Absent, Gone} \cup Listings
  /\ DOMAIN f.variables = Variables /\ DOMAIN f.manifest = Listings

LEMMA OthersReread ==
  ASSUME Shape(flow), Legible(flow), NEW to,
         \/ flow' = [flow EXCEPT !.start = to] \/ flow' = [flow EXCEPT !.order = to]
         \/ flow' = [flow EXCEPT !.actions = to] \/ flow' = [flow EXCEPT !.choices = to]
         \/ flow' = [flow EXCEPT !.version = to] \/ flow' = [flow EXCEPT !.meta = to]
         \/ flow' = [flow EXCEPT !.shapeless = to]
         \/ flow' = [flow EXCEPT !.variables = to] /\ DOMAIN to = DOMAIN flow.variables
         \/ flow' = [flow EXCEPT !.manifest = to] /\ DOMAIN to = DOMAIN flow.manifest
  PROVE  Legible(flow')
<1>1. /\ flow'.objects = flow.objects /\ DOMAIN flow'.variables = DOMAIN flow.variables
      /\ DOMAIN flow'.manifest = DOMAIN flow.manifest
  BY DEF Shape
<1>. QED
  BY <1>1 DEF Legible

LEMMA ObjectReread ==
  ASSUME Shape(flow), Legible(flow), DOMAIN flow.objects = Parts, NEW o \in Parts, A!ObjectEdited(o)
  PROVE  Legible(flow')
<1>. DEFINE raw == flow.objects[o]
            Becoming(field, value) ==
              /\ A!Becomes(o, field, value)
              /\ field = "refs" => DOMAIN value = DOMAIN raw.refs
              /\ field = "operands" => value \in Seq(Variables)
              /\ field = "prompt" => value \in {Absent, Gone} \cup Listings
<1>1. /\ {"refs", "operands", "prompt"} \subseteq DOMAIN raw /\ DOMAIN raw.refs = Sites(o)
      /\ raw.operands \in Seq(Variables) /\ raw.prompt \in {Absent, Gone} \cup Listings
      /\ DOMAIN flow.variables = Variables /\ DOMAIN flow.manifest = Listings
  BY DEF Legible
<1>2. \E field, value : Becoming(field, value)
  <2>1. CASE A!Pointed(o)
    <3>1. \E value : A!Becomes(o, "refs", value) /\ DOMAIN value = DOMAIN raw.refs
      BY <2>1 DEF A!Pointed
    <3>. QED
      BY <3>1
  <2>2. CASE A!Swapped(o)
    <3>1. A!Becomes(o, "operands", A!Reverse(raw.operands)) /\ A!Reverse(raw.operands) \in Seq(Variables)
      BY <1>1, <2>2, Reversed DEF A!Swapped
    <3>. QED
      BY <3>1
  <2>3. CASE A!Compared(o)
    <3>1. PICK v \in Variables : \E i \in DOMAIN raw.operands :
            A!Becomes(o, "operands", [raw.operands EXCEPT ![i] = v])
      BY <1>1, <2>3 DEF A!Compared
    <3>2. PICK i \in DOMAIN raw.operands : A!Becomes(o, "operands", [raw.operands EXCEPT ![i] = v])
      BY <3>1
    <3>3. [raw.operands EXCEPT ![i] = v] \in Seq(Variables)
      BY <1>1, <3>1
    <3>. QED
      BY <3>2, <3>3
  <2>4. CASE A!Prompted(o)
    <3>1. \E value \in Listings \cup {Gone} : A!Becomes(o, "prompt", value)
      BY <1>1, <2>4 DEF A!Prompted
    <3>. QED
      BY <3>1
  <2>5. CASE ~(A!Pointed(o) \/ A!Swapped(o) \/ A!Compared(o) \/ A!Prompted(o))
    <3>1. \E field \in {"name", "type", "setting", "deep", "long", "identified", "guid", "well", "buried",
                       "label", "writes"} :
            \E value : A!Becomes(o, field, value)
      BY <2>5 DEF A!ObjectEdited, A!Renamed, A!Retyped, A!Set, A!Nested, A!Lengthened, A!Anonymous,
         A!Tracked, A!Deviates, A!Buried, A!Labelled, A!Written
    <3>. QED
      BY <3>1
  <2>. QED
    BY <2>1, <2>2, <2>3, <2>4, <2>5
<1>3. PICK field, value : Becoming(field, value)
  BY <1>2
<1>. DEFINE new == [raw EXCEPT ![field] = value]
            to == [flow.objects EXCEPT ![o] = new]
<1>4. flow' = [flow EXCEPT !.objects = to]
  BY <1>3 DEF A!Becomes
<1>5. /\ {"refs", "operands", "prompt"} \subseteq DOMAIN new /\ DOMAIN new.refs = Sites(o)
      /\ new.operands \in Seq(Variables) /\ new.prompt \in {Absent, Gone} \cup Listings
  <2>. HIDE DEF raw
  <2>1. /\ DOMAIN new = DOMAIN raw
        /\ \A x \in DOMAIN raw : new[x] = IF x = field THEN value ELSE raw[x]
    OBVIOUS
  <2>. HIDE DEF new
  <2>. QED
    BY <1>1, <1>3, <2>1
<1>. HIDE DEF new
<1>6. to[o] = new /\ \A x \in Parts : x # o => to[x] = flow.objects[x]
  OBVIOUS
<1>. HIDE DEF to
<1>7. \A x \in Parts :
        /\ {"refs", "operands", "prompt"} \subseteq DOMAIN to[x] /\ DOMAIN to[x].refs = Sites(x)
        /\ to[x].operands \in Seq(Variables) /\ to[x].prompt \in {Absent, Gone} \cup Listings
  BY <1>5, <1>6 DEF Legible
<1>8. flow'.objects = to /\ flow'.variables = flow.variables /\ flow'.manifest = flow.manifest
  BY <1>4 DEF Shape
<1>. QED
  BY <1>7, <1>8 DEF Legible

LEMMA FlowReread == ASSUME Shape(flow), Legible(flow), A!FlowEdited PROVE Legible(flow')
<1>1. CASE A!Reordered \/ A!Inserted \/ A!Deleted
  <2>1. \E to : \/ flow' = [flow EXCEPT !.order = to] \/ flow' = [flow EXCEPT !.actions = to]
                \/ flow' = [flow EXCEPT !.choices = to]
    BY <1>1 DEF A!Reordered, A!Inserted, A!Deleted
  <2>. QED
    BY <2>1, OthersReread
<1>2. ASSUME NEW field \in {"digit", "name"}, A!ChoiceEdited(field) PROVE Legible(flow')
  <2>1. \E to : flow' = [flow EXCEPT !.choices = to]
    BY <1>2 DEF A!ChoiceEdited
  <2>. QED
    BY <2>1, OthersReread
<1>3. CASE A!Restarted
  BY <1>3, OthersReread DEF A!Restarted
<1>4. CASE A!VariableEdited
  <2>1. \E to : flow' = [flow EXCEPT !.variables = to] /\ DOMAIN to = DOMAIN flow.variables
    BY <1>4 DEF A!VariableEdited
  <2>. QED
    BY <2>1, OthersReread
<1>5. CASE A!DependencyEdited
  <2>1. \E to : flow' = [flow EXCEPT !.manifest = to] /\ DOMAIN to = DOMAIN flow.manifest
    BY <1>5 DEF A!DependencyEdited
  <2>. QED
    BY <2>1, OthersReread
<1>6. CASE A!Described
  <2>1. \E to : flow' = [flow EXCEPT !.meta = to]
    BY <1>6 DEF A!Described
  <2>. QED
    BY <2>1, OthersReread
<1>7. CASE A!Published
  BY <1>7, OthersReread DEF A!Published
<1>8. CASE A!ListDeviates
  <2>1. \E to : flow' = [flow EXCEPT !.shapeless = to]
    BY <1>8 DEF A!ListDeviates
  <2>. QED
    BY <2>1, OthersReread
<1>. QED
  BY <1>1, <1>2, <1>3, <1>4, <1>5, <1>6, <1>7, <1>8 DEF A!FlowEdited

LEMMA FlowLegible == ASSUME NEW anonymous, NEW unknown PROVE Legible(Flow(anonymous, unknown))
<1>. DEFINE f == Flow(anonymous, unknown)
<1>1. /\ f.objects = [o \in DOMAIN Base |-> Object(o, anonymous)]
      /\ DOMAIN f.variables = Variables /\ DOMAIN f.manifest = Listings
  BY DEF Flow, Variables, Listings
<1>. HIDE DEF f
<1>2. ASSUME NEW o
      PROVE  LET raw == Object(o, anonymous)
             IN  /\ {"refs", "operands", "prompt"} \subseteq DOMAIN raw
                 /\ DOMAIN raw.refs = Sites(o)
                 /\ raw.operands \in Seq(Variables)
                 /\ raw.prompt \in {Absent, Gone} \cup Listings
  <2>. DEFINE raw == Object(o, anonymous)
  <2>1. /\ {"refs", "operands", "prompt"} \subseteq DOMAIN raw
        /\ DOMAIN raw.refs = Sites(o)
        /\ raw.operands = IF o = "decide" THEN <<"tries", "limit">> ELSE <<>>
        /\ raw.prompt = IF o = "play" THEN "hello" ELSE Absent
    BY DEF Object
  <2>2. <<"tries", "limit">> \in Seq(Variables) /\ <<>> \in Seq(Variables)
    BY DEF Variables
  <2>. HIDE DEF raw
  <2>3. raw.operands \in Seq(Variables) /\ raw.prompt \in {Absent, Gone} \cup Listings
    BY <2>1, <2>2 DEF Listings
  <2>. QED
    BY <2>1, <2>3 DEF raw
<1>3. \A o \in Parts : f.objects[o] = Object(o, anonymous)
  BY <1>1 DEF Parts
<1>4. Legible(f)
  BY <1>1, <1>2, <1>3 DEF Legible
<1>. QED
  BY <1>4 DEF f

LEMMA LegibleAlways == FlowSpec => [](Legible(captured) /\ Legible(flow))
<1>. DEFINE Inv == Legible(captured) /\ Legible(flow)
<1>1. FlowInit => Inv
  BY FlowLegible DEF FlowInit
<1>2. ASSUME DiffInv, Sized(flow), Inv,
             [FlowNext]_<<subject, diff, analysis>>
      PROVE  Inv'
  <2>1. DiffNext \/ UNCHANGED diff
    BY <1>2 DEF FlowNext
  <2>2. CASE UNCHANGED diff \/ D!Compare
    <3>1. UNCHANGED <<captured, flow>>
      BY <2>2 DEF diff, D!Compare
    <3>. QED
      BY <1>2, <3>1
  <2>3. ASSUME NEW o \in A!Objects, Edit(A!ObjectEdited(o)) PROVE Inv'
    <3>1. Shape(flow) /\ Legible(flow) /\ A!ObjectEdited(o) /\ captured' = captured
      BY <1>2, <2>3 DEF Edit, DiffInv
    <3>2. DOMAIN flow.objects = Parts /\ o \in Parts
      BY <1>2 DEF Sized, A!Objects
    <3>. QED
      BY <1>2, <3>1, <3>2, ObjectReread
  <2>4. CASE Edit(A!FlowEdited)
    <3>1. Shape(flow) /\ Legible(flow) /\ A!FlowEdited /\ captured' = captured
      BY <1>2, <2>4 DEF Edit, DiffInv
    <3>. QED
      BY <1>2, <3>1, FlowReread
  <2>. QED
    BY <2>1, <2>2, <2>3, <2>4 DEF DiffNext
<1>. QED
  BY <1>1, <1>2, DiffAlways, SizedAlways, PTL DEF FlowSpec

-----------------------------------------------------------------------------
(* What an object does, in its node and its edges *)

\* An id of one part is that of an identified object.
LEMMA NodeIsLive ==
  ASSUME NEW f, NEW o, <<o>> \in DOMAIN Normalized(f).nodes
  PROVE  \E q \in Live(f) : q.object = o
<1>1. PICK p \in N!ExtractNodes(f) : N!NodeId(f, p) = <<o>>
  BY SnapshotIs
<1>2. CASE f.objects[p.object].identified
  BY <1>1, <1>2 DEF Live, N!NodeId
<1>3. CASE ~f.objects[p.object].identified
  <2>1. \E x, y, z, w : N!NodeId(f, p) = <<x, y, z, w>>
    BY <1>3 DEF N!NodeId
  <2>. QED
    BY <1>1, <2>1
<1>. QED
  BY <1>2, <1>3

\* Where an object leads, and all it does.
Addressed(f) == N!Referable(f, N!ExtractNodes(f))
Leads(f, o) ==
  LET raw == f.objects[o]
  IN  {<<s, raw.refs[s]>> : s \in {t \in N!References(raw) :
         N!HasGuid(raw) /\ \E q \in Addressed(f) : q.object = raw.refs[t]}}
Does(f, o) ==
  LET raw == f.objects[o]
  IN  [object |-> o, type |-> raw.type, setting |-> IF raw.long THEN 0 ELSE raw.setting,
       leads |-> Leads(f, o), writes |-> raw.writes, reads |-> ToSet(raw.operands), plays |-> raw.prompt]

LEMMA BehaviourIs == \A f : Behaviour(f) = {Does(f, p.object) : p \in Live(f)}
  BY DEF Behaviour, Does, Leads, Addressed

LEMMA LiveParts == ASSUME NEW f, Shape(f), NEW p \in Live(f) PROVE p.object \in Parts
  BY PlacesAre DEF Live, N!ExtractNodes

\* The fields of a node that are about what its object does.
Doing == {"sourceType", "settings", "variableReads", "variableWrites"}

\* Two versions of an object that are the same in their nodes and lead to the same do the same.
LEMMA DoesTheSame ==
  ASSUME NEW f, Shape(f), Legible(f), NEW p \in Live(f), NEW g, Shape(g), Legible(g), NEW q \in Live(g),
         NEW o, p.object = o, q.object = o,
         \A x \in Doing : Normalized(f).nodes[<<o>>][x] = Normalized(g).nodes[<<o>>][x],
         Leads(f, o) = Leads(g, o)
  PROVE  Does(f, o) = Does(g, o)
<1>. DEFINE Node(h) == Normalized(h).nodes[<<o>>]
            Reads(h) == ToSet(h.objects[o].operands)
            Plays(h) == {h.objects[o].prompt} \ {Absent}
            Field(h) == IF h.objects[o].long THEN 0 ELSE h.objects[o].setting
<1>1. ASSUME NEW h, NEW r \in Live(h), r.object = o
      PROVE  /\ Node(h).sourceType = h.objects[o].type
             /\ Node(h).settings.field = Field(h)
             /\ Node(h).variableReads = Reads(h) \cup Plays(h)
             /\ Node(h).variableWrites = h.objects[o].writes
  <2>1. PICK p0 \in Live(h) : /\ p0.object = o
                              /\ Node(h) = N!ToSnapshotNode(h, Normalized(h).dependencies, p0)
    BY <1>1, NodeIs
  <2>2. h.objects[o].identified
    BY <1>1 DEF Live
  <2>3. N!ToSet(h.objects[o].operands) = Reads(h)
    BY DEF N!ToSet, ToSet
  <2>4. N!Settings(h, o).field = Field(h)
    BY DEF N!Settings, N!Bounded
  <2>. HIDE DEF Node, Reads, Field
  <2>. QED
    BY <2>1, <2>2, <2>3, <2>4 DEF N!ToSnapshotNode
<1>2. /\ Node(f).sourceType = Node(g).sourceType /\ Node(f).settings = Node(g).settings
      /\ Node(f).variableReads = Node(g).variableReads
      /\ Node(f).variableWrites = Node(g).variableWrites
  BY DEF Doing
<1>. HIDE DEF Node
<1>3. o \in Parts
  BY LiveParts
<1>4. ASSUME NEW h, Legible(h) PROVE Reads(h) \subseteq Variables /\ Plays(h) \cap Variables = {}
  <2>1. h.objects[o].operands \in Seq(Variables) /\ h.objects[o].prompt \in {Absent, Gone} \cup Listings
    BY <1>3, <1>4 DEF Legible
  <2>2. Reads(h) \subseteq Variables
    BY <2>1 DEF ToSet
  <2>3. Absent \notin Variables /\ Gone \notin Variables /\ Listings \cap Variables = {}
    BY FlowAssumption DEF Variables, Listings
  <2>. QED
    BY <2>1, <2>2, <2>3
<1>5. /\ f.objects[o].type = g.objects[o].type /\ Field(f) = Field(g)
      /\ Reads(f) \cup Plays(f) = Reads(g) \cup Plays(g) /\ f.objects[o].writes = g.objects[o].writes
  <2>. HIDE DEF Reads, Plays, Field
  <2>. QED
    BY <1>1, <1>2
<1>6. Reads(f) = Reads(g) /\ Plays(f) = Plays(g)
  <2>1. Reads(f) \subseteq Variables /\ Plays(f) \cap Variables = {}
    BY <1>4
  <2>2. Reads(g) \subseteq Variables /\ Plays(g) \cap Variables = {}
    BY <1>4
  <2>. HIDE DEF Reads, Plays
  <2>. QED
    BY <1>5, <2>1, <2>2
<1>7. f.objects[o].prompt = g.objects[o].prompt
  BY <1>6
<1>. QED
  BY <1>5, <1>6, <1>7 DEF Does

\* The sites of a reference, each with a role of its own.
Sited == {"nextAction", "startAction", "taskReference", "yes", "no", "menuReference", "retryTarget"}

LEMMA SitesAre ==
  /\ \A o : Sites(o) \subseteq Sited
  /\ \A s \in Sited : N!Role(s) # "menu-choice"
  /\ \A s, t \in Sited : N!Role(s) = N!Role(t) => s = t
<1>1. \A o : Sites(o) \subseteq Sited
  BY DEF Sites, Sited
<1>2. \A s \in Sited :
        N!Role(s) = CASE s = "startAction" -> "entry" [] s = "nextAction" -> "next"
                      [] s = "menuReference" -> "transfer-menu" [] s = "taskReference" -> "transfer-task"
                      [] OTHER -> s
  BY DEF N!Role
<1>3. \A s \in Sited : N!Role(s) # "menu-choice"
  BY <1>2 DEF Sited
<1>4. \A s, t \in Sited : N!Role(s) = N!Role(t) => s = t
  BY <1>2 DEF Sited
<1>. QED
  BY <1>1, <1>3, <1>4

\* An edge that no choice makes is a reference of an identified object to another.
LEMMA EdgeIs ==
  ASSUME NEW f, Shape(f), Legible(f), NEW e \in Normalized(f).edges, e.role # "menu-choice"
  PROVE  \E p \in Live(f) : \E s \in Sited :
           /\ <<s, f.objects[p.object].refs[s]>> \in Leads(f, p.object)
           /\ e.from = <<p.object>> /\ e.to = <<f.objects[p.object].refs[s]>>
           /\ e.role = N!Role(s) /\ e.site = s
<1>. DEFINE nodes == N!ExtractNodes(f)
            known == N!Guids(f, nodes)
<1>1. /\ Addressed(f) = N!Referable(f, nodes) /\ known = {p.object : p \in Addressed(f)}
      /\ \A p \in Addressed(f) : p \in Live(f) /\ N!HasGuid(f.objects[p.object])
  BY DEF Live, Addressed, N!Referable, N!HasGuid, N!Guids
<1>. HIDE DEF nodes, known
<1>2. PICK p \in Addressed(f) : e \in N!ExtractEdges(f, known, p)
  <2>1. Normalized(f).edges = UNION {N!ExtractEdges(f, known, p) : p \in N!Referable(f, nodes)}
    BY SnapshotIs DEF nodes, known
  <2>. QED
    BY <1>1, <2>1
<1>3. e \notin N!ChoiceEdges(f, p)
  BY DEF N!ChoiceEdges
<1>. DEFINE refs == f.objects[p.object].refs
<1>4. PICK s \in N!References(f.objects[p.object]) : /\ refs[s] \in known /\ e.from = <<p.object>> /\ e.to = <<refs[s]>>
                               /\ e.role = N!Role(s) /\ e.site = s
  <2>1. e \in N!FieldEdges(f, known, p)
    BY <1>2, <1>3 DEF N!ExtractEdges
  <2>. QED
    BY <2>1 DEF N!FieldEdges
<1>5. p.object \in Parts
  BY <1>1, LiveParts
<1>6. s \in DOMAIN refs /\ DOMAIN refs = Sites(p.object)
  BY <1>5 DEF Legible, N!References
<1>. HIDE DEF refs
<1>7. s \in Sited
  BY <1>6, SitesAre
<1>8. <<s, refs[s]>> \in Leads(f, p.object)
  BY <1>1, <1>4 DEF Leads, refs
<1>. QED
  BY <1>1, <1>4, <1>7, <1>8 DEF refs

\* An object leads somewhere in one version only: an edge of that version has no match.
LEMMA LeadIsAnEdge ==
  ASSUME NEW f, Shape(f), Legible(f), NEW g, Shape(g), Legible(g), NEW q \in Live(f), NEW o, q.object = o,
         NEW l \in Leads(f, o), l \notin Leads(g, o)
  PROVE  \E e \in Normalized(f).edges :
           e.role # "menu-choice" /\ \A x \in Normalized(g).edges : D!EdgeId(x) # D!EdgeId(e)
<1>. DEFINE nodes == N!ExtractNodes(f)
            known == N!Guids(f, nodes)
            raw == f.objects[o]
            refs == raw.refs
<1>1. Addressed(f) = N!Referable(f, nodes) /\ known = {p.object : p \in Addressed(f)}
  BY DEF Addressed, N!Referable, N!Guids
<1>2. PICK s \in N!References(raw) : refs[s] \in known /\ l = <<s, refs[s]>>
  BY <1>1 DEF Leads
<1>9. q \in Addressed(f)
  <2>1. N!HasGuid(raw)
    BY DEF Leads
  <2>. QED
    BY <2>1 DEF Addressed, Live, N!Referable
<1>. DEFINE e == [from |-> <<o>>, to |-> <<refs[s]>>, role |-> N!Role(s), condition |-> N!Condition(s),
                  label |-> N!Label(raw, s), site |-> s]
<1>3. e \in N!FieldEdges(f, known, q)
  BY <1>2 DEF N!FieldEdges
<1>4. e \in Normalized(f).edges
  <2>. HIDE DEF e
  <2>1. e \in N!ExtractEdges(f, known, q)
    BY <1>3 DEF N!ExtractEdges
  <2>. HIDE DEF nodes, known
  <2>2. Normalized(f).edges = UNION {N!ExtractEdges(f, known, p) : p \in N!Referable(f, nodes)}
    BY SnapshotIs DEF nodes, known
  <2>. QED
    BY <1>1, <1>9, <2>1, <2>2
<1>5. e.from = <<o>> /\ e.to = <<refs[s]>> /\ e.role = N!Role(s) /\ e.site = s
  OBVIOUS
<1>. HIDE DEF e
<1>6. s \in Sited /\ o \in Parts
  <2>1. o \in Parts
    BY LiveParts
  <2>2. s \in DOMAIN refs /\ DOMAIN refs = Sites(o)
    BY <2>1 DEF Legible, N!References
  <2>. HIDE DEF refs
  <2>. QED
    BY <2>1, <2>2, SitesAre
<1>7. e.role # "menu-choice"
  BY <1>5, <1>6, SitesAre
<1>. HIDE DEF refs
<1>8. ASSUME NEW x \in Normalized(g).edges, D!EdgeId(x) = D!EdgeId(e) PROVE FALSE
  <2>1. x.from = <<o>> /\ x.to = <<refs[s]>> /\ x.role = N!Role(s) /\ x.site = s
    BY <1>5, <1>8 DEF D!EdgeId
  <2>2. x.role # "menu-choice"
    BY <1>5, <1>7, <2>1
  <2>3. PICK p \in Live(g), t \in Sited :
          /\ <<t, g.objects[p.object].refs[t]>> \in Leads(g, p.object)
          /\ x.from = <<p.object>> /\ x.to = <<g.objects[p.object].refs[t]>> /\ x.site = t
    BY <2>2, EdgeIs
  <2>4. p.object = o /\ t = s /\ g.objects[o].refs[s] = refs[s]
    BY <2>1, <2>3
  <2>. QED
    BY <1>2, <2>3, <2>4
<1>. QED
  BY <1>4, <1>7, <1>8

\* Two edges of one slot that are not the same lead to different nodes.
LEMMA SlotDecides ==
  ASSUME NEW f, Shape(f), Legible(f), NEW e \in Normalized(f).edges,
         NEW g, Shape(g), Legible(g), NEW x \in Normalized(g).edges,
         e.role # "menu-choice", D!Slot(e) = D!Slot(x), D!EdgeId(e) # D!EdgeId(x)
  PROVE  e.to # x.to
<1>1. e.from = x.from /\ e.role = x.role
  BY DEF D!Slot
<1>2. \E s \in Sited : e.role = N!Role(s) /\ e.site = s
  BY EdgeIs
<1>3. \E s \in Sited : x.role = N!Role(s) /\ x.site = s
  BY <1>1, EdgeIs
<1>4. e.site = x.site
  BY <1>1, <1>2, <1>3, SitesAre
<1>. QED
  BY <1>1, <1>4 DEF D!EdgeId

\* An entry about an edge that is on one side only, or leads elsewhere.
Rerouting(x) ==
  /\ x.operation \in {"added", "changed", "removed"} /\ D!OneOf(x).role # "menu-choice"
  /\ x.operation # "changed" \/ D!Has(x, "to")

LEMMA UnmatchedEdge ==
  ASSUME NEW f, Shape(f), Legible(f), NEW g, Shape(g), Legible(g),
         NEW b, b = Normalized(f).edges, NEW a, a = Normalized(g).edges,
         NEW e, e.role # "menu-choice",
         \/ e \in b /\ \A x \in a : D!EdgeId(x) # D!EdgeId(e)
         \/ e \in a /\ \A x \in b : D!EdgeId(x) # D!EdgeId(e)
  PROVE  \E x \in D!DiffEdges(b, a) : Rerouting(x)
<1>. DEFINE kept == {p \in b \X a : D!EdgeId(p[1]) = D!EdgeId(p[2])}
            lost == b \ {p[1] : p \in kept}
            gained == a \ {p[2] : p \in kept}
            alone(u, es) == \A x \in es : D!Slot(x) = D!Slot(u) => x = u
            rerouted == {p \in lost \X gained :
                           D!Slot(p[1]) = D!Slot(p[2]) /\ alone(p[1], lost) /\ alone(p[2], gained)}
            route(p) == D!Entry("changed", p[1], p[2],
                                {y \in {"to", "condition", "label"} : p[1][y] # p[2][y]}, D!EdgeId(p[2]))
            new(x) == D!Entry("added", Absent, x, {}, D!EdgeId(x))
            old(x) == D!Entry("removed", x, Absent, {}, D!EdgeId(x))
<1>1. D!DiffEdges(b, a) =
        {D!Entry("changed", p[1], p[2], {"label"}, D!EdgeId(p[2])) : p \in {q \in kept : q[1].label # q[2].label}}
        \cup {route(p) : p \in rerouted} \cup {new(x) : x \in gained \ {p[2] : p \in rerouted}}
        \cup {old(x) : x \in lost \ {p[1] : p \in rerouted}}
  BY DEF D!DiffEdges
<1>2. e \in lost \/ e \in gained
  OBVIOUS
<1>3. \A x \in lost, y \in gained : x \in b /\ y \in a /\ D!EdgeId(x) # D!EdgeId(y)
  <2>. SUFFICES ASSUME NEW x \in lost, NEW y \in gained PROVE x \in b /\ y \in a /\ D!EdgeId(x) # D!EdgeId(y)
    OBVIOUS
  <2>1. x \in b /\ y \in a
    OBVIOUS
  <2>2. CASE D!EdgeId(x) = D!EdgeId(y)
    <3>1. <<x, y>> \in kept
      BY <2>1, <2>2
    <3>2. x = <<x, y>>[1]
      OBVIOUS
    <3>. HIDE DEF kept
    <3>. QED
      BY <3>1, <3>2
  <2>. QED
    BY <2>1, <2>2
<1>4. \A p \in rerouted : p[1] \in lost /\ p[2] \in gained /\ D!Slot(p[1]) = D!Slot(p[2])
  OBVIOUS
<1>. HIDE DEF kept, lost, gained, rerouted
<1>5. ASSUME NEW p \in rerouted, p[1].role # "menu-choice" PROVE Rerouting(route(p))
  <2>1. p[2].role = p[1].role /\ p[1].to # p[2].to
    BY <1>3, <1>4, <1>5, SlotDecides DEF D!Slot
  <2>2. /\ route(p).operation = "changed" /\ route(p).after = p[2]
        /\ route(p).changedFields = {y \in {"to", "condition", "label"} : p[1][y] # p[2][y]}
    BY DEF D!Entry
  <2>. HIDE DEF route
  <2>. QED
    BY <1>5, <2>1, <2>2 DEF Rerouting, D!Has, D!OneOf
<1>6. \A x : x.role # "menu-choice" => Rerouting(new(x)) /\ Rerouting(old(x))
  BY DEF Rerouting, D!Entry, D!OneOf
<1>. HIDE DEF route, new, old
<1>7. CASE e \in lost
  <2>1. CASE \E p \in rerouted : p[1] = e
    BY <1>1, <1>5, <2>1
  <2>2. CASE ~\E p \in rerouted : p[1] = e
    <3>1. old(e) \in D!DiffEdges(b, a)
      BY <1>1, <1>7, <2>2
    <3>. QED
      BY <1>6, <3>1
  <2>. QED
    BY <2>1, <2>2
<1>8. CASE e \in gained
  <2>1. CASE \E p \in rerouted : p[2] = e
    <3>1. PICK p \in rerouted : p[2] = e
      BY <2>1
    <3>2. p[1].role = e.role
      BY <1>4, <3>1 DEF D!Slot
    <3>. QED
      BY <1>1, <1>5, <3>1, <3>2
  <2>2. CASE ~\E p \in rerouted : p[2] = e
    <3>1. new(e) \in D!DiffEdges(b, a)
      BY <1>1, <1>8, <2>2
    <3>. QED
      BY <1>6, <3>1
  <2>. QED
    BY <2>1, <2>2
<1>. QED
  BY <1>2, <1>7, <1>8

\* A change that a reviewer has to look at.
Material(c) == Named(c) /\ D!ClassifyOne(c) \notin {"cosmetic", "documentation-only"}

LEMMA ActionIsMaterial ==
  ASSUME NEW about, NEW operation \in {"added", "changed", "removed"}, NEW aspect, aspect # "relabeled", NEW category,
         category \in {"action-changed", "condition-expression-changed", "outcome-path-changed"}
  PROVE  Material(D!Change(category, about, operation, aspect))
<1>. DEFINE c == D!Change(category, about, operation, aspect)
<1>1. c.category = category /\ c.operation = operation /\ c.aspect = aspect
  BY DEF D!Change
<1>. HIDE DEF c
<1>2. /\ DOMAIN D!CategoryOrder = 1..11 /\ D!CategoryOrder[1] = "action-changed"
      /\ D!CategoryOrder[2] = "condition-expression-changed" /\ D!CategoryOrder[8] = "outcome-path-changed"
  BY DEF D!CategoryOrder
<1>3. /\ DOMAIN D!OperationOrder = 1..3 /\ D!OperationOrder[1] = "added" /\ D!OperationOrder[2] = "changed"
      /\ D!OperationOrder[3] = "removed"
  BY DEF D!OperationOrder
<1>4. \E i \in DOMAIN D!CategoryOrder : c.category = D!CategoryOrder[i]
  BY <1>1, <1>2
<1>5. \E i \in DOMAIN D!OperationOrder : c.operation = D!OperationOrder[i]
  BY <1>1, <1>3
<1>6. D!ClassifyOne(c) = "behavioral"
  BY <1>1 DEF D!ClassifyOne
<1>7. Material(c)
  BY <1>4, <1>5, <1>6 DEF Material, Named
<1>. QED
  BY <1>7 DEF c

LEMMA ReroutingIsMaterial == ASSUME NEW x, Rerouting(x) PROVE Material(D!ClassifyEdgeChange(x))
<1>. DEFINE edge == D!OneOf(x)
            Is(category, aspect) == D!ClassifyEdgeChange(x) = D!Change(category, edge.from, x.operation, aspect)
<1>1. \/ Is("outcome-path-changed", edge.role) /\ edge.role \in D!OutcomeRoles
      \/ Is("condition-expression-changed", "condition")
      \/ Is("action-changed", "position") \/ Is("action-changed", "reconfigured")
  BY DEF Rerouting, D!ClassifyEdgeChange, D!OutcomeRoles, D!StructuralRoles
<1>2. edge.role \in D!OutcomeRoles => edge.role # "relabeled"
  BY DEF D!OutcomeRoles
<1>3. x.operation \in {"added", "changed", "removed"}
  BY DEF Rerouting
<1>. HIDE DEF edge
<1>. QED
  BY <1>1, <1>2, <1>3, ActionIsMaterial

\* An object that is in one version only.
LEMMA PresenceIsMaterial ==
  ASSUME NEW b, NEW a, NEW n, n \in DOMAIN b \ DOMAIN a \/ n \in DOMAIN a \ DOMAIN b
  PROVE  \E e \in Unmatched(D!DiffById(b, a)) : Material(Presence(e))
<1>. DEFINE old == D!Entry("removed", b[n], Absent, {}, n)
            new == D!Entry("added", Absent, a[n], {}, n)
<1>1. old \in D!DiffById(b, a) \/ new \in D!DiffById(b, a)
  BY DEF D!DiffById
<1>2. old.operation = "removed" /\ new.operation = "added"
  BY DEF D!Entry
<1>. HIDE DEF old, new
<1>3. \A e : e.operation \in {"added", "removed"} => Material(Presence(e))
  BY ActionIsMaterial DEF Presence
<1>. QED
  BY <1>1, <1>2, <1>3 DEF Unmatched

\* An object whose node is not the same where it is about what the object does.
LEMMA DoingIsMaterial ==
  ASSUME NEW b, NEW a, NEW n, n \in DOMAIN b, n \in DOMAIN a,
         NEW x \in Doing, x \in DOMAIN b[n], b[n][x] # a[n][x]
  PROVE  \E e \in Altered(D!DiffById(b, a)) : \E c \in D!NodeChanges(e) : Material(c)
<1>. DEFINE e == D!Entry("changed", b[n], a[n], D!ChangedFields(b[n], a[n]), n)
<1>1. e \in D!DiffById(b, a)
  BY DEF D!DiffById
<1>2. e.operation = "changed" /\ e.id = n /\ x \in e.changedFields
  BY DEF D!Entry, D!ChangedFields
<1>. HIDE DEF e
<1>3. e \in Altered(D!DiffById(b, a))
  BY <1>1, <1>2 DEF Altered
<1>4. CASE x = "settings"
  <2>1. D!ClassifySettingsChange(e) \in D!NodeChanges(e)
    BY <1>2, <1>4 DEF D!NodeChanges, D!Has
  <2>2. Material(D!ClassifySettingsChange(e))
    <3>1. \/ D!ClassifySettingsChange(e) = D!Change("condition-expression-changed", n, "changed", "settings")
          \/ D!ClassifySettingsChange(e) = D!Change("action-changed", n, "changed", "reconfigured")
      BY <1>2 DEF D!ClassifySettingsChange
    <3>2. /\ Material(D!Change("condition-expression-changed", n, "changed", "settings"))
          /\ Material(D!Change("action-changed", n, "changed", "reconfigured"))
      BY ActionIsMaterial
    <3>. QED
      BY <3>1, <3>2
  <2>. QED
    BY <1>3, <2>1, <2>2
<1>5. CASE x # "settings"
  <2>. DEFINE rest == e.changedFields \ {"supportLevel", "settings"}
              c == D!ClassifyNodeReconfigured(e, rest)
  <2>1. x \in rest /\ x \notin {"name", "containerPath"}
    BY <1>2, <1>5 DEF Doing
  <2>2. c \in D!NodeChanges(e)
    BY <2>1 DEF D!NodeChanges
  <2>3. c = D!Change("action-changed", n, "changed", "reconfigured")
    <3>1. ~(rest \subseteq {"name", "containerPath"})
      BY <2>1
    <3>. HIDE DEF rest
    <3>. QED
      BY <1>2, <3>1 DEF D!ClassifyNodeReconfigured
  <2>4. Material(D!Change("action-changed", n, "changed", "reconfigured"))
    BY ActionIsMaterial
  <2>. HIDE DEF c
  <2>. QED
    BY <1>3, <2>2, <2>3, <2>4
<1>. QED
  BY <1>4, <1>5

\* What a reviewer has to look at is said, or it is said that lines were cut.
Reported(line) == \/ line[1] = "omitted"
                  \/ line[1] = "change" /\ line[3] \notin {"cosmetic", "documentation-only"}

LEMMA MaterialIsSaid ==
  ASSUME NEW b, NEW a, NEW X, D!DiffSnapshots(b, a).changes \in Seq(X),
         NEW c, Listed(D!DiffSnapshots(b, a).changes, c), Material(c)
  PROVE  \E line \in ToSet(D!Answer(b, a).answer.materialJourneyChanges) : Reported(line)
<1>. DEFINE snapshots == D!DiffSnapshots(b, a)
            changes == snapshots.changes
            review == D!ClassifyChanges(changes)
            line(i) == D!DescribeClassifiedChange(review.classified[i])
            rest == [i \in DOMAIN review.classified |-> line(i)]
            note == D!BlockNote(review)
            basis == D!BasisNote(snapshots)
            head == <<basis>> \o note
            lines == head \o rest
            said == D!Capped(lines)
            Y == {basis, <<"BLOCKED">>} \cup {line(i) : i \in DOMAIN changes}
<1>1. /\ DOMAIN review.classified = DOMAIN changes
      /\ \A i \in DOMAIN changes :
           review.classified[i] = [change |-> changes[i], category |-> D!ClassifyOne(changes[i])]
  <2>. HIDE DEF changes
  <2>. QED
    BY DEF D!ClassifyChanges
<1>2. D!Answer(b, a).answer.materialJourneyChanges = said
  <2>. HIDE DEF review, snapshots
  <2>1. D!Answer(b, a).answer = D!FlowDiffOf(snapshots, review, b, a)
    BY DEF D!Answer, snapshots, review, changes
  <2>2. D!MaterialJourneyChanges(snapshots, review) = lines
    BY DEF D!MaterialJourneyChanges
  <2>. HIDE DEF lines
  <2>. QED
    BY <2>1, <2>2 DEF D!FlowDiffOf
<1>3. PICK k \in DOMAIN changes : changes[k] = c
  BY DEF Listed
<1>4. Reported(line(k))
  <2>1. line(k) = <<"change", c, D!ClassifyOne(c)>>
    <3>1. review.classified[k] = [change |-> c, category |-> D!ClassifyOne(c)]
      BY <1>1, <1>3
    <3>. HIDE DEF review
    <3>. QED
      BY <3>1 DEF D!DescribeClassifiedChange
  <2>. HIDE DEF line
  <2>. QED
    BY <2>1 DEF Reported, Material
<1>5. DOMAIN changes = 1..Len(changes) /\ Len(changes) \in Nat
  OBVIOUS
<1>. HIDE DEF changes
<1>6. rest \in Seq(Y) /\ DOMAIN rest = DOMAIN changes /\ rest[k] = line(k)
  <2>. HIDE DEF line, review
  <2>. QED
    BY <1>1, <1>3, <1>5
<1>7. head \in Seq(Y)
  <2>. DEFINE blocked == <<"BLOCKED">>
  <2>1. basis \in Y /\ blocked \in Y
    <3>. HIDE DEF basis, line
    <3>. QED
      OBVIOUS
  <2>2. note = <<blocked>> \/ note = <<>>
    BY DEF D!BlockNote
  <2>. HIDE DEF basis, blocked, Y, note
  <2>3. <<basis>> \in Seq(Y) /\ <<blocked>> \in Seq(Y) /\ <<>> \in Seq(Y)
    BY <2>1
  <2>. QED
    BY <2>2, <2>3, ConcatProperties
<1>. HIDE DEF rest, head, Y, line
<1>8. lines \in Seq(Y) /\ Listed(lines, line(k))
  <2>1. Listed(rest, line(k))
    BY <1>3, <1>6 DEF Listed
  <2>. QED
    BY <1>6, <1>7, <2>1, Concatenated
<1>. HIDE DEF lines
<1>9. CASE Len(lines) <= MaxListItems
  <2>1. said = lines
    BY <1>9 DEF D!Capped
  <2>. HIDE DEF said
  <2>. QED
    BY <1>2, <1>4, <1>8, <2>1 DEF Listed, ToSet
<1>10. CASE ~(Len(lines) <= MaxListItems)
  <2>. DEFINE cut == SubSeq(lines, 1, MaxListItems)
              last == <<"omitted", Len(lines) - MaxListItems>>
  <2>1. MaxListItems \in Nat /\ Len(lines) \in Nat
    BY <1>8, FlowAssumption
  <2>2. cut \in Seq(Y) /\ Len(cut) = MaxListItems
    BY <1>8, <1>10, <2>1, SubSeqProperties
  <2>3. Reported(last)
    BY DEF Reported
  <2>4. said = Append(cut, last)
    BY <1>10 DEF D!Capped
  <2>. HIDE DEF cut, last, said
  <2>5. MaxListItems + 1 \in DOMAIN said /\ said[MaxListItems + 1] = last
    BY <2>1, <2>2, <2>4
  <2>6. last \in ToSet(said)
    BY <2>5 DEF ToSet
  <2>. QED
    BY <1>2, <2>3, <2>6
<1>. QED
  BY <1>9, <1>10

\* Two snapshots that disagree about what the flow does.
Disagree(b, a) ==
  \/ \E n : n \in DOMAIN b.nodes \ DOMAIN a.nodes
  \/ \E n \in DOMAIN b.nodes \cap DOMAIN a.nodes :
       \E x \in Doing : x \in DOMAIN b.nodes[n] /\ x \in DOMAIN a.nodes[n] /\ b.nodes[n][x] # a.nodes[n][x]
  \/ \E e \in b.edges : e.role # "menu-choice" /\ \A x \in a.edges : D!EdgeId(x) # D!EdgeId(e)
  \/ \E e \in a.edges : e.role # "menu-choice" /\ \A x \in b.edges : D!EdgeId(x) # D!EdgeId(e)

LEMMA BehaviourDiffers ==
  ASSUME NEW f, Shape(f), Legible(f), NEW g, Shape(g), Legible(g),
         NEW d \in Behaviour(f), d \notin Behaviour(g),
         NEW b, b = Normalized(f), NEW a, a = Normalized(g)
  PROVE  Disagree(b, a)
<1>1. PICK p \in Live(f) : d = Does(f, p.object)
  BY BehaviourIs
<1>. DEFINE o == p.object
            n == <<o>>
<1>2. n \in DOMAIN b.nodes
  BY NodeIs
<1>3. ASSUME n \notin DOMAIN a.nodes PROVE Disagree(b, a)
  BY <1>2, <1>3 DEF Disagree
<1>4. ASSUME n \in DOMAIN a.nodes PROVE Disagree(b, a)
  <2>1. PICK q \in Live(g) : q.object = o
    BY <1>4, NodeIsLive
  <2>2. Does(f, o) # Does(g, o)
    BY <1>1, <2>1, BehaviourIs
  <2>3. \/ \E x \in Doing : b.nodes[n][x] # a.nodes[n][x]
        \/ Leads(f, o) # Leads(g, o)
    BY <2>1, <2>2, DoesTheSame
  <2>4. Doing \subseteq DOMAIN b.nodes[n] /\ Doing \subseteq DOMAIN a.nodes[n]
    <3>1. \A h, r, s : Doing \subseteq DOMAIN N!ToSnapshotNode(h, r, s)
      BY DEF Doing, N!ToSnapshotNode
    <3>2. \E s : b.nodes[n] = N!ToSnapshotNode(f, b.dependencies, s)
      BY NodeIs
    <3>3. \E s : a.nodes[n] = N!ToSnapshotNode(g, a.dependencies, s)
      BY <2>1, NodeIs
    <3>. QED
      BY <3>1, <3>2, <3>3
  <2>5. CASE \E x \in Doing : b.nodes[n][x] # a.nodes[n][x]
    BY <1>2, <1>4, <2>4, <2>5 DEF Disagree
  <2>6. CASE \E l \in Leads(f, o) : l \notin Leads(g, o)
    <3>1. \E e \in b.edges : e.role # "menu-choice" /\ \A x \in a.edges : D!EdgeId(x) # D!EdgeId(e)
      BY <2>6, LeadIsAnEdge
    <3>. QED
      BY <3>1 DEF Disagree
  <2>7. CASE \E l \in Leads(g, o) : l \notin Leads(f, o)
    <3>1. \E e \in a.edges : e.role # "menu-choice" /\ \A x \in b.edges : D!EdgeId(x) # D!EdgeId(e)
      BY <2>1, <2>7, LeadIsAnEdge
    <3>. QED
      BY <3>1 DEF Disagree
  <2>8. Leads(f, o) # Leads(g, o) =>
          (\E l \in Leads(f, o) : l \notin Leads(g, o)) \/ (\E l \in Leads(g, o) : l \notin Leads(f, o))
    OBVIOUS
  <2>. QED
    BY <2>3, <2>5, <2>6, <2>7, <2>8
<1>. QED
  BY <1>3, <1>4

LEMMA DisagreementIsMaterial ==
  ASSUME NEW f, Shape(f), Legible(f), NEW g, Shape(g), Legible(g),
         NEW b, b = Normalized(f), NEW a, a = Normalized(g), Disagree(b, a) \/ Disagree(a, b)
  PROVE  \E c \in Found(b, a, D!DiffById(b.nodes, a.nodes), D!DiffEdges(b.edges, a.edges),
                        D!DiffById(b.variables, a.variables), D!DiffById(b.dependencies, a.dependencies)) :
           Material(c)
<1>. DEFINE nodes == D!DiffById(b.nodes, a.nodes)
            edges == D!DiffEdges(b.edges, a.edges)
            X == Found(b, a, nodes, edges, D!DiffById(b.variables, a.variables),
                       D!DiffById(b.dependencies, a.dependencies))
<1>1. \/ \E n : n \in DOMAIN b.nodes \ DOMAIN a.nodes \/ n \in DOMAIN a.nodes \ DOMAIN b.nodes
      \/ \E n \in DOMAIN b.nodes \cap DOMAIN a.nodes :
           \E x \in Doing : x \in DOMAIN b.nodes[n] /\ b.nodes[n][x] # a.nodes[n][x]
      \/ \E e : /\ e.role # "menu-choice"
                /\ \/ e \in b.edges /\ \A x \in a.edges : D!EdgeId(x) # D!EdgeId(e)
                   \/ e \in a.edges /\ \A x \in b.edges : D!EdgeId(x) # D!EdgeId(e)
  BY Zenon DEF Disagree
<1>2. ASSUME NEW e \in Unmatched(nodes), Material(Presence(e)) PROVE \E c \in X : Material(c)
  <2>1. Presence(e) \in X
    <3>. HIDE DEF nodes, edges
    <3>. QED
      BY DEF Found
  <2>. HIDE DEF X
  <2>. QED
    BY <1>2, <2>1
<1>3. ASSUME NEW e \in Altered(nodes), NEW c \in D!NodeChanges(e) PROVE c \in X
  <2>. HIDE DEF nodes, edges
  <2>. QED
    BY DEF Found
<1>4. ASSUME NEW e \in edges PROVE D!ClassifyEdgeChange(e) \in X
  <2>. HIDE DEF nodes, edges
  <2>. QED
    BY DEF Found
<1>. HIDE DEF X
<1>5. ASSUME \E n : n \in DOMAIN b.nodes \ DOMAIN a.nodes \/ n \in DOMAIN a.nodes \ DOMAIN b.nodes
      PROVE  \E c \in X : Material(c)
  <2>1. \E e \in Unmatched(nodes) : Material(Presence(e))
    BY <1>5, PresenceIsMaterial
  <2>. QED
    BY <1>2, <2>1
<1>6. ASSUME \E n \in DOMAIN b.nodes \cap DOMAIN a.nodes :
               \E x \in Doing : x \in DOMAIN b.nodes[n] /\ b.nodes[n][x] # a.nodes[n][x]
      PROVE  \E c \in X : Material(c)
  <2>1. \E e \in Altered(nodes) : \E c \in D!NodeChanges(e) : Material(c)
    BY <1>6, DoingIsMaterial
  <2>. QED
    BY <1>3, <2>1
<1>7. ASSUME NEW e, e.role # "menu-choice",
             \/ e \in b.edges /\ \A x \in a.edges : D!EdgeId(x) # D!EdgeId(e)
             \/ e \in a.edges /\ \A x \in b.edges : D!EdgeId(x) # D!EdgeId(e)
      PROVE  \E c \in X : Material(c)
  <2>1. \E x \in edges : Rerouting(x)
    BY <1>7, UnmatchedEdge
  <2>. QED
    BY <1>4, <2>1, ReroutingIsMaterial
<1>8. \E c \in X : Material(c)
  BY <1>1, <1>5, <1>6, <1>7
<1>. QED
  BY <1>8 DEF X

\* buildChanges, classifyChanges and createDiffFlow (diff.ts, change-classification.ts,
\* diff-flow.ts): however a flow was edited, when an object does something else than in the
\* version compared with, as far as a snapshot has what it does, one change of the answer
\* is neither cosmetic nor a matter of documentation, or the answer says how many lines it
\* leaves out.  What the extraction drops may change with an empty diff.
THEOREM BehaviourIsNeverPassedOver == FlowSpec => []BehaviourIsReviewed
<1>1. ASSUME DiffInv, Sized(captured), Sized(flow), Legible(captured), Legible(flow),
             Compared, Behaviour(captured) # Behaviour(flow)
      PROVE  \E line \in Said : Reported(line)
  <2>. DEFINE b == Normalized(captured)
              a == Normalized(flow)
              X == Found(b, a, D!DiffById(b.nodes, a.nodes), D!DiffEdges(b.edges, a.edges),
                         D!DiffById(b.variables, a.variables), D!DiffById(b.dependencies, a.dependencies))
  <2>1. report = D!Answer(b, a) /\ Shape(captured) /\ Shape(flow)
    BY <1>1, ComparedIs DEF DiffInv
  <2>2. Disagree(b, a) \/ Disagree(a, b)
    <3>1. CASE \E d \in Behaviour(captured) : d \notin Behaviour(flow)
      BY <1>1, <2>1, <3>1, BehaviourDiffers
    <3>2. CASE \E d \in Behaviour(flow) : d \notin Behaviour(captured)
      BY <1>1, <2>1, <3>2, BehaviourDiffers
    <3>. QED
      BY <1>1, <3>1, <3>2
  <2>3. \E c \in X : Material(c)
    BY <1>1, <2>1, <2>2, DisagreementIsMaterial
  <2>4. PICK c \in X : Material(c)
    BY <2>3
  <2>5. /\ D!DiffSnapshots(b, a).changes \in Seq(X)
        /\ \A x \in X : Named(x) => Listed(D!DiffSnapshots(b, a).changes, x)
    BY <1>1, <2>1, ChangesAre
  <2>. HIDE DEF X, a, b
  <2>6. Listed(D!DiffSnapshots(b, a).changes, c)
    BY <2>4, <2>5 DEF Material
  <2>7. \E line \in ToSet(D!Answer(b, a).answer.materialJourneyChanges) : Reported(line)
    BY <2>4, <2>5, <2>6, MaterialIsSaid
  <2>. QED
    BY <2>1, <2>7 DEF Said
<1>2. DiffInv /\ Sized(captured) /\ Sized(flow) /\ Legible(captured) /\ Legible(flow) => BehaviourIsReviewed
  BY <1>1 DEF BehaviourIsReviewed, Reported
<1>. QED
  BY DiffAlways, SizedAlways, LegibleAlways, <1>2, PTL

-----------------------------------------------------------------------------
(* What does not change when lists are put in another order *)

\* Two configurations that differ in the order of lists only.
Same(f, g) ==
  /\ f.start = g.start /\ f.objects = g.objects /\ f.variables = g.variables /\ f.manifest = g.manifest
  /\ f.meta = g.meta /\ f.version = g.version /\ f.shapeless = g.shapeless
  /\ \A x : Listed(f.order, x) <=> Listed(g.order, x)
  /\ \A c \in Boxes : \A x : /\ Listed(f.actions[c], x) <=> Listed(g.actions[c], x)
                             /\ Listed(f.choices[c], x) <=> Listed(g.choices[c], x)

\* The configuration that was captured, in whatever order: each object is in one list.
FirstChoice == [id |-> "c1", digit |-> 1, name |-> 3, action |-> "first"]
SecondChoice == [id |-> "c2", digit |-> 2, name |-> 4, action |-> "second"]
Original(f) ==
  /\ Shape(f) /\ f.shapeless = {} /\ \A o \in Parts : f.objects[o].well /\ f.objects[o].guid
  /\ \A c \in Boxes : Listed(f.order, c)
  /\ \A x : /\ ~Listed(f.actions["menu"], x) /\ ~Listed(f.choices["task"], x)
            /\ Listed(f.actions["task"], x) => x \in {"decide", "play", "spare"}
            /\ Listed(f.choices["menu"], x) => x \in {FirstChoice, SecondChoice}
Home(o) == IF o \in Boxes THEN Absent ELSE IF o \in {"first", "second"} THEN "menu" ELSE "task"

LEMMA OriginalIs ==
  ASSUME NEW anonymous, NEW unknown \in {<<>>, <<"spare">>} PROVE Original(Flow(anonymous, unknown))
<1>. DEFINE f == Flow(anonymous, unknown)
<1>1. /\ f.order = <<"menu", "task">>
      /\ f.actions = [menu |-> <<>>, task |-> <<"decide", "play">> \o unknown]
      /\ f.choices = [menu |-> <<FirstChoice, SecondChoice>>, task |-> <<>>]
      /\ f.objects = [o \in Parts |-> Object(o, anonymous)] /\ f.shapeless = {}
  BY DEF Flow, FirstChoice, SecondChoice, Parts
<1>2. \A o : Object(o, anonymous).well /\ Object(o, anonymous).guid
  BY DEF Object
<1>3. Shape(f)
  <2>1. unknown \in Seq(Parts)
    <3>1. <<>> \in Seq(Parts) /\ <<"spare">> \in Seq(Parts)
      BY DEF Parts, Base
    <3>. QED
      BY <3>1
  <2>. QED
    BY <2>1, FlowShape
<1>. HIDE DEF f
<1>4. Listed(f.order, "menu") /\ Listed(f.order, "task")
  <2>1. 1 \in DOMAIN f.order /\ f.order[1] = "menu" /\ 2 \in DOMAIN f.order /\ f.order[2] = "task"
    BY <1>1
  <2>. QED
    BY <2>1 DEF Listed
<1>5. \A x : ~Listed(f.actions["menu"], x) /\ ~Listed(f.choices["task"], x)
  BY <1>1 DEF Listed
<1>6. \A x : Listed(f.actions["task"], x) => x \in {"decide", "play", "spare"}
  <2>. DEFINE X == {"decide", "play", "spare"}
  <2>1. <<"decide", "play">> \in Seq(X) /\ <<"spare">> \in Seq(X) /\ <<>> \in Seq(X)
    OBVIOUS
  <2>. HIDE DEF X
  <2>2. unknown \in Seq(X)
    BY <2>1
  <2>3. f.actions["task"] \in Seq(X)
    BY <1>1, <2>1, <2>2
  <2>4. \A x : Listed(f.actions["task"], x) => x \in X
    BY <2>3 DEF Listed
  <2>. QED
    BY <2>4 DEF X
<1>7. \A x : Listed(f.choices["menu"], x) => x \in {FirstChoice, SecondChoice}
  <2>1. f.choices["menu"] = <<FirstChoice, SecondChoice>>
    BY <1>1
  <2>. QED
    BY <2>1 DEF Listed
<1>8. \A o \in Parts : f.objects[o].well /\ f.objects[o].guid
  <2>1. \A o \in Parts : f.objects[o] = Object(o, anonymous)
    <3>. HIDE DEF f
    <3>. QED
      BY <1>1
  <2>. HIDE DEF f
  <2>. QED
    BY <1>2, <2>1
<1>9. f.shapeless = {}
  BY <1>1
<1>. HIDE DEF f
<1>10. Original(f)
  BY <1>3, <1>4, <1>5, <1>6, <1>7, <1>8, <1>9 DEF Original, Boxes
<1>. QED
  BY <1>10 DEF f

LEMMA OriginalAlways == FlowSpec => []Original(captured)
<1>1. FlowInit => Original(captured)
  BY OriginalIs DEF FlowInit
<1>2. ASSUME Original(captured), [FlowNext]_<<subject, diff, analysis>>
      PROVE  Original(captured)'
  <2>1. DiffNext \/ UNCHANGED diff
    BY <1>2 DEF FlowNext
  <2>2. captured' = captured
    BY <2>1 DEF DiffNext, Edit, D!Compare, diff
  <2>. QED
    BY <1>2, <2>2
<1>. QED
  BY <1>1, <1>2, PTL DEF FlowSpec

LEMMA SameIs == ASSUME NEW f, Shape(f), NEW g, Shape(g), Reordering(f, g) PROVE Same(f, g)
<1>. DEFINE rest(h) == [h EXCEPT !.order = <<>>, !.actions = <<>>, !.choices = <<>>]
<1>1. rest(f) = rest(g)
  BY DEF Reordering
<1>2. ASSUME NEW h, Shape(h)
      PROVE  /\ rest(h).start = h.start /\ rest(h).objects = h.objects /\ rest(h).variables = h.variables
             /\ rest(h).manifest = h.manifest /\ rest(h).meta = h.meta /\ rest(h).version = h.version
             /\ rest(h).shapeless = h.shapeless
  BY <1>2 DEF Shape
<1>. HIDE DEF rest
<1>3. /\ f.start = g.start /\ f.objects = g.objects /\ f.variables = g.variables /\ f.manifest = g.manifest
      /\ f.meta = g.meta /\ f.version = g.version /\ f.shapeless = g.shapeless
  <2>1. /\ rest(f).start = f.start /\ rest(f).objects = f.objects /\ rest(f).variables = f.variables
        /\ rest(f).manifest = f.manifest /\ rest(f).meta = f.meta /\ rest(f).version = f.version
        /\ rest(f).shapeless = f.shapeless
    BY <1>2
  <2>2. /\ rest(g).start = g.start /\ rest(g).objects = g.objects /\ rest(g).variables = g.variables
        /\ rest(g).manifest = g.manifest /\ rest(g).meta = g.meta /\ rest(g).version = g.version
        /\ rest(g).shapeless = g.shapeless
    BY <1>2
  <2>. QED
    BY <1>1, <2>1, <2>2
<1>4. \A s, x : Listed(s, x) <=> x \in ToSet(s)
  BY DEF Listed, ToSet
<1>5. DOMAIN f.actions = Boxes
  BY DEF Shape
<1>. QED
  BY <1>3, <1>4, <1>5 DEF Reordering, Same

LEMMA SameOriginal == ASSUME NEW f, NEW g, Original(f), Shape(g), Same(f, g) PROVE Original(g)
  BY DEF Original, Same, Boxes

LEMMA SameIsSymmetric == ASSUME NEW f, NEW g, Same(f, g) PROVE Same(g, f)
  BY DEF Same

\* Lists that are arrays are read as they are.
LEMMA ListsAreRead ==
  ASSUME NEW f, f.shapeless = {}
  PROVE  \A c : N!ActionList(f, c) = f.actions[c] /\ N!MenuChoiceList(f, c) = f.choices[c]
  BY DEF N!ActionList, N!MenuChoiceList

\* The places of a walk, as the lists they come from.
LEMMA PlaceIs ==
  ASSUME NEW f, Shape(f), f.shapeless = {}, NEW p
  PROVE  p \in N!ToSet(N!Walk(f)) <=>
           \E c \in DOMAIN f.order :
             \/ p = Place(f, c)
             \/ \E i \in DOMAIN f.actions[f.order[c]] :
                  p = [object |-> f.actions[f.order[c]][i], within |-> f.order[c],
                       pointer |-> <<c, "actionList", i>>, index |-> i]
             \/ \E i \in DOMAIN f.choices[f.order[c]] :
                  p = [object |-> f.choices[f.order[c]][i].action, within |-> f.order[c],
                       pointer |-> <<c, "menuChoiceList", i>>, index |-> i]
<1>1. N!ToSet(N!Walk(f)) = UNION {Places(f, c) : c \in DOMAIN f.order}
  BY WalkIs
<1>2. ASSUME NEW c \in DOMAIN f.order
      PROVE  p \in Places(f, c) <=>
             \/ p = Place(f, c)
             \/ \E i \in DOMAIN f.actions[f.order[c]] :
                  p = [object |-> f.actions[f.order[c]][i], within |-> f.order[c],
                       pointer |-> <<c, "actionList", i>>, index |-> i]
             \/ \E i \in DOMAIN f.choices[f.order[c]] :
                  p = [object |-> f.choices[f.order[c]][i].action, within |-> f.order[c],
                       pointer |-> <<c, "menuChoiceList", i>>, index |-> i]
  <2>1. p \in Places(f, c) <=>
          \/ p = Place(f, c)
          \/ \E i \in DOMAIN ActionPlaces(f, c) : p = ActionPlaces(f, c)[i]
          \/ \E i \in DOMAIN ChoicePlaces(f, c) : p = ChoicePlaces(f, c)[i]
    BY DEF Places
  <2>2. (\E i \in DOMAIN ActionPlaces(f, c) : p = ActionPlaces(f, c)[i]) <=>
          \E i \in DOMAIN f.actions[f.order[c]] :
            p = [object |-> f.actions[f.order[c]][i], within |-> f.order[c],
                 pointer |-> <<c, "actionList", i>>, index |-> i]
    BY ListsAreRead DEF ActionPlaces
  <2>3. (\E i \in DOMAIN ChoicePlaces(f, c) : p = ChoicePlaces(f, c)[i]) <=>
          \E i \in DOMAIN f.choices[f.order[c]] :
            p = [object |-> f.choices[f.order[c]][i].action, within |-> f.order[c],
                 pointer |-> <<c, "menuChoiceList", i>>, index |-> i]
    BY ListsAreRead DEF ChoicePlaces
  <2>. QED
    BY <2>1, <2>2, <2>3
<1>3. p \in N!ToSet(N!Walk(f)) <=> \E c \in DOMAIN f.order : p \in Places(f, c)
  BY <1>1
<1>. QED
  BY <1>2, <1>3

LEMMA HomeIs ==
  ASSUME NEW f, Original(f), NEW p \in N!ToSet(N!Walk(f))
  PROVE  /\ p.within = Home(p.object) /\ f.objects[p.object].well
         /\ p.within # Absent => f.objects[p.within].well
<1>1. PICK c \in DOMAIN f.order :
             \/ p = Place(f, c)
             \/ \E i \in DOMAIN f.actions[f.order[c]] :
                  p = [object |-> f.actions[f.order[c]][i], within |-> f.order[c],
                       pointer |-> <<c, "actionList", i>>, index |-> i]
             \/ \E i \in DOMAIN f.choices[f.order[c]] :
                  p = [object |-> f.choices[f.order[c]][i].action, within |-> f.order[c],
                       pointer |-> <<c, "menuChoiceList", i>>, index |-> i]
  BY PlaceIs DEF Original
<1>2. f.order[c] \in Boxes
  BY DEF Original, Shape
<1>3. p.object \in Parts /\ Boxes \subseteq Parts
  BY PlacesAre DEF Original, Boxes, Parts, Base
<1>4. p.within = Home(p.object) /\ (p.within = Absent \/ p.within \in Boxes)
  <2>1. CASE p = Place(f, c)
    BY <1>2, <2>1 DEF Place, Home
  <2>2. ASSUME NEW i \in DOMAIN f.actions[f.order[c]], p.object = f.actions[f.order[c]][i], p.within = f.order[c]
        PROVE  p.within = Home(p.object) /\ p.within \in Boxes
    <3>1. Listed(f.actions[f.order[c]], p.object)
      BY <2>2 DEF Listed
    <3>2. f.order[c] = "task" /\ p.object \in {"decide", "play", "spare"}
      BY <1>2, <3>1 DEF Original, Boxes
    <3>. QED
      BY <1>2, <2>2, <3>2 DEF Home, Boxes
  <2>3. ASSUME NEW i \in DOMAIN f.choices[f.order[c]], p.object = f.choices[f.order[c]][i].action,
               p.within = f.order[c]
        PROVE  p.within = Home(p.object) /\ p.within \in Boxes
    <3>1. Listed(f.choices[f.order[c]], f.choices[f.order[c]][i])
      BY DEF Listed
    <3>2. f.order[c] = "menu" /\ f.choices[f.order[c]][i] \in {FirstChoice, SecondChoice}
      BY <1>2, <3>1 DEF Original, Boxes
    <3>3. p.object \in {"first", "second"}
      BY <2>3, <3>2 DEF FirstChoice, SecondChoice
    <3>. QED
      BY <1>2, <2>3, <3>2, <3>3 DEF Home, Boxes
  <2>4. ASSUME NEW i \in DOMAIN f.actions[f.order[c]],
               p = [object |-> f.actions[f.order[c]][i], within |-> f.order[c],
                    pointer |-> <<c, "actionList", i>>, index |-> i]
        PROVE  p.within = Home(p.object) /\ p.within \in Boxes
    <3>1. p.object = f.actions[f.order[c]][i] /\ p.within = f.order[c]
      BY <2>4
    <3>. QED
      BY <2>2, <3>1
  <2>5. ASSUME NEW i \in DOMAIN f.choices[f.order[c]],
               p = [object |-> f.choices[f.order[c]][i].action, within |-> f.order[c],
                    pointer |-> <<c, "menuChoiceList", i>>, index |-> i]
        PROVE  p.within = Home(p.object) /\ p.within \in Boxes
    <3>1. p.object = f.choices[f.order[c]][i].action /\ p.within = f.order[c]
      BY <2>5
    <3>. QED
      BY <2>3, <3>1
  <2>. HIDE DEF Home, Boxes
  <2>. QED
    BY <1>1, <2>1, <2>4, <2>5
<1>. QED
  BY <1>3, <1>4 DEF Original

\* The walk meets the same objects, each in the same list.
LEMMA KinIs ==
  ASSUME NEW f, Shape(f), f.shapeless = {}, NEW g, Shape(g), Same(f, g), NEW p \in N!ToSet(N!Walk(f))
  PROVE  \E q \in N!ToSet(N!Walk(g)) :
           q.object = p.object /\ q.within = p.within /\ N!ChoiceEdges(g, q) = N!ChoiceEdges(f, p)
<1>1. PICK c \in DOMAIN f.order :
             \/ p = Place(f, c)
             \/ \E i \in DOMAIN f.actions[f.order[c]] :
                  p = [object |-> f.actions[f.order[c]][i], within |-> f.order[c],
                       pointer |-> <<c, "actionList", i>>, index |-> i]
             \/ \E i \in DOMAIN f.choices[f.order[c]] :
                  p = [object |-> f.choices[f.order[c]][i].action, within |-> f.order[c],
                       pointer |-> <<c, "menuChoiceList", i>>, index |-> i]
  BY PlaceIs
<1>. DEFINE box == f.order[c]
<1>2. box \in Boxes
  BY DEF Shape
<1>3. PICK d \in DOMAIN g.order : g.order[d] = box
  <2>1. \A x : Listed(f.order, x) => Listed(g.order, x)
    BY DEF Same
  <2>2. Listed(f.order, box)
    BY DEF Listed
  <2>3. Listed(g.order, box)
    BY <2>1, <2>2
  <2>. QED
    BY <2>3 DEF Listed
<1>4. f.objects = g.objects /\ g.shapeless = {}
  BY DEF Same
<1>5. CASE p = Place(f, c)
  <2>. DEFINE q == Place(g, d)
  <2>1. q \in N!ToSet(N!Walk(g))
    <3>. HIDE DEF q
    <3>. QED
      BY <1>4, PlaceIs DEF q
  <2>2. q.object = p.object /\ q.within = Absent /\ p.within = Absent
    BY <1>3, <1>5 DEF Place
  <2>. HIDE DEF q
  <2>. QED
    BY <2>1, <2>2 DEF N!ChoiceEdges
<1>6. ASSUME NEW i \in DOMAIN f.actions[box],
             p = [object |-> f.actions[box][i], within |-> box, pointer |-> <<c, "actionList", i>>, index |-> i]
      PROVE  \E q \in N!ToSet(N!Walk(g)) :
               q.object = p.object /\ q.within = p.within /\ N!ChoiceEdges(g, q) = N!ChoiceEdges(f, p)
  <2>1. PICK j \in DOMAIN g.actions[box] : g.actions[box][j] = f.actions[box][i]
    BY <1>2, ZenonT(40) DEF Same, Listed
  <2>. DEFINE q == [object |-> g.actions[g.order[d]][j], within |-> g.order[d],
                    pointer |-> <<d, "actionList", j>>, index |-> j]
  <2>2. q \in N!ToSet(N!Walk(g))
    <3>1. j \in DOMAIN g.actions[g.order[d]]
      BY <1>3
    <3>. HIDE DEF q
    <3>. QED
      BY <1>4, <3>1, PlaceIs DEF q
  <2>3. q.object = p.object /\ q.within = p.within /\ q.pointer[2] = "actionList" /\ p.pointer[2] = "actionList"
    BY <1>3, <1>6, <2>1
  <2>. HIDE DEF q
  <2>4. N!ChoiceEdges(g, q) = {} /\ N!ChoiceEdges(f, p) = {}
    BY <2>3 DEF N!ChoiceEdges
  <2>. QED
    BY <2>2, <2>3, <2>4
<1>7. ASSUME NEW i \in DOMAIN f.choices[box],
             p = [object |-> f.choices[box][i].action, within |-> box,
                  pointer |-> <<c, "menuChoiceList", i>>, index |-> i]
      PROVE  \E q \in N!ToSet(N!Walk(g)) :
               q.object = p.object /\ q.within = p.within /\ N!ChoiceEdges(g, q) = N!ChoiceEdges(f, p)
  <2>1. PICK j \in DOMAIN g.choices[box] : g.choices[box][j] = f.choices[box][i]
    BY <1>2, ZenonT(40) DEF Same, Listed
  <2>. DEFINE q == [object |-> g.choices[g.order[d]][j].action, within |-> g.order[d],
                    pointer |-> <<d, "menuChoiceList", j>>, index |-> j]
  <2>2. q \in N!ToSet(N!Walk(g))
    <3>1. j \in DOMAIN g.choices[g.order[d]]
      BY <1>3
    <3>. HIDE DEF q
    <3>. QED
      BY <1>4, <3>1, PlaceIs DEF q
  <2>3. /\ q.object = p.object /\ q.within = box /\ p.within = box
        /\ q.pointer[2] = "menuChoiceList" /\ p.pointer[2] = "menuChoiceList" /\ q.index = j /\ p.index = i
    BY <1>3, <1>7, <2>1
  <2>. HIDE DEF q
  <2>4. N!ChoiceEdges(g, q) = N!ChoiceEdges(f, p)
    <3>. HIDE DEF box
    <3>1. N!MenuChoiceList(f, box) = f.choices[box] /\ N!MenuChoiceList(g, box) = g.choices[box]
      BY <1>4, ListsAreRead
    <3>. QED
      BY <1>4, <2>1, <2>3, <3>1 DEF N!ChoiceEdges
  <2>. QED
    BY <2>2, <2>3, <2>4
<1>. QED
  BY <1>1, <1>5, <1>6, <1>7

\* Where an object is does not depend on its place in its list.
InPlace(o) == [object |-> o, within |-> Home(o)]

LEMMA ExtractedIs ==
  ASSUME NEW f, Original(f), \A p \in N!ExtractNodes(f) : f.objects[p.object].identified,
         NEW known, known = {p.object : p \in N!ToSet(N!Walk(f))}
  PROVE  /\ N!ExtractNodes(f) = N!ToSet(N!Walk(f))
         /\ N!Identified(f, N!ExtractNodes(f)) = N!ToSet(N!Walk(f))
         /\ N!Referable(f, N!ExtractNodes(f)) = N!ToSet(N!Walk(f))
         /\ N!Guids(f, N!ExtractNodes(f)) = known
         /\ \A p \in N!ToSet(N!Walk(f)) : N!NodeId(f, p) = <<p.object>>
<1>. DEFINE walk == N!ToSet(N!Walk(f))
<1>1. \A p \in walk : N!Taken(f, p)
  BY HomeIs DEF N!Taken
<1>2. N!ExtractNodes(f) = walk
  BY <1>1 DEF N!ExtractNodes
<1>6. \A p \in walk : f.objects[p.object].guid
  BY PlacesAre DEF Original
<1>. HIDE DEF walk
<1>3. N!Identified(f, N!ExtractNodes(f)) = walk
  BY <1>2 DEF N!Identified
<1>7. N!Referable(f, N!ExtractNodes(f)) = walk
  BY <1>2, <1>6 DEF N!Referable, N!HasGuid
<1>4. N!Guids(f, N!ExtractNodes(f)) = known
  BY <1>7 DEF N!Guids, walk
<1>5. \A p \in walk : N!NodeId(f, p) = <<p.object>>
  BY <1>2 DEF N!NodeId
<1>. QED
  BY <1>2, <1>3, <1>4, <1>5, <1>7 DEF walk

LEMMA SameNode ==
  ASSUME NEW f, NEW g, Same(f, g), NEW dependencies, NEW p, NEW q,
         p.object = q.object, p.within = q.within
  PROVE  N!ToSnapshotNode(f, dependencies, p) = N!ToSnapshotNode(g, dependencies, q)
<1>1. f.objects = g.objects /\ f.variables = g.variables
  BY DEF Same
<1>2. \A o : N!Settings(f, o) = N!Settings(g, o)
  BY <1>1 DEF N!Settings, N!DescribeValueRef
<1>3. \A o : N!PromptRefs(f, dependencies, o) = N!PromptRefs(g, dependencies, o)
  BY <1>1 DEF N!PromptRefs
<1>. QED
  BY <1>1, <1>2, <1>3 DEF N!ToSnapshotNode

\* The nodes of a snapshot, by object.
LEMMA NodesAre ==
  ASSUME NEW f, Original(f), \A p \in N!ExtractNodes(f) : f.objects[p.object].identified,
         NEW known, known = {p.object : p \in N!ToSet(N!Walk(f))}
  PROVE  /\ Normalized(f).nodes
              = [n \in {<<o>> : o \in known} |-> N!ToSnapshotNode(f, N!ExtractDependencies(f, known), InPlace(n[1]))]
         /\ Normalized(f).entryNodeIds
              = {<<o>> : o \in {x \in known : Home(x) = Absent /\ \A e \in Normalized(f).edges : e.to # <<x>>}}
<1>. DEFINE nodes == N!ExtractNodes(f)
            walk == N!ToSet(N!Walk(f))
            dependencies == N!ExtractDependencies(f, known)
            byId == [n \in {N!NodeId(f, p) : p \in nodes} |-> CHOOSE p \in nodes : N!NodeId(f, p) = n]
<1>1. nodes = walk /\ N!Guids(f, nodes) = known /\ \A p \in walk : N!NodeId(f, p) = <<p.object>>
  BY ExtractedIs
<1>2. \A p \in walk : p.within = Home(p.object)
  BY HomeIs
<1>3. /\ Normalized(f).nodes = [n \in DOMAIN byId |-> N!ToSnapshotNode(f, dependencies, byId[n])]
      /\ Normalized(f).entryNodeIds = N!EntryNodeIds(f, nodes, Normalized(f).edges)
  BY <1>1 DEF Normalized, N!NormalizeFlow
<1>. HIDE DEF nodes, walk, dependencies
<1>4. DOMAIN byId = {<<o>> : o \in known}
  <2>1. DOMAIN byId = {<<p.object>> : p \in walk}
    BY <1>1
  <2>. QED
    BY <2>1 DEF walk
<1>5. \A n \in DOMAIN byId : byId[n] \in walk /\ <<byId[n].object>> = n
  BY <1>1
<1>6. \A n \in DOMAIN byId : byId[n].object = n[1] /\ byId[n].within = Home(n[1])
  BY <1>2, <1>5, SMTT(40)
<1>. HIDE DEF byId
<1>7. \A n \in DOMAIN byId :
        N!ToSnapshotNode(f, dependencies, byId[n]) = N!ToSnapshotNode(f, dependencies, InPlace(n[1]))
  BY <1>6, SameNode DEF InPlace, Same
<1>8. Normalized(f).nodes = [n \in {<<o>> : o \in known} |-> N!ToSnapshotNode(f, dependencies, InPlace(n[1]))]
  BY <1>3, <1>4, <1>7
<1>9. Normalized(f).entryNodeIds
        = {<<o>> : o \in {x \in known : Home(x) = Absent /\ \A e \in Normalized(f).edges : e.to # <<x>>}}
  <2>. DEFINE edges == Normalized(f).edges
  <2>. HIDE DEF edges
  <2>1. N!EntryNodeIds(f, nodes, edges)
          = {<<p.object>> : p \in {q \in walk : q.within = Absent /\ \A e \in edges : e.to # <<q.object>>}}
    BY <1>1 DEF N!EntryNodeIds
  <2>2. known = {p.object : p \in walk}
    BY DEF walk
  <2>3. N!EntryNodeIds(f, nodes, edges)
          = {<<o>> : o \in {x \in known : Home(x) = Absent /\ \A e \in edges : e.to # <<x>>}}
    <3>. DEFINE L == {q \in walk : q.within = Absent /\ \A e \in edges : e.to # <<q.object>>}
                R == {x \in known : Home(x) = Absent /\ \A e \in edges : e.to # <<x>>}
    <3>1. \A q \in L : q.object \in R
      BY <1>2, <2>2
    <3>2. \A x \in R : \E q \in L : q.object = x
      BY <1>2, <2>2
    <3>. HIDE DEF L, R
    <3>3. {<<p.object>> : p \in L} = {<<o>> : o \in R}
      BY <3>1, <3>2
    <3>. QED
      BY <2>1, <3>3 DEF L, R
  <2>. QED
    BY <1>3, <2>3 DEF edges
<1>. QED
  BY <1>8, <1>9 DEF dependencies

\* Two configurations that differ in the order of lists only have one snapshot, its hash and the
\* places its findings are at apart.
LEMMA SameKnown ==
  ASSUME NEW f, Shape(f), f.shapeless = {}, NEW g, Shape(g), Same(f, g)
  PROVE  {p.object : p \in N!ToSet(N!Walk(f))} = {p.object : p \in N!ToSet(N!Walk(g))}
<1>1. \A p \in N!ToSet(N!Walk(f)) : \E q \in N!ToSet(N!Walk(g)) : q.object = p.object
  BY KinIs
<1>2. \A p \in N!ToSet(N!Walk(g)) : \E q \in N!ToSet(N!Walk(f)) : q.object = p.object
  <2>1. Same(g, f)
    BY SameIsSymmetric
  <2>2. g.shapeless = {}
    BY DEF Same
  <2>. QED
    BY <2>1, <2>2, KinIs
<1>. QED
  BY <1>1, <1>2

LEMMA SameExtract ==
  ASSUME NEW f, NEW g, Same(f, g), NEW known, NEW p, NEW q, q.object = p.object,
         N!ChoiceEdges(g, q) = N!ChoiceEdges(f, p)
  PROVE  N!ExtractEdges(f, known, p) = N!ExtractEdges(g, known, q)
<1>1. f.objects = g.objects
  BY DEF Same
<1>2. N!FieldEdges(f, known, p) = N!FieldEdges(g, known, q)
  BY <1>1 DEF N!FieldEdges
<1>. QED
  BY <1>2 DEF N!ExtractEdges

LEMMA SameSnapshot ==
  ASSUME NEW f, Original(f), NEW g, Original(g), Same(f, g),
         \A p \in N!ExtractNodes(g) : g.objects[p.object].identified
  PROVE  /\ \A p \in N!ExtractNodes(f) : f.objects[p.object].identified
         /\ Normalized(f).nodes = Normalized(g).nodes
         /\ Normalized(f).entryNodeIds = Normalized(g).entryNodeIds
         /\ Normalized(f).edges = Normalized(g).edges
         /\ Normalized(f).variables = Normalized(g).variables
         /\ Normalized(f).dependencies = Normalized(g).dependencies
         /\ Normalized(f).meta = Normalized(g).meta /\ Normalized(f).version = Normalized(g).version
<1>. DEFINE walk(h) == N!ToSet(N!Walk(h))
            known == {p.object : p \in walk(g)}
            edges(h) == UNION {N!ExtractEdges(h, known, p) : p \in walk(h)}
<1>1. Shape(f) /\ Shape(g) /\ Same(g, f) /\ f.shapeless = {} /\ g.shapeless = {}
  BY SameIsSymmetric DEF Original
<1>2. known = {p.object : p \in walk(f)}
  BY <1>1, SameKnown
<1>3. /\ f.objects = g.objects /\ f.variables = g.variables /\ f.manifest = g.manifest
      /\ f.meta = g.meta /\ f.version = g.version
  BY DEF Same
<1>4. N!ExtractNodes(g) = walk(g) /\ N!Identified(g, N!ExtractNodes(g)) = walk(g)
      /\ N!Referable(g, N!ExtractNodes(g)) = walk(g)
      /\ N!Guids(g, N!ExtractNodes(g)) = known
  BY ExtractedIs
<1>5. \A p \in N!ExtractNodes(f) : f.objects[p.object].identified
  <2>1. \A p \in walk(g) : f.objects[p.object].identified
    BY <1>3, <1>4
  <2>2. \A p \in walk(f) : \E q \in walk(g) : p.object = q.object
    BY <1>1, KinIs
  <2>3. N!ExtractNodes(f) \subseteq walk(f)
    BY DEF N!ExtractNodes
  <2>. HIDE DEF walk
  <2>. QED
    BY <2>1, <2>2, <2>3
<1>6. N!ExtractNodes(f) = walk(f) /\ N!Identified(f, N!ExtractNodes(f)) = walk(f)
      /\ N!Referable(f, N!ExtractNodes(f)) = walk(f)
      /\ N!Guids(f, N!ExtractNodes(f)) = known
  BY <1>2, <1>5, ExtractedIs
<1>7. edges(f) = edges(g)
  <2>1. \A p \in walk(f) : \E q \in walk(g) : N!ExtractEdges(f, known, p) = N!ExtractEdges(g, known, q)
    <3>. SUFFICES ASSUME NEW p \in walk(f)
                  PROVE  \E q \in walk(g) : N!ExtractEdges(f, known, p) = N!ExtractEdges(g, known, q)
      OBVIOUS
    <3>1. PICK q \in walk(g) : q.object = p.object /\ N!ChoiceEdges(g, q) = N!ChoiceEdges(f, p)
      BY <1>1, KinIs
    <3>. HIDE DEF known
    <3>. QED
      BY <3>1, SameExtract
  <2>2. \A q \in walk(g) : \E p \in walk(f) : N!ExtractEdges(f, known, p) = N!ExtractEdges(g, known, q)
    <3>. SUFFICES ASSUME NEW q \in walk(g)
                  PROVE  \E p \in walk(f) : N!ExtractEdges(f, known, p) = N!ExtractEdges(g, known, q)
      OBVIOUS
    <3>1. PICK p \in walk(f) : q.object = p.object /\ N!ChoiceEdges(g, q) = N!ChoiceEdges(f, p)
      BY <1>1, KinIs
    <3>. HIDE DEF known
    <3>. QED
      BY <3>1, SameExtract
  <2>. HIDE DEF walk, known
  <2>. QED
    BY <2>1, <2>2
<1>8. Normalized(f).edges = edges(f) /\ Normalized(g).edges = edges(g)
  <2>1. /\ Normalized(f).edges = UNION {N!ExtractEdges(f, N!Guids(f, N!ExtractNodes(f)), p) :
                                        p \in N!Referable(f, N!ExtractNodes(f))}
        /\ Normalized(g).edges = UNION {N!ExtractEdges(g, N!Guids(g, N!ExtractNodes(g)), p) :
                                        p \in N!Referable(g, N!ExtractNodes(g))}
    BY SnapshotIs
  <2>. HIDE DEF walk, known
  <2>. QED
    BY <1>4, <1>6, <2>1
<1>9. /\ Normalized(f).variables = N!ExtractVariables(f, known)
      /\ Normalized(g).variables = N!ExtractVariables(g, known)
      /\ Normalized(f).dependencies = N!ExtractDependencies(f, known)
      /\ Normalized(g).dependencies = N!ExtractDependencies(g, known)
      /\ Normalized(f).meta = Normalized(g).meta
      /\ Normalized(f).version = f.version /\ Normalized(g).version = g.version
  BY <1>2, <1>4, <1>6 DEF Normalized, N!NormalizeFlow
<1>. HIDE DEF walk, known, edges
<1>10. N!ExtractVariables(f, known) = N!ExtractVariables(g, known)
  BY <1>3 DEF N!ExtractVariables
<1>11. N!ExtractDependencies(f, known) = N!ExtractDependencies(g, known)
  BY <1>3 DEF N!ExtractDependencies
<1>12. \A n : N!ToSnapshotNode(f, N!ExtractDependencies(f, known), InPlace(n[1]))
                = N!ToSnapshotNode(g, N!ExtractDependencies(g, known), InPlace(n[1]))
  BY <1>11, SameNode
<1>. DEFINE nodes(h) == [n \in {<<o>> : o \in known} |->
                      N!ToSnapshotNode(h, N!ExtractDependencies(h, known), InPlace(n[1]))]
            entries(h) == {<<o>> : o \in {x \in known : /\ Home(x) = Absent
                                                      /\ \A e \in Normalized(h).edges : e.to # <<x>>}}
<1>13. /\ known = {p.object : p \in N!ToSet(N!Walk(f))}
       /\ known = {p.object : p \in N!ToSet(N!Walk(g))}
  BY <1>2 DEF known, walk
<1>14. Normalized(f).nodes = nodes(f) /\ Normalized(f).entryNodeIds = entries(f)
  BY <1>5, <1>13, NodesAre, Zenon
<1>15. Normalized(g).nodes = nodes(g) /\ Normalized(g).entryNodeIds = entries(g)
  BY <1>13, NodesAre, Zenon
<1>16. Normalized(f).nodes = Normalized(g).nodes
  BY <1>12, <1>14, <1>15
<1>17. Normalized(f).entryNodeIds = Normalized(g).entryNodeIds
  BY <1>7, <1>8, <1>14, <1>15
<1>. QED
  BY <1>3, <1>5, <1>7, <1>8, <1>9, <1>10, <1>11, <1>16, <1>17

\* A choice of the captured configuration is one of its two, wherever it is now.
LEMMA ChoiceOfPlace ==
  ASSUME NEW f, Original(f), NEW p \in N!ToSet(N!Walk(f)), p.within # Absent, p.pointer[2] = "menuChoiceList"
  PROVE  N!MenuChoiceList(f, p.within)[p.index] \in {FirstChoice, SecondChoice}
<1>1. PICK c \in DOMAIN f.order :
             \/ p = Place(f, c)
             \/ \E i \in DOMAIN f.actions[f.order[c]] :
                  p = [object |-> f.actions[f.order[c]][i], within |-> f.order[c],
                       pointer |-> <<c, "actionList", i>>, index |-> i]
             \/ \E i \in DOMAIN f.choices[f.order[c]] :
                  p = [object |-> f.choices[f.order[c]][i].action, within |-> f.order[c],
                       pointer |-> <<c, "menuChoiceList", i>>, index |-> i]
  BY PlaceIs DEF Original
<1>2. p # Place(f, c)
  BY DEF Place
<1>3. PICK i \in DOMAIN f.choices[f.order[c]] : p.within = f.order[c] /\ p.index = i
  BY <1>1, <1>2
<1>4. f.order[c] \in Boxes /\ Listed(f.choices[f.order[c]], f.choices[f.order[c]][i])
  BY DEF Original, Shape, Listed
<1>. QED
  BY <1>3, <1>4, ListsAreRead DEF Original, Boxes

\* The snapshot of a configuration in which only the order changed has nothing to report.
LEMMA NothingById == ASSUME NEW x PROVE D!DiffById(x, x) = {}
  BY DEF D!DiffById

LEMMA OriginalEdges ==
  ASSUME NEW f, Original(f), Legible(f), NEW e \in Normalized(f).edges, NEW d \in Normalized(f).edges,
         D!EdgeId(e) = D!EdgeId(d)
  PROVE  e = d
<1>. DEFINE edge(from, to, role, condition, label, site) ==
              [from |-> from, to |-> to, role |-> role, condition |-> condition, label |-> label, site |-> site]
            ByChoice(x) == \E c \in {FirstChoice, SecondChoice} :
              x = edge(x.from, x.to, "menu-choice", Absent, <<c.digit, c.name>>, c.id)
            ByField(x) == \E s \in Sited : \E o :
              x = edge(<<o>>, x.to, N!Role(s), N!Condition(s), N!Label(f.objects[o], s), s)
<1>. DEFINE nodes == N!ExtractNodes(f)
            known == N!Guids(f, nodes)
<1>1. e.from = d.from /\ e.to = d.to /\ e.role = d.role /\ e.site = d.site
  BY DEF D!EdgeId
<1>2. Normalized(f).edges = UNION {N!ExtractEdges(f, known, p) : p \in N!Referable(f, nodes)}
  BY SnapshotIs
<1>3. N!Referable(f, nodes) \subseteq N!ToSet(N!Walk(f))
  BY DEF N!Referable, N!ExtractNodes
<1>. HIDE DEF nodes, known
<1>4. ASSUME NEW p \in N!ToSet(N!Walk(f)), NEW x \in N!ChoiceEdges(f, p) PROVE ByChoice(x)
  <2>. DEFINE c == N!MenuChoiceList(f, p.within)[p.index]
  <2>1. p.within # Absent /\ p.pointer[2] = "menuChoiceList"
    BY <1>4 DEF N!ChoiceEdges
  <2>2. x = edge(<<p.within>>, <<p.object>>, "menu-choice", Absent, <<c.digit, c.name>>, c.id)
    BY <1>4 DEF N!ChoiceEdges
  <2>3. c \in {FirstChoice, SecondChoice}
    BY <2>1, ChoiceOfPlace
  <2>. HIDE DEF c
  <2>. QED
    BY <2>2, <2>3
<1>5. ASSUME NEW p \in N!ToSet(N!Walk(f)), NEW x \in N!FieldEdges(f, known, p) PROVE ByField(x)
  <2>1. p.object \in Parts
    BY PlacesAre DEF Original
  <2>2. DOMAIN f.objects[p.object].refs \subseteq Sited
    BY <2>1, SitesAre DEF Legible
  <2>. QED
    BY <1>5, <2>2 DEF N!FieldEdges, N!References
<1>6. \A x \in Normalized(f).edges : ByChoice(x) \/ ByField(x)
  <2>. SUFFICES ASSUME NEW x \in Normalized(f).edges PROVE ByChoice(x) \/ ByField(x)
    OBVIOUS
  <2>1. PICK p \in N!ToSet(N!Walk(f)) : x \in N!ExtractEdges(f, known, p)
    BY <1>2, <1>3
  <2>. HIDE DEF ByChoice, ByField
  <2>. QED
    BY <1>4, <1>5, <2>1 DEF N!ExtractEdges
<1>7. FirstChoice.id # SecondChoice.id
  BY DEF FirstChoice, SecondChoice
<1>8. \A s \in Sited : N!Role(s) # "menu-choice"
  BY SitesAre
<1>9. \A x : /\ ByChoice(x) => x.role = "menu-choice"
             /\ ByField(x) => x.role # "menu-choice"
  BY <1>8
<1>10. ByChoice(e) /\ ByChoice(d) => e = d
  BY <1>1, <1>7
<1>11. ByField(e) /\ ByField(d) => e = d
  BY <1>1
<1>. HIDE DEF ByChoice, ByField
<1>. QED
  BY <1>1, <1>6, <1>9, <1>10, <1>11

LEMMA NothingOfEdges ==
  ASSUME NEW E, \A e, d \in E : D!EdgeId(e) = D!EdgeId(d) => e = d
  PROVE  D!DiffEdges(E, E) = {}
<1>. DEFINE kept == {p \in E \X E : D!EdgeId(p[1]) = D!EdgeId(p[2])}
            lost == E \ {p[1] : p \in kept}
            gained == E \ {p[2] : p \in kept}
<1>1. \A p \in kept : p[1] = p[2]
  OBVIOUS
<1>2. \A e \in E : \E p \in kept : p[1] = e /\ p[2] = e
  <2>. SUFFICES ASSUME NEW e \in E PROVE \E p \in kept : p[1] = e /\ p[2] = e
    OBVIOUS
  <2>1. <<e, e>> \in kept /\ <<e, e>>[1] = e /\ <<e, e>>[2] = e
    OBVIOUS
  <2>. QED
    BY <2>1
<1>. HIDE DEF kept
<1>3. lost = {} /\ gained = {}
  BY <1>2
<1>. HIDE DEF lost, gained
<1>. DEFINE alone(e, es) == \A x \in es : D!Slot(x) = D!Slot(e) => x = e
            rerouted == {p \in lost \X gained :
                           D!Slot(p[1]) = D!Slot(p[2]) /\ alone(p[1], lost) /\ alone(p[2], gained)}
<1>4. rerouted = {}
  BY <1>3
<1>. HIDE DEF rerouted
<1>5. D!DiffEdges(E, E)
      = {D!Entry("changed", p[1], p[2], {"label"}, D!EdgeId(p[2])) : p \in {q \in kept : q[1].label # q[2].label}}
        \cup {D!Entry("changed", p[1], p[2], {f \in {"to", "condition", "label"} : p[1][f] # p[2][f]},
                      D!EdgeId(p[2])) : p \in rerouted}
        \cup {D!Entry("added", Absent, a, {}, D!EdgeId(a)) : a \in gained \ {p[2] : p \in rerouted}}
        \cup {D!Entry("removed", b, Absent, {}, D!EdgeId(b)) : b \in lost \ {p[1] : p \in rerouted}}
  BY DEF D!DiffEdges, kept, lost, gained, rerouted
<1>6. {q \in kept : q[1].label # q[2].label} = {}
  BY <1>1
<1>. QED
  BY <1>3, <1>4, <1>5, <1>6

\* The findings differ in their places only.
LEMMA SameFindings ==
  ASSUME NEW f, Original(f), NEW g, Original(g), Same(f, g),
         NEW w \in Normalized(g).warnings, w.code = "UNSUPPORTED_NODE_TYPE"
  PROVE  \E v \in Normalized(f).warnings : v.code = "UNSUPPORTED_NODE_TYPE"
<1>. DEFINE nodes(h) == N!ExtractNodes(h)
            known(h) == N!Guids(h, nodes(h))
<1>1. f.objects = g.objects /\ Shape(f) /\ Shape(g) /\ Same(g, f) /\ g.shapeless = {}
  BY SameIsSymmetric DEF Same, Original
<1>2. \A h : Normalized(h).warnings
        = N!NodeWarnings(h, nodes(h)) \cup N!EdgeWarnings(h, nodes(h), known(h))
          \cup N!PromptWarnings(h, nodes(h), N!ExtractDependencies(h, known(h))) \cup N!DeviationWarnings(h)
          \cup N!SettingsWarnings(h, nodes(h))
  BY SnapshotIs
<1>. HIDE DEF nodes, known
<1>3. w \in N!NodeWarnings(g, nodes(g))
  <2>1. w \notin N!EdgeWarnings(g, nodes(g), known(g))
    BY DEF N!EdgeWarnings
  <2>2. w \notin N!PromptWarnings(g, nodes(g), N!ExtractDependencies(g, known(g)))
    BY DEF N!PromptWarnings
  <2>3. w \notin N!DeviationWarnings(g) /\ w \notin N!SettingsWarnings(g, nodes(g))
    BY DEF N!DeviationWarnings, N!SettingsWarnings
  <2>. QED
    BY <1>2, <2>1, <2>2, <2>3
<1>4. PICK q \in nodes(g) : N!SupportLevel(g.objects[q.object]) # "full"
  BY <1>3 DEF N!NodeWarnings
<1>5. q \in N!ToSet(N!Walk(g))
  BY DEF nodes, N!ExtractNodes
<1>6. PICK p \in N!ToSet(N!Walk(f)) : p.object = q.object
  BY <1>1, <1>5, KinIs
<1>7. p \in nodes(f) /\ N!SupportLevel(f.objects[p.object]) # "full"
  BY <1>1, <1>4, <1>6, HomeIs DEF nodes, N!ExtractNodes, N!Taken
<1>8. [code |-> "UNSUPPORTED_NODE_TYPE", at |-> p.pointer, node |-> N!NodeId(f, p)] \in N!NodeWarnings(f, nodes(f))
  BY <1>7 DEF N!NodeWarnings
<1>. DEFINE v == [code |-> "UNSUPPORTED_NODE_TYPE", at |-> p.pointer, node |-> N!NodeId(f, p)]
<1>9. v \in Normalized(f).warnings
  <2>. HIDE DEF v
  <2>. QED
    BY <1>2, <1>8 DEF v
<1>. QED
  BY <1>9

LEMMA NothingIsFound ==
  ASSUME NEW b, NEW a, b.meta = a.meta, b.version = a.version, b.entryNodeIds = a.entryNodeIds,
         (\E w \in a.warnings : w.code = "UNSUPPORTED_NODE_TYPE") =>
           \E v \in b.warnings : v.code = "UNSUPPORTED_NODE_TYPE"
  PROVE  Found(b, a, {}, {}, {}, {}) = {}
<1>1. D!MetadataChanges(b, a) = {}
  BY DEF D!MetadataChanges, D!ChangedFields
<1>2. D!EntryChanges(b, a) = {}
  BY DEF D!EntryChanges
<1>3. D!VersionChanges(b, a) = {}
  BY DEF D!VersionChanges
<1>4. D!CoverageWarnings(b, a) = {}
  BY DEF D!CoverageWarnings, D!WarningKey
<1>5. D!PromptChanges({}) = {} /\ Altered({}) = {} /\ Unmatched({}) = {}
  BY DEF D!PromptChanges, Altered, Unmatched
<1>. QED
  BY <1>1, <1>2, <1>3, <1>4, <1>5 DEF Found

\* What is said when no change is found.
LEMMA OnlyTheBasis ==
  ASSUME NEW b, NEW a, D!DiffSnapshots(b, a).changes = <<>>
  PROVE  D!Answer(b, a).answer.materialJourneyChanges = <<D!BasisNote(D!DiffSnapshots(b, a))>>
<1>. DEFINE snapshots == D!DiffSnapshots(b, a)
            review == D!ClassifyChanges(snapshots.changes)
            basis == D!BasisNote(snapshots)
<1>1. D!Answer(b, a).answer.materialJourneyChanges = D!Capped(D!MaterialJourneyChanges(snapshots, review))
  <2>. HIDE DEF review, snapshots
  <2>1. D!Answer(b, a).answer = D!FlowDiffOf(snapshots, review, b, a)
    BY DEF D!Answer, snapshots, review
  <2>. QED
    BY <2>1 DEF D!FlowDiffOf
<1>2. review.classified = <<>> /\ ~review.blocksApproval
  <2>1. D!ToSet(<<>>) = {}
    BY DEF D!ToSet
  <2>2. {D!ClassifyOne(c) : c \in D!ToSet(<<>>)} = {}
    BY <2>1
  <2>3. review = D!ClassifyChanges(<<>>)
    <3>. HIDE DEF snapshots
    <3>. QED
      BY DEF snapshots
  <2>4. /\ D!ClassifyChanges(<<>>).classified
             = [i \in DOMAIN <<>> |-> [change |-> <<>>[i], category |-> D!ClassifyOne(<<>>[i])]]
        /\ D!ClassifyChanges(<<>>).blocksApproval
             <=> "coverage-regression" \in {D!ClassifyOne(c) : c \in D!ToSet(<<>>)}
    BY DEF D!ClassifyChanges
  <2>5. [i \in DOMAIN <<>> |-> [change |-> <<>>[i], category |-> D!ClassifyOne(<<>>[i])]] = <<>>
    OBVIOUS
  <2>. QED
    BY <2>2, <2>3, <2>4, <2>5
<1>. HIDE DEF snapshots, review
<1>3. D!MaterialJourneyChanges(snapshots, review) = <<basis>>
  <2>1. D!BlockNote(review) = <<>>
    BY <1>2 DEF D!BlockNote
  <2>2. [i \in DOMAIN review.classified |-> D!DescribeClassifiedChange(review.classified[i])] = <<>>
    BY <1>2
  <2>3. D!MaterialJourneyChanges(snapshots, review) = <<basis>> \o <<>> \o <<>>
    BY <2>1, <2>2 DEF D!MaterialJourneyChanges
  <2>. HIDE DEF basis
  <2>. QED
    BY <2>3
<1>4. D!Capped(<<basis>>) = <<basis>>
  <2>. HIDE DEF basis
  <2>. QED
    BY FlowAssumption DEF D!Capped
<1>. QED
  BY <1>1, <1>3, <1>4 DEF snapshots

\* The hash tells the orders of a captured configuration apart.
LEMMA HashIsOf ==
  ASSUME NEW f, Original(f), \A p \in N!ExtractNodes(f) : f.objects[p.object].identified,
         NEW p \in N!ToSet(N!Walk(f)),
         NEW g, Original(g), \A q \in N!ExtractNodes(g) : g.objects[q.object].identified,
         Normalized(f).hash = Normalized(g).hash
  PROVE  \E q \in N!ToSet(N!Walk(g)) : q.object = p.object /\ q.pointer = p.pointer
<1>. DEFINE known(h) == {x.object : x \in N!ToSet(N!Walk(h))}
            dependencies(h) == N!ExtractDependencies(h, known(h))
            hashed(h, x) == <<N!NodeId(h, x), x.pointer,
              [N!ToSnapshotNode(h, dependencies(h), x) EXCEPT !.settings.expression = N!Unordered(@)]>>
<1>1. ASSUME NEW h \in {f, g}
      PROVE  /\ Normalized(h).hash.nodes = {hashed(h, x) : x \in N!ToSet(N!Walk(h))}
             /\ \A x \in N!ToSet(N!Walk(h)) : N!NodeId(h, x) = <<x.object>>
  <2>1. /\ N!ExtractNodes(h) = N!ToSet(N!Walk(h)) /\ N!Guids(h, N!ExtractNodes(h)) = known(h)
        /\ \A x \in N!ToSet(N!Walk(h)) : N!NodeId(h, x) = <<x.object>>
    BY ExtractedIs
  <2>2. Normalized(h).hash
          = N!NormalizedGraph(h, N!ExtractNodes(h), N!Guids(h, N!ExtractNodes(h)),
                              N!ExtractDependencies(h, N!Guids(h, N!ExtractNodes(h))))
    BY DEF Normalized, N!NormalizeFlow
  <2>3. \A nodes, k, d : N!NormalizedGraph(h, nodes, k, d).nodes
          = {<<N!NodeId(h, x), x.pointer,
               [N!ToSnapshotNode(h, d, x) EXCEPT !.settings.expression = N!Unordered(@)]>> : x \in nodes}
    BY DEF N!NormalizedGraph
  <2>. HIDE DEF known
  <2>4. Normalized(h).hash = N!NormalizedGraph(h, N!ToSet(N!Walk(h)), known(h), dependencies(h))
    BY <2>1, <2>2
  <2>. HIDE DEF dependencies
  <2>. QED
    BY <2>1, <2>3, <2>4
<1>2. \A h, x : hashed(h, x)[1] = N!NodeId(h, x) /\ hashed(h, x)[2] = x.pointer
  OBVIOUS
<1>. HIDE DEF hashed
<1>3. hashed(f, p) \in {hashed(g, x) : x \in N!ToSet(N!Walk(g))}
  BY <1>1
<1>4. PICK q \in N!ToSet(N!Walk(g)) : hashed(f, p) = hashed(g, q)
  BY <1>3
<1>5. N!NodeId(f, p) = N!NodeId(g, q) /\ p.pointer = q.pointer
  BY <1>2, <1>4
<1>6. <<p.object>> = <<q.object>>
  BY <1>1, <1>5
<1>. QED
  BY <1>5, <1>6

\* Where an object of a given place is in the other configuration.
LEMMA PointedAt ==
  ASSUME NEW g, Original(g), NEW q \in N!ToSet(N!Walk(g)), NEW c, NEW i
  PROVE  /\ q.pointer = <<c>> => c \in DOMAIN g.order /\ q.object = g.order[c]
         /\ q.pointer = <<c, "actionList", i>> =>
              /\ c \in DOMAIN g.order /\ i \in DOMAIN g.actions[g.order[c]]
              /\ q.object = g.actions[g.order[c]][i]
         /\ q.pointer = <<c, "menuChoiceList", i>> =>
              /\ c \in DOMAIN g.order /\ i \in DOMAIN g.choices[g.order[c]]
              /\ q.object = g.choices[g.order[c]][i].action
<1>1. PICK d \in DOMAIN g.order :
             \/ q = Place(g, d)
             \/ \E k \in DOMAIN g.actions[g.order[d]] :
                  q = [object |-> g.actions[g.order[d]][k], within |-> g.order[d],
                       pointer |-> <<d, "actionList", k>>, index |-> k]
             \/ \E k \in DOMAIN g.choices[g.order[d]] :
                  q = [object |-> g.choices[g.order[d]][k].action, within |-> g.order[d],
                       pointer |-> <<d, "menuChoiceList", k>>, index |-> k]
  BY PlaceIs DEF Original
<1>2. \A x, y, s, z : /\ Len(<<x>>) = 1 /\ Len(<<y, s, z>>) = 3 /\ <<x>>[1] = x
                      /\ <<y, s, z>>[1] = y /\ <<y, s, z>>[2] = s /\ <<y, s, z>>[3] = z
  OBVIOUS
<1>3. CASE q = Place(g, d)
  <2>1. q.pointer = <<d>> /\ q.object = g.order[d]
    BY <1>3 DEF Place
  <2>2. q.pointer # <<c, "actionList", i>> /\ q.pointer # <<c, "menuChoiceList", i>>
    BY <1>2, <2>1
  <2>3. q.pointer = <<c>> => c = d
    BY <1>2, <2>1
  <2>. QED
    BY <2>1, <2>2, <2>3
<1>4. ASSUME NEW k \in DOMAIN g.actions[g.order[d]], q.object = g.actions[g.order[d]][k],
             q.pointer = <<d, "actionList", k>>
      PROVE  /\ q.pointer # <<c>> /\ q.pointer # <<c, "menuChoiceList", i>>
             /\ q.pointer = <<c, "actionList", i>> => c = d /\ i = k
  <2>1. "actionList" # "menuChoiceList" /\ 1 # 3
    OBVIOUS
  <2>2. q.pointer # <<c>>
    BY <1>2, <1>4, <2>1
  <2>3. q.pointer # <<c, "menuChoiceList", i>>
    BY <1>2, <1>4, <2>1
  <2>4. q.pointer = <<c, "actionList", i>> => c = d /\ i = k
    BY <1>2, <1>4
  <2>. QED
    BY <2>2, <2>3, <2>4
<1>5. ASSUME NEW k \in DOMAIN g.choices[g.order[d]], q.object = g.choices[g.order[d]][k].action,
             q.pointer = <<d, "menuChoiceList", k>>
      PROVE  /\ q.pointer # <<c>> /\ q.pointer # <<c, "actionList", i>>
             /\ q.pointer = <<c, "menuChoiceList", i>> => c = d /\ i = k
  <2>1. "actionList" # "menuChoiceList" /\ 1 # 3
    OBVIOUS
  <2>2. q.pointer # <<c>>
    BY <1>2, <1>5, <2>1
  <2>3. q.pointer # <<c, "actionList", i>>
    BY <1>2, <1>5, <2>1
  <2>4. q.pointer = <<c, "menuChoiceList", i>> => c = d /\ i = k
    BY <1>2, <1>5
  <2>. QED
    BY <2>2, <2>3, <2>4
<1>6. ASSUME NEW k \in DOMAIN g.actions[g.order[d]],
             q = [object |-> g.actions[g.order[d]][k], within |-> g.order[d],
                  pointer |-> <<d, "actionList", k>>, index |-> k]
      PROVE  /\ q.pointer # <<c>> /\ q.pointer # <<c, "menuChoiceList", i>>
             /\ q.pointer = <<c, "actionList", i>> => c = d /\ i = k
             /\ q.object = g.actions[g.order[d]][k]
  <2>1. q.object = g.actions[g.order[d]][k] /\ q.pointer = <<d, "actionList", k>>
    BY <1>6
  <2>. QED
    BY <1>4, <2>1
<1>7. ASSUME NEW k \in DOMAIN g.choices[g.order[d]],
             q = [object |-> g.choices[g.order[d]][k].action, within |-> g.order[d],
                  pointer |-> <<d, "menuChoiceList", k>>, index |-> k]
      PROVE  /\ q.pointer # <<c>> /\ q.pointer # <<c, "actionList", i>>
             /\ q.pointer = <<c, "menuChoiceList", i>> => c = d /\ i = k
             /\ q.object = g.choices[g.order[d]][k].action
  <2>1. q.object = g.choices[g.order[d]][k].action /\ q.pointer = <<d, "menuChoiceList", k>>
    BY <1>7
  <2>. QED
    BY <1>5, <2>1
<1>. QED
  BY <1>1, <1>3, <1>6, <1>7

\* Every place of one has its counterpart in the other.
LEMMA HashCovers ==
  ASSUME NEW f, Original(f), \A p \in N!ExtractNodes(f) : f.objects[p.object].identified,
         NEW g, Original(g), \A q \in N!ExtractNodes(g) : g.objects[q.object].identified,
         Normalized(f).hash = Normalized(g).hash, NEW c \in DOMAIN f.order
  PROVE  /\ c \in DOMAIN g.order /\ g.order[c] = f.order[c]
         /\ \A i \in DOMAIN f.actions[f.order[c]] :
              /\ i \in DOMAIN g.actions[f.order[c]]
              /\ g.actions[f.order[c]][i] = f.actions[f.order[c]][i]
         /\ \A i \in DOMAIN f.choices[f.order[c]] :
              /\ i \in DOMAIN g.choices[f.order[c]]
              /\ g.choices[f.order[c]][i].action = f.choices[f.order[c]][i].action
<1>1. Shape(f) /\ f.shapeless = {}
  BY DEF Original
<1>2. c \in DOMAIN g.order /\ g.order[c] = f.order[c]
  <2>. DEFINE p == Place(f, c)
  <2>1. p \in N!ToSet(N!Walk(f))
    <3>. HIDE DEF p
    <3>. QED
      BY <1>1, PlaceIs DEF p
  <2>2. p.object = f.order[c] /\ p.pointer = <<c>>
    BY DEF Place
  <2>. HIDE DEF p
  <2>3. PICK q \in N!ToSet(N!Walk(g)) : q.object = p.object /\ q.pointer = p.pointer
    BY <2>1, HashIsOf
  <2>. QED
    BY <2>2, <2>3, PointedAt
<1>3. ASSUME NEW i \in DOMAIN f.actions[f.order[c]]
      PROVE  i \in DOMAIN g.actions[f.order[c]] /\ g.actions[f.order[c]][i] = f.actions[f.order[c]][i]
  <2>. DEFINE p == [object |-> f.actions[f.order[c]][i], within |-> f.order[c],
                    pointer |-> <<c, "actionList", i>>, index |-> i]
  <2>1. p \in N!ToSet(N!Walk(f))
    <3>. HIDE DEF p
    <3>. QED
      BY <1>1, PlaceIs DEF p
  <2>2. p.object = f.actions[f.order[c]][i] /\ p.pointer = <<c, "actionList", i>>
    OBVIOUS
  <2>. HIDE DEF p
  <2>3. PICK q \in N!ToSet(N!Walk(g)) : q.object = p.object /\ q.pointer = p.pointer
    BY <2>1, HashIsOf
  <2>4. i \in DOMAIN g.actions[g.order[c]] /\ q.object = g.actions[g.order[c]][i]
    <3>1. q.pointer = <<c, "actionList", i>>
      BY <2>2, <2>3
    <3>2. i \in DOMAIN g.actions[g.order[c]] /\ q.object = g.actions[g.order[c]][i]
      BY <3>1, PointedAt
    <3>. QED
      BY <2>2, <2>3, <3>2
  <2>. QED
    BY <1>2, <2>2, <2>3, <2>4
<1>4. ASSUME NEW i \in DOMAIN f.choices[f.order[c]]
      PROVE  i \in DOMAIN g.choices[f.order[c]]
             /\ g.choices[f.order[c]][i].action = f.choices[f.order[c]][i].action
  <2>. DEFINE p == [object |-> f.choices[f.order[c]][i].action, within |-> f.order[c],
                    pointer |-> <<c, "menuChoiceList", i>>, index |-> i]
  <2>1. p \in N!ToSet(N!Walk(f))
    <3>. HIDE DEF p
    <3>. QED
      BY <1>1, PlaceIs DEF p
  <2>2. p.object = f.choices[f.order[c]][i].action /\ p.pointer = <<c, "menuChoiceList", i>>
    OBVIOUS
  <2>. HIDE DEF p
  <2>3. PICK q \in N!ToSet(N!Walk(g)) : q.object = p.object /\ q.pointer = p.pointer
    BY <2>1, HashIsOf
  <2>4. i \in DOMAIN g.choices[g.order[c]] /\ q.object = g.choices[g.order[c]][i].action
    <3>1. q.pointer = <<c, "menuChoiceList", i>>
      BY <2>2, <2>3
    <3>2. i \in DOMAIN g.choices[g.order[c]] /\ q.object = g.choices[g.order[c]][i].action
      BY <3>1, PointedAt
    <3>. QED
      BY <2>2, <2>3, <3>2
  <2>. QED
    BY <1>2, <2>2, <2>3, <2>4
<1>. QED
  BY <1>2, <1>3, <1>4

LEMMA SameLists ==
  ASSUME NEW S, NEW s \in Seq(S), NEW t \in Seq(S),
         \A i : i \in DOMAIN s <=> i \in DOMAIN t, \A i \in DOMAIN s : s[i] = t[i]
  PROVE  s = t
<1>1. s = [i \in DOMAIN s |-> s[i]] /\ t = [i \in DOMAIN t |-> t[i]]
  OBVIOUS
<1>2. DOMAIN s = DOMAIN t
  OBVIOUS
<1>. QED
  BY <1>1, <1>2

LEMMA HashDecides ==
  ASSUME NEW f, Original(f), \A p \in N!ExtractNodes(f) : f.objects[p.object].identified,
         NEW g, Original(g), \A q \in N!ExtractNodes(g) : g.objects[q.object].identified,
         Normalized(f).hash = Normalized(g).hash
  PROVE  f.order = g.order /\ f.actions = g.actions /\ f.choices = g.choices
<1>. DEFINE Covers(x, y) ==
       \A c \in DOMAIN x.order :
         /\ c \in DOMAIN y.order /\ y.order[c] = x.order[c]
         /\ \A i \in DOMAIN x.actions[x.order[c]] :
              /\ i \in DOMAIN y.actions[x.order[c]]
              /\ y.actions[x.order[c]][i] = x.actions[x.order[c]][i]
         /\ \A i \in DOMAIN x.choices[x.order[c]] :
              /\ i \in DOMAIN y.choices[x.order[c]]
              /\ y.choices[x.order[c]][i].action = x.choices[x.order[c]][i].action
<1>1. Covers(f, g) /\ Covers(g, f)
  <2>1. Covers(f, g)
    BY HashCovers
  <2>2. Covers(g, f)
    BY HashCovers
  <2>. QED
    BY <2>1, <2>2
<1>2. /\ f.order \in Seq(Boxes) /\ f.actions \in [Boxes -> Seq(Parts)] /\ f.choices \in [Boxes -> Seq(Options)]
      /\ g.order \in Seq(Boxes) /\ g.actions \in [Boxes -> Seq(Parts)] /\ g.choices \in [Boxes -> Seq(Options)]
  BY DEF Original, Shape
<1>3. f.order = g.order
  <2>1. (\A i : i \in DOMAIN f.order <=> i \in DOMAIN g.order) /\ \A i \in DOMAIN f.order : f.order[i] = g.order[i]
    BY <1>1
  <2>. QED
    BY <1>2, <2>1, SameLists
<1>4. \A b \in Boxes : \E c \in DOMAIN f.order : f.order[c] = b
  BY DEF Original, Listed
<1>5. \A b \in Boxes :
        /\ \A i : i \in DOMAIN f.actions[b] <=> i \in DOMAIN g.actions[b]
        /\ \A i \in DOMAIN f.actions[b] : f.actions[b][i] = g.actions[b][i]
        /\ \A i : i \in DOMAIN f.choices[b] <=> i \in DOMAIN g.choices[b]
        /\ \A i \in DOMAIN f.choices[b] : f.choices[b][i].action = g.choices[b][i].action
  <2>. SUFFICES ASSUME NEW b \in Boxes
                PROVE  /\ \A i : i \in DOMAIN f.actions[b] <=> i \in DOMAIN g.actions[b]
                       /\ \A i \in DOMAIN f.actions[b] : f.actions[b][i] = g.actions[b][i]
                       /\ \A i : i \in DOMAIN f.choices[b] <=> i \in DOMAIN g.choices[b]
                       /\ \A i \in DOMAIN f.choices[b] : f.choices[b][i].action = g.choices[b][i].action
    OBVIOUS
  <2>1. PICK c \in DOMAIN f.order : f.order[c] = b
    BY <1>4
  <2>2. c \in DOMAIN g.order /\ g.order[c] = b
    BY <1>3, <2>1
  <2>3. /\ \A i \in DOMAIN f.actions[b] : i \in DOMAIN g.actions[b] /\ g.actions[b][i] = f.actions[b][i]
        /\ \A i \in DOMAIN f.choices[b] :
             i \in DOMAIN g.choices[b] /\ g.choices[b][i].action = f.choices[b][i].action
    BY <1>1, <2>1
  <2>4. /\ \A i \in DOMAIN g.actions[b] : i \in DOMAIN f.actions[b]
        /\ \A i \in DOMAIN g.choices[b] : i \in DOMAIN f.choices[b]
    BY <1>1, <2>2
  <2>. QED
    BY <2>3, <2>4
<1>6. \A b \in Boxes : \A i \in DOMAIN f.choices[b] : f.choices[b][i] = g.choices[b][i]
  <2>. SUFFICES ASSUME NEW b \in Boxes, NEW i \in DOMAIN f.choices[b] PROVE f.choices[b][i] = g.choices[b][i]
    OBVIOUS
  <2>1. Listed(f.choices[b], f.choices[b][i]) /\ Listed(g.choices[b], g.choices[b][i])
    BY <1>5 DEF Listed
  <2>2. {f.choices[b][i], g.choices[b][i]} \subseteq {FirstChoice, SecondChoice}
    BY <2>1 DEF Original, Boxes
  <2>3. FirstChoice.action # SecondChoice.action
    BY DEF FirstChoice, SecondChoice
  <2>. QED
    BY <1>5, <2>2, <2>3
<1>. HIDE DEF Covers
<1>7. \A b \in Boxes : f.actions[b] = g.actions[b]
  <2>. SUFFICES ASSUME NEW b \in Boxes PROVE f.actions[b] = g.actions[b]
    OBVIOUS
  <2>1. f.actions[b] \in Seq(Parts) /\ g.actions[b] \in Seq(Parts)
    BY <1>2
  <2>. QED
    BY <1>5, <2>1, SameLists
<1>8. \A b \in Boxes : f.choices[b] = g.choices[b]
  <2>. SUFFICES ASSUME NEW b \in Boxes PROVE f.choices[b] = g.choices[b]
    OBVIOUS
  <2>1. f.choices[b] \in Seq(Options) /\ g.choices[b] \in Seq(Options)
    BY <1>2
  <2>. QED
    BY <1>5, <1>6, <2>1, SameLists
<1>. QED
  BY <1>2, <1>3, <1>7, <1>8

\* A configuration is a record.
IsRecord(f) == f = [x \in DOMAIN f |-> f[x]]

LEMMA ObjectEditIsOfARecord == ASSUME NEW o, A!ObjectEdited(o) PROVE IsRecord(flow')
<1>1. \A field, value : A!Becomes(o, field, value) => IsRecord(flow')
  BY DEF A!Becomes, IsRecord
<1>. QED
  BY <1>1 DEF A!ObjectEdited, A!Renamed, A!Retyped, A!Set, A!Nested, A!Lengthened, A!Anonymous, A!Tracked,
              A!Deviates, A!Pointed, A!Buried, A!Labelled, A!Swapped, A!Compared, A!Written, A!Prompted

LEMMA FlowEditIsOfARecord == ASSUME A!FlowEdited PROVE IsRecord(flow')
<1>1. A!Reordered \/ A!Inserted \/ A!Deleted => IsRecord(flow')
  BY DEF A!Reordered, A!Inserted, A!Deleted, IsRecord
<1>2. \A field : A!ChoiceEdited(field) => IsRecord(flow')
  BY DEF A!ChoiceEdited, IsRecord
<1>3. A!Restarted \/ A!Described \/ A!Published \/ A!ListDeviates => IsRecord(flow')
  BY DEF A!Restarted, A!Described, A!Published, A!ListDeviates, IsRecord
<1>4. A!VariableEdited => IsRecord(flow')
  BY DEF A!VariableEdited, IsRecord
<1>5. A!DependencyEdited => IsRecord(flow')
  BY DEF A!DependencyEdited, IsRecord
<1>. QED
  BY <1>1, <1>2, <1>3, <1>4, <1>5 DEF A!FlowEdited

LEMMA RecordAlways == FlowSpec => [](IsRecord(captured) /\ IsRecord(flow))
<1>1. FlowInit => IsRecord(captured) /\ IsRecord(flow)
  <2>1. \A anonymous, unknown : IsRecord(Flow(anonymous, unknown))
    BY DEF Flow, IsRecord
  <2>. QED
    BY <2>1 DEF FlowInit
<1>2. ASSUME IsRecord(captured) /\ IsRecord(flow),
             [FlowNext]_<<subject, diff, analysis>>
      PROVE  (IsRecord(captured) /\ IsRecord(flow))'
  <2>1. DiffNext \/ UNCHANGED diff
    BY <1>2 DEF FlowNext
  <2>2. CASE UNCHANGED diff
    BY <1>2, <2>2 DEF diff
  <2>3. ASSUME NEW o, Edit(A!ObjectEdited(o)) PROVE (IsRecord(captured) /\ IsRecord(flow))'
    BY <1>2, <2>3, ObjectEditIsOfARecord DEF Edit
  <2>4. CASE Edit(A!FlowEdited)
    BY <1>2, <2>4, FlowEditIsOfARecord DEF Edit
  <2>5. CASE D!Compare
    BY <1>2, <2>5 DEF D!Compare
  <2>. QED
    BY <2>1, <2>2, <2>3, <2>4, <2>5 DEF DiffNext
<1>. QED
  BY <1>1, <1>2, PTL DEF FlowSpec

\* diffSnapshots and createDiffFlow (derive-node-id.ts, diff.ts, diff-flow.ts): when every
\* object has an id of its own, putting containers, actions or choices in another order is
\* no change of the flow.  All the answer says is its note on the basis, and that the order
\* moved exactly when it did.
THEOREM MovingIsNoChange == FlowSpec => []MovementIsNoChange
<1>. DEFINE Inv == /\ DiffInv /\ Original(captured) /\ Sized(captured) /\ Sized(flow)
                   /\ Legible(captured) /\ Legible(flow) /\ IsRecord(captured) /\ IsRecord(flow)
<1>1. ASSUME Inv PROVE MovementIsNoChange
  <2>. SUFFICES ASSUME Compared, Reordering(captured, flow),
                       \A p \in N!ExtractNodes(flow) : flow.objects[p.object].identified
                PROVE  /\ Said = {report.answer.materialJourneyChanges[1]}
                       /\ report.answer.materialJourneyChanges[1][4] <=> captured # flow
    BY DEF MovementIsNoChange
  <2>. DEFINE b == Normalized(captured)
              a == Normalized(flow)
              snapshots == D!DiffSnapshots(b, a)
              basis == D!BasisNote(snapshots)
  <2>1. report = D!Answer(b, a)
    BY <1>1, ComparedIs
  <2>2. Same(captured, flow) /\ Original(flow)
    BY <1>1, SameIs, SameOriginal DEF DiffInv
  <2>3. /\ \A p \in N!ExtractNodes(captured) : captured.objects[p.object].identified
        /\ b.nodes = a.nodes /\ b.entryNodeIds = a.entryNodeIds /\ b.edges = a.edges
        /\ b.variables = a.variables /\ b.dependencies = a.dependencies
        /\ b.meta = a.meta /\ b.version = a.version
    BY <1>1, <2>2, SameSnapshot
  <2>4. (\E w \in a.warnings : w.code = "UNSUPPORTED_NODE_TYPE") =>
          \E v \in b.warnings : v.code = "UNSUPPORTED_NODE_TYPE"
    BY <1>1, <2>2, SameFindings
  <2>5. \A e, d \in a.edges : D!EdgeId(e) = D!EdgeId(d) => e = d
    BY <1>1, <2>2, OriginalEdges
  <2>6. /\ \E f : Shape(f) /\ Sized(f) /\ b = Normalized(f)
        /\ \E f : Shape(f) /\ Sized(f) /\ a = Normalized(f)
    BY <1>1 DEF DiffInv
  <2>7. b.hash = a.hash <=> captured = flow
    <3>1. ASSUME b.hash = a.hash PROVE captured = flow
      <4>1. captured.order = flow.order /\ captured.actions = flow.actions /\ captured.choices = flow.choices
        BY <1>1, <2>2, <2>3, <3>1, HashDecides
      <4>2. /\ DOMAIN captured = {"start", "order", "actions", "choices", "objects", "variables", "manifest",
                                  "meta", "version", "shapeless"}
            /\ DOMAIN flow = DOMAIN captured
        BY <1>1 DEF DiffInv, Shape
      <4>3. \A x \in DOMAIN captured : captured[x] = flow[x]
        BY <2>2, <4>1, <4>2 DEF Same
      <4>. QED
        BY <1>1, <4>2, <4>3 DEF IsRecord
    <3>. QED
      BY <3>1
  <2>. HIDE DEF b, a
  <2>8. /\ D!DiffById(b.nodes, a.nodes) = {} /\ D!DiffEdges(b.edges, a.edges) = {}
        /\ D!DiffById(b.variables, a.variables) = {} /\ D!DiffById(b.dependencies, a.dependencies) = {}
    BY <2>3, <2>5, NothingById, NothingOfEdges
  <2>9. Found(b, a, {}, {}, {}, {}) = {}
    BY <2>3, <2>4, NothingIsFound
  <2>10. snapshots.changes \in Seq({})
    BY <2>6, <2>8, <2>9, ChangesAre
  <2>11. snapshots.changes = <<>>
    <3>. HIDE DEF snapshots
    <3>. QED
      BY <2>10
  <2>12. report.answer.materialJourneyChanges = <<basis>>
    BY <2>1, <2>11, OnlyTheBasis
  <2>13. basis[4] <=> b.hash # a.hash
    <3>1. snapshots.positionalOnlyReorder <=> b.hash # a.hash
      BY <2>8 DEF D!DiffSnapshots, D!DiffVariables, D!DiffDependencies
    <3>. HIDE DEF snapshots
    <3>. QED
      BY <3>1 DEF D!BasisNote
  <2>14. Said = {basis} /\ report.answer.materialJourneyChanges[1] = basis
    <3>. HIDE DEF basis
    <3>. QED
      BY <2>12 DEF Said, ToSet
  <2>. HIDE DEF basis
  <2>. QED
    BY <2>7, <2>13, <2>14
<1>. QED
  BY <1>1, DiffAlways, OriginalAlways, SizedAlways, LegibleAlways, RecordAlways, PTL

-----------------------------------------------------------------------------
(* The analysis of a graph: the nodes of a set, in order *)

LEMMA GraphCardinality == \A s : G!Cardinality(s) = Cardinality(s)
  BY DEF G!Cardinality, Cardinality

Below(S, n) == {m \in S : m < n}

LEMMA RanksAre ==
  ASSUME NEW S \in SUBSET Nat, IsFiniteSet(S)
  PROVE  /\ \A n \in S : Cardinality(Below(S, n)) \in 0..Cardinality(S) - 1
         /\ \A a, b \in S : a # b => Cardinality(Below(S, a)) # Cardinality(Below(S, b))
<1>1. Cardinality(S) \in Nat
  BY FS_CardinalityType
<1>2. ASSUME NEW n \in S
      PROVE  IsFiniteSet(Below(S, n)) /\ Cardinality(Below(S, n)) \in 0..Cardinality(S) - 1
  <2>1. IsFiniteSet(S \ {n}) /\ Cardinality(S \ {n}) = Cardinality(S) - 1
    BY FS_RemoveElement
  <2>2. Below(S, n) \in SUBSET (S \ {n})
    BY DEF Below
  <2>3. IsFiniteSet(Below(S, n)) /\ Cardinality(Below(S, n)) <= Cardinality(S \ {n})
    BY <2>1, <2>2, FS_Subset
  <2>4. Cardinality(Below(S, n)) \in Nat
    BY <2>3, FS_CardinalityType
  <2>. QED
    BY <1>1, <2>1, <2>3, <2>4
<1>3. ASSUME NEW a \in S, NEW b \in S, a < b
      PROVE  Cardinality(Below(S, a)) # Cardinality(Below(S, b))
  <2>1. Cardinality(Below(S, a) \cup {a}) = Cardinality(Below(S, a)) + 1
    <3>1. a \notin Below(S, a)
      BY DEF Below
    <3>. QED
      BY <1>2, <3>1, FS_AddElement
  <2>2. Below(S, a) \cup {a} \in SUBSET Below(S, b)
    <3>1. \A m \in S : m < a => m < b
      BY <1>3
    <3>. QED
      BY <1>3, <3>1 DEF Below
  <2>3. Cardinality(Below(S, a) \cup {a}) <= Cardinality(Below(S, b))
    BY <1>2, <2>2, FS_Subset
  <2>. QED
    BY <1>2, <2>1, <2>3
<1>4. \A a, b \in S : a # b => a < b \/ b < a
  OBVIOUS
<1>. QED
  BY <1>2, <1>3, <1>4

\* The list of a set of numbers holds each of them, once.
LEMMA RankedIs ==
  ASSUME NEW S \in SUBSET Nat, IsFiniteSet(S)
  PROVE  /\ G!InOrder(S) \in Seq(S) /\ Len(G!InOrder(S)) = Cardinality(S)
         /\ \A i, j \in DOMAIN G!InOrder(S) : G!InOrder(S)[i] = G!InOrder(S)[j] => i = j
         /\ \A x \in S : Listed(G!InOrder(S), x)
<1>. DEFINE k == Cardinality(S)
            r == [n \in S |-> Cardinality(Below(S, n))]
            s == G!InOrder(S)
<1>1. k \in Nat /\ IsFiniteSet(0..k - 1) /\ Cardinality(0..k - 1) = k
  <2>1. k \in Nat
    BY FS_CardinalityType
  <2>. HIDE DEF k
  <2>2. IsFiniteSet(0..k - 1) /\ Cardinality(0..k - 1) = IF 0 > k - 1 THEN 0 ELSE (k - 1) - 0 + 1
    BY <2>1, FS_Interval
  <2>. QED
    BY <2>1, <2>2
<1>2. r \in Injection(S, 0..k - 1)
  BY RanksAre DEF Injection, IsInjective
<1>3. r \in Surjection(S, 0..k - 1)
  BY <1>1, <1>2, FS_Injection
<1>4. \A i \in 1..k : \E n \in S : Cardinality(Below(S, n)) = i - 1
  <2>1. \A i \in 1..k : i - 1 \in 0..k - 1
    BY <1>1
  <2>. HIDE DEF k
  <2>. QED
    BY <1>3, <2>1 DEF Surjection
<1>. DEFINE low(n) == G!Cardinality({m \in S : m < n})
            pick(i) == CHOOSE n \in S : low(n) = i - 1
<1>5. \A n : low(n) = Cardinality(Below(S, n))
  BY GraphCardinality DEF Below
<1>6. s = [i \in 1..k |-> pick(i)]
  BY GraphCardinality DEF G!InOrder
<1>7. \A i \in 1..k : pick(i) \in S /\ low(pick(i)) = i - 1
  <2>1. \A i \in 1..k : \E n \in S : low(n) = i - 1
    BY <1>4, <1>5
  <2>. HIDE DEF low, k
  <2>. QED
    BY <2>1
<1>8. s \in [1..k -> S] /\ \A i \in 1..k : s[i] \in S /\ Cardinality(Below(S, s[i])) = i - 1
  <2>. HIDE DEF low, k, pick, s
  <2>. QED
    BY <1>5, <1>6, <1>7
<1>9. \A i, j \in 1..k : s[i] = s[j] => i = j
  <2>. HIDE DEF s, k
  <2>1. \A i, j \in 1..k : s[i] = s[j] => i - 1 = j - 1
    BY <1>8
  <2>. QED
    BY <1>1, <2>1
<1>10. ASSUME NEW x \in S PROVE \E i \in 1..k : s[i] = x
  <2>. DEFINE c == Cardinality(Below(S, x))
  <2>1. c \in 0..k - 1
    BY RanksAre
  <2>. HIDE DEF c
  <2>2. c + 1 \in 1..k /\ (c + 1) - 1 = c
    <3>. HIDE DEF k
    <3>. QED
      BY <1>1, <2>1
  <2>3. s[c + 1] \in S /\ Cardinality(Below(S, s[c + 1])) = c
    BY <1>8, <2>2
  <2>4. s[c + 1] = x
    <3>. HIDE DEF s
    <3>. QED
      BY <2>3, RanksAre DEF c
  <2>. QED
    BY <2>2, <2>4
<1>. HIDE DEF s, k
<1>11. s \in Seq(S) /\ Len(s) = k /\ DOMAIN s = 1..k
  BY <1>1, <1>8
<1>. QED
  BY <1>9, <1>10, <1>11 DEF s, k, Listed

\* The edges of a node, in order.
LEMMA OutgoingIs ==
  ASSUME NEW n
  PROVE  /\ G!Outgoing(n) \in Seq(G!Targets(n)) /\ G!Targets(n) \subseteq Nodes
         /\ \A x : Listed(G!Outgoing(n), x) <=> x \in G!Targets(n)
<1>1. G!Targets(n) \in SUBSET Nat /\ IsFiniteSet(G!Targets(n)) /\ G!Targets(n) \subseteq Nodes
  <2>1. G!Targets(n) \subseteq Nodes
    BY DEF G!Targets
  <2>. QED
    BY <2>1, FlowAssumption, Few
<1>2. G!Outgoing(n) = G!InOrder(G!Targets(n))
  BY DEF G!Outgoing
<1>3. /\ G!InOrder(G!Targets(n)) \in Seq(G!Targets(n)) /\ \A x \in G!Targets(n) : Listed(G!InOrder(G!Targets(n)), x)
  BY <1>1, RankedIs
<1>4. ASSUME NEW x, NEW T, NEW s \in Seq(T), Listed(s, x) PROVE x \in T
  BY <1>4 DEF Listed
<1>. QED
  BY <1>1, <1>2, <1>3, <1>4

LEMMA EntriesAre ==
  /\ G!EntryNodeIds \subseteq Nodes /\ G!EntryNodeIds \in SUBSET Nat /\ IsFiniteSet(G!EntryNodeIds)
  /\ G!InOrder(G!EntryNodeIds) \in Seq(G!EntryNodeIds)
  /\ \A x : Listed(G!InOrder(G!EntryNodeIds), x) <=> x \in G!EntryNodeIds
<1>1. /\ G!EntryNodeIds \subseteq Nodes /\ G!EntryNodeIds \in SUBSET Nat /\ IsFiniteSet(G!EntryNodeIds)
  <2>1. G!EntryNodeIds \subseteq {Start, 2}
    BY DEF G!EntryNodeIds
  <2>. QED
    BY <2>1, FlowAssumption, Few
<1>2. /\ G!InOrder(G!EntryNodeIds) \in Seq(G!EntryNodeIds)
      /\ \A x \in G!EntryNodeIds : Listed(G!InOrder(G!EntryNodeIds), x)
  BY <1>1, RankedIs
<1>3. ASSUME NEW x, NEW T, NEW s \in Seq(T), Listed(s, x) PROVE x \in T
  BY <1>3 DEF Listed
<1>. QED
  BY <1>1, <1>2, <1>3

-----------------------------------------------------------------------------
(* What is reached *)

\* A set that the edges of its nodes do not leave; those of the nodes of x do not count.
Shut(c, x) == \A n \in c \ x : G!Targets(n) \subseteq c
\* The nodes that the walk has still to look at.
Reached ==
  /\ G!EntryNodeIds \subseteq visited /\ visited \subseteq Nodes
  /\ \A c \in SUBSET Nodes : G!EntryNodeIds \subseteq c /\ Shut(c, {}) => visited \subseteq c
  /\ queue \in Seq(visited)
  /\ \A n \in visited : Listed(queue, n) \/ G!Targets(n) \subseteq visited
  /\ phase # "reach" => queue = <<>>
ReachInv == IF subject = "graph" THEN Reached ELSE phase = "reach"

LEMMA FromIs ==
  ASSUME NEW s, NEW x
  PROVE  G!From(s, x) = {m \in Nodes : \A c \in SUBSET Nodes : s \subseteq c /\ Shut(c, x) => m \in c}
  BY DEF G!From, Shut

\* What analyzeReachability sets out with.
LEMMA ReachStarts == ASSUME G!Init PROVE Reached
<1>1. /\ visited = G!EntryNodeIds /\ queue = G!InOrder(G!EntryNodeIds) /\ phase = "reach"
  BY DEF G!Init
<1>. QED
  BY <1>1, EntriesAre DEF Reached

\* The nodes of a finite set, listed in whatever order, are its nodes.
LEMMA AnyOrder ==
  ASSUME NEW S, IsFiniteSet(S)
  PROVE  G!SetToSeq(S) \in Seq(S) /\ \A x \in S : Listed(G!SetToSeq(S), x)
<1>. DEFINE k == Cardinality(S)
            good(f) == f \in [1..k -> S] /\ G!IsInjective(f)
            s == CHOOSE f \in [1..k -> S] : G!IsInjective(f)
<1>1. k \in Nat /\ ExistsBijection(1..k, S) /\ IsFiniteSet(1..k) /\ Cardinality(1..k) = k
  <2>1. k \in Nat /\ ExistsBijection(1..k, S)
    BY FS_CardinalityType
  <2>. HIDE DEF k
  <2>2. IsFiniteSet(1..k) /\ Cardinality(1..k) = IF 1 > k THEN 0 ELSE k - 1 + 1
    BY <2>1, FS_Interval
  <2>. QED
    BY <2>1, <2>2
<1>2. G!SetToSeq(S) = s
  BY GraphCardinality DEF G!SetToSeq
<1>3. \A f : G!IsInjective(f) <=> \A a, b \in DOMAIN f : f[a] = f[b] => a = b
  BY DEF G!IsInjective
<1>4. \E f \in [1..k -> S] : G!IsInjective(f)
  <2>1. PICK f \in Bijection(1..k, S) : TRUE
    BY <1>1 DEF ExistsBijection
  <2>. QED
    BY <1>3, <2>1 DEF Bijection, Injection, IsInjective
<1>5. s \in [1..k -> S] /\ G!IsInjective(s)
  BY <1>4
<1>. HIDE DEF k, s
<1>6. s \in Injection(1..k, S)
  BY <1>3, <1>5 DEF Injection, IsInjective
<1>7. s \in Surjection(1..k, S)
  BY <1>1, <1>6, FS_Injection DEF k
<1>8. \A x \in S : Listed(s, x)
  BY <1>5, <1>7 DEF Surjection, Listed
<1>9. s \in Seq(S)
  BY <1>1, <1>5
<1>. QED
  BY <1>2, <1>8, <1>9

\* The graph is what is analysed, and stays.
LEMMA GraphStays ==
  ASSUME graph' = graph
  PROVE  /\ G!EntryNodeIds' = G!EntryNodeIds /\ G!Exits' = G!Exits
         /\ \A n : G!Targets(n)' = G!Targets(n) /\ G!Outgoing(n)' = G!Outgoing(n)
         /\ \A c, x : Shut(c, x)' <=> Shut(c, x)
<1>1. \A n : G!Targets(n)' = G!Targets(n)
  BY DEF G!Targets
<1>2. \A n : G!Outgoing(n)' = G!Outgoing(n)
  BY <1>1 DEF G!Outgoing
<1>3. G!EntryNodeIds' = G!EntryNodeIds
  BY DEF G!EntryNodeIds
<1>4. G!Exits' = G!Exits
  BY DEF G!Exits
<1>5. \A c, x : Shut(c, x)' <=> Shut(c, x)
  BY <1>1 DEF Shut
<1>. QED
  BY <1>1, <1>2, <1>3, <1>4, <1>5

\* One turn of the loop of analyzeReachability.
LEMMA ReachesMore == ASSUME Reached, G!Reach, graph' = graph PROVE Reached'
<1>. DEFINE n == Head(queue)
            fresh == G!Targets(n) \ visited
            added == G!SetToSeq(fresh)
            found == visited \cup G!Targets(n)
<1>1. /\ visited' = found /\ queue' = Tail(queue) \o added /\ queue # <<>>
      /\ phase' = phase /\ phase = "reach"
  BY DEF G!Reach
<1>2. queue \in Seq(visited) /\ G!EntryNodeIds \subseteq visited /\ visited \subseteq Nodes
  BY DEF Reached
<1>3. n \in visited /\ Tail(queue) \in Seq(visited) /\ \A x : Listed(queue, x) => x = n \/ Listed(Tail(queue), x)
  <2>1. n \in visited /\ Tail(queue) \in Seq(visited) /\ Len(Tail(queue)) = Len(queue) - 1 /\ n = queue[1]
        /\ \A i \in 1..Len(Tail(queue)) : Tail(queue)[i] = queue[i + 1]
    BY <1>1, <1>2, HeadTailProperties
  <2>2. ASSUME NEW i \in DOMAIN queue, i # 1 PROVE i - 1 \in DOMAIN Tail(queue) /\ Tail(queue)[i - 1] = queue[i]
    BY <1>2, <2>1, <2>2
  <2>3. ASSUME NEW x, Listed(queue, x) PROVE x = n \/ Listed(Tail(queue), x)
    <3>1. PICK i \in DOMAIN queue : queue[i] = x
      BY <2>3 DEF Listed
    <3>. QED
      BY <2>1, <2>2, <3>1 DEF Listed
  <2>. QED
    BY <2>1, <2>3
<1>4. added \in Seq(found) /\ \A x \in fresh : Listed(added, x)
  <2>1. IsFiniteSet(fresh) /\ fresh \subseteq found
    BY FlowAssumption, Few DEF G!Targets
  <2>2. added \in Seq(fresh) /\ \A x \in fresh : Listed(added, x)
    BY <2>1, AnyOrder
  <2>. HIDE DEF fresh, added, found
  <2>. QED
    BY <2>1, <2>2
<1>5. Tail(queue) \in Seq(found)
  BY <1>3
<1>6. queue' \in Seq(found) /\ \A x : Listed(queue', x) <=> Listed(Tail(queue), x) \/ Listed(added, x)
  BY <1>1, <1>4, <1>5, Concatenated
<1>7. G!EntryNodeIds \subseteq found /\ found \subseteq Nodes
  BY <1>2, OutgoingIs
<1>8. ASSUME NEW c \in SUBSET Nodes, G!EntryNodeIds \subseteq c, Shut(c, {}) PROVE found \subseteq c
  <2>1. visited \subseteq c
    BY <1>8 DEF Reached
  <2>. QED
    BY <1>3, <1>8, <2>1 DEF Shut
<1>9. ASSUME NEW m \in found PROVE Listed(queue', m) \/ G!Targets(m) \subseteq found
  <2>1. CASE m = n
    BY <2>1
  <2>2. CASE m # n /\ m \in visited
    <3>1. Listed(queue, m) \/ G!Targets(m) \subseteq visited
      BY <2>2 DEF Reached
    <3>. QED
      BY <1>3, <1>6, <2>2, <3>1
  <2>3. CASE m \notin visited
    BY <1>4, <1>6, <2>3
  <2>. QED
    BY <2>1, <2>2, <2>3
<1>. HIDE DEF found
<1>. QED
  BY <1>1, <1>6, <1>7, <1>8, <1>9, GraphStays DEF Reached

LEMMA ReachStep ==
  ASSUME ReachInv, [FlowNext]_<<subject, diff, analysis>>
  PROVE  ReachInv'
<1>1. subject' = subject
  BY DEF FlowNext
<1>2. CASE subject # "graph"
  <2>1. phase' = phase
    BY <1>2 DEF FlowNext, analysis
  <2>. QED
    BY <1>1, <1>2, <2>1 DEF ReachInv
<1>3. CASE subject = "graph"
  <2>1. Reached
    BY <1>3 DEF ReachInv
  <2>2. G!Next \/ UNCHANGED analysis
    BY <1>3 DEF FlowNext
  <2>3. graph' = graph
    BY <2>2 DEF G!Next, analysis
  <2>4. CASE G!Reach
    BY <1>1, <1>3, <2>1, <2>3, <2>4, ReachesMore DEF ReachInv
  <2>5. CASE ~G!Reach
    <3>1. visited' = visited /\ queue' = queue
      BY <2>2, <2>5 DEF G!Next, analysis, G!ReachEnds, G!Root, G!Descend, G!Seen, G!Return, G!CyclesEnd,
                        G!Finish, G!Extend, G!AnalyzeFlow, G!reach
    <3>2. phase' # "reach" => phase # "reach" \/ queue = <<>>
      BY <2>2, <2>5 DEF G!Next, analysis, G!ReachEnds, G!Root, G!Descend, G!Seen, G!Return, G!CyclesEnd,
                        G!Finish, G!Extend, G!AnalyzeFlow
    <3>. QED
      BY <1>1, <1>3, <2>1, <2>3, <3>1, <3>2, GraphStays DEF Reached, ReachInv
  <2>. QED
    BY <2>4, <2>5
<1>. QED
  BY <1>2, <1>3

LEMMA ReachAlways == FlowSpec => []ReachInv
<1>1. FlowInit => ReachInv
  <2>1. ASSUME FlowInit, subject = "graph" PROVE ReachInv
    BY <2>1, ReachStarts DEF FlowInit, ReachInv
  <2>2. ASSUME FlowInit, subject # "graph" PROVE ReachInv
    BY <2>2 DEF FlowInit, NoGraph, ReachInv
  <2>. QED
    BY <2>1, <2>2
<1>. QED
  BY <1>1, ReachStep, PTL DEF FlowSpec

\* What analyzeReachability ends with is what the entries lead to.
LEMMA ReachIsExact == ASSUME Reached, phase # "reach" PROVE visited = G!From(G!EntryNodeIds, {})
<1>1. ~\E x : Listed(queue, x)
  BY DEF Reached, Listed
<1>2. Shut(visited, {}) /\ visited \in SUBSET Nodes /\ G!EntryNodeIds \subseteq visited
  BY <1>1 DEF Reached, Shut
<1>. QED
  BY <1>2, FromIs DEF Reached

-----------------------------------------------------------------------------
(* What leads to each other *)

\* Every set of nodes that holds a and that no edge leaves holds b.
LeadsTo(a, b) == \A c \in SUBSET Nodes : a \in c /\ Shut(c, {}) => b \in c
Class(n) == {m \in Nodes : LeadsTo(n, m) /\ LeadsTo(m, n)}

Discovered == DOMAIN indices
On(x) == Listed(tarjan, x)
Working(x) == \E i \in DOMAIN work : work[i].node = x
Taken == UNION components
Frames == [node : Nodes, next : Nat \ {0}]
\* The edge from x to y has been looked at.
Looked(x, y) ==
  /\ y \in G!Targets(x)
  /\ \A i \in DOMAIN work : work[i].node = x => \E j \in 1..work[i].next - 1 : G!Outgoing(x)[j] = y
\* The frame that x was discovered under.
Governs(i, x) ==
  /\ indices[work[i].node] <= indices[x]
  /\ i # Len(work) => indices[x] < indices[work[i + 1].node]

Numbered ==
  /\ Discovered \subseteq Nodes /\ indices \in [Discovered -> Nat] /\ lowlink \in [Discovered -> Nat]
  /\ \A x \in Discovered : indices[x] < Cardinality(Discovered)
  /\ \A x, y \in Discovered : indices[x] = indices[y] => x = y
Stacked ==
  /\ tarjan \in Seq(Discovered) /\ work \in Seq(Frames)
  /\ \A i, j \in DOMAIN tarjan : i < j => indices[tarjan[i]] < indices[tarjan[j]]
  /\ \A i, j \in DOMAIN work : i < j => indices[work[i].node] < indices[work[j].node]
  /\ \A i \in DOMAIN work : \A n : work[i].node = n => On(n) /\ work[i].next <= Len(G!Outgoing(n)) + 1
\* A component is off the stack when all it leads to is.
Parted ==
  /\ \A x : x \in Discovered <=> x \in Taken \/ On(x)
  /\ \A x \in Taken : ~On(x) /\ G!Targets(x) \subseteq Taken
  /\ \A c \in components : c # {} /\ \A n \in c : c = Class(n)
\* What is on the stack leads to what is above it, and down to a frame.
Connected ==
  /\ \A x, y : On(x) /\ Looked(x, y) => y \in Discovered
  /\ \A x, y : On(x) /\ On(y) /\ indices[x] <= indices[y] => LeadsTo(x, y)
  /\ \A y : On(y) => \E n : Working(n) /\ indices[n] <= indices[y] /\ LeadsTo(y, n)
\* The link of a node is one that it leads to; that of a frame is as low as what was seen
\* under it.
Linked ==
  /\ \A n : On(n) => lowlink[n] <= indices[n] /\ \E z : On(z) /\ indices[z] = lowlink[n] /\ LeadsTo(n, z)
  /\ \A x, y : On(x) /\ On(y) /\ Looked(x, y) =>
       \A i \in DOMAIN work : Governs(i, x) => lowlink[work[i].node] <= indices[y]
Walked == Numbered /\ Stacked /\ Parted /\ Connected /\ Linked

LEMMA LeadsToIs ==
  /\ \A a : LeadsTo(a, a)
  /\ \A a, b, c : LeadsTo(a, b) /\ LeadsTo(b, c) => LeadsTo(a, c)
  /\ \A a, b : b \in G!Targets(a) => LeadsTo(a, b)
<1>1. \A a, b : b \in G!Targets(a) => LeadsTo(a, b)
  BY DEF LeadsTo, Shut
<1>. QED
  BY <1>1 DEF LeadsTo

LEMMA LeadsToStays == ASSUME graph' = graph PROVE \A a, b : LeadsTo(a, b)' <=> LeadsTo(a, b)
  BY GraphStays DEF LeadsTo

LEMMA ClassStays == ASSUME graph' = graph PROVE \A n : Class(n)' = Class(n)
  BY LeadsToStays DEF Class

LEMMA OnStays == ASSUME tarjan' = tarjan PROVE \A x : On(x)' <=> On(x)
  BY DEF On, Listed

\* Numbers of nodes, and what is on the stack.
LEMMA NumbersAre ==
  ASSUME Numbered, Stacked, Parted
  PROVE  /\ \A x : On(x) => x \in Discovered /\ x \in Nodes /\ indices[x] \in Nat /\ lowlink[x] \in Nat
         /\ \A i \in DOMAIN work : /\ work[i].node \in Nodes /\ work[i].next \in Nat \ {0}
                                   /\ On(work[i].node) /\ indices[work[i].node] \in Nat
                                   /\ lowlink[work[i].node] \in Nat
         /\ Cardinality(Discovered) \in Nat /\ IsFiniteSet(Discovered)
         /\ Len(work) \in Nat /\ DOMAIN work = 1..Len(work)
<1>1. \A x : On(x) => x \in Discovered /\ x \in Nodes /\ indices[x] \in Nat /\ lowlink[x] \in Nat
  BY DEF Numbered, Parted
<1>2. \A i \in DOMAIN work : work[i] \in Frames
  BY DEF Stacked
<1>3. \A i \in DOMAIN work : work[i].node \in Nodes /\ work[i].next \in Nat \ {0} /\ On(work[i].node)
  BY <1>2 DEF Frames, Stacked
<1>4. IsFiniteSet(Discovered) /\ Cardinality(Discovered) \in Nat
  BY FlowAssumption, Few, FS_CardinalityType DEF Numbered
<1>5. Len(work) \in Nat /\ DOMAIN work = 1..Len(work)
  BY DEF Stacked
<1>. QED
  BY <1>1, <1>3, <1>4, <1>5

\* What a discovered node is entered as.
LEMMA Entered ==
  ASSUME Walked, NEW n \in Nodes, n \notin Discovered, NEW frames \in Seq(Frames), Len(frames) = Len(work),
         G!Discover(n, frames)
  PROVE  /\ indices' = [m \in Discovered \cup {n} |-> IF m = n THEN Cardinality(Discovered) ELSE indices[m]]
         /\ lowlink' = [m \in Discovered \cup {n} |-> IF m = n THEN Cardinality(Discovered) ELSE lowlink[m]]
         /\ Discovered' = Discovered \cup {n} /\ Cardinality(Discovered)' = Cardinality(Discovered) + 1
         /\ tarjan' \in Seq(Discovered') /\ Len(tarjan') = Len(tarjan) + 1
         /\ \A i \in DOMAIN tarjan : tarjan'[i] = tarjan[i]
         /\ tarjan'[Len(tarjan) + 1] = n
         /\ work' \in Seq(Frames) /\ Len(work') = Len(work) + 1
         /\ \A i \in DOMAIN work : work'[i] = frames[i]
         /\ work'[Len(work) + 1] = [node |-> n, next |-> 1]
         /\ \A x : On(x)' <=> On(x) \/ x = n
<1>1. /\ Numbered /\ Stacked /\ Parted
      /\ DOMAIN lowlink = Discovered /\ tarjan \in Seq(Discovered) /\ work \in Seq(Frames)
  BY DEF Walked, Numbered, Stacked
<1>2. /\ indices' = [m \in Discovered \cup {n} |-> IF m = n THEN Cardinality(Discovered) ELSE indices[m]]
      /\ lowlink' = [m \in Discovered \cup {n} |-> IF m = n THEN Cardinality(Discovered) ELSE lowlink[m]]
      /\ tarjan' = Append(tarjan, n) /\ work' = Append(frames, [node |-> n, next |-> 1])
  BY <1>1, GraphCardinality DEF G!Discover, G!Frame, Discovered
<1>3. Discovered' = Discovered \cup {n}
  BY <1>2 DEF Discovered
<1>4. Cardinality(Discovered)' = Cardinality(Discovered) + 1
  BY <1>1, <1>3, NumbersAre, FS_AddElement
<1>5. /\ tarjan' \in Seq(Discovered') /\ Len(tarjan') = Len(tarjan) + 1
      /\ \A i \in DOMAIN tarjan : tarjan'[i] = tarjan[i]
      /\ tarjan'[Len(tarjan) + 1] = n
  <2>1. tarjan \in Seq(Discovered \cup {n})
    BY <1>1
  <2>. QED
    BY <1>2, <1>3, <2>1, AppendProperties
<1>6. /\ work' \in Seq(Frames) /\ Len(work') = Len(work) + 1
      /\ \A i \in DOMAIN work : work'[i] = frames[i]
      /\ work'[Len(work) + 1] = [node |-> n, next |-> 1]
  <2>1. [node |-> n, next |-> 1] \in Frames
    BY DEF Frames
  <2>. QED
    BY <1>1, <1>2, <2>1, AppendProperties
<1>7. \A x : On(x)' <=> On(x) \/ x = n
  <2>1. DOMAIN tarjan' = 1..Len(tarjan) + 1 /\ DOMAIN tarjan = 1..Len(tarjan) /\ Len(tarjan) \in Nat
    BY <1>1, <1>5
  <2>2. \A i \in DOMAIN tarjan' : i \in DOMAIN tarjan \/ i = Len(tarjan) + 1
    BY <2>1
  <2>3. DOMAIN tarjan \subseteq DOMAIN tarjan' /\ Len(tarjan) + 1 \in DOMAIN tarjan'
    BY <2>1
  <2>. QED
    BY <1>5, <2>2, <2>3 DEF On, Listed
<1>. QED
  BY <1>2, <1>3, <1>4, <1>5, <1>6, <1>7

\* A frame that only moves on, or a new one: what holds of a discovery.
Untouched(n, frames) ==
  /\ frames \in Seq(Frames) /\ Len(frames) = Len(work)
  /\ \A i \in DOMAIN work : /\ frames[i].node = work[i].node
                            /\ frames[i].next <= Len(G!Outgoing(work[i].node)) + 1
  /\ \A x, y : On(x) /\ Looked(x, y)' => Looked(x, y) \/ y = n
  /\ \A x : On(x) => LeadsTo(x, n)

LEMMA DiscoveryKeeps ==
  ASSUME Walked, NEW n \in Nodes, n \notin Discovered, NEW frames, Untouched(n, frames),
         G!Discover(n, frames), components' = components, graph' = graph
  PROVE  Walked'
<1>. DEFINE k == Cardinality(Discovered)
            l == Len(work)
<1>1. Numbered /\ Stacked /\ Parted /\ Connected /\ Linked
  BY DEF Walked
<1>2. /\ \A x : On(x) => x \in Discovered /\ x \in Nodes /\ indices[x] \in Nat /\ lowlink[x] \in Nat
      /\ \A i \in DOMAIN work : work[i].node \in Nodes /\ On(work[i].node)
      /\ k \in Nat /\ l \in Nat /\ DOMAIN work = 1..l
  BY <1>1, NumbersAre
<1>3. /\ frames \in Seq(Frames) /\ Len(frames) = l
      /\ \A i \in DOMAIN work : frames[i].node = work[i].node /\ frames[i].next <= Len(G!Outgoing(work[i].node)) + 1
      /\ \A x, y : On(x) /\ Looked(x, y)' => Looked(x, y) \/ y = n
      /\ \A x : On(x) => LeadsTo(x, n)
  BY DEF Untouched
<1>4. /\ indices' = [m \in Discovered \cup {n} |-> IF m = n THEN k ELSE indices[m]]
      /\ lowlink' = [m \in Discovered \cup {n} |-> IF m = n THEN k ELSE lowlink[m]]
      /\ Discovered' = Discovered \cup {n} /\ Cardinality(Discovered)' = k + 1
      /\ tarjan' \in Seq(Discovered') /\ Len(tarjan') = Len(tarjan) + 1
      /\ \A i \in DOMAIN tarjan : tarjan'[i] = tarjan[i]
      /\ tarjan'[Len(tarjan) + 1] = n
      /\ work' \in Seq(Frames) /\ Len(work') = l + 1
      /\ \A i \in DOMAIN work : work'[i] = frames[i]
      /\ work'[l + 1] = [node |-> n, next |-> 1]
      /\ \A x : On(x)' <=> On(x) \/ x = n
  BY <1>3, Entered
<1>. HIDE DEF k, l
<1>5. /\ \A x \in Discovered : indices'[x] = indices[x] /\ lowlink'[x] = lowlink[x] /\ x # n
                               /\ indices[x] \in Nat /\ indices[x] < k
      /\ indices'[n] = k /\ lowlink'[n] = k
  BY <1>1, <1>4 DEF Numbered, k
<1>6. /\ \A i \in DOMAIN work : work'[i].node = work[i].node /\ On(work[i].node)
                               /\ indices'[work[i].node] = indices[work[i].node]
                               /\ indices[work[i].node] \in Nat /\ indices[work[i].node] < k
      /\ work'[l + 1].node = n /\ work'[l + 1].next = 1
      /\ DOMAIN work' = 1..l + 1 /\ \A i \in DOMAIN work' : i \in DOMAIN work \/ i = l + 1
      /\ DOMAIN work \subseteq DOMAIN work' /\ l + 1 \in DOMAIN work'
  BY <1>2, <1>3, <1>4, <1>5
<1>7. Numbered'
  <2>1. \A x \in Discovered \cup {n} : indices'[x] \in Nat /\ lowlink'[x] \in Nat /\ indices'[x] < k + 1
    BY <1>1, <1>2, <1>5 DEF Numbered
  <2>2. Discovered' \subseteq Nodes /\ indices' \in [Discovered' -> Nat] /\ lowlink' \in [Discovered' -> Nat]
    BY <1>1, <1>4, <2>1 DEF Numbered
  <2>3. \A x, y \in Discovered \cup {n} : indices'[x] = indices'[y] => x = y
    BY <1>1, <1>5 DEF Numbered
  <2>4. \A x \in Discovered' : indices'[x] < Cardinality(Discovered)'
    BY <1>4, <2>1
  <2>5. \A x, y \in Discovered' : indices'[x] = indices'[y] => x = y
    BY <1>4, <2>3
  <2>. QED
    BY <2>2, <2>4, <2>5 DEF Numbered
<1>8. ASSUME NEW x PROVE ~Looked(n, x)'
  <2>1. ~\E j \in 1..work'[l + 1].next - 1 : TRUE
    BY <1>6
  <2>. QED
    BY <1>6, <2>1 DEF Looked
<1>9. Stacked'
  <2>1. ASSUME NEW i \in DOMAIN tarjan', NEW j \in DOMAIN tarjan', i < j
        PROVE  indices'[tarjan'[i]] < indices'[tarjan'[j]]
    <3>. DEFINE m == Len(tarjan)
    <3>1. m \in Nat /\ DOMAIN tarjan = 1..m /\ \A h \in DOMAIN tarjan : tarjan[h] \in Discovered
      BY <1>1 DEF Stacked
    <3>2. DOMAIN tarjan' = 1..m + 1
      BY <1>4, <3>1
    <3>. HIDE DEF m
    <3>3. i \in DOMAIN tarjan /\ (j \in DOMAIN tarjan \/ j = m + 1)
      BY <2>1, <3>1, <3>2
    <3>4. tarjan'[i] = tarjan[i] /\ indices'[tarjan'[i]] = indices[tarjan[i]] /\ indices[tarjan[i]] < k
      BY <1>4, <1>5, <3>1, <3>3
    <3>5. CASE j \in DOMAIN tarjan
      <4>1. tarjan'[j] = tarjan[j] /\ indices'[tarjan'[j]] = indices[tarjan[j]]
        BY <1>4, <1>5, <3>1, <3>5
      <4>. QED
        BY <1>1, <2>1, <3>3, <3>4, <3>5, <4>1 DEF Stacked
    <3>6. CASE j = m + 1
      BY <1>4, <1>5, <3>4, <3>6 DEF m
    <3>. QED
      BY <3>3, <3>5, <3>6
  <2>2. ASSUME NEW i \in DOMAIN work', NEW j \in DOMAIN work', i < j
        PROVE  indices'[work'[i].node] < indices'[work'[j].node]
    <3>1. i \in DOMAIN work /\ (j \in DOMAIN work \/ j = l + 1)
      BY <1>2, <1>6, <2>2
    <3>2. CASE j \in DOMAIN work
      BY <1>1, <1>6, <2>2, <3>1, <3>2 DEF Stacked
    <3>3. CASE j = l + 1
      BY <1>5, <1>6, <3>1, <3>3
    <3>. QED
      BY <3>1, <3>2, <3>3
  <2>3. ASSUME NEW i \in DOMAIN work', NEW m, work'[i].node = m
        PROVE  On(m)' /\ work'[i].next <= Len(G!Outgoing(m)') + 1
    <3>1. CASE i \in DOMAIN work
      <4>1. work[i].node = m /\ On(m) /\ work'[i].next <= Len(G!Outgoing(m)) + 1
        BY <1>3, <1>4, <1>6, <2>3, <3>1
      <4>. QED
        BY <1>4, <4>1, GraphStays
    <3>2. CASE i = l + 1
      <4>1. m = n /\ Len(G!Outgoing(n)) \in Nat
        BY <1>6, <2>3, <3>2, OutgoingIs
      <4>. QED
        BY <1>4, <1>6, <3>2, <4>1, GraphStays
    <3>. QED
      BY <1>6, <3>1, <3>2
  <2>4. work' \in Seq(Frames) /\ tarjan' \in Seq(Discovered')
    BY <1>4
  <2>. QED
    BY <2>1, <2>2, <2>3, <2>4 DEF Stacked
<1>10. Parted'
  <2>1. components' = components /\ Taken' = Taken
    BY DEF Taken
  <2>2. n \notin Taken /\ \A x \in Taken : ~On(x) /\ x # n
    BY <1>1, <1>4 DEF Parted
  <2>3. \A x : x \in Discovered' <=> x \in Taken' \/ On(x)'
    BY <1>1, <1>4, <2>1 DEF Parted
  <2>4. \A x \in Taken' : ~On(x)' /\ G!Targets(x)' \subseteq Taken'
    BY <1>1, <1>4, <2>1, <2>2, GraphStays DEF Parted
  <2>5. \A c \in components' : c # {} /\ \A m \in c : c = Class(m)'
    BY <1>1, <2>1, ClassStays DEF Parted
  <2>. QED
    BY <2>3, <2>4, <2>5 DEF Parted
<1>11. Connected'
  <2>1. ASSUME NEW x, NEW y, On(x)', Looked(x, y)' PROVE y \in Discovered'
    BY <1>1, <1>3, <1>4, <1>8, <2>1 DEF Connected
  <2>2. ASSUME NEW x, NEW y, On(x)', On(y)', indices'[x] <= indices'[y] PROVE LeadsTo(x, y)'
    <3>1. CASE On(x) /\ On(y)
      BY <1>1, <1>2, <1>5, <2>2, <3>1, LeadsToStays DEF Connected
    <3>2. CASE On(x) /\ y = n
      BY <1>3, <3>2, LeadsToStays
    <3>3. CASE x = n
      <4>1. y = n
        BY <1>2, <1>4, <1>5, <2>2, <3>3
      <4>. QED
        BY <3>3, <4>1, LeadsToIs, LeadsToStays
    <3>. QED
      BY <1>4, <2>2, <3>1, <3>2, <3>3
  <2>3. ASSUME NEW y, On(y)'
        PROVE  \E m : Working(m)' /\ indices'[m] <= indices'[y] /\ LeadsTo(y, m)'
    <3>1. CASE On(y)
      <4>1. PICK m : Working(m) /\ indices[m] <= indices[y] /\ LeadsTo(y, m)
        BY <1>1, <3>1 DEF Connected
      <4>2. PICK i \in DOMAIN work : work[i].node = m
        BY <4>1 DEF Working
      <4>3. i \in DOMAIN work' /\ work'[i].node = m /\ indices'[y] = indices[y] /\ indices'[m] = indices[m]
        BY <1>2, <1>5, <1>6, <3>1, <4>2
      <4>4. Working(m)' /\ LeadsTo(y, m)'
        BY <4>1, <4>3, LeadsToStays DEF Working
      <4>. QED
        BY <4>1, <4>3, <4>4
    <3>2. CASE y = n
      <4>1. LeadsTo(n, n)'
        BY LeadsToIs, LeadsToStays
      <4>2. Working(n)'
        BY <1>6 DEF Working
      <4>. QED
        BY <1>5, <1>2, <3>2, <4>1, <4>2
    <3>. QED
      BY <1>4, <2>3, <3>1, <3>2
  <2>. QED
    BY <2>1, <2>2, <2>3 DEF Connected
<1>12. Linked'
  <2>1. ASSUME NEW m, On(m)'
        PROVE  lowlink'[m] <= indices'[m] /\ \E z : On(z)' /\ indices'[z] = lowlink'[m] /\ LeadsTo(m, z)'
    <3>1. CASE On(m)
      <4>1. lowlink[m] <= indices[m] /\ lowlink'[m] = lowlink[m] /\ indices'[m] = indices[m]
        BY <1>1, <1>2, <1>5, <3>1 DEF Linked
      <4>2. PICK z : On(z) /\ indices[z] = lowlink[m] /\ LeadsTo(m, z)
        BY <1>1, <3>1 DEF Linked
      <4>3. On(z)' /\ indices'[z] = indices[z] /\ LeadsTo(m, z)'
        BY <1>2, <1>4, <1>5, <4>2, LeadsToStays
      <4>. QED
        BY <4>1, <4>2, <4>3
    <3>2. CASE m = n
      <4>1. LeadsTo(n, n)' /\ On(n)'
        BY <1>4, LeadsToIs, LeadsToStays
      <4>. QED
        BY <1>2, <1>5, <3>2, <4>1
    <3>. QED
      BY <1>4, <2>1, <3>1, <3>2
  <2>2. ASSUME NEW x, NEW y, On(x)', On(y)', Looked(x, y)', NEW i \in DOMAIN work', Governs(i, x)'
        PROVE  lowlink'[work'[i].node] <= indices'[y]
    <3>1. On(x) /\ (Looked(x, y) \/ y = n)
      BY <1>3, <1>4, <1>8, <2>2
    <3>2. i \in DOMAIN work
      <4>1. indices'[work'[i].node] <= indices'[x]
        BY <2>2 DEF Governs
      <4>. QED
        BY <1>2, <1>5, <1>6, <3>1, <4>1
    <3>3. /\ work'[i].node = work[i].node /\ lowlink'[work[i].node] = lowlink[work[i].node]
          /\ lowlink[work[i].node] <= indices[work[i].node] /\ indices[work[i].node] < k
          /\ lowlink[work[i].node] \in Nat /\ indices[work[i].node] \in Nat
      BY <1>1, <1>2, <1>5, <1>6, <3>2 DEF Linked
    <3>4. CASE y = n
      BY <1>2, <1>5, <3>3, <3>4
    <3>5. CASE Looked(x, y) /\ On(y)
      <4>1. Governs(i, x)
        <5>1. indices[work[i].node] <= indices[x]
          <6>1. indices'[work'[i].node] <= indices'[x]
            BY <2>2 DEF Governs
          <6>. QED
            BY <1>2, <1>5, <1>6, <3>1, <3>2, <6>1
        <5>2. i # l => i + 1 \in DOMAIN work
          BY <1>2, <3>2
        <5>3. i # l => i # Len(work)' /\ indices'[x] < indices'[work'[i + 1].node]
          BY <1>2, <1>4, <2>2, <3>2 DEF Governs
        <5>4. i # l => indices[x] < indices[work[i + 1].node]
          BY <1>2, <1>5, <1>6, <3>1, <5>2, <5>3
        <5>. QED
          BY <5>1, <5>4 DEF Governs, l
      <4>. QED
        BY <1>1, <1>2, <1>5, <3>1, <3>2, <3>3, <3>5, <4>1 DEF Linked
    <3>. QED
      BY <1>4, <2>2, <3>1, <3>4, <3>5
  <2>. QED
    BY <2>1, <2>2 DEF Linked
<1>. QED
  BY <1>7, <1>9, <1>10, <1>11, <1>12 DEF Walked

\* The frame on top, and the node that its next edge leads to.
LEMMA AdvancedIs ==
  ASSUME Walked, work # <<>>, G!Top.next <= Len(G!Outgoing(G!Top.node))
  PROVE  /\ Len(work) \in DOMAIN work /\ G!Top = work[Len(work)] /\ On(G!Top.node) /\ G!Top.next \in Nat \ {0}
         /\ G!Neighbour \in G!Targets(G!Top.node) /\ G!Neighbour \in Nodes
         /\ G!Neighbour = G!Outgoing(G!Top.node)[G!Top.next]
         /\ G!Advanced \in Seq(Frames) /\ Len(G!Advanced) = Len(work)
         /\ \A i \in DOMAIN work : /\ G!Advanced[i].node = work[i].node
                                   /\ G!Advanced[i].next = IF i = Len(work) THEN work[i].next + 1 ELSE work[i].next
                                   /\ G!Advanced[i].next <= Len(G!Outgoing(work[i].node)) + 1
<1>. DEFINE l == Len(work)
            t == G!Top.node
            k == G!Top.next
<1>1. work \in Seq(Frames) /\ l \in DOMAIN work /\ DOMAIN work = 1..l /\ l \in Nat
  BY EmptySeq DEF Walked, Stacked
<1>2. G!Top = work[l]
  BY DEF G!Top, G!Last
<1>3. On(t) /\ k \in Nat \ {0} /\ \A i \in DOMAIN work : /\ work[i] = [node |-> work[i].node, next |-> work[i].next]
                                                         /\ work[i].node \in Nodes /\ work[i].next \in Nat \ {0}
                                                         /\ work[i].next <= Len(G!Outgoing(work[i].node)) + 1
  <2>1. \A e \in Frames : e = [node |-> e.node, next |-> e.next] /\ e.node \in Nodes /\ e.next \in Nat \ {0}
    BY DEF Frames
  <2>2. \A i \in DOMAIN work : work[i] \in Frames
    BY <1>1
  <2>3. \A i \in DOMAIN work : On(work[i].node) /\ work[i].next <= Len(G!Outgoing(work[i].node)) + 1
    BY DEF Walked, Stacked
  <2>. QED
    BY <1>1, <1>2, <2>1, <2>2, <2>3
<1>4. G!Neighbour = G!Outgoing(t)[k] /\ G!Outgoing(t)[k] \in G!Targets(t) /\ Len(G!Outgoing(t)) \in Nat
  <2>1. G!Neighbour = G!Outgoing(t)[k]
    BY DEF G!Neighbour
  <2>2. G!Outgoing(t) \in Seq(G!Targets(t)) /\ k \in 1..Len(G!Outgoing(t))
    BY <1>3, OutgoingIs
  <2>. HIDE DEF t, k
  <2>. QED
    BY <2>1, <2>2
<1>5. G!Neighbour \in Nodes
  BY <1>4, OutgoingIs
<1>. DEFINE moved == [node |-> t, next |-> k + 1]
<1>6. G!Advanced = [work EXCEPT ![l] = moved]
  <2>1. \A e : e = [node |-> e.node, next |-> e.next] =>
                 [e EXCEPT !.next = @ + 1] = [node |-> e.node, next |-> e.next + 1]
    OBVIOUS
  <2>2. [work[l] EXCEPT !.next = @ + 1] = moved
    BY <1>1, <1>2, <1>3, <2>1
  <2>3. G!Advanced = [work EXCEPT ![l] = [work[l] EXCEPT !.next = @ + 1]]
    BY DEF G!Advanced
  <2>. QED
    BY <2>2, <2>3
<1>7. moved \in Frames
  BY <1>1, <1>2, <1>3 DEF Frames
<1>8. G!Advanced \in Seq(Frames) /\ Len(G!Advanced) = l /\ \A i \in DOMAIN work : G!Advanced[i] = IF i = l THEN moved ELSE work[i]
  <2>. HIDE DEF moved, l
  <2>1. G!Advanced = [i \in 1..l |-> IF i = l THEN moved ELSE work[i]]
    BY <1>1, <1>6
  <2>2. \A i \in 1..l : (IF i = l THEN moved ELSE work[i]) \in Frames
    BY <1>1, <1>7
  <2>. QED
    BY <1>1, <2>1, <2>2
<1>9. ASSUME NEW i \in DOMAIN work
      PROVE  /\ G!Advanced[i].node = work[i].node
             /\ G!Advanced[i].next = IF i = l THEN work[i].next + 1 ELSE work[i].next
             /\ G!Advanced[i].next <= Len(G!Outgoing(work[i].node)) + 1
  <2>1. CASE i = l
    <3>1. G!Advanced[i] = moved /\ work[i].node = t /\ work[i].next = k
      BY <1>2, <1>8, <2>1
    <3>2. k + 1 <= Len(G!Outgoing(t)) + 1
      BY <1>3, <1>4
    <3>. QED
      BY <2>1, <3>1, <3>2
  <2>2. CASE i # l
    BY <1>3, <1>8, <2>2
  <2>. QED
    BY <2>1, <2>2
<1>. QED
  BY <1>1, <1>2, <1>3, <1>4, <1>5, <1>8, <1>9

\* No edge but this is newly looked at when the frame on top moves on.
LEMMA OneMoreLooked ==
  ASSUME Walked, work # <<>>, G!Top.next <= Len(G!Outgoing(G!Top.node)), graph' = graph,
         \A i \in DOMAIN work : i \in DOMAIN work' /\ work'[i] = G!Advanced[i]
  PROVE  \A x, y : Looked(x, y)' => Looked(x, y) \/ (x = G!Top.node /\ y = G!Neighbour)
<1>. SUFFICES ASSUME NEW x, NEW y, Looked(x, y)', ~(x = G!Top.node /\ y = G!Neighbour) PROVE Looked(x, y)
  OBVIOUS
<1>1. y \in G!Targets(x)
  BY GraphStays DEF Looked
<1>2. ASSUME NEW i \in DOMAIN work, work[i].node = x
      PROVE  \E j \in 1..work[i].next - 1 : G!Outgoing(x)[j] = y
  <2>1. work'[i].node = x /\ i \in DOMAIN work' /\ work'[i].next = IF i = Len(work) THEN work[i].next + 1 ELSE work[i].next
    BY <1>2, AdvancedIs
  <2>2. PICK j \in 1..work'[i].next - 1 : G!Outgoing(x)[j] = y
    <3>1. \E j \in 1..work'[i].next - 1 : G!Outgoing(x)'[j] = y
      BY <2>1 DEF Looked
    <3>. QED
      BY <3>1, GraphStays
  <2>3. work[i].next \in Nat \ {0}
    BY NumbersAre DEF Walked
  <2>4. CASE i = Len(work)
    <3>1. x = G!Top.node /\ G!Top.next = work[i].next /\ G!Neighbour = G!Outgoing(x)[work[i].next]
      BY <1>2, <2>4, AdvancedIs
    <3>2. j # work[i].next
      BY <2>2, <3>1
    <3>3. j \in 1..work[i].next - 1
      BY <2>1, <2>2, <2>3, <2>4, <3>2
    <3>. QED
      BY <2>2, <3>3
  <2>5. CASE i # Len(work)
    BY <2>1, <2>2, <2>5
  <2>. QED
    BY <2>4, <2>5
<1>. QED
  BY <1>1, <1>2 DEF Looked

\* What is on the stack leads to the frame on top.
LEMMA LeadsToTheTop ==
  ASSUME Walked, work # <<>>
  PROVE  /\ \A x : On(x) => LeadsTo(x, G!Top.node)
         /\ \A i \in DOMAIN work : indices[work[i].node] <= indices[G!Top.node]
<1>1. Len(work) \in DOMAIN work /\ G!Top = work[Len(work)] /\ DOMAIN work = 1..Len(work) /\ Len(work) \in Nat
  BY EmptySeq DEF G!Top, G!Last, Walked, Stacked
<1>2. \A i \in DOMAIN work : indices[work[i].node] \in Nat /\ On(work[i].node)
  BY NumbersAre DEF Walked
<1>3. ASSUME NEW i \in DOMAIN work PROVE indices[work[i].node] <= indices[G!Top.node]
  <2>1. i = Len(work) \/ i < Len(work)
    BY <1>1
  <2>2. i < Len(work) => indices[work[i].node] < indices[G!Top.node]
    BY <1>1 DEF Walked, Stacked
  <2>. QED
    BY <1>1, <1>2, <2>1, <2>2
<1>4. ASSUME NEW x, On(x) PROVE LeadsTo(x, G!Top.node)
  <2>1. PICK n : Working(n) /\ LeadsTo(x, n)
    BY <1>4 DEF Walked, Connected
  <2>2. PICK i \in DOMAIN work : work[i].node = n
    BY <2>1 DEF Working
  <2>3. LeadsTo(n, G!Top.node)
    BY <1>1, <1>2, <1>3, <2>2 DEF Walked, Connected
  <2>. QED
    BY <2>1, <2>3, LeadsToIs
<1>. QED
  BY <1>3, <1>4

LEMMA RootKeeps == ASSUME Walked, G!Root, graph' = graph PROVE Walked'
<1>1. work = <<>> /\ Discovered # Nodes /\ components' = components
  BY DEF G!Root, Discovered
<1>. DEFINE n == CHOOSE m \in Nodes \ DOMAIN indices : \A h \in Nodes \ DOMAIN indices : m <= h
<1>2. n \in Nodes /\ n \notin Discovered
  <2>1. Nodes \ DOMAIN indices \subseteq Nat /\ Nodes \ DOMAIN indices # {}
    BY <1>1, FlowAssumption DEF Walked, Numbered, Discovered
  <2>2. \E m \in Nodes \ DOMAIN indices : \A h \in Nodes \ DOMAIN indices : m <= h
    BY <2>1, Least
  <2>. QED
    BY <2>2 DEF Discovered
<1>3. G!Discover(n, <<>>)
  BY DEF G!Root
<1>. HIDE DEF n
<1>4. ~\E x : On(x)
  BY <1>1 DEF Walked, Connected, Working
<1>5. Untouched(n, <<>>)
  <2>1. <<>> \in Seq(Frames) /\ Len(<<>>) = Len(work) /\ ~\E i : i \in DOMAIN work
    BY <1>1
  <2>. QED
    BY <1>4, <2>1 DEF Untouched
<1>. QED
  BY <1>1, <1>2, <1>3, <1>5, DiscoveryKeeps

LEMMA DescentKeeps == ASSUME Walked, G!Descend, graph' = graph PROVE Walked'
<1>1. /\ work # <<>> /\ G!Top.next <= Len(G!Outgoing(G!Top.node)) /\ components' = components
      /\ G!Neighbour \notin Discovered
  BY DEF G!Descend, Discovered
<1>. DEFINE n == G!Neighbour
            frames == G!Advanced
<1>2. n \in Nodes /\ n \notin Discovered /\ n \in G!Targets(G!Top.node)
  BY <1>1, AdvancedIs
<1>3. G!Discover(n, frames)
  BY DEF G!Descend
<1>4. /\ frames \in Seq(Frames) /\ Len(frames) = Len(work)
      /\ \A i \in DOMAIN work : /\ frames[i].node = work[i].node
                                /\ frames[i].next <= Len(G!Outgoing(work[i].node)) + 1
  BY <1>1, AdvancedIs
<1>5. \A i \in DOMAIN work : i \in DOMAIN work' /\ work'[i] = frames[i]
  <2>1. work' = Append(frames, G!Frame(n))
    BY <1>3 DEF G!Discover
  <2>2. DOMAIN work = 1..Len(work) /\ Len(work) \in Nat
    BY DEF Walked, Stacked
  <2>3. /\ Len(Append(frames, G!Frame(n))) = Len(work) + 1
        /\ \A i \in 1..Len(work) : Append(frames, G!Frame(n))[i] = frames[i]
    <3>1. \A e, s : s \in Seq(Frames) => /\ Len(Append(s, e)) = Len(s) + 1
                                         /\ \A i \in 1..Len(s) : Append(s, e)[i] = s[i]
      OBVIOUS
    <3>. HIDE DEF frames, n
    <3>. QED
      BY <1>4, <3>1
  <2>4. DOMAIN work' = 1..Len(work) + 1
    <3>1. \A e, s : s \in Seq(Frames) => DOMAIN Append(s, e) = 1..Len(s) + 1
      OBVIOUS
    <3>. HIDE DEF frames, n
    <3>. QED
      BY <1>4, <2>1, <3>1
  <2>. HIDE DEF frames, n
  <2>. QED
    BY <2>1, <2>2, <2>3, <2>4
<1>6. \A x, y : Looked(x, y)' => Looked(x, y) \/ y = n
  BY <1>1, <1>5, OneMoreLooked
<1>7. \A x : On(x) => LeadsTo(x, n)
  BY <1>1, <1>2, LeadsToTheTop, LeadsToIs
<1>8. Untouched(n, frames)
  BY <1>4, <1>6, <1>7 DEF Untouched
<1>. HIDE DEF n, frames
<1>. QED
  BY <1>1, <1>2, <1>3, <1>8, DiscoveryKeeps

\* An edge to a node that is discovered already.
LEMMA SeenKeeps == ASSUME Walked, G!Seen, graph' = graph PROVE Walked'
<1>. DEFINE t == G!Top.node
            n == G!Neighbour
<1>1. /\ work # <<>> /\ G!Top.next <= Len(G!Outgoing(t)) /\ n \in Discovered
      /\ components' = components /\ indices' = indices /\ tarjan' = tarjan /\ work' = G!Advanced
      /\ lowlink' = IF G!OnStack(n) THEN G!Lowered(t, indices[n]) ELSE lowlink
  BY DEF G!Seen, Discovered
<1>2. Numbered /\ Stacked /\ Parted /\ Connected /\ Linked
  BY DEF Walked
<1>3. n \in G!Targets(t) /\ On(t) /\ Len(work) \in DOMAIN work /\ work[Len(work)].node = t
  BY <1>1, AdvancedIs
<1>4. /\ work' \in Seq(Frames) /\ Len(work') = Len(work) /\ DOMAIN work' = DOMAIN work
      /\ \A i \in DOMAIN work : work'[i].node = work[i].node /\ work'[i].next <= Len(G!Outgoing(work[i].node)) + 1
  <2>1. /\ work' \in Seq(Frames) /\ Len(work') = Len(work)
        /\ \A i \in DOMAIN work : work'[i].node = work[i].node /\ work'[i].next <= Len(G!Outgoing(work[i].node)) + 1
    BY <1>1, AdvancedIs
  <2>. QED
    BY <1>2, <2>1 DEF Stacked
<1>5. \A x, y : Looked(x, y)' => Looked(x, y) \/ (x = t /\ y = n)
  <2>1. \A i \in DOMAIN work : i \in DOMAIN work' /\ work'[i] = G!Advanced[i]
    BY <1>1, <1>4
  <2>. QED
    BY <1>1, <2>1, OneMoreLooked
<1>6. /\ \A x : On(x) => x \in Discovered /\ x \in Nodes /\ indices[x] \in Nat /\ lowlink[x] \in Nat
      /\ \A i \in DOMAIN work : On(work[i].node)
  BY <1>2, NumbersAre
<1>. HIDE DEF t, n
<1>7. (\A x : On(x)' <=> On(x)) /\ Discovered' = Discovered /\ Taken' = Taken
  BY <1>1, OnStays DEF Discovered, Taken
<1>8. G!OnStack(n) <=> On(n)
  BY <1>2 DEF G!OnStack, G!Contains, On, Listed, Stacked
<1>9. /\ lowlink' \in [Discovered -> Nat] /\ \A x \in Discovered \ {t} : lowlink'[x] = lowlink[x]
      /\ On(n) => lowlink'[t] = IF indices[n] < lowlink[t] THEN indices[n] ELSE lowlink[t]
      /\ ~On(n) => lowlink'[t] = lowlink[t]
  <2>1. CASE On(n)
    <3>1. lowlink' = [lowlink EXCEPT ![t] = IF indices[n] < lowlink[t] THEN indices[n] ELSE lowlink[t]]
      BY <1>1, <1>8, <2>1 DEF G!Lowered
    <3>. QED
      BY <1>2, <1>3, <1>6, <2>1, <3>1 DEF Numbered
  <2>2. CASE ~On(n)
    BY <1>1, <1>2, <1>8, <2>2 DEF Numbered
  <2>. QED
    BY <2>1, <2>2
<1>10. \A x \in Discovered : lowlink'[x] <= lowlink[x] /\ lowlink'[x] \in Nat /\ lowlink[x] \in Nat
  <2>1. lowlink \in [Discovered -> Nat] /\ t \in Discovered /\ (On(n) => indices[n] \in Nat)
    BY <1>2, <1>3, <1>6 DEF Numbered
  <2>2. lowlink'[t] <= lowlink[t]
    BY <1>9, <2>1
  <2>. QED
    BY <1>9, <2>1, <2>2
<1>11. Numbered'
  BY <1>1, <1>2, <1>7, <1>9 DEF Numbered
<1>12. Stacked'
  <2>1. \A i \in DOMAIN work' : \A m : work'[i].node = m => On(m)' /\ work'[i].next <= Len(G!Outgoing(m)') + 1
    BY <1>2, <1>4, <1>7, GraphStays DEF Stacked
  <2>. QED
    BY <1>1, <1>2, <1>4, <1>7, <2>1 DEF Stacked
<1>13. Parted'
  <2>1. \A c \in components' : c # {} /\ \A m \in c : c = Class(m)'
    BY <1>1, <1>2, ClassStays DEF Parted
  <2>2. \A x \in Taken' : ~On(x)' /\ G!Targets(x)' \subseteq Taken'
    BY <1>2, <1>7, GraphStays DEF Parted
  <2>. QED
    BY <1>2, <1>7, <2>1, <2>2 DEF Parted
<1>14. Connected'
  <2>1. \A x : Working(x)' <=> Working(x)
    BY <1>4 DEF Working
  <2>2. \A x, y : On(x)' /\ Looked(x, y)' => y \in Discovered'
    BY <1>1, <1>2, <1>5, <1>7 DEF Connected
  <2>. QED
    BY <1>1, <1>2, <1>7, <2>1, <2>2, LeadsToStays DEF Connected
<1>15. Linked'
  <2>1. ASSUME NEW x, On(x)
        PROVE  lowlink'[x] <= indices[x] /\ \E z : On(z) /\ indices[z] = lowlink'[x] /\ LeadsTo(x, z)
    <3>1. lowlink[x] <= indices[x] /\ \E z : On(z) /\ indices[z] = lowlink[x] /\ LeadsTo(x, z)
      BY <1>2, <2>1 DEF Linked
    <3>2. x \in Discovered /\ lowlink'[x] <= indices[x]
      BY <1>6, <1>10, <2>1, <3>1
    <3>3. CASE lowlink'[x] = lowlink[x]
      BY <3>1, <3>2, <3>3
    <3>4. CASE x = t /\ On(n) /\ lowlink'[t] = indices[n]
      BY <1>3, <3>2, <3>4, LeadsToIs
    <3>. QED
      BY <1>9, <3>2, <3>3, <3>4
  <2>2. ASSUME NEW x, NEW y, On(x), On(y), Looked(x, y)', NEW i \in DOMAIN work, Governs(i, x)
        PROVE  lowlink'[work[i].node] <= indices[y]
    <3>1. lowlink'[work[i].node] <= lowlink[work[i].node] /\ lowlink'[work[i].node] \in Nat
          /\ lowlink[work[i].node] \in Nat /\ indices[y] \in Nat
      BY <1>6, <1>10, <2>2
    <3>2. CASE Looked(x, y)
      <4>1. lowlink[work[i].node] <= indices[y]
        BY <1>2, <2>2, <3>2 DEF Linked
      <4>. QED
        BY <3>1, <4>1
    <3>3. CASE x = t /\ y = n
      <4>1. i = Len(work)
        <5>1. CASE i # Len(work)
          <6>1. indices[t] < indices[work[i + 1].node] /\ i + 1 \in DOMAIN work
            BY <1>2, <2>2, <3>3, <5>1 DEF Governs, Stacked
          <6>2. indices[work[i + 1].node] <= indices[t] /\ indices[work[i + 1].node] \in Nat /\ indices[t] \in Nat
            BY <1>1, <1>3, <1>6, <6>1, LeadsToTheTop DEF t
          <6>. QED
            BY <6>1, <6>2
        <5>. QED
          BY <5>1
      <4>. QED
        BY <1>3, <1>6, <1>9, <2>2, <3>3, <4>1
    <3>. QED
      BY <1>5, <2>2, <3>2, <3>3
  <2>3. \A i \in DOMAIN work : \A x : Governs(i, x)' <=> Governs(i, x)
    <3>1. ASSUME NEW i \in DOMAIN work, NEW x PROVE Governs(i, x)' <=> Governs(i, x)
      <4>1. i # Len(work) => i + 1 \in DOMAIN work
        BY <1>2 DEF Stacked
      <4>. QED
        BY <1>1, <1>4, <4>1 DEF Governs
    <3>. QED
      BY <3>1
  <2>4. \A i \in DOMAIN work : work'[i].node = work[i].node
    BY <1>4
  <2>5. ASSUME NEW x, NEW y, On(x)', On(y)', Looked(x, y)', NEW i \in DOMAIN work', Governs(i, x)'
        PROVE  lowlink'[work'[i].node] <= indices'[y]
    BY <1>1, <1>4, <1>7, <2>2, <2>3, <2>4, <2>5
  <2>6. \A x : On(x)' => lowlink'[x] <= indices'[x] /\ \E z : On(z)' /\ indices'[z] = lowlink'[x] /\ LeadsTo(x, z)'
    BY <1>1, <1>7, <2>1, LeadsToStays
  <2>. QED
    BY <2>5, <2>6 DEF Linked
<1>. QED
  BY <1>11, <1>12, <1>13, <1>14, <1>15 DEF Walked

\* What is on the stack from a node on, and below it.
LEMMA CutIs ==
  ASSUME Walked, NEW n, On(n), NEW at, at = CHOOSE i \in 1..Len(tarjan) : tarjan[i] = n
  PROVE  /\ SubSeq(tarjan, 1, at - 1) \in Seq(Discovered)
         /\ \A i, j \in DOMAIN SubSeq(tarjan, 1, at - 1) :
              i < j => indices[SubSeq(tarjan, 1, at - 1)[i]] < indices[SubSeq(tarjan, 1, at - 1)[j]]
         /\ \A x : Listed(SubSeq(tarjan, 1, at - 1), x) <=> On(x) /\ indices[x] < indices[n]
         /\ G!ToSet(SubSeq(tarjan, at, Len(tarjan))) = {x \in Nodes : On(x) /\ indices[n] <= indices[x]}
<1>. DEFINE s == tarjan
            k == Len(tarjan)
            low == SubSeq(s, 1, at - 1)
            high == SubSeq(s, at, k)
<1>1. /\ s \in Seq(Discovered) /\ k \in Nat /\ DOMAIN s = 1..k
      /\ \A i, j \in DOMAIN s : i < j => indices[s[i]] < indices[s[j]]
      /\ \A i \in DOMAIN s : On(s[i]) /\ s[i] \in Nodes /\ indices[s[i]] \in Nat
  <2>1. /\ s \in Seq(Discovered) /\ \A i, j \in DOMAIN s : i < j => indices[s[i]] < indices[s[j]]
    BY DEF Walked, Stacked
  <2>2. \A i \in DOMAIN s : On(s[i])
    BY DEF On, Listed
  <2>. QED
    BY <2>1, <2>2, NumbersAre DEF Walked
<1>2. at \in 1..k /\ s[at] = n
  BY <1>1 DEF On, Listed
<1>. HIDE DEF k
<1>3. /\ DOMAIN low = 1..at - 1 /\ \A i \in 1..at - 1 : low[i] = s[i] /\ i \in DOMAIN s
      /\ low \in Seq(Discovered)
  BY <1>1, <1>2, SubSeqProperties
<1>4. DOMAIN high = 1..(k - at) + 1 /\ \A i \in 1..(k - at) + 1 : high[i] = s[at + i - 1]
  BY <1>1, <1>2, SubSeqProperties
<1>. HIDE DEF s, low, high
<1>5. \A i \in DOMAIN s : (i < at <=> indices[s[i]] < indices[n]) /\ (at <= i <=> indices[n] <= indices[s[i]])
  <2>1. SUFFICES ASSUME NEW i \in DOMAIN s
                 PROVE  (i < at <=> indices[s[i]] < indices[n]) /\ (at <= i <=> indices[n] <= indices[s[i]])
    OBVIOUS
  <2>2. i \in Int /\ at \in Int /\ at \in DOMAIN s /\ indices[s[i]] \in Nat /\ indices[n] \in Nat
    BY <1>1, <1>2
  <2>3. (i < at => indices[s[i]] < indices[n]) /\ (at < i => indices[n] < indices[s[i]]) /\ (i = at => indices[s[i]] = indices[n])
    BY <1>1, <1>2, <2>2
  <2>. QED
    BY <2>2, <2>3
<1>6. \A x : On(x) <=> \E i \in DOMAIN s : s[i] = x
  BY DEF On, Listed, s
<1>7. ASSUME NEW x PROVE Listed(low, x) <=> On(x) /\ indices[x] < indices[n]
  <2>1. ASSUME Listed(low, x) PROVE On(x) /\ indices[x] < indices[n]
    <3>1. PICK i \in 1..at - 1 : low[i] = x
      BY <1>3, <2>1 DEF Listed
    <3>2. s[i] = x /\ i \in DOMAIN s /\ i < at
      BY <1>1, <1>2, <1>3, <3>1
    <3>. QED
      BY <1>5, <1>6, <3>2
  <2>2. ASSUME On(x), indices[x] < indices[n] PROVE Listed(low, x)
    <3>1. PICK i \in DOMAIN s : s[i] = x
      BY <1>6, <2>2
    <3>2. i < at
      BY <1>5, <2>2, <3>1
    <3>3. i \in 1..at - 1
      BY <1>1, <1>2, <3>2
    <3>. QED
      BY <1>3, <3>1, <3>3 DEF Listed
  <2>. QED
    BY <2>1, <2>2
<1>8. \A i, j \in DOMAIN low : i < j => indices[low[i]] < indices[low[j]]
  BY <1>1, <1>3
<1>9. ASSUME NEW x PROVE x \in G!ToSet(high) <=> x \in Nodes /\ On(x) /\ indices[n] <= indices[x]
  <2>1. ASSUME x \in G!ToSet(high) PROVE x \in Nodes /\ On(x) /\ indices[n] <= indices[x]
    <3>1. PICK i \in 1..(k - at) + 1 : high[i] = x
      BY <1>4, <2>1 DEF G!ToSet
    <3>. DEFINE j == at + i - 1
    <3>2. j \in 1..k /\ at <= j
      <4>1. k \in Nat /\ at \in 1..k /\ i \in 1..(k - at) + 1
        BY <1>1, <1>2, <3>1
      <4>. QED
        BY <4>1
    <3>3. j \in DOMAIN s /\ s[j] = x
      BY <1>1, <1>4, <3>1, <3>2
    <3>. HIDE DEF j
    <3>. QED
      BY <1>1, <1>5, <3>2, <3>3
  <2>2. ASSUME On(x), indices[n] <= indices[x] PROVE x \in G!ToSet(high)
    <3>1. PICK i \in DOMAIN s : s[i] = x
      BY <1>6, <2>2
    <3>2. at <= i
      BY <1>5, <2>2, <3>1
    <3>3. i - at + 1 \in 1..(k - at) + 1 /\ at + (i - at + 1) - 1 = i
      BY <1>1, <1>2, <3>1, <3>2
    <3>4. high[i - at + 1] = x
      BY <1>4, <3>1, <3>3
    <3>. QED
      BY <1>4, <3>3, <3>4 DEF G!ToSet
  <2>. QED
    BY <2>1, <2>2
<1>10. G!ToSet(high) = {x \in Nodes : On(x) /\ indices[n] <= indices[x]}
  BY <1>9
<1>. QED
  BY <1>3, <1>7, <1>8, <1>10 DEF low, high, s, k

\* The frame on top is done.
LEMMA ReturnIs ==
  ASSUME Walked, G!Return, graph' = graph
  PROVE  LET n == G!Top.node
             l == Len(work)
         IN  /\ On(n) /\ l \in DOMAIN work /\ work[l].node = n
             /\ \A y \in G!Targets(n) : Looked(n, y)
             /\ work' \in Seq(Frames) /\ DOMAIN work' = 1..l - 1 /\ \A i \in 1..l - 1 : work'[i] = work[i]
             /\ \A x, y : Looked(x, y)' => Looked(x, y)
             /\ \A i \in 1..l - 1 : work[i].node # n /\ indices[work[i].node] < indices[n]
<1>. DEFINE n == G!Top.node
            l == Len(work)
<1>1. /\ work # <<>> /\ work' = SubSeq(work, 1, l - 1) /\ G!Top.next > Len(G!Outgoing(n))
  BY DEF G!Return, G!Front
<1>2. work \in Seq(Frames) /\ l \in DOMAIN work /\ DOMAIN work = 1..l /\ l \in Nat
  BY <1>1, EmptySeq DEF Walked, Stacked
<1>3. G!Top = work[l]
  BY DEF G!Top, G!Last
<1>4. /\ \A i \in DOMAIN work : On(work[i].node) /\ indices[work[i].node] \in Nat
      /\ On(n) /\ work[l].node = n /\ work[l].next \in Nat \ {0} /\ work[l].next <= Len(G!Outgoing(n)) + 1
  BY <1>2, <1>3, NumbersAre DEF Walked, Stacked
<1>. HIDE DEF l
<1>5. /\ work' \in Seq(Frames) /\ DOMAIN work' = 1..l - 1 /\ \A i \in 1..l - 1 : work'[i] = work[i] /\ i \in DOMAIN work
  BY <1>1, <1>2, SubSeqProperties
<1>6. \A i \in 1..l - 1 : indices[work[i].node] < indices[n]
  <2>1. \A i \in 1..l - 1 : i < l
    BY <1>2
  <2>. QED
    BY <1>2, <1>4, <1>5, <2>1 DEF Walked, Stacked
<1>7. \A i \in 1..l - 1 : work[i].node # n
  BY <1>4, <1>5, <1>6
<1>8. \A i \in DOMAIN work : work[i].node = n => i = l
  BY <1>2, <1>7
<1>9. ASSUME NEW y \in G!Targets(n) PROVE Looked(n, y)
  <2>1. PICK j \in DOMAIN G!Outgoing(n) : G!Outgoing(n)[j] = y
    BY OutgoingIs DEF Listed
  <2>2. DOMAIN G!Outgoing(n) = 1..Len(G!Outgoing(n)) /\ Len(G!Outgoing(n)) \in Nat
    BY OutgoingIs
  <2>3. j \in 1..work[l].next - 1
    BY <1>1, <1>3, <1>4, <2>1, <2>2
  <2>. QED
    BY <1>8, <2>1, <2>3 DEF Looked
<1>10. ASSUME NEW x, NEW y, Looked(x, y)' PROVE Looked(x, y)
  <2>1. y \in G!Targets(x)
    BY <1>10, GraphStays DEF Looked
  <2>2. CASE x = n
    BY <1>9, <2>1, <2>2
  <2>3. CASE x # n
    <3>1. ASSUME NEW i \in DOMAIN work, work[i].node = x
          PROVE  \E j \in 1..work[i].next - 1 : G!Outgoing(x)[j] = y
      <4>1. i \in 1..l - 1
        BY <1>2, <1>4, <2>3, <3>1
      <4>2. \E j \in 1..work'[i].next - 1 : G!Outgoing(x)'[j] = y
        BY <1>5, <1>10, <3>1, <4>1 DEF Looked
      <4>. QED
        BY <1>5, <4>1, <4>2, GraphStays
    <3>. QED
      BY <2>1, <3>1 DEF Looked
  <2>. QED
    BY <2>2, <2>3
<1>. QED
  BY <1>2, <1>4, <1>5, <1>6, <1>7, <1>9, <1>10 DEF l

\* What a return does to the links, and to the stack: a root takes the part of it that is
\* its component.
LEMMA ReturnDoes ==
  ASSUME Walked, G!Return, graph' = graph
  PROVE  LET n == G!Top.node
             l == Len(work)
             root == lowlink[n] = indices[n]
         IN  /\ indices' = indices /\ lowlink' \in [Discovered -> Nat]
             /\ \A x \in Discovered : \/ lowlink'[x] = lowlink[x]
                                      \/ l > 1 /\ x = work[l - 1].node /\ lowlink'[x] = lowlink[n]
             /\ \A x \in Discovered : lowlink'[x] <= lowlink[x]
             /\ l > 1 => lowlink'[work[l - 1].node] <= lowlink[n]
             /\ tarjan' \in Seq(Discovered)
             /\ \A i, j \in DOMAIN tarjan' : i < j => indices[tarjan'[i]] < indices[tarjan'[j]]
             /\ \A x : On(x)' <=> On(x) /\ (root => indices[x] < indices[n])
             /\ components' = IF root THEN components \cup {{x \in Nodes : On(x) /\ indices[n] <= indices[x]}}
                              ELSE components
<1>. DEFINE n == G!Top.node
            l == Len(work)
            at == CHOOSE i \in 1..Len(tarjan) : tarjan[i] = n
            root == lowlink[n] = indices[n]
            low == SubSeq(tarjan, 1, at - 1)
            high == SubSeq(tarjan, at, Len(tarjan))
            p == work[l - 1].node
<1>1. /\ indices' = indices
      /\ lowlink' = IF l > 1 THEN G!Lowered(p, lowlink[n]) ELSE lowlink
      /\ tarjan' = IF root THEN low ELSE tarjan
      /\ components' = IF root THEN components \cup {G!ToSet(high)} ELSE components
  BY DEF G!Return
<1>2. On(n) /\ l \in DOMAIN work /\ DOMAIN work = 1..l /\ l \in Nat
  BY ReturnIs DEF Walked, Stacked
<1>3. /\ \A x : On(x) => x \in Discovered /\ lowlink[x] \in Nat
      /\ \A i \in DOMAIN work : On(work[i].node)
      /\ lowlink \in [Discovered -> Nat]
  BY NumbersAre DEF Walked, Numbered
<1>4. /\ low \in Seq(Discovered)
      /\ \A i, j \in DOMAIN low : i < j => indices[low[i]] < indices[low[j]]
      /\ \A x : Listed(low, x) <=> On(x) /\ indices[x] < indices[n]
      /\ G!ToSet(high) = {x \in Nodes : On(x) /\ indices[n] <= indices[x]}
  <2>. HIDE DEF n
  <2>. QED
    BY <1>2, CutIs, ZenonT(40)
<1>5. /\ tarjan \in Seq(Discovered)
      /\ \A i, j \in DOMAIN tarjan : i < j => indices[tarjan[i]] < indices[tarjan[j]]
  BY DEF Walked, Stacked
<1>6. \A x : On(x)' <=> Listed(tarjan', x)
  BY DEF On
<1>. HIDE DEF low, high, at
<1>7. /\ tarjan' \in Seq(Discovered)
      /\ \A i, j \in DOMAIN tarjan' : i < j => indices[tarjan'[i]] < indices[tarjan'[j]]
      /\ \A x : On(x)' <=> On(x) /\ (root => indices[x] < indices[n])
  <2>. HIDE DEF root, n
  <2>1. CASE root
    <3>1. tarjan' = low
      BY <1>1, <2>1
    <3>. QED
      BY <1>4, <1>6, <2>1, <3>1
  <2>2. CASE ~root
    <3>1. tarjan' = tarjan
      BY <1>1, <2>2
    <3>. QED
      BY <1>5, <1>6, <2>2, <3>1 DEF On
  <2>. QED
    BY <2>1, <2>2
<1>8. /\ lowlink' \in [Discovered -> Nat]
      /\ \A x \in Discovered : \/ lowlink'[x] = lowlink[x]
                               \/ l > 1 /\ x = p /\ lowlink'[x] = lowlink[n]
      /\ \A x \in Discovered : lowlink'[x] <= lowlink[x]
      /\ l > 1 => lowlink'[p] <= lowlink[n]
  <2>. HIDE DEF root, n, l, p
  <2>1. CASE l > 1
    <3>1. lowlink' = [lowlink EXCEPT ![p] = IF lowlink[n] < lowlink[p] THEN lowlink[n] ELSE lowlink[p]]
      BY <1>1, <2>1 DEF G!Lowered
    <3>2. p \in Discovered /\ lowlink[p] \in Nat /\ lowlink[n] \in Nat
      BY <1>2, <1>3, <2>1 DEF p
    <3>. QED
      BY <1>3, <2>1, <3>1, <3>2
  <2>2. CASE ~(l > 1)
    BY <1>1, <1>3, <2>2
  <2>. QED
    BY <2>1, <2>2
<1>. HIDE DEF root, n, l, p
<1>9. components' = IF root THEN components \cup {{x \in Nodes : On(x) /\ indices[n] <= indices[x]}}
                    ELSE components
  BY <1>1, <1>4
<1>. QED
  BY <1>1, <1>7, <1>8, <1>9 DEF root, n, l, p

\* The component of a root: its nodes lead to each other, and to nothing else that is not
\* in a component before.
LEMMA ComponentIs ==
  ASSUME Walked, G!Return, graph' = graph, lowlink[G!Top.node] = indices[G!Top.node],
         NEW c, c = {x \in Nodes : On(x) /\ indices[G!Top.node] <= indices[x]}
  PROVE  /\ c # {} /\ \A x \in c : G!Targets(x) \subseteq Taken \cup c
         /\ \A x \in c : c = Class(x)
<1>. DEFINE n == G!Top.node
            l == Len(work)
<1>1. Numbered /\ Stacked /\ Parted /\ Connected /\ Linked
  BY DEF Walked
<1>2. /\ On(n) /\ l \in DOMAIN work /\ work[l].node = n
      /\ \A y \in G!Targets(n) : Looked(n, y)
      /\ \A i \in 1..l - 1 : work[i].node # n /\ indices[work[i].node] < indices[n]
  BY ReturnIs
<1>3. /\ \A x : On(x) => x \in Nodes /\ indices[x] \in Nat /\ lowlink[x] \in Nat
      /\ DOMAIN work = 1..l /\ l \in Nat
  BY <1>1, NumbersAre
<1>4. \A x : x \in c <=> On(x) /\ indices[n] <= indices[x]
  BY <1>3
<1>5. n \in c
  BY <1>2, <1>3, <1>4
<1>6. lowlink[n] = indices[n] /\ work # <<>>
  BY <1>2, <1>3
<1>. HIDE DEF n, l
<1>7. \A m : Working(m) => m = n \/ indices[m] < indices[n]
  <2>1. \A i \in DOMAIN work : i = l \/ i \in 1..l - 1
    BY <1>3
  <2>. QED
    BY <1>2, <2>1 DEF Working
<1>8. ASSUME NEW x \in c, NEW y \in G!Targets(x) PROVE y \in Taken \cup c
  <2>1. Looked(x, y)
    <3>1. CASE x = n
      BY <1>2, <1>8, <3>1
    <3>2. CASE x # n
      <4>1. ~Working(x)
        <5>1. indices[n] <= indices[x] /\ indices[x] \in Nat /\ indices[n] \in Nat
          BY <1>2, <1>3, <1>4
        <5>. QED
          BY <1>7, <3>2, <5>1
      <4>. QED
        BY <1>8, <4>1 DEF Looked, Working
    <3>. QED
      BY <3>1, <3>2
  <2>2. y \in Discovered
    BY <1>1, <1>4, <2>1 DEF Connected
  <2>3. CASE On(y)
    <3>1. Governs(l, x)
      BY <1>2, <1>4 DEF Governs, l
    <3>2. lowlink[n] <= indices[y]
      BY <1>1, <1>2, <1>4, <2>1, <2>3, <3>1 DEF Linked
    <3>. QED
      BY <1>4, <1>6, <2>3, <3>2
  <2>4. CASE ~On(y)
    BY <1>1, <2>2, <2>4 DEF Parted
  <2>. QED
    BY <2>3, <2>4
<1>9. ASSUME NEW x \in c PROVE LeadsTo(x, n) /\ LeadsTo(n, x)
  <2>1. LeadsTo(x, n)
    BY <1>4, <1>6, LeadsToTheTop DEF n
  <2>2. LeadsTo(n, x)
    BY <1>1, <1>2, <1>4 DEF Connected
  <2>. QED
    BY <2>1, <2>2
<1>10. ASSUME NEW x \in c PROVE c = Class(x)
  <2>1. ASSUME NEW m \in c PROVE m \in Class(x)
    BY <1>3, <1>4, <1>9, LeadsToIs DEF Class
  <2>2. ASSUME NEW m \in Class(x) PROVE m \in c
    <3>1. m \in Nodes /\ LeadsTo(x, m) /\ LeadsTo(m, x)
      BY DEF Class
    <3>2. Taken \subseteq Nodes /\ Taken \in SUBSET Nodes /\ Shut(Taken, {})
      BY <1>1 DEF Parted, Shut, Numbered
    <3>3. Taken \cup c \in SUBSET Nodes /\ Shut(Taken \cup c, {})
      BY <1>1, <1>3, <1>4, <1>8, <3>2 DEF Parted, Shut
    <3>4. m \in Taken \cup c
      BY <1>10, <3>1, <3>3 DEF LeadsTo
    <3>5. m \notin Taken
      <4>1. x \notin Taken
        BY <1>1, <1>4, <1>10 DEF Parted
      <4>. QED
        BY <3>1, <3>2, <4>1 DEF LeadsTo
    <3>. QED
      BY <3>4, <3>5
  <2>. QED
    BY <2>1, <2>2
<1>. QED
  BY <1>5, <1>8, <1>10

LEMMA ReturnKeeps == ASSUME Walked, G!Return, graph' = graph PROVE Walked'
<1>. DEFINE n == G!Top.node
            l == Len(work)
            root == lowlink[n] = indices[n]
            c == {x \in Nodes : On(x) /\ indices[n] <= indices[x]}
<1>1. Numbered /\ Stacked /\ Parted /\ Connected /\ Linked
  BY DEF Walked
<1>2. /\ On(n) /\ l \in DOMAIN work /\ work[l].node = n
      /\ work' \in Seq(Frames) /\ DOMAIN work' = 1..l - 1 /\ \A i \in 1..l - 1 : work'[i] = work[i]
      /\ \A x, y : Looked(x, y)' => Looked(x, y)
      /\ \A i \in 1..l - 1 : work[i].node # n /\ indices[work[i].node] < indices[n]
  BY ReturnIs
<1>3. /\ \A x : On(x) => x \in Nodes /\ x \in Discovered /\ indices[x] \in Nat /\ lowlink[x] \in Nat
      /\ \A i \in DOMAIN work : On(work[i].node)
      /\ DOMAIN work = 1..l /\ l \in Nat
  BY <1>1, NumbersAre
<1>4. /\ indices' = indices /\ lowlink' \in [Discovered -> Nat]
      /\ \A x \in Discovered : \/ lowlink'[x] = lowlink[x]
                               \/ l > 1 /\ x = work[l - 1].node /\ lowlink'[x] = lowlink[n]
      /\ \A x \in Discovered : lowlink'[x] <= lowlink[x]
      /\ l > 1 => lowlink'[work[l - 1].node] <= lowlink[n]
      /\ tarjan' \in Seq(Discovered)
      /\ \A i, j \in DOMAIN tarjan' : i < j => indices[tarjan'[i]] < indices[tarjan'[j]]
      /\ \A x : On(x)' <=> On(x) /\ (root => indices[x] < indices[n])
      /\ components' = IF root THEN components \cup {c} ELSE components
  BY ReturnDoes
<1>5. root => /\ c # {} /\ \A x \in c : G!Targets(x) \subseteq Taken \cup c
              /\ \A x \in c : c = Class(x)
  BY ComponentIs
<1>6. /\ \A x : x \in c <=> On(x) /\ indices[n] <= indices[x]
      /\ Discovered' = Discovered /\ \A x \in Discovered : lowlink[x] \in Nat /\ lowlink'[x] \in Nat
  <2>1. \A x : x \in c <=> On(x) /\ indices[n] <= indices[x]
    BY <1>3
  <2>2. Discovered' = Discovered
    BY <1>4 DEF Discovered
  <2>. HIDE DEF c, n, l, root
  <2>. QED
    BY <1>1, <1>4, <2>1, <2>2 DEF Numbered
<1>. HIDE DEF n, l, root, c
<1>7. \A x : root /\ On(x) => (x \in c <=> ~On(x)')
  BY <1>2, <1>3, <1>4, <1>6
<1>8. ASSUME NEW m PROVE Working(m)' <=> Working(m) /\ m # n
  <2>1. \A i \in DOMAIN work : i = l \/ i \in 1..l - 1
    BY <1>3
  <2>2. \A i \in 1..l - 1 : i \in DOMAIN work
    BY <1>3
  <2>. QED
    BY <1>2, <2>1, <2>2 DEF Working
<1>9. Numbered'
  BY <1>1, <1>4, <1>6 DEF Numbered
<1>10. Stacked'
  <2>1. ASSUME NEW i \in DOMAIN work', NEW m, work'[i].node = m
        PROVE  On(m)' /\ work'[i].next <= Len(G!Outgoing(m)') + 1
    <3>1. i \in DOMAIN work /\ work[i].node = m /\ indices[m] < indices[n] /\ work'[i].next = work[i].next
      BY <1>2, <1>3, <2>1
    <3>2. On(m) /\ work[i].next <= Len(G!Outgoing(m)) + 1
      BY <1>1, <3>1 DEF Stacked
    <3>. QED
      BY <1>4, <3>1, <3>2, GraphStays
  <2>2. ASSUME NEW i \in DOMAIN work', NEW j \in DOMAIN work', i < j
        PROVE  indices'[work'[i].node] < indices'[work'[j].node]
    <3>1. i \in DOMAIN work /\ j \in DOMAIN work /\ work'[i] = work[i] /\ work'[j] = work[j]
      BY <1>2, <1>3
    <3>. QED
      BY <1>1, <1>4, <2>2, <3>1 DEF Stacked
  <2>. QED
    BY <1>2, <1>4, <1>6, <2>1, <2>2 DEF Stacked
<1>11. Parted'
  <2>1. CASE root
    <3>1. components' = components \cup {c} /\ Taken' = Taken \cup c
      BY <1>4, <2>1 DEF Taken
    <3>2. \A x : x \in Discovered' <=> x \in Taken' \/ On(x)'
      BY <1>1, <1>4, <1>6, <1>7, <2>1, <3>1 DEF Parted
    <3>3. ASSUME NEW x \in Taken' PROVE ~On(x)' /\ G!Targets(x)' \subseteq Taken'
      <4>1. G!Targets(x)' = G!Targets(x)
        BY GraphStays
      <4>2. CASE x \in Taken
        BY <1>1, <1>4, <3>1, <4>1, <4>2 DEF Parted
      <4>3. CASE x \in c
        BY <1>5, <1>6, <1>7, <2>1, <3>1, <4>1, <4>3
      <4>. QED
        BY <3>1, <4>2, <4>3
    <3>4. \A d \in components' : d # {} /\ \A m \in d : d = Class(m)'
      BY <1>1, <1>5, <2>1, <3>1, ClassStays DEF Parted
    <3>. QED
      BY <3>2, <3>3, <3>4 DEF Parted
  <2>2. CASE ~root
    <3>1. components' = components /\ Taken' = Taken /\ \A x : On(x)' <=> On(x)
      BY <1>4, <2>2 DEF Taken
    <3>2. \A x \in Taken' : ~On(x)' /\ G!Targets(x)' \subseteq Taken'
      BY <1>1, <3>1, GraphStays DEF Parted
    <3>3. \A d \in components' : d # {} /\ \A m \in d : d = Class(m)'
      BY <1>1, <3>1, ClassStays DEF Parted
    <3>. QED
      BY <1>1, <1>6, <3>1, <3>2, <3>3 DEF Parted
  <2>. QED
    BY <2>1, <2>2
<1>12. Connected'
  <2>1. ASSUME NEW y, On(y)' PROVE \E m : Working(m)' /\ indices[m] <= indices[y] /\ LeadsTo(y, m)
    <3>1. PICK m : Working(m) /\ indices[m] <= indices[y] /\ LeadsTo(y, m)
      BY <1>1, <1>4, <2>1 DEF Connected
    <3>2. CASE m # n
      BY <1>8, <3>1, <3>2
    <3>3. CASE m = n
      <4>1. ~root
        <5>1. indices[y] \in Nat /\ indices[n] \in Nat
          BY <1>2, <1>3, <1>4, <2>1
        <5>. QED
          BY <1>4, <2>1, <3>1, <3>3, <5>1
      <4>2. PICK z : On(z) /\ indices[z] = lowlink[n] /\ LeadsTo(n, z) /\ lowlink[n] <= indices[n]
        BY <1>1, <1>2 DEF Linked
      <4>3. PICK h : Working(h) /\ indices[h] <= indices[z] /\ LeadsTo(z, h)
        BY <1>1, <4>2 DEF Connected
      <4>4. On(h) /\ On(y)
        BY <1>3, <1>4, <2>1, <4>3 DEF Working
      <4>5. indices[h] < indices[n] /\ indices[h] <= indices[y]
        <5>1. /\ indices[h] \in Nat /\ indices[z] \in Nat /\ indices[n] \in Nat /\ indices[y] \in Nat
              /\ indices[z] # indices[n]
          BY <1>2, <1>3, <4>1, <4>2, <4>4 DEF root
        <5>. QED
          BY <3>1, <3>3, <4>2, <4>3, <5>1
      <4>6. Working(h)' /\ LeadsTo(y, h)
        BY <1>2, <1>3, <1>8, <3>1, <3>3, <4>2, <4>3, <4>5, LeadsToIs
      <4>. QED
        BY <4>5, <4>6
    <3>. QED
      BY <3>2, <3>3
  <2>2. \A y : On(y)' => \E m : Working(m)' /\ indices'[m] <= indices'[y] /\ LeadsTo(y, m)'
    BY <1>4, <2>1, LeadsToStays
  <2>3. \A x, y : On(x)' /\ Looked(x, y)' => y \in Discovered'
    BY <1>1, <1>2, <1>4, <1>6 DEF Connected
  <2>4. \A x, y : On(x)' /\ On(y)' /\ indices'[x] <= indices'[y] => LeadsTo(x, y)'
    BY <1>1, <1>4, LeadsToStays DEF Connected
  <2>. QED
    BY <2>2, <2>3, <2>4 DEF Connected
<1>13. Linked'
  <2>1. ASSUME NEW x, On(x)'
        PROVE  lowlink'[x] <= indices[x] /\ \E z : On(z)' /\ indices[z] = lowlink'[x] /\ LeadsTo(x, z)
    <3>1. On(x) /\ x \in Discovered
      BY <1>3, <1>4, <2>1
    <3>2. lowlink[x] <= indices[x] /\ \E z : On(z) /\ indices[z] = lowlink[x] /\ LeadsTo(x, z)
      BY <1>1, <3>1 DEF Linked
    <3>3. lowlink'[x] <= indices[x]
      BY <1>3, <1>4, <1>6, <3>1, <3>2
    <3>4. \E z : On(z) /\ indices[z] = lowlink'[x] /\ LeadsTo(x, z)
      <4>1. CASE lowlink'[x] = lowlink[x]
        BY <3>2, <4>1
      <4>2. CASE l > 1 /\ x = work[l - 1].node /\ lowlink'[x] = lowlink[n]
        <5>1. indices[x] <= indices[n]
          <6>1. l - 1 \in 1..l - 1
            BY <1>3, <4>2
          <6>. QED
            BY <1>2, <1>3, <3>1, <4>2, <6>1
        <5>2. LeadsTo(x, n)
          BY <1>1, <1>2, <3>1, <5>1 DEF Connected
        <5>3. \E z : On(z) /\ indices[z] = lowlink[n] /\ LeadsTo(n, z)
          BY <1>1, <1>2 DEF Linked
        <5>. QED
          BY <4>2, <5>2, <5>3, LeadsToIs
      <4>. QED
        BY <1>4, <3>1, <4>1, <4>2
    <3>5. PICK z : On(z) /\ indices[z] = lowlink'[x] /\ LeadsTo(x, z)
      BY <3>4
    <3>6. On(z)'
      <4>1. root => indices[x] < indices[n]
        BY <1>4, <2>1
      <4>2. indices[z] \in Nat /\ indices[x] \in Nat /\ indices[n] \in Nat
        BY <1>2, <1>3, <3>1, <3>5
      <4>. QED
        BY <1>4, <3>3, <3>5, <4>1, <4>2
    <3>. QED
      BY <3>3, <3>5, <3>6
  <2>2. ASSUME NEW x, NEW y, On(x)', On(y)', Looked(x, y)', NEW i \in DOMAIN work', Governs(i, x)'
        PROVE  lowlink'[work'[i].node] <= indices'[y]
    <3>1. /\ On(x) /\ On(y) /\ Looked(x, y) /\ i \in 1..l - 1 /\ i \in DOMAIN work
          /\ work'[i].node = work[i].node /\ indices'[y] = indices[y] /\ Len(work') = l - 1
      BY <1>2, <1>3, <1>4, <2>2
    <3>2. indices[work[i].node] <= indices[x]
      BY <1>4, <2>2, <3>1 DEF Governs
    <3>3. work[i].node \in Discovered /\ lowlink'[work[i].node] <= lowlink[work[i].node]
      BY <1>3, <1>4, <3>1
    <3>4. /\ lowlink'[work[i].node] \in Nat /\ lowlink[work[i].node] \in Nat /\ lowlink[n] \in Nat
          /\ indices[y] \in Nat /\ indices[x] \in Nat /\ indices[n] \in Nat
      BY <1>2, <1>3, <1>6, <3>1, <3>3
    <3>5. CASE i # l - 1
      <4>1. i + 1 \in 1..l - 1 /\ indices'[x] < indices'[work'[i + 1].node]
        BY <1>3, <2>2, <3>1, <3>5 DEF Governs
      <4>2. Governs(i, x)
        BY <1>2, <1>4, <3>2, <4>1 DEF Governs
      <4>3. lowlink[work[i].node] <= indices[y]
        BY <1>1, <3>1, <4>2 DEF Linked
      <4>. QED
        BY <3>1, <3>3, <3>4, <4>3
    <3>6. CASE i = l - 1 /\ indices[x] < indices[n]
      <4>1. i + 1 = l /\ Len(work) = l
        BY <1>3, <3>6 DEF l
      <4>2. Governs(i, x)
        BY <1>2, <3>2, <3>6, <4>1 DEF Governs
      <4>3. lowlink[work[i].node] <= indices[y]
        BY <1>1, <3>1, <4>2 DEF Linked
      <4>. QED
        BY <3>1, <3>3, <3>4, <4>3
    <3>7. CASE i = l - 1 /\ indices[n] <= indices[x]
      <4>1. Governs(l, x)
        BY <1>2, <3>7 DEF Governs, l
      <4>2. lowlink[n] <= indices[y]
        BY <1>1, <1>2, <3>1, <4>1 DEF Linked
      <4>3. l > 1
        BY <1>3, <3>1, <3>7
      <4>4. lowlink'[work[i].node] <= lowlink[n]
        BY <1>4, <3>7, <4>3
      <4>. QED
        BY <3>1, <3>4, <4>2, <4>4
    <3>. QED
      BY <3>4, <3>5, <3>6, <3>7
  <2>3. \A x : On(x)' => lowlink'[x] <= indices'[x] /\ \E z : On(z)' /\ indices'[z] = lowlink'[x] /\ LeadsTo(x, z)'
    BY <1>4, <2>1, LeadsToStays
  <2>. QED
    BY <2>2, <2>3 DEF Linked
<1>. QED
  BY <1>9, <1>10, <1>11, <1>12, <1>13 DEF Walked

LEMMA WalkedStays ==
  ASSUME Walked, UNCHANGED <<graph, indices, lowlink, work, tarjan, components>> PROVE Walked'
<1>1. /\ Discovered' = Discovered /\ Taken' = Taken /\ \A x : On(x)' <=> On(x)
      /\ \A x : Working(x)' <=> Working(x)
      /\ \A i, x : Governs(i, x)' <=> Governs(i, x)
  BY OnStays DEF Discovered, Taken, Working, Governs
<1>2. \A x, y : Looked(x, y)' <=> Looked(x, y)
  BY GraphStays DEF Looked
<1>3. Numbered' /\ Stacked'
  BY <1>1, GraphStays DEF Walked, Numbered, Stacked
<1>4. Parted'
  BY <1>1, GraphStays, ClassStays DEF Walked, Parted
<1>5. Connected'
  <2>1. \A x, y : On(x)' /\ Looked(x, y)' => y \in Discovered'
    BY <1>1, <1>2 DEF Walked, Connected
  <2>2. \A x, y : On(x)' /\ On(y)' /\ indices'[x] <= indices'[y] => LeadsTo(x, y)'
    BY <1>1, LeadsToStays DEF Walked, Connected
  <2>3. ASSUME NEW y, On(y)' PROVE \E m : Working(m)' /\ indices'[m] <= indices'[y] /\ LeadsTo(y, m)'
    <3>1. PICK m : Working(m) /\ indices[m] <= indices[y] /\ LeadsTo(y, m)
      BY <1>1, <2>3 DEF Walked, Connected
    <3>. QED
      BY <1>1, <3>1, LeadsToStays
  <2>. QED
    BY <2>1, <2>2, <2>3 DEF Connected
<1>6. Linked'
  <2>1. \A x : On(x)' => lowlink'[x] <= indices'[x] /\ \E z : On(z)' /\ indices'[z] = lowlink'[x] /\ LeadsTo(x, z)'
    BY <1>1, LeadsToStays DEF Walked, Linked
  <2>2. ASSUME NEW x, NEW y, On(x)', On(y)', Looked(x, y)', NEW i \in DOMAIN work', Governs(i, x)'
        PROVE  lowlink'[work'[i].node] <= indices'[y]
    <3>1. On(x) /\ On(y) /\ Looked(x, y) /\ i \in DOMAIN work /\ Governs(i, x)
      BY <1>1, <1>2, <2>2
    <3>2. lowlink[work[i].node] <= indices[y]
      BY <3>1 DEF Walked, Linked
    <3>. QED
      BY <3>2
  <2>. QED
    BY <2>1, <2>2 DEF Linked
<1>. QED
  BY <1>3, <1>4, <1>5, <1>6 DEF Walked

LEMMA WalkStarts == ASSUME G!Init PROVE Walked
<1>1. /\ indices = [n \in {} |-> 0] /\ lowlink = indices /\ work = <<>> /\ tarjan = <<>> /\ components = {}
  BY DEF G!Init
<1>2. Discovered = {} /\ Taken = {} /\ ~\E x : On(x)
  BY <1>1 DEF Discovered, Taken, On, Listed
<1>3. Numbered
  BY <1>1, <1>2 DEF Numbered
<1>4. Stacked
  BY <1>1 DEF Stacked
<1>. QED
  BY <1>1, <1>2, <1>3, <1>4 DEF Walked, Parted, Connected, Linked

\* findCycles leaves no node out.
CyclesInv ==
  subject = "graph" => /\ Walked
                       /\ phase \notin {"reach", "cycles"} => work = <<>> /\ Discovered = Nodes

LEMMA CyclesStep ==
  ASSUME CyclesInv, [FlowNext]_<<subject, diff, analysis>>
  PROVE  CyclesInv'
<1>1. SUFFICES ASSUME subject = "graph", subject' = subject
               PROVE  Walked' /\ (phase' \notin {"reach", "cycles"} => work' = <<>> /\ Discovered' = Nodes)
  BY DEF FlowNext, CyclesInv
<1>2. Walked /\ (phase \notin {"reach", "cycles"} => work = <<>> /\ Discovered = Nodes)
  BY <1>1 DEF CyclesInv
<1>3. (G!Next /\ graph' = graph) \/ UNCHANGED analysis
  BY <1>1 DEF FlowNext, G!Next
<1>4. CASE G!Root /\ graph' = graph
  BY <1>2, <1>4, RootKeeps DEF G!Root
<1>5. CASE G!Descend /\ graph' = graph
  BY <1>2, <1>5, DescentKeeps DEF G!Descend
<1>6. CASE G!Seen /\ graph' = graph
  BY <1>2, <1>6, SeenKeeps DEF G!Seen
<1>7. CASE G!Return /\ graph' = graph
  BY <1>2, <1>7, ReturnKeeps DEF G!Return
<1>8. CASE UNCHANGED analysis \/ (G!Next /\ graph' = graph /\ ~(G!Root \/ G!Descend \/ G!Seen \/ G!Return))
  <2>1. UNCHANGED <<graph, indices, lowlink, work, tarjan, components>>
    BY <1>8 DEF G!Next, analysis, G!cycles, G!Reach, G!ReachEnds, G!CyclesEnd, G!Finish, G!Extend, G!AnalyzeFlow
  <2>2. Walked' /\ Discovered' = Discovered
    BY <1>2, <2>1, WalkedStays DEF Discovered
  <2>3. phase' = phase \/ phase' = "cycles" \/ (work = <<>> /\ DOMAIN indices = Nodes) \/ phase = "journeys"
    BY <1>8 DEF G!Next, analysis, G!Reach, G!ReachEnds, G!CyclesEnd, G!Finish, G!Extend, G!AnalyzeFlow
  <2>. QED
    BY <1>2, <2>1, <2>2, <2>3 DEF Discovered
<1>. QED
  BY <1>3, <1>4, <1>5, <1>6, <1>7, <1>8

LEMMA CyclesAlways == FlowSpec => []CyclesInv
<1>1. FlowInit => CyclesInv
  <2>1. ASSUME FlowInit, subject = "graph" PROVE Walked /\ phase = "reach"
    BY <2>1, WalkStarts DEF FlowInit, G!Init
  <2>. QED
    BY <2>1 DEF CyclesInv
<1>. QED
  BY <1>1, CyclesStep, PTL DEF FlowSpec

\* The components that findCycles ends with are the classes of the nodes that lead to each
\* other.
LEMMA ComponentsAreExact ==
  ASSUME Walked, work = <<>>, Discovered = Nodes
  PROVE  components = {{m \in G!From({n}, {}) : n \in G!From({m}, {})} : n \in Nodes}
<1>1. \A n, m \in Nodes : m \in G!From({n}, {}) <=> LeadsTo(n, m)
  BY FromIs DEF LeadsTo
<1>2. \A n \in Nodes : Class(n) = {m \in G!From({n}, {}) : n \in G!From({m}, {})}
  <2>1. \A n : G!From({n}, {}) \subseteq Nodes
    BY FromIs
  <2>. QED
    BY <1>1, <2>1 DEF Class
<1>3. ~\E x : On(x)
  BY DEF Walked, Connected, Working
<1>4. Taken = Nodes
  BY <1>3 DEF Walked, Parted
<1>5. \A c \in components : c # {} /\ c \subseteq Nodes /\ \A n \in c : c = Class(n)
  BY <1>4 DEF Walked, Parted, Taken
<1>6. \A n \in Nodes : \E c \in components : n \in c
  BY <1>4 DEF Taken
<1>7. components = {Class(n) : n \in Nodes}
  BY <1>5, <1>6
<1>. QED
  BY <1>2, <1>7

\* analyzeReachability (reachability.ts) and findCycles (cycles.ts): for every graph, what
\* is reachable is what the entries lead to, and the components are the classes of the
\* nodes that lead to each other, however large the graph is and however its edges lie.
THEOREM WalksAreExact == FlowSpec => []AnalysisIsExact
<1>1. ReachInv /\ CyclesInv => AnalysisIsExact
  <2>. SUFFICES ASSUME ReachInv, CyclesInv, phase = "done"
                PROVE  /\ visited = G!From(G!EntryNodeIds, {})
                       /\ components = {{m \in G!From({n}, {}) : n \in G!From({m}, {})} : n \in Nodes}
    BY DEF AnalysisIsExact, G!AnalysisIsExact
  <2>1. subject = "graph"
    BY DEF ReachInv
  <2>2. Reached /\ Walked /\ work = <<>> /\ Discovered = Nodes
    BY <2>1 DEF ReachInv, CyclesInv
  <2>. QED
    BY <2>2, ReachIsExact, ComponentsAreExact
<1>. QED
  BY <1>1, ReachAlways, CyclesAlways, PTL

-----------------------------------------------------------------------------
(* The journeys *)

LEMMA GraphFlatten == \A ss : G!FlattenSeq(ss) = FlattenSeq(ss)
  BY DEF G!FlattenSeq, FlattenSeq

LEMMA ReversedLists ==
  ASSUME NEW X, NEW s \in Seq(X)
  PROVE  G!Reverse(s) \in Seq(X) /\ \A x : Listed(G!Reverse(s), x) <=> Listed(s, x)
<1>. DEFINE l == Len(s)
            r == G!Reverse(s)
<1>1. l \in Nat /\ DOMAIN s = 1..l /\ r = [i \in 1..l |-> s[l - i + 1]]
  BY DEF G!Reverse
<1>. HIDE DEF l, r
<1>2. \A i \in 1..l : l - i + 1 \in 1..l /\ l - (l - i + 1) + 1 = i
  BY <1>1
<1>3. \A i \in 1..l : r[i] = s[l - i + 1] /\ r[l - i + 1] = s[i] /\ r[i] \in X
  BY <1>1, <1>2
<1>4. r \in Seq(X) /\ DOMAIN r = 1..l
  BY <1>1, <1>3
<1>5. ASSUME NEW x PROVE Listed(r, x) <=> Listed(s, x)
  <2>1. ASSUME Listed(r, x) PROVE Listed(s, x)
    <3>1. PICK i \in 1..l : r[i] = x
      BY <1>4, <2>1 DEF Listed
    <3>. QED
      BY <1>1, <1>2, <1>3, <3>1 DEF Listed
  <2>2. ASSUME Listed(s, x) PROVE Listed(r, x)
    <3>1. PICK i \in 1..l : s[i] = x
      BY <1>1, <2>2 DEF Listed
    <3>. QED
      BY <1>2, <1>3, <1>4, <3>1 DEF Listed
  <2>. QED
    BY <2>1, <2>2
<1>. QED
  BY <1>4, <1>5 DEF r

\* The last of a list, and what is before it.
LEMMA Popped ==
  ASSUME NEW X, NEW s \in Seq(X), s # <<>>
  PROVE  /\ G!Last(s) \in X /\ Listed(s, G!Last(s)) /\ G!Front(s) \in Seq(X)
         /\ \A x : Listed(s, x) <=> Listed(G!Front(s), x) \/ x = G!Last(s)
<1>. DEFINE l == Len(s)
            f == G!Front(s)
<1>1. l \in Nat \ {0} /\ DOMAIN s = 1..l /\ l \in DOMAIN s /\ G!Last(s) = s[l]
  BY EmptySeq DEF G!Last
<1>2. f \in Seq(X) /\ DOMAIN f = 1..l - 1 /\ \A i \in 1..l - 1 : f[i] = s[i] /\ i \in DOMAIN s
  <2>1. f = SubSeq(s, 1, l - 1)
    BY DEF G!Front
  <2>. HIDE DEF f, l
  <2>. QED
    BY <1>1, <2>1, SubSeqProperties
<1>. HIDE DEF l, f
<1>3. \A i \in DOMAIN s : i \in DOMAIN f \/ i = l
  BY <1>1, <1>2
<1>4. \A x : Listed(s, x) <=> Listed(f, x) \/ x = G!Last(s)
  BY <1>1, <1>2, <1>3 DEF Listed
<1>. QED
  BY <1>1, <1>2, <1>4 DEF f, Listed

\* Of edges that are taken until a growing set is full, the first ones are.
LEMMA FirstOnes ==
  ASSUME NEW J, NEW n \in Nat, NEW f, \A k \in 0..n : IsFiniteSet(J \cup f[k]),
         \A i, k \in 0..n : i <= k => f[i] \subseteq f[k]
  PROVE  \E m \in 0..n : /\ {k \in 1..n : ~G!Full(J \cup f[k - 1])} = 1..m
                         /\ m # n => G!Full(J \cup f[m])
<1>. DEFINE full(k) == G!Full(J \cup f[k])
            T == {k \in 0..n : k = n \/ full(k)}
<1>1. ASSUME NEW i \in 0..n, NEW k \in 0..n, i <= k, full(i) PROVE full(k)
  <2>1. J \cup f[i] \in SUBSET (J \cup f[k])
    BY <1>1
  <2>2. Cardinality(J \cup f[i]) <= Cardinality(J \cup f[k])
    BY <2>1, FS_Subset
  <2>3. Cardinality(J \cup f[i]) \in Nat /\ Cardinality(J \cup f[k]) \in Nat /\ MaxJourneys \in Nat
    BY FS_CardinalityType, FlowAssumption
  <2>4. Cardinality(J \cup f[i]) >= MaxJourneys
    BY <1>1, GraphCardinality DEF G!Full
  <2>. QED
    BY <2>2, <2>3, <2>4, GraphCardinality DEF G!Full
<1>. HIDE DEF full
<1>2. T \subseteq Nat /\ n \in T
  OBVIOUS
<1>3. PICK m \in T : \A k \in T : m <= k
  BY <1>2, Least
<1>4. m \in 0..n /\ (m # n => full(m))
  OBVIOUS
<1>5. ASSUME NEW k \in 1..n PROVE ~full(k - 1) <=> k \in 1..m
  <2>1. k - 1 \in 0..n
    OBVIOUS
  <2>2. CASE full(k - 1)
    <3>1. m <= k - 1
      BY <1>3, <2>1, <2>2
    <3>. QED
      BY <1>4, <2>2, <3>1
  <2>3. CASE ~full(k - 1)
    <3>1. ASSUME m <= k - 1 PROVE FALSE
      <4>1. m # n
        BY <3>1
      <4>. QED
        BY <1>1, <1>4, <2>1, <2>3, <3>1, <4>1
    <3>. QED
      BY <1>4, <2>3, <3>1
  <2>. QED
    BY <2>2, <2>3
<1>6. {k \in 1..n : ~full(k - 1)} = 1..m
  <2>1. \A k \in 1..m : k \in 1..n
    BY <1>4
  <2>. QED
    BY <1>5, <2>1
<1>. QED
  BY <1>4, <1>6 DEF full

\* The kind of journey that a path ends as.
LEMMA TerminalIs ==
  ASSUME NEW p, G!Last(p) \in Nodes
  PROVE  /\ G!Terminal(p) \in {"transfer", "disconnect", "truncated", "dead-end", "none"}
         /\ G!Terminal(p) \in {"transfer", "disconnect"} <=> G!Last(p) \in G!Exits
         /\ G!Terminal(p) = "truncated" => Len(p) - 1 >= graph.maxDepth
         /\ G!Terminal(p) = "dead-end" => G!Targets(G!Last(p)) = {}
         /\ G!Terminal(p) = "none" => G!Targets(G!Last(p)) # {}
<1>. DEFINE n == G!Last(p)
<1>1. G!Terminal(p) = IF G!IsTransferNode(graph.type[n]) THEN "transfer"
                      ELSE IF G!IsDisconnectNode(graph.type[n]) THEN "disconnect"
                      ELSE IF Len(p) - 1 >= graph.maxDepth THEN "truncated"
                      ELSE IF G!Targets(n) = {} THEN "dead-end" ELSE "none"
  BY DEF G!Terminal
<1>2. G!IsTransferNode(graph.type[n]) <=> graph.type[n] = "TransferPureMatchAction"
  BY DEF G!IsTransferNode, G!Transfers, G!Intra
<1>3. G!IsDisconnectNode(graph.type[n]) <=> graph.type[n] = "DisconnectAction"
  BY DEF G!IsDisconnectNode
<1>4. n \in G!Exits <=> graph.type[n] \in {"TransferPureMatchAction", "DisconnectAction"}
  BY DEF G!Exits
<1>. HIDE DEF n
<1>. QED
  BY <1>1, <1>2, <1>3, <1>4 DEF n

\* A call can get to the node without being handed off.
Gets(n) == n \in Nodes /\ \A c \in SUBSET Nodes : G!EntryNodeIds \subseteq c /\ Shut(c, G!Exits) => n \in c
Way(p) ==
  /\ p \in Seq(Nodes) /\ p # <<>> /\ Head(p) \in G!EntryNodeIds /\ G!IsInjective(p)
  /\ \A i \in 1..Len(p) - 1 : p[i] \notin G!Exits /\ p[i + 1] \in G!Targets(p[i])
  /\ \A n : Listed(p, n) => Gets(n)
\* The node is on a journey, or on a path that the walk has still to go on with.
Covered(n) == \/ \E j \in journeys : Listed(j.steps, n)
              \/ \E p : Listed(stack, p) /\ Listed(p, n)
Pending(n) == \E p : Listed(stack, p) /\ G!Last(p) = n
CutShort == G!Full(journeys) \/ \E j \in journeys : j.terminalKind = "truncated"
Told ==
  /\ graph.maxDepth \in Nat /\ stack \in Seq(Seq(Nodes)) /\ IsFiniteSet(journeys)
  /\ \A p : Listed(stack, p) => Way(p)
  /\ \A j \in journeys : Way(j.steps) /\ G!Honest(j)
  /\ phase \in {"reach", "cycles"} => journeys = {}
  /\ phase \notin {"reach", "cycles"} /\ ~CutShort =>
       /\ \A n \in G!EntryNodeIds : Covered(n)
       /\ \A n : Covered(n) /\ n \notin G!Exits => Pending(n) \/ \A m \in G!Targets(n) : Covered(m)
  /\ phase = "done" => stack = <<>> \/ G!Full(journeys)
ToldInv == subject = "graph" => Told

LEMMA WayStays == ASSUME graph' = graph PROVE \A p : Way(p)' <=> Way(p)
<1>1. \A n : Gets(n)' <=> Gets(n)
  BY GraphStays DEF Gets
<1>. QED
  BY <1>1, GraphStays DEF Way

LEMMA HonestStays == ASSUME graph' = graph PROVE \A j : G!Honest(j)' <=> G!Honest(j)
  BY GraphStays DEF G!Honest

\* The end of a way.
LEMMA WayEnds ==
  ASSUME NEW p, Way(p)
  PROVE  /\ Len(p) \in Nat \ {0} /\ G!Last(p) = p[Len(p)] /\ G!Last(p) \in Nodes /\ Gets(G!Last(p)) /\ Listed(p, G!Last(p))
<1>1. p \in Seq(Nodes) /\ p # <<>>
  BY DEF Way
<1>2. Len(p) \in Nat \ {0} /\ Len(p) \in DOMAIN p /\ p[Len(p)] \in Nodes
  BY <1>1, EmptySeq
<1>3. G!Last(p) = p[Len(p)]
  BY DEF G!Last
<1>4. Listed(p, p[Len(p)])
  BY <1>2 DEF Listed
<1>. QED
  BY <1>2, <1>3, <1>4 DEF Way

\* Every way that ends is told as what it is.
LEMMA EndIsHonest ==
  ASSUME NEW p, Way(p), G!Terminal(p) # "none", graph.maxDepth \in Nat, NEW d
  PROVE  G!Honest(G!Journey(p, d, G!Terminal(p)))
<1>. DEFINE j == G!Journey(p, d, G!Terminal(p))
            n == G!Last(p)
            k == G!Terminal(p)
<1>1. j.steps = p /\ j.terminalKind = k /\ j.detail = d
  BY DEF G!Journey
<1>2. n \in Nodes /\ Len(p) \in Nat
  BY WayEnds
<1>3. k \in {"transfer", "disconnect", "truncated", "dead-end"}
  BY <1>2, TerminalIs
<1>4. /\ k \in {"transfer", "disconnect"} <=> n \in G!Exits
      /\ k = "truncated" => Len(p) - 1 >= graph.maxDepth
      /\ k = "dead-end" => G!Targets(n) = {}
  BY <1>2, TerminalIs
<1>. HIDE DEF j, n, k
<1>5. /\ Head(j.steps) \in G!EntryNodeIds /\ G!IsInjective(j.steps)
      /\ \A i \in 1..Len(j.steps) - 1 : j.steps[i] \notin G!Exits /\ j.steps[i + 1] \in G!Targets(j.steps[i])
  BY <1>1 DEF Way
<1>6. G!Last(j.steps) = n
  BY <1>1 DEF n
<1>7. ASSUME k \in {"transfer", "disconnect"} PROVE G!Honest(j)
  <2>1. j.terminalKind \notin {"loop", "dead-end", "truncated"} /\ G!Last(j.steps) \in G!Exits
    BY <1>1, <1>4, <1>6, <1>7
  <2>. QED
    BY <1>5, <2>1 DEF G!Honest
<1>8. ASSUME k = "truncated" PROVE G!Honest(j)
  <2>1. Len(j.steps) > graph.maxDepth
    BY <1>1, <1>2, <1>4, <1>8
  <2>2. j.terminalKind = "truncated" /\ G!Last(j.steps) \notin G!Exits
    BY <1>1, <1>4, <1>6, <1>8
  <2>. QED
    BY <1>5, <2>1, <2>2 DEF G!Honest
<1>9. ASSUME k = "dead-end" PROVE G!Honest(j)
  <2>1. j.terminalKind = "dead-end" /\ G!Last(j.steps) \notin G!Exits /\ G!Targets(G!Last(j.steps)) = {}
    BY <1>1, <1>4, <1>6, <1>9
  <2>. QED
    BY <1>5, <2>1 DEF G!Honest
<1>. QED
  BY <1>3, <1>7, <1>8, <1>9 DEF j, k

LEMMA LoopIsHonest ==
  ASSUME NEW p, Way(p), NEW m \in G!Targets(G!Last(p)), G!Contains(p, m)
  PROVE  G!Honest(G!Journey(p, m, "loop"))
<1>. DEFINE j == G!Journey(p, m, "loop")
<1>1. j.steps = p /\ j.terminalKind = "loop" /\ j.detail = m
  BY DEF G!Journey
<1>. HIDE DEF j
<1>2. /\ Head(j.steps) \in G!EntryNodeIds /\ G!IsInjective(j.steps)
      /\ \A i \in 1..Len(j.steps) - 1 : j.steps[i] \notin G!Exits /\ j.steps[i + 1] \in G!Targets(j.steps[i])
  BY <1>1 DEF Way
<1>3. G!Honest(j)
  BY <1>1, <1>2 DEF G!Honest
<1>. QED
  BY <1>3 DEF j

\* A path that ends is a journey.
LEMMA FinishTells == ASSUME Told, phase \notin {"reach", "cycles"}, G!Finish, graph' = graph PROVE Told'
<1>. DEFINE p == G!Last(stack)
            rest == G!Front(stack)
            j == G!Journey(p, Missing, G!Terminal(p))
<1>1. /\ stack # <<>> /\ G!Terminal(p) # "none" /\ journeys' = journeys \cup {j} /\ stack' = rest /\ phase' = phase
      /\ phase = "journeys" /\ ~G!Full(journeys)
  BY DEF G!Finish
<1>2. /\ rest \in Seq(Seq(Nodes)) /\ p \in Seq(Nodes) /\ Listed(stack, p)
      /\ \A q : Listed(stack, q) <=> Listed(rest, q) \/ q = p
  BY <1>1, Popped DEF Told
<1>3. Way(p)
  BY <1>2 DEF Told
<1>4. G!Honest(j) /\ j.steps = p /\ j.terminalKind = G!Terminal(p)
  <2>1. G!Honest(j)
    BY <1>1, <1>3, EndIsHonest DEF Told
  <2>. QED
    BY <2>1 DEF G!Journey
<1>5. G!Last(p) \in Nodes
  BY <1>3, WayEnds
<1>6. /\ G!Terminal(p) \in {"transfer", "disconnect", "truncated", "dead-end"}
      /\ G!Terminal(p) \in {"transfer", "disconnect"} => G!Last(p) \in G!Exits
      /\ G!Terminal(p) = "dead-end" => G!Targets(G!Last(p)) = {}
  BY <1>1, <1>5, TerminalIs
<1>. HIDE DEF p, rest, j
<1>7. IsFiniteSet(journeys') /\ stack' \in Seq(Seq(Nodes))
  BY <1>1, <1>2, Few DEF Told
<1>8. /\ \A q : Listed(stack', q) => Way(q)'
      /\ \A h \in journeys' : Way(h.steps)' /\ G!Honest(h)'
  BY <1>1, <1>2, <1>3, <1>4, WayStays, HonestStays DEF Told
<1>9. \A n : Covered(n) => Covered(n)'
  <2>1. ASSUME NEW n, NEW h \in journeys, Listed(h.steps, n) PROVE Covered(n)'
    BY <1>1, <2>1 DEF Covered
  <2>2. ASSUME NEW n, NEW q, Listed(stack, q), Listed(q, n) PROVE Covered(n)'
    BY <1>1, <1>2, <1>4, <2>2 DEF Covered
  <2>. QED
    BY <2>1, <2>2 DEF Covered
<1>10. \A n : Covered(n)' => Covered(n)
  BY <1>1, <1>2, <1>4 DEF Covered
<1>11. CutShort => CutShort'
  <2>1. ASSUME G!Full(journeys) PROVE FALSE
    BY <1>1, <2>1
  <2>. QED
    BY <1>1, <2>1 DEF CutShort
<1>12. ASSUME ~CutShort', NEW n, Covered(n)', n \notin G!Exits
       PROVE  Pending(n)' \/ \A m \in G!Targets(n) : Covered(m)'
  <2>1. Pending(n) \/ \A m \in G!Targets(n) : Covered(m)
    BY <1>1, <1>10, <1>11, <1>12 DEF Told
  <2>2. CASE \A m \in G!Targets(n) : Covered(m)
    BY <1>9, <2>2
  <2>3. CASE Pending(n)
    <3>1. PICK q : Listed(stack, q) /\ G!Last(q) = n
      BY <2>3 DEF Pending
    <3>2. CASE Listed(rest, q)
      BY <1>1, <3>1, <3>2 DEF Pending
    <3>3. CASE q = p
      <4>1. j.terminalKind # "truncated"
        BY <1>1, <1>12 DEF CutShort
      <4>. QED
        BY <1>4, <1>6, <1>12, <3>1, <3>3, <4>1
    <3>. QED
      BY <1>2, <3>1, <3>2, <3>3
  <2>. QED
    BY <2>1, <2>2, <2>3
<1>13. ~CutShort' => \A n \in G!EntryNodeIds : Covered(n)'
  BY <1>1, <1>9, <1>11 DEF Told
<1>14. graph'.maxDepth \in Nat /\ phase' = "journeys"
  BY <1>1 DEF Told
<1>. QED
  BY <1>7, <1>8, <1>12, <1>13, <1>14, GraphStays DEF Told

\* The edges of the end of a path as the walk takes them, and what it makes of the first k.
Out(p) == G!Reverse(G!Outgoing(G!Last(p)))
Back(p, i) == G!Contains(p, Out(p)[i])
Loops(p, k) == {G!Journey(p, Out(p)[i], "loop") : i \in {j \in 1..k : Back(p, j)}}
Further(p, i) == IF Back(p, i) THEN <<>> ELSE <<Append(p, Out(p)[i])>>
Longer(p, k, q) == \E i \in 1..k : ~Back(p, i) /\ q = Append(p, Out(p)[i])

LEMMA OutIs ==
  ASSUME NEW p
  PROVE  /\ Out(p) \in Seq(G!Targets(G!Last(p))) /\ Len(Out(p)) \in Nat /\ DOMAIN Out(p) = 1..Len(Out(p))
         /\ \A x \in G!Targets(G!Last(p)) : \E i \in 1..Len(Out(p)) : Out(p)[i] = x
         /\ \A i \in 1..Len(Out(p)) : Out(p)[i] \in G!Targets(G!Last(p)) /\ Out(p)[i] \in Nodes
<1>1. /\ Out(p) \in Seq(G!Targets(G!Last(p)))
      /\ \A x : Listed(Out(p), x) <=> Listed(G!Outgoing(G!Last(p)), x)
  BY OutgoingIs, ReversedLists DEF Out
<1>2. \A x \in G!Targets(G!Last(p)) : Listed(Out(p), x)
  BY <1>1, OutgoingIs
<1>3. Len(Out(p)) \in Nat /\ DOMAIN Out(p) = 1..Len(Out(p))
  BY <1>1
<1>4. \A i \in DOMAIN Out(p) : Out(p)[i] \in G!Targets(G!Last(p))
  BY <1>1
<1>5. G!Targets(G!Last(p)) \subseteq Nodes
  BY OutgoingIs
<1>. QED
  BY <1>1, <1>2, <1>3, <1>4, <1>5 DEF Listed

LEMMA LoopsAreFew == ASSUME NEW p, NEW k \in Nat PROVE IsFiniteSet(Loops(p, k))
<1>. DEFINE backs == {j \in 1..k : Back(p, j)}
            g == [i \in backs |-> G!Journey(p, Out(p)[i], "loop")]
<1>1. IsFiniteSet(backs)
  BY FS_Interval, Few
<1>2. Loops(p, k) = {g[i] : i \in backs}
  BY DEF Loops
<1>. HIDE DEF backs, g
<1>. QED
  BY <1>1, <1>2, ImageIsFinite

\* Edges are taken last first, until the journeys are full.
LEMMA ExtendDoes ==
  ASSUME Told, G!Extend, NEW p, p = G!Last(stack)
  PROVE  \E m \in 0..Len(Out(p)) :
           /\ journeys' = journeys \cup Loops(p, m) /\ IsFiniteSet(journeys')
           /\ stack' \in Seq(Seq(Nodes))
           /\ \A q : Listed(stack', q) <=> Listed(G!Front(stack), q) \/ Longer(p, m, q)
           /\ m # Len(Out(p)) => G!Full(journeys')
<1>. DEFINE n == Len(Out(p))
            f == [k \in 0..n |-> Loops(p, k)]
            full(k) == G!Full(journeys \cup Loops(p, k - 1))
            taken == {k \in 1..n : ~full(k)}
<1>1. n \in Nat /\ DOMAIN Out(p) = 1..n
  BY OutIs
<1>2. /\ journeys' = journeys \cup Loops(p, G!Cardinality(taken))
      /\ stack' = G!Front(stack) \o G!FlattenSeq([i \in taken |-> Further(p, i)])
  <2>1. /\ journeys' = journeys \cup Loops(p, G!Cardinality({k \in DOMAIN Out(p) : ~full(k)}))
        /\ stack' = G!Front(stack) \o G!FlattenSeq([i \in {k \in DOMAIN Out(p) : ~full(k)} |-> Further(p, i)])
    BY DEF G!Extend, Loops, Back, Out, Further
  <2>. QED
    BY <1>1, <2>1
<1>3. PICK m \in 0..n : taken = 1..m /\ (m # n => G!Full(journeys \cup Loops(p, m)))
  <2>. HIDE DEF n
  <2>1. \A k \in 0..n : IsFiniteSet(journeys \cup f[k])
    BY <1>1, LoopsAreFew, Few DEF Told
  <2>2. \A i, k \in 0..n : i <= k => f[i] \subseteq f[k]
    <3>1. ASSUME NEW i \in 0..n, NEW k \in 0..n, i <= k PROVE Loops(p, i) \subseteq Loops(p, k)
      <4>1. \A j \in 1..i : j \in 1..k
        BY <1>1, <3>1
      <4>. QED
        BY <4>1 DEF Loops
    <3>. QED
      BY <3>1
  <2>3. \A k \in 1..n : f[k - 1] = Loops(p, k - 1)
    <3>1. \A k \in 1..n : k - 1 \in 0..n
      BY <1>1
    <3>. QED
      BY <3>1
  <2>4. \A k \in 0..n : f[k] = Loops(p, k)
    OBVIOUS
  <2>. HIDE DEF f
  <2>5. PICK m \in 0..n : /\ {k \in 1..n : ~G!Full(journeys \cup f[k - 1])} = 1..m
                          /\ m # n => G!Full(journeys \cup f[m])
    BY <1>1, <2>1, <2>2, FirstOnes
  <2>6. {k \in 1..n : ~G!Full(journeys \cup f[k - 1])} = taken
    BY <2>3
  <2>. QED
    BY <2>4, <2>5, <2>6
<1>4. m \in Nat /\ m \in 0..n /\ \A i \in 1..m : i \in 1..n
  BY <1>1
<1>. HIDE DEF n
<1>5. G!Cardinality(taken) = m
  <2>1. Cardinality(1..m) = m
    BY <1>4, FS_Interval
  <2>. QED
    BY <1>3, <2>1, GraphCardinality
<1>. HIDE DEF taken
<1>. DEFINE ss == [i \in 1..m |-> Further(p, i)]
<1>6. journeys' = journeys \cup Loops(p, m) /\ stack' = G!Front(stack) \o FlattenSeq(ss)
  BY <1>2, <1>3, <1>5, GraphFlatten
<1>7. stack \in Seq(Seq(Nodes)) /\ stack # <<>> /\ p \in Seq(Nodes) /\ G!Front(stack) \in Seq(Seq(Nodes))
  <2>1. stack \in Seq(Seq(Nodes)) /\ stack # <<>>
    BY DEF Told, G!Extend
  <2>. QED
    BY <2>1, Popped
<1>8. \A i \in 1..m : Further(p, i) \in Seq(Seq(Nodes))
  <2>1. SUFFICES ASSUME NEW i \in 1..m PROVE Further(p, i) \in Seq(Seq(Nodes))
    OBVIOUS
  <2>2. Append(p, Out(p)[i]) \in Seq(Nodes)
    <3>1. Out(p)[i] \in Nodes
      BY <1>4, OutIs DEF n
    <3>. QED
      BY <1>7, <3>1, AppendProperties
  <2>. QED
    BY <2>2 DEF Further
<1>9. ss \in Seq(Seq(Seq(Nodes))) /\ DOMAIN ss = 1..m /\ \A i \in 1..m : ss[i] = Further(p, i)
  BY <1>4, <1>8
<1>. HIDE DEF ss
<1>10. /\ FlattenSeq(ss) \in Seq(Seq(Nodes))
       /\ \A q : Listed(FlattenSeq(ss), q) <=> \E i \in DOMAIN ss : Listed(ss[i], q)
  BY <1>9, FlattenLists
<1>11. \A q : Listed(FlattenSeq(ss), q) <=> Longer(p, m, q)
  <2>1. \A i, q : Listed(Further(p, i), q) <=> ~Back(p, i) /\ q = Append(p, Out(p)[i])
    <3>1. \A e, q : (Listed(<<e>>, q) <=> q = e) /\ ~Listed(<<>>, q)
      BY DEF Listed
    <3>. QED
      BY <3>1 DEF Further
  <2>2. ASSUME NEW q PROVE Listed(FlattenSeq(ss), q) <=> \E i \in 1..m : Listed(Further(p, i), q)
    BY <1>9, <1>10
  <2>. QED
    BY <2>1, <2>2 DEF Longer
<1>12. stack' \in Seq(Seq(Nodes)) /\ \A q : Listed(stack', q) <=> Listed(G!Front(stack), q) \/ Longer(p, m, q)
  BY <1>6, <1>7, <1>10, <1>11, Concatenated
<1>13. IsFiniteSet(journeys')
  BY <1>4, <1>6, LoopsAreFew, Few DEF Told
<1>14. m # Len(Out(p)) => G!Full(journeys')
  BY <1>3, <1>6 DEF n
<1>. QED
  BY <1>4, <1>6, <1>12, <1>13, <1>14 DEF n

\* A way that goes on along an edge.
LEMMA WayGoesOn ==
  ASSUME NEW p, Way(p), NEW x \in G!Targets(G!Last(p)), G!Last(p) \notin G!Exits, ~G!Contains(p, x)
  PROVE  /\ Way(Append(p, x)) /\ G!Last(Append(p, x)) = x
         /\ \A n : Listed(Append(p, x), n) <=> Listed(p, n) \/ n = x
<1>. DEFINE l == Len(p)
            q == Append(p, x)
<1>1. l \in Nat \ {0} /\ DOMAIN p = 1..l /\ p \in Seq(Nodes) /\ G!Last(p) = p[l] /\ Gets(p[l]) /\ x \in Nodes
  BY WayEnds, OutgoingIs DEF Way
<1>2. /\ q \in Seq(Nodes) /\ Len(q) = l + 1 /\ DOMAIN q = 1..l + 1 /\ q[l + 1] = x
      /\ \A i \in 1..l : q[i] = p[i]
  BY <1>1, AppendProperties
<1>3. /\ \A i, j \in 1..l : p[i] = p[j] => i = j
      /\ \A i \in 1..l - 1 : p[i] \notin G!Exits /\ p[i + 1] \in G!Targets(p[i])
      /\ Head(p) \in G!EntryNodeIds
      /\ \A i \in 1..l : p[i] # x
  BY <1>1 DEF Way, G!IsInjective, G!Contains
<1>4. Gets(x)
  <2>1. x \in Nodes /\ Gets(p[l]) /\ p[l] \notin G!Exits /\ x \in G!Targets(p[l])
    BY <1>1
  <2>. HIDE DEF l
  <2>. QED
    BY <2>1 DEF Gets, Shut
<1>. HIDE DEF l, q
<1>5. \A i \in 1..l + 1 : i \in 1..l \/ i = l + 1
  BY <1>1
<1>6. \A n : Listed(q, n) <=> Listed(p, n) \/ n = x
  <2>1. \A i \in 1..l : i \in 1..l + 1
    BY <1>1
  <2>2. l + 1 \in 1..l + 1
    BY <1>1
  <2>. QED
    BY <1>1, <1>2, <1>5, <2>1, <2>2 DEF Listed
<1>7. G!IsInjective(q)
  <2>1. \A i, j \in 1..l + 1 : q[i] = q[j] => i = j
    BY <1>2, <1>3, <1>5
  <2>. QED
    BY <1>2, <2>1 DEF G!IsInjective
<1>8. q # <<>> /\ Head(q) \in G!EntryNodeIds
  <2>1. Head(p) = p[1] /\ 1 \in 1..l /\ Head(q) = q[1] /\ q # <<>>
    BY <1>1, <1>2
  <2>. QED
    BY <1>2, <1>3, <2>1
<1>9. \A i \in 1..Len(q) - 1 : q[i] \notin G!Exits /\ q[i + 1] \in G!Targets(q[i])
  <2>1. SUFFICES ASSUME NEW i \in 1..l PROVE q[i] \notin G!Exits /\ q[i + 1] \in G!Targets(q[i])
    BY <1>1, <1>2
  <2>2. CASE i = l
    BY <1>1, <1>2, <2>2
  <2>3. CASE i # l
    <3>1. i \in 1..l - 1 /\ i + 1 \in 1..l
      BY <1>1, <2>3
    <3>. QED
      BY <1>2, <1>3, <3>1
  <2>. QED
    BY <2>2, <2>3
<1>10. \A n : Listed(q, n) => Gets(n)
  BY <1>4, <1>6 DEF Way
<1>11. G!Last(q) = x
  BY <1>2 DEF G!Last
<1>. QED
  BY <1>2, <1>6, <1>7, <1>8, <1>9, <1>10, <1>11 DEF Way, q

\* A path that goes on gives way to longer ones and to the loops at its end.
LEMMA ExtendTells == ASSUME Told, phase \notin {"reach", "cycles"}, G!Extend, graph' = graph PROVE Told'
<1>. DEFINE p == G!Last(stack)
            rest == G!Front(stack)
            e == G!Last(p)
            n == Len(Out(p))
<1>1. stack # <<>> /\ G!Terminal(p) = "none" /\ phase' = phase /\ phase = "journeys" /\ ~G!Full(journeys)
  BY DEF G!Extend
<1>2. PICK m \in 0..n :
        /\ journeys' = journeys \cup Loops(p, m) /\ IsFiniteSet(journeys') /\ stack' \in Seq(Seq(Nodes))
        /\ \A q : Listed(stack', q) <=> Listed(rest, q) \/ Longer(p, m, q)
        /\ m # n => G!Full(journeys')
  BY ExtendDoes
<1>3. Listed(stack, p) /\ \A q : Listed(stack, q) <=> Listed(rest, q) \/ q = p
  BY <1>1, Popped DEF Told
<1>4. Way(p) /\ e \in Nodes /\ Listed(p, e)
  BY <1>3, WayEnds DEF Told
<1>5. e \notin G!Exits /\ G!Targets(e) # {}
  BY <1>1, <1>4, TerminalIs
<1>6. /\ n \in Nat /\ \A x \in G!Targets(e) : \E i \in 1..n : Out(p)[i] = x
      /\ \A i \in 1..n : Out(p)[i] \in G!Targets(e)
  BY OutIs
<1>7. \A i \in 1..m : i \in 1..n
  BY <1>6
<1>. HIDE DEF p, rest, n, e
<1>8. ASSUME NEW i \in 1..m, ~Back(p, i)
      PROVE  /\ Way(Append(p, Out(p)[i])) /\ G!Last(Append(p, Out(p)[i])) = Out(p)[i]
             /\ \A x : Listed(Append(p, Out(p)[i]), x) <=> Listed(p, x) \/ x = Out(p)[i]
  BY <1>4, <1>5, <1>6, <1>7, <1>8, WayGoesOn DEF Back, e
<1>9. \A j \in Loops(p, m) : \E i \in 1..m : Back(p, i) /\ j = G!Journey(p, Out(p)[i], "loop")
  BY DEF Loops
<1>10. \A i \in 1..m : Back(p, i) => G!Journey(p, Out(p)[i], "loop") \in journeys'
  BY <1>2 DEF Loops
<1>11. \A x : G!Journey(p, x, "loop").steps = p
  BY DEF G!Journey
<1>12. \A q : Listed(stack', q) => Way(q)'
  <2>1. ASSUME NEW q, Listed(stack', q) PROVE Way(q)
    <3>1. CASE Listed(rest, q)
      BY <1>3, <3>1 DEF Told
    <3>2. CASE Longer(p, m, q)
      BY <1>8, <3>2 DEF Longer
    <3>. QED
      BY <1>2, <2>1, <3>1, <3>2
  <2>. QED
    BY <2>1, WayStays
<1>13. \A j \in journeys' : Way(j.steps)' /\ G!Honest(j)'
  <2>1. ASSUME NEW j \in Loops(p, m) PROVE Way(j.steps) /\ G!Honest(j)
    <3>1. PICK i \in 1..m : Back(p, i) /\ j = G!Journey(p, Out(p)[i], "loop")
      BY <1>9
    <3>2. Out(p)[i] \in G!Targets(G!Last(p)) /\ G!Contains(p, Out(p)[i])
      BY <1>6, <1>7, <3>1 DEF Back, e
    <3>3. G!Honest(G!Journey(p, Out(p)[i], "loop"))
      BY <1>4, <3>2, LoopIsHonest
    <3>. QED
      BY <1>4, <1>11, <3>1, <3>3
  <2>2. \A j \in journeys' : Way(j.steps) /\ G!Honest(j)
    BY <1>2, <2>1 DEF Told
  <2>3. ASSUME NEW j \in journeys' PROVE Way(j.steps)'
    BY <2>2, WayStays
  <2>. QED
    BY <2>2, <2>3, HonestStays
<1>14. ASSUME NEW x, Covered(x)' PROVE Covered(x) \/ (Pending(x)' /\ x \in G!Targets(e))
  <2>2. CASE \E j \in journeys' : Listed(j.steps, x)
    <3>1. PICK j \in journeys' : Listed(j.steps, x)
      BY <2>2
    <3>2. CASE j \in journeys
      BY <3>1, <3>2 DEF Covered
    <3>3. CASE j \in Loops(p, m)
      <4>1. j.steps = p
        BY <1>9, <1>11, <3>3
      <4>. QED
        BY <1>3, <3>1, <4>1 DEF Covered
    <3>. QED
      BY <1>2, <3>1, <3>2, <3>3
  <2>3. CASE \E q : Listed(stack', q) /\ Listed(q, x)
    <3>1. PICK q : Listed(stack', q) /\ Listed(q, x)
      BY <2>3
    <3>2. CASE Listed(rest, q)
      BY <1>3, <3>1, <3>2 DEF Covered
    <3>3. CASE Longer(p, m, q)
      <4>1. PICK i \in 1..m : ~Back(p, i) /\ q = Append(p, Out(p)[i])
        BY <3>3 DEF Longer
      <4>2. CASE Listed(p, x)
        BY <1>3, <4>2 DEF Covered
      <4>3. CASE x = Out(p)[i]
        BY <1>6, <1>7, <1>8, <3>1, <4>1, <4>3 DEF Pending
      <4>. QED
        BY <1>8, <3>1, <4>1, <4>2, <4>3
    <3>. QED
      BY <1>2, <3>1, <3>2, <3>3
  <2>. QED
    BY <1>14, <2>2, <2>3 DEF Covered
<1>15. ASSUME m = n, NEW i \in 1..n, NEW z, z = Out(p)[i]
       PROVE  Covered(z)' /\ \A x : Listed(p, x) => Covered(x)'
  <2>1. i \in 1..m
    BY <1>15
  <2>2. CASE Back(p, i)
    <3>1. G!Journey(p, Out(p)[i], "loop") \in journeys'
      BY <1>10, <2>1, <2>2
    <3>2. Listed(p, z)
      BY <1>4, <1>15, <2>2 DEF Back, G!Contains, Listed, Way
    <3>3. \A x : Listed(p, x) => \E j \in journeys' : Listed(j.steps, x)
      BY <1>11, <3>1
    <3>. QED
      BY <3>2, <3>3 DEF Covered
  <2>3. CASE ~Back(p, i)
    <3>. DEFINE q == Append(p, Out(p)[i])
    <3>1. Listed(stack', q)
      BY <1>2, <2>1, <2>3 DEF Longer
    <3>2. Listed(q, z) /\ \A x : Listed(p, x) => Listed(q, x)
      BY <1>8, <1>15, <2>1, <2>3
    <3>. HIDE DEF q
    <3>3. \A x : Listed(q, x) => Covered(x)'
      BY <3>1 DEF Covered
    <3>. QED
      BY <3>2, <3>3
  <2>. QED
    BY <2>2, <2>3
<1>16. CutShort => CutShort'
  BY <1>1, <1>2 DEF CutShort
<1>17. ~CutShort' => m = n
  BY <1>2 DEF CutShort
<1>18. ASSUME m = n PROVE (\A x \in G!Targets(e) : Covered(x)') /\ \A x : Covered(x) => Covered(x)'
  <2>1. \A x \in G!Targets(e) : Covered(x)'
    BY <1>6, <1>15, <1>18
  <2>2. \A x : Listed(p, x) => Covered(x)'
    BY <1>5, <1>6, <1>15, <1>18
  <2>3. ASSUME NEW x, NEW j \in journeys, Listed(j.steps, x) PROVE Covered(x)'
    BY <1>2, <2>3 DEF Covered
  <2>4. ASSUME NEW x, NEW q, Listed(stack, q), Listed(q, x) PROVE Covered(x)'
    <3>1. CASE q = p
      BY <2>2, <2>4, <3>1
    <3>2. CASE Listed(rest, q)
      BY <1>2, <2>4, <3>2 DEF Covered
    <3>. QED
      BY <1>3, <2>4, <3>1, <3>2
  <2>. QED
    BY <2>1, <2>3, <2>4 DEF Covered
<1>19. ASSUME ~CutShort', NEW x, Covered(x)', x \notin G!Exits
       PROVE  Pending(x)' \/ \A y \in G!Targets(x) : Covered(y)'
  <2>1. m = n
    BY <1>17, <1>19
  <2>2. CASE Covered(x)
    <3>1. Pending(x) \/ \A y \in G!Targets(x) : Covered(y)
      BY <1>1, <1>16, <1>19, <2>2 DEF Told
    <3>2. CASE \A y \in G!Targets(x) : Covered(y)
      BY <1>18, <2>1, <3>2
    <3>3. CASE Pending(x)
      <4>1. PICK q : Listed(stack, q) /\ G!Last(q) = x
        BY <3>3 DEF Pending
      <4>2. CASE q = p
        BY <1>18, <2>1, <4>1, <4>2 DEF e
      <4>3. CASE Listed(rest, q)
        BY <1>2, <4>1, <4>3 DEF Pending
      <4>. QED
        BY <1>3, <4>1, <4>2, <4>3
    <3>. QED
      BY <3>1, <3>2, <3>3
  <2>3. CASE ~Covered(x)
    BY <1>14, <1>19, <2>3
  <2>. QED
    BY <2>2, <2>3
<1>20. ~CutShort' => \A x \in G!EntryNodeIds : Covered(x)'
  BY <1>1, <1>16, <1>17, <1>18 DEF Told
<1>21. graph'.maxDepth \in Nat /\ phase' = "journeys"
  BY <1>1 DEF Told
<1>. QED
  BY <1>2, <1>12, <1>13, <1>19, <1>20, <1>21, GraphStays DEF Told

\* The walk starts at each of the entries.
LEMMA JourneysStart == ASSUME Told, G!CyclesEnd, graph' = graph PROVE Told'
<1>. DEFINE es == G!InOrder(G!EntryNodeIds)
            ps == [i \in 1..Len(es) |-> <<es[i]>>]
<1>1. /\ phase = "cycles" /\ phase' = "journeys" /\ journeys' = journeys
      /\ stack' = G!Reverse([i \in 1..G!Cardinality(G!EntryNodeIds) |-> <<es[i]>>])
  BY DEF G!CyclesEnd, G!walk
<1>2. /\ es \in Seq(G!EntryNodeIds) /\ \A x : Listed(es, x) <=> x \in G!EntryNodeIds
      /\ G!EntryNodeIds \subseteq Nodes /\ Len(es) = G!Cardinality(G!EntryNodeIds)
  BY EntriesAre, RankedIs, GraphCardinality
<1>3. stack' = G!Reverse(ps) /\ journeys' = {}
  BY <1>1, <1>2 DEF Told
<1>. HIDE DEF es
<1>4. Len(es) \in Nat /\ DOMAIN es = 1..Len(es) /\ \A i \in 1..Len(es) : es[i] \in G!EntryNodeIds /\ es[i] \in Nodes
  BY <1>2
<1>5. ps \in Seq(Seq(Nodes)) /\ \A q : Listed(ps, q) <=> \E x \in G!EntryNodeIds : q = <<x>>
  <2>1. \A i \in 1..Len(es) : <<es[i]>> \in Seq(Nodes)
    BY <1>4
  <2>2. ps \in Seq(Seq(Nodes)) /\ DOMAIN ps = 1..Len(es) /\ \A i \in 1..Len(es) : ps[i] = <<es[i]>>
    BY <1>4, <2>1
  <2>. HIDE DEF ps
  <2>3. \A x \in G!EntryNodeIds : \E i \in 1..Len(es) : es[i] = x
    BY <1>2, <1>4 DEF Listed
  <2>. QED
    BY <1>4, <2>2, <2>3 DEF Listed
<1>. HIDE DEF ps
<1>6. stack' \in Seq(Seq(Nodes)) /\ \A q : Listed(stack', q) <=> \E x \in G!EntryNodeIds : q = <<x>>
  BY <1>3, <1>5, ReversedLists
<1>7. ASSUME NEW x \in G!EntryNodeIds
      PROVE  Way(<<x>>) /\ G!Last(<<x>>) = x /\ \A y : Listed(<<x>>, y) <=> y = x
  <2>1. \A y : Listed(<<x>>, y) <=> y = x
    BY DEF Listed
  <2>2. Gets(x)
    BY <1>2 DEF Gets
  <2>3. <<x>> \in Seq(Nodes) /\ <<x>> # <<>> /\ Head(<<x>>) = x /\ Len(<<x>>) = 1 /\ G!Last(<<x>>) = x
    BY <1>2 DEF G!Last
  <2>4. G!IsInjective(<<x>>)
    BY DEF G!IsInjective
  <2>. QED
    BY <2>1, <2>2, <2>3, <2>4 DEF Way
<1>8. \A q : Listed(stack', q) => Way(q)'
  BY <1>6, <1>7, WayStays
<1>9. \A x : Covered(x)' <=> x \in G!EntryNodeIds
  <2>1. ASSUME NEW x, x \in G!EntryNodeIds PROVE Covered(x)'
    BY <1>6, <1>7, <2>1 DEF Covered
  <2>2. ASSUME NEW x, Covered(x)' PROVE x \in G!EntryNodeIds
    <3>1. PICK q : Listed(stack', q) /\ Listed(q, x)
      BY <1>3, <2>2 DEF Covered
    <3>2. PICK y \in G!EntryNodeIds : q = <<y>>
      BY <1>6, <3>1
    <3>. QED
      BY <1>7, <3>1, <3>2
  <2>. QED
    BY <2>1, <2>2
<1>10. \A x \in G!EntryNodeIds : Pending(x)'
  BY <1>6, <1>7 DEF Pending
<1>11. graph'.maxDepth \in Nat /\ IsFiniteSet(journeys')
  BY <1>3, Few DEF Told
<1>. QED
  BY <1>1, <1>3, <1>6, <1>8, <1>9, <1>10, <1>11, GraphStays DEF Told

LEMMA ToldStays ==
  ASSUME Told, UNCHANGED <<graph, stack, journeys>>,
         \/ phase' = phase
         \/ phase = "reach" /\ phase' = "cycles"
         \/ phase = "journeys" /\ phase' = "done" /\ (stack = <<>> \/ G!Full(journeys))
  PROVE  Told'
<1>1. (\A n : Covered(n)' <=> Covered(n)) /\ (\A n : Pending(n)' <=> Pending(n)) /\ (CutShort' <=> CutShort)
  BY DEF Covered, Pending, CutShort
<1>2. /\ \A p : Listed(stack', p) => Way(p)'
      /\ \A j \in journeys' : Way(j.steps)' /\ G!Honest(j)'
  <2>1. \A p : Listed(stack', p) => Way(p)'
    BY WayStays DEF Told
  <2>2. ASSUME NEW j \in journeys' PROVE Way(j.steps)'
    BY <2>2, WayStays DEF Told
  <2>. QED
    BY <2>1, <2>2, HonestStays DEF Told
<1>3. /\ phase' \in {"reach", "cycles"} => phase \in {"reach", "cycles"}
      /\ phase' \notin {"reach", "cycles"} => phase \notin {"reach", "cycles"}
      /\ phase' = "done" => phase = "done" \/ stack = <<>> \/ G!Full(journeys)
  OBVIOUS
<1>4. phase' \notin {"reach", "cycles"} /\ ~CutShort' =>
        /\ \A n \in G!EntryNodeIds' : Covered(n)'
        /\ \A n : Covered(n)' /\ n \notin G!Exits' => Pending(n)' \/ \A m \in G!Targets(n)' : Covered(m)'
  BY <1>1, <1>3, GraphStays DEF Told
<1>. QED
  BY <1>2, <1>3, <1>4 DEF Told

LEMMA ToldStep ==
  ASSUME ReachInv, ToldInv, [FlowNext]_<<subject, diff, analysis>>
  PROVE  ToldInv'
<1>1. SUFFICES ASSUME subject = "graph", subject' = subject PROVE Told'
  BY DEF FlowNext, ToldInv
<1>2. Told
  BY <1>1 DEF ToldInv
<1>3. (G!Next /\ graph' = graph) \/ UNCHANGED analysis
  BY <1>1 DEF FlowNext, G!Next
<1>4. CASE G!Finish /\ graph' = graph
  BY <1>2, <1>4, FinishTells DEF G!Finish
<1>5. CASE G!Extend /\ graph' = graph
  BY <1>2, <1>5, ExtendTells DEF G!Extend
<1>6. CASE G!CyclesEnd /\ graph' = graph
  BY <1>2, <1>6, JourneysStart
<1>7. CASE UNCHANGED analysis \/ (G!Next /\ graph' = graph /\ ~(G!Finish \/ G!Extend \/ G!CyclesEnd))
  <2>1. UNCHANGED <<graph, stack, journeys>>
    BY <1>7 DEF G!Next, analysis, G!walk, G!Reach, G!ReachEnds, G!Root, G!Descend, G!Seen, G!Return, G!AnalyzeFlow
  <2>2. \/ phase' = phase
        \/ phase = "reach" /\ phase' = "cycles"
        \/ phase = "journeys" /\ phase' = "done" /\ (stack = <<>> \/ G!Full(journeys))
    BY <1>7 DEF G!Next, analysis, G!Reach, G!ReachEnds, G!Root, G!Descend, G!Seen, G!Return, G!AnalyzeFlow
  <2>. QED
    BY <1>2, <2>1, <2>2, ToldStays
<1>. QED
  BY <1>3, <1>4, <1>5, <1>6, <1>7

LEMMA ToldAlways == FlowSpec => []ToldInv
<1>1. ASSUME FlowInit, subject = "graph" PROVE Told
  <2>1. /\ stack = <<>> /\ journeys = {} /\ phase = "reach" /\ graph.maxDepth \in Depths
    <3>1. G!Init
      BY <1>1 DEF FlowInit
    <3>. QED
      BY <3>1 DEF G!Init
  <2>2. graph.maxDepth \in Nat
    BY <2>1, FlowAssumption
  <2>. QED
    BY <2>1, <2>2, Few DEF Told, Listed
<1>2. FlowInit => ToldInv
  BY <1>1 DEF ToldInv
<1>3. ReachInv /\ ToldInv /\ [FlowNext]_<<subject, diff, analysis>> => ToldInv'
  BY ToldStep
<1>. QED
  BY <1>2, <1>3, ReachAlways, PTL DEF FlowSpec

\* What the journeys cover when nothing cut them short is what a call can get to.
LEMMA JourneysCover ==
  ASSUME Told, phase = "done", ~CutShort
  PROVE  UNION {G!ToSet(j.steps) : j \in journeys} = G!From(G!EntryNodeIds, G!Exits)
<1>. DEFINE u == UNION {G!ToSet(j.steps) : j \in journeys}
<1>1. stack = <<>>
  BY DEF Told, CutShort
<1>2. \A n : n \in u <=> \E j \in journeys : Listed(j.steps, n)
  BY DEF G!ToSet, Listed
<1>3. (\A n : n \in u <=> Covered(n)) /\ ~\E n : Pending(n)
  <2>1. ~\E p : Listed(stack, p)
    BY <1>1 DEF Listed
  <2>. QED
    BY <1>2, <2>1 DEF Covered, Pending
<1>4. \A n \in u : Gets(n)
  BY <1>2 DEF Told, Way
<1>. HIDE DEF u
<1>5. G!EntryNodeIds \subseteq u /\ Shut(u, G!Exits)
  BY <1>3 DEF Told, Shut
<1>6. \A n : n \in u <=> Gets(n)
  BY <1>4, <1>5 DEF Gets
<1>7. G!From(G!EntryNodeIds, G!Exits) = u
  BY <1>6, FromIs DEF Gets
<1>. QED
  BY <1>7 DEF u

\* extractJourneys (journeys.ts): for every graph and every limit, a journey is a way a call
\* can go, told as what it is; and unless the number or the length of the journeys was cut,
\* none of the nodes that a call can get to without being handed off is missing from them.
THEOREM NoJourneyIsMadeUp == FlowSpec => []JourneysAreHonest
<1>1. ReachInv /\ ToldInv => JourneysAreHonest
  <2>. SUFFICES ASSUME ReachInv, ToldInv, phase = "done"
                PROVE  /\ \A j \in journeys : G!Honest(j)
                       /\ ~G!Full(journeys) /\ (\A j \in journeys : j.terminalKind # "truncated")
                            => UNION {G!ToSet(j.steps) : j \in journeys} = G!From(G!EntryNodeIds, G!Exits)
    BY DEF JourneysAreHonest, G!JourneysAreHonest
  <2>1. Told
    BY DEF ReachInv, ToldInv
  <2>2. ~G!Full(journeys) /\ (\A j \in journeys : j.terminalKind # "truncated") => ~CutShort
    BY DEF CutShort
  <2>. QED
    BY <2>1, <2>2, JourneysCover DEF Told
<1>. QED
  BY <1>1, ReachAlways, ToldAlways, PTL
=============================================================================
