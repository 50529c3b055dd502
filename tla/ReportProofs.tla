----------------------------- MODULE ReportProofs ----------------------------
(***************************************************************************)
(* What a run tells its caller and asks of a human: each column of an item *)
(* is resolved once, an escalation is filed once, and outcomes are lost    *)
(* with the report of the run that resolved them only.  All rest on the    *)
(* order in which load_bundle comes across the columns: iter_columns, a    *)
(* concatenation whose length nobody fixes.                                *)
(***************************************************************************)
EXTENDS LinkProofs, WellFoundedInduction

(***************************************************************************)
(* Flattening.                                                             *)
(***************************************************************************)
\* A non-empty set of numbers has a least element: what a proof about all the
\* positions of a sequence needs in place of induction.
LEMMA LeastElement ==
    ASSUME NEW T \in SUBSET Nat, T # {}
    PROVE  \E n \in T : \A m \in T : n <= m
<1>1. PICK n \in T : \A m \in T : ~(<<m, n>> \in OpToRel(<, Nat))
  BY NatLessThanWellFounded, WFMin
<1>2. \A m \in T : ~(m < n)
  BY <1>1 DEF OpToRel
<1>3. QED BY <1>2

\* f[i] is the concatenation of the first i sequences of s.
Running(f, s, n) ==
    \A i \in 1..n : f[i] = IF i = 1 THEN s[i] ELSE f[i - 1] \o s[i]

\* One more.
LEMMA RunningExtends ==
    ASSUME NEW S, NEW s \in Seq(Seq(S)), NEW n \in 1..Len(s),
           NEW f \in [1..(n - 1) -> Seq(S)], Running(f, s, n - 1)
    PROVE  \E g \in [1..n -> Seq(S)] : Running(g, s, n)
<1> DEFINE last == IF n = 1 THEN s[n] ELSE f[n - 1] \o s[n]
           g == [i \in 1..n |-> IF i < n THEN f[i] ELSE last]
<1>1. n \in Nat /\ n >= 1
  OBVIOUS
<1>2. last \in Seq(S)
  <2>1. s[n] \in Seq(S)
    OBVIOUS
  <2>2. CASE n = 1
    BY <2>1, <2>2
  <2>3. CASE n # 1
    <3>1. n - 1 \in 1..(n - 1)
      BY <1>1, <2>3
    <3>2. f[n - 1] \in Seq(S)
      BY <3>1
    <3>3. f[n - 1] \o s[n] \in Seq(S)
      BY <2>1, <3>2
    <3>4. QED BY <2>3, <3>3
  <2>4. QED BY <2>2, <2>3
<1> HIDE DEF last
<1>3. g \in [1..n -> Seq(S)]
  <2>1. \A i \in 1..n : i < n => f[i] \in Seq(S)
    BY <1>1
  <2>2. QED BY <1>2, <2>1
<1>4. ASSUME NEW i \in 1..n PROVE g[i] = IF i = 1 THEN s[i] ELSE g[i - 1] \o s[i]
  <2>1. CASE i < n
    <3>1. i \in 1..(n - 1) /\ g[i] = f[i]
      BY <1>1, <2>1
    <3>2. i # 1 => g[i - 1] = f[i - 1]
      BY <1>1, <2>1
    <3>3. f[i] = IF i = 1 THEN s[i] ELSE f[i - 1] \o s[i]
      BY <3>1 DEF Running
    <3>4. QED BY <3>1, <3>2, <3>3
  <2>2. CASE i = n
    <3>1. g[i] = last
      BY <1>1, <2>2
    <3>2. n # 1 => g[n - 1] = f[n - 1]
      BY <1>1
    <3>3. QED BY <2>2, <3>1, <3>2 DEF last
  <2>3. QED BY <1>1, <2>1, <2>2
<1>5. Running(g, s, n)
  BY <1>4 DEF Running
<1>6. QED BY <1>3, <1>5

\* All of them: for each sequence of sequences there is such an f ...
LEMMA RunningExists ==
    ASSUME NEW S, NEW s \in Seq(Seq(S))
    PROVE  \E f \in [1..Len(s) -> Seq(S)] : Running(f, s, Len(s))
<1> DEFINE Reached(n) == \E f \in [1..n -> Seq(S)] : Running(f, s, n)
           T == {n \in 0..Len(s) : ~Reached(n)}
<1>1. Len(s) \in Nat
  OBVIOUS
<1>2. Reached(0)
  <2>1. PICK f : f = [i \in 1..0 |-> <<>>]
    OBVIOUS
  <2>2. f \in [1..0 -> Seq(S)] /\ Running(f, s, 0)
    BY <2>1 DEF Running
  <2>3. QED BY <2>2
<1>3. ASSUME NEW n \in 1..Len(s), Reached(n - 1) PROVE Reached(n)
  BY <1>3, RunningExtends
<1> HIDE DEF Reached
<1>4. ASSUME T # {} PROVE FALSE
  <2>1. T \in SUBSET Nat
    BY <1>1
  <2>2. PICK n \in T : \A m \in T : n <= m
    BY <1>4, <2>1, LeastElement
  <2>3. n \in 1..Len(s) /\ n - 1 \in 0..Len(s) /\ ~(n <= n - 1)
    BY <1>1, <1>2
  <2>4. Reached(n - 1)
    BY <2>2, <2>3
  <2>5. QED BY <1>3, <2>3, <2>4
<1>5. Reached(Len(s))
  BY <1>1, <1>4
<1>6. QED BY <1>5 DEF Reached

\* ... and only one.
LEMMA RunningUnique ==
    ASSUME NEW s, NEW n \in Nat, NEW f, NEW g, Running(f, s, n), Running(g, s, n)
    PROVE  \A i \in 1..n : f[i] = g[i]
<1> DEFINE T == {i \in 1..n : f[i] # g[i]}
<1>1. ASSUME T # {} PROVE FALSE
  <2>1. T \in SUBSET Nat
    OBVIOUS
  <2>2. PICK i \in T : \A j \in T : i <= j
    BY <1>1, <2>1, LeastElement
  <2>3. i \in 1..n /\ f[i] # g[i]
    OBVIOUS
  <2>4. i # 1 => f[i - 1] = g[i - 1]
    <3>1. ASSUME i # 1 PROVE i - 1 \in 1..n /\ ~(i <= i - 1)
      BY <2>3, <3>1
    <3>2. QED BY <2>2, <3>1
  <2>5. f[i] = IF i = 1 THEN s[i] ELSE f[i - 1] \o s[i]
    BY <2>3 DEF Running
  <2>6. g[i] = IF i = 1 THEN s[i] ELSE g[i - 1] \o s[i]
    BY <2>3 DEF Running
  <2>7. QED BY <2>3, <2>4, <2>5, <2>6
<1>2. QED BY <1>1

\* FlattenSeq is the last of them.
LEMMA FlattenLast ==
    ASSUME NEW S, NEW s \in Seq(Seq(S)), s # <<>>,
           NEW f \in [1..Len(s) -> Seq(S)], Running(f, s, Len(s))
    PROVE  FlattenSeq(s) = f[Len(s)]
<1> DEFINE Def(g) == [i \in 1..Len(s) |-> IF i = 1 THEN s[i] ELSE g[i - 1] \o s[i]]
           h == CHOOSE g : g = Def(g)
<1>1. Len(s) \in Nat /\ Len(s) # 0
  OBVIOUS
<1>2. FlattenSeq(s) = h[Len(s)]
  BY <1>1 DEF FlattenSeq
<1>3. f = Def(f)
  BY DEF Running
<1>4. h = Def(h)
  BY <1>3
<1>5. Running(h, s, Len(s))
  BY <1>4 DEF Running
<1>6. QED BY <1>1, <1>2, <1>5, RunningUnique

\* What is flattened is a sequence of the same elements.
LEMMA FlattenTyped ==
    ASSUME NEW S, NEW s \in Seq(Seq(S))
    PROVE  FlattenSeq(s) \in Seq(S)
<1>1. CASE s = <<>>
  BY <1>1 DEF FlattenSeq
<1>2. CASE s # <<>>
  <2>1. PICK f \in [1..Len(s) -> Seq(S)] : Running(f, s, Len(s))
    BY RunningExists
  <2>2. FlattenSeq(s) = f[Len(s)]
    BY <1>2, <2>1, FlattenLast
  <2>3. Len(s) \in 1..Len(s)
    BY <1>2
  <2>4. QED BY <2>2, <2>3
<1>3. QED BY <1>1, <1>2

\* One sequence more adds its elements at the end.
LEMMA FlattenAppend ==
    ASSUME NEW S, NEW s \in Seq(Seq(S)), NEW t \in Seq(S)
    PROVE  FlattenSeq(Append(s, t)) = FlattenSeq(s) \o t
<1>1. PICK u : u = Append(s, t)
  OBVIOUS
<1>2. PICK n \in Nat : n = Len(s)
  OBVIOUS
<1>3. u \in Seq(Seq(S)) /\ Len(u) = n + 1 /\ u # <<>> /\ u[n + 1] = t
  <2>1. Append(s, t) \in Seq(Seq(S))
    OBVIOUS
  <2>2. QED BY <1>1, <1>2, <2>1
<1>4. \A i \in 1..n : u[i] = s[i]
  BY <1>1, <1>2
<1>5. PICK f \in [1..(n + 1) -> Seq(S)] : Running(f, u, n + 1)
  BY <1>3, RunningExists
<1>6. FlattenSeq(u) = f[n + 1]
  BY <1>3, <1>5, FlattenLast
<1>7. \A i \in 1..(n + 1) : f[i] = IF i = 1 THEN u[i] ELSE f[i - 1] \o u[i]
  BY <1>5 DEF Running
<1>8. CASE n = 0
  <2>1. s = <<>>
    <3>1. \A T : \A z \in Seq(T) : Len(z) = 0 => z = <<>>
      OBVIOUS
    <3>2. QED BY <1>2, <1>8, <3>1
  <2>2. FlattenSeq(s) = <<>>
    BY <1>2, <1>8, <2>1 DEF FlattenSeq
  <2>3. f[1] = t
    BY <1>3, <1>7, <1>8
  <2>4. <<>> \o t = t
    OBVIOUS
  <2>5. QED BY <1>1, <1>6, <1>8, <2>2, <2>3, <2>4
<1>9. CASE n > 0
  <2>1. f[n + 1] = f[n] \o t
    <3>1. n + 1 \in 1..(n + 1) /\ n + 1 # 1 /\ (n + 1) - 1 = n
      BY <1>9
    <3>2. f[n + 1] = f[(n + 1) - 1] \o u[n + 1]
      BY <1>7, <3>1
    <3>3. QED BY <1>3, <3>1, <3>2
  <2>2. PICK g : g = [i \in 1..n |-> f[i]]
    OBVIOUS
  <2>3. g \in [1..n -> Seq(S)]
    BY <2>2
  <2>4. Running(g, s, n)
    <3>1. ASSUME NEW i \in 1..n PROVE g[i] = IF i = 1 THEN s[i] ELSE g[i - 1] \o s[i]
      <4>1. f[i] = IF i = 1 THEN u[i] ELSE f[i - 1] \o u[i]
        <5>1. i \in 1..(n + 1)
          OBVIOUS
        <5>2. QED BY <1>7, <5>1, Zenon
      <4>2. g[i] = f[i] /\ u[i] = s[i] /\ (i # 1 => g[i - 1] = f[i - 1])
        BY <1>4, <2>2
      <4>3. QED BY <4>1, <4>2
    <3>2. QED BY <3>1 DEF Running
  <2>5. s # <<>>
    BY <1>2, <1>9
  <2>6. FlattenSeq(s) = g[n]
    BY <1>2, <2>3, <2>4, <2>5, FlattenLast
  <2>7. g[n] = f[n]
    BY <1>9, <2>2
  <2>8. QED BY <1>1, <1>6, <2>1, <2>6, <2>7
<1>10. QED BY <1>8, <1>9

(***************************************************************************)
(* The order of a load.                                                    *)
(***************************************************************************)
\* obs is what s has after its first n elements.
EndOf(obs, s, n) ==
    /\ n + Len(obs) = Len(s)
    /\ \A i \in 1..Len(obs) : obs[i] = s[n + i]

\* The first n elements of s are those of t.
SameStart(s, t, n) == \A i \in 1..n : t[i] = s[i]

\* It still is when both grow by t.
LEMMA EndGrows ==
    ASSUME NEW S, NEW old \in Seq(S), NEW obs \in Seq(S), NEW t \in Seq(S), NEW n \in Nat,
           EndOf(obs, old, n)
    PROVE  /\ EndOf(obs \o t, old \o t, n)
           /\ SameStart(old, old \o t, n)
           /\ obs # <<>> => obs \o t # <<>> /\ Head(obs \o t) = Head(obs)
<1>1. PICK p \in Nat : p = Len(obs)
  OBVIOUS
<1>2. PICK q \in Nat : q = Len(t)
  OBVIOUS
<1>3. Len(old) = n + p
  BY <1>1 DEF EndOf
<1>4. /\ Len(obs \o t) = p + q
      /\ Len(old \o t) = (n + p) + q
  BY <1>1, <1>2, <1>3
<1>5. /\ \A i \in 1..(p + q) : (obs \o t)[i] = IF i <= p THEN obs[i] ELSE t[i - p]
      /\ \A i \in 1..((n + p) + q) :
            (old \o t)[i] = IF i <= n + p THEN old[i] ELSE t[i - (n + p)]
  <2>1. \A a \in Seq(S) : \A i \in 1..(Len(a) + Len(t)) :
           (a \o t)[i] = IF i <= Len(a) THEN a[i] ELSE t[i - Len(a)]
    OBVIOUS
  <2>2. \A i \in 1..(Len(obs) + Len(t)) :
           (obs \o t)[i] = IF i <= Len(obs) THEN obs[i] ELSE t[i - Len(obs)]
    BY <2>1
  <2>3. \A i \in 1..(Len(old) + Len(t)) :
           (old \o t)[i] = IF i <= Len(old) THEN old[i] ELSE t[i - Len(old)]
    BY <2>1
  <2>4. QED BY <1>1, <1>2, <1>3, <2>2, <2>3, Zenon
<1>6. \A i \in 1..n : (old \o t)[i] = old[i]
  <2>1. \A i \in 1..n : i \in 1..((n + p) + q) /\ i <= n + p
    OBVIOUS
  <2>2. QED BY <1>5, <2>1
<1>7. ASSUME NEW i \in 1..(p + q) PROVE (obs \o t)[i] = (old \o t)[n + i]
  <2>1. n + i \in 1..((n + p) + q)
    OBVIOUS
  <2>2. CASE i <= p
    <3>1. i \in 1..p /\ n + i <= n + p
      BY <2>2
    <3>2. (obs \o t)[i] = obs[i] /\ (old \o t)[n + i] = old[n + i]
      BY <1>5, <2>1, <2>2, <3>1
    <3>3. obs[i] = old[n + i]
      BY <1>1, <3>1, Zenon DEF EndOf
    <3>4. QED BY <3>2, <3>3
  <2>3. CASE i > p
    <3>1. ~(i <= p) /\ ~(n + i <= n + p) /\ (n + i) - (n + p) = i - p
      BY <2>3
    <3>2. QED BY <1>5, <2>1, <3>1
  <2>4. i <= p \/ i > p
    OBVIOUS
  <2>5. QED BY <2>2, <2>3, <2>4, Zenon
<1>8. ASSUME obs # <<>> PROVE obs \o t # <<>> /\ Head(obs \o t) = Head(obs)
  BY <1>8
<1>9. n + (p + q) = (n + p) + q
  OBVIOUS
<1>10. QED BY <1>4, <1>6, <1>7, <1>8, <1>9 DEF EndOf, SameStart

\* It still is when its first element is passed.
LEMMA EndShrinks ==
    ASSUME NEW S, NEW old \in Seq(S), NEW obs \in Seq(S), NEW n \in Nat, obs # <<>>,
           EndOf(obs, old, n)
    PROVE  EndOf(Tail(obs), old, n + 1) /\ Head(obs) = old[n + 1]
<1>1. PICK p \in Nat : p = Len(obs)
  OBVIOUS
<1>2. p > 0 /\ Len(Tail(obs)) = p - 1 /\ Head(obs) = obs[1]
  BY <1>1
<1>3. \A i \in 1..(p - 1) : Tail(obs)[i] = obs[i + 1]
  BY <1>1
<1>4. 1 \in 1..p /\ (n + 1) + (p - 1) = n + p
  BY <1>2
<1>5. ASSUME NEW i \in 1..(p - 1) PROVE Tail(obs)[i] = old[(n + 1) + i]
  <2>1. i + 1 \in 1..p /\ n + (i + 1) = (n + 1) + i
    OBVIOUS
  <2>2. obs[i + 1] = old[n + (i + 1)]
    BY <1>1, <2>1 DEF EndOf
  <2>3. QED BY <1>3, <2>1, <2>2
<1>6. QED BY <1>1, <1>2, <1>4, <1>5 DEF EndOf

\* iter_columns as far as the first k entities.
Visited(b, k) == b.columns \o FlattenSeq([i \in 1..k |-> b.entities[i].columns])

\* What the first entities own is a sequence of sequences of columns.
LEMMA OwnedColumnsTyped ==
    ASSUME NEW b \in ParsedBundle, NEW k \in 0..Len(b.entities)
    PROVE  [i \in 1..k |-> b.entities[i].columns] \in Seq(Seq(Observation))
<1>1. b.entities \in Seq(ObservedEntity)
  BY DEF ParsedBundle
<1>2. k \in Nat /\ \A i \in 1..k : b.entities[i] \in ObservedEntity
  BY <1>1
<1>3. \A i \in 1..k : b.entities[i].columns \in Seq(Observation)
  BY <1>2 DEF ObservedEntity
<1>4. QED BY <1>2, <1>3

\* So are all that have been come across.
LEMMA VisitedTyped ==
    ASSUME NEW b \in ParsedBundle, NEW k \in 0..Len(b.entities)
    PROVE  Visited(b, k) \in Seq(Observation)
<1>1. b.columns \in Seq(Observation)
  BY DEF ParsedBundle
<1>2. FlattenSeq([i \in 1..k |-> b.entities[i].columns]) \in Seq(Observation)
  BY OwnedColumnsTyped, FlattenTyped
<1>3. QED BY <1>1, <1>2 DEF Visited

\* The free-standing columns come first, ...
LEMMA VisitedFirst ==
    ASSUME NEW b \in ParsedBundle
    PROVE  Visited(b, 0) = b.columns
<1>1. b.columns \in Seq(Observation)
  BY DEF ParsedBundle
<1>2. [i \in 1..0 |-> b.entities[i].columns] = <<>>
  OBVIOUS
<1>3. FlattenSeq(<<>>) = <<>>
  BY DEF FlattenSeq
<1>4. QED BY <1>1, <1>2, <1>3 DEF Visited

\* ... then those of one entity after the other, ...
LEMMA VisitedNext ==
    ASSUME NEW b \in ParsedBundle, NEW k \in Nat, k + 1 \in 1..Len(b.entities)
    PROVE  /\ b.entities[k + 1].columns \in Seq(Observation)
           /\ Visited(b, k + 1) = Visited(b, k) \o b.entities[k + 1].columns
<1>1. PICK s : s = [i \in 1..k |-> b.entities[i].columns]
  OBVIOUS
<1>2. PICK u : u = [i \in 1..(k + 1) |-> b.entities[i].columns]
  OBVIOUS
<1>3. PICK t : t = b.entities[k + 1].columns
  OBVIOUS
<1>4. s \in Seq(Seq(Observation)) /\ u \in Seq(Seq(Observation))
  <2>1. k \in 0..Len(b.entities) /\ k + 1 \in 0..Len(b.entities)
    BY DEF ParsedBundle
  <2>2. QED BY <1>1, <1>2, <2>1, OwnedColumnsTyped
<1>5. t \in Seq(Observation)
  <2>1. b.entities[k + 1] \in ObservedEntity
    BY DEF ParsedBundle
  <2>2. QED BY <1>3, <2>1 DEF ObservedEntity
<1>6. u = Append(s, t)
  BY <1>1, <1>2, <1>3
<1>7. FlattenSeq(u) = FlattenSeq(s) \o t
  BY <1>4, <1>5, <1>6, FlattenAppend
<1>8. b.columns \in Seq(Observation) /\ FlattenSeq(s) \in Seq(Observation)
  BY <1>4, FlattenTyped DEF ParsedBundle
<1>9. b.columns \o (FlattenSeq(s) \o t) = (b.columns \o FlattenSeq(s)) \o t
  <2>1. \A x, y, z \in Seq(Observation) : x \o (y \o z) = (x \o y) \o z
    OBVIOUS
  <2>2. QED BY <1>5, <1>8, <2>1
<1>10. QED BY <1>1, <1>2, <1>3, <1>5, <1>7, <1>9 DEF Visited

\* ... and with the last entity that is all of iter_columns.
LEMMA VisitedAll ==
    ASSUME NEW b \in ParsedBundle
    PROVE  Visited(b, Len(b.entities)) = IterColumns(b)
<1>1. DOMAIN b.entities = 1..Len(b.entities)
  BY DEF ParsedBundle
<1>2. QED BY <1>1 DEF Visited, IterColumns

\* The outcomes a load has and the columns it has still to resolve are together
\* the columns it has come across, in order.  Nothing is resolved while relations
\* are left, and the suggester is asked only about a column without a dictionary.
InOrder(l, item) ==
    LET columns == Visited(Bundle[item], Passed(l, Bundle[item]))
        n == Len(l.resolutions)
    IN  /\ EndOf(l.observed, columns, n)
        /\ \A k \in 1..n :
             /\ l.resolutions[k].item = item
             /\ l.resolutions[k].column = columns[k].column
             /\ l.resolutions[k].tier = "ESCALATED" => ~columns[k].has_dictionary
        /\ l.missed => l.observed # <<>> /\ ~Head(l.observed).has_dictionary
        /\ l.relations # <<>> => l.resolutions = <<>>

LoadInOrder == \A c \in Client : pc[c] = "load" => InOrder(load[c], Current(c))

\* A load begins with the free-standing columns before it and nothing resolved.
LEMMA OrderBegins ==
    ASSUME NEW item \in Item
    PROVE  InOrder(NewLoad(Bundle[item]), item)
<1>1. PICK b \in ParsedBundle : b = Bundle[item]
  BY PipelineAssumption
<1>2. PICK l : l = NewLoad(b)
  OBVIOUS
<1>3. /\ l.entities = b.entities /\ l.observed = b.columns /\ l.resolutions = <<>>
      /\ l.missed = FALSE
  BY <1>2 DEF NewLoad
<1>4. b.entities \in Seq(ObservedEntity) /\ b.columns \in Seq(Observation)
  BY DEF ParsedBundle
<1>5. Passed(l, b) = 0
  BY <1>3, <1>4 DEF Passed
<1>6. Visited(b, Passed(l, b)) = b.columns
  BY <1>5, VisitedFirst
<1>7. QED BY <1>1, <1>2, <1>3, <1>4, <1>6 DEF InOrder, EndOf

\* Steps that neither come across a column nor resolve one.
LEMMA OrderFrame ==
    ASSUME NEW item, NEW l, NEW m, InOrder(l, item),
           m.entities = l.entities, m.observed = l.observed, m.missed = l.missed,
           m.resolutions = l.resolutions, m.relations # <<>> => l.relations # <<>>
    PROVE  InOrder(m, item)
BY DEF InOrder, Passed

\* The entity loop adds the entity's columns at the end.
LEMMA OrderEntity ==
    ASSUME NEW item \in Item, NEW l \in Pending, NEW m \in Pending, InOrder(l, item),
           Tracks(l, Bundle[item]), l.entities # <<>>,
           m.entities = Tail(l.entities),
           m.observed = l.observed \o Head(l.entities).columns,
           m.missed = l.missed, m.resolutions = l.resolutions, m.relations = l.relations
    PROVE  InOrder(m, item)
<1>1. PICK b \in ParsedBundle : b = Bundle[item]
  BY PipelineAssumption
<1>2. PICK k \in Nat : k = Passed(l, b)
  BY <1>1 DEF Tracks
<1>3. l.entities \in Seq(ObservedEntity) /\ b.entities \in Seq(ObservedEntity)
  BY DEF Pending, ParsedBundle
<1>4. PICK left \in Nat : left = Len(l.entities)
  BY <1>3
<1>5. PICK all \in Nat : all = Len(b.entities)
  BY <1>3
<1>6. left > 0 /\ Len(Tail(l.entities)) = left - 1 /\ Head(l.entities) = l.entities[1]
  BY <1>3, <1>4
<1>7. k = all - left
  BY <1>2, <1>4, <1>5 DEF Passed
<1>8. Passed(m, b) = k + 1 /\ k + 1 \in 1..all /\ k \in 0..all
  <2>1. Passed(m, b) = all - (left - 1)
    BY <1>5, <1>6 DEF Passed
  <2>2. QED BY <1>6, <1>7, <2>1
<1>9. Head(l.entities) = b.entities[k + 1]
  <2>1. 1 \in 1..Len(l.entities)
    BY <1>4, <1>6
  <2>2. QED BY <1>1, <1>2, <1>6, <2>1 DEF Tracks
<1>10. PICK t \in Seq(Observation) : t = Head(l.entities).columns
  BY <1>5, <1>8, <1>9, VisitedNext
<1>11. PICK old \in Seq(Observation) : old = Visited(b, k)
  BY <1>5, <1>8, VisitedTyped
<1>12. Visited(b, Passed(m, b)) = old \o t
  BY <1>5, <1>8, <1>9, <1>10, <1>11, VisitedNext
<1>13. PICK obs \in Seq(Observation) : obs = l.observed
  BY DEF Pending
<1>14. PICK n \in Nat : n = Len(l.resolutions)
  <2>1. PICK s \in Seq(Outcome) : s = l.resolutions
    BY DEF Pending
  <2>2. Len(s) \in Nat
    OBVIOUS
  <2>3. QED BY <2>1, <2>2
<1>15. /\ EndOf(obs, old, n)
       /\ \A i \in 1..n : /\ l.resolutions[i].item = item
                          /\ l.resolutions[i].column = old[i].column
                          /\ l.resolutions[i].tier = "ESCALATED" => ~old[i].has_dictionary
       /\ l.missed => obs # <<>> /\ ~Head(obs).has_dictionary
       /\ l.relations # <<>> => l.resolutions = <<>>
  BY <1>1, <1>2, <1>11, <1>13, <1>14 DEF InOrder
<1>16. PICK whole : whole = old \o t
  OBVIOUS
<1>17. /\ EndOf(obs \o t, whole, n)
       /\ SameStart(old, whole, n)
       /\ obs # <<>> => obs \o t # <<>> /\ Head(obs \o t) = Head(obs)
  BY <1>15, <1>16, EndGrows
<1>18. m.observed = obs \o t
  BY <1>10, <1>13
<1>19. \A i \in 1..n : /\ m.resolutions[i].item = item
                       /\ m.resolutions[i].column = whole[i].column
                       /\ m.resolutions[i].tier = "ESCALATED" => ~whole[i].has_dictionary
  BY <1>15, <1>17 DEF SameStart
<1>20. QED BY <1>1, <1>12, <1>14, <1>15, <1>16, <1>17, <1>18, <1>19, Zenon DEF InOrder

\* The resolving loop moves one column from one side to the other.
LEMMA OrderResolved ==
    ASSUME NEW item \in Item, NEW l \in Pending, NEW m \in Pending, InOrder(l, item),
           Tracks(l, Bundle[item]), l.observed # <<>>, NEW tier, NEW metric,
           tier = "ESCALATED" => l.missed,
           m.entities = l.entities, m.observed = Tail(l.observed), ~m.missed,
           m.relations = <<>>,
           m.resolutions = Append(l.resolutions,
                             Resolution(item, Head(l.observed).column, tier, metric))
    PROVE  InOrder(m, item)
<1>1. PICK columns \in Seq(Observation) : columns = Visited(Bundle[item], Passed(l, Bundle[item]))
  <2>1. PICK b \in ParsedBundle : b = Bundle[item]
    BY PipelineAssumption
  <2>2. l.entities \in Seq(ObservedEntity) /\ b.entities \in Seq(ObservedEntity)
    BY DEF Pending, ParsedBundle
  <2>3. PICK left \in Nat : left = Len(l.entities)
    BY <2>2
  <2>4. PICK all \in Nat : all = Len(b.entities)
    BY <2>2
  <2>5. all - left \in 0..all
    <3>1. all - left \in Nat
      BY <2>1, <2>3, <2>4 DEF Tracks, Passed
    <3>2. QED BY <3>1
  <2>6. QED BY <2>1, <2>3, <2>4, <2>5, VisitedTyped DEF Passed
<1>2. Visited(Bundle[item], Passed(m, Bundle[item])) = columns
  BY <1>1 DEF Passed
<1>3. PICK obs \in Seq(Observation) : obs = l.observed
  BY DEF Pending
<1>4. PICK old \in Seq(Outcome) : old = l.resolutions
  BY DEF Pending
<1>5. PICK n \in Nat : n = Len(old)
  OBVIOUS
<1>6. PICK r : r = Resolution(item, Head(obs).column, tier, metric)
  OBVIOUS
<1>7. /\ EndOf(obs, columns, n)
      /\ \A i \in 1..n : /\ old[i].item = item
                         /\ old[i].column = columns[i].column
                         /\ old[i].tier = "ESCALATED" => ~columns[i].has_dictionary
      /\ l.missed => ~Head(obs).has_dictionary
  BY <1>1, <1>3, <1>4, <1>5 DEF InOrder
<1>8. EndOf(Tail(obs), columns, n + 1) /\ Head(obs) = columns[n + 1]
  BY <1>3, <1>7, EndShrinks
<1>9. r.item = item /\ r.column = columns[n + 1].column /\ r.tier = tier
  BY <1>6, <1>8 DEF Resolution
<1>10. PICK new : new = Append(old, r)
  OBVIOUS
<1>11. Len(new) = n + 1 /\ (\A i \in 1..n : new[i] = old[i]) /\ new[n + 1] = r
  BY <1>5, <1>10
<1>12. ASSUME NEW i \in 1..(n + 1)
       PROVE  /\ new[i].item = item
              /\ new[i].column = columns[i].column
              /\ new[i].tier = "ESCALATED" => ~columns[i].has_dictionary
  <2>1. i \in 1..n \/ i = n + 1
    OBVIOUS
  <2>2. CASE i \in 1..n
    BY <1>7, <1>11, <2>2, Zenon
  <2>3. CASE i = n + 1
    BY <1>7, <1>8, <1>9, <1>11, <2>3, Zenon
  <2>4. QED BY <2>1, <2>2, <2>3
<1>13. m.resolutions = new /\ m.observed = Tail(obs)
  BY <1>3, <1>4, <1>6, <1>10
<1>14. QED BY <1>2, <1>8, <1>11, <1>12, <1>13, Zenon DEF InOrder

\* The index misses a column without a dictionary.
LEMMA OrderMissed ==
    ASSUME NEW item, NEW l \in Pending, InOrder(l, item),
           l.observed # <<>>, ~Head(l.observed).has_dictionary
    PROVE  InOrder([l EXCEPT !.missed = TRUE], item)
<1>1. PICK m : m = [l EXCEPT !.missed = TRUE]
  OBVIOUS
<1>2. /\ m.entities = l.entities /\ m.observed = l.observed
      /\ m.resolutions = l.resolutions /\ m.relations = l.relations
  BY <1>1 DEF Pending
<1>3. InOrder(m, item)
  BY <1>2 DEF InOrder, Passed
<1>4. QED BY <1>1, <1>3

\* A step of c that leaves c loading keeps its order.
LEMMA OwnOrder ==
    ASSUME TypeOK, TypeOK', LoadTracks, LoadInOrder, NEW c \in Client, Step(c), pc'[c] = "load"
    PROVE  InOrder(load[c], Current(c))'
<1> USE DEF TypeOK, PipelineTypeOK
<1>1. CASE UpsertDocument(c) \/ WriteLink(c) \/ UpsertColumn(c) \/ UpsertEntity(c)
             \/ Relate(c) \/ LookUpAlias(c) \/ Suggest(c)
  <2>1. pc[c] = "load" /\ rest' = rest
    BY <1>1 DEF UpsertDocument, WriteLink, UpsertColumn, UpsertEntity, Relate, LookUpAlias,
                Suggest, Resolving, RelationsWritten, EntitiesWritten, DocumentsWritten, At
  <2>2. PICK item \in Item : item = Current(c)
    BY <2>1, TailRange DEF Current
  <2>3. PICK l \in Pending : l = load[c]
    OBVIOUS
  <2>4. PICK m \in Pending : m = load'[c]
    OBVIOUS
  <2>5. InOrder(l, item) /\ Tracks(l, Bundle[item])
    BY <2>1, <2>2, <2>3 DEF LoadTracks, LoadInOrder
  <2>6. InOrder(m, item)
    <3>1. CASE UpsertDocument(c)
      <4>1. /\ m.entities = l.entities /\ m.observed = l.observed /\ m.missed = l.missed
            /\ m.resolutions = l.resolutions /\ m.relations = l.relations
        BY <2>3, <2>4, <3>1 DEF UpsertDocument, SetLoad, Pending
      <4>2. QED BY <2>5, <4>1, OrderFrame
    <3>2. CASE WriteLink(c) \/ UpsertColumn(c) \/ Relate(c)
      <4>1. CASE WriteLink(c) \/ UpsertColumn(c)
        <5>1. /\ m.entities = l.entities /\ m.observed = l.observed /\ m.missed = l.missed
              /\ m.resolutions = l.resolutions /\ m.relations = l.relations
          <6>1. CASE WriteLink(c)
            BY <2>3, <2>4, <6>1 DEF WriteLink, SetLoad, Pending
          <6>2. CASE UpsertColumn(c)
            BY <2>3, <2>4, <6>2 DEF UpsertColumn, SetLoad, Pending
          <6>3. QED BY <4>1, <6>1, <6>2
        <5>2. QED BY <2>5, <5>1, OrderFrame
      <4>2. CASE Relate(c)
        <5>1. /\ m.entities = l.entities /\ m.observed = l.observed /\ m.missed = l.missed
              /\ m.resolutions = l.resolutions /\ l.relations # <<>>
          BY <2>3, <2>4, <4>2 DEF Relate, SetLoad, Pending
        <5>2. QED BY <2>5, <5>1, OrderFrame
      <4>3. QED BY <3>2, <4>1, <4>2
    <3>3. CASE UpsertEntity(c)
      <4>1. l.entities # <<>>
        BY <2>3, <3>3 DEF UpsertEntity
      <4>2. /\ m.entities = Tail(l.entities)
            /\ m.observed = l.observed \o Head(l.entities).columns
            /\ m.missed = l.missed /\ m.resolutions = l.resolutions
            /\ m.relations = l.relations
        BY <2>3, <2>4, <3>3 DEF UpsertEntity, SetLoad, Pending
      <4>3. QED BY <2>5, <4>1, <4>2, OrderEntity
    <3>4. ASSUME NEW tier, NEW metric, NEW links, Resolved(c, tier, metric, links), Resolving(c),
                 tier = "ESCALATED" => l.missed
          PROVE  InOrder(m, item)
      <4>1. l.observed # <<>> /\ l.relations = <<>>
        BY <2>3, <3>4 DEF Resolving, RelationsWritten
      <4>2. /\ m.entities = l.entities /\ m.observed = Tail(l.observed) /\ m.missed = FALSE
            /\ m.relations = l.relations
            /\ m.resolutions = Append(l.resolutions,
                                 Resolution(item, Head(l.observed).column, tier, metric))
        BY <2>2, <2>3, <2>4, <3>4 DEF Resolved, SetLoad, Pending
      <4>3. QED BY <2>5, <3>4, <4>1, <4>2, OrderResolved
    <3>5. ASSUME NEW links, NEW metric, Resolving(c),
                 \/ Resolved(c, "AUTO_LINKED", metric, links)
                 \/ Resolved(c, "DOCUMENTED", metric, links)
                 \/ Resolved(c, "SUGGESTED", metric, links)
          PROVE  InOrder(m, item)
      BY <3>4, <3>5
    <3>6. CASE LookUpAlias(c)
      <4>1. Resolving(c)
        BY <3>6 DEF LookUpAlias
      <4>2. CASE \E metric, links : \/ Resolved(c, "AUTO_LINKED", metric, links)
                                    \/ Resolved(c, "DOCUMENTED", metric, links)
        BY <3>5, <4>1, <4>2
      <4>3. CASE /\ ~Head(load[c].observed).has_dictionary
                 /\ SetLoad(c, [load[c] EXCEPT !.missed = TRUE])
        <5>1. l.observed # <<>> /\ m = [l EXCEPT !.missed = TRUE]
          BY <2>3, <2>4, <4>1, <4>3 DEF Resolving, SetLoad
        <5>2. QED BY <2>3, <2>5, <4>3, <5>1, OrderMissed
      <4>4. QED BY <3>6, <4>2, <4>3 DEF LookUpAlias
    <3>7. CASE Suggest(c)
      <4>1. Resolving(c) /\ l.missed
        BY <2>3, <3>7 DEF Suggest
      <4>2. CASE \E metric, links : \/ Resolved(c, "SUGGESTED", metric, links)
                                    \/ Resolved(c, "ESCALATED", metric, links)
        BY <3>4, <4>1, <4>2
      <4>3. QED BY <3>7, <4>2 DEF Suggest
    <3>8. QED BY <1>1, <3>1, <3>2, <3>3, <3>6, <3>7
  <2>7. Current(c)' = item
    BY <2>1, <2>2 DEF Current
  <2>8. QED BY <2>4, <2>6, <2>7
<1>2. CASE Fetch(c)
  <2>1. Current(c) \in Item /\ rest' = rest
    BY <1>2, TailRange DEF Fetch, Current
  <2>2. load'[c] = NewLoad(Bundle[Current(c)]) /\ Current(c)' = Current(c)
    BY <1>2, <2>1 DEF Fetch, SetLoad, Current
  <2>3. QED BY <2>1, <2>2, OrderBegins
<1>3. QED BY <1>1, <1>2, LoadBegins

\* No step of any process puts a load out of order.
LEMMA LoadInOrderNext ==
    TypeOK /\ TypeOK' /\ LoadTracks /\ LoadInOrder /\ [Next]_vars => LoadInOrder'
<1> SUFFICES ASSUME TypeOK, TypeOK', LoadTracks, LoadInOrder, [Next]_vars PROVE LoadInOrder'
  OBVIOUS
<1>1. CASE UNCHANGED vars
  BY <1>1 DEF vars, packVars, pipelineVars, LoadInOrder, Current
<1>2. ASSUME NEW c \in Client, Step(c), NEW d \in Client, pc'[d] = "load"
      PROVE  InOrder(load[d], Current(d))'
  <2>1. CASE d = c
    BY <1>2, <2>1, OwnOrder
  <2>2. CASE d # c
    BY <1>2, <2>2, OthersUnmoved DEF LoadInOrder, Current
  <2>3. QED BY <2>1, <2>2
<1>3. QED BY <1>1, <1>2 DEF Next, Step, LoadInOrder

\* When a load is over, its outcomes are those of iter_columns, in order.
LEMMA LoadedInOrder ==
    ASSUME TypeOK, LoadInOrder, NEW c \in Client, Loaded(c)
    PROVE  /\ Current(c) \in Item
           /\ IterColumns(Bundle[Current(c)]) \in Seq(Observation)
           /\ Len(load[c].resolutions) = Len(IterColumns(Bundle[Current(c)]))
           /\ \A k \in 1..Len(load[c].resolutions) :
                /\ load[c].resolutions[k].item = Current(c)
                /\ load[c].resolutions[k].column = IterColumns(Bundle[Current(c)])[k].column
<1> USE DEF TypeOK, PipelineTypeOK
<1>1. /\ pc[c] = "load" /\ rest[c] # <<>>
      /\ load[c].observed = <<>> /\ load[c].entities = <<>>
  BY DEF Loaded, RelationsWritten, EntitiesWritten, DocumentsWritten, At
<1>2. PICK item \in Item : item = Current(c)
  BY <1>1, TailRange DEF Current
<1>3. PICK b \in ParsedBundle : b = Bundle[item]
  BY PipelineAssumption
<1>4. Len(b.entities) \in Nat
  BY DEF ParsedBundle
<1>5. Passed(load[c], b) = Len(b.entities)
  BY <1>1, <1>4 DEF Passed
<1>6. PICK columns \in Seq(Observation) :
        columns = IterColumns(b) /\ columns = Visited(b, Passed(load[c], b))
  <2>1. Visited(b, Len(b.entities)) \in Seq(Observation)
    BY <1>4, VisitedTyped
  <2>2. QED BY <1>5, <2>1, VisitedAll
<1>7. PICK old \in Seq(Outcome) : old = load[c].resolutions
  BY DEF Pending
<1>8. /\ EndOf(<<>>, columns, Len(old))
      /\ \A k \in 1..Len(old) : old[k].item = item /\ old[k].column = columns[k].column
  BY <1>1, <1>2, <1>3, <1>6, <1>7 DEF LoadInOrder, InOrder
<1>9. Len(old) = Len(columns)
  BY <1>8 DEF EndOf
<1>10. QED BY <1>2, <1>3, <1>6, <1>7, <1>8, <1>9

(***************************************************************************)
(* Reports.                                                                *)
(***************************************************************************)
\* What is reported of a run: only items that are done, none of them the one
\* being loaded, each in one block; and nothing outside a run.
Reported(c) ==
    /\ pc[c] \notin {"run", "load"} => report[c] = <<>>
    /\ \A k \in DOMAIN report[c] : report[c][k].item \in done[c]
    /\ pc[c] = "load" => \A k \in DOMAIN report[c] : report[c][k].item # Current(c)
    /\ \A k \in DOMAIN report[c] : InOneBlock(report[c], report[c][k].item)

\* The outcomes of one more item, none of which is there yet, are one more block.
LEMMA BlockAdded ==
    ASSUME NEW s \in Seq(Outcome), NEW t \in Seq(Outcome), NEW item \in Item,
           NEW columns \in Seq(Observation), columns = IterColumns(Bundle[item]),
           \A k \in DOMAIN s : s[k].item # item,
           \A k \in DOMAIN s : InOneBlock(s, s[k].item),
           Len(t) = Len(columns),
           \A k \in 1..Len(t) : t[k].item = item /\ t[k].column = columns[k].column
    PROVE  /\ \A k \in DOMAIN (s \o t) : InOneBlock(s \o t, (s \o t)[k].item)
           /\ \A k \in DOMAIN (s \o t) : \/ (s \o t)[k].item = item
                                         \/ k \in DOMAIN s /\ (s \o t)[k].item = s[k].item
<1>1. PICK p \in Nat : p = Len(s)
  OBVIOUS
<1>2. PICK q \in Nat : q = Len(t)
  OBVIOUS
<1>3. PICK u : u = s \o t
  OBVIOUS
<1>4. DOMAIN s = 1..p /\ DOMAIN t = 1..q /\ DOMAIN u = 1..(p + q) /\ Len(u) = p + q
  <2>1. DOMAIN s = 1..p /\ DOMAIN t = 1..q
    BY <1>1, <1>2
  <2>2. Len(u) = p + q
    <3>1. \A x, y \in Seq(Outcome) : Len(x \o y) = Len(x) + Len(y)
      OBVIOUS
    <3>2. QED BY <1>1, <1>2, <1>3, <3>1, Zenon
  <2>3. DOMAIN u = 1..Len(u)
    BY <1>3
  <2>4. QED BY <2>1, <2>2, <2>3, Zenon
<1>5. \A k \in 1..p : u[k] = s[k]
  BY <1>1, <1>2, <1>3
<1>6. \A k \in 1..q : u[p + k] = t[k]
  BY <1>1, <1>2, <1>3
<1>7. \A k \in 1..(p + q) : k \in 1..p \/ (k - p \in 1..q /\ p + (k - p) = k)
  OBVIOUS
<1>8. \A k \in 1..q : u[p + k].item = item /\ u[p + k].column = columns[k].column
  BY <1>2, <1>6
<1>9. \A k \in 1..(p + q) : u[k].item = item <=> k \in (p + 1)..(p + q)
  <2>1. ASSUME NEW k \in 1..p PROVE u[k].item # item /\ k \notin (p + 1)..(p + q)
    BY <1>4, <1>5
  <2>2. ASSUME NEW k \in 1..(p + q), k - p \in 1..q, p + (k - p) = k
        PROVE  u[k].item = item /\ k \in (p + 1)..(p + q)
    <3>1. u[p + (k - p)].item = item
      BY <1>8, <2>2
    <3>2. QED BY <2>2, <3>1
  <2>3. QED BY <1>7, <2>1, <2>2
<1>10. InOneBlock(u, item)
  <2>1. DOMAIN columns = 1..q /\ Len(columns) = q
    BY <1>2
  <2>2. {k \in DOMAIN u : u[k].item = item} = (p + 1)..(p + Len(columns))
    <3>1. \A k \in (p + 1)..(p + q) : k \in 1..(p + q)
      OBVIOUS
    <3>2. QED BY <1>4, <1>9, <2>1, <3>1
  <2>3. p \in 0..Len(u)
    BY <1>4
  <2>4. \A k \in DOMAIN columns : u[p + k].column = columns[k].column
    BY <1>8, <2>1
  <2>5. QED BY <2>2, <2>3, <2>4 DEF InOneBlock
<1>11. ASSUME NEW j \in 1..p PROVE InOneBlock(u, u[j].item)
  <2>1. PICK other : other = s[j].item
    OBVIOUS
  <2>2. other # item /\ u[j].item = other /\ InOneBlock(s, other)
    BY <1>4, <1>5, <2>1
  <2>3. PICK theirs : theirs = IterColumns(Bundle[other])
    OBVIOUS
  <2>4. PICK n \in 0..Len(s) :
          /\ {k \in DOMAIN s : s[k].item = other} = (n + 1)..(n + Len(theirs))
          /\ \A k \in DOMAIN theirs : s[n + k].column = theirs[k].column
    BY <2>2, <2>3 DEF InOneBlock
  <2>5. {k \in DOMAIN u : u[k].item = other} = {k \in DOMAIN s : s[k].item = other}
    <3>1. \A k \in 1..(p + q) : u[k].item = other => k \in 1..p
      <4>1. ASSUME NEW k \in 1..(p + q), k \notin 1..p PROVE u[k].item # other
        <5>1. PICK j2 : j2 = k - p
          OBVIOUS
        <5>2. j2 \in 1..q /\ p + j2 = k
          BY <1>7, <4>1, <5>1
        <5>3. u[p + j2].item = item
          BY <1>8, <5>2
        <5>4. QED BY <2>2, <5>2, <5>3
      <4>2. QED BY <4>1
    <3>2. \A k \in 1..p : k \in 1..(p + q) /\ u[k] = s[k]
      BY <1>5
    <3>3. QED BY <1>4, <3>1, <3>2
  <2>6. n \in 0..Len(u)
    BY <1>1, <1>4
  <2>7. other \in Item
    <3>1. s[j] \in Outcome
      BY <1>4
    <3>2. QED BY <2>1, <3>1 DEF Outcome
  <2>8. theirs \in Seq(Observation)
    <3>1. PICK b \in ParsedBundle : b = Bundle[other]
      BY <2>7, PipelineAssumption
    <3>2. Len(b.entities) \in 0..Len(b.entities)
      BY DEF ParsedBundle
    <3>3. QED BY <2>3, <3>1, <3>2, VisitedTyped, VisitedAll
  <2>9. ASSUME NEW k \in DOMAIN theirs PROVE u[n + k].column = theirs[k].column
    <3>1. PICK r \in Nat : r = Len(theirs) /\ DOMAIN theirs = 1..r
      BY <2>8
    <3>2. n + k \in (n + 1)..(n + r)
      BY <3>1
    <3>3. n + k \in DOMAIN s
      BY <2>4, <3>1, <3>2
    <3>4. u[n + k] = s[n + k]
      BY <1>4, <1>5, <3>3
    <3>5. QED BY <2>4, <3>4
  <2>10. QED BY <2>2, <2>3, <2>4, <2>5, <2>6, <2>9 DEF InOneBlock
<1>12. ASSUME NEW k \in DOMAIN u
       PROVE  /\ InOneBlock(u, u[k].item)
              /\ u[k].item = item \/ (k \in DOMAIN s /\ u[k].item = s[k].item)
  <2>1. CASE k \in 1..p
    BY <1>4, <1>5, <1>11, <2>1
  <2>2. CASE k \notin 1..p
    <3>1. u[k].item = item
      <4>1. PICK i : i = k - p
        OBVIOUS
      <4>2. i \in 1..q /\ p + i = k
        BY <1>4, <1>7, <2>2, <4>1
      <4>3. u[p + i].item = item
        BY <1>8, <4>2
      <4>4. QED BY <4>2, <4>3
    <3>2. QED BY <1>10, <3>1
  <2>3. QED BY <2>1, <2>2
<1>13. QED BY <1>3, <1>12

(***************************************************************************)
(* Each column is resolved once.                                           *)
(***************************************************************************)
\* A report that is empty is in order.
LEMMA ReportEmpty ==
    ASSUME NEW c \in Client, report'[c] = <<>>
    PROVE  Reported(c)'
BY DEF Reported

\* One that stays as it is while its run goes on.
LEMMA ReportStays ==
    ASSUME NEW c \in Client, Reported(c), report'[c] = report[c], done[c] \subseteq done'[c],
           pc'[c] = pc[c], rest'[c] = rest[c]
    PROVE  Reported(c)'
BY DEF Reported, Current

\* mark_done adds the outcomes of the item, which was in no ledger when it was fetched.
LEMMA ReportAdded ==
    ASSUME TypeOK, LoadInOrder, NEW c \in Client, MarkDone(c), Reported(c)
    PROVE  Reported(c)'
<1> USE DEF TypeOK, PipelineTypeOK
<1>1. /\ Loaded(c) /\ pc[c] = "load" /\ pc'[c] = "run"
      /\ done'[c] = done[c] \cup {Current(c)}
      /\ report'[c] = report[c] \o load[c].resolutions
  BY DEF MarkDone, Marked, Goto, Loaded, RelationsWritten, EntitiesWritten, DocumentsWritten, At,
         PacksTypeOK
<1>2. PICK item \in Item : item = Current(c)
  BY <1>1, LoadedInOrder
<1>3. PICK columns \in Seq(Observation) : columns = IterColumns(Bundle[item])
  BY <1>1, <1>2, LoadedInOrder
<1>4. PICK s \in Seq(Outcome) : s = report[c]
  OBVIOUS
<1>5. PICK t \in Seq(Outcome) : t = load[c].resolutions
  BY DEF Pending
<1>6. /\ Len(t) = Len(columns)
      /\ \A k \in 1..Len(t) : t[k].item = item /\ t[k].column = columns[k].column
  BY <1>1, <1>2, <1>3, <1>5, LoadedInOrder
<1>7. /\ \A k \in DOMAIN s : s[k].item # item
      /\ \A k \in DOMAIN s : InOneBlock(s, s[k].item)
      /\ \A k \in DOMAIN s : s[k].item \in done[c]
  BY <1>1, <1>2, <1>4 DEF Reported
<1>8. /\ \A k \in DOMAIN (s \o t) : InOneBlock(s \o t, (s \o t)[k].item)
      /\ \A k \in DOMAIN (s \o t) : \/ (s \o t)[k].item = item
                                    \/ k \in DOMAIN s /\ (s \o t)[k].item = s[k].item
  BY <1>3, <1>6, <1>7, BlockAdded
<1>9. PICK u : u = s \o t
  OBVIOUS
<1>10. /\ \A k \in DOMAIN u : InOneBlock(u, u[k].item)
       /\ \A k \in DOMAIN u : u[k].item \in done'[c]
  BY <1>1, <1>2, <1>7, <1>8, <1>9, Zenon
<1>11. report'[c] = u
  BY <1>1, <1>4, <1>5, <1>9
<1>12. QED BY <1>1, <1>10, <1>11 DEF Reported

\* A step of the process itself keeps its report in order.
LEMMA OwnReported ==
    ASSUME TypeOK, LoadInOrder, NEW c \in Client, Step(c), Reported(c)
    PROVE  Reported(c)'
<1> USE DEF TypeOK, PacksTypeOK, PipelineTypeOK, At, Goto
<1>1. CASE MarkDone(c)
  BY <1>1, ReportAdded
<1>2. CASE FinishRun(c) \/ RejectRelation(c) \/ Fail(c) \/ Crash(c)
  <2>1. report'[c] = <<>>
    BY <1>2 DEF FinishRun, RejectRelation, Fail, Crash, AbandonCall
  <2>2. QED BY <2>1, ReportEmpty
<1>3. CASE Request(c)
  <2>1. pc[c] = "idle" /\ report' = report
    BY <1>3 DEF Request, LoadPack, BeginLoadPack, Answer, ConfirmLink, DefineMetric, Ingest,
                StartRun, pipelineVars
  <2>2. report'[c] = <<>>
    BY <2>1 DEF Reported
  <2>3. QED BY <2>2, ReportEmpty
<1>4. ASSUME LoadPackStep(c) \/ ConfirmStep(c), UNCHANGED pipelineVars
      PROVE  Reported(c)'
  <2>1. pc[c] \notin {"run", "load"}
    BY <1>4 DEF LoadPackStep, UpsertMetric, UpsertBenchmark, EndLoadPack, ConfirmStep,
                ReadAliases, WriteAliases
  <2>2. report'[c] = <<>>
    BY <1>4, <2>1 DEF Reported, pipelineVars
  <2>3. QED BY <2>2, ReportEmpty
<1>5. CASE Skip(c)
  <2>1. pc'[c] = "run" /\ report'[c] = report[c] /\ done'[c] = done[c]
    BY <1>5 DEF Skip, packVars
  <2>2. QED BY <2>1 DEF Reported
<1>6. CASE Fetch(c)
  <2>1. /\ report'[c] = report[c] /\ done'[c] = done[c] /\ rest'[c] = rest[c]
        /\ pc[c] = "run" /\ pc'[c] = "load" /\ Current(c) \notin done[c]
    BY <1>6 DEF Fetch
  <2>2. Current(c)' = Current(c)
    BY <2>1 DEF Current
  <2>3. QED BY <2>1, <2>2 DEF Reported
<1>7. CASE UpsertDocument(c) \/ WriteLink(c) \/ UpsertColumn(c) \/ UpsertEntity(c) \/ Relate(c)
             \/ LookUpAlias(c) \/ Suggest(c)
  <2>1. UNCHANGED <<pc, done, rest, report>>
    BY <1>7 DEF UpsertDocument, WriteLink, UpsertColumn, UpsertEntity, Relate, LookUpAlias,
                Suggest, packVars
  <2>2. QED BY <2>1, ReportStays
<1>8. QED BY <1>1, <1>2, <1>3, <1>4, <1>5, <1>6, <1>7 DEF Step, Work, RunStep, LoadStep

\* No run has begun.
LEMMA ReportsInit == Init => \A c \in Client : Reported(c)
BY DEF Init, PipelineInit, Reported

\* No step of any process puts a report out of order.
LEMMA ReportsNext ==
    TypeOK /\ LoadInOrder /\ (\A d \in Client : Reported(d)) /\ [Next]_vars
      => (\A d \in Client : Reported(d))'
<1> SUFFICES ASSUME TypeOK, LoadInOrder, \A d \in Client : Reported(d), [Next]_vars,
                    NEW d \in Client
             PROVE  Reported(d)'
  OBVIOUS
<1>1. CASE UNCHANGED vars
  BY <1>1, ReportStays DEF vars, packVars, pipelineVars
<1>2. ASSUME NEW c \in Client, Step(c) PROVE Reported(d)'
  <2>1. CASE d = c
    BY <1>2, <2>1, OwnReported
  <2>2. CASE d # c
    BY <1>2, <2>2, OthersUnmoved, OthersOutcomes, LedgersKept, ReportStays
  <2>3. QED BY <2>1, <2>2
<1>3. QED BY <1>1, <1>2 DEF Next, Step

\* No load has begun.
LEMMA OrderInit == Init => LoadInOrder
BY DEF Init, PacksInit, LoadInOrder

\* For every instance: a load resolves the columns of iter_columns, each once and
\* in order, and a report has the outcomes of an item in one block or not at all.
THEOREM ColumnsResolvedOnce == Spec => []ResolvedOnce
<1> DEFINE Ordered == LoadInOrder /\ \A d \in Client : Reported(d)
<1>1. Init => Ordered
  BY OrderInit, ReportsInit
<1>2. LinkInv /\ LinkInv' /\ Ordered /\ [Next]_vars => Ordered'
  BY LoadInOrderNext, ReportsNext DEF LinkInv, Inv
<1>3. LinkInv /\ Ordered => ResolvedOnce
  <2> SUFFICES ASSUME TypeOK, LoadInOrder, NEW c \in Client, Reported(c)
               PROVE  /\ Loaded(c) => Columns(load[c].resolutions)
                                         = Columns(IterColumns(Bundle[Current(c)]))
                      /\ \A r \in Range(report[c]) : InOneBlock(report[c], r.item)
    BY DEF LinkInv, Inv, ResolvedOnce
  <2>1. ASSUME Loaded(c)
        PROVE  Columns(load[c].resolutions) = Columns(IterColumns(Bundle[Current(c)]))
    <3>1. PICK s \in Seq(Outcome) : s = load[c].resolutions
      BY DEF TypeOK, PipelineTypeOK, Pending
    <3>2. PICK t \in Seq(Observation) : t = IterColumns(Bundle[Current(c)])
      BY <2>1, LoadedInOrder
    <3>3. Len(s) = Len(t) /\ \A k \in 1..Len(s) : s[k].column = t[k].column
      BY <2>1, <3>1, <3>2, LoadedInOrder
    <3>4. DOMAIN s = 1..Len(s) /\ DOMAIN t = 1..Len(s)
      BY <3>3
    <3>5. QED BY <3>1, <3>2, <3>3, <3>4 DEF Columns
  <2>2. \A r \in Range(report[c]) : InOneBlock(report[c], r.item)
    BY DEF Reported, Range
  <2>3. QED BY <2>1, <2>2
<1> HIDE DEF Ordered
<1>4. QED BY <1>1, <1>2, <1>3, LinkInvInit, LinkInvNext, PTL DEF Spec

(***************************************************************************)
(* Each escalation is filed once, by a process that keeps its ledger.      *)
(***************************************************************************)
\* A column without a dictionary is in one place only of an item's iter_columns.
UndocumentedOnce ==
    \A item \in Item :
        LET columns == IterColumns(Bundle[item])
            Undocumented == {k \in DOMAIN columns : ~columns[k].has_dictionary}
        IN  \A j, k \in Undocumented : columns[j].column = columns[k].column => j = k

\* What has been filed belongs to an item that is done, and will not be fetched
\* again, or to the load under way.
AskedOnce(c) ==
    /\ pc[c] = "load" => Current(c) \notin done[c]
    /\ \A r \in Range(queue[c]) :
          \/ r.item \in done[c]
          \/ pc[c] = "load" /\ r \in Range(load[c].resolutions)
    /\ \A i, j \in DOMAIN queue[c] : queue[c][i] = queue[c][j] => i = j

\* Steps that file nothing and lose no outcome of an item that is not done.
LEMMA AskedStays ==
    ASSUME NEW c \in Client, AskedOnce(c), queue'[c] = queue[c], done[c] \subseteq done'[c],
           pc'[c] = "load" => Current(c)' \notin done'[c],
           pc[c] = "load" =>
             \A r \in Range(load[c].resolutions) :
                \/ r.item \in done'[c]
                \/ pc'[c] = "load" /\ r \in Range(load'[c].resolutions)
    PROVE  AskedOnce(c)'
BY DEF AskedOnce

\* The suggester is asked about a column the load has no escalation for.
LEMMA EscalationIsNew ==
    ASSUME TypeOK, LoadInOrder, UndocumentedOnce, NEW c \in Client, Resolving(c), load[c].missed,
           NEW r \in Range(load[c].resolutions), r.tier = "ESCALATED"
    PROVE  r.column # Head(load[c].observed).column
<1> USE DEF TypeOK, PipelineTypeOK
<1>1. /\ pc[c] = "load" /\ rest[c] # <<>>
      /\ load[c].observed # <<>> /\ load[c].entities = <<>>
  BY DEF Resolving, RelationsWritten, EntitiesWritten, DocumentsWritten, At
<1>2. PICK item \in Item : item = Current(c)
  BY <1>1, TailRange DEF Current
<1>3. PICK b \in ParsedBundle : b = Bundle[item]
  BY PipelineAssumption
<1>4. Len(b.entities) \in Nat /\ Len(b.entities) \in 0..Len(b.entities)
  BY DEF ParsedBundle
<1>5. Passed(load[c], b) = Len(b.entities)
  BY <1>1, <1>4 DEF Passed
<1>6. PICK columns \in Seq(Observation) :
        columns = IterColumns(b) /\ columns = Visited(b, Passed(load[c], b))
  <2>1. Visited(b, Len(b.entities)) \in Seq(Observation)
    BY <1>4, VisitedTyped
  <2>2. QED BY <1>5, <2>1, VisitedAll
<1>7. PICK obs \in Seq(Observation) : obs = load[c].observed
  BY DEF Pending
<1>8. PICK old \in Seq(Outcome) : old = load[c].resolutions
  BY DEF Pending
<1>9. PICK n \in Nat : n = Len(old)
  OBVIOUS
<1>10. /\ EndOf(obs, columns, n)
       /\ \A k \in 1..n : /\ old[k].column = columns[k].column
                          /\ old[k].tier = "ESCALATED" => ~columns[k].has_dictionary
       /\ ~Head(obs).has_dictionary
  <2> HIDE DEF TypeOK, PipelineTypeOK
  <2>1. InOrder(load[c], item)
    BY <1>1, <1>2, Zenon DEF LoadInOrder
  <2>2. PICK l : l = load[c]
    OBVIOUS
  <2>3. /\ EndOf(l.observed, columns, Len(l.resolutions))
        /\ \A k \in 1..Len(l.resolutions) :
             /\ l.resolutions[k].column = columns[k].column
             /\ l.resolutions[k].tier = "ESCALATED" => ~columns[k].has_dictionary
        /\ l.missed => ~Head(l.observed).has_dictionary
    BY <1>3, <1>6, <2>1, <2>2, Zenon DEF InOrder
  <2>4. l.observed = obs /\ l.resolutions = old /\ Len(l.resolutions) = n /\ l.missed
    BY <1>7, <1>8, <1>9, <2>2
  <2>5. QED BY <2>3, <2>4, Zenon
<1>11. Head(obs) = columns[n + 1] /\ EndOf(Tail(obs), columns, n + 1)
  BY <1>1, <1>7, <1>10, EndShrinks
<1>12. \A k \in 1..(n + 1) : k \in DOMAIN columns
  <2>1. PICK q \in Nat : q = Len(Tail(obs))
    <3>1. Tail(obs) \in Seq(Observation)
      BY <1>1, <1>7
    <3>2. Len(Tail(obs)) \in Nat
      BY <3>1
    <3>3. QED BY <3>2
  <2>2. PICK w \in Nat : w = Len(columns) /\ DOMAIN columns = 1..w
    BY <1>6
  <2>3. (n + 1) + q = w
    BY <1>11, <2>1, <2>2 DEF EndOf
  <2>4. QED BY <2>2, <2>3
<1>13. PICK k \in 1..n : r = old[k]
  <2>1. DOMAIN old = 1..n
    BY <1>9
  <2>2. QED BY <1>8, <2>1 DEF Range
<1>14. k \in 1..(n + 1) /\ n + 1 \in 1..(n + 1) /\ k # n + 1
  OBVIOUS
<1>15. /\ r.column = columns[k].column /\ ~columns[k].has_dictionary
       /\ ~columns[n + 1].has_dictionary
  BY <1>10, <1>11, <1>13
<1>16. columns[k].column # columns[n + 1].column
  BY <1>2, <1>3, <1>6, <1>12, <1>14, <1>15 DEF UndocumentedOnce
<1>17. QED BY <1>7, <1>11, <1>15, <1>16

\* Filing it keeps the entries apart.
LEMMA AskedAdded ==
    ASSUME TypeOK, TypeOK', LoadInOrder, UndocumentedOnce, NEW c \in Client, AskedOnce(c),
           Resolving(c), load[c].missed,
           Resolved(c, "ESCALATED", NoMetric, <<>>),
           Enqueue(c, Resolution(Current(c), Head(load[c].observed).column, "ESCALATED", NoMetric)),
           UNCHANGED <<pc, rest, done>>
    PROVE  AskedOnce(c)'
<1>1. PICK r : r = Resolution(Current(c), Head(load[c].observed).column, "ESCALATED", NoMetric)
  OBVIOUS
<1>2. Range(load'[c].resolutions) = Range(load[c].resolutions)
        \cup {Resolution(Current(c), Head(load[c].observed).column, "ESCALATED", NoMetric)}
  BY OneOutcome
<1> USE DEF TypeOK, FunnelTypeOK, PipelineTypeOK
<1>3. r.item = Current(c) /\ r.column = Head(load[c].observed).column /\ r.tier = "ESCALATED"
  BY <1>1 DEF Resolution
<1>4. pc[c] = "load" /\ pc'[c] = "load" /\ Current(c)' = Current(c) /\ done'[c] = done[c]
  BY DEF Resolving, RelationsWritten, EntitiesWritten, DocumentsWritten, At, Current
<1>5. Range(load'[c].resolutions) = Range(load[c].resolutions) \cup {r}
  BY <1>1, <1>2, Zenon
<1>6. r \notin Range(load[c].resolutions)
  BY <1>3, EscalationIsNew
<1>7. r \notin Range(queue[c])
  BY <1>3, <1>4, <1>6 DEF AskedOnce
<1>8. PICK old \in Seq(Outcome) : old = queue[c]
  OBVIOUS
<1>9. queue'[c] = Append(old, r)
  BY <1>1, <1>8 DEF Enqueue
<1>10. old \in Seq(Outcome \cup {r}) /\ r \in Outcome \cup {r}
  OBVIOUS
<1>11. Range(queue'[c]) = Range(queue[c]) \cup {r}
  BY <1>8, <1>9, <1>10, AppendRange
<1>12. PICK n \in Nat : n = Len(old)
  OBVIOUS
<1>13. PICK new : new = Append(old, r)
  OBVIOUS
<1>14. /\ DOMAIN old = 1..n /\ DOMAIN new = 1..(n + 1)
       /\ \A k \in 1..n : new[k] = old[k]
       /\ new[n + 1] = r
  BY <1>10, <1>12, <1>13
<1>15. \A k \in 1..n : old[k] # r
  BY <1>7, <1>8, <1>14 DEF Range
<1>16. \A k \in 1..(n + 1) : k \in 1..n \/ k = n + 1
  OBVIOUS
<1>17. \A i, j \in 1..(n + 1) : new[i] = new[j] => i = j
  <2>1. \A i, j \in 1..n : old[i] = old[j] => i = j
    BY <1>8, <1>14 DEF AskedOnce
  <2>2. ASSUME NEW i \in 1..(n + 1), NEW j \in 1..(n + 1), new[i] = new[j] PROVE i = j
    <3>1. CASE i \in 1..n /\ j \in 1..n
      <4>1. old[i] = old[j]
        BY <1>14, <2>2, <3>1
      <4>2. QED BY <2>1, <3>1, <4>1
    <3>2. CASE i \in 1..n /\ j = n + 1
      BY <1>14, <1>15, <2>2, <3>2
    <3>3. CASE i = n + 1 /\ j \in 1..n
      BY <1>14, <1>15, <2>2, <3>3
    <3>4. QED BY <1>16, <3>1, <3>2, <3>3
  <2>3. QED BY <2>2
<1>18. \A i, j \in DOMAIN queue'[c] : queue'[c][i] = queue'[c][j] => i = j
  BY <1>9, <1>13, <1>14, <1>17
<1>19. QED BY <1>4, <1>5, <1>11, <1>18 DEF AskedOnce

\* A step of the process itself, where only the source can raise and the ledger is
\* the process's own.
LEMMA OwnAskedOnce ==
    ASSUME Backend = "InMemory", Ledger = "process", UndocumentedOnce,
           TypeOK, TypeOK', LoadInOrder, NEW c \in Client, Step(c), AskedOnce(c)
    PROVE  AskedOnce(c)'
<1> USE DEF TypeOK, PacksTypeOK, FunnelTypeOK, PipelineTypeOK, At, Goto
<1>1. ASSUME queue'[c] = queue[c], done[c] \subseteq done'[c], pc[c] # "load", pc'[c] # "load"
      PROVE  AskedOnce(c)'
  BY <1>1, AskedStays
<1>2. CASE Request(c)
  <2>1. pc[c] = "idle" /\ pc'[c] # "load" /\ queue' = queue /\ done'[c] = done[c]
    BY <1>2 DEF Request, LoadPack, BeginLoadPack, Answer, ConfirmLink, DefineMetric, Ingest,
                StartRun, funnelVars, packVars, pipelineVars
  <2>2. QED BY <1>1, <2>1
<1>3. ASSUME (LoadPackStep(c) /\ UNCHANGED funnelVars) \/ ConfirmStep(c),
             UNCHANGED pipelineVars
      PROVE  AskedOnce(c)'
  <2>1. pc[c] # "load" /\ pc'[c] # "load" /\ queue' = queue
    BY <1>3 DEF LoadPackStep, UpsertMetric, UpsertBenchmark, EndLoadPack, ConfirmStep,
                ReadAliases, WriteAliases, funnelVars
  <2>2. QED BY <1>1, <1>3, <2>1 DEF pipelineVars
<1>4. CASE Fail(c)
  <2>1. pc[c] = "run"
    BY <1>4 DEF Fail, MayRaise, Loaded
  <2>2. queue' = queue /\ done' = done /\ pc'[c] = "idle"
    BY <1>4 DEF Fail, AbandonCall
  <2>3. QED BY <1>1, <2>1, <2>2
<1>5. ~Crash(c)
  BY DEF Crash
<1>6. CASE RejectRelation(c)
  <2>1. /\ pc[c] = "load" /\ load[c].relations # <<>> /\ pc'[c] = "idle"
        /\ queue' = queue /\ done' = done
    BY <1>6 DEF RejectRelation, AbandonCall, EntitiesWritten, DocumentsWritten
  <2>2. load[c].resolutions = <<>>
    BY <2>1 DEF LoadInOrder, InOrder
  <2>3. Range(load[c].resolutions) = {}
    BY <2>2, EmptyRange
  <2>4. QED BY <2>1, <2>3, AskedStays
<1>7. ASSUME queue' = queue, UNCHANGED <<pc, rest, done>>,
             Range(load[c].resolutions) \subseteq Range(load'[c].resolutions)
      PROVE  AskedOnce(c)'
  <2>1. Current(c)' = Current(c)
    BY <1>7 DEF Current
  <2>2. pc[c] = "load" => Current(c) \notin done[c]
    BY DEF AskedOnce
  <2>3. QED BY <1>7, <2>1, <2>2, AskedStays
<1>8. CASE UpsertDocument(c) \/ WriteLink(c) \/ UpsertColumn(c) \/ UpsertEntity(c) \/ Relate(c)
  <2>1. queue' = queue /\ UNCHANGED <<pc, rest>> /\ load'[c].resolutions = load[c].resolutions
    BY <1>8, WritesResolveNothing DEF funnelVars, packVars
  <2>2. done' = done
    BY <1>8 DEF UpsertDocument, WriteLink, UpsertColumn, UpsertEntity, Relate
  <2>3. QED BY <1>7, <2>1, <2>2
<1>9. CASE LookUpAlias(c)
  <2>1. queue' = queue /\ UNCHANGED <<pc, rest, done>>
    BY <1>9 DEF LookUpAlias, funnelVars, packVars
  <2>2. ASSUME NEW tier, NEW m, NEW links, Resolved(c, tier, m, links) PROVE AskedOnce(c)'
    <3>1. Range(load[c].resolutions) \subseteq Range(load'[c].resolutions)
      BY <2>2, OneOutcome
    <3>2. QED BY <1>7, <2>1, <3>1
  <2>3. CASE SetLoad(c, [load[c] EXCEPT !.missed = TRUE])
    <3>1. load'[c].resolutions = load[c].resolutions
      BY <2>3 DEF SetLoad, Pending
    <3>2. QED BY <1>7, <2>1, <3>1
  <2>4. QED BY <1>9, <2>2, <2>3 DEF LookUpAlias
<1>10. CASE Suggest(c)
  <2>1. UNCHANGED <<pc, rest, done>> /\ Resolving(c) /\ load[c].missed
    BY <1>10 DEF Suggest, packVars
  <2>2. ASSUME NEW m, Resolved(c, "SUGGESTED", m, <<>>), queue' = queue PROVE AskedOnce(c)'
    <3>1. Range(load[c].resolutions) \subseteq Range(load'[c].resolutions)
      BY <2>2, OneOutcome
    <3>2. QED BY <1>7, <2>1, <2>2, <3>1
  <2>3. ASSUME Resolved(c, "ESCALATED", NoMetric, <<>>),
               Enqueue(c, Resolution(Current(c), Head(load[c].observed).column,
                                     "ESCALATED", NoMetric))
        PROVE  AskedOnce(c)'
    BY <2>1, <2>3, AskedAdded
  <2>4. QED BY <1>10, <2>2, <2>3 DEF Suggest
<1>11. CASE MarkDone(c)
  <2>1. /\ Loaded(c) /\ pc'[c] = "run" /\ queue' = queue
        /\ done'[c] = done[c] \cup {Current(c)}
    BY <1>11 DEF MarkDone, Marked, funnelVars
  <2>2. \A r \in Range(load[c].resolutions) : r.item = Current(c)
    <3>1. PICK old \in Seq(Outcome) : old = load[c].resolutions
      BY DEF Pending
    <3>2. \A k \in 1..Len(old) : old[k].item = Current(c)
      BY <2>1, <3>1, LoadedInOrder
    <3>3. QED BY <3>1, <3>2 DEF Range
  <2>3. QED BY <2>1, <2>2, AskedStays
<1>12. CASE Skip(c) \/ FinishRun(c)
  <2>1. pc[c] = "run" /\ pc'[c] # "load" /\ queue' = queue /\ done' = done
    BY <1>12 DEF Skip, FinishRun, funnelVars, packVars
  <2>2. QED BY <1>1, <2>1
<1>13. CASE Fetch(c)
  <2>1. /\ pc[c] = "run" /\ queue' = queue /\ UNCHANGED <<done, rest>>
        /\ Current(c) \notin done[c]
    BY <1>13 DEF Fetch, funnelVars
  <2>2. Current(c)' = Current(c)
    BY <2>1 DEF Current
  <2>3. QED BY <2>1, <2>2, AskedStays
<1>14. QED BY <1>2, <1>3, <1>4, <1>5, <1>6, <1>8, <1>9, <1>10, <1>11, <1>12, <1>13
           DEF Step, Work, RunStep, LoadStep

\* A ledger that is not shared is changed by its own process only.
LEMMA OthersLedgers ==
    ASSUME Ledger # "shared", TypeOK, NEW c \in Client, Step(c), NEW d \in Client, d # c
    PROVE  done'[d] = done[d]
<1> USE DEF TypeOK, PipelineTypeOK
<1>1. CASE Request(c)
  BY <1>1 DEF Request, LoadPack, Answer, Ingest, StartRun, pipelineVars
<1>2. CASE MarkDone(c)
  BY <1>2 DEF MarkDone, Marked
<1>3. CASE Fail(c) \/ Crash(c) \/ RejectRelation(c)
  BY <1>3 DEF Fail, Crash, RejectRelation
<1>4. ASSUME UpsertDocument(c) \/ WriteLink(c) \/ UpsertColumn(c) \/ UpsertEntity(c)
               \/ Relate(c) \/ LookUpAlias(c) \/ Suggest(c) \/ Skip(c) \/ Fetch(c)
               \/ FinishRun(c)
      PROVE  done'[d] = done[d]
  BY <1>4 DEF UpsertDocument, WriteLink, UpsertColumn, UpsertEntity, Relate, LookUpAlias,
              Suggest, Skip, Fetch, FinishRun
<1>5. QED BY <1>1, <1>2, <1>3, <1>4 DEF Step, Work, RunStep, LoadStep, pipelineVars

\* A step of another process: its ledger is its own too.
LEMMA OthersAskedOnce ==
    ASSUME Ledger = "process", TypeOK, NEW c \in Client, Step(c), NEW d \in Client, d # c,
           AskedOnce(d)
    PROVE  AskedOnce(d)'
<1> USE DEF TypeOK, PipelineTypeOK
<1>1. pc'[d] = pc[d] /\ rest'[d] = rest[d] /\ load'[d] = load[d] /\ queue'[d] = queue[d]
  BY OthersUnmoved, OthersOutcomes
<1>2. done'[d] = done[d]
  BY OthersLedgers
<1>3. Current(d)' = Current(d)
  BY <1>1 DEF Current
<1>4. QED BY <1>1, <1>2, <1>3 DEF AskedOnce

\* For every instance on the dict store with a ledger kept between runs, whatever the
\* source raises and whatever relations are rejected: no escalation is filed twice.
THEOREM NothingAskedTwice ==
    ASSUME Backend = "InMemory", Ledger = "process", UndocumentedOnce
    PROVE  Spec => []FiledOnce
<1> DEFINE Asked == LoadInOrder /\ \A d \in Client : AskedOnce(d)
<1>1. Init => Asked
  <2> SUFFICES ASSUME Init, NEW d \in Client PROVE AskedOnce(d)
    BY OrderInit
  <2>1. pc[d] = "idle" /\ queue[d] = <<>>
    BY DEF Init, PacksInit, FunnelInit
  <2>2. QED BY <2>1, EmptyRange DEF AskedOnce
<1>2. LinkInv /\ LinkInv' /\ Asked /\ [Next]_vars => Asked'
  <2> SUFFICES ASSUME LinkInv, LinkInv', LoadInOrder, \A d \in Client : AskedOnce(d),
                      [Next]_vars, NEW d \in Client
               PROVE  AskedOnce(d)'
    BY LoadInOrderNext DEF LinkInv, Inv
  <2>1. CASE UNCHANGED vars
    BY <2>1 DEF vars, packVars, funnelVars, pipelineVars, AskedOnce, Current
  <2>2. ASSUME NEW c \in Client, Step(c) PROVE AskedOnce(d)'
    <3>1. TypeOK /\ TypeOK'
      BY DEF LinkInv, Inv
    <3>2. CASE d = c
      BY <2>2, <3>1, <3>2, OwnAskedOnce
    <3>3. CASE d # c
      BY <2>2, <3>1, <3>3, OthersAskedOnce
    <3>4. QED BY <3>2, <3>3
  <2>3. QED BY <2>1, <2>2 DEF Next, Step
<1>3. Asked => FiledOnce
  BY DEF AskedOnce, FiledOnce
<1> HIDE DEF Asked
<1>4. QED BY <1>1, <1>2, <1>3, LinkInvInit, LinkInvNext, PTL DEF Spec

(***************************************************************************)
(* What becomes of the outcomes of a done item.                            *)
(***************************************************************************)
Occurs(columns, x) == \E k \in DOMAIN columns : columns[k].column = x

\* A column come across stays among those come across.
LEMMA OccursNext ==
    ASSUME NEW b \in ParsedBundle, NEW x, NEW k \in Nat, k + 1 \in 1..Len(b.entities),
           Occurs(Visited(b, k), x) \/ Owns(b.entities[k + 1], x)
    PROVE  Occurs(Visited(b, k + 1), x)
<1>1. PICK old \in Seq(Observation) : old = Visited(b, k)
  <2>1. k \in 0..Len(b.entities)
    BY DEF ParsedBundle
  <2>2. QED BY <2>1, VisitedTyped
<1>2. PICK t \in Seq(Observation) : t = b.entities[k + 1].columns
  BY VisitedNext
<1>3. Visited(b, k + 1) = old \o t
  BY <1>1, <1>2, VisitedNext
<1>4. PICK p \in Nat : p = Len(old) /\ DOMAIN old = 1..p
  OBVIOUS
<1>5. PICK q \in Nat : q = Len(t) /\ DOMAIN t = 1..q
  OBVIOUS
<1>6. PICK u : u = old \o t
  OBVIOUS
<1>7. /\ \A i \in 1..p : i \in DOMAIN u /\ u[i] = old[i]
      /\ \A i \in 1..q : p + i \in DOMAIN u /\ u[p + i] = t[i]
  BY <1>4, <1>5, <1>6
<1>8. CASE Occurs(old, x)
  <2>1. PICK i \in 1..p : old[i].column = x
    BY <1>4, <1>8 DEF Occurs
  <2>2. i \in DOMAIN u /\ u[i].column = x
    BY <1>7, <2>1
  <2>3. QED BY <1>3, <1>6, <2>2 DEF Occurs
<1>9. CASE Owns(b.entities[k + 1], x)
  <2>1. PICK i \in 1..q : t[i].column = x
    BY <1>2, <1>5, <1>9 DEF Owns
  <2>2. p + i \in DOMAIN u /\ u[p + i].column = x
    BY <1>7, <2>1
  <2>3. QED BY <1>3, <1>6, <2>2 DEF Occurs
<1>10. QED BY <1>1, <1>8, <1>9

\* Each column a bundle observes is one of iter_columns.
LEMMA ObservedOccurs ==
    ASSUME NEW b \in ParsedBundle, NEW x, Observes(b, x)
    PROVE  Occurs(IterColumns(b), x)
<1>1. PICK n \in Nat : n = Len(b.entities) /\ DOMAIN b.entities = 1..n
  BY DEF ParsedBundle
<1>2. \E j \in 0..n : Occurs(Visited(b, j), x)
  <2>1. CASE \E i \in DOMAIN b.columns : b.columns[i].column = x
    <3>1. Occurs(Visited(b, 0), x)
      BY <2>1, VisitedFirst DEF Occurs
    <3>2. 0 \in 0..n
      OBVIOUS
    <3>3. QED BY <3>1, <3>2
  <2>2. ASSUME NEW i \in 1..n, Owns(b.entities[i], x) PROVE \E j \in 0..n : Occurs(Visited(b, j), x)
    <3>1. PICK k \in Nat : k + 1 = i
      <4>1. i - 1 \in Nat /\ (i - 1) + 1 = i
        OBVIOUS
      <4>2. QED BY <4>1
    <3>2. Occurs(Visited(b, k + 1), x)
      BY <1>1, <2>2, <3>1, OccursNext
    <3>3. k + 1 \in 0..n
      BY <3>1
    <3>4. QED BY <3>2, <3>3
  <2>3. QED BY <1>1, <2>1, <2>2 DEF Observes
<1>3. PICK j \in 0..n : Occurs(Visited(b, j), x)
  BY <1>2
<1>4. DEFINE T == {m \in Nat : m \in j..n /\ ~Occurs(Visited(b, m), x)}
<1>5. T = {}
  <2>1. SUFFICES ASSUME T # {} PROVE FALSE
    OBVIOUS
  <2>2. T \in SUBSET Nat
    OBVIOUS
  <2> HIDE DEF T
  <2>3. PICK m \in T : \A l \in T : m <= l
    BY <2>1, <2>2, LeastElement
  <2>4. m \in j..n /\ ~Occurs(Visited(b, m), x)
    BY <2>3 DEF T
  <2>5. m # j
    BY <1>3, <2>4
  <2>6. PICK k \in Nat : k + 1 = m /\ k \in j..n
    <3>1. m - 1 \in Nat /\ (m - 1) + 1 = m /\ m - 1 \in j..n
      BY <2>4, <2>5
    <3>2. QED BY <3>1
  <2>7. Occurs(Visited(b, k), x)
    <3>1. ~(m <= k)
      BY <2>4, <2>6
    <3>2. k \notin T
      BY <2>3, <3>1
    <3>3. QED BY <2>6, <3>2 DEF T
  <2>8. k + 1 \in 1..n
    BY <2>4, <2>6
  <2>9. Occurs(Visited(b, k + 1), x)
    BY <1>1, <2>7, <2>8, OccursNext
  <2>10. QED BY <2>4, <2>6, <2>9
<1>6. n \in j..n
  OBVIOUS
<1>7. Occurs(Visited(b, n), x)
  BY <1>5, <1>6
<1>8. QED BY <1>1, <1>7, VisitedAll

\* mark_done reports an outcome for each column of the item.
LEMMA ToldMore ==
    ASSUME TypeOK, LoadInOrder, NEW c \in Client, MarkDone(c),
           NEW i \in done'[c], i \in done[c] => HasOutcomes(c, i)
    PROVE  HasOutcomes(c, i)'
<1> USE DEF TypeOK, PipelineTypeOK
<1>1. /\ Loaded(c)
      /\ done'[c] = done[c] \cup {Current(c)}
      /\ report'[c] = report[c] \o load[c].resolutions /\ delivered' = delivered
  BY DEF MarkDone, Marked
<1>2. PICK item \in Item : item = Current(c)
  BY <1>1, LoadedInOrder
<1>3. PICK columns \in Seq(Observation) : columns = IterColumns(Bundle[item])
  BY <1>1, <1>2, LoadedInOrder
<1>4. PICK t \in Seq(Outcome) : t = load[c].resolutions
  BY DEF Pending
<1>5. /\ Len(t) = Len(columns)
      /\ \A k \in 1..Len(t) : t[k].item = item /\ t[k].column = columns[k].column
  BY <1>1, <1>2, <1>3, <1>4, LoadedInOrder
<1>6. Range(report'[c]) = Range(report[c]) \cup Range(t)
  BY <1>1, <1>4, ConcatRange
<1>7. ASSUME NEW x, Observes(Bundle[item], x)
      PROVE  \E r \in Range(t) : r.item = item /\ r.column = x
  <2>1. PICK b \in ParsedBundle : b = Bundle[item]
    BY PipelineAssumption
  <2>2. PICK k \in DOMAIN columns : columns[k].column = x
    BY <1>3, <1>7, <2>1, ObservedOccurs DEF Occurs
  <2>3. k \in 1..Len(t) /\ k \in DOMAIN t
    BY <1>5, <2>2
  <2>4. t[k] \in Range(t) /\ t[k].item = item /\ t[k].column = x
    BY <1>5, <2>2, <2>3 DEF Range
  <2>5. QED BY <2>4
<1>8. ASSUME NEW x \in Column, Observes(Bundle[i], x)
      PROVE  \E r \in delivered'[c] \cup Range(report'[c]) : r.item = i /\ r.column = x
  <2>1. CASE i = item
    BY <1>6, <1>7, <1>8, <2>1
  <2>2. CASE i \in done[c]
    BY <1>1, <1>6, <1>8, <2>2 DEF HasOutcomes
  <2>3. QED BY <1>1, <1>2, <2>1, <2>2
<1>9. QED BY <1>8 DEF HasOutcomes

\* An exception, or a rejected relation, takes the report along and nothing else.
LEMMA LostWithReport ==
    ASSUME TypeOK, NEW c \in Client, Fail(c) \/ RejectRelation(c),
           NEW i \in done'[c], ~HasOutcomes(c, i)', HasOutcomes(c, i)
    PROVE  \E r \in Range(report[c]) : r.item = i
<1>1. delivered' = delivered
  BY DEF Fail, RejectRelation
<1>2. PICK x \in Column : /\ Observes(Bundle[i], x)
                          /\ ~\E r \in delivered'[c] : r.item = i /\ r.column = x
  BY DEF HasOutcomes
<1>3. PICK r \in delivered[c] \cup Range(report[c]) : r.item = i /\ r.column = x
  BY <1>2 DEF HasOutcomes
<1>4. r \in Range(report[c])
  BY <1>1, <1>2, <1>3
<1>5. QED BY <1>3, <1>4

\* Any other step of the process leaves its done items' outcomes where they are.
LEMMA OwnOutcomes ==
    ASSUME Ledger # "shared", TypeOK, LoadInOrder, NEW c \in Client, Step(c),
           ~Fail(c), ~RejectRelation(c),
           NEW i \in done'[c], i \in done[c] => HasOutcomes(c, i)
    PROVE  HasOutcomes(c, i)'
<1> USE DEF TypeOK, PipelineTypeOK
<1>1. ~Crash(c)
  BY DEF Crash
<1>2. ASSUME done'[c] \subseteq done[c],
             delivered'[c] \cup Range(report'[c]) = delivered[c] \cup Range(report[c])
      PROVE  HasOutcomes(c, i)'
  BY <1>2 DEF HasOutcomes
<1>3. CASE MarkDone(c)
  BY <1>3, ToldMore
<1>4. CASE FinishRun(c)
  <2>1. /\ delivered'[c] = delivered[c] \cup Range(report[c])
        /\ Range(report'[c]) = {} /\ done' = done
    BY <1>4, EmptyRange DEF FinishRun
  <2>2. QED BY <1>2, <2>1
<1>5. CASE Request(c)
  <2>1. done'[c] \subseteq done[c] /\ delivered' = delivered /\ report' = report
    BY <1>5 DEF Request, LoadPack, Answer, Ingest, StartRun, pipelineVars
  <2>2. QED BY <1>2, <2>1
<1>6. ASSUME UNCHANGED pipelineVars PROVE HasOutcomes(c, i)'
  BY <1>2, <1>6 DEF pipelineVars
<1>7. CASE UpsertDocument(c) \/ WriteLink(c) \/ UpsertColumn(c) \/ UpsertEntity(c) \/ Relate(c)
             \/ LookUpAlias(c) \/ Suggest(c) \/ Skip(c) \/ Fetch(c)
  <2>1. UNCHANGED <<done, report, delivered>>
    BY <1>7 DEF UpsertDocument, WriteLink, UpsertColumn, UpsertEntity, Relate, LookUpAlias,
                Suggest, Skip, Fetch
  <2>2. QED BY <1>2, <2>1
<1>8. QED BY <1>1, <1>3, <1>4, <1>5, <1>6, <1>7 DEF Step, Work, RunStep, LoadStep

\* For every instance with ledgers of their own, whatever raises, is rejected or
\* crashes: a done item whose outcomes the caller neither has nor will get lost them
\* to an exception of the run that loaded it (pipeline.py:54-55).
THEOREM OutcomesKept ==
    ASSUME Ledger # "shared"
    PROVE  Spec => OutcomesLostWithReport
<1>1. TypeOK /\ LoadInOrder /\ [Next]_vars => [OutcomesLostByRaise]_vars
  <2> SUFFICES ASSUME TypeOK, LoadInOrder, NEW c \in Client, Step(c), NEW d \in Client,
                      NEW i \in done'[d], ~HasOutcomes(d, i)', i \in done[d] => HasOutcomes(d, i)
               PROVE  /\ Fail(d) \/ RejectRelation(d)
                      /\ \E r \in Range(report[d]) : r.item = i
    BY DEF Next, Step, OutcomesLostByRaise
  <2>1. CASE d # c
    BY <2>1, OthersOutcomes, OthersLedgers DEF HasOutcomes
  <2>2. CASE d = c
    <3>1. Fail(c) \/ RejectRelation(c)
      BY <2>2, OwnOutcomes
    <3>2. i \in done[c]
      BY <2>2, <3>1 DEF Fail, RejectRelation
    <3>3. QED BY <2>2, <3>1, <3>2, LostWithReport
  <2>3. QED BY <2>1, <2>2
<1>2. LinkInv /\ LinkInv' /\ LoadInOrder /\ [Next]_vars => LoadInOrder'
  BY LoadInOrderNext DEF LinkInv, Inv
<1>3. LinkInv => TypeOK
  BY DEF LinkInv, Inv
<1>4. QED BY <1>1, <1>2, <1>3, OrderInit, LinkInvInit, LinkInvNext, PTL
          DEF Spec, OutcomesLostWithReport
==============================================================================
