-------------------------- MODULE Editors_proofs ---------------------------
(***************************************************************************)
(* Proofs about the two editors, for any sets of ids, rungs, types and      *)
(* diagrams and any undo limit.                                             *)
(*                                                                          *)
(* The canvas: every operation of LdGraph leaves a well-formed diagram well *)
(* formed, wires the branches of every rung whose contents it changes, and  *)
(* leaves the wires of the other rungs alone; hence so does every gesture   *)
(* of LdCanvas, and the text of a valid diagram names all that it shows.    *)
(* The document of LdHistory: the pointer stays inside the snapshots, and   *)
(* array and pointer implement the undo history of module UndoHistory.      *)
(* The function block diagram: while no two nodes share an id, no operation *)
(* but a gate's change of type leaves a wire to a node or pin that is not   *)
(* there.                                                                   *)
(***************************************************************************)
EXTENDS LdCanvas, LdHistory, FbdDiagram, SequenceTheorems, FiniteSetTheorems,
        WellFoundedInduction, TLAPS

(* A set of naturals that is not empty has a least element.                 *)
LEMMA LeastElement ==
  ASSUME NEW T, T \subseteq Nat, T # {}
  PROVE  \E x \in T : \A y \in T : x <= y
<1> DEFINE R == {ss \in Nat \X Nat : ss[1] < ss[2]}
<1>1. IsWellFoundedOn(R, Nat)
  BY NatLessThanWellFounded, Zenon DEF OpToRel
<1>2. PICK x \in T : \A y \in T : ~ (<<y, x>> \in R)
  BY <1>1, WFMin, Zenon
<1>3. \A y \in T : ~(y < x)
  BY <1>2
<1> QED
  BY <1>3

(* A set that holds 0 and with each natural its successor holds them all.   *)
LEMMA NaturalsIn ==
  ASSUME NEW T, 0 \in T, \A n \in Nat : n \in T => n + 1 \in T
  PROVE  Nat \subseteq T
<1> SUFFICES ASSUME Nat \ T # {} PROVE FALSE
  OBVIOUS
<1>1. PICK x \in Nat \ T : \A y \in Nat \ T : x <= y
  BY LeastElement, Zenon
<1>2. x - 1 \in Nat /\ x - 1 \in T
  BY <1>1
<1> QED
  BY <1>1, <1>2

(* Indices found in a sequence are indices of it.                           *)
LEMMA FirstIndex ==
  ASSUME NEW n \in Nat, NEW T, T \subseteq 1..n, T # {}
  PROVE  Min(T) \in T
<1>1. T \subseteq Nat
  OBVIOUS
<1>2. \E x \in T : \A y \in T : x <= y
  BY <1>1, LeastElement
<1> QED
  BY <1>2, Zenon DEF Min

(* The greatest element of a set of indexes is one of them.                 *)
LEMMA LastIndex ==
  ASSUME NEW n \in Nat, NEW T, T \subseteq 1..n, T # {}
  PROVE  Max(T) \in T
<1> DEFINE U == {n - i : i \in T}
<1>1. U \subseteq Nat /\ U # {}
  <2>1. \A i \in T : n - i \in Nat
    OBVIOUS
  <2> QED
    BY <2>1
<1>2. PICK u \in U : \A v \in U : u <= v
  BY <1>1, LeastElement, Zenon
<1>3. PICK x \in T : u = n - x
  BY <1>2
<1>4. \A y \in T : x >= y
  <2> TAKE y \in T
  <2>1. n - y \in U
    OBVIOUS
  <2> QED
    BY <1>2, <1>3, <2>1
<1> QED
  BY <1>3, <1>4, Zenon DEF Max

------------------------------------------------------------------------------
(* What filter leaves.                                                      *)

\* The recursion of Drop, for a candidate function f ...
DropDef(s, ids, n, f) == IF n = 0 THEN <<>>
                         ELSE IF s[n] \in ids THEN f[n - 1]
                         ELSE Append(f[n - 1], s[n])
\* ... that satisfies it up to m.
DropsUpto(s, ids, m, f) == f = [n \in 0..m |-> DropDef(s, ids, n, f)]

(* A recursion on the first m elements has a solution.                      *)
LEMMA DropExists ==
  ASSUME NEW S, NEW s \in Seq(S), NEW ids, NEW m \in Nat
  PROVE  \E f : DropsUpto(s, ids, m, f)
<1> USE DEF DropsUpto
<1> DEFINE T == {k \in Nat : \E f : f = [n \in 0..k |-> DropDef(s, ids, n, f)]}
<1>1. 0 \in T
  <2> DEFINE f == [n \in 0..0 |-> <<>>]
  <2>1. f = [n \in 0..0 |-> DropDef(s, ids, n, f)]
    BY DEF DropDef
  <2> QED
    BY <2>1
<1>2. ASSUME NEW k \in Nat, k \in T
      PROVE  k + 1 \in T
  <2>1. PICK f : f = [n \in 0..k |-> DropDef(s, ids, n, f)]
    BY <1>2
  <2> DEFINE h == [n \in 0..(k + 1) |-> IF n = k + 1 THEN DropDef(s, ids, n, f) ELSE f[n]]
  <2>2. \A n \in 0..(k + 1) : h[n] = DropDef(s, ids, n, h)
    <3> TAKE n \in 0..(k + 1)
    <3>1. n # 0 => h[n - 1] = f[n - 1]
      OBVIOUS
    <3>2. DropDef(s, ids, n, h) = DropDef(s, ids, n, f)
      BY <3>1 DEF DropDef
    <3>3. n # k + 1 => f[n] = DropDef(s, ids, n, f)
      BY <2>1, n \in 0..k \/ n = k + 1
    <3> QED
      BY <3>2, <3>3
  <2>3. h = [n \in 0..(k + 1) |-> DropDef(s, ids, n, h)]
    BY <2>2
  <2>4. \E e : e = [n \in 0..(k + 1) |-> DropDef(s, ids, n, e)]
    <3> HIDE DEF h
    <3> QED
      BY <2>3
  <2> QED
    BY <2>4
<1> QED
  BY <1>1, <1>2, NaturalsIn

(* Facts about sequences: what they list, and whether once.                 *)
LEMMA ElementsIn ==
  ASSUME NEW S, NEW s \in Seq(S)
  PROVE  /\ Len(s) \in Nat /\ DOMAIN s = 1..Len(s)
         /\ ToSet(s) \subseteq S
         /\ \A i \in 1..Len(s) : s[i] \in S /\ s[i] \in ToSet(s)
BY DEF ToSet

(* What a sequence lists with one more element at its end.                  *)
LEMMA AppendLists ==
  ASSUME NEW S, NEW s \in Seq(S), NEW x \in S
  PROVE  /\ Append(s, x) \in Seq(S)
         /\ ToSet(Append(s, x)) = ToSet(s) \cup {x}
         /\ IsInjective(s) /\ x \notin ToSet(s) => IsInjective(Append(s, x))
<1> DEFINE t == Append(s, x)
<1>1. /\ t \in Seq(S) /\ Len(s) \in Nat /\ Len(t) = Len(s) + 1
      /\ \A i \in 1..Len(s) : t[i] = s[i]
      /\ t[Len(s) + 1] = x
  OBVIOUS
<1>2. DOMAIN s = 1..Len(s) /\ DOMAIN t = 1..(Len(s) + 1)
  BY <1>1
<1> HIDE DEF t
<1>3. ToSet(t) = ToSet(s) \cup {x}
  <2>1. ASSUME NEW i \in DOMAIN t PROVE t[i] \in ToSet(s) \cup {x}
    BY <1>1, <1>2, i \in 1..Len(s) \/ i = Len(s) + 1 DEF ToSet
  <2>2. ASSUME NEW i \in DOMAIN s PROVE s[i] \in ToSet(t)
    BY <1>1, <1>2 DEF ToSet
  <2>3. x \in ToSet(t)
    BY <1>1, <1>2 DEF ToSet
  <2> QED
    BY <2>1, <2>2, <2>3 DEF ToSet
<1>4. ASSUME IsInjective(s), x \notin ToSet(s) PROVE IsInjective(t)
  <2>1. \A i \in DOMAIN s : s[i] # x
    BY <1>4 DEF ToSet
  <2>2. \A i \in DOMAIN t : i \in DOMAIN s \/ i = Len(s) + 1
    BY <1>1, <1>2
  <2> QED
    BY <1>1, <1>2, <1>4, <2>1, <2>2 DEF IsInjective
<1> QED
  BY <1>1, <1>3, <1>4 DEF t

(* Drop, the model of filter, leaves the elements it does not drop, each as *)
(* often as before.                                                         *)
LEMMA DropLists ==
  ASSUME NEW S, NEW s \in Seq(S), NEW ids
  PROVE  /\ Drop(s, ids) \in Seq(S)
         /\ ToSet(Drop(s, ids)) = ToSet(s) \ ids
         /\ IsInjective(s) => IsInjective(Drop(s, ids))
         /\ ToSet(s) \cap ids = {} => Drop(s, ids) = s
<1> DEFINE drop[n \in 0..Len(s)] == IF n = 0 THEN <<>>
                                    ELSE IF s[n] \in ids THEN drop[n - 1]
                                    ELSE Append(drop[n - 1], s[n])
           Upto(n) == {s[i] : i \in 1..n} \ ids
           Starts(n, t) == Len(t) = n /\ \A i \in 1..n : t[i] = s[i]
           T == {n \in Nat : n <= Len(s) =>
                   /\ drop[n] \in Seq(S)
                   /\ ToSet(drop[n]) = Upto(n)
                   /\ IsInjective(s) => IsInjective(drop[n])
                   /\ ToSet(s) \cap ids = {} => Starts(n, drop[n])}
<1>1. Drop(s, ids) = drop[Len(s)]
  BY Zenon DEF Drop
<1>2. drop = [n \in 0..Len(s) |-> DropDef(s, ids, n, drop)]
  <2> DEFINE E(f) == DropsUpto(s, ids, Len(s), f)
  <2>1. \E f : E(f)
    <3>1. s \in Seq(S) /\ Len(s) \in Nat
      OBVIOUS
    <3> QED
      BY <3>1, DropExists, Zenon
  <2>2. E(CHOOSE f : E(f))
    BY <2>1, Zenon
  <2>3. drop = CHOOSE f : E(f)
    BY Zenon DEF DropDef, DropsUpto
  <2> HIDE DEF drop
  <2> QED
    BY <2>2, <2>3, Zenon DEF DropsUpto
<1> HIDE DEF drop
<1>3. \A n \in 0..Len(s) : drop[n] = DropDef(s, ids, n, drop)
  BY <1>2, Zenon
<1>4. 0 \in T
  <2>1. drop[0] = <<>>
    BY <1>3 DEF DropDef
  <2>2. ToSet(<<>>) = {} /\ IsInjective(<<>>)
    BY DEF ToSet, IsInjective
  <2>3. Upto(0) = {} /\ <<>> \in Seq(S) /\ Starts(0, <<>>)
    OBVIOUS
  <2> HIDE DEF Upto, Starts
  <2> QED
    BY <2>1, <2>2, <2>3
<1>5. ASSUME NEW n \in Nat, n \in T
      PROVE  n + 1 \in T
  <2> SUFFICES ASSUME n + 1 <= Len(s)
               PROVE  /\ drop[n + 1] \in Seq(S)
                      /\ ToSet(drop[n + 1]) = Upto(n + 1)
                      /\ IsInjective(s) => IsInjective(drop[n + 1])
                      /\ ToSet(s) \cap ids = {} => Starts(n + 1, drop[n + 1])
    BY <1>5
  <2> DEFINE x == s[n + 1]
  <2>1. /\ drop[n] \in Seq(S)
        /\ ToSet(drop[n]) = Upto(n)
        /\ IsInjective(s) => IsInjective(drop[n])
        /\ ToSet(s) \cap ids = {} => Starts(n, drop[n])
    BY <1>5
  <2>2. x \in S /\ n + 1 \in DOMAIN s
    OBVIOUS
  <2>3. drop[n + 1] = IF x \in ids THEN drop[n] ELSE Append(drop[n], x)
    BY <1>3 DEF DropDef
  <2>4. 1..(n + 1) = 1..n \cup {n + 1}
    OBVIOUS
  <2>5. Upto(n + 1) = IF x \in ids THEN Upto(n) ELSE Upto(n) \cup {x}
    BY <2>4
  <2>6. IsInjective(s) => x \notin Upto(n)
    <3>1. \A i \in 1..n : i \in DOMAIN s /\ i # n + 1
      OBVIOUS
    <3> QED
      BY <2>2, <3>1 DEF IsInjective
  <2>7. x \in ToSet(s)
    BY <2>2 DEF ToSet
  <2>8. Starts(n, drop[n]) => Starts(n + 1, Append(drop[n], x))
    BY <2>1
  <2> HIDE DEF x, Upto, T, Starts
  <2>9. CASE x \in ids
    BY <2>1, <2>3, <2>5, <2>9, <2>7
  <2>10. CASE x \notin ids
    <3>1. /\ Append(drop[n], x) \in Seq(S)
          /\ ToSet(Append(drop[n], x)) = Upto(n) \cup {x}
          /\ IsInjective(s) => IsInjective(Append(drop[n], x))
      BY <2>1, <2>2, <2>6, AppendLists
    <3> QED
      BY <2>1, <2>3, <2>5, <2>10, <2>8, <3>1
  <2> QED
    BY <2>9, <2>10
<1>6. Len(s) \in T
  <2> HIDE DEF T
  <2>1. Nat \subseteq T
    BY <1>4, <1>5, NaturalsIn
  <2> QED
    BY <2>1
<1>7. ToSet(s) \ ids = Upto(Len(s))
  BY DEF ToSet
<1>8. ASSUME ToSet(s) \cap ids = {} PROVE drop[Len(s)] = s
  <2> DEFINE t == drop[Len(s)]
  <2>1. t \in Seq(S) /\ Len(t) = Len(s) /\ \A i \in 1..Len(s) : t[i] = s[i]
    BY <1>6, <1>8
  <2> HIDE DEF t
  <2>2. t = s
    BY <2>1, SeqEqual
  <2> QED
    BY <2>2 DEF t
<1> QED
  BY <1>1, <1>6, <1>7, <1>8

------------------------------------------------------------------------------
(* What concatenation lists.                                                *)

(* One sequence behind another.                                             *)
LEMMA ConcatLists ==
  ASSUME NEW S, NEW s \in Seq(S), NEW t \in Seq(S)
  PROVE  /\ s \o t \in Seq(S)
         /\ ToSet(s \o t) = ToSet(s) \cup ToSet(t)
         /\ IsInjective(s) /\ IsInjective(t) /\ ToSet(s) \cap ToSet(t) = {}
              => IsInjective(s \o t)
<1> DEFINE u == s \o t
<1>1. /\ u \in Seq(S) /\ Len(s) \in Nat /\ Len(t) \in Nat /\ Len(u) = Len(s) + Len(t)
      /\ \A i \in 1..Len(s) : u[i] = s[i]
      /\ \A i \in 1..Len(t) : u[Len(s) + i] = t[i]
  OBVIOUS
<1>2. DOMAIN s = 1..Len(s) /\ DOMAIN t = 1..Len(t) /\ DOMAIN u = 1..(Len(s) + Len(t))
  BY <1>1
<1> HIDE DEF u
<1>3. \A i \in DOMAIN u : \/ i \in DOMAIN s /\ u[i] = s[i]
                          \/ i - Len(s) \in DOMAIN t /\ i \notin DOMAIN s /\ u[i] = t[i - Len(s)]
  <2> TAKE i \in DOMAIN u
  <2>1. CASE i <= Len(s)
    BY <1>1, <1>2, <2>1
  <2>2. CASE ~(i <= Len(s))
    <3> DEFINE k == i - Len(s)
    <3>1. k \in 1..Len(t) /\ i = Len(s) + k /\ i \notin DOMAIN s
      BY <1>1, <1>2, <2>2
    <3> HIDE DEF k
    <3>2. u[i] = t[k]
      BY <1>1, <3>1
    <3> QED
      BY <1>2, <3>1, <3>2 DEF k
  <2> QED
    BY <2>1, <2>2
<1>4. ToSet(u) = ToSet(s) \cup ToSet(t)
  <2>1. \A i \in DOMAIN u : u[i] \in ToSet(s) \cup ToSet(t)
    BY <1>3 DEF ToSet
  <2>2. \A i \in DOMAIN s : s[i] \in ToSet(u)
    BY <1>1, <1>2 DEF ToSet
  <2>3. \A i \in DOMAIN t : t[i] \in ToSet(u)
    <3> TAKE i \in DOMAIN t
    <3>1. Len(s) + i \in DOMAIN u /\ u[Len(s) + i] = t[i]
      BY <1>1, <1>2
    <3> QED
      BY <3>1 DEF ToSet
  <2> QED
    BY <2>1, <2>2, <2>3 DEF ToSet
<1>5. ASSUME IsInjective(s), IsInjective(t), ToSet(s) \cap ToSet(t) = {}
      PROVE  IsInjective(u)
  <2>1. \A i \in DOMAIN s, j \in DOMAIN t : s[i] # t[j]
    BY <1>5 DEF ToSet
  <2>2. ASSUME NEW i \in DOMAIN u, NEW j \in DOMAIN u, u[i] = u[j]
        PROVE  i = j
    <3>1. CASE i \in DOMAIN s /\ j \in DOMAIN s
      BY <1>3, <1>5, <1>1, <1>2, <2>2, <3>1 DEF IsInjective
    <3>2. CASE i \in DOMAIN s /\ j \notin DOMAIN s
      BY <1>3, <2>1, <2>2, <3>2
    <3>3. CASE i \notin DOMAIN s /\ j \in DOMAIN s
      BY <1>3, <2>1, <2>2, <3>3
    <3>4. CASE i \notin DOMAIN s /\ j \notin DOMAIN s
      <4>1. i - Len(s) = j - Len(s)
        BY <1>3, <1>5, <2>2, <3>4 DEF IsInjective
      <4> QED
        BY <1>1, <1>2, <4>1
    <3> QED
      BY <3>1, <3>2, <3>3, <3>4
  <2> QED
    BY <2>2 DEF IsInjective
<1> QED
  BY <1>1, <1>4, <1>5 DEF u

\* The recursion of FlattenSeq, for a candidate function f ...
FlattenDef(ss, i, f) == IF i = 1 THEN ss[i] ELSE f[i - 1] \o ss[i]
\* ... that satisfies it up to m.
FlattensUpto(ss, m, f) == f = [i \in 1..m |-> FlattenDef(ss, i, f)]

(* That recursion has a solution too.                                       *)
LEMMA FlattenExists ==
  ASSUME NEW ss, NEW m \in Nat
  PROVE  \E f : FlattensUpto(ss, m, f)
<1> USE DEF FlattensUpto
<1> DEFINE T == {k \in Nat : \E f : f = [i \in 1..k |-> FlattenDef(ss, i, f)]}
<1>1. 0 \in T
  <2> DEFINE f == [i \in 1..0 |-> <<>>]
  <2>1. f = [i \in 1..0 |-> FlattenDef(ss, i, f)]
    OBVIOUS
  <2> QED
    BY <2>1
<1>2. ASSUME NEW k \in Nat, k \in T
      PROVE  k + 1 \in T
  <2>1. PICK f : f = [i \in 1..k |-> FlattenDef(ss, i, f)]
    BY <1>2
  <2> DEFINE h == [i \in 1..(k + 1) |-> IF i = k + 1 THEN FlattenDef(ss, i, f) ELSE f[i]]
  <2>2. \A i \in 1..(k + 1) : h[i] = FlattenDef(ss, i, h)
    <3> TAKE i \in 1..(k + 1)
    <3>1. i # 1 => h[i - 1] = f[i - 1]
      OBVIOUS
    <3>2. FlattenDef(ss, i, h) = FlattenDef(ss, i, f)
      BY <3>1 DEF FlattenDef
    <3>3. i # k + 1 => f[i] = FlattenDef(ss, i, f)
      BY <2>1, i \in 1..k \/ i = k + 1
    <3> QED
      BY <3>2, <3>3
  <2>3. h = [i \in 1..(k + 1) |-> FlattenDef(ss, i, h)]
    BY <2>2
  <2>4. \E e : e = [i \in 1..(k + 1) |-> FlattenDef(ss, i, e)]
    <3> HIDE DEF h
    <3> QED
      BY <2>3
  <2> QED
    BY <2>4
<1> QED
  BY <1>1, <1>2, NaturalsIn

(* FlattenSeq lists what the sequences list, once if each lists it once and *)
(* no two list the same.                                                    *)
LEMMA FlattenLists ==
  ASSUME NEW S, NEW ss \in Seq(Seq(S)),
         \A i \in DOMAIN ss : IsInjective(ss[i]),
         \A i, j \in DOMAIN ss : i # j => ToSet(ss[i]) \cap ToSet(ss[j]) = {}
  PROVE  /\ FlattenSeq(ss) \in Seq(S) /\ IsInjective(FlattenSeq(ss))
         /\ ToSet(FlattenSeq(ss)) = UNION {ToSet(ss[i]) : i \in DOMAIN ss}
<1> DEFINE flatten[i \in 1..Len(ss)] == IF i = 1 THEN ss[i] ELSE flatten[i - 1] \o ss[i]
           Upto(n) == UNION {ToSet(ss[i]) : i \in 1..n}
           T == {n \in Nat : 1 <= n /\ n <= Len(ss) =>
                   /\ flatten[n] \in Seq(S) /\ IsInjective(flatten[n])
                   /\ ToSet(flatten[n]) = Upto(n)}
<1>1. FlattenSeq(ss) = IF Len(ss) = 0 THEN ss ELSE flatten[Len(ss)]
  BY Zenon DEF FlattenSeq
<1>2. flatten = [i \in 1..Len(ss) |-> FlattenDef(ss, i, flatten)]
  <2> DEFINE E(f) == FlattensUpto(ss, Len(ss), f)
  <2>1. \E f : E(f)
    <3>1. Len(ss) \in Nat
      OBVIOUS
    <3> QED
      BY <3>1, FlattenExists, Zenon
  <2>2. E(CHOOSE f : E(f))
    BY <2>1, Zenon
  <2>3. flatten = CHOOSE f : E(f)
    BY Zenon DEF FlattenDef, FlattensUpto
  <2> HIDE DEF flatten
  <2> QED
    BY <2>2, <2>3, Zenon DEF FlattensUpto
<1> HIDE DEF flatten
<1>3. \A i \in 1..Len(ss) : flatten[i] = FlattenDef(ss, i, flatten)
  BY <1>2, Zenon
<1>4. /\ Len(ss) \in Nat /\ DOMAIN ss = 1..Len(ss)
      /\ \A i \in 1..Len(ss) : ss[i] \in Seq(S)
  OBVIOUS
<1>5. 0 \in T
  OBVIOUS
<1>6. ASSUME NEW n \in Nat, n \in T
      PROVE  n + 1 \in T
  <2> SUFFICES ASSUME n + 1 <= Len(ss)
               PROVE  /\ flatten[n + 1] \in Seq(S) /\ IsInjective(flatten[n + 1])
                      /\ ToSet(flatten[n + 1]) = Upto(n + 1)
    OBVIOUS
  <2> DEFINE x == ss[n + 1]
  <2>1. n + 1 \in 1..Len(ss) /\ x \in Seq(S) /\ IsInjective(x)
    <3>1. n + 1 \in 1..Len(ss)
      BY <1>4
    <3> QED
      BY <1>4, <3>1
  <2>2. flatten[n + 1] = IF n = 0 THEN x ELSE flatten[n] \o x
    <3>1. n + 1 = 1 <=> n = 0
      OBVIOUS
    <3>2. (n + 1) - 1 = n
      OBVIOUS
    <3> QED
      BY <1>3, <2>1, <3>1, <3>2 DEF FlattenDef
  <2>3. 1..(n + 1) = 1..n \cup {n + 1}
    OBVIOUS
  <2>4. Upto(n + 1) = Upto(n) \cup ToSet(x)
    BY <2>3
  <2>5. CASE n = 0
    <3>1. Upto(0) = {}
      OBVIOUS
    <3> HIDE DEF Upto, x
    <3> QED
      BY <2>1, <2>2, <2>4, <2>5, <3>1
  <2>6. CASE n # 0
    <3>1. /\ flatten[n] \in Seq(S) /\ IsInjective(flatten[n])
          /\ ToSet(flatten[n]) = Upto(n)
      BY <1>6, <2>6
    <3>2. \A i \in 1..n : ToSet(ss[i]) \cap ToSet(x) = {}
      <4>1. \A i \in 1..n : i \in DOMAIN ss /\ n + 1 \in DOMAIN ss /\ i # n + 1
        BY <1>4
      <4> QED
        BY <4>1
    <3>3. Upto(n) \cap ToSet(x) = {}
      BY <3>2
    <3> DEFINE t == flatten[n]
    <3> HIDE DEF Upto, x, t
    <3>4. /\ t \in Seq(S) /\ IsInjective(t) /\ ToSet(t) = Upto(n)
          /\ ToSet(t) \cap ToSet(x) = {}
      BY <3>1, <3>3 DEF t
    <3>5. t \o x \in Seq(S) /\ IsInjective(t \o x) /\ ToSet(t \o x) = Upto(n) \cup ToSet(x)
      BY <2>1, <3>4, ConcatLists
    <3>6. flatten[n + 1] = t \o x
      BY <2>2, <2>6 DEF t
    <3> QED
      BY <2>4, <3>5, <3>6
  <2> QED
    BY <2>5, <2>6
<1>7. Len(ss) \in T
  <2> HIDE DEF T
  <2>1. Nat \subseteq T
    BY <1>5, <1>6, NaturalsIn
  <2> QED
    BY <1>4, <2>1
<1>8. CASE Len(ss) = 0
  <2>1. ss = <<>> /\ DOMAIN ss = {}
    BY <1>8
  <2> QED
    BY <1>1, <1>8, <2>1 DEF ToSet, IsInjective
<1>9. CASE Len(ss) # 0
  BY <1>1, <1>4, <1>7, <1>9
<1> QED
  BY <1>8, <1>9

(* What a slice of a sequence is. *)
LEMMA Slice ==
  ASSUME NEW S, NEW s \in Seq(S), NEW m \in Nat \ {0}, NEW n \in 0..Len(s)
  PROVE  /\ SubSeq(s, m, n) \in Seq(S)
         /\ Len(SubSeq(s, m, n)) = IF m <= n THEN n - m + 1 ELSE 0
         /\ \A i \in 1..(n - m + 1) : SubSeq(s, m, n)[i] = s[m + i - 1]
<1>1. \A i \in m..n : s[i] \in S
  BY ElementOfSeq
<1> QED
  BY <1>1, SubSeqProperties

(* A sequence with one more element behind the first `at', and without its  *)
(* i-th.                                                                    *)
LEMMA Spliced ==
  ASSUME NEW S, NEW s \in Seq(S), NEW x \in S, NEW at \in 0..Len(s)
  PROVE  /\ Insert(s, at, <<x>>) \in Seq(S) /\ Len(Insert(s, at, <<x>>)) = Len(s) + 1
         /\ \A j \in 1..at : Insert(s, at, <<x>>)[j] = s[j]
         /\ Insert(s, at, <<x>>)[at + 1] = x
         /\ \A j \in (at + 2)..(Len(s) + 1) : Insert(s, at, <<x>>)[j] = s[j - 1]
<1> DEFINE a == SubSeq(s, 1, at)
           b == SubSeq(s, at + 1, Len(s))
<1>1. /\ a \in Seq(S) /\ Len(a) = at
      /\ \A j \in 1..at : a[j] = s[j]
  <2>1. 1 \in Nat \ {0} /\ at \in 0..Len(s)
    OBVIOUS
  <2>2. /\ a \in Seq(S)
        /\ Len(a) = IF 1 <= at THEN at - 1 + 1 ELSE 0
        /\ \A j \in 1..(at - 1 + 1) : a[j] = s[1 + j - 1]
    BY <2>1, Slice
  <2> QED
    BY <2>2
<1>2. /\ b \in Seq(S) /\ Len(b) = Len(s) - at
      /\ \A j \in 1..(Len(s) - at) : b[j] = s[at + j]
  <2>1. at + 1 \in Nat \ {0} /\ Len(s) \in 0..Len(s)
    OBVIOUS
  <2>2. /\ b \in Seq(S)
        /\ Len(b) = IF at + 1 <= Len(s) THEN Len(s) - (at + 1) + 1 ELSE 0
        /\ \A j \in 1..(Len(s) - (at + 1) + 1) : b[j] = s[at + 1 + j - 1]
    BY <2>1, Slice
  <2> QED
    BY <2>2
<1> HIDE DEF a, b
<1> DEFINE c == a \o <<x>>
           t == c \o b
<1>3. /\ c \in Seq(S) /\ Len(c) = at + 1
      /\ \A j \in 1..at : c[j] = s[j]
      /\ c[at + 1] = x
  BY <1>1
<1> HIDE DEF c
<1>4. /\ t \in Seq(S) /\ Len(t) = Len(s) + 1
      /\ \A j \in 1..(at + 1) : t[j] = c[j]
      /\ \A j \in (at + 2)..(Len(s) + 1) : t[j] = b[j - (at + 1)]
  BY <1>2, <1>3
<1>5. \A j \in (at + 2)..(Len(s) + 1) : t[j] = s[j - 1]
  BY <1>2, <1>4
<1> HIDE DEF t
<1>6. /\ t \in Seq(S) /\ Len(t) = Len(s) + 1
      /\ \A j \in 1..at : t[j] = s[j]
      /\ t[at + 1] = x
      /\ \A j \in (at + 2)..(Len(s) + 1) : t[j] = s[j - 1]
  BY <1>3, <1>4, <1>5
<1> QED
  BY <1>6, Zenon DEF a, b, c, t, Insert

(* RemoveAt of the community modules takes the i-th element out.            *)
LEMMA Removed ==
  ASSUME NEW S, NEW s \in Seq(S), NEW i \in 1..Len(s)
  PROVE  /\ RemoveAt(s, i) \in Seq(S) /\ Len(RemoveAt(s, i)) = Len(s) - 1
         /\ \A j \in 1..(i - 1) : RemoveAt(s, i)[j] = s[j]
         /\ \A j \in i..(Len(s) - 1) : RemoveAt(s, i)[j] = s[j + 1]
<1> DEFINE a == SubSeq(s, 1, i - 1)
           b == SubSeq(s, i + 1, Len(s))
<1>1. /\ a \in Seq(S) /\ Len(a) = i - 1
      /\ \A j \in 1..(i - 1) : a[j] = s[j]
  <2>1. 1 \in Nat \ {0} /\ i - 1 \in 0..Len(s)
    OBVIOUS
  <2>2. /\ a \in Seq(S)
        /\ Len(a) = IF 1 <= i - 1 THEN i - 1 - 1 + 1 ELSE 0
        /\ \A j \in 1..(i - 1 - 1 + 1) : a[j] = s[1 + j - 1]
    BY <2>1, Slice
  <2> QED
    BY <2>2
<1>2. /\ b \in Seq(S) /\ Len(b) = Len(s) - i
      /\ \A j \in 1..(Len(s) - i) : b[j] = s[i + j]
  <2>1. i + 1 \in Nat \ {0} /\ Len(s) \in 0..Len(s)
    OBVIOUS
  <2>2. /\ b \in Seq(S)
        /\ Len(b) = IF i + 1 <= Len(s) THEN Len(s) - (i + 1) + 1 ELSE 0
        /\ \A j \in 1..(Len(s) - (i + 1) + 1) : b[j] = s[i + 1 + j - 1]
    BY <2>1, Slice
  <2> QED
    BY <2>2
<1> HIDE DEF a, b
<1> DEFINE t == a \o b
<1>3. /\ t \in Seq(S) /\ Len(t) = Len(s) - 1
      /\ \A j \in 1..(i - 1) : t[j] = a[j]
      /\ \A j \in i..(Len(s) - 1) : t[j] = b[j - (i - 1)]
  <2>1. /\ t \in Seq(S)
        /\ Len(t) = Len(a) + Len(b)
        /\ \A j \in 1..Len(a) + Len(b) : t[j] = IF j <= Len(a) THEN a[j] ELSE b[j - Len(a)]
    BY <1>1, <1>2, ConcatProperties
  <2>2. Len(a) = i - 1 /\ Len(a) + Len(b) = Len(s) - 1
    BY <1>1, <1>2
  <2> HIDE DEF t
  <2> QED
    BY <2>1, <2>2
<1> HIDE DEF t
<1>4. \A j \in i..(Len(s) - 1) : t[j] = s[j + 1]
  <2> TAKE j \in i..(Len(s) - 1)
  <2>1. j - (i - 1) \in 1..(Len(s) - i) /\ i + (j - (i - 1)) = j + 1
    OBVIOUS
  <2>2. t[j] = b[j - (i - 1)]
    BY <1>3
  <2> QED
    BY <1>2, <2>1, <2>2
<1>5. RemoveAt(s, i) = t
  BY Zenon DEF RemoveAt, a, b, t
<1> QED
  BY <1>1, <1>3, <1>4, <1>5

\* t is s with x at index i.
HasInserted(t, s, i, x) == /\ Len(t) = Len(s) + 1
                           /\ \A j \in 1..(i - 1) : t[j] = s[j]
                           /\ t[i] = x
                           /\ \A j \in (i + 1)..(Len(s) + 1) : t[j] = s[j - 1]

(* InsertAt of the community modules inserts as HasInserted says.           *)
LEMMA InsertedAt ==
  ASSUME NEW S, NEW s \in Seq(S), NEW x \in S, NEW to \in 1..(Len(s) + 1)
  PROVE  InsertAt(s, to, x) \in Seq(S) /\ HasInserted(InsertAt(s, to, x), s, to, x)
<1> DEFINE at == to - 1
           t  == Insert(s, at, <<x>>)
<1>1. at \in 0..Len(s) /\ at + 1 = to /\ at + 2 = to + 1 /\ to - 1 = at
  OBVIOUS
<1>2. InsertAt(s, to, x) = SubSeq(s, 1, to - 1) \o <<x>> \o SubSeq(s, to, Len(s))
  BY Zenon DEF InsertAt
<1> HIDE DEF at
<1>3. InsertAt(s, to, x) = t
  BY <1>1, <1>2, Zenon DEF Insert
<1>4. t \in Seq(S) /\ Len(t) = Len(s) + 1
  BY <1>1, Spliced
<1>5. \A j \in 1..at : t[j] = s[j]
  BY <1>1, Spliced
<1>6. t[at + 1] = x
  BY <1>1, Spliced
<1>7. \A j \in (at + 2)..(Len(s) + 1) : t[j] = s[j - 1]
  BY <1>1, Spliced
<1> HIDE DEF t
<1> QED
  BY <1>1, <1>3, <1>4, <1>5, <1>6, <1>7 DEF HasInserted

(* What a sequence lists with one more element somewhere in it.             *)
LEMMA InsertLists ==
  ASSUME NEW S, NEW s \in Seq(S), NEW x \in S, NEW at \in 0..Len(s)
  PROVE  /\ Insert(s, at, <<x>>) \in Seq(S)
         /\ ToSet(Insert(s, at, <<x>>)) = ToSet(s) \cup {x}
         /\ IsInjective(s) /\ x \notin ToSet(s) => IsInjective(Insert(s, at, <<x>>))
<1> DEFINE t == Insert(s, at, <<x>>)
<1>1. /\ t \in Seq(S) /\ Len(t) = Len(s) + 1
      /\ \A j \in 1..at : t[j] = s[j]
      /\ t[at + 1] = x
      /\ \A j \in (at + 2)..(Len(s) + 1) : t[j] = s[j - 1]
  <2>1. t \in Seq(S) /\ Len(t) = Len(s) + 1
    BY Spliced
  <2>2. \A j \in 1..at : t[j] = s[j]
    BY Spliced
  <2>3. t[at + 1] = x
    BY Spliced
  <2>4. \A j \in (at + 2)..(Len(s) + 1) : t[j] = s[j - 1]
    BY Spliced
  <2> QED
    BY <2>1, <2>2, <2>3, <2>4
<1>2. DOMAIN s = 1..Len(s) /\ DOMAIN t = 1..(Len(s) + 1) /\ Len(s) \in Nat
  BY <1>1
<1> HIDE DEF t
<1>3. \A j \in DOMAIN t : j \in 1..at \/ j = at + 1 \/ j \in (at + 2)..(Len(s) + 1)
  BY <1>2
<1>4. ToSet(t) = ToSet(s) \cup {x}
  <2>1. ASSUME NEW j \in DOMAIN t PROVE t[j] \in ToSet(s) \cup {x}
    <3>1. CASE j \in 1..at
      BY <1>1, <1>2, <3>1 DEF ToSet
    <3>2. CASE j = at + 1
      BY <1>1, <3>2
    <3>3. CASE j \in (at + 2)..(Len(s) + 1)
      BY <1>1, <1>2, <3>3, j - 1 \in DOMAIN s DEF ToSet
    <3> QED
      BY <1>3, <3>1, <3>2, <3>3
  <2>2. ASSUME NEW j \in DOMAIN s PROVE s[j] \in ToSet(t)
    <3>1. CASE j <= at
      BY <1>1, <1>2, <3>1 DEF ToSet
    <3>2. CASE j > at
      <4>1. j + 1 \in (at + 2)..(Len(s) + 1) /\ j + 1 \in DOMAIN t
        BY <1>2, <3>2
      <4>2. t[j + 1] = s[j]
        BY <1>1, <1>2, <4>1
      <4> QED
        BY <4>1, <4>2 DEF ToSet
    <3> QED
      BY <1>2, <3>1, <3>2
  <2>3. x \in ToSet(t)
    BY <1>1, <1>2 DEF ToSet
  <2> QED
    BY <2>1, <2>2, <2>3 DEF ToSet
<1>5. ASSUME IsInjective(s), x \notin ToSet(s) PROVE IsInjective(t)
  <2>1. \A j \in DOMAIN s : s[j] # x
    BY <1>5 DEF ToSet
  <2> DEFINE from(j) == IF j <= at THEN j ELSE j - 1
  <2>2. \A j \in DOMAIN t : j # at + 1 => from(j) \in DOMAIN s /\ t[j] = s[from(j)]
    BY <1>1, <1>2, <1>3
  <2>3. \A j, k \in DOMAIN t : j # at + 1 /\ k # at + 1 /\ from(j) = from(k) => j = k
    BY <1>2
  <2> HIDE DEF from
  <2> SUFFICES ASSUME NEW j \in DOMAIN t, NEW k \in DOMAIN t, t[j] = t[k]
               PROVE  j = k
    BY DEF IsInjective
  <2> QED
    BY <1>1, <1>5, <2>1, <2>2, <2>3 DEF IsInjective
<1> QED
  BY <1>1, <1>4, <1>5 DEF t

------------------------------------------------------------------------------
(* What diagrams and rungs are.                                             *)

\* The ids nodes may have.
AllIds == Ids \cup Rails
\* The branches a rung may have, by anchor, ...
Branchings == UNION {[A -> Seq(Ids)] : A \in SUBSET Ids}
\* ... the rungs, ...
Rungs == [id : RungIds, elems : Seq(Ids), branches : Branchings]
\* ... the nodes with their kinds, ...
Kindings == UNION {[N -> Kinds \cup {"left", "right"}] : N \in SUBSET AllIds}
\* ... and the diagrams.
Diagrams == [kind : Kindings, wires : SUBSET (AllIds \X AllIds), rungs : Seq(Rungs)]

(* Membership in Branchings, spelled out.                                   *)
LEMMA BranchingIs ==
  ASSUME NEW b
  PROVE  b \in Branchings <=> /\ b = [a \in DOMAIN b |-> b[a]]
                              /\ DOMAIN b \subseteq Ids
                              /\ \A a \in DOMAIN b : b[a] \in Seq(Ids)
<1>1. ASSUME b \in Branchings
      PROVE  /\ b = [a \in DOMAIN b |-> b[a]]
             /\ DOMAIN b \subseteq Ids
             /\ \A a \in DOMAIN b : b[a] \in Seq(Ids)
  <2>1. PICK A \in SUBSET Ids : b \in [A -> Seq(Ids)]
    BY <1>1 DEF Branchings
  <2> QED
    BY <2>1
<1>2. ASSUME b = [a \in DOMAIN b |-> b[a]], DOMAIN b \subseteq Ids,
             \A a \in DOMAIN b : b[a] \in Seq(Ids)
      PROVE  b \in Branchings
  <2>1. b \in [DOMAIN b -> Seq(Ids)] /\ DOMAIN b \in SUBSET Ids
    BY <1>2
  <2> QED
    BY <2>1, Zenon DEF Branchings
<1> QED
  BY <1>1, <1>2

(* Membership in Kindings, spelled out.                                     *)
LEMMA KindingIs ==
  ASSUME NEW f
  PROVE  f \in Kindings <=> /\ f = [x \in DOMAIN f |-> f[x]]
                            /\ DOMAIN f \subseteq AllIds
                            /\ \A x \in DOMAIN f : f[x] \in Kinds \cup {"left", "right"}
<1> DEFINE L == Kinds \cup {"left", "right"}
<1> HIDE DEF L
<1>1. ASSUME f \in Kindings
      PROVE  /\ f = [x \in DOMAIN f |-> f[x]]
             /\ DOMAIN f \subseteq AllIds
             /\ \A x \in DOMAIN f : f[x] \in L
  <2>1. PICK N \in SUBSET AllIds : f \in [N -> L]
    BY <1>1 DEF Kindings, L
  <2> QED
    BY <2>1
<1>2. ASSUME f = [x \in DOMAIN f |-> f[x]], DOMAIN f \subseteq AllIds,
             \A x \in DOMAIN f : f[x] \in L
      PROVE  f \in Kindings
  <2>1. f \in [DOMAIN f -> L] /\ DOMAIN f \in SUBSET AllIds
    BY <1>2
  <2> QED
    BY <2>1, Zenon DEF Kindings, L
<1> QED
  BY <1>1, <1>2 DEF L

(* The elements and the branches of a rung, and the ids they list.          *)
LEMMA RungIs ==
  ASSUME NEW r \in Rungs
  PROVE  /\ r.elems \in Seq(Ids) /\ r.branches \in Branchings
         /\ Series(r) \subseteq Ids /\ DOMAIN r.branches \subseteq Ids
         /\ \A a \in DOMAIN r.branches : /\ r.branches[a] \in Seq(Ids)
                                         /\ ToSet(r.branches[a]) \subseteq Ids
                                         /\ ToSet(r.branches[a]) \subseteq Members(r)
         /\ Placed(r) \subseteq Ids
<1>1. r.elems \in Seq(Ids) /\ r.branches \in Branchings
  BY DEF Rungs
<1>2. Series(r) \subseteq Ids
  BY <1>1, ElementsIn DEF Series
<1>3. DOMAIN r.branches \subseteq Ids /\ \A a \in DOMAIN r.branches : r.branches[a] \in Seq(Ids)
  BY <1>1, BranchingIs
<1>4. \A a \in DOMAIN r.branches : ToSet(r.branches[a]) \subseteq Ids
  BY <1>3, ElementsIn
<1>5. \A a \in DOMAIN r.branches : ToSet(r.branches[a]) \subseteq Members(r)
  BY DEF Members
<1>6. Members(r) \subseteq Ids
  BY <1>4 DEF Members
<1> QED
  BY <1>1, <1>2, <1>3, <1>4, <1>5, <1>6 DEF Placed

(* A rung with other elements, other branches, or both, is a rung.          *)
LEMMA RungChanged ==
  ASSUME NEW r \in Rungs, NEW e \in Seq(Ids), NEW b \in Branchings
  PROVE  /\ [r EXCEPT !.elems = e] \in Rungs
         /\ [r EXCEPT !.elems = e].elems = e
         /\ [r EXCEPT !.elems = e].branches = r.branches
         /\ [r EXCEPT !.branches = b] \in Rungs
         /\ [r EXCEPT !.branches = b].elems = r.elems
         /\ [r EXCEPT !.branches = b].branches = b
         /\ [r EXCEPT !.elems = e, !.branches = b] \in Rungs
         /\ [r EXCEPT !.elems = e, !.branches = b].elems = e
         /\ [r EXCEPT !.elems = e, !.branches = b].branches = b
BY DEF Rungs

(* The rungs of a diagram, by index, and its nodes.                         *)
LEMMA RungAt ==
  ASSUME NEW g \in Diagrams
  PROVE  /\ g.rungs \in Seq(Rungs) /\ DOMAIN g.rungs = 1..Len(g.rungs)
         /\ Len(g.rungs) \in Nat
         /\ \A i \in DOMAIN g.rungs : g.rungs[i] \in Rungs
         /\ Nodes(g) \subseteq AllIds
<1>1. g.rungs \in Seq(Rungs) /\ g.kind \in Kindings
  BY DEF Diagrams
<1>2. Nodes(g) \subseteq AllIds
  BY <1>1, KindingIs DEF Nodes
<1> QED
  BY <1>1, <1>2

------------------------------------------------------------------------------
(* What is looked up is there, or there is none.                            *)

(* The successor of an element is on the rung, or there is none.            *)
LEMMA SuccessorIs ==
  ASSUME NEW r \in Rungs, NEW a
  PROVE  SeriesSuccessor(r, a) \in Series(r) \cup {NoNode}
<1> DEFINE T == {i \in 1..Len(r.elems) : r.elems[i] = a}
<1>1. r.elems \in Seq(Ids)
  BY RungIs
<1>2. Len(r.elems) \in Nat /\ \A i \in 1..Len(r.elems) : r.elems[i] \in Series(r)
  BY <1>1, ElementsIn DEF Series
<1>3. IndexOf(a, r.elems) = IF T # {} THEN Min(T) ELSE 0
  BY Zenon DEF IndexOf, SelectInSeq
<1>4. IndexOf(a, r.elems) \in 0..Len(r.elems)
  <2>1. T # {} => Min(T) \in T
    BY <1>2, FirstIndex
  <2> QED
    BY <1>2, <1>3, <2>1
<1> QED
  BY <1>2, <1>4 DEF SeriesSuccessor

(* findCoil returns an element of the rung, or nothing.                     *)
LEMMA CoilIs ==
  ASSUME NEW g, NEW r \in Rungs
  PROVE  FindCoil(g, r) \in Series(r) \cup {NoNode}
<1> DEFINE T == {i \in 1..Len(r.elems) : IsKind(g, r.elems[i], "coil")}
           k == SelectInSeq(r.elems, LAMBDA x : IsKind(g, x, "coil"))
<1>1. r.elems \in Seq(Ids)
  BY RungIs
<1>2. Len(r.elems) \in Nat /\ \A i \in 1..Len(r.elems) : r.elems[i] \in Series(r)
  BY <1>1, ElementsIn DEF Series
<1>3. k = IF T # {} THEN Min(T) ELSE 0
  BY Zenon DEF SelectInSeq
<1>4. FindCoil(g, r) = IF k = 0 THEN NoNode ELSE r.elems[k]
  BY Zenon DEF FindCoil
<1> HIDE DEF k
<1>5. k \in 0..Len(r.elems)
  <2>1. T # {} => Min(T) \in T
    BY <1>2, FirstIndex
  <2> QED
    BY <1>2, <1>3, <2>1
<1> QED
  BY <1>2, <1>4, <1>5

(* The contact a coil is wired to is an element of the rung.                *)
LEMMA LastContactIs ==
  ASSUME NEW g, NEW r \in Rungs, LastContact(g, r) # 0
  PROVE  r.elems[LastContact(g, r)] \in Series(r)
<1> DEFINE T == {i \in 1..Len(r.elems) : IsKind(g, r.elems[i], "contact")}
<1>1. r.elems \in Seq(Ids)
  BY RungIs
<1>2. Len(r.elems) \in Nat /\ \A i \in 1..Len(r.elems) : r.elems[i] \in Series(r)
  BY <1>1, ElementsIn DEF Series
<1>3. LastContact(g, r) = IF T # {} THEN Max(T) ELSE 0
  BY Zenon DEF LastContact, SelectLastInSeq
<1>4. T # {} => Max(T) \in T
  BY <1>2, LastIndex
<1> QED
  BY <1>2, <1>3, <1>4

(* The rung found for an element is one that lists it.                      *)
LEMMA RungIndexIs ==
  ASSUME NEW g \in Diagrams, NEW id, RungIndexOf(g, id) # 0
  PROVE  /\ RungIndexOf(g, id) \in DOMAIN g.rungs
         /\ id \in Series(g.rungs[RungIndexOf(g, id)])
<1> DEFINE T == {i \in 1..Len(g.rungs) : id \in Series(g.rungs[i])}
<1>1. Len(g.rungs) \in Nat /\ DOMAIN g.rungs = 1..Len(g.rungs)
  BY RungAt
<1>2. RungIndexOf(g, id) = IF T # {} THEN Min(T) ELSE 0
  BY Zenon DEF RungIndexOf, SelectInSeq
<1>3. T # {} => Min(T) \in T
  BY <1>1, FirstIndex
<1> QED
  BY <1>1, <1>2, <1>3

(* The rung found for an anchor is one with a branch there.                 *)
LEMMA BranchIndexIs ==
  ASSUME NEW g \in Diagrams, NEW a, HasBranch(g, a)
  PROVE  /\ BranchRungIndex(g, a) \in DOMAIN g.rungs
         /\ a \in DOMAIN g.rungs[BranchRungIndex(g, a)].branches
<1> DEFINE T == {i \in 1..Len(g.rungs) : a \in DOMAIN g.rungs[i].branches}
<1>1. Len(g.rungs) \in Nat /\ DOMAIN g.rungs = 1..Len(g.rungs)
  BY RungAt
<1>2. BranchRungIndex(g, a) = IF T # {} THEN Min(T) ELSE 0
  BY Zenon DEF BranchRungIndex, SelectInSeq
<1>3. T # {} => Min(T) \in T
  BY <1>1, FirstIndex
<1> QED
  BY <1>1, <1>2, <1>3 DEF HasBranch

(* The rails found are nodes, or there are none.                            *)
LEMMA RailsAre ==
  ASSUME NEW g
  PROVE  /\ FindLeftRail(g) \in Nodes(g) \cup {NoNode}
         /\ FindRightRail(g) \in Nodes(g) \cup {NoNode}
BY DEF FindLeftRail, FindRightRail, OnlyIf

------------------------------------------------------------------------------
(* The wires made join nodes of the diagram.                                *)

(* A wire joins the nodes it is made for.                                   *)
LEMMA WireJoins ==
  ASSUME NEW N, NEW a \in N \cup {NoNode}, NEW b \in N \cup {NoNode}
  PROVE  Wire(a, b) \subseteq N \X N
BY DEF Wire

(* A chain of wires joins the nodes of the sequence it runs along.          *)
LEMMA ChainJoins ==
  ASSUME NEW S, NEW s \in Seq(S), NEW N, ToSet(s) \subseteq N
  PROVE  Chain(s) \subseteq N \X N
<1>1. Len(s) \in Nat /\ \A i \in 1..Len(s) : s[i] \in N
  BY ElementsIn
<1>2. \A i \in 1..(Len(s) - 1) : s[i] \in N /\ s[i + 1] \in N
  BY <1>1
<1> QED
  BY <1>2 DEF Chain

(* The wires of a branch join nodes when the rung lists nodes.              *)
LEMMA BranchWiresJoin ==
  ASSUME NEW g, NEW r \in Rungs, Placed(r) \subseteq Nodes(g),
         NEW a \in DOMAIN r.branches, a \in Nodes(g)
  PROVE  BranchWires(g, r, a) \subseteq Nodes(g) \X Nodes(g)
<1> DEFINE ms == r.branches[a]
           succ == SeriesSuccessor(r, a)
<1>1. /\ ms \in Seq(Ids) /\ a \in Ids
      /\ ToSet(ms) \subseteq Nodes(g) /\ Series(r) \subseteq Nodes(g)
  <2>1. /\ ms \in Seq(Ids) /\ a \in Ids
        /\ ToSet(ms) \subseteq Members(r)
    BY RungIs
  <2> QED
    BY <2>1 DEF Placed
<1>2. succ \in Nodes(g) \cup {NoNode}
  BY <1>1, SuccessorIs
<1>3. BranchWires(g, r, a) =
        IF ms = <<>> THEN Wire(a, succ)
        ELSE Chain(<<a>> \o ms) \cup Wire(Last(ms), OrElse(succ, FindRightRail(g)))
  BY Zenon DEF BranchWires
<1> HIDE DEF ms, succ
<1>4. CASE ms = <<>>
  BY <1>2, <1>3, <1>4, WireJoins
<1>5. CASE ms # <<>>
  <2>1. OrElse(succ, FindRightRail(g)) \in Nodes(g) \cup {NoNode}
    BY <1>2, RailsAre DEF OrElse
  <2>2. Len(ms) \in Nat \ {0} /\ \A i \in 1..Len(ms) : ms[i] \in Nodes(g)
    BY <1>1, <1>5, ElementsIn, EmptySeq
  <2>3. Last(ms) \in Nodes(g)
    BY <2>2 DEF Last
  <2> DEFINE s == <<a>> \o ms
  <2>4. /\ s \in Seq(Ids) /\ Len(s) = Len(ms) + 1 /\ DOMAIN s = 1..(Len(ms) + 1)
        /\ s[1] = a /\ \A i \in 2..(Len(ms) + 1) : s[i] = ms[i - 1]
    BY <1>1
  <2>5. ToSet(s) \subseteq Nodes(g)
    <3>1. \A i \in DOMAIN s : i = 1 \/ i - 1 \in 1..Len(ms)
      BY <2>2, <2>4
    <3>2. \A i \in DOMAIN s : s[i] \in Nodes(g)
      BY <2>2, <2>4, <3>1
    <3> HIDE DEF s
    <3> QED
      BY <3>2 DEF ToSet
  <2>6. Chain(s) \subseteq Nodes(g) \X Nodes(g)
    BY <2>4, <2>5, ChainJoins
  <2>7. Wire(Last(ms), OrElse(succ, FindRightRail(g))) \subseteq Nodes(g) \X Nodes(g)
    BY <2>1, <2>3, WireJoins
  <2> QED
    BY <1>3, <1>5, <2>6, <2>7
<1> QED
  BY <1>4, <1>5

------------------------------------------------------------------------------
(* Diagrams with other wires, another rung, another node.                   *)

\* A rung that places no rail and hangs its branches off what it places, ...
Tidy(r) == r \in Rungs /\ Placed(r) \cap Rails = {} /\ DOMAIN r.branches \subseteq Placed(r)
\* ... and whose elements, members and anchors are nodes of the graph.
Listed(g, r) == Tidy(r) /\ Placed(r) \subseteq Nodes(g)

(* h is a diagram with the nodes and rungs of g and wires that join nodes.  *)
Rewired(g, h) == h \in Diagrams /\ h.kind = g.kind /\ h.rungs = g.rungs /\ WiresJoin(h)

(* Any set of wires between its nodes gives a diagram rewired.              *)
LEMMA WiresChanged ==
  ASSUME NEW g \in Diagrams, NEW W, W \subseteq Nodes(g) \X Nodes(g)
  PROVE  Rewired(g, [g EXCEPT !.wires = W])
<1>1. W \subseteq AllIds \X AllIds
  BY RungAt
<1> QED
  BY <1>1 DEF Rewired, Diagrams, WiresJoin, Nodes

(* So does adding wires between its nodes, ...                              *)
LEMMA AddWiresJoin ==
  ASSUME NEW g \in Diagrams, WiresJoin(g), NEW W, W \subseteq Nodes(g) \X Nodes(g)
  PROVE  Rewired(g, AddWires(g, W))
<1>1. g.wires \cup W \subseteq Nodes(g) \X Nodes(g)
  BY DEF WiresJoin
<1>2. AddWires(g, W) = [g EXCEPT !.wires = g.wires \cup W]
  BY Zenon DEF AddWires
<1> QED
  BY <1>1, <1>2, WiresChanged

(* ... rewiring the branches of rungs, ...                                  *)
LEMMA RewireJoins ==
  ASSUME NEW g \in Diagrams, WiresJoin(g), NEW R, \A r \in R : Listed(g, r)
  PROVE  Rewired(g, RewireBranches(g, R))
<1> DEFINE old == UNION {OldBranchWires(g, r) : r \in R}
           new(r) == UNION {BranchWires(g, r, a) : a \in DOMAIN r.branches}
           W == (g.wires \ old) \cup UNION {new(r) : r \in R}
<1>1. \A r \in R : \A a \in DOMAIN r.branches :
        BranchWires(g, r, a) \subseteq Nodes(g) \X Nodes(g)
  BY BranchWiresJoin DEF Listed, Tidy
<1>2. \A r \in R : new(r) \subseteq Nodes(g) \X Nodes(g)
  BY <1>1
<1>3. RewireBranches(g, R) = [g EXCEPT !.wires = W]
  BY Zenon DEF RewireBranches
<1> HIDE DEF new, old
<1>4. W \subseteq Nodes(g) \X Nodes(g)
  BY <1>2 DEF WiresJoin
<1> HIDE DEF W
<1> QED
  BY <1>3, <1>4, WiresChanged

(* ... or of one rung, ...                                                  *)
LEMMA RewireRungJoins ==
  ASSUME NEW g \in Diagrams, WiresJoin(g), NEW r, Listed(g, r)
  PROVE  Rewired(g, RewireRungBranches(g, r))
BY RewireJoins DEF RewireRungBranches

(* A branch stays wired while wires are only added to the diagram.          *)
LEMMA StayWired ==
  ASSUME NEW g, NEW h, h.kind = g.kind, g.wires \subseteq h.wires,
         NEW r, BranchesWired(g, r)
  PROVE  BranchesWired(h, r)
<1>1. FindRightRail(h) = FindRightRail(g)
  BY DEF FindRightRail, OnlyIf, Nodes
<1>2. \A a \in DOMAIN r.branches : BranchWires(h, r, a) = BranchWires(g, r, a)
  BY <1>1, Zenon DEF BranchWires
<1> QED
  BY <1>2 DEF BranchesWired

(* What rewireRungBranches is for: every rung it is given is wired then.    *)
LEMMA RewireWires ==
  ASSUME NEW g \in Diagrams, NEW R, NEW r \in R
  PROVE  BranchesWired(RewireBranches(g, R), r)
<1> DEFINE old == UNION {OldBranchWires(g, x) : x \in R}
           new(x) == UNION {BranchWires(g, x, a) : a \in DOMAIN x.branches}
           W == (g.wires \ old) \cup UNION {new(x) : x \in R}
           h == [g EXCEPT !.wires = W]
<1>1. RewireBranches(g, R) = h
  BY Zenon DEF RewireBranches
<1>2. \A a \in DOMAIN r.branches : BranchWires(g, r, a) \subseteq new(r)
  OBVIOUS
<1> HIDE DEF new, old
<1>3. new(r) \subseteq W
  OBVIOUS
<1> HIDE DEF W
<1>4. h.kind = g.kind /\ h.wires = W
  BY DEF Diagrams
<1> HIDE DEF h
<1>5. FindRightRail(h) = FindRightRail(g)
  BY <1>4 DEF FindRightRail, OnlyIf, Nodes
<1>6. \A a \in DOMAIN r.branches : BranchWires(h, r, a) = BranchWires(g, r, a)
  BY <1>5, Zenon DEF BranchWires
<1> QED
  BY <1>1, <1>2, <1>3, <1>4, <1>6 DEF BranchesWired

(* A diagram rewired is one whose rungs list what they did.                 *)
LEMMA RewiredLists ==
  ASSUME NEW g, NEW h, Rewired(g, h)
  PROVE  /\ h \in Diagrams /\ WiresJoin(h) /\ Nodes(h) = Nodes(g)
         /\ \A r : Listed(g, r) <=> Listed(h, r)
         /\ \A k : Rewired(h, k) => Rewired(g, k)
BY DEF Rewired, Listed, Tidy, Nodes

(* ... and rewireRungSeries.                                                *)
LEMMA RewireSeriesJoins ==
  ASSUME NEW g \in Diagrams, WiresJoin(g), NEW r, Listed(g, r)
  PROVE  /\ Rewired(g, RewireRungSeries(g, r))
         /\ r.elems # <<>> => BranchesWired(RewireRungSeries(g, r), r)
<1> DEFINE target == OrElse(FindCoil(g, r), FindRightRail(g))
           last   == Last(r.elems)
           kept   == g.wires \ Touching(g.wires, Series(r))
           tail   == IF target = last THEN {} ELSE Wire(last, target)
           chain  == Wire(FindLeftRail(g), Head(r.elems)) \cup Chain(r.elems) \cup tail
           h      == [g EXCEPT !.wires = kept \cup chain]
<1>1. RewireRungSeries(g, r) = IF r.elems = <<>> THEN g ELSE RewireRungBranches(h, r)
  BY Zenon DEF RewireRungSeries
<1>2. CASE r.elems = <<>>
  BY <1>1, <1>2 DEF Rewired
<1>3. CASE r.elems # <<>>
  <2>1. r.elems \in Seq(Ids) /\ ToSet(r.elems) \subseteq Nodes(g)
    BY RungIs DEF Listed, Tidy, Placed, Series
  <2>2. Len(r.elems) \in Nat \ {0} /\ \A i \in 1..Len(r.elems) : r.elems[i] \in Nodes(g)
    BY <1>3, <2>1, ElementsIn, EmptySeq
  <2>3. Head(r.elems) \in Nodes(g) /\ last \in Nodes(g)
    BY <2>1, <2>2 DEF Last
  <2>4. target \in Nodes(g) \cup {NoNode}
    <3>1. FindCoil(g, r) \in Nodes(g) \cup {NoNode}
      BY <2>1, CoilIs DEF Listed, Tidy, Series
    <3> QED
      BY <3>1, RailsAre DEF OrElse
  <2> HIDE DEF target, last
  <2>5. tail \subseteq Nodes(g) \X Nodes(g)
    BY <2>3, <2>4, WireJoins
  <2>6. Chain(r.elems) \subseteq Nodes(g) \X Nodes(g)
    BY <2>1, ChainJoins
  <2>7. Wire(FindLeftRail(g), Head(r.elems)) \subseteq Nodes(g) \X Nodes(g)
    BY <2>3, RailsAre, WireJoins
  <2>8. kept \subseteq Nodes(g) \X Nodes(g)
    BY DEF WiresJoin
  <2> HIDE DEF kept, tail
  <2>9. kept \cup chain \subseteq Nodes(g) \X Nodes(g)
    BY <2>5, <2>6, <2>7, <2>8
  <2> HIDE DEF chain
  <2>10. Rewired(g, h)
    BY <2>9, WiresChanged
  <2> HIDE DEF h
  <2>11. Rewired(h, RewireRungBranches(h, r)) /\ BranchesWired(RewireRungBranches(h, r), r)
    <3>1. h \in Diagrams /\ WiresJoin(h) /\ Listed(h, r)
      BY <2>10, RewiredLists
    <3>2. Rewired(h, RewireRungBranches(h, r))
      BY <3>1, RewireRungJoins
    <3>3. BranchesWired(RewireRungBranches(h, r), r)
      BY <3>1, RewireWires DEF RewireRungBranches
    <3> QED
      BY <3>2, <3>3
  <2> QED
    BY <1>1, <1>3, <2>10, <2>11, RewiredLists
<1> QED
  BY <1>2, <1>3

(* The wires of a branch join the nodes placed on its rung and the rail.    *)
LEMMA BranchWiresWithin ==
  ASSUME NEW g, NEW r \in Rungs, RightRail \notin Placed(r),
         NEW a \in DOMAIN r.branches, a \in Placed(r)
  PROVE  BranchWires(g, r, a) \subseteq (Placed(r) \cup {RightRail}) \X (Placed(r) \cup {RightRail})
<1> DEFINE S == Placed(r) \cup ({RightRail} \cap Nodes(g))
           h == [kind |-> [x \in S |-> x]]
<1>1. Nodes(h) = S
  BY DEF Nodes
<1> HIDE DEF h
<1>2. FindRightRail(h) = FindRightRail(g)
  BY <1>1 DEF FindRightRail, OnlyIf
<1>3. BranchWires(h, r, a) = BranchWires(g, r, a)
  BY <1>2, Zenon DEF BranchWires
<1>4. BranchWires(h, r, a) \subseteq S \X S
  BY <1>1, BranchWiresJoin
<1> QED
  BY <1>3, <1>4

------------------------------------------------------------------------------
(* Which wires an edit may change.                                          *)

\* Only wires that touch X, or join the rails, come or go.
Spares(g, h, X) ==
  \A w : ~ (w[1] \in X \/ w[2] \in X) /\ ~ (w[1] \in Rails /\ w[2] \in Rails)
          => (w \in g.wires <=> w \in h.wires)

(* One edit after another.                                                  *)
LEMMA SparesBoth ==
  ASSUME NEW g, NEW h, NEW k, NEW X, Spares(g, h, X), Spares(h, k, X)
  PROVE  Spares(g, k, X)
BY DEF Spares

(* A rung out of reach keeps its wires.                                     *)
LEMMA OwnSpared ==
  ASSUME NEW g, NEW h, NEW X, Spares(g, h, X), NEW r, X \cap (Placed(r) \cup Rails) = {}
  PROVE  OwnWires(h, r) = OwnWires(g, r)
<1>1. ASSUME NEW w, {w[1], w[2]} \subseteq Placed(r) \cup Rails, ~ ({w[1], w[2]} \subseteq Rails)
      PROVE  w \in g.wires <=> w \in h.wires
  <2>1. ~ (w[1] \in X \/ w[2] \in X) /\ ~ (w[1] \in Rails /\ w[2] \in Rails)
    BY <1>1
  <2> QED
    BY <2>1 DEF Spares
<1> QED
  BY <1>1 DEF OwnWires

(* Rewiring the branches of a rung changes wires of its nodes.              *)
LEMMA RewireSpares ==
  ASSUME NEW g, "wires" \in DOMAIN g, NEW R, NEW X, \A r \in R : Tidy(r) /\ Placed(r) \subseteq X
  PROVE  Spares(g, RewireBranches(g, R), X)
<1> DEFINE old == UNION {OldBranchWires(g, x) : x \in R}
           of(x) == UNION {BranchWires(g, x, a) : a \in DOMAIN x.branches}
           new == UNION {of(x) : x \in R}
           W == (g.wires \ old) \cup new
           h == [g EXCEPT !.wires = W]
           Free(w) == ~ (w[1] \in X \/ w[2] \in X) /\ ~ (w[1] \in Rails /\ w[2] \in Rails)
<1>1. RewireBranches(g, R) = h
  BY Zenon DEF RewireBranches
<1>2. ASSUME NEW w, Free(w), NEW x \in R
      PROVE  w \notin OldBranchWires(g, x) /\ w \notin of(x)
  <2>1. Tidy(x) /\ Placed(x) \subseteq X /\ Members(x) \subseteq Placed(x)
    BY DEF Placed
  <2>2. w \notin Touching(g.wires, Members(x))
    BY <1>2, <2>1 DEF Touching
  <2>3. w \notin {<<a, SeriesSuccessor(x, a)>> : a \in DOMAIN x.branches}
    BY <1>2, <2>1 DEF Tidy
  <2>4. ASSUME NEW a \in DOMAIN x.branches PROVE w \notin BranchWires(g, x, a)
    <3> DEFINE S == Placed(x) \cup {RightRail}
    <3>1. BranchWires(g, x, a) \subseteq S \X S
      BY <2>1, BranchWiresWithin DEF Tidy, Rails
    <3>2. w \notin S \X S
      BY <1>2, <2>1 DEF Rails
    <3> QED
      BY <3>1, <3>2
  <2> QED
    BY <2>2, <2>3, <2>4 DEF OldBranchWires
<1>3. \A w : Free(w) => w \notin old /\ w \notin new
  <2> HIDE DEF of, Free
  <2> QED
    BY <1>2
<1> HIDE DEF old, new
<1>4. \A w : Free(w) => (w \in g.wires <=> w \in W)
  BY <1>3
<1>5. h.wires = W
  OBVIOUS
<1> HIDE DEF h, W
<1> QED
  BY <1>1, <1>4, <1>5 DEF Spares

(* So does rewiring its series.                                             *)
LEMMA RewireSeriesSpares ==
  ASSUME NEW g \in Diagrams, NEW r, Tidy(r), NEW X, Placed(r) \subseteq X
  PROVE  Spares(g, RewireRungSeries(g, r), X)
<1> DEFINE target == OrElse(FindCoil(g, r), FindRightRail(g))
           last   == Last(r.elems)
           tail   == IF target = last THEN {} ELSE Wire(last, target)
           head   == Wire(FindLeftRail(g), Head(r.elems))
           old    == Touching(g.wires, Series(r))
           W      == (g.wires \ old) \cup (head \cup Chain(r.elems) \cup tail)
           h      == [g EXCEPT !.wires = W]
<1>1. RewireRungSeries(g, r) = IF r.elems = <<>> THEN g ELSE RewireRungBranches(h, r)
  BY Zenon DEF RewireRungSeries
<1>2. CASE r.elems = <<>>
  BY <1>1, <1>2 DEF Spares
<1>3. CASE r.elems # <<>>
  <2>1. r.elems \in Seq(Ids) /\ ToSet(r.elems) \subseteq X
    BY RungIs DEF Tidy, Placed, Series
  <2>2. Len(r.elems) \in Nat \ {0} /\ \A i \in 1..Len(r.elems) : r.elems[i] \in X
    BY <1>3, <2>1, ElementsIn, EmptySeq
  <2>3. Head(r.elems) \in X /\ last \in X
    BY <2>1, <2>2 DEF Last
  <2>4. \A w \in Chain(r.elems) : w[1] \in X
    BY <2>2 DEF Chain
  <2>5. \A w \in head \cup tail : w[1] \in X \/ w[2] \in X
    BY <2>3 DEF Wire
  <2>6. \A w \in old : w[1] \in X \/ w[2] \in X
    BY DEF Touching, Placed
  <2>7. h.wires = W /\ "wires" \in DOMAIN h
    BY DEF Diagrams
  <2> HIDE DEF head, tail, old, h
  <2>8. Spares(g, h, X)
    BY <2>4, <2>5, <2>6, <2>7 DEF Spares
  <2>9. Spares(h, RewireRungBranches(h, r), X)
    BY <2>7, RewireSpares DEF RewireRungBranches
  <2> QED
    BY <1>1, <1>3, <2>8, <2>9, SparesBoth
<1> QED
  BY <1>2, <1>3

------------------------------------------------------------------------------
(* Who is placed where.                                                     *)

\* What WellFormed says of the rungs.
Placement(g) == /\ \A i \in DOMAIN g.rungs : RungWellFormed(g, g.rungs[i])
                /\ RungsApart(g)
\* What every operation preserves: a diagram, well formed.
GraphOK(g) == g \in Diagrams /\ WiresJoin(g) /\ Placement(g)

\* The nodes X of g are nodes of h too, and of the same kind.
Keeps(g, h, X) == \A x \in X : x \in Nodes(h) /\ h.kind[x] = g.kind[x]

\* The rungs of h are those of g with r as the i-th.
Replaced(g, h, i, r) == h.rungs = [g.rungs EXCEPT ![i] = r]

(* A rung stays well formed in a graph that keeps its nodes.                *)
LEMMA RungKept ==
  ASSUME NEW g, NEW h, NEW r, RungWellFormed(g, r), Keeps(g, h, Placed(r))
  PROVE  RungWellFormed(h, r)
<1>1. \A a \in DOMAIN r.branches : a \in Placed(r)
  BY DEF RungWellFormed, Placed
<1>2. \A a \in DOMAIN r.branches : IsKind(h, a, "contact")
  BY <1>1 DEF RungWellFormed, Keeps, IsKind
<1>3. Placed(r) \subseteq Nodes(h) \ Rails
  BY DEF RungWellFormed, Keeps
<1>4. \A a \in DOMAIN r.branches : \A m \in ToSet(r.branches[a]) : IsKind(h, m, "contact")
  <2> TAKE a \in DOMAIN r.branches
  <2> TAKE m \in ToSet(r.branches[a])
  <2>1. m \in Placed(r) /\ IsKind(g, m, "contact")
    BY DEF RungWellFormed, Placed, Members
  <2> QED
    BY <2>1 DEF Keeps, IsKind
<1> QED
  BY <1>2, <1>3, <1>4 DEF RungWellFormed

(* A well-formed rung lists nodes only.                                     *)
LEMMA ListedOK ==
  ASSUME NEW g \in Diagrams, NEW r \in Rungs, RungWellFormed(g, r)
  PROVE  Listed(g, r)
BY DEF Listed, Tidy, RungWellFormed, Placed

(* Rewiring leaves a well-formed diagram well formed.                       *)
LEMMA RewiredOK ==
  ASSUME NEW g, NEW h, Rewired(g, h), Placement(g)
  PROVE  GraphOK(h)
<1>1. \A r : RungWellFormed(g, r) => Keeps(g, h, Placed(r))
  BY DEF RungWellFormed, Keeps, Rewired, Nodes
<1>2. \A i \in DOMAIN h.rungs : RungWellFormed(h, h.rungs[i])
  BY <1>1, RungKept DEF Rewired, Placement
<1> QED
  BY <1>2 DEF Rewired, GraphOK, Placement, RungsApart

(* One rung becomes another, whose nodes it had or nobody did.              *)
LEMMA RungReplaced ==
  ASSUME NEW g \in Diagrams, Placement(g), NEW h \in Diagrams,
         NEW i \in DOMAIN g.rungs, NEW r \in Rungs,
         h.rungs = [g.rungs EXCEPT ![i] = r],
         RungWellFormed(h, r),
         Placed(r) \cap Nodes(g) \subseteq Placed(g.rungs[i]),
         \A j \in DOMAIN g.rungs : j # i => Keeps(g, h, Placed(g.rungs[j]))
  PROVE  Placement(h)
<1>1. /\ DOMAIN h.rungs = DOMAIN g.rungs /\ h.rungs[i] = r
      /\ \A j \in DOMAIN g.rungs : j # i => h.rungs[j] = g.rungs[j]
  BY RungAt
<1>2. \A j \in DOMAIN g.rungs : RungWellFormed(g, g.rungs[j])
  BY DEF Placement
<1>3. \A j \in DOMAIN h.rungs : RungWellFormed(h, h.rungs[j])
  BY <1>1, <1>2, RungKept
<1>4. \A j \in DOMAIN g.rungs : Placed(g.rungs[j]) \subseteq Nodes(g)
  BY <1>2 DEF RungWellFormed
<1>5. \A j \in DOMAIN g.rungs : j # i => Placed(g.rungs[j]) \cap Placed(r) = {}
  <2> TAKE j \in DOMAIN g.rungs
  <2> HAVE j # i
  <2>1. Placed(g.rungs[j]) \cap Placed(g.rungs[i]) = {}
    BY DEF Placement, RungsApart
  <2> QED
    BY <1>4, <2>1
<1>6. RungsApart(h)
  <2> SUFFICES ASSUME NEW j \in DOMAIN h.rungs, NEW k \in DOMAIN h.rungs, j # k
               PROVE  Placed(h.rungs[j]) \cap Placed(h.rungs[k]) = {}
    BY DEF RungsApart
  <2>1. CASE j = i
    BY <1>1, <1>5, <2>1
  <2>2. CASE k = i
    BY <1>1, <1>5, <2>2
  <2>3. CASE j # i /\ k # i
    BY <1>1, <2>3 DEF Placement, RungsApart
  <2> QED
    BY <2>1, <2>2, <2>3
<1> QED
  BY <1>3, <1>6 DEF Placement

(* The diagram with rung i replaced.                                        *)
LEMMA RungSet ==
  ASSUME NEW g \in Diagrams, NEW i \in DOMAIN g.rungs, NEW r \in Rungs
  PROVE  /\ SetRung(g, i, r) \in Diagrams
         /\ SetRung(g, i, r).kind = g.kind /\ SetRung(g, i, r).wires = g.wires
         /\ SetRung(g, i, r).rungs = [g.rungs EXCEPT ![i] = r]
<1>1. [g.rungs EXCEPT ![i] = r] \in Seq(Rungs)
  <2>1. g.rungs \in Seq(Rungs)
    BY RungAt
  <2> QED
    BY <2>1
<1>2. SetRung(g, i, r) = [g EXCEPT !.rungs = [g.rungs EXCEPT ![i] = r]]
  BY DEF SetRung, Diagrams
<1> QED
  BY <1>1, <1>2 DEF Diagrams

(* The diagram with a new node, which no rung lists yet.                    *)
LEMMA NodeAdded ==
  ASSUME NEW g \in Diagrams, NEW id \in Ids \ Nodes(g), NEW k \in Kinds \cup {"left", "right"}
  PROVE  LET h == AddNode(g, id, k) IN
         /\ h \in Diagrams /\ Nodes(h) = Nodes(g) \cup {id}
         /\ h.wires = g.wires /\ h.rungs = g.rungs
         /\ Keeps(g, h, Nodes(g)) /\ IsKind(h, id, k)
<1> DEFINE f == With(g.kind, id, k)
           L == Kinds \cup {"left", "right"}
<1>1. AddNode(g, id, k) = [g EXCEPT !.kind = f]
  BY Zenon DEF AddNode
<1>2. g.kind \in Kindings
  BY DEF Diagrams
<1> HIDE DEF L
<1>3. DOMAIN g.kind \subseteq AllIds /\ \A x \in DOMAIN g.kind : g.kind[x] \in L
  BY <1>2, KindingIs DEF L
<1>4. /\ DOMAIN f = DOMAIN g.kind \cup {id}
      /\ f = [x \in DOMAIN f |-> f[x]]
      /\ \A x \in DOMAIN g.kind : f[x] = g.kind[x]
      /\ f[id] \in L /\ f[id] = k
  BY DEF With, Nodes, L
<1> HIDE DEF f
<1>5. f \in Kindings
  <2>1. DOMAIN f \subseteq AllIds /\ \A x \in DOMAIN f : f[x] \in L
    BY <1>3, <1>4 DEF AllIds
  <2> QED
    BY <1>4, <2>1, KindingIs DEF L
<1>6. /\ [g EXCEPT !.kind = f] \in Diagrams /\ [g EXCEPT !.kind = f].kind = f
      /\ [g EXCEPT !.kind = f].wires = g.wires /\ [g EXCEPT !.kind = f].rungs = g.rungs
  BY <1>5 DEF Diagrams
<1> QED
  BY <1>1, <1>4, <1>6 DEF Nodes, Keeps, IsKind

------------------------------------------------------------------------------
(* Elements put on a rung.                                                  *)

\* The rung with other series elements.
WithElems(r, e) == [r EXCEPT !.elems = e]

(* The series gains new nodes, in whatever order the elements are now.      *)
LEMMA SeriesChanged ==
  ASSUME NEW h, NEW r \in Rungs, RungWellFormed(h, r),
         NEW e \in Seq(Ids), IsInjective(e),
         NEW X, X \subseteq Nodes(h) \ Rails, X \cap Members(r) = {},
         ToSet(e) = Series(r) \cup X
  PROVE  /\ WithElems(r, e) \in Rungs /\ RungWellFormed(h, WithElems(r, e))
         /\ Placed(WithElems(r, e)) = Placed(r) \cup X
         /\ Series(WithElems(r, e)) = ToSet(e) /\ WithElems(r, e).id = r.id
<1> DEFINE new == WithElems(r, e)
<1>1. new \in Rungs /\ new.elems = e /\ new.branches = r.branches /\ new.id = r.id
  BY DEF Rungs, WithElems
<1> HIDE DEF new
<1>2. Series(new) = Series(r) \cup X /\ Members(new) = Members(r)
  BY <1>1 DEF Series, Members
<1>3. Placed(new) = Placed(r) \cup X
  BY <1>2 DEF Placed
<1>4. \A a \in DOMAIN r.branches : ToSet(r.branches[a]) \subseteq Members(r)
  BY DEF Members
<1>5. Placed(r) \subseteq Nodes(h) \ Rails
  BY DEF RungWellFormed
<1>6. \A a \in DOMAIN r.branches :
        /\ a \in Series(r) /\ IsKind(h, a, "contact")
        /\ IsInjective(r.branches[a])
        /\ ToSet(r.branches[a]) \cap Series(r) = {}
  BY DEF RungWellFormed
<1>7. \A a, b \in DOMAIN r.branches :
        a # b => ToSet(r.branches[a]) \cap ToSet(r.branches[b]) = {}
  BY DEF RungWellFormed
<1>8. RungWellFormed(h, new)
  <2>1. Placed(new) \subseteq Nodes(h) \ Rails
    BY <1>3, <1>5
  <2>2. \A a \in DOMAIN r.branches :
          a \in Series(new) /\ ToSet(r.branches[a]) \cap Series(new) = {}
    BY <1>2, <1>4, <1>6
  <2> QED
    BY <1>1, <1>6, <1>7, <2>1, <2>2 DEF RungWellFormed
<1> QED
  BY <1>1, <1>2, <1>3, <1>8 DEF new

(* A new node takes a place on rung i, which becomes r; the wires stay.     *)
LEMMA RungGrows ==
  ASSUME NEW g, GraphOK(g), NEW i \in DOMAIN g.rungs,
         NEW id \in Ids \ Nodes(g), NEW k \in Kinds, NEW r \in Rungs,
         RungWellFormed(AddNode(g, id, k), r), Placed(r) = Placed(g.rungs[i]) \cup {id}
  PROVE  LET h == SetRung(AddNode(g, id, k), i, r)
         IN  /\ GraphOK(h) /\ Listed(h, r) /\ Nodes(h) = Nodes(g) \cup {id}
             /\ Replaced(g, h, i, r) /\ \A X : Spares(g, h, X)
<1> DEFINE n == AddNode(g, id, k)
           h == SetRung(n, i, r)
<1>1. g \in Diagrams /\ Placement(g) /\ WiresJoin(g)
  BY DEF GraphOK
<1>2. /\ n \in Diagrams /\ Nodes(n) = Nodes(g) \cup {id}
      /\ n.wires = g.wires /\ n.rungs = g.rungs /\ Keeps(g, n, Nodes(g))
  BY <1>1, NodeAdded
<1>3. RungWellFormed(n, r)
  OBVIOUS
<1> HIDE DEF n
<1>4. /\ h \in Diagrams /\ h.kind = n.kind /\ h.wires = n.wires
      /\ h.rungs = [g.rungs EXCEPT ![i] = r]
  BY <1>2, RungSet
<1> HIDE DEF h
<1>5. Nodes(h) = Nodes(g) \cup {id} /\ Keeps(g, h, Nodes(g)) /\ Keeps(n, h, Nodes(n))
  BY <1>2, <1>4 DEF Nodes, Keeps
<1>6. RungWellFormed(h, r)
  BY <1>3, <1>5, RungKept DEF Keeps, RungWellFormed
<1>7. Placement(h)
  <2>1. Placed(r) \cap Nodes(g) \subseteq Placed(g.rungs[i])
    OBVIOUS
  <2>2. \A j \in DOMAIN g.rungs : Keeps(g, h, Placed(g.rungs[j]))
    BY <1>1, <1>5 DEF Placement, RungWellFormed, Keeps
  <2> QED
    BY <1>1, <1>4, <1>6, <2>1, <2>2, RungReplaced
<1>8. WiresJoin(h)
  BY <1>1, <1>2, <1>4, <1>5 DEF WiresJoin
<1>9. Listed(h, r)
  BY <1>4, <1>6, ListedOK
<1> QED
  BY <1>2, <1>4, <1>5, <1>7, <1>8, <1>9 DEF GraphOK, Replaced, Spares, h, n

(* What was well formed before a node was added is so with it.              *)
LEMMA RungKeptByNew ==
  ASSUME NEW g, GraphOK(g), NEW i \in DOMAIN g.rungs,
         NEW id \in Ids \ Nodes(g), NEW k \in Kinds
  PROVE  /\ g.rungs[i] \in Rungs
         /\ RungWellFormed(AddNode(g, id, k), g.rungs[i])
         /\ id \in Nodes(AddNode(g, id, k)) \ Rails
         /\ id \notin Placed(g.rungs[i])
         /\ IsKind(AddNode(g, id, k), id, k)
<1> DEFINE r == g.rungs[i]
           n == AddNode(g, id, k)
<1>1. g \in Diagrams /\ r \in Rungs /\ RungWellFormed(g, r)
  BY RungAt DEF GraphOK, Placement
<1>2. Nodes(n) = Nodes(g) \cup {id} /\ Keeps(g, n, Nodes(g)) /\ IsKind(n, id, k)
  BY <1>1, NodeAdded
<1>3. Placed(r) \subseteq Nodes(g) /\ id \notin Rails
  BY <1>1, IdsAssumption DEF RungWellFormed, Rails
<1> HIDE DEF n, r
<1>4. RungWellFormed(n, r)
  BY <1>1, <1>2, <1>3, RungKept DEF Keeps
<1> QED
  BY <1>1, <1>2, <1>3, <1>4 DEF n, r

\* The diagram in which rung i has the elements e, the new node id among
\* them.
SeriesGrown(g, i, id, k, e) == SetRung(AddNode(g, id, k), i, WithElems(g.rungs[i], e))

\* h is the diagram g in which rung i has become new and places one node more.
GrownBy(g, h, i, id, new) ==
  /\ GraphOK(h) /\ Listed(h, new)
  /\ Nodes(h) = Nodes(g) \cup {id}
  /\ Replaced(g, h, i, new) /\ \A X : Spares(g, h, X)
  /\ new \in Rungs /\ new.id = g.rungs[i].id
  /\ Placed(new) = Placed(g.rungs[i]) \cup {id}

(* Placing a new node in the series of a rung.                              *)
LEMMA SeriesGrows ==
  ASSUME NEW g, GraphOK(g), NEW i \in DOMAIN g.rungs,
         NEW id \in Ids \ Nodes(g), NEW k \in Kinds,
         NEW e \in Seq(Ids), IsInjective(e), ToSet(e) = Series(g.rungs[i]) \cup {id}
  PROVE  /\ GrownBy(g, SeriesGrown(g, i, id, k, e), i, id, WithElems(g.rungs[i], e))
         /\ Series(WithElems(g.rungs[i], e)) = ToSet(e)
<1> DEFINE r   == g.rungs[i]
           n   == AddNode(g, id, k)
           new == WithElems(r, e)
           X   == {id}
<1>1. /\ r \in Rungs /\ RungWellFormed(n, r)
      /\ id \in Nodes(n) \ Rails /\ id \notin Placed(r)
  BY RungKeptByNew
<1>2. X \subseteq Nodes(n) \ Rails /\ X \cap Members(r) = {} /\ ToSet(e) = Series(r) \cup X
  BY <1>1 DEF Placed
<1>3. new \in Rungs /\ RungWellFormed(n, new) /\ Placed(new) = Placed(r) \cup X
      /\ Series(new) = ToSet(e) /\ new.id = r.id
  <2> HIDE DEF n, r, X
  <2> QED
    BY <1>1, <1>2, SeriesChanged
<1> HIDE DEF new
<1>4. LET h == SetRung(n, i, new)
      IN  /\ GraphOK(h) /\ Listed(h, new) /\ Nodes(h) = Nodes(g) \cup {id}
          /\ Replaced(g, h, i, new) /\ \A Y : Spares(g, h, Y)
  BY <1>3, RungGrows
<1> QED
  BY <1>3, <1>4 DEF SeriesGrown, GrownBy, new

(* Where the new element goes: a slot of the series.                        *)
SlotIn(g, i, at)      == Slot(at, g.rungs[i].elems)
Inserted(g, i, at, id) == Insert(g.rungs[i].elems, SlotIn(g, i, at), <<id>>)

(* The new element goes into the series at a slot that is there.            *)
LEMMA SlotInserts ==
  ASSUME NEW g, GraphOK(g), NEW i \in DOMAIN g.rungs, NEW at \in Nat,
         NEW id \in Ids \ Nodes(g)
  PROVE  /\ SlotIn(g, i, at) \in 0..Len(g.rungs[i].elems)
         /\ Inserted(g, i, at, id) \in Seq(Ids) /\ IsInjective(Inserted(g, i, at, id))
         /\ ToSet(Inserted(g, i, at, id)) = Series(g.rungs[i]) \cup {id}
<1> DEFINE r == g.rungs[i]
           s == SlotIn(g, i, at)
<1>1. g \in Diagrams /\ r \in Rungs /\ RungWellFormed(g, r)
  BY RungAt DEF GraphOK, Placement
<1>2. r.elems \in Seq(Ids) /\ Len(r.elems) \in Nat
  BY <1>1, RungIs
<1>3. s \in 0..Len(r.elems)
  BY <1>2 DEF Slot, SlotIn
<1>4. id \notin ToSet(r.elems) /\ IsInjective(r.elems)
  BY <1>1 DEF RungWellFormed, Placed, Series
<1> HIDE DEF s
<1>5. /\ Insert(r.elems, s, <<id>>) \in Seq(Ids)
      /\ ToSet(Insert(r.elems, s, <<id>>)) = ToSet(r.elems) \cup {id}
      /\ IsInjective(Insert(r.elems, s, <<id>>))
  BY <1>2, <1>3, <1>4, InsertLists
<1> QED
  BY <1>3, <1>5 DEF s, Series, Inserted

------------------------------------------------------------------------------
(* Edits, and whether they leave the branches wired.                        *)

\* Rungs are told apart by their ids.
IdsApart(g) == \A i, j \in DOMAIN g.rungs : g.rungs[i].id = g.rungs[j].id => i = j

\* A rung of g that has other contents in h is wired in h.
Rewires(g, h) ==
  \A i \in DOMAIN g.rungs, j \in DOMAIN h.rungs :
    /\ g.rungs[i].id = h.rungs[j].id
    /\ Contents(g.rungs[i]) # Contents(h.rungs[j])
    => BranchesWired(h, h.rungs[j])

\* What each operation does to the rungs, and so does a gesture.
Edited(g, h) == IdsApart(g) => IdsApart(h) /\ Rewires(g, h)

\* The rungs of h have the contents, branches apart, of those of g.
SameContents(g, h) ==
  /\ DOMAIN h.rungs = DOMAIN g.rungs
  /\ \A j \in DOMAIN g.rungs : /\ h.rungs[j].id = g.rungs[j].id
                               /\ Contents(h.rungs[j]) = Contents(g.rungs[j])

\* Nodes no other rung than the i-th places.
Private(g, i, X) ==
  X \cap Rails = {} /\ \A j \in DOMAIN g.rungs : j # i => X \cap Placed(g.rungs[j]) = {}

\* The other rungs stay as they are, and so do their wires.
Others(g, h, i) ==
  \A j \in DOMAIN g.rungs :
    j # i => g.rungs[j] \in RungsOf(h) /\ OwnWires(h, g.rungs[j]) = OwnWires(g, g.rungs[j])

\* What OtherRungsUntouched says of an edit.
Untouched(g, h) ==
  \A i, k \in DOMAIN g.rungs :
    i # k /\ g.rungs[i] \in RungsOf(h)
      => \/ OwnWires(h, g.rungs[i]) = OwnWires(g, g.rungs[i])
         \/ \E rung \in RungsOf(h) : /\ rung.id = g.rungs[k].id
                                    /\ OwnWires(h, rung) = OwnWires(g, g.rungs[k])

\* An edit that changes wires leaves the rungs untouched, all but one.
Sparing(g, h) == IdsApart(g) /\ h.wires # g.wires => Untouched(g, h)

(* One rung is all that changes.                                            *)
LEMMA OthersSparing ==
  ASSUME NEW g, NEW h, NEW i, Others(g, h, i)
  PROVE  Sparing(g, h)
<1> SUFFICES ASSUME NEW j \in DOMAIN g.rungs, NEW k \in DOMAIN g.rungs, j # k
             PROVE  \/ OwnWires(h, g.rungs[j]) = OwnWires(g, g.rungs[j])
                    \/ \E rung \in RungsOf(h) : /\ rung.id = g.rungs[k].id
                                               /\ OwnWires(h, rung) = OwnWires(g, g.rungs[k])
  BY DEF Sparing, Untouched
<1>1. CASE j # i
  BY <1>1 DEF Others
<1>2. CASE j = i
  <2>1. g.rungs[k] \in RungsOf(h) /\ OwnWires(h, g.rungs[k]) = OwnWires(g, g.rungs[k])
    BY <1>2 DEF Others
  <2> QED
    BY <2>1
<1> QED
  BY <1>1, <1>2

(* What a rung places is its own, and with it a node that is new.           *)
LEMMA PrivateNodes ==
  ASSUME NEW g, GraphOK(g), NEW i \in DOMAIN g.rungs
  PROVE  /\ Private(g, i, Placed(g.rungs[i]))
         /\ \A id \in Ids \ Nodes(g) : Private(g, i, Placed(g.rungs[i]) \cup {id})
<1>1. \A j \in DOMAIN g.rungs : Placed(g.rungs[j]) \subseteq Nodes(g) \ Rails
  BY DEF GraphOK, Placement, RungWellFormed
<1>2. \A j \in DOMAIN g.rungs : j # i => Placed(g.rungs[i]) \cap Placed(g.rungs[j]) = {}
  BY DEF GraphOK, Placement, RungsApart
<1>3. \A id \in Ids : id \notin Rails
  BY IdsAssumption DEF Rails
<1> QED
  BY <1>1, <1>2, <1>3 DEF Private

(* An edit of one rung that changes wires of its nodes only.                *)
LEMMA OneTouched ==
  ASSUME NEW g, GraphOK(g), NEW i \in DOMAIN g.rungs, NEW r, NEW h, Replaced(g, h, i, r),
         NEW X, Private(g, i, X), Spares(g, h, X)
  PROVE  Others(g, h, i)
<1>1. g.rungs \in Seq(Rungs)
  BY RungAt DEF GraphOK
<1>2. \A j \in DOMAIN g.rungs : j # i => g.rungs[j] \in RungsOf(h)
  BY <1>1 DEF Replaced, RungsOf, ToSet
<1>3. \A j \in DOMAIN g.rungs : j # i => OwnWires(h, g.rungs[j]) = OwnWires(g, g.rungs[j])
  BY OwnSpared DEF Private
<1> QED
  BY <1>2, <1>3 DEF Others

(* An edit after one that keeps the contents of the rungs.                  *)
LEMMA EditedAfter ==
  ASSUME NEW g, NEW h, NEW k, SameContents(g, h), Edited(g, h), Edited(h, k)
  PROVE  Edited(g, k)
<1> SUFFICES ASSUME IdsApart(g) PROVE IdsApart(k) /\ Rewires(g, k)
  BY DEF Edited
<1>1. IdsApart(k) /\ Rewires(h, k)
  BY DEF Edited
<1> QED
  BY <1>1 DEF Rewires, SameContents

(* One rung is another, rewired or with the contents it had.                *)
LEMMA OneEdited ==
  ASSUME NEW g, GraphOK(g), NEW i \in DOMAIN g.rungs, NEW r, r.id = g.rungs[i].id,
         NEW h, Replaced(g, h, i, r),
         BranchesWired(h, r) \/ Contents(r) = Contents(g.rungs[i])
  PROVE  Edited(g, h)
<1> SUFFICES ASSUME IdsApart(g) PROVE IdsApart(h) /\ Rewires(g, h)
  BY DEF Edited
<1>1. g.rungs \in Seq(Rungs)
  BY RungAt DEF GraphOK
<1>2. /\ DOMAIN h.rungs = DOMAIN g.rungs /\ h.rungs[i] = r
      /\ \A j \in DOMAIN g.rungs : j # i => h.rungs[j] = g.rungs[j]
  BY <1>1 DEF Replaced
<1>3. \A j \in DOMAIN g.rungs : h.rungs[j].id = g.rungs[j].id
  BY <1>2
<1>4. IdsApart(h)
  BY <1>2, <1>3 DEF IdsApart
<1>5. ASSUME NEW l \in DOMAIN g.rungs, NEW j \in DOMAIN h.rungs,
             g.rungs[l].id = h.rungs[j].id,
             Contents(g.rungs[l]) # Contents(h.rungs[j])
      PROVE  BranchesWired(h, h.rungs[j])
  <2>1. l = j
    BY <1>2, <1>3, <1>5 DEF IdsApart
  <2> QED
    BY <1>2, <1>5, <2>1
<1> QED
  BY <1>4, <1>5 DEF Rewires

(* Rungs that come from different rungs there were, with the contents they  *)
(* had.                                                                     *)
LEMMA RungsEdited ==
  ASSUME NEW g, NEW h, NEW p,
         \A j \in DOMAIN h.rungs : /\ p[j] \in DOMAIN g.rungs
                                   /\ h.rungs[j].id = g.rungs[p[j]].id
                                   /\ Contents(h.rungs[j]) = Contents(g.rungs[p[j]]),
         \A j, k \in DOMAIN h.rungs : p[j] = p[k] => j = k
  PROVE  Edited(g, h)
<1> SUFFICES ASSUME IdsApart(g) PROVE IdsApart(h) /\ Rewires(g, h)
  BY DEF Edited
<1>1. IdsApart(h)
  BY DEF IdsApart
<1>2. \A i \in DOMAIN g.rungs, j \in DOMAIN h.rungs :
        g.rungs[i].id = h.rungs[j].id => i = p[j]
  BY DEF IdsApart
<1> QED
  BY <1>1, <1>2 DEF Rewires

\* The rung r is q or lists less than q: no other rung does either way.
Shrunk(r, q) ==
  /\ Placed(r) \subseteq Placed(q) /\ DOMAIN r.branches \subseteq DOMAIN q.branches
  /\ Placed(r) = Placed(q) /\ DOMAIN r.branches = DOMAIN q.branches => r = q

\* A deletion shrinks rungs in place.  Every one that it changes or that was
\* wired is wired afterwards, and the others keep their wires.
Pruned(g, h) ==
  /\ DOMAIN h.rungs = DOMAIN g.rungs
  /\ \A j \in DOMAIN g.rungs :
       /\ h.rungs[j].id = g.rungs[j].id
       /\ h.rungs[j] # g.rungs[j] \/ BranchesWired(g, g.rungs[j])
            => BranchesWired(h, h.rungs[j])
       /\ Shrunk(h.rungs[j], g.rungs[j])
       /\ h.rungs[j] = g.rungs[j] => OwnWires(h, g.rungs[j]) = OwnWires(g, g.rungs[j])

(* Two deletions in a row: the second does not undo the wires of the first. *)
LEMMA PrunedTwice ==
  ASSUME NEW g, NEW h, NEW k, Pruned(g, h), Pruned(h, k)
  PROVE  Pruned(g, k)
<1> SUFFICES ASSUME NEW j \in DOMAIN g.rungs
             PROVE  /\ k.rungs[j].id = g.rungs[j].id
                    /\ k.rungs[j] # g.rungs[j] \/ BranchesWired(g, g.rungs[j])
                         => BranchesWired(k, k.rungs[j])
                    /\ Shrunk(k.rungs[j], g.rungs[j])
                    /\ k.rungs[j] = g.rungs[j]
                         => OwnWires(k, g.rungs[j]) = OwnWires(g, g.rungs[j])
  BY DEF Pruned
<1>1. /\ h.rungs[j].id = g.rungs[j].id /\ k.rungs[j].id = h.rungs[j].id
      /\ h.rungs[j] # g.rungs[j] \/ BranchesWired(g, g.rungs[j]) => BranchesWired(h, h.rungs[j])
      /\ k.rungs[j] # h.rungs[j] \/ BranchesWired(h, h.rungs[j]) => BranchesWired(k, k.rungs[j])
  BY DEF Pruned
<1>2. /\ k.rungs[j].id = g.rungs[j].id
      /\ k.rungs[j] # g.rungs[j] \/ BranchesWired(g, g.rungs[j]) => BranchesWired(k, k.rungs[j])
  BY <1>1, Zenon
<1>3. /\ Shrunk(h.rungs[j], g.rungs[j]) /\ Shrunk(k.rungs[j], h.rungs[j])
      /\ h.rungs[j] = g.rungs[j] => OwnWires(h, g.rungs[j]) = OwnWires(g, g.rungs[j])
      /\ k.rungs[j] = h.rungs[j] => OwnWires(k, h.rungs[j]) = OwnWires(h, h.rungs[j])
  BY DEF Pruned
<1>4. Shrunk(k.rungs[j], g.rungs[j]) /\ (k.rungs[j] = g.rungs[j] => h.rungs[j] = g.rungs[j])
  BY <1>3 DEF Shrunk
<1>5. k.rungs[j] = g.rungs[j] => OwnWires(k, g.rungs[j]) = OwnWires(g, g.rungs[j])
  BY <1>3, <1>4
<1> QED
  BY <1>2, <1>4, <1>5

(* A deletion is an edit.                                                   *)
LEMMA PrunedEdited ==
  ASSUME NEW g, NEW h, IdsApart(g) => Pruned(g, h)
  PROVE  Edited(g, h)
<1> SUFFICES ASSUME IdsApart(g) PROVE IdsApart(h) /\ Rewires(g, h)
  BY DEF Edited
<1>1. /\ DOMAIN h.rungs = DOMAIN g.rungs
      /\ \A j \in DOMAIN g.rungs : /\ h.rungs[j].id = g.rungs[j].id
                                   /\ h.rungs[j] # g.rungs[j] => BranchesWired(h, h.rungs[j])
  BY DEF Pruned
<1>2. IdsApart(h)
  BY <1>1 DEF IdsApart
<1>3. ASSUME NEW i \in DOMAIN g.rungs, NEW j \in DOMAIN h.rungs,
             g.rungs[i].id = h.rungs[j].id,
             Contents(g.rungs[i]) # Contents(h.rungs[j])
      PROVE  BranchesWired(h, h.rungs[j])
  <2>1. i = j
    BY <1>1, <1>3 DEF IdsApart
  <2> QED
    BY <1>1, <1>3, <2>1
<1> QED
  BY <1>2, <1>3 DEF Rewires

(* A rung that a deletion leaves as it was keeps its wires.                 *)
LEMMA PrunedSparing ==
  ASSUME NEW g, NEW h, IdsApart(g) => Pruned(g, h)
  PROVE  Sparing(g, h)
<1> SUFFICES ASSUME IdsApart(g) PROVE Untouched(g, h)
  BY DEF Sparing
<1>1. /\ DOMAIN h.rungs = DOMAIN g.rungs
      /\ \A j \in DOMAIN g.rungs :
           /\ h.rungs[j].id = g.rungs[j].id
           /\ h.rungs[j] = g.rungs[j] => OwnWires(h, g.rungs[j]) = OwnWires(g, g.rungs[j])
  BY DEF Pruned
<1>2. ASSUME NEW i \in DOMAIN g.rungs, g.rungs[i] \in RungsOf(h)
      PROVE  OwnWires(h, g.rungs[i]) = OwnWires(g, g.rungs[i])
  <2>1. PICK l \in DOMAIN h.rungs : h.rungs[l] = g.rungs[i]
    BY <1>2 DEF RungsOf, ToSet
  <2>2. l = i
    BY <1>1, <2>1 DEF IdsApart
  <2> QED
    BY <1>1, <2>1, <2>2
<1> QED
  BY <1>2 DEF Untouched

(* A wired rung stays wired when nodes of other rungs go and other rungs    *)
(* are rewired.                                                             *)
LEMMA RemainsWired ==
  ASSUME NEW g, NEW r \in Rungs, RungWellFormed(g, r), BranchesWired(g, r),
         NEW gone, (Placed(r) \cup {RightRail}) \cap gone = {},
         NEW h \in Diagrams, Nodes(h) = Nodes(g) \ gone,
         h.wires = g.wires \ Touching(g.wires, gone),
         NEW R, \A x \in R : /\ DOMAIN x.branches \subseteq Placed(x)
                             /\ Placed(x) \cap (Placed(r) \cup {RightRail}) = {}
  PROVE  BranchesWired(RewireBranches(h, R), r)
<1> DEFINE old == UNION {OldBranchWires(h, x) : x \in R}
           new == UNION {UNION {BranchWires(h, x, a) : a \in DOMAIN x.branches} : x \in R}
           W == (h.wires \ old) \cup new
           k == [h EXCEPT !.wires = W]
           S == Placed(r) \cup {RightRail}
<1>1. RewireBranches(h, R) = k
  BY Zenon DEF RewireBranches
<1>2. (S \X S) \cap old = {}
  <2>1. ASSUME NEW x \in R PROVE (S \X S) \cap OldBranchWires(h, x) = {}
    <3>1. Placed(x) \cap S = {} /\ Members(x) \subseteq Placed(x)
      BY DEF Placed
    <3>2. DOMAIN x.branches \cap S = {}
      BY <3>1
    <3> HIDE DEF S
    <3>3. (S \X S) \cap Touching(h.wires, Members(x)) = {}
      BY <3>1 DEF Touching
    <3>4. (S \X S) \cap {<<a, SeriesSuccessor(x, a)>> : a \in DOMAIN x.branches} = {}
      BY <3>2
    <3> QED
      BY <3>3, <3>4 DEF OldBranchWires
  <2> QED
    BY <2>1
<1>3. (S \X S) \cap Touching(g.wires, gone) = {}
  BY DEF Touching
<1> HIDE DEF old, new
<1>4. g.wires \cap (S \X S) \subseteq W
  BY <1>2, <1>3
<1> HIDE DEF W
<1>5. k.kind = h.kind /\ k.wires = W
  BY DEF Diagrams
<1> HIDE DEF k
<1>6. FindRightRail(k) = FindRightRail(g)
  BY <1>5 DEF FindRightRail, OnlyIf, Nodes
<1>7. \A a \in DOMAIN r.branches : BranchWires(k, r, a) = BranchWires(g, r, a)
  BY <1>6, Zenon DEF BranchWires
<1>8. \A a \in DOMAIN r.branches : BranchWires(g, r, a) \subseteq S \X S
  BY BranchWiresWithin DEF RungWellFormed, Rails, Placed
<1> HIDE DEF S
<1>9. ASSUME NEW a \in DOMAIN r.branches, r.branches[a] # <<>>
      PROVE  BranchWires(k, r, a) \subseteq k.wires
  <2>1. BranchWires(g, r, a) \subseteq g.wires
    BY <1>9 DEF BranchesWired
  <2> QED
    BY <1>4, <1>5, <1>7, <1>8, <2>1
<1> QED
  BY <1>1, <1>9 DEF BranchesWired

------------------------------------------------------------------------------
(* The operations that add an element to the series.                        *)

(* Adding wires, rewiring branches and rewiring the series preserve         *)
(* GraphOK.                                                                 *)
LEMMA WiredOK ==
  ASSUME NEW h, GraphOK(h), NEW W, W \subseteq Nodes(h) \X Nodes(h)
  PROVE  /\ GraphOK(AddWires(h, W)) /\ Nodes(AddWires(h, W)) = Nodes(h)
         /\ \A r : Listed(h, r) => Listed(AddWires(h, W), r)
         /\ AddWires(h, W).rungs = h.rungs
         /\ \A r : BranchesWired(h, r) => BranchesWired(AddWires(h, W), r)
         /\ \A X : (\A w \in W : w[1] \in X \/ w[2] \in X) => Spares(h, AddWires(h, W), X)
<1>1. Rewired(h, AddWires(h, W)) /\ Placement(h)
  BY AddWiresJoin DEF GraphOK
<1>2. AddWires(h, W).kind = h.kind /\ h.wires \subseteq AddWires(h, W).wires
  BY DEF AddWires, GraphOK, Diagrams
<1>3. \A r : BranchesWired(h, r) => BranchesWired(AddWires(h, W), r)
  BY <1>2, StayWired
<1>4. AddWires(h, W).rungs = h.rungs
  BY <1>1 DEF Rewired
<1>5. AddWires(h, W).wires = h.wires \cup W
  BY DEF AddWires, GraphOK, Diagrams
<1>6. \A X : (\A w \in W : w[1] \in X \/ w[2] \in X) => Spares(h, AddWires(h, W), X)
  BY <1>5 DEF Spares
<1> QED
  BY <1>1, <1>3, <1>4, <1>6, RewiredOK, RewiredLists

(* The same for rewireRungBranches, ...                                     *)
LEMMA BranchesOK ==
  ASSUME NEW h, GraphOK(h), NEW r, Listed(h, r)
  PROVE  /\ GraphOK(RewireRungBranches(h, r))
         /\ Nodes(RewireRungBranches(h, r)) = Nodes(h)
         /\ Listed(RewireRungBranches(h, r), r)
         /\ RewireRungBranches(h, r).rungs = h.rungs
         /\ BranchesWired(RewireRungBranches(h, r), r)
         /\ \A X : Placed(r) \subseteq X => Spares(h, RewireRungBranches(h, r), X)
<1>1. Rewired(h, RewireRungBranches(h, r)) /\ Placement(h)
  BY RewireRungJoins DEF GraphOK
<1>2. BranchesWired(RewireRungBranches(h, r), r)
  BY RewireWires DEF RewireRungBranches, GraphOK
<1>3. RewireRungBranches(h, r).rungs = h.rungs
  BY <1>1 DEF Rewired
<1>4. "wires" \in DOMAIN h
  BY DEF GraphOK, Diagrams
<1>5. \A X : Placed(r) \subseteq X => Spares(h, RewireRungBranches(h, r), X)
  BY <1>4, RewireSpares DEF RewireRungBranches, Listed
<1> QED
  BY <1>1, <1>2, <1>3, <1>5, RewiredOK, RewiredLists

(* ... and for rewireRungSeries.                                            *)
LEMMA SeriesOK ==
  ASSUME NEW h, GraphOK(h), NEW r, Listed(h, r)
  PROVE  /\ GraphOK(RewireRungSeries(h, r))
         /\ Listed(RewireRungSeries(h, r), r)
         /\ RewireRungSeries(h, r).rungs = h.rungs
         /\ r.elems # <<>> => BranchesWired(RewireRungSeries(h, r), r)
         /\ \A X : Placed(r) \subseteq X => Spares(h, RewireRungSeries(h, r), X)
<1>1. Rewired(h, RewireRungSeries(h, r)) /\ Placement(h)
  BY RewireSeriesJoins DEF GraphOK
<1>2. r.elems # <<>> => BranchesWired(RewireRungSeries(h, r), r)
  BY RewireSeriesJoins DEF GraphOK
<1>3. RewireRungSeries(h, r).rungs = h.rungs
  BY <1>1 DEF Rewired
<1>4. \A X : Placed(r) \subseteq X => Spares(h, RewireRungSeries(h, r), X)
  BY RewireSeriesSpares DEF GraphOK, Listed
<1> QED
  BY <1>1, <1>2, <1>3, <1>4, RewiredOK, RewiredLists

(* The element in front of a slot and the one a rung ends in are nodes.     *)
LEMMA NeighboursAre ==
  ASSUME NEW g, GraphOK(g), NEW i \in DOMAIN g.rungs, NEW s \in 0..Len(g.rungs[i].elems)
  PROVE  /\ (IF s = 0 THEN FindLeftRail(g) ELSE g.rungs[i].elems[s]) \in Nodes(g) \cup {NoNode}
         /\ OrElse(FindCoil(g, g.rungs[i]), FindRightRail(g)) \in Nodes(g) \cup {NoNode}
<1> DEFINE r == g.rungs[i]
<1>1. g \in Diagrams /\ r \in Rungs /\ Series(r) \subseteq Nodes(g)
  BY RungAt DEF GraphOK, Placement, RungWellFormed, Placed
<1>2. r.elems \in Seq(Ids)
  BY <1>1, RungIs
<1>3. Len(r.elems) \in Nat /\ \A j \in 1..Len(r.elems) : r.elems[j] \in Series(r)
  BY <1>2, ElementsIn DEF Series
<1>4. FindCoil(g, r) \in Nodes(g) \cup {NoNode}
  BY <1>1, CoilIs
<1> HIDE DEF r
<1>5. s # 0 => r.elems[s] \in Nodes(g)
  BY <1>1, <1>3 DEF r
<1> QED
  BY <1>4, <1>5, RailsAre DEF OrElse, r

(* addContact: the new contact, the wire to it, perhaps the one behind it.  *)
LEMMA AddContactOK ==
  ASSUME NEW g, GraphOK(g), NEW i \in DOMAIN g.rungs, NEW at \in Nat,
         NEW id \in Ids \ Nodes(g)
  PROVE  /\ GraphOK(AddContact(g, i, at, id))
         /\ Edited(g, AddContact(g, i, at, id)) /\ Others(g, AddContact(g, i, at, id), i)
<1> DEFINE r     == g.rungs[i]
           s     == SlotIn(g, i, at)
           e     == Inserted(g, i, at, id)
           new   == WithElems(r, e)
           h     == SeriesGrown(g, i, id, "contact", e)
           prev  == IF s = 0 THEN FindLeftRail(g) ELSE r.elems[s]
           end   == OrElse(FindCoil(g, r), FindRightRail(g))
           after == IF s = Len(r.elems) THEN Wire(id, end) ELSE {}
           W     == Wire(prev, id) \cup after
<1>1. /\ s \in 0..Len(r.elems)
      /\ e \in Seq(Ids) /\ IsInjective(e) /\ ToSet(e) = Series(r) \cup {id}
  <2> HIDE DEF s, e, r, h
  <2>1. s \in 0..Len(g.rungs[i].elems)
    BY SlotInserts DEF s
  <2>2. e \in Seq(Ids) /\ IsInjective(e)
    BY SlotInserts DEF e
  <2>3. ToSet(e) = Series(g.rungs[i]) \cup {id}
    BY SlotInserts DEF e
  <2> QED
    BY <2>1, <2>2, <2>3 DEF r
<1>2. AddContact(g, i, at, id) = RewireRungBranches(AddWires(h, W), new)
  BY Zenon DEF AddContact, SeriesGrown, WithElems, SlotIn, Inserted
<1>3. prev \in Nodes(g) \cup {NoNode} /\ end \in Nodes(g) \cup {NoNode}
  BY <1>1, NeighboursAre
<1> HIDE DEF e, s, prev, end
<1>4. /\ GraphOK(h) /\ Listed(h, new) /\ Nodes(h) = Nodes(g) \cup {id}
      /\ Replaced(g, h, i, new) /\ new.id = g.rungs[i].id
      /\ Placed(new) = Placed(g.rungs[i]) \cup {id} /\ \A X : Spares(g, h, X)
  <2>1. "contact" \in Kinds
    BY DEF Kinds
  <2>2. GrownBy(g, h, i, id, new)
    BY <1>1, <2>1, SeriesGrows
  <2> QED
    BY <2>2 DEF GrownBy
<1> HIDE DEF h, r, new
<1>5. Wire(prev, id) \subseteq Nodes(h) \X Nodes(h) /\ Wire(id, end) \subseteq Nodes(h) \X Nodes(h)
  BY <1>3, <1>4, WireJoins
<1> DEFINE X == Placed(g.rungs[i]) \cup {id}
<1>9. /\ Private(g, i, X) /\ Placed(new) \subseteq X /\ id \in X /\ Spares(g, h, X)
  BY <1>4, PrivateNodes
<1> HIDE DEF X
<1>6. W \subseteq Nodes(h) \X Nodes(h) /\ \A w \in W : w[1] \in X \/ w[2] \in X
  BY <1>5, <1>9 DEF Wire
<1> HIDE DEF W
<1> DEFINE k == AddWires(h, W)
           f == RewireRungBranches(k, new)
<1>7. GraphOK(k) /\ Listed(k, new) /\ Replaced(g, k, i, new) /\ Spares(h, k, X)
  BY <1>4, <1>6, WiredOK DEF Replaced
<1> HIDE DEF k
<1>8. GraphOK(f) /\ Replaced(g, f, i, new) /\ BranchesWired(f, new) /\ Spares(k, f, X)
  BY <1>7, <1>9, BranchesOK DEF Replaced
<1> HIDE DEF f
<1> QED
  BY <1>2, <1>4, <1>7, <1>8, <1>9, OneEdited, OneTouched, SparesBoth DEF f, k

(* addFb: the same with a function block, wired on both sides.              *)
LEMMA AddFbOK ==
  ASSUME NEW g, GraphOK(g), NEW i \in DOMAIN g.rungs, NEW at \in Nat,
         NEW id \in Ids \ Nodes(g)
  PROVE  /\ GraphOK(AddFb(g, i, at, id))
         /\ Edited(g, AddFb(g, i, at, id)) /\ Others(g, AddFb(g, i, at, id), i)
<1> DEFINE r    == g.rungs[i]
           s    == SlotIn(g, i, at)
           e    == Inserted(g, i, at, id)
           new  == WithElems(r, e)
           h    == SeriesGrown(g, i, id, "fb", e)
           prev == IF s = 0 THEN FindLeftRail(g) ELSE r.elems[s]
           end  == OrElse(FindCoil(g, r), FindRightRail(g))
           succ == OrElse(SeriesSuccessor(new, id), end)
           W    == Wire(prev, id) \cup Wire(id, succ)
<1>1. /\ s \in 0..Len(r.elems)
      /\ e \in Seq(Ids) /\ IsInjective(e) /\ ToSet(e) = Series(r) \cup {id}
  <2> HIDE DEF s, e, r, h
  <2>1. s \in 0..Len(g.rungs[i].elems)
    BY SlotInserts DEF s
  <2>2. e \in Seq(Ids) /\ IsInjective(e)
    BY SlotInserts DEF e
  <2>3. ToSet(e) = Series(g.rungs[i]) \cup {id}
    BY SlotInserts DEF e
  <2> QED
    BY <2>1, <2>2, <2>3 DEF r
<1>2. AddFb(g, i, at, id) = RewireRungBranches(AddWires(h, W), new)
  BY Zenon DEF AddFb, SeriesGrown, WithElems, SlotIn, Inserted
<1>3. prev \in Nodes(g) \cup {NoNode} /\ end \in Nodes(g) \cup {NoNode}
  BY <1>1, NeighboursAre
<1> HIDE DEF e, s, prev, end
<1>4. /\ GraphOK(h) /\ Listed(h, new) /\ Nodes(h) = Nodes(g) \cup {id}
      /\ Replaced(g, h, i, new)
      /\ new \in Rungs /\ new.id = g.rungs[i].id /\ Series(new) = ToSet(e)
      /\ Placed(new) = Placed(g.rungs[i]) \cup {id} /\ \A X : Spares(g, h, X)
  <2>1. "fb" \in Kinds
    BY DEF Kinds
  <2>2. GrownBy(g, h, i, id, new) /\ Series(new) = ToSet(e)
    BY <1>1, <2>1, SeriesGrows
  <2> QED
    BY <2>2 DEF GrownBy
<1> HIDE DEF h, r, new
<1>5. SeriesSuccessor(new, id) \in Nodes(h) \cup {NoNode}
  BY <1>4, SuccessorIs DEF Listed, Tidy, Placed
<1>6. succ \in Nodes(h) \cup {NoNode}
  BY <1>3, <1>4, <1>5 DEF OrElse
<1> HIDE DEF succ
<1>7. Wire(prev, id) \subseteq Nodes(h) \X Nodes(h) /\ Wire(id, succ) \subseteq Nodes(h) \X Nodes(h)
  BY <1>3, <1>4, <1>6, WireJoins
<1> DEFINE X == Placed(g.rungs[i]) \cup {id}
<1>11. /\ Private(g, i, X) /\ Placed(new) \subseteq X /\ id \in X /\ Spares(g, h, X)
  BY <1>4, PrivateNodes
<1> HIDE DEF X
<1>8. W \subseteq Nodes(h) \X Nodes(h) /\ \A w \in W : w[1] \in X \/ w[2] \in X
  BY <1>7, <1>11 DEF Wire
<1> HIDE DEF W
<1> DEFINE k == AddWires(h, W)
           f == RewireRungBranches(k, new)
<1>9. GraphOK(k) /\ Listed(k, new) /\ Replaced(g, k, i, new) /\ Spares(h, k, X)
  BY <1>4, <1>8, WiredOK DEF Replaced
<1> HIDE DEF k
<1>10. GraphOK(f) /\ Replaced(g, f, i, new) /\ BranchesWired(f, new) /\ Spares(k, f, X)
  BY <1>9, <1>11, BranchesOK DEF Replaced
<1> HIDE DEF f
<1> QED
  BY <1>2, <1>4, <1>9, <1>10, <1>11, OneEdited, OneTouched, SparesBoth DEF f, k

(* addCoil: at the end of the series, wired to the last contact.            *)
LEMMA AddCoilOK ==
  ASSUME NEW g, GraphOK(g), NEW i \in DOMAIN g.rungs, NEW id \in Ids \ Nodes(g),
         CanAddCoil(g, i)
  PROVE  /\ GraphOK(AddCoil(g, i, id))
         /\ Edited(g, AddCoil(g, i, id)) /\ Others(g, AddCoil(g, i, id), i)
<1> DEFINE r    == g.rungs[i]
           e    == Append(r.elems, id)
           new  == WithElems(r, e)
           h    == SeriesGrown(g, i, id, "coil", e)
           prev == r.elems[LastContact(g, r)]
           fed  == AddWires(h, Wire(prev, id))
           k    == RewireRungBranches(fed, new)
<1>1. AddCoil(g, i, id) = AddWires(k, Wire(id, FindRightRail(g)))
  BY Zenon DEF AddCoil, SeriesGrown, WithElems
<1>2. g \in Diagrams /\ r \in Rungs /\ RungWellFormed(g, r)
  BY RungAt DEF GraphOK, Placement
<1>3. Series(r) \subseteq Nodes(g)
  BY <1>2 DEF RungWellFormed, Placed
<1>4. e \in Seq(Ids) /\ IsInjective(e) /\ ToSet(e) = Series(r) \cup {id}
  <2>1. r.elems \in Seq(Ids)
    BY <1>2, RungIs
  <2>2. id \notin ToSet(r.elems) /\ IsInjective(r.elems)
    BY <1>2, <1>3 DEF RungWellFormed, Series
  <2> QED
    BY <2>1, <2>2, AppendLists DEF Series
<1>5. prev \in Nodes(g)
  <2>1. LastContact(g, r) # 0
    BY DEF CanAddCoil
  <2> QED
    BY <1>2, <1>3, <2>1, LastContactIs
<1> HIDE DEF e, prev
<1>6. /\ GraphOK(h) /\ Listed(h, new) /\ Nodes(h) = Nodes(g) \cup {id}
      /\ Replaced(g, h, i, new) /\ new.id = g.rungs[i].id
      /\ Placed(new) = Placed(g.rungs[i]) \cup {id} /\ \A X : Spares(g, h, X)
  <2>1. "coil" \in Kinds
    BY DEF Kinds
  <2>2. GrownBy(g, h, i, id, new)
    BY <1>4, <2>1, SeriesGrows
  <2> QED
    BY <2>2 DEF GrownBy
<1> HIDE DEF h, r, new
<1> DEFINE X == Placed(g.rungs[i]) \cup {id}
<1>12. /\ Private(g, i, X) /\ Placed(new) \subseteq X /\ id \in X /\ Spares(g, h, X)
  BY <1>6, PrivateNodes
<1> HIDE DEF X
<1>13. /\ \A w \in Wire(prev, id) : w[1] \in X \/ w[2] \in X
       /\ \A w \in Wire(id, FindRightRail(g)) : w[1] \in X \/ w[2] \in X
  BY <1>12 DEF Wire
<1>7. Wire(prev, id) \subseteq Nodes(h) \X Nodes(h)
  BY <1>5, <1>6, WireJoins
<1>8. /\ GraphOK(fed) /\ Listed(fed, new) /\ Nodes(fed) = Nodes(h)
      /\ Replaced(g, fed, i, new) /\ Spares(h, fed, X)
  BY <1>6, <1>7, <1>13, WiredOK DEF Replaced
<1> HIDE DEF fed
<1>9. /\ GraphOK(k) /\ Nodes(k) = Nodes(h)
      /\ Replaced(g, k, i, new) /\ BranchesWired(k, new) /\ Spares(fed, k, X)
  BY <1>8, <1>12, BranchesOK DEF Replaced
<1> HIDE DEF k
<1>10. Wire(id, FindRightRail(g)) \subseteq Nodes(k) \X Nodes(k)
  BY <1>6, <1>9, RailsAre, WireJoins
<1> DEFINE f == AddWires(k, Wire(id, FindRightRail(g)))
<1>11. GraphOK(f) /\ Replaced(g, f, i, new) /\ BranchesWired(f, new) /\ Spares(k, f, X)
  BY <1>9, <1>10, <1>13, WiredOK DEF Replaced
<1> HIDE DEF f
<1> QED
  <2>1. Spares(g, f, X)
    BY <1>8, <1>9, <1>11, <1>12, SparesBoth
  <2> QED
    BY <1>1, <1>6, <1>11, <1>12, <2>1, OneEdited, OneTouched DEF f

(* pasteElements, for one element of a kind a rung may hold.                *)
LEMMA PasteElementOK ==
  ASSUME NEW g, GraphOK(g), NEW i \in DOMAIN g.rungs, NEW at \in Nat,
         NEW id \in Ids \ Nodes(g), NEW source \in Nodes(g), g.kind[source] \notin {"left", "right"}
  PROVE  /\ GraphOK(PasteElement(g, source, i, at, id))
         /\ Edited(g, PasteElement(g, source, i, at, id))
         /\ Others(g, PasteElement(g, source, i, at, id), i)
<1> DEFINE r   == g.rungs[i]
           e   == Inserted(g, i, at, id)
           new == WithElems(r, e)
           k   == g.kind[source]
           h   == SeriesGrown(g, i, id, k, e)
<1>1. e \in Seq(Ids) /\ IsInjective(e) /\ ToSet(e) = Series(r) \cup {id}
  <2> HIDE DEF e, r, h
  <2>1. e \in Seq(Ids) /\ IsInjective(e)
    BY SlotInserts DEF e
  <2>2. ToSet(e) = Series(g.rungs[i]) \cup {id}
    BY SlotInserts DEF e
  <2> QED
    BY <2>1, <2>2 DEF r
<1>2. PasteElement(g, source, i, at, id) = RewireRungSeries(h, new)
  BY Zenon DEF PasteElement, SeriesGrown, WithElems, SlotIn, Inserted
<1>3. k \in Kinds
  <2>1. g.kind \in Kindings
    BY DEF GraphOK, Diagrams
  <2>2. k \in Kinds \cup {"left", "right"}
    BY <2>1, KindingIs DEF Nodes
  <2> QED
    BY <2>2
<1> HIDE DEF e, k
<1>4. /\ GraphOK(h) /\ Listed(h, new) /\ Replaced(g, h, i, new)
      /\ new.id = g.rungs[i].id /\ Series(new) = ToSet(e)
      /\ Placed(new) = Placed(g.rungs[i]) \cup {id} /\ \A X : Spares(g, h, X)
  <2>1. GrownBy(g, h, i, id, new) /\ Series(new) = ToSet(e)
    BY <1>1, <1>3, SeriesGrows
  <2> QED
    BY <2>1 DEF GrownBy
<1> HIDE DEF h, new
<1>5. new.elems # <<>>
  <2>1. id \in Series(new)
    BY <1>1, <1>4
  <2>2. new.elems = <<>> => Series(new) = {}
    BY DEF Series, ToSet
  <2> QED
    BY <2>1, <2>2
<1> DEFINE X == Placed(g.rungs[i]) \cup {id}
<1>7. /\ Private(g, i, X) /\ Placed(new) \subseteq X /\ id \in X /\ Spares(g, h, X)
  BY <1>4, PrivateNodes
<1> HIDE DEF X
<1> DEFINE f == RewireRungSeries(h, new)
<1>6. GraphOK(f) /\ Replaced(g, f, i, new) /\ BranchesWired(f, new) /\ Spares(h, f, X)
  BY <1>4, <1>5, <1>7, SeriesOK DEF Replaced
<1> HIDE DEF f
<1> QED
  BY <1>2, <1>4, <1>6, <1>7, OneEdited, OneTouched, SparesBoth DEF f

------------------------------------------------------------------------------
(* Moves inside the series, other definitions, wires, rungs.                *)

(* Rung i is replaced, no node comes or goes.                               *)
LEMMA SameNodes ==
  ASSUME NEW g, GraphOK(g), NEW i \in DOMAIN g.rungs, NEW r \in Rungs,
         RungWellFormed(g, r), Placed(r) \subseteq Placed(g.rungs[i])
  PROVE  /\ GraphOK(SetRung(g, i, r)) /\ Listed(SetRung(g, i, r), r)
         /\ Replaced(g, SetRung(g, i, r), i, r) /\ \A X : Spares(g, SetRung(g, i, r), X)
<1> DEFINE h == SetRung(g, i, r)
<1>1. g \in Diagrams /\ Placement(g) /\ WiresJoin(g)
  BY DEF GraphOK
<1>2. /\ h \in Diagrams /\ h.kind = g.kind /\ h.wires = g.wires
      /\ h.rungs = [g.rungs EXCEPT ![i] = r]
  BY <1>1, RungSet
<1> HIDE DEF h
<1>3. Nodes(h) = Nodes(g) /\ \A X \in SUBSET Nodes(g) : Keeps(g, h, X)
  BY <1>2 DEF Nodes, Keeps
<1>4. RungWellFormed(h, r)
  BY <1>3, RungKept DEF RungWellFormed
<1>5. \A j \in DOMAIN g.rungs : Keeps(g, h, Placed(g.rungs[j]))
  BY <1>1, <1>3 DEF Placement, RungWellFormed
<1>6. Placement(h)
  BY <1>1, <1>2, <1>4, <1>5, RungReplaced
<1> QED
  BY <1>1, <1>2, <1>3, <1>4, <1>6, ListedOK DEF GraphOK, WiresJoin, Replaced, Spares, h

(* reorderElement: taken out of the series and inserted elsewhere in it.    *)
LEMMA ReorderElementOK ==
  ASSUME NEW g, GraphOK(g), NEW id, CanReorder(g, id), NEW at \in Nat
  PROVE  /\ GraphOK(ReorderElement(g, id, at)) /\ Edited(g, ReorderElement(g, id, at))
         /\ Others(g, ReorderElement(g, id, at), RungIndexOf(g, id))
<1> DEFINE i    == RungIndexOf(g, id)
           r    == g.rungs[i]
           from == IndexOf(id, r.elems) - 1
           rest == Drop(r.elems, {id})
           to   == IF from < Slot(at, rest) THEN Slot(at, rest) - 1 ELSE Slot(at, rest)
           e    == Insert(rest, to, <<id>>)
           new  == WithElems(r, e)
           h    == SetRung(g, i, new)
<1>1. ReorderElement(g, id, at) = RewireRungBranches(RewireRungSeries(h, new), new)
  BY Zenon DEF ReorderElement, WithElems
<1>2. /\ i \in DOMAIN g.rungs /\ id \in Series(r)
      /\ r \in Rungs /\ RungWellFormed(g, r)
  BY RungAt, RungIndexIs DEF CanReorder, GraphOK, Placement
<1>3. r.elems \in Seq(Ids) /\ id \in Ids /\ IsInjective(r.elems)
  BY <1>2, RungIs DEF RungWellFormed
<1>4. /\ rest \in Seq(Ids) /\ IsInjective(rest)
      /\ ToSet(rest) = Series(r) \ {id}
  BY <1>3, DropLists DEF Series
<1>5. to \in 0..Len(rest)
  <2>1. from \in Nat
    <3> DEFINE T == {j \in 1..Len(r.elems) : r.elems[j] = id}
    <3>1. IndexOf(id, r.elems) = IF T # {} THEN Min(T) ELSE 0
      BY Zenon DEF IndexOf, SelectInSeq
    <3>2. Len(r.elems) \in Nat
      BY <1>3
    <3>3. T # {}
      BY <1>2, <3>2 DEF Series, ToSet
    <3>4. Min(T) \in T
      BY <3>2, <3>3, FirstIndex
    <3> QED
      BY <3>1, <3>2, <3>3, <3>4
  <2>2. Len(rest) \in Nat
    BY <1>4
  <2> HIDE DEF rest
  <2>3. Slot(at, rest) \in 0..Len(rest)
    BY <2>2 DEF Slot
  <2> HIDE DEF from
  <2> QED
    BY <2>1, <2>2, <2>3
<1> HIDE DEF to
<1>6. e \in Seq(Ids) /\ IsInjective(e) /\ ToSet(e) = Series(r)
  <2>1. id \notin ToSet(rest)
    BY <1>4
  <2> HIDE DEF rest
  <2>2. e \in Seq(Ids) /\ ToSet(e) = ToSet(rest) \cup {id} /\ IsInjective(e)
    BY <1>3, <1>4, <1>5, <2>1, InsertLists
  <2> QED
    BY <1>2, <1>4, <2>2
<1> HIDE DEF e
<1>7. /\ new \in Rungs /\ RungWellFormed(g, new) /\ Placed(new) = Placed(r)
      /\ new.id = r.id
  <2> DEFINE X == {}
  <2>1. X \subseteq Nodes(g) \ Rails /\ X \cap Members(r) = {} /\ ToSet(e) = Series(r) \cup X
    BY <1>6
  <2> HIDE DEF X, r
  <2>2. /\ new \in Rungs /\ RungWellFormed(g, new) /\ Placed(new) = Placed(r) \cup X
        /\ new.id = r.id
    BY <1>2, <1>6, <2>1, SeriesChanged
  <2> QED
    BY <2>2 DEF X
<1> HIDE DEF new
<1> DEFINE X == Placed(r)
<1>8. /\ GraphOK(h) /\ Listed(h, new) /\ Replaced(g, h, i, new)
      /\ Spares(g, h, X) /\ Private(g, i, X) /\ Placed(new) \subseteq X
  BY <1>2, <1>7, SameNodes, PrivateNodes
<1> HIDE DEF h, X
<1> DEFINE k == RewireRungSeries(h, new)
           f == RewireRungBranches(k, new)
<1>9. GraphOK(k) /\ Listed(k, new) /\ Replaced(g, k, i, new) /\ Spares(h, k, X)
  BY <1>8, SeriesOK DEF Replaced
<1> HIDE DEF k
<1>10. GraphOK(f) /\ Replaced(g, f, i, new) /\ BranchesWired(f, new) /\ Spares(k, f, X)
  BY <1>8, <1>9, BranchesOK DEF Replaced
<1> HIDE DEF f
<1>11. Spares(g, f, X)
  BY <1>8, <1>9, <1>10, SparesBoth
<1>12. ReorderElement(g, id, at) = f /\ new.id = g.rungs[i].id
  BY <1>1, <1>7 DEF f, k
<1> HIDE DEF i, r
<1>13. Edited(g, f) /\ Others(g, f, i)
  BY <1>2, <1>8, <1>10, <1>11, <1>12, OneEdited, OneTouched
<1> QED
  BY <1>10, <1>12, <1>13 DEF i

(* replaceElement: nothing the model keeps changes.                         *)
LEMMA ReplaceElementOK ==
  ASSUME NEW g, GraphOK(g), NEW target, NEW source, CanReplace(g, target, source)
  PROVE  GraphOK(ReplaceElement(g, target, source)) /\ ReplaceElement(g, target, source) = g
<1>1. g \in Diagrams /\ g.kind[target] = g.kind[source]
  BY DEF GraphOK, CanReplace
<1>2. g.kind = [x \in DOMAIN g.kind |-> g.kind[x]]
  BY <1>1, KindingIs DEF Diagrams
<1>3. [g.kind EXCEPT ![target] = g.kind[source]] = g.kind
  BY <1>1, <1>2
<1>4. ReplaceElement(g, target, source) = [g EXCEPT !.kind = [g.kind EXCEPT ![target] = g.kind[source]]]
  BY DEF ReplaceElement, Diagrams
<1>5. [g EXCEPT !.kind = g.kind] = g
  BY <1>1 DEF Diagrams
<1> QED
  BY <1>3, <1>4, <1>5

(* disconnectWire: one wire less.                                           *)
LEMMA DisconnectWireOK ==
  ASSUME NEW g, GraphOK(g), NEW w
  PROVE  GraphOK(DisconnectWire(g, w)) /\ DisconnectWire(g, w).rungs = g.rungs
<1>1. g.wires \ {w} \subseteq Nodes(g) \X Nodes(g) /\ g \in Diagrams /\ Placement(g)
  BY DEF GraphOK, WiresJoin
<1>2. DisconnectWire(g, w) = [g EXCEPT !.wires = g.wires \ {w}]
  BY Zenon DEF DisconnectWire
<1>3. Rewired(g, DisconnectWire(g, w))
  BY <1>1, <1>2, WiresChanged
<1> QED
  BY <1>1, <1>3, RewiredOK DEF Rewired

------------------------------------------------------------------------------
(* Rungs added, moved and removed; nodes removed.                           *)

\* The diagram with other rungs.
WithRungs(g, s) == [g EXCEPT !.rungs = s]

(* Its nodes and wires are those there were.                                *)
LEMMA RungsChanged ==
  ASSUME NEW g \in Diagrams, NEW s \in Seq(Rungs)
  PROVE  /\ WithRungs(g, s) \in Diagrams /\ WithRungs(g, s).rungs = s
         /\ WithRungs(g, s).kind = g.kind /\ WithRungs(g, s).wires = g.wires
BY DEF WithRungs, Diagrams

(* Rungs of g and empty ones, whatever nodes and wires there are with them. *)
LEMMA RungsOK ==
  ASSUME NEW g, NEW d \in Diagrams, WiresJoin(d), NEW s \in Seq(Rungs),
         \A j \in DOMAIN s : RungWellFormed(g, s[j]) /\ Keeps(g, d, Placed(s[j])),
         \A j, k \in DOMAIN s : j # k => Placed(s[j]) \cap Placed(s[k]) = {}
  PROVE  GraphOK(WithRungs(d, s))
<1> DEFINE h == WithRungs(d, s)
<1>1. h \in Diagrams /\ h.rungs = s /\ h.kind = d.kind /\ h.wires = d.wires
  BY RungsChanged
<1> HIDE DEF h
<1>2. \A j \in DOMAIN s : Keeps(g, h, Placed(s[j]))
  BY <1>1 DEF Keeps, Nodes
<1>3. \A j \in DOMAIN s : RungWellFormed(h, s[j])
  BY <1>2, RungKept
<1>4. RungsApart(h)
  BY <1>1 DEF RungsApart
<1>5. WiresJoin(h)
  BY <1>1 DEF WiresJoin, Nodes
<1> QED
  BY <1>1, <1>3, <1>4, <1>5 DEF GraphOK, Placement, h

(* Each rung that remains comes from one of the rungs there were, to which  *)
(* it adds nothing, and lists only nodes that remain.                       *)
LEMMA RungsRemain ==
  ASSUME NEW g, GraphOK(g), NEW d \in Diagrams, WiresJoin(d),
         NEW s \in Seq(Rungs), NEW p,
         \A j \in DOMAIN s : p[j] \in DOMAIN g.rungs,
         \A j, k \in DOMAIN s : p[j] = p[k] => j = k,
         \A j \in DOMAIN s : /\ RungWellFormed(g, s[j])
                             /\ Placed(s[j]) \subseteq Placed(g.rungs[p[j]])
                             /\ Keeps(g, d, Placed(s[j]))
  PROVE  GraphOK(WithRungs(d, s))
<1>1. ASSUME NEW j \in DOMAIN s, NEW k \in DOMAIN s, j # k
      PROVE  Placed(s[j]) \cap Placed(s[k]) = {}
  <2>1. Placed(g.rungs[p[j]]) \cap Placed(g.rungs[p[k]]) = {}
    BY <1>1 DEF GraphOK, Placement, RungsApart
  <2> QED
    BY <2>1
<1> QED
  BY <1>1, RungsOK

\* The nodes with the two rails among them.
Railed(g) == With(With(g.kind, LeftRail, "left"), RightRail, "right")

(* addRung: an empty rung behind the others, with the first one the rails.  *)
LEMMA AddRungOK ==
  ASSUME NEW g, GraphOK(g), NEW r \in RungIds, \A i \in DOMAIN g.rungs : g.rungs[i].id # r
  PROVE  /\ GraphOK(AddRung(g, r)) /\ Edited(g, AddRung(g, r))
         /\ AddRung(g, r).wires = g.wires
<1> DEFINE f == IF g.rungs = <<>> THEN Railed(g) ELSE g.kind
           d == [g EXCEPT !.kind = f]
           n == NewRung(r)
           s == Append(g.rungs, n)
<1>1. g \in Diagrams /\ g.rungs \in Seq(Rungs) /\ Placement(g) /\ WiresJoin(g)
  BY RungAt DEF GraphOK
<1>2. AddRung(g, r) = WithRungs(d, s)
  <2>1. AddRung(g, r) = [g EXCEPT !.rungs = s, !.kind = f]
    BY <1>1 DEF AddRung, Diagrams, Railed
  <2> HIDE DEF f, s
  <2> QED
    BY <1>1, <2>1 DEF WithRungs, Diagrams
<1>3. f \in Kindings /\ DOMAIN g.kind \subseteq DOMAIN f
  <2>1. g.kind \in Kindings
    BY <1>1 DEF Diagrams
  <2> DEFINE L == Kinds \cup {"left", "right"}
             e == Railed(g)
  <2> HIDE DEF L
  <2>2. DOMAIN g.kind \subseteq AllIds /\ \A x \in DOMAIN g.kind : g.kind[x] \in L
    BY <2>1, KindingIs DEF L
  <2>3. /\ DOMAIN e = DOMAIN g.kind \cup {LeftRail, RightRail}
        /\ e = [x \in DOMAIN e |-> e[x]]
        /\ \A x \in DOMAIN e : e[x] \in {g.kind[x], "left", "right"}
        /\ \A x \in DOMAIN e : x \notin {LeftRail, RightRail} => e[x] = g.kind[x]
        /\ \A x \in {LeftRail, RightRail} : e[x] \in {"left", "right"}
    BY DEF With, Railed
  <2>4. "left" \in L /\ "right" \in L
    BY DEF L
  <2> HIDE DEF e
  <2>5. DOMAIN e \subseteq AllIds /\ \A x \in DOMAIN e : e[x] \in L
    BY <2>2, <2>3, <2>4 DEF AllIds, Rails
  <2>6. e \in Kindings
    BY <2>3, <2>5, KindingIs DEF L
  <2> QED
    BY <2>1, <2>3, <2>6 DEF e
<1> HIDE DEF f
<1>4. /\ d \in Diagrams /\ d.kind = f /\ d.wires = g.wires
      /\ g.rungs # <<>> => f = g.kind
  BY <1>1, <1>3 DEF Diagrams, f
<1>5. WiresJoin(d)
  BY <1>1, <1>3, <1>4 DEF WiresJoin, Nodes
<1>6. n \in Rungs /\ Placed(n) = {} /\ DOMAIN n.branches = {} /\ IsInjective(n.elems)
  <2>1. EmptyFn \in Branchings
    BY BranchingIs DEF EmptyFn
  <2>2. n.id = r /\ n.elems = <<>> /\ n.branches = EmptyFn /\ n \in Rungs
    BY <2>1 DEF NewRung, Rungs
  <2>3. DOMAIN EmptyFn = {}
    BY DEF EmptyFn
  <2> QED
    BY <2>2, <2>3 DEF Placed, Series, Members, ToSet, IsInjective
<1> HIDE DEF d, n
<1>7. RungWellFormed(g, n)
  BY <1>6 DEF RungWellFormed
<1>8. /\ s \in Seq(Rungs) /\ DOMAIN s = 1..(Len(g.rungs) + 1)
      /\ Len(g.rungs) \in Nat /\ DOMAIN g.rungs = 1..Len(g.rungs)
      /\ \A j \in DOMAIN g.rungs : s[j] = g.rungs[j]
      /\ s[Len(g.rungs) + 1] = n
  BY <1>1, <1>6
<1> HIDE DEF s
<1>9. \A j \in DOMAIN g.rungs : RungWellFormed(g, g.rungs[j])
  BY <1>1 DEF Placement
<1>10. \A j \in DOMAIN s : j \in DOMAIN g.rungs \/ s[j] = n
  BY <1>8
<1>11. \A j \in DOMAIN g.rungs : f = g.kind
  BY <1>1, <1>4, <1>8
<1>12. \A j \in DOMAIN s : RungWellFormed(g, s[j]) /\ Keeps(g, d, Placed(s[j]))
  BY <1>4, <1>6, <1>7, <1>8, <1>9, <1>10, <1>11 DEF Keeps, Nodes, RungWellFormed
<1>13. ASSUME NEW j \in DOMAIN s, NEW k \in DOMAIN s, j # k
       PROVE  Placed(s[j]) \cap Placed(s[k]) = {}
  BY <1>1, <1>6, <1>8, <1>10, <1>13 DEF Placement, RungsApart
<1>14. /\ GraphOK(WithRungs(d, s)) /\ WithRungs(d, s).rungs = s
       /\ WithRungs(d, s).wires = g.wires
  BY <1>4, <1>5, <1>8, <1>12, <1>13, RungsOK, RungsChanged
<1> DEFINE h == WithRungs(d, s)
<1> HIDE DEF h
<1>15. Edited(g, h)
  <2> SUFFICES ASSUME IdsApart(g) PROVE IdsApart(h) /\ Rewires(g, h)
    BY DEF Edited
  <2>1. h.rungs = s
    BY <1>14 DEF h
  <2>2. \A j \in DOMAIN s : j \in DOMAIN g.rungs \/ j = Len(g.rungs) + 1
    BY <1>8
  <2>3. n.id = r
    BY DEF n, NewRung
  <2>4. IdsApart(h)
    BY <1>8, <2>1, <2>2, <2>3 DEF IdsApart
  <2>5. \A i \in DOMAIN g.rungs, j \in DOMAIN s :
          g.rungs[i].id = s[j].id => g.rungs[i] = s[j]
    BY <1>8, <2>2, <2>3 DEF IdsApart
  <2> QED
    BY <2>1, <2>4, <2>5 DEF Rewires
<1> QED
  BY <1>2, <1>14, <1>15 DEF h

(* Nodes go with the wires that touch them.                                 *)
LEMMA NodesDropped ==
  ASSUME NEW g \in Diagrams, WiresJoin(g), NEW ids
  PROVE  /\ DropNodes(g, ids) \in Diagrams
         /\ WiresJoin(DropNodes(g, ids))
         /\ Nodes(DropNodes(g, ids)) = Nodes(g) \ ids
         /\ DropNodes(g, ids).rungs = g.rungs
         /\ DropNodes(g, ids).wires = g.wires \ Touching(g.wires, ids)
         /\ \A X \in SUBSET Nodes(g) : X \cap ids = {} => Keeps(g, DropNodes(g, ids), X)
<1> DEFINE f == Restrict(g.kind, DOMAIN g.kind \ ids)
           W == g.wires \ Touching(g.wires, ids)
           d == [g EXCEPT !.kind = f, !.wires = W]
<1>1. DropNodes(g, ids) = d
  BY DEF DropNodes, Diagrams
<1>2. f \in Kindings /\ DOMAIN f = Nodes(g) \ ids /\ \A x \in DOMAIN f : f[x] = g.kind[x]
  <2>1. g.kind \in Kindings
    BY DEF Diagrams
  <2> DEFINE L == Kinds \cup {"left", "right"}
  <2> HIDE DEF L
  <2>2. DOMAIN g.kind \subseteq AllIds /\ \A x \in DOMAIN g.kind : g.kind[x] \in L
    BY <2>1, KindingIs DEF L
  <2>3. /\ DOMAIN f = Nodes(g) \ ids /\ f = [x \in DOMAIN f |-> f[x]]
        /\ \A x \in DOMAIN f : f[x] = g.kind[x]
    BY DEF Restrict, Nodes
  <2> HIDE DEF f
  <2>4. DOMAIN f \subseteq AllIds /\ \A x \in DOMAIN f : f[x] \in L
    BY <2>2, <2>3 DEF Nodes
  <2> QED
    BY <2>3, <2>4, KindingIs DEF L
<1>3. W \subseteq (Nodes(g) \ ids) \X (Nodes(g) \ ids)
  BY DEF Touching, WiresJoin
<1>4. W \subseteq AllIds \X AllIds
  BY DEF Diagrams
<1> HIDE DEF f, W
<1>5. d \in Diagrams /\ d.kind = f /\ d.wires = W /\ d.rungs = g.rungs
  BY <1>2, <1>4 DEF Diagrams
<1> QED
  BY <1>1, <1>2, <1>3, <1>5 DEF Nodes, WiresJoin, Keeps, W

(* deleteRung: the rung goes with its series elements.                      *)
LEMMA DeleteRungOK ==
  ASSUME NEW g, GraphOK(g), NEW i \in DOMAIN g.rungs
  PROVE  /\ GraphOK(DeleteRung(g, i)) /\ Edited(g, DeleteRung(g, i))
         /\ Others(g, DeleteRung(g, i), i)
<1> DEFINE gone == Series(g.rungs[i])
           d    == DropNodes(g, gone)
           s    == RemoveAt(g.rungs, i)
           p    == [j \in DOMAIN s |-> IF j < i THEN j ELSE j + 1]
<1>1. g \in Diagrams /\ WiresJoin(g) /\ Placement(g)
  BY DEF GraphOK
<1>2. /\ d \in Diagrams /\ WiresJoin(d) /\ d.rungs = g.rungs
      /\ \A X \in SUBSET Nodes(g) : X \cap gone = {} => Keeps(g, d, X)
      /\ d.wires = g.wires \ Touching(g.wires, gone)
  BY <1>1, NodesDropped
<1> HIDE DEF d
<1>3. DeleteRung(g, i) = WithRungs(d, s)
  BY <1>2 DEF DeleteRung, WithRungs, d, Diagrams
<1>4. /\ g.rungs \in Seq(Rungs) /\ Len(g.rungs) \in Nat /\ DOMAIN g.rungs = 1..Len(g.rungs)
      /\ i \in 1..Len(g.rungs)
  BY <1>1, RungAt
<1>5. /\ s \in Seq(Rungs) /\ Len(s) = Len(g.rungs) - 1
      /\ \A j \in 1..(i - 1) : s[j] = g.rungs[j]
      /\ \A j \in i..(Len(g.rungs) - 1) : s[j] = g.rungs[j + 1]
  BY <1>4, Removed
<1> HIDE DEF s
<1>6. DOMAIN s = 1..(Len(g.rungs) - 1)
  BY <1>5
<1>7. \A j \in DOMAIN s : p[j] \in DOMAIN g.rungs /\ p[j] # i /\ s[j] = g.rungs[p[j]]
  <2> TAKE j \in DOMAIN s
  <2>1. j \in Int /\ 1 <= j /\ j <= Len(g.rungs) - 1
    BY <1>4, <1>6
  <2>2. CASE j < i
    <3>1. j \in 1..(i - 1) /\ p[j] = j
      BY <1>4, <2>1, <2>2
    <3> HIDE DEF p
    <3> QED
      BY <1>4, <1>5, <2>1, <3>1
  <2>3. CASE ~(j < i)
    <3>1. j \in i..(Len(g.rungs) - 1) /\ p[j] = j + 1
      BY <1>4, <2>1, <2>3
    <3> HIDE DEF p
    <3> QED
      BY <1>4, <1>5, <2>1, <3>1
  <2> QED
    BY <2>2, <2>3
<1>8. \A j, k \in DOMAIN s : p[j] = p[k] => j = k
  BY <1>4, <1>6
<1> HIDE DEF p
<1>9. ASSUME NEW j \in DOMAIN s
      PROVE  RungWellFormed(g, s[j]) /\ Keeps(g, d, Placed(s[j]))
  <2>1. RungWellFormed(g, s[j]) /\ Placed(s[j]) \cap Placed(g.rungs[i]) = {}
    BY <1>1, <1>7 DEF Placement, RungsApart
  <2>2. Placed(s[j]) \subseteq Nodes(g) /\ Placed(s[j]) \cap gone = {}
    BY <2>1 DEF RungWellFormed, Placed
  <2> HIDE DEF gone
  <2> QED
    BY <1>2, <2>1, <2>2
<1>10. \A j \in DOMAIN s : Placed(s[j]) \subseteq Placed(g.rungs[p[j]])
  BY <1>7
<1> HIDE DEF gone
<1> DEFINE h == WithRungs(d, s)
<1>11. GraphOK(h)
  BY <1>2, <1>5, <1>7, <1>8, <1>9, <1>10, RungsRemain
<1>12. h.rungs = s /\ h.wires = g.wires \ Touching(g.wires, gone)
  BY <1>2, <1>5, RungsChanged
<1> HIDE DEF h
<1>13. Edited(g, h)
  BY <1>7, <1>8, <1>12, RungsEdited
<1>14. ASSUME NEW j \in DOMAIN g.rungs, j # i
       PROVE  g.rungs[j] \in RungsOf(h)
  <2>1. j \in Int /\ 1 <= j /\ j <= Len(g.rungs) /\ i \in Int /\ 1 <= i /\ i <= Len(g.rungs)
    BY <1>4
  <2>2. CASE j < i
    <3>1. j \in 1..(i - 1) /\ j \in DOMAIN s
      BY <1>4, <1>6, <2>1, <2>2
    <3> QED
      BY <1>5, <1>12, <3>1 DEF RungsOf, ToSet
  <2>3. CASE j > i
    <3> DEFINE l == j - 1
    <3>1. l \in i..(Len(g.rungs) - 1) /\ l \in DOMAIN s /\ l + 1 = j
      BY <1>4, <1>6, <2>1, <2>3
    <3> HIDE DEF l
    <3>2. s[l] = g.rungs[j]
      BY <1>5, <3>1
    <3> QED
      BY <1>12, <3>1, <3>2 DEF RungsOf, ToSet
  <2> QED
    BY <1>14, <2>1, <2>2, <2>3
<1>15. ASSUME NEW j \in DOMAIN g.rungs, j # i
       PROVE  OwnWires(h, g.rungs[j]) = OwnWires(g, g.rungs[j])
  <2> DEFINE Y == Placed(g.rungs[i])
  <2>1. Y \cap (Placed(g.rungs[j]) \cup Rails) = {}
    BY <1>15, PrivateNodes DEF Private
  <2>2. Spares(g, h, Y)
    BY <1>12 DEF Spares, Touching, Placed, gone
  <2> HIDE DEF Y
  <2> QED
    BY <2>1, <2>2, OwnSpared
<1> QED
  BY <1>3, <1>11, <1>13, <1>14, <1>15 DEF h, Others

(* moveRung: the rungs in another order.                                    *)
LEMMA MoveRungOK ==
  ASSUME NEW g, GraphOK(g), NEW i \in DOMAIN g.rungs, NEW to \in DOMAIN g.rungs
  PROVE  /\ GraphOK(MoveRung(g, i, to)) /\ Edited(g, MoveRung(g, i, to))
         /\ MoveRung(g, i, to).wires = g.wires
<1> DEFINE x == g.rungs[i]
           t == RemoveAt(g.rungs, i)
           s == InsertAt(t, to, x)
           q == [j \in DOMAIN s |-> IF j < to THEN j ELSE j - 1]
           p == [j \in DOMAIN s |-> IF j = to THEN i
                                    ELSE IF q[j] < i THEN q[j] ELSE q[j] + 1]
           n == Len(g.rungs)
<1>1. g \in Diagrams /\ WiresJoin(g) /\ Placement(g)
  BY DEF GraphOK
<1>2. /\ g.rungs \in Seq(Rungs) /\ n \in Nat /\ DOMAIN g.rungs = 1..n
      /\ i \in 1..n /\ to \in 1..n /\ x \in Rungs
  BY <1>1, RungAt
<1>3. /\ t \in Seq(Rungs) /\ Len(t) = n - 1
      /\ \A j \in 1..(i - 1) : t[j] = g.rungs[j]
      /\ \A j \in i..(n - 1) : t[j] = g.rungs[j + 1]
  BY <1>2, Removed
<1>4. MoveRung(g, i, to) = WithRungs(g, s)
  BY <1>1 DEF MoveRung, WithRungs, Diagrams
<1> HIDE DEF t, x
<1>5. to \in 1..(Len(t) + 1)
  BY <1>2, <1>3
<1>6. s \in Seq(Rungs) /\ HasInserted(s, t, to, x)
  BY <1>2, <1>3, <1>5, InsertedAt
<1> HIDE DEF s
<1>7. /\ Len(s) = Len(t) + 1
      /\ \A j \in 1..(to - 1) : s[j] = t[j]
      /\ s[to] = x
      /\ \A j \in (to + 1)..(Len(t) + 1) : s[j] = t[j - 1]
  BY <1>6 DEF HasInserted
<1> HIDE DEF n
<1>8. DOMAIN s = 1..n
  BY <1>2, <1>3, <1>6, <1>7
<1>9. \A j \in DOMAIN s : j # to => q[j] \in 1..(n - 1) /\ s[j] = t[q[j]]
  <2> TAKE j \in DOMAIN s
  <2> HAVE j # to
  <2>1. j \in Int /\ 1 <= j /\ j <= n
    BY <1>2, <1>8
  <2>2. CASE j < to
    <3>1. j \in 1..(to - 1) /\ q[j] = j
      BY <1>2, <2>1, <2>2
    <3> HIDE DEF q
    <3> QED
      BY <1>2, <1>7, <2>1, <3>1
  <2>3. CASE ~(j < to)
    <3>1. j \in (to + 1)..(Len(t) + 1) /\ q[j] = j - 1
      BY <1>2, <1>3, <2>1, <2>3
    <3> HIDE DEF q
    <3> QED
      BY <1>2, <1>3, <1>7, <2>1, <3>1
  <2> QED
    BY <2>2, <2>3
<1>10. \A j, k \in DOMAIN s : j # to /\ k # to /\ q[j] = q[k] => j = k
  BY <1>2, <1>8
<1> HIDE DEF q
<1>11. \A j \in DOMAIN s : j # to =>
         /\ p[j] \in DOMAIN g.rungs /\ s[j] = g.rungs[p[j]] /\ p[j] # i
         /\ p[j] = IF q[j] < i THEN q[j] ELSE q[j] + 1
  <2> TAKE j \in DOMAIN s
  <2> HAVE j # to
  <2>1. q[j] \in Int /\ 1 <= q[j] /\ q[j] <= n - 1 /\ s[j] = t[q[j]]
    BY <1>2, <1>9
  <2>2. p[j] = IF q[j] < i THEN q[j] ELSE q[j] + 1
    OBVIOUS
  <2> HIDE DEF p
  <2>3. CASE q[j] < i
    BY <1>2, <1>3, <2>1, <2>2, <2>3, q[j] \in 1..(i - 1)
  <2>4. CASE ~(q[j] < i)
    BY <1>2, <1>3, <2>1, <2>2, <2>4, q[j] \in i..(n - 1)
  <2> QED
    BY <2>3, <2>4
<1>12. to \in DOMAIN s /\ p[to] = i /\ s[to] = g.rungs[i]
  BY <1>2, <1>7, <1>8 DEF x
<1> HIDE DEF p
<1>13. \A j \in DOMAIN s : p[j] \in DOMAIN g.rungs /\ s[j] = g.rungs[p[j]]
  BY <1>11, <1>12
<1>14. \A j, k \in DOMAIN s : p[j] = p[k] => j = k
  <2>1. \A j, k \in DOMAIN s : j # to /\ k # to /\ p[j] = p[k] => q[j] = q[k]
    BY <1>2, <1>9, <1>11
  <2> QED
    BY <1>10, <1>11, <1>12, <2>1
<1>15. \A j \in DOMAIN s : /\ RungWellFormed(g, s[j])
                           /\ Placed(s[j]) \subseteq Placed(g.rungs[p[j]])
                           /\ Keeps(g, g, Placed(s[j]))
  <2> TAKE j \in DOMAIN s
  <2>1. RungWellFormed(g, s[j]) /\ s[j] = g.rungs[p[j]]
    BY <1>1, <1>13 DEF Placement
  <2>2. Keeps(g, g, Placed(s[j]))
    BY <2>1 DEF Keeps, RungWellFormed
  <2> QED
    BY <2>1, <2>2
<1> DEFINE h == WithRungs(g, s)
<1>16. GraphOK(h)
  BY <1>1, <1>6, <1>13, <1>14, <1>15, RungsRemain
<1>17. h.rungs = s /\ h.wires = g.wires
  BY <1>1, <1>6, RungsChanged
<1> HIDE DEF h
<1>18. Edited(g, h)
  BY <1>13, <1>14, <1>17, RungsEdited
<1> QED
  BY <1>4, <1>16, <1>17, <1>18 DEF h

------------------------------------------------------------------------------
(* Branches.                                                                *)

\* The rung with other branches.
WithBranches(r, b) == [r EXCEPT !.branches = b]

(* Its series is what it was.                                               *)
LEMMA BranchesChanged ==
  ASSUME NEW r \in Rungs, NEW b \in Branchings
  PROVE  /\ WithBranches(r, b) \in Rungs
         /\ WithBranches(r, b).elems = r.elems /\ WithBranches(r, b).branches = b
         /\ Series(WithBranches(r, b)) = Series(r) /\ WithBranches(r, b).id = r.id
BY DEF WithBranches, Rungs, Series

(* The branch at a contact of the series lists what it did, if it was       *)
(* there, and the nodes X, which the rung did not list.                     *)
LEMMA BranchGrows ==
  ASSUME NEW h, NEW r \in Rungs, RungWellFormed(h, r),
         NEW a \in Series(r), IsKind(h, a, "contact"),
         NEW ms \in Seq(Ids), IsInjective(ms),
         NEW X, X \subseteq Nodes(h) \ Rails, X \cap Placed(r) = {},
         \A x \in X : IsKind(h, x, "contact"),
         a \in DOMAIN r.branches => ToSet(ms) = ToSet(r.branches[a]) \cup X,
         a \notin DOMAIN r.branches => ToSet(ms) = X
  PROVE  LET new == WithBranches(r, With(r.branches, a, ms))
         IN  /\ new \in Rungs /\ RungWellFormed(h, new)
             /\ Placed(new) = Placed(r) \cup X
             /\ new.branches = With(r.branches, a, ms)
             /\ new.id = r.id /\ new.elems = r.elems
<1> DEFINE b   == With(r.branches, a, ms)
           new == WithBranches(r, b)
<1>1. /\ DOMAIN r.branches \subseteq Ids /\ Series(r) \subseteq Ids
      /\ \A x \in DOMAIN r.branches : r.branches[x] \in Seq(Ids)
  BY RungIs
<1>2. /\ DOMAIN b = DOMAIN r.branches \cup {a} /\ b = [x \in DOMAIN b |-> b[x]]
      /\ b[a] = ms /\ \A x \in DOMAIN r.branches : x # a => b[x] = r.branches[x]
  BY DEF With
<1> HIDE DEF b
<1>3. b \in Branchings
  <2>1. DOMAIN b \subseteq Ids
    BY <1>1, <1>2
  <2>2. \A x \in DOMAIN b : b[x] \in Seq(Ids)
    BY <1>1, <1>2
  <2> QED
    BY <1>2, <2>1, <2>2, BranchingIs
<1>4. /\ new \in Rungs /\ new.elems = r.elems /\ new.branches = b
      /\ Series(new) = Series(r) /\ new.id = r.id
  BY <1>3, BranchesChanged
<1> HIDE DEF new
<1>5. Members(new) = Members(r) \cup X
  <2>1. \A x \in DOMAIN b : x # a => x \in DOMAIN r.branches /\ ToSet(b[x]) = ToSet(r.branches[x])
    BY <1>2
  <2>2. ToSet(b[a]) \subseteq Members(r) \cup X /\ X \subseteq ToSet(b[a])
    BY <1>2 DEF Members
  <2>3. ASSUME NEW y \in Members(new) PROVE y \in Members(r) \cup X
    <3>1. PICK x \in DOMAIN b : y \in ToSet(b[x])
      BY <1>4, <2>3 DEF Members
    <3> QED
      BY <2>1, <2>2, <3>1 DEF Members
  <2>4. ASSUME NEW y \in Members(r) PROVE y \in Members(new)
    <3>1. PICK x \in DOMAIN r.branches : y \in ToSet(r.branches[x])
      BY <2>4 DEF Members
    <3>2. x \in DOMAIN b /\ y \in ToSet(b[x])
      BY <1>2, <3>1
    <3> QED
      BY <1>4, <3>2 DEF Members
  <2>5. X \subseteq Members(new)
    BY <1>2, <1>4, <2>2 DEF Members
  <2> QED
    BY <2>3, <2>4, <2>5
<1>6. Placed(new) = Placed(r) \cup X
  BY <1>4, <1>5 DEF Placed
<1>7. Placed(r) \subseteq Nodes(h) \ Rails
  BY DEF RungWellFormed
<1>8. \A x \in DOMAIN r.branches :
        /\ x \in Series(r) /\ IsKind(h, x, "contact")
        /\ IsInjective(r.branches[x])
        /\ ToSet(r.branches[x]) \cap Series(r) = {}
        /\ ToSet(r.branches[x]) \cap X = {}
        /\ \A m \in ToSet(r.branches[x]) : IsKind(h, m, "contact")
  BY DEF RungWellFormed, Placed, Members
<1>9. \A x, y \in DOMAIN r.branches :
        x # y => ToSet(r.branches[x]) \cap ToSet(r.branches[y]) = {}
  BY DEF RungWellFormed
<1>10. ToSet(ms) \cap Series(r) = {} /\ \A m \in ToSet(ms) : IsKind(h, m, "contact")
  BY <1>8 DEF Placed
<1>11. \A x \in DOMAIN b : /\ x \in Series(r) /\ IsKind(h, x, "contact")
                           /\ IsInjective(b[x])
                           /\ ToSet(b[x]) \cap Series(r) = {}
                           /\ \A m \in ToSet(b[x]) : IsKind(h, m, "contact")
  BY <1>2, <1>8, <1>10
<1>12. \A x \in DOMAIN b : x # a => ToSet(b[x]) \cap ToSet(b[a]) = {}
  BY <1>2, <1>8, <1>9
<1>13. ASSUME NEW x \in DOMAIN b, NEW y \in DOMAIN b, x # y
       PROVE  ToSet(b[x]) \cap ToSet(b[y]) = {}
  BY <1>2, <1>9, <1>12, <1>13
<1>14. RungWellFormed(h, new)
  BY <1>4, <1>6, <1>7, <1>11, <1>13 DEF RungWellFormed
<1> QED
  BY <1>4, <1>6, <1>14 DEF new, b

(* A rung that lost elements, and branches with their anchors or otherwise. *)
Less(r, e, b) == [r EXCEPT !.elems = e, !.branches = b]

(* Such a rung is well formed when each branch left has its anchor left.    *)
LEMMA RungShrinks ==
  ASSUME NEW h, NEW r \in Rungs, RungWellFormed(h, r),
         NEW e \in Seq(Ids), IsInjective(e), ToSet(e) \subseteq Series(r),
         NEW b \in Branchings, DOMAIN b \subseteq DOMAIN r.branches,
         DOMAIN b \subseteq ToSet(e),
         \A a \in DOMAIN b : IsInjective(b[a]) /\ ToSet(b[a]) \subseteq ToSet(r.branches[a])
  PROVE  /\ Less(r, e, b) \in Rungs /\ RungWellFormed(h, Less(r, e, b))
         /\ Placed(Less(r, e, b)) \subseteq Placed(r)
         /\ Series(Less(r, e, b)) = ToSet(e) /\ Less(r, e, b).branches = b
         /\ Less(r, e, b).id = r.id
<1> DEFINE new == Less(r, e, b)
<1>1. new \in Rungs /\ new.elems = e /\ new.branches = b /\ new.id = r.id
  BY DEF Less, Rungs
<1> HIDE DEF new
<1>2. Series(new) = ToSet(e) /\ Members(new) \subseteq Members(r)
  BY <1>1 DEF Series, Members
<1>3. Placed(new) \subseteq Placed(r)
  BY <1>2 DEF Placed
<1>4. Placed(new) \subseteq Nodes(h) \ Rails
  BY <1>3 DEF RungWellFormed
<1>5. \A a \in DOMAIN b :
        /\ a \in Series(new) /\ IsKind(h, a, "contact")
        /\ IsInjective(b[a])
        /\ ToSet(b[a]) \cap Series(new) = {}
  BY <1>2 DEF RungWellFormed
<1>6. \A x, y \in DOMAIN b : x # y => ToSet(b[x]) \cap ToSet(b[y]) = {}
  <2> TAKE x, y \in DOMAIN b
  <2> HAVE x # y
  <2>1. ToSet(r.branches[x]) \cap ToSet(r.branches[y]) = {}
    BY DEF RungWellFormed
  <2> QED
    BY <2>1
<1>7. RungWellFormed(h, new)
  BY <1>1, <1>4, <1>5, <1>6 DEF RungWellFormed
<1> QED
  BY <1>1, <1>2, <1>3, <1>7 DEF new

(* openBranch: a branch without members at a contact of the series.         *)
LEMMA OpenBranchOK ==
  ASSUME NEW g, GraphOK(g), NEW i \in DOMAIN g.rungs, NEW a, CanOpenBranch(g, i, a)
  PROVE  /\ GraphOK(OpenBranch(g, i, a)) /\ Nodes(OpenBranch(g, i, a)) = Nodes(g)
         /\ HasBranch(OpenBranch(g, i, a), a)
         /\ Edited(g, OpenBranch(g, i, a)) /\ SameContents(g, OpenBranch(g, i, a))
         /\ OpenBranch(g, i, a).wires = g.wires
         /\ \A j \in DOMAIN g.rungs : j # i => OpenBranch(g, i, a).rungs[j] = g.rungs[j]
         /\ BranchRungIndex(OpenBranch(g, i, a), a) = i
<1> DEFINE r   == g.rungs[i]
           new == WithBranches(r, With(r.branches, a, <<>>))
           h   == SetRung(g, i, new)
<1>1. g \in Diagrams /\ r \in Rungs /\ RungWellFormed(g, r)
  BY RungAt DEF GraphOK, Placement
<1>2. a \in Series(r) /\ IsKind(g, a, "contact") /\ a \notin DOMAIN r.branches
  BY DEF CanOpenBranch
<1>3. OpenBranch(g, i, a) = h
  <2>1. OpenBranch(g, i, a) = [g EXCEPT !.rungs = [g.rungs EXCEPT ![i] = new]]
    BY <1>1 DEF OpenBranch, WithBranches, Diagrams
  <2> HIDE DEF new
  <2>2. h = [g EXCEPT !.rungs = [g.rungs EXCEPT ![i] = new]]
    BY <1>1 DEF SetRung, Diagrams
  <2> QED
    BY <2>1, <2>2
<1>4. /\ new \in Rungs /\ RungWellFormed(g, new) /\ Placed(new) = Placed(r)
      /\ a \in DOMAIN new.branches /\ new.id = r.id /\ new.elems = r.elems
  <2> DEFINE ms == <<>>
             X  == {}
  <2>1. ms \in Seq(Ids) /\ ToSet(ms) = X /\ IsInjective(ms)
    BY DEF ToSet, IsInjective
  <2>2. /\ X \subseteq Nodes(g) \ Rails /\ X \cap Placed(r) = {}
        /\ \A x \in X : IsKind(g, x, "contact")
    OBVIOUS
  <2> HIDE DEF ms, X, r
  <2> DEFINE w == WithBranches(r, With(r.branches, a, ms))
  <2>3. /\ w \in Rungs /\ RungWellFormed(g, w) /\ Placed(w) = Placed(r) \cup X
        /\ w.branches = With(r.branches, a, ms) /\ w.id = r.id /\ w.elems = r.elems
    BY <1>1, <1>2, <2>1, <2>2, BranchGrows
  <2>4. a \in DOMAIN With(r.branches, a, ms)
    BY DEF With
  <2> QED
    BY <2>3, <2>4 DEF X, ms
<1> HIDE DEF new
<1>5. GraphOK(h) /\ Replaced(g, h, i, new)
  BY <1>4, SameNodes
<1>6. /\ h.kind = g.kind /\ h.rungs = [g.rungs EXCEPT ![i] = new] /\ h \in Diagrams
      /\ h.wires = g.wires
  BY <1>1, <1>4, RungSet
<1> HIDE DEF h
<1>7. HasBranch(h, a)
  <2> DEFINE T == {j \in 1..Len(h.rungs) : a \in DOMAIN h.rungs[j].branches}
  <2>1. Len(h.rungs) \in Nat /\ DOMAIN h.rungs = 1..Len(h.rungs)
    BY <1>6, RungAt
  <2>2. BranchRungIndex(h, a) = IF T # {} THEN Min(T) ELSE 0
    BY Zenon DEF BranchRungIndex, SelectInSeq
  <2>3. i \in T
    BY <1>4, <1>6, <2>1
  <2>4. Min(T) \in T
    BY <2>1, <2>3, FirstIndex
  <2> QED
    BY <2>1, <2>2, <2>3, <2>4 DEF HasBranch
<1>8. Edited(g, h)
  <2>1. Contents(new) = Contents(g.rungs[i])
    BY <1>4 DEF Contents
  <2> QED
    BY <1>4, <1>5, <2>1, OneEdited
<1>10. BranchRungIndex(h, a) = i
  <2> DEFINE l == BranchRungIndex(h, a)
  <2>1. l \in DOMAIN h.rungs /\ a \in DOMAIN h.rungs[l].branches
    BY <1>6, <1>7, BranchIndexIs
  <2>2. DOMAIN h.rungs = DOMAIN g.rungs /\ a \in DOMAIN h.rungs[i].branches
    BY <1>1, <1>4, <1>6, RungAt
  <2> HIDE DEF l
  <2>3. \A j \in DOMAIN h.rungs : a \in DOMAIN h.rungs[j].branches => a \in Placed(h.rungs[j])
    BY <1>5 DEF GraphOK, Placement, RungWellFormed, Placed
  <2> QED
    BY <1>5, <2>1, <2>2, <2>3 DEF GraphOK, Placement, RungsApart, l
<1>9. SameContents(g, h) /\ \A j \in DOMAIN g.rungs : j # i => h.rungs[j] = g.rungs[j]
  <2>1. g.rungs \in Seq(Rungs)
    BY <1>1, RungAt
  <2>2. /\ DOMAIN h.rungs = DOMAIN g.rungs /\ h.rungs[i] = new
        /\ \A j \in DOMAIN g.rungs : j # i => h.rungs[j] = g.rungs[j]
    BY <1>6, <2>1
  <2> QED
    BY <1>4, <2>2 DEF SameContents, Contents
<1> QED
  BY <1>3, <1>5, <1>6, <1>7, <1>8, <1>9, <1>10 DEF Nodes

(* addBranchContact: one more member, and the branch rewired.               *)
LEMMA AddBranchContactOK ==
  ASSUME NEW g, GraphOK(g), NEW a, HasBranch(g, a), NEW id \in Ids \ Nodes(g)
  PROVE  /\ GraphOK(AddBranchContact(g, a, id)) /\ Edited(g, AddBranchContact(g, a, id))
         /\ Others(g, AddBranchContact(g, a, id), BranchRungIndex(g, a))
<1> DEFINE i   == BranchRungIndex(g, a)
           r   == g.rungs[i]
           n   == AddNode(g, id, "contact")
           ms  == Append(r.branches[a], id)
           new == WithBranches(r, With(r.branches, a, ms))
           h   == SetRung(n, i, new)
           X   == {id}
<1>1. i \in DOMAIN g.rungs /\ a \in DOMAIN r.branches
  BY BranchIndexIs DEF GraphOK
<1>2. r \in Rungs
  BY <1>1, RungKeptByNew DEF Kinds
<1>3. /\ RungWellFormed(n, r) /\ id \in Nodes(n) \ Rails /\ id \notin Placed(r)
      /\ IsKind(n, id, "contact")
  BY <1>1, RungKeptByNew DEF Kinds
<1>4. AddBranchContact(g, a, id) = RewireRungBranches(h, new)
  <2>1. [r.branches EXCEPT ![a] = ms] = With(r.branches, a, ms)
    <3>1. r.branches = [x \in DOMAIN r.branches |-> r.branches[x]]
      BY <1>2, BranchingIs, RungIs
    <3> HIDE DEF ms
    <3> QED
      BY <1>1, <3>1 DEF With
  <2>2. [r EXCEPT !.branches[a] = ms] = [r EXCEPT !.branches = [r.branches EXCEPT ![a] = ms]]
    OBVIOUS
  <2>3. AddBranchContact(g, a, id) = RewireRungBranches(SetRung(n, i, [r EXCEPT !.branches[a] = ms]), [r EXCEPT !.branches[a] = ms])
    BY Zenon DEF AddBranchContact
  <2> QED
    BY <2>1, <2>2, <2>3, Zenon DEF WithBranches
<1>5. /\ ms \in Seq(Ids) /\ IsInjective(ms)
      /\ ToSet(ms) = ToSet(r.branches[a]) \cup X
  <2>1. /\ r.branches[a] \in Seq(Ids) /\ ToSet(r.branches[a]) \subseteq Members(r)
    BY <1>1, <1>2, RungIs
  <2>2. id \notin ToSet(r.branches[a]) /\ IsInjective(r.branches[a])
    BY <1>1, <1>3, <2>1 DEF RungWellFormed, Placed
  <2> QED
    BY <2>1, <2>2, AppendLists
<1>6. a \in Series(r) /\ IsKind(n, a, "contact")
  BY <1>1, <1>3 DEF RungWellFormed
<1>7. /\ X \subseteq Nodes(n) \ Rails /\ X \cap Placed(r) = {}
      /\ \A x \in X : IsKind(n, x, "contact")
  BY <1>3
<1> HIDE DEF ms, n, X, r
<1>8. /\ new \in Rungs /\ RungWellFormed(n, new) /\ Placed(new) = Placed(r) \cup X
      /\ new.id = r.id
  BY <1>1, <1>2, <1>3, <1>5, <1>6, <1>7, BranchGrows
<1> HIDE DEF new
<1>9. /\ GraphOK(h) /\ Listed(h, new) /\ Replaced(g, h, i, new)
      /\ \A Y : Spares(g, h, Y)
  <2>1. Placed(new) = Placed(g.rungs[i]) \cup {id} /\ RungWellFormed(AddNode(g, id, "contact"), new)
    BY <1>8 DEF X, r, n
  <2>2. "contact" \in Kinds
    BY DEF Kinds
  <2> HIDE DEF i
  <2> QED
    BY <1>1, <1>8, <2>1, <2>2, RungGrows DEF n
<1> HIDE DEF h
<1> DEFINE f == RewireRungBranches(h, new)
           Y == Placed(g.rungs[i]) \cup {id}
<1>11. new.id = g.rungs[i].id /\ Placed(new) \subseteq Y
  BY <1>8 DEF r, X
<1> HIDE DEF i
<1>12. Private(g, i, Y)
  BY <1>1, PrivateNodes
<1> HIDE DEF Y
<1>10. GraphOK(f) /\ Replaced(g, f, i, new) /\ BranchesWired(f, new) /\ Spares(h, f, Y)
  BY <1>9, <1>11, BranchesOK DEF Replaced
<1>13. AddBranchContact(g, a, id) = f
  BY <1>4
<1> HIDE DEF f
<1>14. Spares(g, f, Y)
  BY <1>9, <1>10, SparesBoth
<1>15. Edited(g, f) /\ Others(g, f, i)
  BY <1>1, <1>10, <1>11, <1>12, <1>14, OneEdited, OneTouched
<1> QED
  BY <1>10, <1>13, <1>15 DEF i

(* A branch opened together with its first member.                          *)
LEMMA BranchWithMemberOK ==
  ASSUME NEW g, GraphOK(g), NEW i \in DOMAIN g.rungs, NEW a, CanOpenBranch(g, i, a),
         NEW id \in Ids \ Nodes(g)
  PROVE  LET k == AddBranchContact(OpenBranch(g, i, a), a, id)
         IN  GraphOK(k) /\ Edited(g, k) /\ Others(g, k, i)
<1> DEFINE h == OpenBranch(g, i, a)
           k == AddBranchContact(h, a, id)
<1>1. /\ GraphOK(h) /\ Nodes(h) = Nodes(g) /\ HasBranch(h, a)
      /\ Edited(g, h) /\ SameContents(g, h) /\ h.wires = g.wires
      /\ BranchRungIndex(h, a) = i
      /\ \A j \in DOMAIN g.rungs : j # i => h.rungs[j] = g.rungs[j]
  BY OpenBranchOK
<1> HIDE DEF h
<1>2. GraphOK(k) /\ Edited(h, k) /\ Others(h, k, i)
  BY <1>1, AddBranchContactOK
<1> HIDE DEF k
<1>3. Edited(g, k)
  BY <1>1, <1>2, EditedAfter
<1>4. Others(g, k, i)
  BY <1>1, <1>2 DEF Others, OwnWires, SameContents
<1> QED
  BY <1>2, <1>3, <1>4 DEF h, k

(* deleteBranch: the members go, the anchor is wired to its successor.      *)
LEMMA DeleteBranchOK ==
  ASSUME NEW g, GraphOK(g), NEW a, HasBranch(g, a)
  PROVE  /\ GraphOK(DeleteBranch(g, a)) /\ Edited(g, DeleteBranch(g, a))
         /\ Others(g, DeleteBranch(g, a), BranchRungIndex(g, a))
<1> DEFINE i    == BranchRungIndex(g, a)
           r    == g.rungs[i]
           gone == ToSet(r.branches[a])
           b    == Restrict(r.branches, DOMAIN r.branches \ {a})
           new  == WithBranches(r, b)
           d    == DropNodes(g, gone)
           s    == [g.rungs EXCEPT ![i] = new]
           h    == SetRung(d, i, new)
           k    == RewireRungBranches(h, new)
<1>1. /\ i \in DOMAIN g.rungs /\ a \in DOMAIN r.branches
      /\ g \in Diagrams /\ r \in Rungs /\ RungWellFormed(g, r)
      /\ g.rungs \in Seq(Rungs) /\ WiresJoin(g)
      /\ \A j \in DOMAIN g.rungs : RungWellFormed(g, g.rungs[j])
  BY BranchIndexIs, RungAt DEF GraphOK, Placement
<1>2. DeleteBranch(g, a) = AddWires(k, Wire(a, SeriesSuccessor(new, a)))
  BY Zenon DEF DeleteBranch, WithBranches
<1>3. /\ a \in Series(r) /\ gone \cap Series(r) = {} /\ gone \subseteq Placed(r)
      /\ \A x \in DOMAIN r.branches : x # a => ToSet(r.branches[x]) \cap gone = {}
  BY <1>1 DEF RungWellFormed, Placed, Members
<1>4. /\ DOMAIN b = DOMAIN r.branches \ {a} /\ b = [x \in DOMAIN b |-> b[x]]
      /\ \A x \in DOMAIN b : b[x] = r.branches[x]
  BY DEF Restrict
<1> HIDE DEF b
<1>5. b \in Branchings
  <2>1. DOMAIN r.branches \subseteq Ids /\ \A x \in DOMAIN r.branches : r.branches[x] \in Seq(Ids)
    BY <1>1, RungIs
  <2>2. DOMAIN b \subseteq Ids /\ \A x \in DOMAIN b : b[x] \in Seq(Ids)
    BY <1>4, <2>1
  <2> QED
    BY <1>4, <2>2, BranchingIs
<1>6. /\ new \in Rungs /\ RungWellFormed(g, new) /\ Placed(new) \subseteq Placed(r)
      /\ Series(new) = Series(r) /\ Placed(new) \cap gone = {} /\ new.id = r.id
  <2> DEFINE w == Less(r, r.elems, b)
  <2>1. new = w /\ new.id = r.id
    BY <1>1 DEF Less, WithBranches, Rungs
  <2>2. r.elems \in Seq(Ids) /\ IsInjective(r.elems) /\ ToSet(r.elems) = Series(r)
    BY <1>1, RungIs DEF RungWellFormed, Series
  <2>3. /\ DOMAIN b \subseteq DOMAIN r.branches /\ DOMAIN b \subseteq Series(r)
        /\ \A x \in DOMAIN b : IsInjective(b[x]) /\ ToSet(b[x]) \subseteq ToSet(r.branches[x])
    BY <1>1, <1>4 DEF RungWellFormed
  <2> HIDE DEF r, new
  <2>4. /\ w \in Rungs /\ RungWellFormed(g, w) /\ Placed(w) \subseteq Placed(r)
        /\ Series(w) = Series(r) /\ w.branches = b
    BY <1>1, <1>5, <2>2, <2>3, RungShrinks
  <2> HIDE DEF w, gone
  <2>5. Members(w) \cap gone = {}
    BY <1>3, <1>4, <2>4 DEF Members
  <2> QED
    BY <1>3, <2>1, <2>4, <2>5 DEF Placed
<1> HIDE DEF new, gone
<1>7. /\ d \in Diagrams /\ WiresJoin(d) /\ d.rungs = g.rungs
      /\ \A X \in SUBSET Nodes(g) : X \cap gone = {} => Keeps(g, d, X)
      /\ d.wires = g.wires \ Touching(g.wires, gone)
  BY <1>1, NodesDropped
<1> HIDE DEF d
<1>8. h = WithRungs(d, s)
  BY <1>7 DEF SetRung, WithRungs, Diagrams
<1>9. /\ s \in Seq(Rungs) /\ DOMAIN s = DOMAIN g.rungs
      /\ s[i] = new /\ \A j \in DOMAIN s : j # i => s[j] = g.rungs[j]
  BY <1>1, <1>6
<1> HIDE DEF s, h
<1>10. \A j \in DOMAIN s : RungWellFormed(g, s[j]) /\ Placed(s[j]) \subseteq Placed(g.rungs[j])
  BY <1>1, <1>6, <1>9
<1>11. \A j \in DOMAIN s : Keeps(g, d, Placed(s[j]))
  <2> TAKE j \in DOMAIN s
  <2>1. Placed(s[j]) \subseteq Nodes(g)
    BY <1>10 DEF RungWellFormed
  <2>2. CASE j = i
    BY <1>6, <1>7, <1>9, <2>1, <2>2
  <2>3. CASE j # i
    <3>1. Placed(g.rungs[j]) \cap Placed(g.rungs[i]) = {}
      BY <1>1, <1>9, <2>3 DEF GraphOK, Placement, RungsApart
    <3>2. Placed(s[j]) \cap gone = {}
      BY <1>3, <1>9, <2>3, <3>1
    <3> QED
      BY <1>7, <2>1, <3>2
  <2> QED
    BY <2>2, <2>3
<1>12. GraphOK(h)
  <2> DEFINE p == [j \in DOMAIN s |-> j]
  <2>1. /\ \A j \in DOMAIN s : p[j] = j /\ p[j] \in DOMAIN g.rungs
        /\ \A j, l \in DOMAIN s : p[j] = p[l] => j = l
    BY <1>9
  <2> HIDE DEF p
  <2>2. \A j \in DOMAIN s : /\ RungWellFormed(g, s[j])
                            /\ Placed(s[j]) \subseteq Placed(g.rungs[p[j]])
                            /\ Keeps(g, d, Placed(s[j]))
    BY <1>10, <1>11, <2>1
  <2> QED
    BY <1>7, <1>8, <1>9, <2>1, <2>2, RungsRemain
<1>13. RungWellFormed(h, new) /\ Placed(new) \subseteq Nodes(h)
  <2>1. h.rungs = s
    BY <1>7, <1>8, <1>9, RungsChanged
  <2> QED
    BY <1>1, <1>9, <1>12, <2>1 DEF GraphOK, Placement, RungWellFormed
<1>14. Listed(h, new)
  BY <1>6, <1>12, <1>13, ListedOK DEF GraphOK
<1> DEFINE Y == Placed(r)
<1>19. /\ Private(g, i, Y) /\ Placed(new) \subseteq Y /\ a \in Y /\ Spares(g, h, Y)
  <2>1. Private(g, i, Placed(g.rungs[i]))
    BY <1>1, PrivateNodes
  <2>2. h.wires = g.wires \ Touching(g.wires, gone)
    BY <1>7, <1>8, <1>9, RungsChanged
  <2>3. Spares(g, h, Y)
    BY <1>3, <2>2 DEF Spares, Touching
  <2> QED
    BY <1>3, <1>6, <2>1, <2>3 DEF Placed
<1> HIDE DEF Y
<1>15. /\ GraphOK(k) /\ Nodes(k) = Nodes(h)
      /\ Replaced(g, k, i, new) /\ BranchesWired(k, new) /\ Spares(h, k, Y)
  <2>1. h.rungs = s
    BY <1>7, <1>8, <1>9, RungsChanged
  <2>2. Replaced(g, h, i, new)
    BY <2>1 DEF Replaced, s
  <2> QED
    BY <1>12, <1>14, <1>19, <2>2, BranchesOK DEF Replaced
<1> HIDE DEF k
<1>16. Wire(a, SeriesSuccessor(new, a)) \subseteq Nodes(k) \X Nodes(k)
  <2>1. SeriesSuccessor(new, a) \in Series(new) \cup {NoNode}
    BY <1>6, SuccessorIs
  <2>2. Series(new) \subseteq Nodes(k) /\ a \in Nodes(k)
    BY <1>3, <1>6, <1>13, <1>15 DEF Placed
  <2> QED
    BY <2>1, <2>2, WireJoins
<1> DEFINE f == AddWires(k, Wire(a, SeriesSuccessor(new, a)))
<1>20. \A w \in Wire(a, SeriesSuccessor(new, a)) : w[1] \in Y \/ w[2] \in Y
  BY <1>19 DEF Wire
<1>17. GraphOK(f) /\ Replaced(g, f, i, new) /\ BranchesWired(f, new) /\ Spares(k, f, Y)
  BY <1>15, <1>16, <1>20, WiredOK DEF Replaced
<1>18. new.id = g.rungs[i].id /\ DeleteBranch(g, a) = f
  BY <1>2, <1>6
<1> HIDE DEF f, i
<1>21. Spares(g, f, Y)
  BY <1>15, <1>17, <1>19, SparesBoth
<1>22. Edited(g, f) /\ Others(g, f, i)
  BY <1>1, <1>17, <1>18, <1>19, <1>21, OneEdited, OneTouched
<1> QED
  BY <1>17, <1>18, <1>22 DEF i

(* What a deletion leaves of a rung: a rung that adds nothing to what there *)
(* was, and lists none of the nodes that go.                                *)
LEMMA PrunedIs ==
  ASSUME NEW g, NEW r \in Rungs, RungWellFormed(g, r), NEW id, NEW gone,
         id \in gone, gone \cap Placed(r) \subseteq
           {id} \cup (IF id \in DOMAIN r.branches THEN ToSet(r.branches[id]) ELSE {})
  PROVE  /\ PruneRung(r, id, gone) \in Rungs
         /\ RungWellFormed(g, PruneRung(r, id, gone))
         /\ Placed(PruneRung(r, id, gone)) \subseteq Placed(r)
         /\ Placed(PruneRung(r, id, gone)) \cap gone = {}
         /\ PruneRung(r, id, gone).id = r.id
         /\ Shrunk(PruneRung(r, id, gone), r)
<1> DEFINE left(a) == Drop(r.branches[a], {id})
           kept == {a \in DOMAIN r.branches \ {id} : left(a) # <<>>}
           e    == Drop(r.elems, gone)
           b    == [a \in kept |-> left(a)]
           new  == Less(r, e, b)
<1>1. PruneRung(r, id, gone) = new
  BY Zenon DEF PruneRung, Less
<1>2. r.elems \in Seq(Ids) /\ IsInjective(r.elems)
  BY RungIs DEF RungWellFormed
<1>3. /\ e \in Seq(Ids) /\ IsInjective(e) /\ ToSet(e) = Series(r) \ gone
      /\ Series(r) \cap gone = {} => e = r.elems
  BY <1>2, DropLists DEF Series
<1>4. \A a \in DOMAIN r.branches :
        /\ left(a) \in Seq(Ids) /\ IsInjective(left(a))
        /\ ToSet(left(a)) = ToSet(r.branches[a]) \ {id}
        /\ id \notin ToSet(r.branches[a]) => left(a) = r.branches[a]
  <2> TAKE a \in DOMAIN r.branches
  <2> DEFINE ms == r.branches[a]
  <2>1. ms \in Seq(Ids) /\ IsInjective(ms)
    BY RungIs DEF RungWellFormed
  <2> HIDE DEF ms
  <2>2. /\ Drop(ms, {id}) \in Seq(Ids) /\ IsInjective(Drop(ms, {id}))
        /\ ToSet(Drop(ms, {id})) = ToSet(ms) \ {id}
        /\ ToSet(ms) \cap {id} = {} => Drop(ms, {id}) = ms
    BY <2>1, DropLists
  <2> QED
    BY <2>2 DEF ms
<1> HIDE DEF left, e
<1>5. /\ DOMAIN b = kept /\ kept \subseteq DOMAIN r.branches \ {id}
      /\ b = [a \in DOMAIN b |-> b[a]] /\ \A a \in kept : b[a] = left(a)
  OBVIOUS
<1> HIDE DEF kept, b
<1>6. b \in Branchings
  <2>1. DOMAIN r.branches \subseteq Ids
    BY RungIs
  <2>2. DOMAIN b \subseteq Ids /\ \A a \in DOMAIN b : b[a] \in Seq(Ids)
    BY <1>4, <1>5, <2>1
  <2> QED
    BY <1>5, <2>2, BranchingIs
<1>7. \A a \in DOMAIN r.branches \ {id} : a \notin gone /\ ToSet(left(a)) \cap gone = {}
  <2> TAKE a \in DOMAIN r.branches \ {id}
  <2>1. a \in Series(r) /\ a \in Placed(r) /\ ToSet(r.branches[a]) \subseteq Placed(r)
    BY DEF RungWellFormed, Placed, Members
  <2>2. id \in DOMAIN r.branches => /\ ToSet(r.branches[id]) \cap Series(r) = {}
                                    /\ ToSet(r.branches[id]) \cap ToSet(r.branches[a]) = {}
    BY DEF RungWellFormed
  <2> QED
    BY <1>4, <2>1, <2>2
<1>8. /\ DOMAIN b \subseteq DOMAIN r.branches /\ DOMAIN b \subseteq ToSet(e)
      /\ \A a \in DOMAIN b : IsInjective(b[a]) /\ ToSet(b[a]) \subseteq ToSet(r.branches[a])
  <2>1. \A a \in DOMAIN r.branches : a \in Series(r)
    BY DEF RungWellFormed
  <2>2. DOMAIN b \subseteq ToSet(e)
    BY <1>3, <1>5, <1>7, <2>1
  <2> QED
    BY <1>4, <1>5, <2>2
<1>9. /\ new \in Rungs /\ RungWellFormed(g, new) /\ Placed(new) \subseteq Placed(r)
      /\ Series(new) = ToSet(e) /\ new.branches = b /\ new.id = r.id
  BY <1>3, <1>6, <1>8, RungShrinks
<1> HIDE DEF new
<1>10. Members(new) \cap gone = {}
  BY <1>5, <1>7, <1>9 DEF Members
<1>11. Placed(new) \cap gone = {}
  BY <1>3, <1>9, <1>10 DEF Placed
<1>12. ASSUME Placed(r) \cap gone = {}, DOMAIN b = DOMAIN r.branches
       PROVE  new = r
  <2>1. e = r.elems
    BY <1>3, <1>12 DEF Placed
  <2>2. \A a \in DOMAIN b : b[a] = r.branches[a]
    <3> TAKE a \in DOMAIN b
    <3>1. id \notin ToSet(r.branches[a])
      BY <1>5, <1>12 DEF Placed, Members
    <3> QED
      BY <1>4, <1>5, <3>1
  <2>3. r.branches = [a \in DOMAIN r.branches |-> r.branches[a]]
    BY BranchingIs, RungIs
  <2>4. b = r.branches
    BY <1>5, <1>12, <2>2, <2>3
  <2> QED
    BY <2>1, <2>4 DEF new, Less, Rungs
<1>13. Shrunk(new, r)
  BY <1>8, <1>9, <1>11, <1>12 DEF Shrunk
<1> QED
  BY <1>1, <1>9, <1>11, <1>13

(* deleteElement: the node, the branch it anchors and the members of that   *)
(* branch go, and every branch left without members.                        *)
LEMMA DeleteElementOK ==
  ASSUME NEW g, GraphOK(g), NEW id
  PROVE  /\ GraphOK(DeleteElement(g, id))
         /\ IdsApart(g) /\ id \notin Rails => Pruned(g, DeleteElement(g, id))
<1> DEFINE of(i) == IF id \in DOMAIN g.rungs[i].branches
                      THEN ToSet(g.rungs[i].branches[id]) ELSE {}
           gone  == {id} \cup UNION {of(i) : i \in DOMAIN g.rungs}
           pruned == [i \in DOMAIN g.rungs |-> PruneRung(g.rungs[i], id, gone)]
           d == DropNodes(g, gone)
           h == WithRungs(d, pruned)
           R == ToSet(pruned) \ ToSet(g.rungs)
<1>1. DeleteElement(g, id) = RewireBranches(h, R)
  BY Zenon DEF DeleteElement, WithRungs
<1>2. /\ g \in Diagrams /\ WiresJoin(g) /\ DOMAIN g.rungs = 1..Len(g.rungs)
      /\ Len(g.rungs) \in Nat
      /\ \A i \in DOMAIN g.rungs : g.rungs[i] \in Rungs /\ RungWellFormed(g, g.rungs[i])
  BY RungAt DEF GraphOK, Placement
<1>3. \A i \in DOMAIN g.rungs : of(i) \subseteq Placed(g.rungs[i])
  BY DEF Placed, Members
<1>4. \A i \in DOMAIN g.rungs : gone \cap Placed(g.rungs[i]) \subseteq {id} \cup of(i)
  <2> TAKE i \in DOMAIN g.rungs
  <2>1. \A j \in DOMAIN g.rungs : j # i => of(j) \cap Placed(g.rungs[i]) = {}
    BY <1>3 DEF GraphOK, Placement, RungsApart
  <2> HIDE DEF of
  <2> QED
    BY <2>1
<1>5. id \in gone /\ (id \notin Rails => gone \cap Rails = {})
  <2>1. \A i \in DOMAIN g.rungs : Placed(g.rungs[i]) \cap Rails = {}
    BY <1>2 DEF RungWellFormed
  <2> HIDE DEF of
  <2> QED
    BY <1>3, <2>1
<1> HIDE DEF gone
<1>6. \A i \in DOMAIN g.rungs : LET r == PruneRung(g.rungs[i], id, gone)
                                IN  /\ r \in Rungs /\ RungWellFormed(g, r)
                                    /\ Placed(r) \subseteq Placed(g.rungs[i])
                                    /\ Placed(r) \cap gone = {}
                                    /\ r.id = g.rungs[i].id
                                    /\ Shrunk(r, g.rungs[i])
  BY <1>2, <1>4, <1>5, PrunedIs
<1>7. /\ DOMAIN pruned = DOMAIN g.rungs
      /\ \A i \in DOMAIN pruned : pruned[i] = PruneRung(g.rungs[i], id, gone)
  OBVIOUS
<1>8. pruned \in Seq(Rungs)
  BY <1>2, <1>6
<1> HIDE DEF pruned
<1>9. /\ d \in Diagrams /\ WiresJoin(d)
      /\ \A X \in SUBSET Nodes(g) : X \cap gone = {} => Keeps(g, d, X)
      /\ Nodes(d) = Nodes(g) \ gone /\ d.wires = g.wires \ Touching(g.wires, gone)
  BY <1>2, NodesDropped
<1> HIDE DEF d
<1>10. \A i \in DOMAIN pruned : Keeps(g, d, Placed(pruned[i]))
  BY <1>6, <1>7, <1>9 DEF RungWellFormed
<1>11. GraphOK(h)
  <2> DEFINE p == [j \in DOMAIN pruned |-> j]
  <2>1. /\ \A j \in DOMAIN pruned : p[j] = j /\ p[j] \in DOMAIN g.rungs
        /\ \A j, l \in DOMAIN pruned : p[j] = p[l] => j = l
    BY <1>7
  <2> HIDE DEF p
  <2>2. \A j \in DOMAIN pruned : /\ RungWellFormed(g, pruned[j])
                                 /\ Placed(pruned[j]) \subseteq Placed(g.rungs[j])
    BY <1>6, <1>7
  <2>3. \A j \in DOMAIN pruned : /\ RungWellFormed(g, pruned[j])
                                 /\ Placed(pruned[j]) \subseteq Placed(g.rungs[p[j]])
                                 /\ Keeps(g, d, Placed(pruned[j]))
    BY <1>10, <2>1, <2>2
  <2> QED
    BY <1>8, <1>9, <2>1, <2>3, RungsRemain
<1>12. /\ h.rungs = pruned /\ Nodes(h) = Nodes(g) \ gone
       /\ h.wires = g.wires \ Touching(g.wires, gone)
  BY <1>8, <1>9, RungsChanged DEF Nodes
<1> HIDE DEF h
<1>13. \A r \in R : Listed(h, r)
  <2> TAKE r \in R
  <2>1. PICK i \in DOMAIN pruned : r = pruned[i]
    BY DEF ToSet
  <2>2. r \in Rungs /\ RungWellFormed(h, r)
    BY <1>6, <1>7, <1>11, <1>12, <2>1 DEF GraphOK, Placement
  <2> QED
    BY <1>11, <2>2, ListedOK DEF GraphOK
<1> DEFINE k == RewireBranches(h, R)
<1>14. Rewired(h, k)
  <2> HIDE DEF R
  <2> QED
    BY <1>11, <1>13, RewireJoins DEF GraphOK
<1>15. ASSUME IdsApart(g), id \notin Rails, NEW j \in DOMAIN g.rungs, pruned[j] # g.rungs[j]
       PROVE  BranchesWired(k, pruned[j])
  <2>1. \A l \in DOMAIN g.rungs : g.rungs[l] # pruned[j]
    BY <1>6, <1>7, <1>15 DEF IdsApart
  <2>2. pruned[j] \in R
    BY <1>7, <2>1 DEF ToSet
  <2> HIDE DEF R
  <2> QED
    BY <1>11, <2>2, RewireWires DEF GraphOK
<1>19. ASSUME NEW j \in DOMAIN g.rungs, pruned[j] = g.rungs[j], NEW x \in R
       PROVE  /\ DOMAIN x.branches \subseteq Placed(x)
              /\ Placed(x) \cap (Placed(g.rungs[j]) \cup Rails) = {}
  <2> DEFINE r == g.rungs[j]
  <2>1. PICK l \in DOMAIN g.rungs : x = pruned[l] /\ l # j
    BY <1>7, <1>19 DEF ToSet
  <2>2. RungWellFormed(g, x) /\ Placed(x) \subseteq Placed(g.rungs[l])
    BY <1>6, <1>7, <2>1
  <2>3. Placed(g.rungs[l]) \cap Placed(r) = {}
    BY <2>1 DEF GraphOK, Placement, RungsApart
  <2> HIDE DEF r
  <2>4. Placed(x) \cap Rails = {} /\ DOMAIN x.branches \subseteq Placed(x)
    BY <2>2 DEF RungWellFormed, Placed
  <2> QED
    BY <2>2, <2>3, <2>4 DEF r
<1>16. ASSUME id \notin Rails, NEW j \in DOMAIN g.rungs, pruned[j] = g.rungs[j],
              BranchesWired(g, g.rungs[j])
       PROVE  BranchesWired(k, pruned[j])
  <2> DEFINE r == g.rungs[j]
  <2>1. r \in Rungs /\ RungWellFormed(g, r) /\ Placed(r) \cap gone = {}
    BY <1>2, <1>6, <1>7, <1>16
  <2>2. \A x \in R : /\ DOMAIN x.branches \subseteq Placed(x)
                     /\ Placed(x) \cap (Placed(r) \cup {RightRail}) = {}
    BY <1>16, <1>19 DEF Rails
  <2>3. (Placed(r) \cup {RightRail}) \cap gone = {}
    BY <1>5, <1>16, <2>1 DEF Rails
  <2>4. BranchesWired(g, r) /\ pruned[j] = r
    BY <1>16
  <2> HIDE DEF r, R
  <2> QED
    BY <1>11, <1>12, <2>1, <2>2, <2>3, <2>4, RemainsWired DEF GraphOK
<1>17. k.rungs = pruned
  BY <1>12, <1>14 DEF Rewired
<1>20. ASSUME id \notin Rails, NEW j \in DOMAIN g.rungs, pruned[j] = g.rungs[j]
       PROVE  OwnWires(k, g.rungs[j]) = OwnWires(g, g.rungs[j])
  <2> DEFINE X == gone \cup UNION {Placed(x) : x \in R}
  <2>1. Placed(g.rungs[j]) \cap gone = {} /\ gone \cap Rails = {}
    BY <1>5, <1>6, <1>7, <1>20
  <2>2. \A x \in R : Placed(x) \cap (Placed(g.rungs[j]) \cup Rails) = {}
    BY <1>19, <1>20
  <2>3. \A x \in R : Tidy(x) /\ Placed(x) \subseteq X
    BY <1>13 DEF Listed
  <2>4. gone \subseteq X
    OBVIOUS
  <2> HIDE DEF R
  <2>5. X \cap (Placed(g.rungs[j]) \cup Rails) = {}
    BY <2>1, <2>2
  <2> HIDE DEF X
  <2>6. Spares(g, h, X)
    BY <1>12, <2>4 DEF Spares, Touching
  <2>7. Spares(h, k, X)
    BY <1>11, <2>3, RewireSpares DEF GraphOK, Diagrams
  <2> QED
    BY <2>5, <2>6, <2>7, SparesBoth, OwnSpared
<1> HIDE DEF k
<1>18. IdsApart(g) /\ id \notin Rails => Pruned(g, k)
  BY <1>6, <1>7, <1>15, <1>16, <1>17, <1>20 DEF Pruned
<1> QED
  BY <1>1, <1>11, <1>14, <1>18, RewiredOK DEF GraphOK, k

(* One deletion is an edit, ...                                             *)
LEMMA DeletedEdited ==
  ASSUME NEW g, GraphOK(g), NEW x, x \notin Rails
  PROVE  /\ GraphOK(DeleteElement(g, x)) /\ Edited(g, DeleteElement(g, x))
         /\ Sparing(g, DeleteElement(g, x))
BY DeleteElementOK, PrunedEdited, PrunedSparing

(* ... and so are two.                                                      *)
LEMMA BothDeletedEdited ==
  ASSUME NEW g, GraphOK(g), NEW x, x \notin Rails, NEW y, y \notin Rails
  PROVE  LET k == DeleteElement(DeleteElement(g, x), y)
         IN  GraphOK(k) /\ Edited(g, k) /\ Sparing(g, k)
<1> DEFINE h == DeleteElement(g, x)
           k == DeleteElement(h, y)
<1>1. GraphOK(h) /\ (IdsApart(g) => Pruned(g, h) /\ IdsApart(h))
  BY DeleteElementOK, DeletedEdited DEF Edited
<1> HIDE DEF h
<1>2. GraphOK(k) /\ (IdsApart(h) => Pruned(h, k))
  BY <1>1, DeleteElementOK
<1> HIDE DEF k
<1>3. Edited(g, k) /\ Sparing(g, k)
  BY <1>1, <1>2, PrunedTwice, PrunedEdited, PrunedSparing
<1> QED
  BY <1>2, <1>3 DEF h, k

------------------------------------------------------------------------------
(* The text.                                                                *)

\* Whom the text names.
Named(g, X) == {x \in X : IsKind(g, x, "contact") \/ IsKind(g, x, "coil")}
\* What it has for a node itself, for the branch the node anchors, and for both.
Own(g, id)    == IF IsKind(g, id, "contact") \/ IsKind(g, id, "coil") THEN <<id>> ELSE <<>>
Ors(g, r, id) == IF id \in DOMAIN r.branches
                   THEN Drop(r.branches[id], {m \in Members(r) : ~IsKind(g, m, "contact")})
                   ELSE <<>>
Piece(g, r, id) == Own(g, id) \o Ors(g, r, id)
\* Whom a series element stands for: itself and the branch it anchors.
Standing(r, id) == {id} \cup (IF id \in DOMAIN r.branches THEN ToSet(r.branches[id]) ELSE {})

(* The sequence without elements, and the one with one.                     *)
LEMMA ShortSeqs ==
  ASSUME NEW S
  PROVE  /\ <<>> \in Seq(S) /\ ToSet(<<>>) = {} /\ IsInjective(<<>>)
         /\ \A x \in S : <<x>> \in Seq(S) /\ ToSet(<<x>>) = {x} /\ IsInjective(<<x>>)
<1>1. <<>> \in Seq(S) /\ ToSet(<<>>) = {} /\ IsInjective(<<>>)
  BY DEF ToSet, IsInjective
<1>2. ASSUME NEW x \in S
      PROVE  <<x>> \in Seq(S) /\ ToSet(<<x>>) = {x} /\ IsInjective(<<x>>)
  <2> DEFINE s == <<x>>
  <2>1. s \in Seq(S) /\ DOMAIN s = {1} /\ s[1] = x
    OBVIOUS
  <2> HIDE DEF s
  <2>2. s \in Seq(S) /\ ToSet(s) = {x} /\ IsInjective(s)
    BY <2>1 DEF ToSet, IsInjective
  <2> QED
    BY <2>2 DEF s
<1> QED
  BY <1>1, <1>2

(* A series element has a piece that names it and the branch it anchors.    *)
LEMMA PieceLists ==
  ASSUME NEW g, NEW r \in Rungs, RungWellFormed(g, r), NEW id \in Series(r)
  PROVE  /\ Piece(g, r, id) \in Seq(Ids) /\ IsInjective(Piece(g, r, id))
         /\ ToSet(Piece(g, r, id)) = Named(g, Standing(r, id))
<1>1. id \in Ids
  BY RungIs
<1> DEFINE own == Own(g, id)
           ors == Ors(g, r, id)
           members == IF id \in DOMAIN r.branches THEN ToSet(r.branches[id]) ELSE {}
<1>2. own \in Seq(Ids) /\ IsInjective(own) /\ ToSet(own) = Named(g, {id})
  <2>1. CASE IsKind(g, id, "contact") \/ IsKind(g, id, "coil")
    <3>1. own = <<id>> /\ Named(g, {id}) = {id}
      BY <2>1 DEF Own, Named
    <3> QED
      BY <1>1, <3>1, ShortSeqs
  <2>2. CASE ~(IsKind(g, id, "contact") \/ IsKind(g, id, "coil"))
    <3>1. own = <<>> /\ Named(g, {id}) = {}
      BY <2>2 DEF Own, Named
    <3> QED
      BY <3>1, ShortSeqs
  <2> QED
    BY <2>1, <2>2
<1>3. ors \in Seq(Ids) /\ IsInjective(ors) /\ ToSet(ors) = members /\ Named(g, members) = members
  <2>1. CASE id \in DOMAIN r.branches
    <3> DEFINE b == r.branches[id]
               D == {m \in Members(r) : ~IsKind(g, m, "contact")}
    <3>1. b \in Seq(Ids) /\ IsInjective(b) /\ \A m \in ToSet(b) : IsKind(g, m, "contact")
      BY <2>1, RungIs DEF RungWellFormed
    <3>2. ToSet(b) \cap D = {}
      BY <3>1
    <3>3. ors = Drop(b, D) /\ members = ToSet(b)
      BY <2>1 DEF Ors
    <3> HIDE DEF b, D, ors, members
    <3>4. Drop(b, D) = b
      BY <3>1, <3>2, DropLists
    <3> QED
      BY <3>1, <3>3, <3>4 DEF Named
  <2>2. CASE id \notin DOMAIN r.branches
    <3>1. ors = <<>> /\ members = {}
      BY <2>2 DEF Ors
    <3> QED
      BY <3>1, ShortSeqs DEF Named
  <2> QED
    BY <2>1, <2>2
<1>4. id \notin members
  BY DEF RungWellFormed
<1>5. Piece(g, r, id) = own \o ors /\ Standing(r, id) = {id} \cup members
  BY DEF Piece, Standing
<1>6. Named(g, {id} \cup members) = Named(g, {id}) \cup Named(g, members)
  BY DEF Named
<1>7. ToSet(own) \subseteq {id}
  BY <1>2 DEF Named
<1> HIDE DEF own, ors, members
<1>8. ToSet(own) \cap ToSet(ors) = {}
  BY <1>3, <1>4, <1>7
<1>9. own \o ors \in Seq(Ids) /\ IsInjective(own \o ors) /\ ToSet(own \o ors) = ToSet(own) \cup ToSet(ors)
  <2>1. own \in Seq(Ids) /\ ors \in Seq(Ids) /\ IsInjective(own) /\ IsInjective(ors)
    BY <1>2, <1>3
  <2> QED
    BY <1>8, <2>1, ConcatLists
<1> QED
  BY <1>2, <1>3, <1>5, <1>6, <1>9

(* Two series elements stand for different nodes.                           *)
LEMMA StandingApart ==
  ASSUME NEW g, NEW r, RungWellFormed(g, r), NEW x \in Series(r), NEW y \in Series(r), x # y
  PROVE  Standing(r, x) \cap Standing(r, y) = {}
<1>1. \A a \in DOMAIN r.branches : ToSet(r.branches[a]) \cap Series(r) = {}
  BY DEF RungWellFormed
<1>2. \A a, b \in DOMAIN r.branches : a # b => ToSet(r.branches[a]) \cap ToSet(r.branches[b]) = {}
  BY DEF RungWellFormed
<1> QED
  BY <1>1, <1>2 DEF Standing

(* The text of a rung names its contacts and its coils, each once.          *)
LEMMA RungTextLists ==
  ASSUME NEW g, NEW r \in Rungs, RungWellFormed(g, r)
  PROVE  /\ RungText(g, r) \in Seq(Ids) /\ IsInjective(RungText(g, r))
         /\ ToSet(RungText(g, r)) = Named(g, Placed(r))
<1> DEFINE e == r.elems
           ss == [j \in DOMAIN e |-> Piece(g, r, e[j])]
<1>1. RungText(g, r) = FlattenSeq(ss)
  BY Zenon DEF RungText, Piece, Own, Ors
<1>2. e \in Seq(Ids) /\ Len(e) \in Nat /\ DOMAIN e = 1..Len(e) /\ IsInjective(e)
  BY RungIs DEF RungWellFormed
<1>3. Series(r) = {e[j] : j \in DOMAIN e}
  BY DEF Series, ToSet
<1>4. \A j \in DOMAIN e : /\ Piece(g, r, e[j]) \in Seq(Ids) /\ IsInjective(Piece(g, r, e[j]))
                          /\ ToSet(Piece(g, r, e[j])) = Named(g, Standing(r, e[j]))
  BY <1>3, PieceLists
<1>5. /\ DOMAIN ss = DOMAIN e
      /\ \A j \in DOMAIN e : /\ ss[j] \in Seq(Ids) /\ IsInjective(ss[j])
                             /\ ToSet(ss[j]) = Named(g, Standing(r, e[j]))
  BY <1>4
<1>6. ss \in Seq(Seq(Ids))
  BY <1>2, <1>4
<1>7. \A i, j \in DOMAIN ss : i # j => ToSet(ss[i]) \cap ToSet(ss[j]) = {}
  <2> SUFFICES ASSUME NEW i \in DOMAIN e, NEW j \in DOMAIN e, i # j
               PROVE  ToSet(ss[i]) \cap ToSet(ss[j]) = {}
    BY <1>5
  <2>1. e[i] # e[j] /\ e[i] \in Series(r) /\ e[j] \in Series(r)
    BY <1>2, <1>3 DEF IsInjective
  <2>2. Standing(r, e[i]) \cap Standing(r, e[j]) = {}
    BY <2>1, StandingApart
  <2> QED
    BY <1>5, <2>2 DEF Named
<1>8. UNION {Standing(r, e[j]) : j \in DOMAIN e} = Placed(r)
  <2>1. \A a \in DOMAIN r.branches : a \in Series(r)
    BY DEF RungWellFormed
  <2>2. ASSUME NEW j \in DOMAIN e PROVE Standing(r, e[j]) \subseteq Placed(r)
    BY <1>3 DEF Standing, Placed, Members
  <2>3. ASSUME NEW x \in Placed(r) PROVE \E j \in DOMAIN e : x \in Standing(r, e[j])
    <3>1. CASE x \in Series(r)
      BY <1>3, <3>1 DEF Standing
    <3>2. CASE x \in Members(r)
      <4>1. PICK a \in DOMAIN r.branches : x \in ToSet(r.branches[a])
        BY <3>2 DEF Members
      <4>2. PICK j \in DOMAIN e : e[j] = a
        BY <1>3, <2>1
      <4> QED
        BY <4>1, <4>2 DEF Standing
    <3> QED
      BY <3>1, <3>2 DEF Placed
  <2> QED
    BY <2>2, <2>3
<1> HIDE DEF ss, e
<1>9. /\ FlattenSeq(ss) \in Seq(Ids) /\ IsInjective(FlattenSeq(ss))
      /\ ToSet(FlattenSeq(ss)) = UNION {ToSet(ss[j]) : j \in DOMAIN ss}
  BY <1>5, <1>6, <1>7, FlattenLists
<1>10. UNION {ToSet(ss[j]) : j \in DOMAIN ss} = Named(g, UNION {Standing(r, e[j]) : j \in DOMAIN e})
  BY <1>5 DEF Named
<1> QED
  BY <1>1, <1>8, <1>9, <1>10

(* The text of a diagram that is well formed and valid names its contacts   *)
(* and its coils, each once.                                                *)
LEMMA TextLists ==
  ASSUME NEW g, GraphOK(g), Valid(g)
  PROVE  LET text == FlattenSeq(GraphToLdText(g))
         IN  /\ IsInjective(text)
             /\ ToSet(text) = {x \in Nodes(g) \ Rails : g.kind[x] \in {"contact", "coil"}}
<1> DEFINE ss == GraphToLdText(g)
<1>1. /\ g.rungs \in Seq(Rungs) /\ Len(g.rungs) \in Nat /\ DOMAIN g.rungs = 1..Len(g.rungs)
      /\ \A i \in DOMAIN g.rungs : g.rungs[i] \in Rungs /\ RungWellFormed(g, g.rungs[i])
  BY RungAt DEF GraphOK, Placement, Diagrams
<1>2. \A i \in DOMAIN g.rungs :
        /\ RungText(g, g.rungs[i]) \in Seq(Ids) /\ IsInjective(RungText(g, g.rungs[i]))
        /\ ToSet(RungText(g, g.rungs[i])) = Named(g, Placed(g.rungs[i]))
  BY <1>1, RungTextLists
<1>3. /\ DOMAIN ss = DOMAIN g.rungs
      /\ \A i \in DOMAIN g.rungs : /\ ss[i] \in Seq(Ids) /\ IsInjective(ss[i])
                                   /\ ToSet(ss[i]) = Named(g, Placed(g.rungs[i]))
  BY <1>2 DEF GraphToLdText
<1>4. ss \in Seq(Seq(Ids))
  BY <1>1, <1>2 DEF GraphToLdText
<1>5. \A i, j \in DOMAIN ss : i # j => ToSet(ss[i]) \cap ToSet(ss[j]) = {}
  <2> SUFFICES ASSUME NEW i \in DOMAIN g.rungs, NEW j \in DOMAIN g.rungs, i # j
               PROVE  ToSet(ss[i]) \cap ToSet(ss[j]) = {}
    BY <1>3
  <2>1. Placed(g.rungs[i]) \cap Placed(g.rungs[j]) = {}
    BY DEF GraphOK, Placement, RungsApart
  <2> QED
    BY <1>3, <2>1 DEF Named
<1> HIDE DEF ss
<1>6. IsInjective(FlattenSeq(ss)) /\ ToSet(FlattenSeq(ss)) = UNION {ToSet(ss[i]) : i \in DOMAIN ss}
  BY <1>3, <1>4, <1>5, FlattenLists
<1>7. ASSUME NEW x
      PROVE  x \in UNION {ToSet(ss[i]) : i \in DOMAIN ss}
               <=> x \in Nodes(g) \ Rails /\ g.kind[x] \in {"contact", "coil"}
  <2>1. x \in UNION {ToSet(ss[i]) : i \in DOMAIN ss}
          <=> \E i \in DOMAIN g.rungs : x \in Named(g, Placed(g.rungs[i]))
    BY <1>3
  <2>2. \A i \in DOMAIN g.rungs : Placed(g.rungs[i]) \subseteq Nodes(g) \ Rails
    BY <1>1 DEF RungWellFormed
  <2>3. x \in Nodes(g) =>
          \/ g.kind[x] \in {"left", "right"}
          \/ \E i \in DOMAIN g.rungs : x \in Placed(g.rungs[i])
    BY DEF Valid, StructurallyValid
  <2> QED
    BY <2>1, <2>2, <2>3 DEF Named, IsKind
<1> QED
  BY <1>6, <1>7 DEF ss

------------------------------------------------------------------------------
(* The canvas.                                                              *)

(* The graph before its first rung.                                         *)
LEMMA EmptyGraphOK == GraphOK(EmptyGraph)
<1>1. /\ EmptyGraph.kind = EmptyFn /\ EmptyGraph.wires = {} /\ EmptyGraph.rungs = <<>>
      /\ EmptyGraph = [kind |-> EmptyFn, wires |-> {}, rungs |-> <<>>]
  BY DEF EmptyGraph
<1>2. EmptyFn \in Kindings
  BY KindingIs DEF EmptyFn
<1>3. <<>> \in Seq(Rungs) /\ DOMAIN <<>> = {}
  OBVIOUS
<1>4. EmptyGraph \in Diagrams
  BY <1>1, <1>2, <1>3 DEF Diagrams
<1> QED
  BY <1>1, <1>3, <1>4 DEF GraphOK, Placement, RungsApart, WiresJoin

\* The inductive invariant: the diagram is well formed, its rungs have ids of
\* their own, one id at most is on the clipboard, so that what is pasted is a
\* node that may be pasted, and extras is a number, so that counting it shows.
CanvasInv == /\ GraphOK(graph) /\ IdsApart(graph)
             /\ \A x, y \in clipboard : x = y
             /\ extras \in Nat

(* Slots are insertion indexes.                                             *)
LEMMA SlotsAre ==
  ASSUME GraphOK(graph), NEW i \in DOMAIN graph.rungs
  PROVE  Slots(graph.rungs[i]) \subseteq Nat
<1> DEFINE r == graph.rungs[i]
           T == {j \in DOMAIN r.elems : ~IsKind(graph, r.elems[j], "coil")}
<1>1. r \in Rungs
  BY RungAt DEF GraphOK
<1>2. Len(r.elems) \in Nat /\ DOMAIN r.elems = 1..Len(r.elems)
  BY <1>1, RungIs, ElementsIn
<1>3. IsFiniteSet(DOMAIN r.elems)
  <2>1. 1 \in Int /\ Len(r.elems) \in Int
    BY <1>2
  <2>2. IsFiniteSet(1..Len(r.elems))
    BY ONLY <2>1, FS_Interval
  <2> QED
    BY <1>2, <2>2, Zenon
<1>4. T \subseteq DOMAIN r.elems
  OBVIOUS
<1>5. Slots(r) = 0..Cardinality(T)
  BY Zenon DEF Slots
<1> HIDE DEF T
<1>6. Cardinality(T) \in Nat
  BY <1>3, <1>4, FS_Subset, FS_CardinalityType
<1> QED
  BY <1>5, <1>6

(* Where no branch is found at an anchor, no rung has one.                  *)
LEMMA NoBranchAt ==
  ASSUME NEW g \in Diagrams, NEW a, ~HasBranch(g, a), NEW i \in DOMAIN g.rungs
  PROVE  a \notin DOMAIN g.rungs[i].branches
<1> DEFINE T == {j \in 1..Len(g.rungs) : a \in DOMAIN g.rungs[j].branches}
<1>1. Len(g.rungs) \in Nat /\ DOMAIN g.rungs = 1..Len(g.rungs)
  BY RungAt
<1>2. BranchRungIndex(g, a) = IF T # {} THEN Min(T) ELSE 0
  BY Zenon DEF BranchRungIndex, SelectInSeq
<1>3. T # {} => Min(T) \in T
  BY <1>1, FirstIndex
<1> QED
  BY <1>1, <1>2, <1>3 DEF HasBranch

(* A fresh id is no node.                                                   *)
LEMMA FreshAre == Fresh \subseteq Ids \ Nodes(graph)
BY DEF Fresh

(* A diagram left as it is, but for wires, is an edit too, ...              *)
LEMMA SameRungsEdited ==
  ASSUME NEW g, NEW h, h.rungs = g.rungs
  PROVE  Edited(g, h)
BY DEF Edited, IdsApart, Rewires

(* ... and one with the wires it had touches nothing.                       *)
LEMMA SameWiresSparing ==
  ASSUME NEW g, NEW h, h.wires = g.wires
  PROVE  Sparing(g, h)
BY DEF Sparing

\* What a gesture has to do.
Editing == /\ CanvasInv' /\ Rewires(graph, graph')
           /\ extras' = extras /\ graph'.wires # graph.wires => Untouched(graph, graph')

(* Every gesture composes operations that preserve the invariant and edit   *)
(* the rungs as they must.                                                  *)
LEMMA GestureOK ==
  ASSUME CanvasInv, CanvasNext
  PROVE  Editing
<1>1. GraphOK(graph)
  BY DEF CanvasInv
<1>2. \A g : GraphOK(g) /\ Edited(graph, g) /\ Sparing(graph, g) /\ Apply(g) => Editing
  BY DEF Apply, Edited, Sparing, CanvasInv, Editing
<1>3. \A g, a : GraphOK(g) /\ Edited(graph, g) /\ Sparing(graph, g) /\ EnterBranch(g, a) => Editing
  BY DEF EnterBranch, Edited, Sparing, CanvasInv, Editing
<1>4. Edited(graph, graph) /\ Sparing(graph, graph)
  BY SameRungsEdited, SameWiresSparing
<1>5. ASSUME NEW g, NEW x, GraphOK(g), Edited(graph, g), graph' = g, Extra,
              clipboard' = clipboard \/ clipboard' = {x}
       PROVE  Editing
  <2>1. \A y, z \in clipboard' : y = z
    BY <1>5 DEF CanvasInv
  <2>2. IdsApart(g) /\ Rewires(graph, g)
    BY <1>5 DEF Edited, CanvasInv
  <2>3. extras' \in Nat /\ extras' # extras
    BY <1>5 DEF CanvasInv, Extra
  <2> QED
    BY <1>5, <2>1, <2>2, <2>3 DEF CanvasInv, Editing
<1>6. \A x \in Elements : x \notin Rails
  BY DEF Elements
<1>7. \A i \in DOMAIN graph.rungs : Slots(graph.rungs[i]) \subseteq Nat
  BY <1>1, SlotsAre
<1>8. CASE PlaceContact
  BY <1>1, <1>2, <1>7, <1>8, FreshAre, AddContactOK, OthersSparing DEF PlaceContact
<1>9. CASE PlaceFb
  BY <1>1, <1>2, <1>7, <1>9, FreshAre, AddFbOK, OthersSparing DEF PlaceFb
<1>10. CASE PlaceCoil
  BY <1>1, <1>2, <1>10, FreshAre, AddCoilOK, OthersSparing DEF PlaceCoil
<1>11. CASE InsertNetwork
  <2>1. PICK r \in RungIds \ {x.id : x \in RungsOf(graph)} : Apply(AddRung(graph, r))
    BY <1>11 DEF InsertNetwork
  <2>2. \A i \in DOMAIN graph.rungs : graph.rungs[i].id # r
    BY DEF RungsOf, ToSet
  <2> QED
    BY <1>1, <1>2, <2>1, <2>2, AddRungOK, SameWiresSparing
<1>12. CASE OpenBranchAt
  <2>1. PICK i \in DOMAIN graph.rungs : \E a \in Series(graph.rungs[i]) :
          /\ IsKind(graph, a, "contact")
          /\ EnterBranch(IF HasBranch(graph, a) THEN graph ELSE OpenBranch(graph, i, a), a)
    BY <1>12 DEF OpenBranchAt
  <2>2. PICK a \in Series(graph.rungs[i]) :
          /\ IsKind(graph, a, "contact")
          /\ EnterBranch(IF HasBranch(graph, a) THEN graph ELSE OpenBranch(graph, i, a), a)
    BY <2>1
  <2>3. CASE HasBranch(graph, a)
    BY <1>1, <1>3, <1>4, <2>2, <2>3
  <2>4. CASE ~HasBranch(graph, a)
    <3>1. CanOpenBranch(graph, i, a)
      BY <1>1, <2>2, <2>4, NoBranchAt DEF CanOpenBranch, GraphOK
    <3> QED
      BY <1>1, <1>3, <2>2, <2>4, <3>1, OpenBranchOK, SameWiresSparing
  <2> QED
    BY <2>3, <2>4
<1>13. CASE OpenBranchFromMarker
  <2>1. PICK i \in DOMAIN graph.rungs : \E a \in Series(graph.rungs[i]) :
          \/ HasBranch(graph, a) /\ EnterBranch(graph, a)
          \/ \E id \in Fresh :
               /\ CanOpenBranch(graph, i, a)
               /\ EnterBranch(AddBranchContact(OpenBranch(graph, i, a), a, id), a)
    BY <1>13, Zenon DEF OpenBranchFromMarker
  <2>2. PICK a : \/ HasBranch(graph, a) /\ EnterBranch(graph, a)
                 \/ \E id \in Fresh :
                      /\ CanOpenBranch(graph, i, a)
                      /\ EnterBranch(AddBranchContact(OpenBranch(graph, i, a), a, id), a)
    BY <2>1
  <2>3. CASE EnterBranch(graph, a)
    BY <1>1, <1>3, <1>4, <2>3
  <2>4. ASSUME NEW id \in Fresh, CanOpenBranch(graph, i, a),
               EnterBranch(AddBranchContact(OpenBranch(graph, i, a), a, id), a)
        PROVE  Editing
    BY <1>1, <1>3, <2>4, FreshAre, BranchWithMemberOK, OthersSparing
  <2> QED
    BY <2>2, <2>3, <2>4
<1>14. CASE AddBranchMember
  BY <1>1, <1>2, <1>14, FreshAre, AddBranchContactOK, OthersSparing DEF AddBranchMember
<1>15. CASE CloseBranch
  BY <1>1, <1>3, <1>15, <1>4 DEF CloseBranch, LeaveBranch
<1>16. CASE CancelBranch
  BY <1>1, <1>3, <1>16, <1>4, DeleteBranchOK, OthersSparing DEF CancelBranch, LeaveBranch
<1>17. CASE DeleteOne
  BY <1>1, <1>2, <1>17, <1>6, DeletedEdited DEF DeleteOne
<1>18. CASE DeleteTwo
  BY <1>1, <1>2, <1>18, <1>6, BothDeletedEdited DEF DeleteTwo
<1>19. CASE DeleteWire
  BY <1>1, <1>19, <1>5, DisconnectWireOK, SameRungsEdited DEF DeleteWire
<1>20. CASE DropInSlot
  <2>1. PICK x \in Elements :
          /\ CanReorder(graph, x)
          /\ \E at \in Slots(graph.rungs[RungIndexOf(graph, x)]) : Apply(ReorderElement(graph, x, at))
    BY <1>20 DEF DropInSlot
  <2>2. RungIndexOf(graph, x) \in DOMAIN graph.rungs
    BY <1>1, <2>1, RungIndexIs DEF CanReorder, GraphOK
  <2> QED
    BY <1>1, <1>2, <1>7, <2>1, <2>2, ReorderElementOK, OthersSparing
<1>21. CASE DropOnElement
  BY <1>1, <1>2, <1>21, <1>6, ReplaceElementOK, DeletedEdited DEF DropOnElement
<1>22. CASE DoCopy
  BY <1>1, <1>22, <1>4, <1>5 DEF DoCopy
<1>23. CASE DoCut
  BY <1>1, <1>23, <1>5, <1>6, DeletedEdited DEF DoCut
<1>24. CASE DoPaste
  <2>1. PICK i \in DOMAIN graph.rungs, id \in Fresh, x \in clipboard :
          \E at \in 0..Len(graph.rungs[i].elems) :
            CanPaste(graph, clipboard) /\ Apply(PasteElement(graph, x, i, at, id))
    BY <1>24, Zenon DEF DoPaste
  <2>2. x \in Nodes(graph) /\ graph.kind[x] \notin {"left", "right"}
    BY <2>1 DEF CanPaste, CanvasInv
  <2>3. \A at \in 0..Len(graph.rungs[i].elems) : at \in Nat
    OBVIOUS
  <2> QED
    BY <1>1, <1>2, <2>1, <2>2, <2>3, FreshAre, PasteElementOK, OthersSparing
<1>25. CASE HandlerOps
  BY <1>1, <1>2, <1>25, DeleteRungOK, MoveRungOK, OthersSparing, SameWiresSparing DEF HandlerOps
<1> QED
  BY <1>8, <1>9, <1>10, <1>11, <1>12, <1>13, <1>14, <1>15, <1>16, <1>17, <1>18, <1>19, <1>20,
     <1>21, <1>22, <1>23, <1>24, <1>25 DEF CanvasNext

(* A new diagram has one rung.                                              *)
LEMMA CanvasStarts == CanvasInit => CanvasInv
<1>1. EmptyGraph.rungs = <<>> /\ DOMAIN EmptyGraph.rungs = {} /\ IdsApart(EmptyGraph)
  BY DEF EmptyGraph, IdsApart
<1>2. ASSUME NEW r \in RungIds
      PROVE  GraphOK(AddRung(EmptyGraph, r)) /\ IdsApart(AddRung(EmptyGraph, r))
  BY <1>1, EmptyGraphOK, AddRungOK DEF Edited
<1> QED
  BY <1>2 DEF CanvasInit, CanvasInv

(* What does not touch the canvas keeps the invariant.                      *)
LEMMA CanvasSteps == CanvasInv /\ [CanvasNext]_canvasVars => CanvasInv'
BY GestureOK DEF CanvasInv, canvasVars, Editing

(* However a diagram is edited, every reference inside it resolves.         *)
THEOREM DiagramWellFormed == CanvasSpec => []WellFormed
<1>1. CanvasInit => CanvasInv
  BY CanvasStarts
<1>2. CanvasInv /\ [CanvasNext]_canvasVars => CanvasInv'
  BY CanvasSteps
<1>3. CanvasInv => WellFormed
  <2> SUFFICES ASSUME CanvasInv PROVE WellFormed
    OBVIOUS
  <2>1. \A rung \in RungsOf(graph) : RungWellFormed(graph, rung)
    BY DEF CanvasInv, GraphOK, Placement, RungsOf, ToSet
  <2> QED
    BY <2>1 DEF CanvasInv, GraphOK, Placement, WellFormed
<1> QED
  BY <1>1, <1>2, <1>3, PTL DEF CanvasSpec

(* An edit that changes what is on a rung leaves every branch of that rung  *)
(* wired, whichever operations the gesture is made of.                      *)
THEOREM BranchesRewired == CanvasSpec => ChainsRewired
<1> DEFINE Chained ==
      \A i \in DOMAIN graph.rungs, j \in DOMAIN graph'.rungs :
        /\ graph.rungs[i].id = graph'.rungs[j].id
        /\ Contents(graph.rungs[i]) # Contents(graph'.rungs[j])
        => BranchesWired(graph', graph'.rungs[j])
<1>1. CanvasInit => CanvasInv
  BY CanvasStarts
<1>2. CanvasInv /\ [CanvasNext]_canvasVars => CanvasInv'
  BY CanvasSteps
<1>3. CanvasInv /\ [CanvasNext]_canvasVars => [Chained]_canvasVars
  <2> SUFFICES ASSUME CanvasInv, CanvasNext PROVE Chained
    OBVIOUS
  <2>1. Rewires(graph, graph')
    BY GestureOK DEF Editing
  <2> QED
    BY <2>1 DEF Rewires
<1> QED
  BY <1>1, <1>2, <1>3, PTL DEF CanvasSpec, ChainsRewired

(* An edit, with all the rewiring it does, changes the wires of one rung    *)
(* only, unless it changes what is on the others too.                       *)
THEOREM RungsUntouched == CanvasSpec => OtherRungsUntouched
<1> DEFINE Contained ==
      extras' = extras /\ graph'.wires # graph.wires =>
        \A i, k \in DOMAIN graph.rungs :
          i # k /\ graph.rungs[i] \in RungsOf(graph')
            => \/ OwnWires(graph', graph.rungs[i]) = OwnWires(graph, graph.rungs[i])
               \/ \E rung \in RungsOf(graph') :
                    /\ rung.id = graph.rungs[k].id
                    /\ OwnWires(graph', rung) = OwnWires(graph, graph.rungs[k])
<1>1. CanvasInit => CanvasInv
  BY CanvasStarts
<1>2. CanvasInv /\ [CanvasNext]_canvasVars => CanvasInv'
  BY CanvasSteps
<1>3. CanvasInv /\ [CanvasNext]_canvasVars => [Contained]_canvasVars
  <2> SUFFICES ASSUME CanvasInv, CanvasNext PROVE Contained
    OBVIOUS
  <2>1. extras' = extras /\ graph'.wires # graph.wires => Untouched(graph, graph')
    BY GestureOK DEF Editing
  <2> QED
    BY <2>1 DEF Untouched
<1> QED
  BY <1>1, <1>2, <1>3, PTL DEF CanvasSpec, OtherRungsUntouched

(* The text compiled from a diagram the validator accepts names every       *)
(* contact and every coil of the diagram exactly once, whatever the         *)
(* gestures that drew it.                                                   *)
THEOREM TextIsComplete == CanvasSpec => []TextComplete
<1>1. CanvasInit => CanvasInv
  BY CanvasStarts
<1>2. CanvasInv /\ [CanvasNext]_canvasVars => CanvasInv'
  BY CanvasSteps
<1>3. CanvasInv => TextComplete
  BY TextLists DEF CanvasInv, TextComplete, Elements
<1> QED
  BY <1>1, <1>2, <1>3, PTL DEF CanvasSpec

------------------------------------------------------------------------------
(* The document behind the canvas.                                         *)

(* What is kept by an edit, before the new diagram is pushed: everything up *)
(* to the pointer.                                                          *)
LEMMA Kept ==
  ASSUME NEW s \in Seq(Graphs), NEW p \in 1..Len(s), NEW g \in Graphs
  PROVE  LET k == SubSeq(s, 1, p) IN
         /\ k \in Seq(Graphs) /\ Len(k) = p
         /\ Append(k, g) \in Seq(Graphs) /\ Len(Append(k, g)) = p + 1
         /\ \A i \in 1..p : Append(k, g)[i] = s[i]
         /\ Append(k, g)[p + 1] = g
<1> DEFINE k == SubSeq(s, 1, p)
<1>1. k \in Seq(Graphs) /\ Len(k) = p /\ \A i \in 1..p : k[i] = s[i]
  BY Slice
<1>2. /\ Append(k, g) \in Seq(Graphs) /\ Len(Append(k, g)) = p + 1
      /\ \A i \in 1..p : Append(k, g)[i] = k[i]
      /\ Append(k, g)[p + 1] = g
  <2> HIDE DEF k
  <2> QED
    BY <1>1, AppendProperties
<1> QED
  BY <1>1, <1>2

(* Where the user stands, put behind what is remembered already: the same   *)
(* sequence as everything up to the pointer.                                *)
LEMMA Behind ==
  ASSUME NEW s \in Seq(Graphs), NEW p \in 1..Len(s)
  PROVE  LET all == Append(SubSeq(s, 1, p - 1), s[p]) IN
         /\ all \in Seq(Graphs) /\ Len(all) = p
         /\ \A i \in 1..p : all[i] = s[i]
<1> DEFINE b == SubSeq(s, 1, p - 1)
<1>1. b \in Seq(Graphs) /\ Len(b) = p - 1 /\ \A i \in 1..(p - 1) : b[i] = s[i]
  BY Slice
<1>2. s[p] \in Graphs
  BY ElementOfSeq
<1>3. /\ Append(b, s[p]) \in Seq(Graphs) /\ Len(Append(b, s[p])) = p
      /\ \A i \in 1..(p - 1) : Append(b, s[p])[i] = b[i]
      /\ Append(b, s[p])[p] = s[p]
  <2> HIDE DEF b
  <2> QED
    BY <1>1, <1>2, AppendProperties
<1> QED
  BY <1>1, <1>3

(* An edit below the limit: the new diagram follows what is kept.           *)
LEMMA EditBelowLimit ==
  ASSUME NEW s \in Seq(Graphs), NEW p \in 1..Len(s), NEW g \in Graphs, p < MaxUndo
  PROVE  LET t == Append(SubSeq(s, 1, p), g) IN
         /\ t \in Seq(Graphs) /\ Len(t) = p + 1 /\ t[p + 1] = g
         /\ SubSeq(t, 1, p) = History!Remembered(Append(SubSeq(s, 1, p - 1), s[p]))
<1> DEFINE t == Append(SubSeq(s, 1, p), g)
           all == Append(SubSeq(s, 1, p - 1), s[p])
<1>1. /\ t \in Seq(Graphs) /\ Len(t) = p + 1 /\ t[p + 1] = g
      /\ \A i \in 1..p : t[i] = s[i]
  BY Kept
<1>2. all \in Seq(Graphs) /\ Len(all) = p /\ \A i \in 1..p : all[i] = s[i]
  BY Behind
<1>3. History!Remembered(all) = all
  BY <1>2, MaxUndoAssumption DEF History!Remembered
<1>4. SubSeq(t, 1, p) = all
  <2> HIDE DEF t, all
  <2>1. /\ SubSeq(t, 1, p) \in Seq(Graphs) /\ Len(SubSeq(t, 1, p)) = p
        /\ \A i \in 1..p : SubSeq(t, 1, p)[i] = t[i]
    BY <1>1, Slice
  <2> QED
    BY <1>1, <1>2, <2>1, SeqEqual
<1> QED
  BY <1>1, <1>3, <1>4

(* An edit at the limit: the oldest diagram makes room for the new one.     *)
LEMMA EditAtLimit ==
  ASSUME NEW s \in Seq(Graphs), NEW p \in 1..Len(s), NEW g \in Graphs, p = MaxUndo
  PROVE  LET t == Tail(Append(SubSeq(s, 1, p), g)) IN
         /\ t \in Seq(Graphs) /\ Len(t) = p /\ t[p] = g
         /\ SubSeq(t, 1, p - 1) = History!Remembered(Append(SubSeq(s, 1, p - 1), s[p]))
<1> DEFINE a == Append(SubSeq(s, 1, p), g)
           t == Tail(a)
           all == Append(SubSeq(s, 1, p - 1), s[p])
<1>1. /\ a \in Seq(Graphs) /\ Len(a) = p + 1 /\ a[p + 1] = g
      /\ \A i \in 1..p : a[i] = s[i]
  BY Kept
<1>2. all \in Seq(Graphs) /\ Len(all) = p /\ \A i \in 1..p : all[i] = s[i]
  BY Behind
<1>3. /\ t \in Seq(Graphs) /\ Len(t) = p
      /\ \A i \in 1..p : t[i] = a[i + 1]
  <2> HIDE DEF a
  <2>1. a # <<>>
    BY <1>1
  <2> QED
    BY <1>1, <2>1, HeadTailProperties
<1>4. History!Remembered(all) = Tail(all)
  BY <1>2, MaxUndoAssumption DEF History!Remembered
<1>5. /\ Tail(all) \in Seq(Graphs) /\ Len(Tail(all)) = p - 1
      /\ \A i \in 1..(p - 1) : Tail(all)[i] = all[i + 1]
  <2> HIDE DEF all
  <2>1. all # <<>>
    BY <1>2
  <2> QED
    BY <1>2, <2>1, HeadTailProperties
<1>6. SubSeq(t, 1, p - 1) = Tail(all)
  <2> HIDE DEF a, t, all
  <2>1. /\ SubSeq(t, 1, p - 1) \in Seq(Graphs) /\ Len(SubSeq(t, 1, p - 1)) = p - 1
        /\ \A i \in 1..(p - 1) : SubSeq(t, 1, p - 1)[i] = t[i]
    BY <1>3, Slice
  <2>2. ASSUME NEW i \in 1..(p - 1) PROVE SubSeq(t, 1, p - 1)[i] = Tail(all)[i]
    <3>1. i \in 1..p /\ i + 1 \in 1..p
      OBVIOUS
    <3>2. t[i] = s[i + 1]
      BY <1>1, <1>3, <3>1
    <3>3. Tail(all)[i] = s[i + 1]
      BY <1>2, <1>5, <3>1
    <3> QED
      BY <2>1, <3>2, <3>3
  <2> QED
    BY <1>5, <2>1, <2>2, SeqEqual
<1>7. t[p] = g
  <2> HIDE DEF a, t
  <2> QED
    BY <1>1, <1>3
<1> QED
  BY <1>3, <1>4, <1>6, <1>7

(* Undo and redo: moving the pointer by one moves the slices by one.        *)
LEMMA StepBack ==
  ASSUME NEW s \in Seq(Graphs), NEW p \in 2..Len(s)
  PROVE  LET b == SubSeq(s, 1, p - 1) IN
         /\ b # <<>> /\ s[p - 1] = b[Len(b)]
         /\ SubSeq(s, 1, p - 2) = SubSeq(b, 1, Len(b) - 1)
         /\ SubSeq(s, p, Len(s)) = <<s[p]>> \o SubSeq(s, p + 1, Len(s))
<1> DEFINE b == SubSeq(s, 1, p - 1)
<1>1. b \in Seq(Graphs) /\ Len(b) = p - 1 /\ \A i \in 1..(p - 1) : b[i] = s[i]
  BY Slice
<1>2. b # <<>> /\ s[p - 1] = b[Len(b)]
  BY <1>1
<1>3. SubSeq(b, 1, Len(b) - 1) = SubSeq(s, 1, p - 2)
  <2>1. /\ SubSeq(s, 1, p - 2) \in Seq(Graphs) /\ Len(SubSeq(s, 1, p - 2)) = p - 2
        /\ \A i \in 1..(p - 2) : SubSeq(s, 1, p - 2)[i] = s[i]
    BY Slice
  <2>2. /\ SubSeq(b, 1, p - 2) \in Seq(Graphs) /\ Len(SubSeq(b, 1, p - 2)) = p - 2
        /\ \A i \in 1..(p - 2) : SubSeq(b, 1, p - 2)[i] = b[i]
    <3> HIDE DEF b
    <3> QED
      BY <1>1, Slice
  <2> HIDE DEF b
  <2>3. SubSeq(b, 1, p - 2) = SubSeq(s, 1, p - 2)
    BY <1>1, <2>1, <2>2, SeqEqual
  <2> QED
    BY <1>1, <2>3
<1>4. SubSeq(s, p, Len(s)) = <<s[p]>> \o SubSeq(s, p + 1, Len(s))
  BY SubSeqRecursiveFirst
<1> QED
  BY <1>2, <1>3, <1>4

(* The same for redo.                                                       *)
LEMMA StepForward ==
  ASSUME NEW s \in Seq(Graphs), NEW p \in 1..(Len(s) - 1)
  PROVE  LET f == SubSeq(s, p + 1, Len(s)) IN
         /\ f # <<>> /\ s[p + 1] = Head(f)
         /\ SubSeq(s, p + 2, Len(s)) = Tail(f)
         /\ SubSeq(s, 1, p) = Append(SubSeq(s, 1, p - 1), s[p])
<1> DEFINE f == SubSeq(s, p + 1, Len(s))
<1>1. f \in Seq(Graphs) /\ Len(f) = Len(s) - p
  BY Slice
<1>2. f # <<>>
  <2>1. Len(f) # 0
    <3> HIDE DEF f
    <3> QED
      BY <1>1, LenProperties
  <2> QED
    BY <2>1, EmptySeq
<1>3. Head(f) = s[p + 1] /\ Tail(f) = SubSeq(s, p + 2, Len(s))
  <2>1. p + 1 \in 1..Len(s) /\ Len(s) \in (p + 1)..Len(s) /\ (p + 1) + 1 = p + 2
    BY LenProperties
  <2>2. Head(f) = s[p + 1] /\ Tail(f) = SubSeq(s, (p + 1) + 1, Len(s))
    BY <2>1, HeadTailOfSubSeq
  <2> QED
    BY <2>1, <2>2
<1>4. SubSeq(s, 1, p) = Append(SubSeq(s, 1, p - 1), s[p])
  <2>1. /\ SubSeq(s, 1, p) \in Seq(Graphs) /\ Len(SubSeq(s, 1, p)) = p
        /\ \A i \in 1..p : SubSeq(s, 1, p)[i] = s[i]
    BY Slice
  <2> QED
    BY <2>1, Behind, SeqEqual
<1> QED
  BY <1>2, <1>3, <1>4

(* The pointer stays inside the snapshots, which stay inside the limit.     *)
LEMMA InitHistoryOK == Init => HistoryOK
<1> SUFFICES ASSUME Init PROVE HistoryOK
  OBVIOUS
<1>1. PICK g \in Graphs : snapshots = <<g>>
  BY DEF Init
<1>2. snapshots \in Seq(Graphs) /\ Len(snapshots) = 1
  BY <1>1
<1> QED
  <2>1. pointer = 1 /\ dirty = FALSE
    BY DEF Init
  <2>2. pointer \in 1..Len(snapshots) /\ Len(snapshots) <= MaxUndo
    BY <1>2, <2>1, MaxUndoAssumption
  <2> QED
    BY <1>2, <2>1, <2>2, Zenon DEF HistoryOK

(* An edit, as the lemmas above see it. *)
LEMMA EditSteps ==
  ASSUME HistoryOK, NEW g \in Graphs, Edit(g)
  PROVE  /\ snapshots' \in Seq(Graphs) /\ pointer' = Len(snapshots')
         /\ pointer' \in Nat \ {0} /\ pointer' <= MaxUndo
         /\ snapshots'[pointer'] = g
         /\ SubSeq(snapshots', 1, pointer' - 1)
              = History!Remembered(Append(SubSeq(snapshots, 1, pointer - 1), snapshots[pointer]))
<1> DEFINE s == snapshots
           p == pointer
<1>1. s \in Seq(Graphs) /\ p \in 1..Len(s) /\ p \in Nat /\ Len(s) <= MaxUndo /\ Len(s) \in Nat
  BY LenProperties DEF HistoryOK
<1>2. Len(SubSeq(s, 1, p)) = p
  BY <1>1, Slice
<1>3. PushSnapshot(SubSeq(s, 1, p), g)
  BY DEF Edit
<1>4. CASE p < MaxUndo
  <2>1. snapshots' = Append(SubSeq(s, 1, p), g) /\ pointer' = p + 1
    BY <1>1, <1>2, <1>3, <1>4, MaxUndoAssumption DEF PushSnapshot
  <2>2. (p + 1) - 1 = p
    BY <1>1
  <2>3. /\ snapshots' \in Seq(Graphs) /\ Len(snapshots') = p + 1 /\ snapshots'[p + 1] = g
        /\ SubSeq(snapshots', 1, p) = History!Remembered(Append(SubSeq(s, 1, p - 1), s[p]))
    BY <1>1, <1>4, <2>1, EditBelowLimit
  <2>4. pointer' - 1 = p /\ pointer' \in Nat \ {0} /\ pointer' <= MaxUndo
    BY <1>1, <1>4, <2>1, MaxUndoAssumption
  <2> QED
    BY <2>1, <2>3, <2>4
<1>5. CASE p = MaxUndo
  <2>1. snapshots' = Tail(Append(SubSeq(s, 1, p), g)) /\ pointer' = p
    <3>1. Len(SubSeq(s, 1, p)) + 1 > MaxUndo
      BY <1>1, <1>2, <1>5
    <3> QED
      BY <1>3, <3>1, Zenon DEF PushSnapshot
  <2>2. /\ snapshots' \in Seq(Graphs) /\ Len(snapshots') = p /\ snapshots'[p] = g
        /\ SubSeq(snapshots', 1, p - 1) = History!Remembered(Append(SubSeq(s, 1, p - 1), s[p]))
    BY <1>1, <1>5, <2>1, EditAtLimit
  <2>3. p \in Nat \ {0} /\ p <= MaxUndo
    BY <1>1, <1>5, MaxUndoAssumption
  <2> HIDE DEF s
  <2>4. /\ pointer' = Len(snapshots') /\ snapshots'[pointer'] = g
        /\ SubSeq(snapshots', 1, pointer' - 1)
             = History!Remembered(Append(SubSeq(s, 1, p - 1), s[p]))
    BY <2>1, <2>2, Zenon
  <2> QED
    BY <2>1, <2>2, <2>3, <2>4, Zenon DEF s
<1> QED
  BY <1>1, <1>4, <1>5, MaxUndoAssumption

(* The steps that leave the snapshots and the pointer alone. *)
Elsewhere == Save \/ Written \/ WriteFails \/ Compile \/ Compiled

(* Saving and compiling leave the snapshots and the pointer alone; they    *)
(* can only clear the dirty mark.                                          *)
LEMMA ModelAlone ==
  ASSUME Elsewhere \/ UNCHANGED vars
  PROVE  /\ snapshots' = snapshots /\ pointer' = pointer
         /\ dirty' = dirty \/ dirty' = FALSE
<1>1. CASE Written \/ WriteFails
  <2>1. UNCHANGED model /\ (dirty' = dirty \/ dirty' = FALSE)
    BY <1>1, Zenon DEF Written, WriteFails
  <2> QED
    BY <2>1 DEF model
<1>2. CASE Save \/ Compile \/ Compiled \/ UNCHANGED vars
  BY <1>2 DEF Save, Compile, Compiled, model, vars
<1> QED
  BY <1>1, <1>2 DEF Elsewhere

(* Every step keeps the pointer inside the snapshots and the limit.         *)
LEMMA HistoryStep == HistoryOK /\ [Next]_vars => HistoryOK'
<1> SUFFICES ASSUME HistoryOK, [Next]_vars PROVE HistoryOK'
  OBVIOUS
<1>1. ASSUME NEW g \in Graphs, Edit(g) PROVE HistoryOK'
  <2>1. dirty' \in BOOLEAN
    BY <1>1 DEF Edit
  <2> QED
    BY <1>1, <2>1, EditSteps DEF HistoryOK
<1>2. CASE Undo
  BY <1>2 DEF Undo, MovePointer, HistoryOK
<1>3. CASE Redo
  BY <1>3 DEF Redo, MovePointer, HistoryOK
<1>4. CASE Elsewhere \/ UNCHANGED vars
  BY <1>4, ModelAlone DEF HistoryOK
<1> QED
  BY <1>1, <1>2, <1>3, <1>4 DEF Next, Elsewhere

(* The pointer always names a snapshot and the limit is never exceeded, for *)
(* any sequence of edits, undos, redos and saves.                           *)
THEOREM HistoryIsOK == Spec => []HistoryOK
  BY InitHistoryOK, HistoryStep, PTL DEF Spec

(* Every step of the document is one of the undo history, or leaves it.     *)
LEMMA UndoStep == HistoryOK /\ [Next]_vars =>
  [History!Next]_<<SubSeq(snapshots, 1, pointer - 1), snapshots[pointer],
                   SubSeq(snapshots, pointer + 1, Len(snapshots))>>
<1> DEFINE s == snapshots
           p == pointer
<1> SUFFICES ASSUME HistoryOK, [Next]_vars
             PROVE  \/ History!Next
                    \/ /\ SubSeq(snapshots, 1, pointer - 1)' = SubSeq(snapshots, 1, pointer - 1)
                       /\ (snapshots[pointer])' = snapshots[pointer]
                       /\ SubSeq(snapshots, pointer + 1, Len(snapshots))'
                            = SubSeq(snapshots, pointer + 1, Len(snapshots))
  OBVIOUS
<1>0. s \in Seq(Graphs) /\ p \in 1..Len(s) /\ Len(s) \in Nat /\ p \in Nat
  BY LenProperties DEF HistoryOK
<1>1. ASSUME NEW g \in Graphs, Edit(g) PROVE History!Edit
  <2>1. SubSeq(snapshots', pointer' + 1, Len(snapshots')) = <<>>
    BY <1>1, EditSteps, SubSeqEmpty
  <2> QED
    BY <1>1, <2>1, EditSteps DEF History!Edit
<1>2. ASSUME Undo PROVE History!Undo
  <2>1. snapshots' = s /\ pointer' = p - 1 /\ p \in 2..Len(s) /\ (p - 1) - 1 = p - 2 /\ (p - 1) + 1 = p
    BY <1>0, <1>2 DEF Undo, MovePointer
  <2>2. /\ SubSeq(s, 1, p - 1) # <<>>
        /\ s[p - 1] = SubSeq(s, 1, p - 1)[Len(SubSeq(s, 1, p - 1))]
        /\ SubSeq(s, 1, p - 2) = SubSeq(SubSeq(s, 1, p - 1), 1, Len(SubSeq(s, 1, p - 1)) - 1)
        /\ SubSeq(s, p, Len(s)) = <<s[p]>> \o SubSeq(s, p + 1, Len(s))
    BY <1>0, <2>1, StepBack
  <2> QED
    BY <2>1, <2>2 DEF History!Undo
<1>3. ASSUME Redo PROVE History!Redo
  <2>1. /\ snapshots' = s /\ pointer' = p + 1 /\ p \in 1..(Len(s) - 1)
        /\ (p + 1) - 1 = p /\ (p + 1) + 1 = p + 2
    BY <1>0, <1>3 DEF Redo, MovePointer
  <2>2. /\ SubSeq(s, p + 1, Len(s)) # <<>> /\ s[p + 1] = Head(SubSeq(s, p + 1, Len(s)))
        /\ SubSeq(s, p + 2, Len(s)) = Tail(SubSeq(s, p + 1, Len(s)))
        /\ SubSeq(s, 1, p) = Append(SubSeq(s, 1, p - 1), s[p])
    BY <1>0, <2>1, StepForward
  <2> QED
    BY <2>1, <2>2 DEF History!Redo
<1>4. CASE Elsewhere \/ UNCHANGED vars
  <2>1. snapshots' = snapshots /\ pointer' = pointer
    BY <1>4, ModelAlone
  <2> QED
    BY <2>1
<1> QED
  BY <1>1, <1>2, <1>3, <1>4 DEF Next, Elsewhere, History!Next

(* The snapshots and the pointer implement the undo history: undo goes back *)
(* to exactly the diagram before, redo to the one undone, and an edit loses *)
(* at most the oldest diagram and what was undone.                          *)
THEOREM HistoryRefines == Spec => UndoIsExact
<1>1. Init => History!Init
  <2> SUFFICES ASSUME Init PROVE History!Init
    OBVIOUS
  <2>1. PICK g \in Graphs : snapshots = <<g>>
    BY DEF Init
  <2>2. Len(snapshots) = 1 /\ snapshots[1] = g /\ pointer = 1
    BY <2>1 DEF Init
  <2>3. SubSeq(snapshots, 1, pointer - 1) = <<>> /\ SubSeq(snapshots, pointer + 1, Len(snapshots)) = <<>>
    BY <2>2, SubSeqEmpty
  <2> QED
    BY <2>2, <2>3 DEF History!Init
<1> QED
  BY <1>1, HistoryIsOK, UndoStep, PTL DEF Spec, UndoIsExact, History!Spec

------------------------------------------------------------------------------
(* The function block diagram.                                              *)

\* What an operation may do to a diagram: it stays one, and as long as no two
\* nodes share an id its wires go on to resolve.
FbdOK(g)     == g \in FbdGraphs /\ IdsDiffer(g)
Serves(g, h) == h \in FbdGraphs /\ (IdsDiffer(g) => IdsDiffer(h) /\ (AllResolve(g) => AllResolve(h)))

(* The lists of a diagram.                                                  *)
LEMMA FbdGraphIs ==
  ASSUME NEW g, g \in FbdGraphs
  PROVE  /\ g = [nodes |-> g.nodes, edges |-> g.edges]
         /\ g.nodes \in Seq(FbdNodes) /\ g.edges \in Seq(FbdEdges)
         /\ Len(g.nodes) \in Nat /\ DOMAIN g.nodes = 1..Len(g.nodes)
         /\ Len(g.edges) \in Nat /\ DOMAIN g.edges = 1..Len(g.edges)
         /\ ToSet(g.nodes) = {g.nodes[i] : i \in DOMAIN g.nodes} /\ ToSet(g.nodes) \subseteq FbdNodes
         /\ ToSet(g.edges) \subseteq FbdEdges
         /\ \A i \in DOMAIN g.nodes : g.nodes[i] \in FbdNodes
         /\ \A i \in DOMAIN g.edges : g.edges[i] \in FbdEdges
<1>1. /\ g = [nodes |-> g.nodes, edges |-> g.edges]
      /\ g.nodes \in Seq(FbdNodes) /\ g.edges \in Seq(FbdEdges)
  BY DEF FbdGraphs
<1>2. ToSet(g.nodes) = {g.nodes[i] : i \in DOMAIN g.nodes}
  BY DEF ToSet
<1> QED
  BY <1>1, <1>2, ElementsIn

(* A node in the list has a type and an id of its kind.                     *)
LEMMA NodeFields ==
  ASSUME NEW n \in FbdNodes
  PROVE  /\ n.id \in FbdIds /\ n.type \in Types
         /\ \A t : (t \in Gates <=> n.type \in Gates) /\ t \in Types =>
              [n EXCEPT !.type = t] \in FbdNodes
         /\ \A t : [n EXCEPT !.type = t].id = n.id /\ [n EXCEPT !.type = t].type = t
<1>1. CASE n \in [id : GateIds, type : Gates]
  BY <1>1, PinsAssumption DEF FbdNodes, FbdIds, Types
<1>2. CASE n \in [id : BlockIds, type : Blocks]
  BY <1>2, PinsAssumption DEF FbdNodes, FbdIds, Types
<1> QED
  BY <1>1, <1>2 DEF FbdNodes

(* The first and the last place of an id are places of it.                  *)
LEMMA PlacesIn ==
  ASSUME NEW g, g \in FbdGraphs, NEW x \in NodeIds(g)
  PROVE  /\ Max(Places(g, x)) \in Places(g, x) /\ Min(Places(g, x)) \in Places(g, x)
         /\ \A i \in Places(g, x) : i \in DOMAIN g.nodes /\ g.nodes[i].id = x
<1>1. PICK n \in ToSet(g.nodes) : n.id = x
  BY DEF NodeIds
<1>2. PICK i \in DOMAIN g.nodes : n = g.nodes[i]
  BY <1>1 DEF ToSet
<1>3. Places(g, x) # {} /\ Places(g, x) \subseteq 1..Len(g.nodes) /\ Len(g.nodes) \in Nat
  BY <1>1, <1>2, FbdGraphIs DEF Places
<1> QED
  BY <1>3, FirstIndex, LastIndex DEF Places

(* The type of a node that alone has its id is the one it was given, by     *)
(* either lookup.                                                           *)
LEMMA TypeIs ==
  ASSUME NEW g, FbdOK(g), NEW i \in DOMAIN g.nodes
  PROVE  /\ g.nodes[i].id \in NodeIds(g)
         /\ TypeOf(g, g.nodes[i].id) = g.nodes[i].type /\ FoundType(g, g.nodes[i].id) = g.nodes[i].type
<1> DEFINE x == g.nodes[i].id
<1>1. x \in NodeIds(g)
  BY DEF NodeIds, ToSet
<1>2. \A j \in Places(g, x) : j = i
  BY DEF Places, FbdOK, IdsDiffer
<1>3. Max(Places(g, x)) = i /\ Min(Places(g, x)) = i
  BY <1>1, <1>2, PlacesIn DEF FbdOK
<1> QED
  BY <1>1, <1>3 DEF TypeOf, FoundType

(* Whoever has an id is found under it.                                     *)
LEMMA NodeIs ==
  ASSUME NEW g, g \in FbdGraphs, NEW x \in NodeIds(g)
  PROVE  /\ \E i \in DOMAIN g.nodes :
              /\ g.nodes[i].id = x /\ TypeOf(g, x) = g.nodes[i].type
              /\ g.nodes[i] \in ToSet(g.nodes)
         /\ x \in FbdIds /\ TypeOf(g, x) \in Types /\ FoundType(g, x) \in Types
<1> DEFINE i == Max(Places(g, x))
           j == Min(Places(g, x))
<1>1. /\ i \in DOMAIN g.nodes /\ g.nodes[i].id = x
      /\ j \in DOMAIN g.nodes /\ g.nodes[j].id = x
  BY PlacesIn
<1> HIDE DEF i, j
<1>2. /\ g.nodes[i].id \in FbdIds /\ g.nodes[i].type \in Types /\ g.nodes[j].type \in Types
      /\ g.nodes[i] \in ToSet(g.nodes)
  <2>1. g.nodes[i] \in FbdNodes /\ g.nodes[j] \in FbdNodes
    BY <1>1, FbdGraphIs
  <2>2. g.nodes[i] \in ToSet(g.nodes)
    BY <1>1 DEF ToSet
  <2> QED
    BY <1>1, <2>1, <2>2, NodeFields
<1>3. TypeOf(g, x) = g.nodes[i].type /\ FoundType(g, x) = g.nodes[j].type
  BY DEF TypeOf, FoundType, i, j
<1> QED
  BY <1>1, <1>2, <1>3

(* A diagram with other nodes.                                              *)
LEMMA NodesChanged ==
  ASSUME NEW g, g \in FbdGraphs, NEW n \in Seq(FbdNodes), NEW h, h = [g EXCEPT !.nodes = n]
  PROVE  h \in FbdGraphs /\ h.nodes = n /\ h.edges = g.edges
BY FbdGraphIs DEF FbdGraphs

(* The same for its wires.                                                  *)
LEMMA EdgesChanged ==
  ASSUME NEW g, g \in FbdGraphs, NEW e \in Seq(FbdEdges), NEW h, h = [g EXCEPT !.edges = e]
  PROVE  h \in FbdGraphs /\ h.nodes = g.nodes /\ h.edges = e
BY FbdGraphIs DEF FbdGraphs

(* A wire resolves as long as its ends are there and of the same type.      *)
LEMMA StillResolves ==
  ASSUME NEW g, NEW h, NEW e, Resolves(g, e), e.src \in NodeIds(h), e.dst \in NodeIds(h),
         TypeOf(h, e.src) = TypeOf(g, e.src), TypeOf(h, e.dst) = TypeOf(g, e.dst)
  PROVE  Resolves(h, e)
BY DEF Resolves, OutputsOf, InputsOf

(* Wires may be taken away.                                                 *)
LEMMA EdgesDropped ==
  ASSUME NEW g, g \in FbdGraphs, NEW gone
  PROVE  /\ WithoutEdges(g, gone) \in FbdGraphs /\ WithoutEdges(g, gone).nodes = g.nodes
         /\ ToSet(WithoutEdges(g, gone).edges) = ToSet(g.edges) \ gone
         /\ Serves(g, WithoutEdges(g, gone))
<1> DEFINE d == Drop(g.edges, gone)
           h == WithoutEdges(g, gone)
<1>1. d \in Seq(FbdEdges) /\ ToSet(d) = ToSet(g.edges) \ gone
  BY FbdGraphIs, DropLists
<1>2. h = [g EXCEPT !.edges = d]
  BY DEF WithoutEdges
<1> HIDE DEF d, h
<1>3. h \in FbdGraphs /\ h.nodes = g.nodes /\ h.edges = d
  BY <1>1, <1>2, EdgesChanged
<1>4. IdsDiffer(g) => IdsDiffer(h)
  BY <1>3 DEF IdsDiffer
<1>5. ASSUME NEW e, Resolves(g, e) PROVE Resolves(h, e)
  BY <1>3, <1>5 DEF Resolves, NodeIds, OutputsOf, InputsOf, TypeOf, Places
<1>6. AllResolve(g) => AllResolve(h)
  BY <1>1, <1>3, <1>5 DEF AllResolve
<1> QED
  BY <1>1, <1>3, <1>4, <1>6 DEF h, Serves

(* A filter keeps ids apart.                                                *)
LEMMA IdsDifferKept ==
  ASSUME NEW g, g \in FbdGraphs, IdsDiffer(g), NEW gone, NEW h, h.nodes = Drop(g.nodes, gone)
  PROVE  IdsDiffer(h)
<1> DEFINE d == Drop(g.nodes, gone)
<1>1. g.nodes \in Seq(FbdNodes)
  BY FbdGraphIs
<1>2. IsInjective(g.nodes)
  BY DEF IdsDiffer, IsInjective
<1>3. \A m, n \in ToSet(g.nodes) : m.id = n.id => m = n
  BY DEF IdsDiffer, ToSet
<1>4. d \in Seq(FbdNodes) /\ ToSet(d) = ToSet(g.nodes) \ gone /\ IsInjective(d)
  BY <1>1, <1>2, DropLists
<1> HIDE DEF d
<1>5. \A i \in DOMAIN d : d[i] \in ToSet(g.nodes)
  BY <1>4 DEF ToSet
<1>6. h.nodes = d
  BY DEF d
<1> QED
  BY <1>3, <1>4, <1>5, <1>6 DEF IdsDiffer, IsInjective

(* deleteElement takes the wires of the nodes with them.                    *)
LEMMA DeleteElementsOK ==
  ASSUME NEW g, g \in FbdGraphs, NEW gone
  PROVE  Serves(g, DeleteElements(g, gone))
<1> DEFINE N == {n \in ToSet(g.nodes) : n.id \in gone}
           E == {e \in ToSet(g.edges) : e.src \in gone \/ e.dst \in gone}
           d == Drop(g.nodes, N)
           k == WithoutNodes(g, gone)
           h == WithoutEdges(k, E)
<1>1. d \in Seq(FbdNodes) /\ ToSet(d) = ToSet(g.nodes) \ N
  BY FbdGraphIs, DropLists
<1>2. k = [g EXCEPT !.nodes = d]
  BY DEF WithoutNodes
<1> HIDE DEF d, k
<1>3. k \in FbdGraphs /\ k.nodes = d /\ k.edges = g.edges
  BY <1>1, <1>2, NodesChanged
<1> HIDE DEF E
<1>4. h \in FbdGraphs /\ h.nodes = d /\ ToSet(h.edges) = ToSet(g.edges) \ E
  BY <1>3, EdgesDropped
<1>5. DeleteElements(g, gone) = h
  BY DEF DeleteElements, E, k
<1> HIDE DEF h
<1>6. IdsDiffer(g) => IdsDiffer(h)
  BY <1>4, IdsDifferKept DEF d
<1>7. ASSUME IdsDiffer(g), NEW x \in NodeIds(g), x \notin gone
      PROVE  x \in NodeIds(h) /\ TypeOf(h, x) = TypeOf(g, x)
  <2>1. PICK i \in DOMAIN g.nodes :
          /\ g.nodes[i].id = x /\ TypeOf(g, x) = g.nodes[i].type
          /\ g.nodes[i] \in ToSet(g.nodes)
    BY NodeIs
  <2>2. g.nodes[i] \in ToSet(d)
    BY <1>1, <1>7, <2>1
  <2>3. PICK j \in DOMAIN d : d[j] = g.nodes[i]
    BY <2>2 DEF ToSet
  <2>4. FbdOK(h) /\ j \in DOMAIN h.nodes /\ h.nodes[j] = g.nodes[i]
    BY <1>4, <1>6, <1>7, <2>3 DEF FbdOK
  <2> QED
    BY <2>1, <2>4, TypeIs
<1>8. ASSUME IdsDiffer(g), AllResolve(g), NEW e \in ToSet(h.edges)
      PROVE  Resolves(h, e)
  <2>1. Resolves(g, e) /\ e.src \notin gone /\ e.dst \notin gone
    BY <1>4, <1>8 DEF AllResolve, E
  <2>2. e.src \in NodeIds(g) /\ e.dst \in NodeIds(g)
    BY <2>1 DEF Resolves
  <2> QED
    BY <1>7, <1>8, <2>1, <2>2, StillResolves
<1> QED
  BY <1>4, <1>5, <1>6, <1>8 DEF Serves, AllResolve

\* The recursion of Deletions, for a candidate function f ...
AfterDef(g, gone, wires, k, f) ==
  IF k = 0 THEN DeleteElements(g, gone)
  ELSE LET e == g.edges[k]
           h == f[k - 1]
       IN  IF e \in wires /\ StillThere(h, e) THEN DisconnectPin(h, e.src, e.out) ELSE h
\* ... that satisfies it up to m.
AftersUpto(g, gone, wires, m, f) == f = [k \in 0..m |-> AfterDef(g, gone, wires, k, f)]

(* That recursion has a solution.                                           *)
LEMMA AfterExists ==
  ASSUME NEW g, NEW gone, NEW wires, NEW m \in Nat
  PROVE  \E f : AftersUpto(g, gone, wires, m, f)
<1> USE DEF AftersUpto
<1> DEFINE T == {k \in Nat : \E f : f = [n \in 0..k |-> AfterDef(g, gone, wires, n, f)]}
<1>1. 0 \in T
  <2> DEFINE f == [n \in 0..0 |-> DeleteElements(g, gone)]
  <2>1. f = [n \in 0..0 |-> AfterDef(g, gone, wires, n, f)]
    BY DEF AfterDef
  <2> QED
    BY <2>1
<1>2. ASSUME NEW k \in Nat, k \in T
      PROVE  k + 1 \in T
  <2>1. PICK f : f = [n \in 0..k |-> AfterDef(g, gone, wires, n, f)]
    BY <1>2
  <2> DEFINE h == [n \in 0..(k + 1) |-> IF n = k + 1 THEN AfterDef(g, gone, wires, n, f) ELSE f[n]]
  <2>2. \A n \in 0..(k + 1) : h[n] = AfterDef(g, gone, wires, n, h)
    <3> TAKE n \in 0..(k + 1)
    <3>1. n # 0 => h[n - 1] = f[n - 1]
      OBVIOUS
    <3>2. AfterDef(g, gone, wires, n, h) = AfterDef(g, gone, wires, n, f)
      BY <3>1 DEF AfterDef
    <3>3. n # k + 1 => f[n] = AfterDef(g, gone, wires, n, f)
      BY <2>1, n \in 0..k \/ n = k + 1
    <3> QED
      BY <3>2, <3>3
  <2>3. h = [n \in 0..(k + 1) |-> AfterDef(g, gone, wires, n, h)]
    BY <2>2
  <2>4. \E e : e = [n \in 0..(k + 1) |-> AfterDef(g, gone, wires, n, e)]
    <3> HIDE DEF h
    <3> QED
      BY <2>3
  <2> QED
    BY <2>4
<1> QED
  BY <1>1, <1>2, NaturalsIn

(* onDelete takes away nodes with their wires, and wires.                   *)
LEMMA DeletedOK ==
  ASSUME NEW g, g \in FbdGraphs, NEW gone, NEW wires
  PROVE  Serves(g, Deletions(g, gone, wires)[Len(g.edges)])
<1> DEFINE after[k \in 0..Len(g.edges)] ==
             IF k = 0 THEN DeleteElements(g, gone)
             ELSE LET e == g.edges[k]
                      h == after[k - 1]
                  IN  IF e \in wires /\ StillThere(h, e) THEN DisconnectPin(h, e.src, e.out) ELSE h
           T == {k \in Nat : k <= Len(g.edges) => Serves(g, after[k])}
<1>1. Deletions(g, gone, wires) = after
  BY Zenon DEF Deletions
<1>2. Len(g.edges) \in Nat
  BY FbdGraphIs
<1>3. after = [k \in 0..Len(g.edges) |-> AfterDef(g, gone, wires, k, after)]
  <2> DEFINE E(f) == AftersUpto(g, gone, wires, Len(g.edges), f)
  <2>1. \E f : E(f)
    BY <1>2, AfterExists, Zenon
  <2>2. E(CHOOSE f : E(f))
    BY <2>1, Zenon
  <2>3. after = CHOOSE f : E(f)
    BY Zenon DEF AfterDef, AftersUpto
  <2> HIDE DEF after
  <2> QED
    BY <2>2, <2>3, Zenon DEF AftersUpto
<1> HIDE DEF after
<1>4. \A k \in 0..Len(g.edges) : after[k] = AfterDef(g, gone, wires, k, after)
  BY <1>3, Zenon
<1>5. 0 \in T
  <2>1. after[0] = DeleteElements(g, gone)
    BY <1>2, <1>4 DEF AfterDef
  <2> QED
    BY <2>1, DeleteElementsOK
<1>6. ASSUME NEW k \in Nat, k \in T
      PROVE  k + 1 \in T
  <2> SUFFICES ASSUME k + 1 <= Len(g.edges) PROVE Serves(g, after[k + 1])
    OBVIOUS
  <2> DEFINE e == g.edges[k + 1]
             h == after[k]
  <2>1. Serves(g, h)
    BY <1>2, <1>6
  <2>2. after[k + 1] = h \/ after[k + 1] = DisconnectPin(h, e.src, e.out)
    <3>1. k + 1 \in 0..Len(g.edges) /\ k + 1 # 0 /\ (k + 1) - 1 = k
      BY <1>2
    <3>2. after[k + 1] = AfterDef(g, gone, wires, k + 1, after)
      BY <1>4, <3>1
    <3> QED
      BY <3>1, <3>2 DEF AfterDef
  <2> HIDE DEF h, e
  <2>3. h \in FbdGraphs
    BY <2>1 DEF Serves
  <2>4. Serves(h, DisconnectPin(h, e.src, e.out))
    BY <2>3, EdgesDropped DEF DisconnectPin
  <2> QED
    BY <2>1, <2>2, <2>3, <2>4 DEF Serves
<1>7. Nat \subseteq T
  <2> HIDE DEF T
  <2> QED
    BY <1>5, <1>6, NaturalsIn
<1> QED
  BY <1>1, <1>2, <1>7

(* A new node with an id of its own is in nobody's way.                     *)
LEMMA CreateOK ==
  ASSUME NEW g, g \in FbdGraphs, NEW n \in FbdNodes, NEW h, h = [g EXCEPT !.nodes = Append(@, n)]
  PROVE  h \in FbdGraphs /\ (IdsDiffer(g) /\ IdsDiffer(h) /\ AllResolve(g) => AllResolve(h))
<1> DEFINE s == Append(g.nodes, n)
<1>1. /\ s \in Seq(FbdNodes) /\ DOMAIN s = DOMAIN g.nodes \cup {Len(g.nodes) + 1}
      /\ \A i \in DOMAIN g.nodes : s[i] = g.nodes[i]
  BY FbdGraphIs
<1>2. s \in Seq(FbdNodes) /\ h = [g EXCEPT !.nodes = s]
  BY <1>1
<1> HIDE DEF s
<1>3. h \in FbdGraphs /\ h.nodes = s /\ h.edges = g.edges
  BY ZenonT(60), <1>2, NodesChanged
<1>4. ASSUME IdsDiffer(g), IdsDiffer(h), NEW x \in NodeIds(g)
      PROVE  x \in NodeIds(h) /\ TypeOf(h, x) = TypeOf(g, x)
  <2>1. PICK i \in DOMAIN g.nodes : g.nodes[i].id = x /\ TypeOf(g, x) = g.nodes[i].type
    BY NodeIs
  <2>2. FbdOK(h) /\ i \in DOMAIN h.nodes /\ h.nodes[i] = g.nodes[i]
    BY <1>1, <1>3, <1>4, <2>1 DEF FbdOK
  <2> QED
    BY <2>1, <2>2, TypeIs
<1>5. ASSUME IdsDiffer(g), IdsDiffer(h), AllResolve(g), NEW e \in ToSet(h.edges)
      PROVE  Resolves(h, e)
  <2>1. Resolves(g, e) /\ e.src \in NodeIds(g) /\ e.dst \in NodeIds(g)
    BY <1>3, <1>5 DEF AllResolve, Resolves
  <2> QED
    BY <1>4, <1>5, <2>1, StillResolves
<1> QED
  BY <1>3, <1>5 DEF AllResolve

(* A wire that connectPins accepts resolves.                                *)
LEMMA ConnectOK ==
  ASSUME NEW g, g \in FbdGraphs, NEW a \in NodeIds(g), NEW b \in NodeIds(g),
         NEW p \in Pins, NEW q \in Pins, NEW w \in WireIds, CanConnect(g, a, p, b, q)
  PROVE  Serves(g, [g EXCEPT !.edges =
                     Append(@, [id |-> w, src |-> a, out |-> p, dst |-> b, in |-> q])])
<1> DEFINE e == [id |-> w, src |-> a, out |-> p, dst |-> b, in |-> q]
           s == Append(g.edges, e)
           h == [g EXCEPT !.edges = s]
<1>1. a \in FbdIds /\ b \in FbdIds
  BY NodeIs
<1>2. e \in FbdEdges
  BY <1>1 DEF FbdEdges
<1>3. IdsDiffer(g) => Resolves(g, e)
  <2> SUFFICES ASSUME IdsDiffer(g) PROVE Resolves(g, e)
    OBVIOUS
  <2>1. \A x \in NodeIds(g) : FoundType(g, x) = TypeOf(g, x)
    <3> TAKE x \in NodeIds(g)
    <3>1. PICK i \in DOMAIN g.nodes : g.nodes[i].id = x
      BY NodeIs
    <3> QED
      BY <3>1, TypeIs DEF FbdOK
  <2>2. p \in OutputsOf(g, a) /\ q \in InputsOf(g, b)
    BY <2>1 DEF CanConnect, OutputsOf, InputsOf
  <2> QED
    BY <2>2 DEF Resolves
<1> HIDE DEF e
<1>4. s \in Seq(FbdEdges) /\ ToSet(s) = ToSet(g.edges) \cup {e}
  BY <1>2, FbdGraphIs, AppendLists
<1> HIDE DEF s
<1>5. s \in Seq(FbdEdges) /\ h = [g EXCEPT !.edges = s]
  BY <1>4
<1> HIDE DEF h
<1>6. h \in FbdGraphs /\ h.nodes = g.nodes /\ h.edges = s
  BY <1>5, EdgesChanged
<1>7. IdsDiffer(g) => IdsDiffer(h)
  BY <1>6 DEF IdsDiffer
<1>8. \A f : Resolves(g, f) => Resolves(h, f)
  BY <1>6 DEF Resolves, NodeIds, OutputsOf, InputsOf, TypeOf, Places
<1>9. h = [g EXCEPT !.edges = Append(@, e)]
  BY FbdGraphIs DEF h, s
<1> QED
  BY <1>3, <1>4, <1>6, <1>7, <1>8, <1>9 DEF Serves, AllResolve, e

\* The list with its i-th node retyped, and the diagram.
Retyped(s, i, t) == [s EXCEPT ![i].type = t]
WithRetyped(g, i, t) == [g EXCEPT !.nodes[i].type = t]

(* A node that is retyped within its kind keeps its place and its id.       *)
LEMMA RetypedIs ==
  ASSUME NEW g, g \in FbdGraphs, NEW i \in DOMAIN g.nodes, NEW t \in Types,
         t \in Gates <=> g.nodes[i].type \in Gates
  PROVE  LET h == WithRetyped(g, i, t)
         IN  /\ h \in FbdGraphs /\ h.edges = g.edges /\ NodeIds(h) = NodeIds(g)
             /\ i \in DOMAIN h.nodes /\ h.nodes[i].id = g.nodes[i].id /\ h.nodes[i].type = t
             /\ IdsDiffer(g) =>
                  /\ IdsDiffer(h) /\ TypeOf(h, g.nodes[i].id) = t
                  /\ \A x \in NodeIds(g) : x # g.nodes[i].id => TypeOf(h, x) = TypeOf(g, x)
<1> DEFINE h == WithRetyped(g, i, t)
           s == Retyped(g.nodes, i, t)
           n == [g.nodes[i] EXCEPT !.type = t]
<1>1. /\ g.nodes \in Seq(FbdNodes) /\ g.edges \in Seq(FbdEdges)
      /\ Len(g.nodes) \in Nat /\ DOMAIN g.nodes = 1..Len(g.nodes)
      /\ \A j \in DOMAIN g.nodes : g.nodes[j] \in FbdNodes
  BY FbdGraphIs
<1>2. h = [g EXCEPT !.nodes = s]
  BY Zenon DEF WithRetyped, Retyped
<1>3. s = [j \in DOMAIN g.nodes |-> IF j = i THEN n ELSE g.nodes[j]]
  BY Zenon DEF Retyped
<1>4. n \in FbdNodes /\ n.id = g.nodes[i].id /\ n.type = t
  BY <1>1, NodeFields
<1> HIDE DEF s, h, n
<1>5. /\ s \in Seq(FbdNodes) /\ DOMAIN s = DOMAIN g.nodes
      /\ \A j \in DOMAIN g.nodes : s[j].id = g.nodes[j].id /\ (j # i => s[j] = g.nodes[j])
      /\ s[i].type = t
  BY SMTT(30), <1>1, <1>3, <1>4
<1>6. h \in FbdGraphs /\ h.nodes = s /\ h.edges = g.edges
  BY <1>2, <1>5, NodesChanged
<1>7. NodeIds(h) = NodeIds(g)
  <2>1. ToSet(s) = {s[j] : j \in DOMAIN g.nodes} /\ ToSet(g.nodes) = {g.nodes[j] : j \in DOMAIN g.nodes}
    BY <1>5 DEF ToSet
  <2> QED
    BY <1>5, <1>6, <2>1 DEF NodeIds
<1>8. ASSUME IdsDiffer(g)
      PROVE  /\ IdsDiffer(h) /\ TypeOf(h, g.nodes[i].id) = t
             /\ \A x \in NodeIds(g) : x # g.nodes[i].id => TypeOf(h, x) = TypeOf(g, x)
  <2>1. IdsDiffer(h)
    BY <1>5, <1>6, <1>8 DEF IdsDiffer
  <2>2. \A j \in DOMAIN h.nodes : TypeOf(h, h.nodes[j].id) = h.nodes[j].type
    BY <1>6, <2>1, TypeIs DEF FbdOK
  <2>3. TypeOf(h, g.nodes[i].id) = t
    BY <1>5, <1>6, <2>2
  <2>4. ASSUME NEW x \in NodeIds(g), x # g.nodes[i].id PROVE TypeOf(h, x) = TypeOf(g, x)
    <3>1. PICK j \in DOMAIN g.nodes : g.nodes[j].id = x /\ TypeOf(g, x) = g.nodes[j].type
      BY NodeIs
    <3>2. s[j] = g.nodes[j] /\ j \in DOMAIN h.nodes
      BY <1>5, <1>6, <2>4, <3>1
    <3> QED
      BY <1>6, <2>2, <3>1, <3>2
  <2> QED
    BY <2>1, <2>3, <2>4
<1> QED
  BY <1>5, <1>6, <1>7, <1>8 DEF h

(* changeFbType takes away the wires of pins the block loses: a name that   *)
(* the new block has is on the side it was on.                              *)
LEMMA ChangeFbTypeOK ==
  ASSUME NEW g, g \in FbdGraphs, NEW i \in DOMAIN g.nodes, g.nodes[i].type \in Blocks, NEW t \in Blocks
  PROVE  Serves(g, ChangeFbType(g, i, t))
<1> DEFINE pins == DOMAIN Inputs[t] \cup DOMAIN Outputs[t]
           y == g.nodes[i].id
           E == {e \in ToSet(g.edges) : \/ e.src = y /\ e.out \notin pins
                                        \/ e.dst = y /\ e.in \notin pins}
           k == WithRetyped(g, i, t)
           h == WithoutEdges(k, E)
<1>1. t \in Types /\ (t \in Gates <=> g.nodes[i].type \in Gates)
  BY PinsAssumption DEF Types
<1>2. /\ k \in FbdGraphs /\ k.edges = g.edges /\ NodeIds(k) = NodeIds(g)
      /\ IdsDiffer(g) => /\ IdsDiffer(k) /\ TypeOf(k, y) = t
                         /\ \A x \in NodeIds(g) : x # y => TypeOf(k, x) = TypeOf(g, x)
  BY <1>1, RetypedIs
<1>3. ChangeFbType(g, i, t) = h
  BY DEF ChangeFbType, WithRetyped
<1>4. IdsDiffer(g) => y \in NodeIds(g) /\ TypeOf(g, y) \in Blocks
  BY TypeIs DEF FbdOK
<1> HIDE DEF k, E, y
<1>5. /\ h \in FbdGraphs /\ h.nodes = k.nodes /\ ToSet(h.edges) = ToSet(g.edges) \ E
      /\ IdsDiffer(g) => IdsDiffer(h)
  BY <1>2, EdgesDropped DEF Serves
<1> HIDE DEF h
<1>6. ASSUME IdsDiffer(g), AllResolve(g), NEW e \in ToSet(h.edges)
      PROVE  Resolves(h, e)
  <2>1. Resolves(g, e) /\ e \notin E /\ e \in ToSet(g.edges)
    BY <1>5, <1>6 DEF AllResolve
  <2>2. (e.src = y => e.out \in pins) /\ (e.dst = y => e.in \in pins)
    BY <2>1 DEF E
  <2>3. e.src \in NodeIds(k) /\ e.dst \in NodeIds(k)
    BY <1>2, <2>1 DEF Resolves
  <2>4. e.out \in OutputsOf(k, e.src)
    <3>1. CASE e.src = y
      BY <1>2, <1>4, <1>6, <2>1, <2>2, <3>1, PinsAssumption DEF Resolves, OutputsOf
    <3>2. CASE e.src # y
      BY <1>2, <1>6, <2>1, <3>2 DEF Resolves, OutputsOf
    <3> QED
      BY <3>1, <3>2
  <2>5. e.in \in InputsOf(k, e.dst)
    <3>1. CASE e.dst = y
      BY <1>2, <1>4, <1>6, <2>1, <2>2, <3>1, PinsAssumption DEF Resolves, InputsOf
    <3>2. CASE e.dst # y
      BY <1>2, <1>6, <2>1, <3>2 DEF Resolves, InputsOf
    <3> QED
      BY <3>1, <3>2
  <2> QED
    BY <1>5, <2>3, <2>4, <2>5 DEF Resolves, NodeIds, OutputsOf, InputsOf, TypeOf, Places
<1> QED
  BY <1>3, <1>5, <1>6 DEF Serves, AllResolve

\* What NoWireDangles says of a step.
Intact == IdsDiffer(fbd) /\ IdsDiffer(fbd') /\ ~GateRetyped /\ AllResolve(fbd) => AllResolve(fbd')

(* Every step leaves a diagram, and one whose wires resolve unless two      *)
(* nodes share an id or a gate changes its type.                            *)
LEMMA FbdSteps ==
  ASSUME fbd \in FbdGraphs, FbdNext
  PROVE  fbd' \in FbdGraphs /\ Intact
<1>1. \A h : Serves(fbd, h) /\ fbd' = h => fbd' \in FbdGraphs /\ Intact
  BY DEF Serves, Intact
<1>2. CASE Create
  BY <1>2, CreateOK DEF Create, Intact
<1>3. CASE Connect
  <2>1. PICK a \in NodeIds(fbd), b \in NodeIds(fbd) :
             \E y \in DOMAIN Outputs[FoundType(fbd, a)], z \in DOMAIN Inputs[FoundType(fbd, b)] :
               /\ CanConnect(fbd, a, y, b, z)
               /\ \E w \in WireIds : fbd' = [fbd EXCEPT !.edges =
                    Append(@, [id |-> w, src |-> a, out |-> y, dst |-> b, in |-> z])]
    BY <1>3 DEF Connect
  <2>2. FoundType(fbd, a) \in Types /\ FoundType(fbd, b) \in Types
    BY NodeIs
  <2>3. \A y \in DOMAIN Outputs[FoundType(fbd, a)] : y \in Pins
    BY <2>2 DEF Pins
  <2>4. \A z \in DOMAIN Inputs[FoundType(fbd, b)] : z \in Pins
    BY <2>2 DEF Pins
  <2>5. PICK p \in Pins, q \in Pins, w \in WireIds :
          /\ CanConnect(fbd, a, p, b, q)
          /\ fbd' = [fbd EXCEPT !.edges =
               Append(@, [id |-> w, src |-> a, out |-> p, dst |-> b, in |-> q])]
    BY <2>1, <2>3, <2>4
  <2> QED
    BY <1>1, <2>5, ConnectOK
<1>4. CASE OnDelete
  BY <1>1, <1>4, DeletedOK DEF OnDelete
<1>5. ASSUME NEW i \in DOMAIN fbd.nodes, NEW t \in Gates,
             fbd.nodes[i].type \in Gates \ {t}, fbd' = ChangeGateType(fbd, i, t)
      PROVE  fbd' \in FbdGraphs /\ Intact
  <2>1. t \in Types /\ fbd' = WithRetyped(fbd, i, t) /\ (t \in Gates <=> fbd.nodes[i].type \in Gates)
    BY <1>5 DEF Types, ChangeGateType, WithRetyped
  <2>2. /\ fbd' \in FbdGraphs /\ i \in DOMAIN fbd'.nodes
        /\ fbd'.nodes[i].id = fbd.nodes[i].id /\ fbd'.nodes[i].type = t
    BY <2>1, RetypedIs
  <2>3. GateRetyped
    BY <1>5, <2>2 DEF GateRetyped
  <2> QED
    BY <2>2, <2>3 DEF Intact
<1>6. ASSUME NEW i \in DOMAIN fbd.nodes, NEW t \in Blocks,
             fbd.nodes[i].type \in Blocks, fbd' = ChangeFbType(fbd, i, t)
      PROVE  fbd' \in FbdGraphs /\ Intact
  BY <1>1, <1>6, ChangeFbTypeOK
<1>7. ASSUME NEW id, NEW pin, fbd' = DisconnectPin(fbd, id, pin)
      PROVE  fbd' \in FbdGraphs /\ Intact
  BY <1>1, <1>7, EdgesDropped DEF DisconnectPin
<1>8. CASE FbdHandlerOps
  <2>1. Found(fbd) \subseteq DOMAIN fbd.nodes
    BY DEF Found
  <2>2. CASE \E i \in Found(fbd), t \in Gates :
               fbd.nodes[i].type \in Gates \ {t} /\ fbd' = ChangeGateType(fbd, i, t)
    BY <2>1, <2>2, <1>5
  <2>3. CASE \E i \in Found(fbd), t \in Blocks :
               fbd.nodes[i].type \in Blocks \ {t} /\ fbd' = ChangeFbType(fbd, i, t)
    BY <2>1, <2>3, <1>6
  <2>4. CASE \E id, pin : fbd' = DisconnectPin(fbd, id, pin)
    BY <2>4, <1>7
  <2> QED
    BY <1>8, <2>2, <2>3, <2>4 DEF FbdHandlerOps
<1> QED
  BY <1>2, <1>3, <1>4, <1>8 DEF FbdNext

(* Whatever file is opened and whatever is deleted, disconnected, connected *)
(* or retyped while no two nodes share an id, no wire is left that points   *)
(* to a node or pin that is not there, unless a gate changes its type.      *)
THEOREM NoneDangles == FbdSpec => NoWireDangles
<1>1. FbdInit => fbd \in FbdGraphs
  <2>1. <<>> \in Seq(FbdNodes) /\ <<>> \in Seq(FbdEdges)
    OBVIOUS
  <2>2. EmptyDiagram \in FbdGraphs
    BY <2>1 DEF EmptyDiagram, FbdGraphs
  <2> QED
    BY <2>2, FilesAssumption DEF FbdInit
<1>2. fbd \in FbdGraphs /\ [FbdNext]_fbd => (fbd \in FbdGraphs)'
  BY FbdSteps
<1>3. fbd \in FbdGraphs /\ [FbdNext]_fbd => [Intact]_fbd
  BY FbdSteps
<1> QED
  BY <1>1, <1>2, <1>3, PTL DEF FbdSpec, NoWireDangles, Intact
============================================================================
