--------------------------- MODULE ReadSideProofs ---------------------------
(***************************************************************************)
(* Proofs about what the read side answers, for every finite set of rows: the  *)
(* blast radius of a service, the latest events of the timeline, PromQL's      *)
(* parentheses and instant queries; and, for every condition, the guard that   *)
(* confines a LogQL++ query to its tenant.                                     *)
(***************************************************************************)
EXTENDS ServiceGraph, Timeline, PromQL, Compiler, FiniteSetTheorems, WellFoundedInduction, TLAPS

-----------------------------------------------------------------------------
(* Induction and iteration over the natural numbers, stated for sets *)

\* A non-empty set of natural numbers has a least member.
LEMMA LeastNat ==
    ASSUME NEW T \in SUBSET Nat, T # {}
    PROVE  \E n \in T : \A m \in T : n <= m
<1>1. IsWellFoundedOn(OpToRel(<, Nat), Nat)
  BY NatLessThanWellFounded
<1>2. PICK n \in T : \A m \in T : ~(<<m, n>> \in OpToRel(<, Nat))
  BY <1>1, WFMin
<1>3. \A m \in T : ~(m < n)
  BY <1>2 DEF OpToRel
<1> QED
  BY <1>3

\* Induction, over the set of the numbers a claim holds of.
LEMMA Induct ==
    ASSUME NEW T \in SUBSET Nat, 0 \in T, \A n \in T : n + 1 \in T
    PROVE  \A n \in Nat : n \in T
<1> SUFFICES ASSUME Nat \ T # {} PROVE FALSE
  OBVIOUS
<1>1. PICK n \in Nat \ T : \A m \in Nat \ T : n <= m
  <2>1. Nat \ T \in SUBSET Nat
    OBVIOUS
  <2> QED
    BY <2>1, LeastNat
<1>2. n - 1 \in Nat /\ n - 1 \in T
  BY <1>1
<1> QED
  BY <1>1, <1>2

\* The first n + 1 values of the iteration of a step.
Unrolled(S, a, step, n) == {g \in [0..n -> S] : g[0] = a /\ \A i \in 0..(n - 1) : g[i + 1] = step[g[i]]}

\* They exist for every n ...
LEMMA UnrolledExists ==
    ASSUME NEW S, NEW a \in S, NEW step \in [S -> S]
    PROVE  \A n \in Nat : Unrolled(S, a, step, n) # {}
<1> DEFINE T == {n \in Nat : Unrolled(S, a, step, n) # {}}
<1>1. 0 \in T
  <2>1. [i \in 0..0 |-> a] \in Unrolled(S, a, step, 0)
    BY DEF Unrolled
  <2> QED
    BY <2>1
<1>2. ASSUME NEW n \in T PROVE n + 1 \in T
  <2>1. PICK g \in Unrolled(S, a, step, n) : TRUE
    OBVIOUS
  <2> DEFINE h == [i \in 0..(n + 1) |-> IF i <= n THEN g[i] ELSE step[g[n]]]
  <2>2. n \in Nat /\ g \in [0..n -> S] /\ g[0] = a /\ \A i \in 0..(n - 1) : g[i + 1] = step[g[i]]
    BY <2>1 DEF Unrolled
  <2>3. g[n] \in S /\ step[g[n]] \in S
    BY <2>2
  <2>4. h \in [0..(n + 1) -> S] /\ h[0] = a
    BY <2>2, <2>3
  <2>5. ASSUME NEW i \in 0..n PROVE h[i + 1] = step[h[i]]
    <3>1. h[i] = g[i]
      BY <2>2, <2>5
    <3>2. CASE i = n
      BY <2>2, <3>1, <3>2
    <3>3. CASE i # n
      BY <2>2, <3>1, <3>3
    <3> QED
      BY <3>2, <3>3
  <2>6. (n + 1) - 1 = n
    BY <2>2
  <2>7. h \in Unrolled(S, a, step, n + 1)
    BY <2>4, <2>5, <2>6 DEF Unrolled
  <2> HIDE DEF h
  <2> QED
    BY <2>2, <2>7
<1>3. \A n \in Nat : n \in T
  <2> HIDE DEF T
  <2>1. T \in SUBSET Nat
    BY DEF T
  <2> QED
    BY <1>1, <1>2, <2>1, Induct
<1> QED
  BY <1>3

\* ... and agree.
LEMMA UnrolledAgree ==
    ASSUME NEW S, NEW a, NEW step, NEW n \in Nat, NEW g \in Unrolled(S, a, step, n),
           NEW h \in Unrolled(S, a, step, n + 1)
    PROVE  \A i \in 0..n : g[i] = h[i]
<1> DEFINE T == {i \in Nat : i <= n => g[i] = h[i]}
<1>1. /\ g[0] = a /\ \A i \in 0..(n - 1) : g[i + 1] = step[g[i]]
      /\ h[0] = a /\ \A i \in 0..n : h[i + 1] = step[h[i]]
  BY DEF Unrolled
<1>2. 0 \in T
  BY <1>1
<1>3. ASSUME NEW i \in T PROVE i + 1 \in T
  <2>1. CASE i + 1 <= n
    <3>1. g[i] = h[i] /\ i \in 0..(n - 1) /\ i \in 0..n
      BY <2>1
    <3> QED
      BY <1>1, <3>1
  <2> QED
    BY <2>1
<1>4. \A i \in Nat : i \in T
  BY <1>2, <1>3, Induct
<1> QED
  BY <1>4

\* A step can be iterated from any start.
LEMMA IterateExists ==
    ASSUME NEW S, NEW a \in S, NEW step \in [S -> S]
    PROVE  \E f \in [Nat -> S] : f[0] = a /\ \A n \in Nat : f[n + 1] = step[f[n]]
<1> DEFINE U(n) == CHOOSE g \in Unrolled(S, a, step, n) : TRUE
           f == [n \in Nat |-> U(n)[n]]
<1>1. \A n \in Nat : U(n) \in Unrolled(S, a, step, n)
  BY UnrolledExists
<1> HIDE DEF U
<1>2. ASSUME NEW n \in Nat PROVE U(n)[n] \in S
  BY <1>1 DEF Unrolled
<1>3. U(0)[0] = a
  BY <1>1 DEF Unrolled
<1>4. ASSUME NEW n \in Nat PROVE U(n + 1)[n + 1] = step[U(n)[n]]
  <2>1. n + 1 \in Nat /\ n \in 0..n /\ n \in 0..((n + 1) - 1)
    OBVIOUS
  <2>2. U(n) \in Unrolled(S, a, step, n) /\ U(n + 1) \in Unrolled(S, a, step, n + 1)
    BY <1>1, <2>1
  <2>3. U(n)[n] = U(n + 1)[n]
    BY <2>1, <2>2, UnrolledAgree
  <2>4. U(n + 1)[n + 1] = step[U(n + 1)[n]]
    BY <2>1, <2>2 DEF Unrolled
  <2> QED
    BY <2>3, <2>4
<1>5. f \in [Nat -> S] /\ f[0] = a /\ \A n \in Nat : f[n + 1] = step[f[n]]
  BY <1>2, <1>3, <1>4
<1> QED
  BY <1>5

-----------------------------------------------------------------------------
(* The blast radius *)

\* SetToSeq: a finite set as a sequence, each element once.
LEMMA SetInSequence ==
    ASSUME NEW T, IsFiniteSet(T)
    PROVE  LET q == SetToSeq(T)
           IN  q \in Seq(T) /\ Len(q) = Cardinality(T) /\ T = {q[i] : i \in 1..Len(q)}
<1> DEFINE n == Cardinality(T)
           q == SetToSeq(T)
<1>1. n \in Nat /\ ExistsBijection(1..n, T)
  BY FS_CardinalityType
<1>2. \E f \in [1..n -> T] : IsInjective(f)
  BY <1>1 DEF ExistsBijection, Bijection, Injection
<1>3. q \in [1..n -> T] /\ IsInjective(q)
  BY <1>2 DEF SetToSeq
<1> HIDE DEF q
<1>4. q \in Injection(1..n, T)
  BY <1>3 DEF Injection
<1>5. Cardinality(1..n) = n
  BY <1>1, FS_Interval
<1>6. q \in Surjection(1..n, T)
  BY <1>4, <1>5, FS_Injection
<1> HIDE DEF n
<1>7. T = {q[i] : i \in 1..n}
  BY <1>3, <1>6 DEF Surjection
<1>8. q \in Seq(T) /\ Len(q) = n
  BY <1>1, <1>3
<1> QED
  BY <1>7, <1>8 DEF n, q

\* The services a walk may see: every caller but the service itself.
Others(edges, svc) == {e[1] : e \in edges} \ {svc}
WalkState(edges, svc) == [stack : Seq(Others(edges, svc) \cup {svc}), seen : SUBSET Others(edges, svc)]
OnStack(w) == {w.stack[i] : i \in 1..Len(w.stack)}

\* There are no more callers than calls.
LEMMA OthersFinite ==
    ASSUME NEW edges, IsFiniteSet(edges), NEW svc
    PROVE  /\ Cardinality(edges) \in Nat /\ IsFiniteSet(Others(edges, svc))
           /\ \A T \in SUBSET Others(edges, svc) :
                IsFiniteSet(T) /\ Cardinality(T) \in Nat /\ Cardinality(T) <= Cardinality(edges)
<1> DEFINE all == {e[1] : e \in edges}
           f == [e \in edges |-> e[1]]
<1>1. f \in Surjection(edges, all)
  BY DEF Surjection
<1>2. IsFiniteSet(all) /\ Cardinality(all) <= Cardinality(edges)
  BY <1>1, FS_Surjection
<1>3. Cardinality(edges) \in Nat /\ Cardinality(all) \in Nat
  BY <1>2, FS_CardinalityType
<1>4. Others(edges, svc) \subseteq all
  BY DEF Others
<1> HIDE DEF all, f
<1>5. ASSUME NEW T, T \subseteq all
      PROVE  IsFiniteSet(T) /\ Cardinality(T) \in Nat /\ Cardinality(T) <= Cardinality(edges)
  <2>1. IsFiniteSet(T) /\ Cardinality(T) <= Cardinality(all)
    BY <1>2, <1>5, FS_Subset
  <2>2. Cardinality(T) \in Nat
    BY <2>1, FS_CardinalityType
  <2> QED
    BY <1>2, <1>3, <2>1, <2>2
<1> QED
  BY <1>3, <1>4, <1>5

\* The elements of two sets with none in common.
LEMMA DisjointCount ==
    ASSUME NEW A, IsFiniteSet(A), NEW B, IsFiniteSet(B), A \cap B = {}
    PROVE  /\ IsFiniteSet(A \cup B) /\ Cardinality(A) \in Nat /\ Cardinality(B) \in Nat
           /\ Cardinality(A \cup B) = Cardinality(A) + Cardinality(B)
<1>1. Cardinality(A) \in Nat /\ Cardinality(B) \in Nat
  BY FS_CardinalityType
<1>2. IsFiniteSet(A \cup B) /\ Cardinality(A \cup B) = Cardinality(A) + Cardinality(B) - Cardinality(A \cap B)
  BY FS_Union
<1>3. Cardinality(A \cap B) = 0
  BY FS_EmptySet
<1> QED
  BY <1>1, <1>2, <1>3

\* Two sequences one after the other.
LEMMA Concat ==
    ASSUME NEW A, NEW q \in Seq(A), NEW r \in Seq(A)
    PROVE  /\ q \o r \in Seq(A) /\ Len(q \o r) = Len(q) + Len(r) /\ Len(q) \in Nat /\ Len(r) \in Nat
           /\ \A i \in 1..Len(q) : (q \o r)[i] = q[i] /\ i \in 1..Len(q \o r)
           /\ \A i \in 1..Len(r) : (q \o r)[Len(q) + i] = r[i] /\ Len(q) + i \in 1..Len(q \o r)
           /\ \A k \in 1..Len(q \o r) :
                \/ k \in 1..Len(q)
                \/ \E i \in 1..Len(r) : k = Len(q) + i
<1>1. /\ q \o r \in Seq(A) /\ Len(q \o r) = Len(q) + Len(r) /\ Len(q) \in Nat /\ Len(r) \in Nat
      /\ \A i \in 1..Len(q) : (q \o r)[i] = q[i]
      /\ \A i \in 1..Len(r) : (q \o r)[Len(q) + i] = r[i]
  OBVIOUS
<1>2. ASSUME NEW k \in 1..(Len(q) + Len(r)), k \notin 1..Len(q) PROVE \E i \in 1..Len(r) : k = Len(q) + i
  <2>1. k - Len(q) \in 1..Len(r) /\ k = Len(q) + (k - Len(q))
    BY <1>1, <1>2
  <2> QED
    BY <2>1
<1> QED
  BY <1>1, <1>2

\* A sequence over a set is one over a larger set.
LEMMA SeqWider ==
    ASSUME NEW A, NEW B, A \subseteq B, NEW q \in Seq(A)
    PROVE  q \in Seq(B)
<1>1. q \in [1..Len(q) -> A] /\ Len(q) \in Nat
  OBVIOUS
<1>2. q \in [1..Len(q) -> B]
  BY <1>1
<1> QED
  BY <1>1, <1>2

\* What a turn pushes: the callers of the top that were not seen.
New(edges, svc, w) == {u \in Callers(edges, Last(w.stack)) : u \notin w.seen /\ u # svc}

\* A turn of the loop takes the top off the stack and pushes the new callers.
LEMMA VisitTurn ==
    ASSUME NEW edges, IsFiniteSet(edges), NEW svc, NEW w \in WalkState(edges, svc), w.stack # <<>>
    PROVE  LET v == Visit(edges, svc, w)
               new == New(edges, svc, w)
           IN  /\ v \in WalkState(edges, svc) /\ new \subseteq Others(edges, svc)
               /\ v.seen = w.seen \cup new
               /\ Last(w.stack) \in OnStack(w)
               /\ OnStack(v) \subseteq OnStack(w) \cup new
               /\ OnStack(w) \cup new \subseteq OnStack(v) \cup {Last(w.stack)}
               /\ Len(w.stack) \in Nat \ {0}
               /\ Len(v.stack) = Len(w.stack) - 1 + Cardinality(new)
<1> DEFINE V == Others(edges, svc)
           top == Last(w.stack)
           new == New(edges, svc, w)
           rest == Front(w.stack)
           push == SetToSeq(new)
           v == Visit(edges, svc, w)
<1>1. v = [stack |-> rest \o push, seen |-> w.seen \cup new]
  BY Zenon DEF Visit, New
<1>2. w.stack \in Seq(V \cup {svc}) /\ w.seen \in SUBSET V
  BY DEF WalkState
<1>3. new \subseteq V
  BY DEF New, Callers, Others
<1>4. IsFiniteSet(new) /\ Cardinality(new) \in Nat
  BY <1>3, OthersFinite
<1>5. push \in Seq(new) /\ Len(push) = Cardinality(new) /\ new = {push[i] : i \in 1..Len(push)}
  BY <1>4, SetInSequence
<1>6. Len(w.stack) \in Nat \ {0} /\ top = w.stack[Len(w.stack)]
  BY <1>2 DEF Last
<1>7. /\ rest \in Seq(V \cup {svc}) /\ Len(rest) = Len(w.stack) - 1
      /\ \A i \in 1..(Len(w.stack) - 1) : rest[i] = w.stack[i]
  <2> DEFINE s == w.stack
             n == Len(s) - 1
             R == V \cup {svc}
  <2>1. s \in Seq(R) /\ n \in Nat /\ n = Len(s) - 1
    BY <1>2, <1>6
  <2>2. rest = SubSeq(s, 1, n)
    BY DEF Front
  <2> HIDE DEF s, n, R, rest
  <2>3. rest \in Seq(R) /\ Len(rest) = n /\ \A i \in 1..n : rest[i] = s[i]
    BY <2>1, <2>2
  <2> QED
    BY <2>3 DEF s, n, R
<1> HIDE DEF V, top, new, rest, push, v
<1>8. push \in Seq(V \cup {svc})
  BY <1>3, <1>5, SeqWider
<1> DEFINE q == rest \o push
<1>9. /\ q \in Seq(V \cup {svc}) /\ Len(q) = Len(rest) + Len(push)
      /\ \A i \in 1..Len(rest) : q[i] = rest[i] /\ i \in 1..Len(q)
      /\ \A i \in 1..Len(push) : q[Len(rest) + i] = push[i] /\ Len(rest) + i \in 1..Len(q)
      /\ \A k \in 1..Len(q) : k \in 1..Len(rest) \/ \E i \in 1..Len(push) : k = Len(rest) + i
  <2> DEFINE R == V \cup {svc}
  <2>1. rest \in Seq(R) /\ push \in Seq(R)
    BY <1>7, <1>8
  <2> HIDE DEF R
  <2>2. /\ rest \o push \in Seq(R) /\ Len(rest \o push) = Len(rest) + Len(push)
        /\ \A i \in 1..Len(rest) : (rest \o push)[i] = rest[i] /\ i \in 1..Len(rest \o push)
        /\ \A i \in 1..Len(push) : (rest \o push)[Len(rest) + i] = push[i] /\ Len(rest) + i \in 1..Len(rest \o push)
        /\ \A k \in 1..Len(rest \o push) :
             \/ k \in 1..Len(rest)
             \/ \E i \in 1..Len(push) : k = Len(rest) + i
    BY <2>1, Concat, SMTT(30)
  <2> QED
    BY <2>2 DEF R
<1>10. v.stack = q /\ v.seen = w.seen \cup new
  BY <1>1
<1> HIDE DEF q
<1>11. v \in WalkState(edges, svc)
  <2>1. w.seen \cup new \in SUBSET V
    BY <1>2, <1>3
  <2>2. v = [stack |-> q, seen |-> w.seen \cup new]
    BY <1>1 DEF q
  <2> QED
    BY <1>9, <2>1, <2>2 DEF WalkState, V
<1>12. ASSUME NEW i \in 1..Len(q) PROVE q[i] \in OnStack(w) \cup new
  <2>1. CASE i \in 1..Len(rest)
    <3>1. q[i] = w.stack[i] /\ i \in 1..Len(w.stack)
      BY <1>6, <1>7, <1>9, <2>1
    <3> QED
      BY <3>1 DEF OnStack
  <2>2. CASE \E k \in 1..Len(push) : i = Len(rest) + k
    BY <1>5, <1>9, <2>2
  <2> QED
    BY <1>9, <2>1, <2>2
<1>13. ASSUME NEW i \in 1..Len(w.stack) PROVE w.stack[i] \in {q[j] : j \in 1..Len(q)} \cup {top}
  <2>1. CASE i = Len(w.stack)
    BY <1>6, <2>1
  <2>2. CASE i # Len(w.stack)
    <3>1. i \in 1..Len(rest) /\ i \in 1..(Len(w.stack) - 1)
      BY <1>6, <1>7, <2>2
    <3> QED
      BY <1>7, <1>9, <3>1
  <2> QED
    BY <2>1, <2>2
<1>14. ASSUME NEW i \in 1..Len(push) PROVE push[i] \in {q[j] : j \in 1..Len(q)}
  BY <1>9
<1>15. OnStack(v) = {q[j] : j \in 1..Len(q)}
  BY <1>10 DEF OnStack
<1>16. OnStack(v) \subseteq OnStack(w) \cup new
  BY <1>12, <1>15
<1>17. OnStack(w) \cup new \subseteq OnStack(v) \cup {top}
  BY <1>5, <1>13, <1>14, <1>15 DEF OnStack
<1>18. top \in OnStack(w)
  BY <1>6 DEF OnStack
<1>19. Len(v.stack) = Len(w.stack) - 1 + Cardinality(new)
  BY <1>5, <1>7, <1>9, <1>10
<1> QED
  BY <1>3, <1>6, <1>10, <1>11, <1>16, <1>17, <1>18, <1>19 DEF v, new, top, V

\* The invariant of the loop: what was seen reaches the service, and of what was
\* seen the callers have been seen too, or it is still on the stack.
GoodWalk(edges, svc, w) ==
    /\ w \in WalkState(edges, svc)
    /\ OnStack(w) \subseteq w.seen \cup {svc}
    /\ \A C \in SUBSET Others(edges, svc) : HasCallers(edges, svc, C) => w.seen \subseteq C
    /\ \A x \in w.seen \cup {svc} : x \in OnStack(w) \/ Callers(edges, x) \subseteq w.seen \cup {svc}

\* Every turn keeps it.
LEMMA TurnKeeps ==
    ASSUME NEW edges, IsFiniteSet(edges), NEW svc, NEW w, GoodWalk(edges, svc, w)
    PROVE  GoodWalk(edges, svc, Visit(edges, svc, w))
<1> DEFINE v == Visit(edges, svc, w)
           top == Last(w.stack)
           new == New(edges, svc, w)
<1>1. CASE w.stack = <<>>
  <2>1. v = w
    BY <1>1 DEF Visit
  <2> QED
    BY <2>1
<1>2. CASE w.stack # <<>>
  <2>1. /\ v \in WalkState(edges, svc) /\ new \subseteq Others(edges, svc) /\ v.seen = w.seen \cup new
        /\ top \in OnStack(w) /\ OnStack(v) \subseteq OnStack(w) \cup new
        /\ OnStack(w) \cup new \subseteq OnStack(v) \cup {top}
    BY <1>2, VisitTurn DEF GoodWalk
  <2>2. \A u \in Callers(edges, top) : u \in w.seen \cup new \cup {svc}
    BY DEF New
  <2>3. \A u \in new : \E e \in edges : e[2] = top /\ e[1] = u
    BY DEF New, Callers
  <2>4. \A u \in new : u # svc
    BY DEF New
  <2> HIDE DEF v, top, new
  <2>5. OnStack(v) \subseteq v.seen \cup {svc}
    BY <2>1 DEF GoodWalk
  <2>6. ASSUME NEW C \in SUBSET Others(edges, svc), HasCallers(edges, svc, C) PROVE v.seen \subseteq C
    <3>1. w.seen \subseteq C
      BY <2>6 DEF GoodWalk
    <3>2. top \in C \cup {svc}
      BY <2>1, <3>1 DEF GoodWalk
    <3>3. new \subseteq C
      BY <2>3, <2>4, <2>6, <3>2 DEF HasCallers
    <3> QED
      BY <2>1, <3>1, <3>3
  <2>7. ASSUME NEW x \in v.seen \cup {svc}
        PROVE  x \in OnStack(v) \/ Callers(edges, x) \subseteq v.seen \cup {svc}
    <3>1. CASE x = top
      BY <2>1, <2>2, <3>1
    <3>2. CASE x # top /\ x \in OnStack(w) \cup new
      BY <2>1, <3>2
    <3>3. CASE x \notin OnStack(w) \cup new
      <4>1. x \in w.seen \cup {svc}
        BY <2>1, <2>7, <3>3
      <4> QED
        BY <2>1, <3>3, <4>1 DEF GoodWalk
    <3> QED
      BY <3>1, <3>2, <3>3
  <2>8. GoodWalk(edges, svc, v)
    BY <2>1, <2>5, <2>6, <2>7 DEF GoodWalk
  <2> QED
    BY <2>8 DEF v
<1> QED
  BY <1>1, <1>2

\* The walk begins with it.
LEMMA WalkBegins ==
    ASSUME NEW edges, NEW svc
    PROVE  LET w == [stack |-> <<svc>>, seen |-> {}]
           IN  GoodWalk(edges, svc, w) /\ Len(w.stack) = 1
<1> DEFINE w == [stack |-> <<svc>>, seen |-> {}]
           R == Others(edges, svc) \cup {svc}
           q == <<svc>>
           none == {}
<1>1. q \in Seq(R) /\ Len(q) = 1 /\ q[1] = svc
  OBVIOUS
<1>2. none \in SUBSET Others(edges, svc)
  OBVIOUS
<1>3. w = [stack |-> q, seen |-> none]
  OBVIOUS
<1> HIDE DEF q, w, R, none
<1>4. w.stack = q /\ w.seen = none
  BY <1>3
<1>5. w \in [stack : Seq(R), seen : SUBSET Others(edges, svc)]
  BY <1>1, <1>2, <1>3
<1>6. OnStack(w) = {svc}
  <2>1. 1..1 = {1}
    OBVIOUS
  <2>2. OnStack(w) = {q[i] : i \in {1}}
    BY <1>1, <1>4, <2>1 DEF OnStack
  <2> QED
    BY <1>1, <2>2
<1>7. GoodWalk(edges, svc, w)
  BY <1>4, <1>5, <1>6 DEF GoodWalk, WalkState, R, none
<1> QED
  BY <1>1, <1>4, <1>7 DEF w

\* The state of the loop after its turns: Turns is what its equation says.
LEMMA TurnsStep ==
    ASSUME NEW edges, IsFiniteSet(edges), NEW svc
    PROVE  LET walk == Turns(edges, svc)
           IN  /\ walk[0] = [stack |-> <<svc>>, seen |-> {}]
               /\ \A n \in Nat : walk[n + 1] = Visit(edges, svc, walk[n])
<1> DEFINE first == [stack |-> <<svc>>, seen |-> {}]
           S == {w \in WalkState(edges, svc) : GoodWalk(edges, svc, w)}
           step == [w \in S |-> Visit(edges, svc, w)]
           Eq(f) == f = [n \in Nat |-> IF n = 0 THEN first ELSE Visit(edges, svc, f[n - 1])]
           walk == Turns(edges, svc)
<1>1. first \in S
  BY WalkBegins DEF GoodWalk
<1>2. step \in [S -> S]
  <2> SUFFICES ASSUME NEW w \in S PROVE Visit(edges, svc, w) \in S
    OBVIOUS
  <2>1. GoodWalk(edges, svc, Visit(edges, svc, w))
    BY TurnKeeps
  <2> QED
    BY <2>1 DEF GoodWalk
<1>3. walk = CHOOSE f : Eq(f)
  BY DEF Turns
<1>s. \A w \in S : step[w] = Visit(edges, svc, w)
  OBVIOUS
<1> HIDE DEF first, S, walk, step
<1>4. PICK f \in [Nat -> S] : f[0] = first /\ \A n \in Nat : f[n + 1] = step[f[n]]
  BY <1>1, <1>2, IterateExists
<1>5. \A n \in Nat : f[n + 1] = Visit(edges, svc, f[n])
  BY <1>s, <1>4
<1>6. Eq(f)
  <2>1. ASSUME NEW n \in Nat PROVE f[n] = IF n = 0 THEN first ELSE Visit(edges, svc, f[n - 1])
    <3>1. CASE n = 0
      BY <1>4, <3>1
    <3>2. CASE n # 0
      <4>1. n - 1 \in Nat /\ (n - 1) + 1 = n
        BY <3>2
      <4> QED
        BY <1>5, <3>2, <4>1
    <3> QED
      BY <3>1, <3>2
  <2> QED
    BY <1>4, <2>1
<1>7. Eq(walk)
  <2>1. \E g : Eq(g)
    BY <1>6
  <2> HIDE DEF Eq
  <2> QED
    BY <1>3, <2>1, Zenon
<1>8. \A n \in Nat : walk[n] = IF n = 0 THEN first ELSE Visit(edges, svc, walk[n - 1])
  BY <1>7
<1>9. ASSUME NEW n \in Nat PROVE walk[n + 1] = Visit(edges, svc, walk[n])
  <2>1. n + 1 \in Nat /\ n + 1 # 0 /\ (n + 1) - 1 = n
    OBVIOUS
  <2> QED
    BY <1>8, <2>1
<1> QED
  BY <1>8, <1>9 DEF walk, first

\* The invariant after n turns; while the stack is not empty every turn took off
\* a service of its own, the first or one seen.
LEMMA WalkIsGood ==
    ASSUME NEW edges, IsFiniteSet(edges), NEW svc
    PROVE  LET walk == Turns(edges, svc)
           IN  \A n \in Nat : /\ GoodWalk(edges, svc, walk[n])
                              /\ walk[n].stack = <<>> \/ Len(walk[n].stack) + n = 1 + Cardinality(walk[n].seen)
<1> DEFINE walk == Turns(edges, svc)
           Counted(w, n) == w.stack = <<>> \/ Len(w.stack) + n = 1 + Cardinality(w.seen)
           T == {n \in Nat : GoodWalk(edges, svc, walk[n]) /\ Counted(walk[n], n)}
<1>1. walk[0] = [stack |-> <<svc>>, seen |-> {}] /\ \A n \in Nat : walk[n + 1] = Visit(edges, svc, walk[n])
  BY TurnsStep
<1> HIDE DEF walk
<1>2. 0 \in T
  <2>1. GoodWalk(edges, svc, walk[0]) /\ Len(walk[0].stack) = 1
    BY <1>1, WalkBegins
  <2>2. Cardinality(walk[0].seen) = 0
    BY <1>1, FS_EmptySet
  <2> QED
    BY <2>1, <2>2
<1>3. ASSUME NEW n \in T PROVE n + 1 \in T
  <2> DEFINE w == walk[n]
             v == walk[n + 1]
             new == New(edges, svc, w)
  <2>1. n \in Nat /\ GoodWalk(edges, svc, w) /\ Counted(w, n) /\ v = Visit(edges, svc, w)
    BY <1>1
  <2>2. GoodWalk(edges, svc, v)
    BY <2>1, TurnKeeps
  <2> HIDE DEF w, v, new
  <2>3. CASE w.stack = <<>>
    <3>1. v = w
      BY <2>1, <2>3 DEF Visit
    <3> QED
      BY <2>1, <2>2, <2>3, <3>1 DEF v
  <2>4. CASE w.stack # <<>>
    <3>1. /\ new \subseteq Others(edges, svc) /\ v.seen = w.seen \cup new /\ Len(w.stack) \in Nat
          /\ Len(v.stack) = Len(w.stack) - 1 + Cardinality(new)
      BY <2>1, <2>4, VisitTurn DEF GoodWalk, new
    <3>2. w.seen \subseteq Others(edges, svc)
      BY <2>1 DEF GoodWalk, WalkState
    <3>3. IsFiniteSet(w.seen) /\ IsFiniteSet(new) /\ Cardinality(w.seen) \in Nat /\ Cardinality(new) \in Nat
      BY <3>1, <3>2, OthersFinite
    <3>4. w.seen \cap new = {}
      BY DEF new, New
    <3>5. Cardinality(w.seen \cup new) = Cardinality(w.seen) + Cardinality(new)
      BY <3>3, <3>4, DisjointCount
    <3>6. Len(w.stack) + n = 1 + Cardinality(w.seen)
      BY <2>1, <2>4
    <3>7. Len(v.stack) + (n + 1) = 1 + Cardinality(v.seen)
      BY <2>1, <3>1, <3>3, <3>5, <3>6
    <3> QED
      BY <2>1, <2>2, <3>7 DEF v
  <2> QED
    BY <2>3, <2>4
<1>4. \A n \in Nat : n \in T
  <2> HIDE DEF T
  <2>1. T \in SUBSET Nat
    BY DEF T
  <2> QED
    BY <1>2, <1>3, <2>1, Induct
<1> QED
  BY <1>4 DEF walk

\* FocusBlastRadius, any finite graph: the loop ends within its turns, with the
\* services that reach the service over calls.
LEMMA RadiusIsReaching ==
    ASSUME NEW edges, IsFiniteSet(edges), NEW svc
    PROVE  /\ Upstream(edges, svc).stack = <<>>
           /\ Upstream(edges, svc).seen = Reaching(edges, svc)
<1> DEFINE m == Cardinality(edges)
           w == Upstream(edges, svc)
           V == Others(edges, svc)
           E == Ends(edges) \ {svc}
<1>1. m \in Nat /\ m + 1 \in Nat
  BY OthersFinite
<1>2. w = Turns(edges, svc)[m + 1]
  BY DEF Upstream
<1> HIDE DEF m, w
<1>3. GoodWalk(edges, svc, w) /\ (w.stack = <<>> \/ Len(w.stack) + (m + 1) = 1 + Cardinality(w.seen))
  <2> DEFINE walk == Turns(edges, svc)
  <2>1. \A n \in Nat : /\ GoodWalk(edges, svc, walk[n])
                       /\ walk[n].stack = <<>> \/ Len(walk[n].stack) + n = 1 + Cardinality(walk[n].seen)
    BY WalkIsGood
  <2> HIDE DEF walk
  <2>2. w = walk[m + 1]
    BY <1>2 DEF walk
  <2> QED
    BY <1>1, <2>1, <2>2
<1>4. w.stack \in Seq(V \cup {svc}) /\ w.seen \subseteq V
  BY <1>3 DEF GoodWalk, WalkState
<1>5. Cardinality(w.seen) \in Nat /\ Cardinality(w.seen) <= m
  BY <1>4, OthersFinite DEF m
<1>6. w.stack = <<>>
  <2> SUFFICES ASSUME w.stack # <<>> PROVE FALSE
    OBVIOUS
  <2>1. Len(w.stack) \in Nat /\ Len(w.stack) > 0
    <3> DEFINE R == V \cup {svc}
    <3>1. w.stack \in Seq(R)
      BY <1>4
    <3> HIDE DEF R
    <3> QED
      BY <3>1
  <2>2. Len(w.stack) + (m + 1) = 1 + Cardinality(w.seen)
    BY <1>3
  <2> DEFINE a == Len(w.stack)
             b == Cardinality(w.seen)
  <2> HIDE DEF a, b
  <2>3. a \in Nat /\ a > 0 /\ b \in Nat /\ b <= m /\ a + (m + 1) = 1 + b
    BY <1>5, <2>1, <2>2 DEF a, b
  <2> QED
    BY <1>1, <2>3
<1>7. OnStack(w) = {}
  <2>1. Len(w.stack) = 0 /\ 1..0 = {}
    BY <1>6
  <2> QED
    BY <2>1 DEF OnStack
<1>8. V \subseteq E
  BY DEF Others, Ends
<1>9. HasCallers(edges, svc, w.seen)
  <2> SUFFICES ASSUME NEW e \in edges, e[2] \in w.seen \cup {svc} PROVE e[1] \in w.seen \cup {svc}
    BY DEF HasCallers
  <2>1. e[1] \in Callers(edges, e[2])
    BY DEF Callers
  <2> QED
    BY <1>3, <1>7, <2>1 DEF GoodWalk
<1>10. ASSUME NEW C \in SUBSET E, HasCallers(edges, svc, C) PROVE w.seen \subseteq C
  <2>1. C \cap V \in SUBSET V
    OBVIOUS
  <2>2. HasCallers(edges, svc, C \cap V)
    BY <1>10 DEF HasCallers, Others
  <2> QED
    BY <1>3, <2>1, <2>2 DEF GoodWalk
<1>11. Reaching(edges, svc) = {s \in E : \A C \in SUBSET E : HasCallers(edges, svc, C) => s \in C}
  BY DEF Reaching
<1> HIDE DEF V, E
<1>12. w.seen \subseteq Reaching(edges, svc)
  BY <1>4, <1>8, <1>10, <1>11
<1>13. Reaching(edges, svc) \subseteq w.seen
  BY <1>4, <1>8, <1>9, <1>11
<1> QED
  BY <1>6, <1>12, <1>13 DEF w

\* EdgeRows: finitely many spans make finitely many calls.
LEMMA EdgesFinite ==
    ASSUME NEW spans, IsFiniteSet(spans)
    PROVE  IsFiniteSet(EdgeRows(spans))
<1> DEFINE pairs == {pc \in spans \X spans : /\ pc[2].trace = pc[1].trace /\ pc[2].parent = pc[1].id
                                             /\ pc[2].recent /\ pc[1].service # pc[2].service}
           f == [pc \in pairs |-> <<pc[1].service, pc[2].service>>]
<1>1. IsFiniteSet(spans \X spans)
  BY FS_Product
<1>2. IsFiniteSet(pairs)
  BY <1>1, FS_Subset
<1>3. f \in Surjection(pairs, EdgeRows(spans))
  BY DEF Surjection, EdgeRows
<1> HIDE DEF pairs, f
<1> QED
  BY <1>2, <1>3, FS_Surjection

\* Derive: the ends of a call and the services that log are nodes.
LEMMA NodesOfGraph ==
    ASSUME NEW spans, NEW logs
    PROVE  LET g == Derive(spans, logs)
               Named == {n.service : n \in g.nodes} \cup {None}
           IN  /\ g.edges = EdgeRows(spans) /\ Ends(g.edges) \subseteq Named
               /\ \A l \in logs : l.recent => l.service \in Named
<1> DEFINE edges == EdgeRows(spans)
           traced == {s.service : s \in {s \in spans : s.recent}}
           logged == {l.service : l \in {l \in logs : l.recent}}
           HasTraces(svc) == svc \in traced \/ (svc \in Ends(edges) /\ svc \notin logged)
           cov(svc) == coverage(HasTraces(svc), svc \in logged)
           names == (traced \cup logged \cup Ends(edges)) \ {None}
           g == Derive(spans, logs)
<1>1. g.edges = edges /\ g.nodes = {[service |-> svc, coverage |-> cov(svc)] : svc \in names}
  BY Zenon DEF Derive
<1>2. \A l \in logs : l.recent => l.service \in names \cup {None}
  OBVIOUS
<1>3. Ends(edges) \subseteq names \cup {None}
  OBVIOUS
<1> HIDE DEF edges, cov, names, g
<1>4. ASSUME NEW svc \in names PROVE svc \in {n.service : n \in g.nodes}
  <2> DEFINE n == [service |-> svc, coverage |-> cov(svc)]
  <2>1. n \in g.nodes /\ n.service = svc
    BY <1>1
  <2> QED
    BY <2>1
<1> QED
  BY <1>1, <1>2, <1>3, <1>4 DEF edges, g

\* FocusBlastRadius: the trimmed graph keeps the ends of its calls.
LEMMA TrimmedGraph ==
    ASSUME NEW g, NEW svc, Ends(g.edges) \subseteq {n.service : n \in g.nodes} \cup {None},
           \A e \in g.edges : e = <<e[1], e[2]>>
    PROVE  LET f == FocusBlastRadius(g, svc)
           IN  f.radius = Upstream(g.edges, svc).seen /\ Ends(f.edges) \subseteq {n.service : n \in f.nodes} \cup {None}
<1> DEFINE f == FocusBlastRadius(g, svc)
<1>1. /\ f.radius = Upstream(g.edges, svc).seen
      /\ f.edges = {e \in g.edges : svc \in {e[1], e[2]}}
      /\ f.nodes = {n \in g.nodes : n.service = svc \/ <<n.service, svc>> \in g.edges \/ <<svc, n.service>> \in g.edges}
  BY DEF FocusBlastRadius
<1> HIDE DEF f
<1>2. ASSUME NEW e \in f.edges, NEW x \in {e[1], e[2]}, x # None PROVE x \in {n.service : n \in f.nodes}
  <2>1. e \in g.edges /\ svc \in {e[1], e[2]} /\ e = <<e[1], e[2]>>
    BY <1>1, <1>2
  <2>2. PICK n \in g.nodes : n.service = x
    BY <1>2, <2>1 DEF Ends
  <2>3. x = svc \/ e = <<x, svc>> \/ e = <<svc, x>>
    BY <1>2, <2>1
  <2>4. n \in f.nodes
    BY <1>1, <2>1, <2>2, <2>3
  <2> QED
    BY <2>2, <2>4
<1>3. Ends(f.edges) \subseteq {n.service : n \in f.nodes} \cup {None}
  BY <1>2 DEF Ends
<1> QED
  BY <1>1, <1>3 DEF f

\* Derive, FocusBlastRadius, any finite set of spans and any logs: the radius of a
\* service is exactly the services that reach it over calls, the loop ends, and
\* the graph and its trimmed form have the services of their calls.
THEOREM RadiusIsExact == TopologySpec => []BlastRadiusIsCallers
<1>1. TopologyInit => IsFiniteSet(input.spans)
  BY DEF TopologyInit
<1>2. IsFiniteSet(input.spans) /\ [Submit("topology")]_vars => IsFiniteSet(input.spans)'
  BY DEF Submit, vars
<1>3. IsFiniteSet(input.spans) => BlastRadiusIsCallers
  <2> SUFFICES ASSUME IsFiniteSet(input.spans) PROVE BlastRadiusIsCallers
    OBVIOUS
  <2> DEFINE spans == input.spans
             logs == input.logs
             g == Derive(spans, logs)
             Named(G) == {n.service : n \in G.nodes} \cup {None}
  <2>1. g.edges = EdgeRows(spans) /\ Ends(g.edges) \subseteq Named(g) /\ \A l \in logs : l.recent => l.service \in Named(g)
    BY NodesOfGraph, Zenon
  <2>2. IsFiniteSet(g.edges) /\ \A e \in g.edges : e = <<e[1], e[2]>>
    <3>1. \A e \in EdgeRows(spans) : e = <<e[1], e[2]>>
      BY DEF EdgeRows
    <3> QED
      BY <2>1, <3>1, EdgesFinite
  <2>3. ASSUME NEW svc \in Service \ {None}
        PROVE  LET f == Topology(spans, logs, svc)
               IN  /\ Upstream(g.edges, svc).stack = <<>> /\ f.radius = Reaching(g.edges, svc)
                   /\ Ends(f.edges) \subseteq Named(f)
    <3> DEFINE f == Topology(spans, logs, svc)
    <3>1. f = FocusBlastRadius(g, svc)
      BY <2>3 DEF Topology
    <3>2. Upstream(g.edges, svc).stack = <<>> /\ Upstream(g.edges, svc).seen = Reaching(g.edges, svc)
      BY <2>2, RadiusIsReaching
    <3> HIDE DEF g
    <3>3. LET h == FocusBlastRadius(g, svc)
          IN  h.radius = Upstream(g.edges, svc).seen /\ Ends(h.edges) \subseteq {n.service : n \in h.nodes} \cup {None}
      BY <2>1, <2>2, TrimmedGraph
    <3> HIDE DEF f
    <3> QED
      BY <3>1, <3>2, <3>3 DEF f
  <2> HIDE DEF g
  <2> QED
    BY <2>1, <2>3, Zenon DEF BlastRadiusIsCallers, g
<1> QED
  BY <1>1, <1>2, <1>3, PTL DEF TopologySpec

-----------------------------------------------------------------------------
(* The timeline *)

\* SetToSeqs: the sequences of a finite set, each element once.
LEMMA SequencesOfSet ==
    ASSUME NEW T, IsFiniteSet(T), NEW q \in SetToSeqs(T)
    PROVE  /\ q \in Seq(T) /\ Len(q) = Cardinality(T) /\ Cardinality(T) \in Nat /\ T = {q[i] : i \in 1..Len(q)}
           /\ \A i, j \in 1..Len(q) : q[i] = q[j] => i = j
<1> DEFINE n == Cardinality(T)
<1>1. n \in Nat
  BY FS_CardinalityType
<1>2. q \in [1..n -> T] /\ \A i, j \in 1..n : i # j => q[i] # q[j]
  BY DEF SetToSeqs
<1>3. q \in Injection(1..n, T)
  BY <1>2 DEF Injection, IsInjective
<1>4. Cardinality(1..n) = n
  BY <1>1, FS_Interval
<1>5. q \in Surjection(1..n, T)
  BY <1>3, <1>4, FS_Injection
<1> HIDE DEF n
<1>6. T = {q[i] : i \in 1..n}
  BY <1>2, <1>5 DEF Surjection
<1>7. q \in Seq(T) /\ Len(q) = n
  BY <1>1, <1>2
<1> QED
  BY <1>1, <1>2, <1>6, <1>7 DEF n

\* A finite set can be listed in any strict total order.
LEMMA Listed ==
    ASSUME NEW T, IsFiniteSet(T), NEW R,
           \A x \in T : <<x, x>> \notin R,
           \A x, y \in T : x # y => <<x, y>> \in R \/ <<y, x>> \in R,
           \A x, y, z \in T : <<x, y>> \in R /\ <<y, z>> \in R => <<x, z>> \in R
    PROVE  \E q \in SetToSeqs(T) : \A i, j \in DOMAIN q : i < j => <<q[i], q[j]>> \in R
<1> DEFINE n == Cardinality(T)
           Below(x) == {y \in T : <<y, x>> \in R}
           rank == [x \in T |-> Cardinality(Below(x)) + 1]
<1>1. n \in Nat
  BY FS_CardinalityType
<1>2. ASSUME NEW x \in T PROVE IsFiniteSet(Below(x)) /\ Cardinality(Below(x)) \in Nat /\ Cardinality(Below(x)) < n
  <2>1. Below(x) \in SUBSET T /\ x \notin Below(x)
    OBVIOUS
  <2>2. IsFiniteSet(Below(x)) /\ Cardinality(Below(x)) <= n /\ (n = Cardinality(Below(x)) => T = Below(x))
    BY <2>1, FS_Subset
  <2>3. Cardinality(Below(x)) \in Nat
    BY <2>2, FS_CardinalityType
  <2> QED
    BY <1>1, <2>1, <2>2, <2>3
<1>3. ASSUME NEW x \in T, NEW y \in T, <<x, y>> \in R PROVE Cardinality(Below(x)) < Cardinality(Below(y))
  <2>1. Below(x) \in SUBSET Below(y) /\ x \in Below(y) /\ x \notin Below(x)
    BY <1>3
  <2>2. Cardinality(Below(x)) <= Cardinality(Below(y)) /\ (Cardinality(Below(y)) = Cardinality(Below(x)) => Below(y) = Below(x))
    BY <1>2, <2>1, FS_Subset
  <2>3. Cardinality(Below(x)) \in Nat /\ Cardinality(Below(y)) \in Nat
    BY <1>2
  <2>4. Below(y) # Below(x)
    BY <2>1
  <2> HIDE DEF Below
  <2> QED
    BY <2>2, <2>3, <2>4
<1> HIDE DEF Below
<1>4. rank \in [T -> 1..n]
  BY <1>1, <1>2 DEF n
<1>5. \A x \in T, y \in T : <<x, y>> \in R => rank[x] < rank[y]
  BY <1>2, <1>3
<1>6. \A x \in T : rank[x] \in Int
  BY <1>2
<1> HIDE DEF rank
<1>7. rank \in Injection(T, 1..n)
  <2> SUFFICES ASSUME NEW x \in T, NEW y \in T, x # y PROVE rank[x] # rank[y]
    <3>1. DOMAIN rank = T
      BY <1>4
    <3> QED
      BY <1>4, <3>1 DEF Injection, IsInjective
  <2>1. <<x, y>> \in R \/ <<y, x>> \in R
    OBVIOUS
  <2>2. rank[x] < rank[y] \/ rank[y] < rank[x]
    BY <1>5, <2>1
  <2>3. rank[x] \in Int /\ rank[y] \in Int
    BY <1>6
  <2> QED
    BY <2>2, <2>3
<1>8. IsFiniteSet(1..n) /\ Cardinality(1..n) = n
  BY <1>1, FS_Interval
<1>9. \A k \in 1..n : \E x \in T : rank[x] = k
  <2>1. rank \in Surjection(T, 1..n)
    BY <1>7, <1>8, FS_Injection
  <2> QED
    BY <2>1 DEF Surjection
<1> DEFINE q == [k \in 1..n |-> CHOOSE x \in T : rank[x] = k]
<1>10. \A k \in 1..n : q[k] \in T /\ rank[q[k]] = k
  BY <1>9
<1>11. DOMAIN q = 1..n /\ q \in [1..n -> T]
  BY <1>10
<1> HIDE DEF q
<1>12. q \in SetToSeqs(T)
  BY <1>10, <1>11 DEF SetToSeqs, n
<1>13. ASSUME NEW i \in 1..n, NEW j \in 1..n, i < j PROVE <<q[i], q[j]>> \in R
  <2>1. q[i] \in T /\ q[j] \in T /\ rank[q[i]] = i /\ rank[q[j]] = j
    BY <1>10
  <2>2. q[i] # q[j]
    BY <1>13, <2>1
  <2>3. ~(<<q[j], q[i]>> \in R)
    BY <1>1, <1>5, <1>13, <2>1
  <2> QED
    BY <2>1, <2>2, <2>3
<1> QED
  BY <1>11, <1>12, <1>13

\* A finite set can be listed by a key of its members, equal keys in some order.
LEMMA SortedBy ==
    ASSUME NEW S, IsFiniteSet(S), NEW key \in [S -> Int]
    PROVE  \E d \in SetToSeqs(S) : \A i, j \in DOMAIN d : i < j => key[d[i]] <= key[d[j]]
<1>1. PICK f : f \in Bijection(1..Cardinality(S), S)
  BY FS_CardinalityType DEF ExistsBijection
<1>2. /\ Cardinality(S) \in Nat /\ f \in [1..Cardinality(S) -> S]
      /\ \A s \in S : \E k \in 1..Cardinality(S) : f[k] = s
  BY <1>1, FS_CardinalityType DEF Bijection, Surjection
<1> DEFINE at == [s \in S |-> CHOOSE k \in 1..Cardinality(S) : f[k] = s]
<1>3. \A s \in S : at[s] \in Int /\ f[at[s]] = s /\ key[s] \in Int
  BY <1>2
<1> HIDE DEF at
<1>4. \A x, y \in S : at[x] = at[y] => x = y
  BY <1>3
<1> DEFINE Before(x, y) == key[x] < key[y] \/ (key[x] = key[y] /\ at[x] < at[y])
           R == {p \in S \X S : Before(p[1], p[2])}
<1>5. \A x \in S : ~Before(x, x)
  BY <1>3
<1>6. ASSUME NEW x \in S, NEW y \in S, x # y PROVE Before(x, y) \/ Before(y, x)
  BY <1>3, <1>4, <1>6
<1>7. ASSUME NEW x \in S, NEW y \in S, NEW z \in S, Before(x, y), Before(y, z) PROVE Before(x, z)
  BY <1>3, <1>7
<1>8. \A x, y \in S : Before(x, y) => key[x] <= key[y]
  BY <1>3
<1> HIDE DEF Before
<1>9. \A x, y \in S : <<x, y>> \in R <=> Before(x, y)
  OBVIOUS
<1> HIDE DEF R
<1>10. \A x \in S : <<x, x>> \notin R
  BY <1>5, <1>9
<1>11. \A x, y \in S : x # y => <<x, y>> \in R \/ <<y, x>> \in R
  BY <1>6, <1>9
<1>12. \A x, y, z \in S : <<x, y>> \in R /\ <<y, z>> \in R => <<x, z>> \in R
  BY <1>7, <1>9
<1>13. PICK d \in SetToSeqs(S) : \A i, j \in DOMAIN d : i < j => <<d[i], d[j]>> \in R
  BY <1>10, <1>11, <1>12, Listed
<1>14. \A i \in DOMAIN d : d[i] \in S
  BY DEF SetToSeqs
<1> QED
  BY <1>8, <1>9, <1>13, <1>14

\* Newest: as many of the rows as the limit allows, each once, and none left out
\* is later than one taken.
LEMMA NewestRows ==
    ASSUME NEW S, IsFiniteSet(S), \A r \in S : r.timestamp \in Int, NEW n \in Nat
    PROVE  LET q == Newest(S, n)
           IN  /\ q \in Seq(S) /\ Len(q) = (IF n < Cardinality(S) THEN n ELSE Cardinality(S)) /\ Cardinality(S) \in Nat
               /\ \A i, j \in 1..Len(q) : q[i] = q[j] => i = j
               /\ \A r \in S : r \in ToSet(q) \/ (Len(q) = n /\ \A s \in ToSet(q) : r.timestamp <= s.timestamp)
<1> DEFINE Desc(d) == \A i, j \in DOMAIN d : i < j => d[i].timestamp >= d[j].timestamp
           desc == CHOOSE d \in SetToSeqs(S) : Desc(d)
           m == IF n < Len(desc) THEN n ELSE Len(desc)
           q == Newest(S, n)
<1>1. q = SubSeq(desc, 1, m)
  BY DEF Newest
<1>2. \E d \in SetToSeqs(S) : Desc(d)
  <2> DEFINE key == [r \in S |-> 0 - r.timestamp]
  <2>1. key \in [S -> Int] /\ \A x, y \in S : key[x] <= key[y] => x.timestamp >= y.timestamp
    OBVIOUS
  <2> HIDE DEF key
  <2>2. PICK d \in SetToSeqs(S) : \A i, j \in DOMAIN d : i < j => key[d[i]] <= key[d[j]]
    BY <2>1, SortedBy
  <2>3. \A i \in DOMAIN d : d[i] \in S
    BY DEF SetToSeqs
  <2>4. Desc(d)
    BY <2>1, <2>2, <2>3
  <2> QED
    BY <2>4
<1>3. desc \in SetToSeqs(S) /\ Desc(desc)
  BY <1>2
<1> HIDE DEF desc, Desc
<1>4. /\ desc \in Seq(S) /\ Len(desc) = Cardinality(S) /\ Cardinality(S) \in Nat /\ S = {desc[i] : i \in 1..Len(desc)}
      /\ \A i, j \in 1..Len(desc) : desc[i] = desc[j] => i = j
  BY <1>3, SequencesOfSet
<1>l. desc \in Seq(S) /\ Len(desc) = Cardinality(S) /\ Cardinality(S) \in Nat
  BY <1>4, Zenon
<1>5. m \in Nat /\ m <= Len(desc) /\ m = IF n < Cardinality(S) THEN n ELSE Cardinality(S)
  BY <1>l
<1>6. m = Len(desc) \/ m = n
  OBVIOUS
<1> HIDE DEF m, q
<1>7. q \in Seq(S) /\ Len(q) = m /\ \A i \in 1..m : q[i] = desc[i] /\ i \in 1..Len(desc)
  BY <1>1, <1>l, <1>5
<1>8. ToSet(q) = {q[i] : i \in 1..Len(q)}
  BY <1>7 DEF ToSet
<1>9. ASSUME NEW r \in S, r \notin ToSet(q)
      PROVE  Len(q) = n /\ \A s \in ToSet(q) : r.timestamp <= s.timestamp
  <2>1. PICK j \in 1..Len(desc) : desc[j] = r
    BY <1>4
  <2>2. j \notin 1..m
    BY <1>7, <1>8, <1>9, <2>1
  <2>a. Len(desc) \in Nat /\ m \in Nat
    BY <1>l, <1>5
  <2>3. m # Len(desc) /\ j \in Nat /\ m < j
    BY <2>a, <2>2
  <2>4. ASSUME NEW s \in ToSet(q) PROVE r.timestamp <= s.timestamp
    <3>1. PICK i \in 1..m : s = desc[i] /\ i \in 1..Len(desc)
      BY <1>7, <1>8
    <3>2. i < j
      BY <2>a, <2>3
    <3>3. DOMAIN desc = 1..Len(desc)
      BY <1>l
    <3>4. desc[i].timestamp >= desc[j].timestamp
      BY <1>3, <2>1, <3>1, <3>2, <3>3 DEF Desc
    <3>5. s \in S
      BY <1>l, <3>1
    <3> QED
      BY <2>1, <3>1, <3>4, <3>5
  <2> QED
    BY <1>6, <1>7, <2>3, <2>4
<1>10. \A i, j \in 1..Len(q) : q[i] = q[j] => i = j
  BY <1>4, <1>7
<1> QED
  BY <1>l, <1>5, <1>7, <1>9, <1>10 DEF q

\* No element of a sequence comes twice.
Distinct(q) == \A i, j \in 1..Len(q) : q[i] = q[j] => i = j

Ascending(q) == \A i, j \in 1..Len(q) : i < j => q[i].timestamp <= q[j].timestamp

\* The elements of a sequence are those at its places.
LEMMA Elements ==
    ASSUME NEW A, NEW q \in Seq(A)
    PROVE  ToSet(q) = {q[i] : i \in 1..Len(q)} /\ DOMAIN q = 1..Len(q) /\ ToSet(q) \subseteq A
BY DEF ToSet

\* A sequence without repetition has as many elements as places.
LEMMA DistinctCount ==
    ASSUME NEW A, NEW q \in Seq(A), Distinct(q)
    PROVE  IsFiniteSet(ToSet(q)) /\ Cardinality(ToSet(q)) = Len(q)
<1> DEFINE n == Len(q)
           T == ToSet(q)
<1>1. T = {q[i] : i \in 1..n} /\ DOMAIN q = 1..n
  BY Elements, Zenon
<1>2. n \in Nat
  OBVIOUS
<1> HIDE DEF T
<1>3. q \in [1..n -> T]
  BY <1>1
<1>4. q \in Bijection(1..n, T)
  BY <1>1, <1>3 DEF Bijection, Injection, Surjection, IsInjective, Distinct
<1>5. IsFiniteSet(1..n) /\ Cardinality(1..n) = n
  BY <1>2, FS_Interval
<1>6. ExistsBijection(1..n, T)
  BY <1>4 DEF ExistsBijection
<1> HIDE DEF n
<1>7. IsFiniteSet(T) /\ Cardinality(T) = n
  BY <1>5, <1>6, FS_Bijection
<1> QED
  BY <1>7 DEF T, n

\* The events of two queries one after the other.
LEMMA ConcatDistinct ==
    ASSUME NEW A, NEW q \in Seq(A), NEW r \in Seq(A), Distinct(q), Distinct(r), ToSet(q) \cap ToSet(r) = {}
    PROVE  /\ q \o r \in Seq(A) /\ Len(q \o r) = Len(q) + Len(r)
           /\ Distinct(q \o r) /\ ToSet(q \o r) = ToSet(q) \cup ToSet(r)
<1> DEFINE c == q \o r
<1>1. /\ q \o r \in Seq(A) /\ Len(q \o r) = Len(q) + Len(r) /\ Len(q) \in Nat /\ Len(r) \in Nat
      /\ \A i \in 1..Len(q) : (q \o r)[i] = q[i] /\ i \in 1..Len(q \o r)
      /\ \A i \in 1..Len(r) : (q \o r)[Len(q) + i] = r[i] /\ Len(q) + i \in 1..Len(q \o r)
      /\ \A k \in 1..Len(q \o r) :
           \/ k \in 1..Len(q)
           \/ \E i \in 1..Len(r) : k = Len(q) + i
  BY Concat
<1> HIDE DEF c
<1>2. /\ c \in Seq(A) /\ Len(c) = Len(q) + Len(r) /\ Len(q) \in Nat /\ Len(r) \in Nat
      /\ \A i \in 1..Len(q) : c[i] = q[i] /\ i \in 1..Len(c)
      /\ \A i \in 1..Len(r) : c[Len(q) + i] = r[i] /\ Len(q) + i \in 1..Len(c)
      /\ \A k \in 1..Len(c) : k \in 1..Len(q) \/ \E i \in 1..Len(r) : k = Len(q) + i
  BY <1>1 DEF c
<1>3. /\ ToSet(q) = {q[i] : i \in 1..Len(q)} /\ ToSet(r) = {r[i] : i \in 1..Len(r)}
      /\ ToSet(c) = {c[i] : i \in 1..Len(c)}
  BY <1>2, Elements, Zenon
<1>4. \A i \in 1..Len(q), j \in 1..Len(r) : q[i] # r[j]
  BY <1>3
<1>5. ASSUME NEW k \in 1..Len(c), NEW l \in 1..Len(c), c[k] = c[l] PROVE k = l
  <2>1. CASE k \in 1..Len(q) /\ l \in 1..Len(q)
    BY <1>2, <1>5, <2>1 DEF Distinct
  <2>2. CASE k \in 1..Len(q) /\ \E j \in 1..Len(r) : l = Len(q) + j
    <3>1. PICK j \in 1..Len(r) : l = Len(q) + j
      BY <2>2
    <3>2. q[k] = r[j]
      BY <1>2, <1>5, <2>2, <3>1
    <3> QED
      BY <1>4, <2>2, <3>2
  <2>3. CASE l \in 1..Len(q) /\ \E j \in 1..Len(r) : k = Len(q) + j
    <3>1. PICK j \in 1..Len(r) : k = Len(q) + j
      BY <2>3
    <3>2. q[l] = r[j]
      BY <1>2, <1>5, <2>3, <3>1
    <3> QED
      BY <1>4, <2>3, <3>2
  <2>4. CASE (\E j \in 1..Len(r) : k = Len(q) + j) /\ (\E j \in 1..Len(r) : l = Len(q) + j)
    <3>1. PICK i \in 1..Len(r), j \in 1..Len(r) : k = Len(q) + i /\ l = Len(q) + j
      BY <2>4
    <3>2. r[i] = r[j]
      BY <1>2, <1>5, <3>1
    <3>3. i = j
      BY <3>2 DEF Distinct
    <3> QED
      BY <3>1, <3>3
  <2> QED
    BY <1>2, <2>1, <2>2, <2>3, <2>4
<1>6. ToSet(c) = ToSet(q) \cup ToSet(r)
  <2>1. ASSUME NEW k \in 1..Len(c) PROVE c[k] \in ToSet(q) \cup ToSet(r)
    <3>1. CASE k \in 1..Len(q)
      BY <1>2, <1>3, <3>1
    <3>2. CASE \E i \in 1..Len(r) : k = Len(q) + i
      BY <1>2, <1>3, <3>2
    <3> QED
      BY <1>2, <3>1, <3>2
  <2>2. ASSUME NEW i \in 1..Len(q) PROVE q[i] \in ToSet(c)
    BY <1>2, <1>3
  <2>3. ASSUME NEW i \in 1..Len(r) PROVE r[i] \in ToSet(c)
    BY <1>2, <1>3
  <2> QED
    BY <1>3, <2>1, <2>2, <2>3
<1> QED
  BY <1>2, <1>5, <1>6 DEF c, Distinct

\* SortStable: the same events, in ascending order of time.
LEMMA StableSorted ==
    ASSUME NEW A, \A r \in A : r.timestamp \in Int, NEW q \in Seq(A), Distinct(q)
    PROVE  LET s == SortStable(q)
           IN  s \in Seq(A) /\ Len(s) = Len(q) /\ ToSet(s) = ToSet(q) /\ Distinct(s) /\ Ascending(s)
<1> DEFINE n == Len(q)
           D == 1..n
           Before(x, y) == q[x].timestamp < q[y].timestamp \/ (q[x].timestamp = q[y].timestamp /\ x < y)
           Sorting(p) == \A i, j \in DOMAIN p : i < j => Before(p[i], p[j])
           p == CHOOSE r \in SetToSeqs(DOMAIN q) : Sorting(r)
           s == SortStable(q)
<1>1. n \in Nat /\ DOMAIN q = D /\ \A x \in D : q[x] \in A /\ q[x].timestamp \in Int
  OBVIOUS
<1>2. s = [i \in DOMAIN q |-> q[p[i]]]
  BY DEF SortStable
<1>3. IsFiniteSet(D) /\ Cardinality(D) = n
  <2>1. n \in Nat
    OBVIOUS
  <2> HIDE DEF n
  <2> QED
    BY <2>1, FS_Interval
<1>b. \A x \in D : ~Before(x, x)
  BY <1>1
<1>c. \A x, y \in D : x # y => Before(x, y) \/ Before(y, x)
  BY <1>1
<1>d. ASSUME NEW x \in D, NEW y \in D, NEW z \in D, Before(x, y), Before(y, z) PROVE Before(x, z)
  <2>1. /\ q[x].timestamp \in Int /\ q[y].timestamp \in Int /\ q[z].timestamp \in Int
        /\ x \in Int /\ y \in Int /\ z \in Int
    BY <1>1
  <2> QED
    BY <1>d, <2>1
<1>e. \A x, y \in D : Before(x, y) => q[x].timestamp <= q[y].timestamp
  BY <1>1
<1> HIDE DEF Before, s
<1>4. \E r \in SetToSeqs(D) : Sorting(r)
  <2> DEFINE R == {xy \in D \X D : Before(xy[1], xy[2])}
  <2>1. \A x, y \in D : <<x, y>> \in R <=> Before(x, y)
    OBVIOUS
  <2> HIDE DEF R, D
  <2>2. /\ \A x \in D : <<x, x>> \notin R
        /\ \A x, y \in D : x # y => <<x, y>> \in R \/ <<y, x>> \in R
        /\ \A x, y, z \in D : <<x, y>> \in R /\ <<y, z>> \in R => <<x, z>> \in R
    BY <1>b, <1>c, <1>d, <2>1
  <2>3. PICK r \in SetToSeqs(D) : \A i, j \in DOMAIN r : i < j => <<r[i], r[j]>> \in R
    BY <1>3, <2>2, Listed
  <2>4. \A i \in DOMAIN r : r[i] \in D
    BY DEF SetToSeqs
  <2> QED
    BY <2>1, <2>3, <2>4
<1> HIDE DEF Sorting
<1>5. p \in SetToSeqs(D) /\ Sorting(p)
  <2>1. DOMAIN q = D
    BY <1>1
  <2> HIDE DEF D
  <2> QED
    BY <1>4, <2>1
<1> HIDE DEF p, D
<1>6. /\ p \in Seq(D) /\ Len(p) = n /\ D = {p[i] : i \in 1..Len(p)}
      /\ \A i, j \in 1..Len(p) : p[i] = p[j] => i = j
  BY <1>3, <1>5, SequencesOfSet
<1>7. DOMAIN p = D /\ (\A i \in D : p[i] \in D) /\ (\A i, j \in D : p[i] = p[j] => i = j) /\ (\A x \in D : \E i \in D : p[i] = x)
  <2>1. DOMAIN p = 1..n /\ D = 1..n
    BY <1>6 DEF D
  <2>2. \A i \in D : p[i] \in D
    <3>1. \A i \in 1..Len(p) : p[i] \in D
      BY <1>6
    <3> QED
      BY <1>6, <2>1, <3>1
  <2>3. \A i, j \in D : p[i] = p[j] => i = j
    BY <1>6, Zenon DEF D
  <2>4. \A x \in D : \E i \in D : p[i] = x
    BY <1>6, Zenon DEF D
  <2> QED
    BY <2>1, <2>2, <2>3, <2>4
<1>8. s \in Seq(A) /\ Len(s) = n /\ \A i \in D : s[i] = q[p[i]]
  BY <1>1, <1>2, <1>7 DEF D
<1>9. ToSet(s) = {s[i] : i \in D} /\ ToSet(q) = {q[i] : i \in D}
  BY <1>1, <1>8, Elements, Zenon DEF D
<1>10. ToSet(s) = ToSet(q)
  BY <1>7, <1>8, <1>9
<1>11. Distinct(s)
  <2> SUFFICES ASSUME NEW i \in D, NEW j \in D, s[i] = s[j] PROVE i = j
    BY <1>8 DEF Distinct, D
  <2>1. q[p[i]] = q[p[j]] /\ p[i] \in D /\ p[j] \in D
    BY <1>7, <1>8
  <2>2. p[i] = p[j]
    BY <2>1 DEF Distinct, D
  <2> QED
    BY <1>7, <2>2
<1>12. Ascending(s)
  <2> SUFFICES ASSUME NEW i \in D, NEW j \in D, i < j PROVE s[i].timestamp <= s[j].timestamp
    BY <1>8 DEF Ascending, D
  <2>1. Before(p[i], p[j]) /\ p[i] \in D /\ p[j] \in D
    BY <1>5, <1>7 DEF Sorting
  <2>2. q[p[i]].timestamp <= q[p[j]].timestamp
    BY <1>e, <2>1
  <2>3. s[i] = q[p[i]] /\ s[j] = q[p[j]]
    BY <1>8
  <2> QED
    BY <2>2, <2>3, Zenon
<1> QED
  BY <1>8, <1>10, <1>11, <1>12 DEF s

\* The last n of the events in order.
LastOf(all, n) == IF Len(all) > n THEN SubSeq(all, Len(all) - n + 1, Len(all)) ELSE all

\* They are in order, none left out is later, and n events have one among them
\* that is no later than any that is kept.
LEMMA LastAreLatest ==
    ASSUME NEW A, \A r \in A : r.timestamp \in Int, NEW all \in Seq(A), Distinct(all), Ascending(all), NEW n \in Nat
    PROVE  LET feed == LastOf(all, n)
           IN  /\ feed \in Seq(A) /\ Len(feed) = (IF Len(all) < n THEN Len(all) ELSE n)
               /\ Distinct(feed) /\ Ascending(feed) /\ ToSet(feed) \subseteq ToSet(all)
               /\ \A r \in ToSet(all) \ ToSet(feed), s \in ToSet(feed) : r.timestamp <= s.timestamp
               /\ \A T \in SUBSET ToSet(all), s \in ToSet(feed) :
                    IsFiniteSet(T) /\ Cardinality(T) = n => \E t \in T : t.timestamp <= s.timestamp
<1> DEFINE N == Len(all)
           d == IF N > n THEN N - n ELSE 0
           feed == LastOf(all, n)
<1>1. N \in Nat /\ d \in Nat /\ d <= N /\ N - d <= n /\ N - d = (IF N < n THEN N ELSE n)
  <2>1. N \in Nat
    OBVIOUS
  <2> HIDE DEF N
  <2>2. CASE N > n
    BY <2>1, <2>2
  <2>3. CASE ~(N > n)
    BY <2>1, <2>3
  <2> QED
    BY <2>2, <2>3
<1>2. feed \in Seq(A) /\ Len(feed) = N - d /\ \A i \in 1..(N - d) : feed[i] = all[i + d]
  <2>1. CASE N > n
    <3>1. feed = SubSeq(all, d + 1, N)
      BY <2>1 DEF LastOf
    <3> HIDE DEF feed, d
    <3>2. feed \in Seq(A) /\ Len(feed) = N - d /\ \A i \in 1..(N - d) : feed[i] = all[(d + 1) + i - 1]
      BY <1>1, <3>1
    <3> QED
      BY <1>1, <3>2
  <2>2. CASE ~(N > n)
    <3>1. feed = all /\ d = 0
      BY <2>2 DEF LastOf
    <3> HIDE DEF feed, d
    <3> QED
      BY <3>1
  <2> QED
    BY <2>1, <2>2
<1>3. \A i \in 1..N : all[i] \in A /\ all[i].timestamp \in Int
  OBVIOUS
<1> HIDE DEF feed, d, N
<1>4. ToSet(all) = {all[i] : i \in 1..N} /\ ToSet(feed) = {feed[i] : i \in 1..(N - d)}
  BY <1>2, Elements, Zenon DEF N
<1>5. \A i \in 1..(N - d) : i + d \in 1..N
  BY <1>1
<1>6. Distinct(feed)
  <2> SUFFICES ASSUME NEW i \in 1..(N - d), NEW j \in 1..(N - d), feed[i] = feed[j] PROVE i = j
    BY <1>2 DEF Distinct
  <2>1. i + d = j + d
    BY <1>2, <1>5 DEF Distinct, N
  <2> QED
    BY <1>1, <2>1
<1>7. Ascending(feed)
  <2> SUFFICES ASSUME NEW i \in 1..(N - d), NEW j \in 1..(N - d), i < j PROVE feed[i].timestamp <= feed[j].timestamp
    BY <1>2 DEF Ascending
  <2>1. i + d < j + d /\ i + d \in 1..N /\ j + d \in 1..N
    BY <1>1, <1>5
  <2>2. all[i + d].timestamp <= all[j + d].timestamp
    BY <2>1 DEF Ascending, N
  <2>3. feed[i] = all[i + d] /\ feed[j] = all[j + d]
    BY <1>2
  <2> QED
    BY <2>2, <2>3, Zenon
<1>8. ASSUME NEW s \in ToSet(feed) PROVE \E k \in 1..N : s = all[k] /\ k > d
  <2>1. PICK i \in 1..(N - d) : s = feed[i]
    BY <1>4
  <2>2. i + d \in 1..N /\ i + d > d /\ s = all[i + d]
    BY <1>1, <1>2, <1>5, <2>1
  <2> QED
    BY <2>2
<1>9. ASSUME NEW k \in 1..N, k > d PROVE all[k] \in ToSet(feed)
  <2>1. k - d \in 1..(N - d) /\ (k - d) + d = k
    BY <1>1, <1>9
  <2>2. feed[k - d] = all[k]
    BY <1>2, <2>1
  <2> QED
    BY <1>4, <2>1, <2>2
<1>10. ToSet(feed) \subseteq ToSet(all)
  BY <1>4, <1>8
<1>11. ASSUME NEW r \in ToSet(all) \ ToSet(feed), NEW s \in ToSet(feed) PROVE r.timestamp <= s.timestamp
  <2>1. PICK j \in 1..N : r = all[j]
    BY <1>4
  <2>2. PICK k \in 1..N : s = all[k] /\ k > d
    BY <1>8
  <2>3. ~(j > d)
    BY <1>9, <2>1
  <2>4. j < k
    BY <1>1, <2>2, <2>3
  <2>5. all[j].timestamp <= all[k].timestamp
    BY <2>4 DEF Ascending, N
  <2> QED
    BY <2>1, <2>2, <2>5
<1>12. ASSUME NEW T \in SUBSET ToSet(all), NEW s \in ToSet(feed), IsFiniteSet(T), Cardinality(T) = n,
              \A t \in T : ~(t.timestamp <= s.timestamp)
       PROVE  FALSE
  <2>1. PICK k \in 1..N : s = all[k] /\ k > d
    BY <1>8
  <2> DEFINE later == (k + 1)..N
             at == [t \in T |-> CHOOSE j \in 1..N : all[j] = t]
  <2>2. \A t \in T : at[t] \in 1..N /\ all[at[t]] = t
    BY <1>4
  <2> HIDE DEF at
  <2>3. ASSUME NEW t \in T PROVE at[t] \in later
    <3>1. at[t] \in 1..N /\ all[at[t]] = t /\ ~(t.timestamp <= s.timestamp)
      BY <1>12, <2>2
    <3>2. CASE at[t] < k
      <4>1. all[at[t]].timestamp <= all[k].timestamp
        BY <3>1, <3>2 DEF Ascending, N
      <4> QED
        BY <2>1, <3>1, <4>1
    <3>3. CASE at[t] = k
      <4>1. t = s
        BY <2>1, <3>1, <3>3
      <4>2. s.timestamp \in Int
        BY <1>3, <2>1
      <4> QED
        BY <3>1, <4>1, <4>2
    <3>4. CASE at[t] > k
      BY <1>1, <3>1, <3>4
    <3> QED
      BY <1>1, <3>1, <3>2, <3>3, <3>4
  <2>4. at \in [T -> later] /\ DOMAIN at = T
    BY <2>3 DEF at
  <2>5. at \in Injection(T, later)
    BY <2>2, <2>4 DEF Injection, IsInjective
  <2>6. IsFiniteSet(later) /\ Cardinality(later) = N - k
    <3>1. k \in Int /\ k + 1 \in Int /\ N \in Int /\ k <= N
      BY <1>1
    <3> HIDE DEF N
    <3>2. IsFiniteSet((k + 1)..N) /\ Cardinality((k + 1)..N) = (IF k + 1 > N THEN 0 ELSE N - (k + 1) + 1)
      BY <3>1, FS_Interval
    <3> QED
      BY <3>1, <3>2
  <2> HIDE DEF later
  <2>7. Cardinality(T) <= Cardinality(later)
    BY <2>5, <2>6, FS_Injection
  <2> QED
    BY <1>1, <1>12, <2>1, <2>6, <2>7
<1> QED
  BY <1>1, <1>2, <1>6, <1>7, <1>10, <1>11, <1>12 DEF feed, N

\* Three queries, each cut at the limit: together they reach the limit whenever
\* the rows do.
LEMMA CutSum ==
    ASSUME NEW a \in Nat, NEW b \in Nat, NEW c \in Nat, NEW n \in Nat
    PROVE  LET Cut(x) == IF n < x THEN n ELSE x
               all == Cut(a) + Cut(b) + Cut(c)
           IN  (IF all < n THEN all ELSE n) = (IF a + b + c < n THEN a + b + c ELSE n)
OBVIOUS

\* Build on finitely many rows, for any limit.
LEMMA FeedIsLatest ==
    ASSUME NEW p, NEW rows, IsFiniteSet(rows), \A r \in rows : r.timestamp \in Int, p.limit \in Int
    PROVE  LET feed == Build(p, rows)
               n == timelineLimit(p.limit)
               scope == UNION {Scope(p, rows, y) : y \in EventType}
           IN  /\ \A i, j \in DOMAIN feed : i < j => feed[i] # feed[j] /\ feed[i].timestamp <= feed[j].timestamp
               /\ Len(feed) = IF Cardinality(scope) < n THEN Cardinality(scope) ELSE n
               /\ ToSet(feed) \subseteq scope
               /\ \A r \in scope \ ToSet(feed), s \in ToSet(feed) : r.timestamp <= s.timestamp
<1> DEFINE n == timelineLimit(p.limit)
           S1 == Scope(p, rows, "log")
           S2 == Scope(p, rows, "span")
           S3 == Scope(p, rows, "deploy")
           q1 == Newest(S1, n)
           q2 == Newest(S2, n)
           q3 == Newest(S3, n)
           c == (q1 \o q2) \o q3
           all == SortStable(c)
           feed == Build(p, rows)
           scope == UNION {Scope(p, rows, y) : y \in EventType}
<1>1. n \in Nat
  BY TimelineAssumption DEF timelineLimit
<1>2. /\ S1 \subseteq rows /\ S2 \subseteq rows /\ S3 \subseteq rows
      /\ S1 \cap S2 = {} /\ (S1 \cup S2) \cap S3 = {}
  BY Zenon DEF Scope
<1>3. scope = (S1 \cup S2) \cup S3
  BY DEF EventType
<1>4. feed = LastOf(all, n)
  BY DEF Build, Merged, LastOf
<1> HIDE DEF n, S1, S2, S3, scope, feed
<1>5. IsFiniteSet(S1) /\ IsFiniteSet(S2) /\ IsFiniteSet(S3)
  BY <1>2, FS_Subset
<1> DEFINE Fine(q, S) ==
             /\ q \in Seq(S) /\ Len(q) = (IF n < Cardinality(S) THEN n ELSE Cardinality(S)) /\ Cardinality(S) \in Nat
             /\ Distinct(q)
             /\ \A r \in S : r \in ToSet(q) \/ (Len(q) = n /\ \A s \in ToSet(q) : r.timestamp <= s.timestamp)
<1>6. ASSUME NEW S, S \subseteq rows, IsFiniteSet(S) PROVE Fine(Newest(S, n), S)
  <2>1. \A r \in S : r.timestamp \in Int
    BY <1>6
  <2> DEFINE q == Newest(S, n)
  <2>2. /\ q \in Seq(S) /\ Len(q) = (IF n < Cardinality(S) THEN n ELSE Cardinality(S)) /\ Cardinality(S) \in Nat
        /\ \A i, j \in 1..Len(q) : q[i] = q[j] => i = j
        /\ \A r \in S : r \in ToSet(q) \/ (Len(q) = n /\ \A s \in ToSet(q) : r.timestamp <= s.timestamp)
    BY <1>1, <1>6, <2>1, NewestRows
  <2> HIDE DEF q
  <2> QED
    BY <2>2, Zenon DEF Distinct, q
<1>7. Fine(q1, S1) /\ Fine(q2, S2) /\ Fine(q3, S3)
  BY <1>2, <1>5, <1>6, Zenon
<1> HIDE DEF q1, q2, q3
<1>8. /\ q1 \in Seq(rows) /\ q2 \in Seq(rows) /\ q3 \in Seq(rows)
  BY <1>2, <1>7, SeqWider
<1>f. Distinct(q1) /\ Distinct(q2) /\ Distinct(q3)
  BY <1>7, Zenon
<1>9. ToSet(q1) \subseteq S1 /\ ToSet(q2) \subseteq S2 /\ ToSet(q3) \subseteq S3
  BY <1>7, Elements
<1>10. /\ (q1 \o q2) \in Seq(rows) /\ Len(q1 \o q2) = Len(q1) + Len(q2)
       /\ Distinct(q1 \o q2) /\ ToSet(q1 \o q2) = ToSet(q1) \cup ToSet(q2)
  <2>1. ToSet(q1) \cap ToSet(q2) = {}
    BY <1>2, <1>9
  <2> QED
    BY <1>f, <1>8, <2>1, ConcatDistinct
<1>11. /\ c \in Seq(rows) /\ Len(c) = (Len(q1) + Len(q2)) + Len(q3)
       /\ Distinct(c) /\ ToSet(c) = (ToSet(q1) \cup ToSet(q2)) \cup ToSet(q3)
  <2> DEFINE q12 == q1 \o q2
  <2>1. /\ q12 \in Seq(rows) /\ Len(q12) = Len(q1) + Len(q2) /\ Distinct(q12) /\ ToSet(q12) = ToSet(q1) \cup ToSet(q2)
        /\ c = q12 \o q3
    BY <1>10
  <2> HIDE DEF q12, c
  <2>2. ToSet(q12) \cap ToSet(q3) = {}
    BY <1>2, <1>9, <2>1
  <2>3. /\ q12 \o q3 \in Seq(rows) /\ Len(q12 \o q3) = Len(q12) + Len(q3)
        /\ Distinct(q12 \o q3) /\ ToSet(q12 \o q3) = ToSet(q12) \cup ToSet(q3)
    BY <1>f, <1>8, <2>1, <2>2, ConcatDistinct
  <2> QED
    BY <2>1, <2>3
<1> HIDE DEF c
<1>12. all \in Seq(rows) /\ Len(all) = Len(c) /\ ToSet(all) = ToSet(c) /\ Distinct(all) /\ Ascending(all)
  BY <1>11, StableSorted
<1> HIDE DEF all
<1>13. /\ feed \in Seq(rows) /\ Len(feed) = (IF Len(all) < n THEN Len(all) ELSE n)
       /\ Distinct(feed) /\ Ascending(feed) /\ ToSet(feed) \subseteq ToSet(all)
       /\ \A r \in ToSet(all) \ ToSet(feed), s \in ToSet(feed) : r.timestamp <= s.timestamp
       /\ \A T \in SUBSET ToSet(all), s \in ToSet(feed) :
            IsFiniteSet(T) /\ Cardinality(T) = n => \E t \in T : t.timestamp <= s.timestamp
  <2> DEFINE f == LastOf(all, n)
  <2>1. /\ f \in Seq(rows) /\ Len(f) = (IF Len(all) < n THEN Len(all) ELSE n)
        /\ Distinct(f) /\ Ascending(f) /\ ToSet(f) \subseteq ToSet(all)
        /\ \A r \in ToSet(all) \ ToSet(f), s \in ToSet(f) : r.timestamp <= s.timestamp
        /\ \A T \in SUBSET ToSet(all), s \in ToSet(f) :
             IsFiniteSet(T) /\ Cardinality(T) = n => \E t \in T : t.timestamp <= s.timestamp
    BY <1>1, <1>12, LastAreLatest
  <2> HIDE DEF f
  <2>2. feed = f
    BY <1>4 DEF f
  <2> QED
    BY <2>1, <2>2, Zenon
<1>14. \A i, j \in DOMAIN feed : i < j => feed[i] # feed[j] /\ feed[i].timestamp <= feed[j].timestamp
  <2>1. DOMAIN feed = 1..Len(feed) /\ \A i \in 1..Len(feed) : i \in Int
    BY <1>13
  <2> SUFFICES ASSUME NEW i \in 1..Len(feed), NEW j \in 1..Len(feed), i < j
               PROVE  feed[i] # feed[j] /\ feed[i].timestamp <= feed[j].timestamp
    BY <2>1, Zenon
  <2>2. i # j
    BY <2>1
  <2> QED
    BY <1>13, <2>2, Zenon DEF Distinct, Ascending
<1>15. Len(feed) = IF Cardinality(scope) < n THEN Cardinality(scope) ELSE n
  <2>1. /\ IsFiniteSet(S1 \cup S2) /\ Cardinality(S1 \cup S2) = Cardinality(S1) + Cardinality(S2)
        /\ Cardinality(scope) = Cardinality(S1 \cup S2) + Cardinality(S3)
    BY <1>2, <1>3, <1>5, DisjointCount
  <2> DEFINE a == Cardinality(S1)
             b == Cardinality(S2)
             d == Cardinality(S3)
             Cut(x) == IF n < x THEN n ELSE x
  <2>2. /\ a \in Nat /\ b \in Nat /\ d \in Nat /\ Cardinality(scope) = a + b + d
        /\ Len(all) = Cut(a) + Cut(b) + Cut(d) /\ Len(feed) = (IF Len(all) < n THEN Len(all) ELSE n)
    BY <1>7, <1>11, <1>12, <1>13, <2>1
  <2> HIDE DEF a, b, d
  <2>3. LET sum == Cut(a) + Cut(b) + Cut(d)
        IN  (IF sum < n THEN sum ELSE n) = (IF a + b + d < n THEN a + b + d ELSE n)
    BY <1>1, <2>2, CutSum
  <2> QED
    BY <2>2, <2>3
<1>16. ToSet(feed) \subseteq scope
  BY <1>3, <1>9, <1>11, <1>12, <1>13
<1>17. ASSUME NEW r \in scope \ ToSet(feed), NEW s \in ToSet(feed) PROVE r.timestamp <= s.timestamp
  <2>1. CASE r \in ToSet(all)
    BY <1>13, <1>17, <2>1
  <2>2. ASSUME NEW q, NEW S, S \subseteq rows, Fine(q, S), r \in S, r \notin ToSet(all), ToSet(q) \subseteq ToSet(all)
        PROVE  r.timestamp <= s.timestamp
    <3>1. r \notin ToSet(q)
      BY <2>2
    <3>2. Len(q) = n /\ \A t \in ToSet(q) : r.timestamp <= t.timestamp
      BY <2>2, <3>1
    <3>3. IsFiniteSet(ToSet(q)) /\ Cardinality(ToSet(q)) = n
      BY <2>2, <3>2, DistinctCount
    <3>4. PICK t \in ToSet(q) : t.timestamp <= s.timestamp
      BY <1>13, <2>2, <3>3
    <3>5. t \in rows /\ s \in rows /\ r \in rows
      BY <1>2, <1>3, <1>16, <2>2, Elements
    <3>6. r.timestamp \in Int /\ t.timestamp \in Int /\ s.timestamp \in Int /\ r.timestamp <= t.timestamp
      BY <3>2, <3>5
    <3> QED
      BY <3>4, <3>6
  <2>3. ToSet(q1) \subseteq ToSet(all) /\ ToSet(q2) \subseteq ToSet(all) /\ ToSet(q3) \subseteq ToSet(all)
    BY <1>11, <1>12
  <2>4. r \in S1 \/ r \in S2 \/ r \in S3
    BY <1>3
  <2> HIDE DEF Fine
  <2> QED
    BY <1>2, <1>7, <2>1, <2>2, <2>3, <2>4
<1> QED
  BY <1>14, <1>15, <1>16, <1>17 DEF feed, n, scope

\* Build, any finite set of rows, any limit: three queries, each cut at the limit,
\* merged and cut again, show the latest events in scope, in order, each once.
THEOREM FeedShowsLatest == TimelineSpec => []TimelineIsLatest
<1> DEFINE Ready == IsFiniteSet(input.rows) /\ input.p.limit \in Int /\ \A r \in input.rows : r.timestamp \in Int
<1>1. TimelineInit => Ready
  BY DEF TimelineInit
<1>2. Ready /\ [Submit("timeline")]_vars => Ready'
  BY DEF Submit, vars
<1>3. Ready => TimelineIsLatest
  <2> SUFFICES ASSUME Ready PROVE TimelineIsLatest
    OBVIOUS
  <2> QED
    BY FeedIsLatest, Zenon DEF TimelineIsLatest
<1> HIDE DEF Ready
<1> QED
  BY <1>1, <1>2, <1>3, PTL DEF TimelineSpec

-----------------------------------------------------------------------------
(* PromQL: parentheses *)

Places(s, c, n) == {j \in 1..n : s[j] = c}

\* The members of a set of positions up to i + 1: those up to i, and i + 1 if it is one.
LEMMA CountStep ==
    ASSUME NEW s, NEW c, NEW i \in Nat
    PROVE  /\ Cardinality(Places(s, c, i)) \in Nat
           /\ s[i + 1] = c => Cardinality(Places(s, c, i + 1)) = Cardinality(Places(s, c, i)) + 1
           /\ s[i + 1] # c => Cardinality(Places(s, c, i + 1)) = Cardinality(Places(s, c, i))
<1> DEFINE Up(n) == Places(s, c, n)
<1>1. IsFiniteSet(Up(i))
  <2>1. IsFiniteSet(1..i) /\ Up(i) \in SUBSET (1..i)
    BY FS_Interval DEF Places
  <2> QED
    BY <2>1, FS_Subset
<1>2. Cardinality(Up(i)) \in Nat
  BY <1>1, FS_CardinalityType
<1>3. CASE s[i + 1] = c
  <2>1. Up(i + 1) = Up(i) \cup {i + 1} /\ i + 1 \notin Up(i)
    BY <1>3 DEF Places
  <2> HIDE DEF Up
  <2>2. Cardinality(Up(i) \cup {i + 1}) = Cardinality(Up(i)) + 1
    BY <1>1, <2>1, FS_AddElement
  <2>3. Cardinality(Up(i + 1)) = Cardinality(Up(i)) + 1
    BY <2>1, <2>2
  <2> QED
    BY <1>2, <1>3, <2>3 DEF Up
<1>4. CASE s[i + 1] # c
  <2>1. Up(i + 1) = Up(i)
    BY <1>4 DEF Places
  <2>2. Cardinality(Up(i + 1)) = Cardinality(Up(i))
    BY <2>1
  <2> QED
    BY <1>2, <1>4, <2>2
<1> QED
  BY <1>3, <1>4

\* The depth after a character.
LEMMA DepthStep ==
    ASSUME NEW s, NEW i \in Nat
    PROVE  /\ Depths(s, i) \in Int /\ Depths(s, 0) = 0
           /\ s[i + 1] = "(" => Depths(s, i + 1) = Depths(s, i) + 1
           /\ s[i + 1] = ")" => Depths(s, i + 1) = Depths(s, i) - 1
           /\ s[i + 1] \notin {"(", ")"} => Depths(s, i + 1) = Depths(s, i)
<1> DEFINE Open(n) == Cardinality(Places(s, "(", n))
           Close(n) == Cardinality(Places(s, ")", n))
<1>1. /\ Open(i) \in Nat
      /\ s[i + 1] = "(" => Open(i + 1) = Open(i) + 1
      /\ s[i + 1] # "(" => Open(i + 1) = Open(i)
  BY CountStep
<1>2. /\ Close(i) \in Nat
      /\ s[i + 1] = ")" => Close(i + 1) = Close(i) + 1
      /\ s[i + 1] # ")" => Close(i + 1) = Close(i)
  BY CountStep
<1>3. \A n : Depths(s, n) = Open(n) - Close(n)
  BY DEF Depths, Places
<1>4. Open(0) = 0 /\ Close(0) = 0
  <2>1. Places(s, "(", 0) = {} /\ Places(s, ")", 0) = {}
    BY DEF Places
  <2> QED
    BY <2>1, FS_EmptySet
<1> HIDE DEF Open, Close
<1>5. Depths(s, 0) = 0
  BY <1>3, <1>4
<1>6. Depths(s, i) = Open(i) - Close(i) /\ Depths(s, i + 1) = Open(i + 1) - Close(i + 1)
  BY <1>3
<1>7. CASE s[i + 1] = "("
  BY <1>1, <1>2, <1>5, <1>6, <1>7
<1>8. CASE s[i + 1] # "("
  BY <1>1, <1>2, <1>5, <1>6, <1>8
<1> QED
  BY <1>7, <1>8

\* Without its first character, an opening parenthesis, a text is one less deep.
LEMMA DepthInside ==
    ASSUME NEW s \in Seq(STRING), Len(s) >= 2, s[1] = "("
    PROVE  \A i \in 0..(Len(s) - 2) : Depths(SubSeq(s, 2, Len(s) - 1), i) = Depths(s, i + 1) - 1
<1> DEFINE n == Len(s)
           u == SubSeq(s, 2, n - 1)
           T == {i \in Nat : i <= n - 2 => Depths(u, i) = Depths(s, i + 1) - 1}
<1>1. n \in Nat /\ \A i \in 1..(n - 2) : u[i] = s[i + 1]
  OBVIOUS
<1> HIDE DEF u
<1>2. 0 \in T
  <2>1. Depths(u, 0) = 0 /\ Depths(s, 0) = 0
    BY DepthStep
  <2>2. Depths(s, 0 + 1) = Depths(s, 0) + 1
    BY DepthStep
  <2> QED
    BY <2>1, <2>2
<1>3. ASSUME NEW i \in T PROVE i + 1 \in T
  <2> SUFFICES ASSUME i + 1 <= n - 2 PROVE Depths(u, i + 1) = Depths(s, (i + 1) + 1) - 1
    OBVIOUS
  <2>1. i \in Nat /\ i + 1 \in Nat /\ Depths(u, i) = Depths(s, i + 1) - 1
    BY <1>1
  <2>2. u[i + 1] = s[(i + 1) + 1]
    BY <1>1, <2>1
  <2>3. /\ Depths(u, i) \in Int
        /\ u[i + 1] = "(" => Depths(u, i + 1) = Depths(u, i) + 1
        /\ u[i + 1] = ")" => Depths(u, i + 1) = Depths(u, i) - 1
        /\ u[i + 1] \notin {"(", ")"} => Depths(u, i + 1) = Depths(u, i)
    BY <2>1, DepthStep
  <2>4. /\ Depths(s, i + 1) \in Int
        /\ s[(i + 1) + 1] = "(" => Depths(s, (i + 1) + 1) = Depths(s, i + 1) + 1
        /\ s[(i + 1) + 1] = ")" => Depths(s, (i + 1) + 1) = Depths(s, i + 1) - 1
        /\ s[(i + 1) + 1] \notin {"(", ")"} => Depths(s, (i + 1) + 1) = Depths(s, i + 1)
    BY <2>1, DepthStep
  <2> QED
    BY <2>1, <2>2, <2>3, <2>4
<1>4. \A i \in Nat : i \in T
  <2> HIDE DEF T
  <2>1. T \in SUBSET Nat
    BY DEF T
  <2> QED
    BY <1>2, <1>3, <2>1, Induct
<1> QED
  BY <1>1, <1>4 DEF u

\* stripOuterParens accepts exactly a parenthesised, balanced text.
LEMMA StripsOnlyBalanced ==
    ASSUME NEW s \in Seq(STRING)
    PROVE  stripOuterParens(s).ok
             <=> Len(s) >= 2 /\ s[1] = "(" /\ s[Len(s)] = ")" /\ Balanced(SubSeq(s, 2, Len(s) - 1))
<1> DEFINE n == Len(s)
           u == SubSeq(s, 2, n - 1)
           Closed == \A i \in 1..(n - 1) : s[i] = ")" => Depths(s, i) # 0
           Accepted == s # <<>> /\ s[1] = "(" /\ s[n] = ")" /\ Closed /\ Depths(s, n) = 0
<1>1. n \in Nat /\ (s = <<>> <=> n = 0)
  OBVIOUS
<1>2. stripOuterParens(s).ok <=> Accepted
  <2>1. CASE Accepted
    <3>1. stripOuterParens(s) = [ok |-> TRUE, inner |-> SubSeq(s, 2, Len(s) - 1)]
      BY <2>1 DEF stripOuterParens
    <3> QED
      BY <2>1, <3>1
  <2>2. CASE ~Accepted
    <3>1. stripOuterParens(s) = [ok |-> FALSE]
      BY <2>2 DEF stripOuterParens
    <3> QED
      BY <2>2, <3>1
  <2> QED
    BY <2>1, <2>2
<1>3. Accepted => n >= 2
  <2>1. Accepted => n # 0 /\ n # 1
    BY <1>1
  <2> HIDE DEF n, Accepted
  <2> QED
    BY <1>1, <2>1
<1>4. SUFFICES ASSUME n >= 2, s[1] = "(", s[n] = ")" PROVE Closed /\ Depths(s, n) = 0 <=> Balanced(u)
  BY <1>1, <1>2, <1>3
<1>5. \A i \in 0..(n - 2) : Depths(u, i) = Depths(s, i + 1) - 1
  BY <1>4, DepthInside
<1>6. Len(u) = n - 2 /\ DOMAIN u = 1..(n - 2)
  <2>1. u = [i \in 1..((n - 1) - 2 + 1) |-> s[2 + i - 1]]
    OBVIOUS
  <2>2. (n - 1) - 2 + 1 = n - 2
    BY <1>1, <1>4
  <2>3. u \in Seq(STRING)
    BY <1>1, <1>4
  <2>4. DOMAIN u = 1..(n - 2)
    BY <2>1, <2>2
  <2> HIDE DEF u, n
  <2> QED
    BY <1>1, <1>4, <2>3, <2>4
<1>7. \A i \in Nat : Depths(s, i) \in Int
  BY DepthStep
<1>8. Depths(s, 1) = 1
  <2>1. Depths(s, 0) = 0 /\ Depths(s, 0 + 1) = Depths(s, 0) + 1
    BY <1>4, DepthStep
  <2> QED
    BY <2>1
<1>9. Depths(s, n) = Depths(s, n - 1) - 1
  <2>1. n - 1 \in Nat /\ (n - 1) + 1 = n
    BY <1>1, <1>4
  <2>2. s[(n - 1) + 1] = ")" => Depths(s, (n - 1) + 1) = Depths(s, n - 1) - 1
    BY <2>1, DepthStep
  <2> QED
    BY <1>4, <2>1, <2>2
<1> HIDE DEF n, u
<1>10. ASSUME Closed, Depths(s, n) = 0 PROVE Balanced(u)
  <2> DEFINE T == {i \in Nat : i + 1 <= n - 1 => Depths(s, i + 1) >= 1}
  <2>1. 0 \in T
    BY <1>8
  <2>2. ASSUME NEW i \in T PROVE i + 1 \in T
    <3> SUFFICES ASSUME (i + 1) + 1 <= n - 1 PROVE Depths(s, (i + 1) + 1) >= 1
      OBVIOUS
    <3>1. i \in Nat /\ i + 1 \in Nat /\ (i + 1) + 1 \in 1..(n - 1) /\ Depths(s, i + 1) >= 1
      BY <1>1
    <3>2. /\ Depths(s, i + 1) \in Int
          /\ s[(i + 1) + 1] = "(" => Depths(s, (i + 1) + 1) = Depths(s, i + 1) + 1
          /\ s[(i + 1) + 1] = ")" => Depths(s, (i + 1) + 1) = Depths(s, i + 1) - 1
          /\ s[(i + 1) + 1] \notin {"(", ")"} => Depths(s, (i + 1) + 1) = Depths(s, i + 1)
      BY <3>1, DepthStep
    <3>3. s[(i + 1) + 1] = ")" => Depths(s, (i + 1) + 1) # 0
      BY <1>10, <3>1
    <3> QED
      BY <3>1, <3>2, <3>3
  <2>3. \A i \in Nat : i \in T
    <3> HIDE DEF T
    <3>1. T \in SUBSET Nat
      BY DEF T
    <3> QED
      BY <2>1, <2>2, <3>1, Induct
  <2>4. ASSUME NEW i \in 1..(n - 2) PROVE Depths(u, i) >= 0
    <3>1. i \in Nat /\ i + 1 <= n - 1 /\ i \in 0..(n - 2)
      BY <1>1
    <3>2. Depths(s, i + 1) >= 1 /\ Depths(s, i + 1) \in Int
      BY <1>7, <2>3, <3>1
    <3> QED
      BY <1>5, <3>1, <3>2
  <2>5. Depths(u, n - 2) = 0
    <3>1. n - 2 \in 0..(n - 2) /\ (n - 2) + 1 = n - 1
      BY <1>1, <1>4
    <3>2. Depths(u, n - 2) = Depths(s, n - 1) - 1
      BY <1>5, <3>1
    <3> QED
      BY <1>9, <1>10, <3>2
  <2> QED
    BY <1>6, <2>4, <2>5 DEF Balanced
<1>11. ASSUME Balanced(u) PROVE Closed /\ Depths(s, n) = 0
  <2>1. Depths(u, n - 2) = 0 /\ \A i \in 1..(n - 2) : Depths(u, i) >= 0
    BY <1>6, <1>11 DEF Balanced
  <2>2. ASSUME NEW i \in 1..(n - 1) PROVE Depths(s, i) >= 1
    <3>1. CASE i = 1
      BY <1>8, <3>1
    <3>2. CASE i # 1
      <4>1. i - 1 \in 1..(n - 2) /\ i - 1 \in 0..(n - 2) /\ (i - 1) + 1 = i /\ i \in Nat
        BY <1>1, <3>2
      <4>2. Depths(u, i - 1) = Depths(s, i) - 1 /\ Depths(u, i - 1) >= 0 /\ Depths(s, i) \in Int
        BY <1>5, <1>7, <2>1, <4>1
      <4> QED
        BY <4>2
    <3> QED
      BY <3>1, <3>2
  <2>3. Depths(s, n) = 0
    <3>1. n - 2 \in 0..(n - 2) /\ (n - 2) + 1 = n - 1
      BY <1>1, <1>4
    <3>2. Depths(u, n - 2) = Depths(s, n - 1) - 1
      BY <1>5, <3>1
    <3> QED
      BY <1>9, <2>1, <3>2
  <2>4. Closed
    BY <1>7, <2>2
  <2> QED
    BY <2>3, <2>4
<1> QED
  BY <1>10, <1>11

-----------------------------------------------------------------------------
(* PromQL: buckets *)

\* Intervals of length L from the epoch: each time is in the one that begins at
\* a multiple of L and no more than L - 1 before it.
LEMMA Interval ==
    ASSUME NEW L \in Int, L > 0, NEW t \in Int
    PROVE  /\ toStartOfInterval(t, L) \in Int /\ t \div L \in Int
           /\ toStartOfInterval(t, L) = L * (t \div L)
           /\ toStartOfInterval(t, L) <= t /\ t < toStartOfInterval(t, L) + L
<1>1. t % L \in 0..(L - 1) /\ t \div L \in Int
  OBVIOUS
<1>2. t = L * (t \div L) + (t % L)
  BY Z3
<1> QED
  BY <1>1, <1>2 DEF toStartOfInterval

\* Multiples of a positive number are in the order of their factors, and apart.
LEMMA Multiples ==
    ASSUME NEW L \in Nat \ {0}, NEW a \in Int, NEW b \in Int, a < b
    PROVE  L * a + L <= L * b
<1>1. PICK d \in Nat : b = a + 1 + d
  <2>1. b - a - 1 \in Nat /\ b = a + 1 + (b - a - 1)
    OBVIOUS
  <2> QED
    BY <2>1
<1>2. L * b = L * a + L + L * d
  BY <1>1
<1>3. L * d >= 0 /\ L * d \in Int /\ L * a \in Int
  OBVIOUS
<1> QED
  BY <1>2, <1>3

\* A later time is in no earlier interval, and one within L of it in the same
\* or in the next.
LEMMA TwoIntervals ==
    ASSUME NEW L \in Nat \ {0}, NEW s \in Int, NEW t \in Int, s <= t
    PROVE  /\ toStartOfInterval(s, L) <= toStartOfInterval(t, L)
           /\ t - L <= s => toStartOfInterval(s, L) \in {toStartOfInterval(t, L), toStartOfInterval(t, L) - L}
<1> DEFINE a == s \div L
           b == t \div L
           A == toStartOfInterval(s, L)
           B == toStartOfInterval(t, L)
<1>0. L \in Int /\ L > 0
  OBVIOUS
<1>1. A \in Int /\ a \in Int /\ A = L * a /\ A <= s /\ s < A + L
  BY <1>0, Interval
<1>2. B \in Int /\ b \in Int /\ B = L * b /\ B <= t /\ t < B + L
  BY <1>0, Interval
<1> HIDE DEF a, b, A, B
<1>3. b < a => B + L <= A
  BY <1>1, <1>2, Multiples
<1>4. a < b => A + L <= B
  BY <1>1, <1>2, Multiples
<1>5. a + 1 < b => A + L + L <= B
  <2>1. L * (a + 1) = A + L
    BY <1>1
  <2>2. a + 1 < b => L * (a + 1) + L <= L * b
    BY <1>1, <1>2, Multiples
  <2> QED
    BY <1>1, <1>2, <2>1, <2>2
<1>6. A <= B
  <2>1. ~(b < a)
    BY <1>1, <1>2, <1>3
  <2>2. CASE a = b
    BY <1>1, <1>2, <2>2
  <2>3. CASE a < b
    BY <1>1, <1>2, <1>4, <2>3
  <2> QED
    BY <1>1, <1>2, <2>1, <2>2, <2>3
<1>7. ASSUME t - L <= s PROVE A = B \/ A = B - L
  <2>1. ~(a + 1 < b)
    BY <1>1, <1>2, <1>5, <1>7
  <2>2. ~(b < a)
    BY <1>1, <1>2, <1>3
  <2>3. a = b \/ b = a + 1
    BY <1>1, <1>2, <2>1, <2>2
  <2>4. b = a + 1 => B = A + L
    BY <1>1, <1>2
  <2> QED
    BY <1>1, <1>2, <2>3, <2>4
<1> QED
  BY <1>6, <1>7 DEF A, B

-----------------------------------------------------------------------------
(* PromQL: instant answers *)

\* ByBucket: the rows, each once, in the order of their buckets.
LEMMA BucketsSorted ==
    ASSUME NEW S, IsFiniteSet(S), \A r \in S : r.bucket \in Int
    PROVE  /\ ByBucket(S) \in SetToSeqs(S)
           /\ \A i, j \in DOMAIN ByBucket(S) : i < j => ByBucket(S)[i].bucket <= ByBucket(S)[j].bucket
<1> DEFINE Asc(q) == \A i, j \in DOMAIN q : i < j => q[i].bucket <= q[j].bucket
           key == [r \in S |-> r.bucket]
<1>1. key \in [S -> Int] /\ \A r \in S : key[r] = r.bucket
  OBVIOUS
<1> HIDE DEF key
<1>2. PICK d \in SetToSeqs(S) : \A i, j \in DOMAIN d : i < j => key[d[i]] <= key[d[j]]
  BY <1>1, SortedBy
<1>3. \A i \in DOMAIN d : d[i] \in S
  BY DEF SetToSeqs
<1>4. Asc(d)
  BY <1>1, <1>2, <1>3
<1>5. ByBucket(S) = CHOOSE q \in SetToSeqs(S) : Asc(q)
  BY DEF ByBucket
<1> HIDE DEF Asc
<1>6. ByBucket(S) \in SetToSeqs(S) /\ Asc(ByBucket(S))
  BY <1>4, <1>5
<1> QED
  BY <1>6 DEF Asc

\* The window of an instant query, and its rows by the samples they come from.
InstantWindow(end) ==
    [ok |-> TRUE, start |-> end - DefaultLookback, end |-> end, step |-> DefaultLookback]
BucketOf(s) == toStartOfInterval(s.timestamp, DefaultLookback)
GroupOf(sel, s) == {r \in sel : SeriesOf(r) = SeriesOf(s) /\ BucketOf(r) = BucketOf(s)}
RowOf(e, sel, s) ==
    [service |-> s.service, environment |-> s.environment, attributes |-> s.attributes,
     bucket |-> BucketOf(s), value |-> innerVal(e, DefaultLookback, GroupOf(sel, s))]
RowsOf(e, sel) == {RowOf(e, sel, s) : s \in sel}

\* Inner: the rows of an instant query are those of the samples it selects.
LEMMA InnerRows ==
    ASSUME NEW e, NEW tenant, NEW end, NEW samples
    PROVE  Inner(e, tenant, InstantWindow(end), samples)
             = RowsOf(e, Selected(e, tenant, InstantWindow(end), samples))
<1> DEFINE w == InstantWindow(end)
           sel == Selected(e, tenant, w, samples)
           G(k) == {s \in sel : SeriesOf(s) = k[1] /\ BucketOf(s) = k[2]}
           Of(k) == [service |-> k[1].service, environment |-> k[1].environment, attributes |-> k[1].attributes,
                     bucket |-> k[2], value |-> innerVal(e, DefaultLookback, G(k))]
           Key(s) == <<SeriesOf(s), BucketOf(s)>>
<1>1. w.step = DefaultLookback
  BY DEF InstantWindow
<1>2. Inner(e, tenant, w, samples) = {Of(k) : k \in {Key(s) : s \in sel}}
  BY <1>1 DEF Inner, BucketOf
<1>3. ASSUME NEW s \in sel PROVE Of(Key(s)) = RowOf(e, sel, s)
  <2>1. Key(s)[1] = SeriesOf(s) /\ Key(s)[2] = BucketOf(s)
    OBVIOUS
  <2>2. G(Key(s)) = GroupOf(sel, s)
    BY <2>1 DEF GroupOf
  <2>3. /\ SeriesOf(s).service = s.service /\ SeriesOf(s).environment = s.environment
        /\ SeriesOf(s).attributes = s.attributes
    BY DEF SeriesOf
  <2> HIDE DEF G, Key, sel
  <2> QED
    BY <2>1, <2>2, <2>3 DEF RowOf
<1> HIDE DEF Of, Key, sel
<1>4. {Of(k) : k \in {Key(s) : s \in sel}} = {RowOf(e, sel, s) : s \in sel}
  BY <1>3
<1> QED
  BY <1>2, <1>4 DEF sel, RowsOf

\* labelsOf: a row has the labels of the samples it comes from.
LEMMA RowShown ==
    ASSUME NEW e, NEW sel, NEW s, NEW c, c.attrs = TRUE
    PROVE  labelsOf(c, RowOf(e, sel, s)) = Shown(s)
<1> DEFINE r == RowOf(e, sel, s)
<1>1. r.service = s.service /\ r.environment = s.environment /\ r.attributes = s.attributes
  BY DEF RowOf
<1> HIDE DEF r
<1>2. labelsOf(c, r) = NonEmpty(r.attributes) @@ NonEmpty([service |-> r.service, environment |-> r.environment])
  BY DEF labelsOf
<1>3. Shown(s) = NonEmpty(s.attributes) @@ NonEmpty([service |-> s.service, environment |-> s.environment])
  BY DEF labelsOf, Shown
<1> QED
  BY <1>1, <1>2, <1>3 DEF r

\* PromInstantQuery: an answer has one point per row.
LEMMA InstantPoints ==
    ASSUME NEW e, NEW tenant, NEW end, NEW now, NEW counted, NEW samples, e.agg = None,
           PromInstantQuery(e, tenant, end, now, counted, samples).ok
    PROVE  \E c : /\ c.attrs = TRUE /\ c.rows = ByBucket(Inner(e, tenant, InstantWindow(end), samples))
                  /\ PromInstantQuery(e, tenant, end, now, counted, samples).result = writeVector(c)
<1> DEFINE p == [step |-> 0, end |-> end, lookback |-> DefaultLookback]
           c == compile(e, tenant, p, samples)
           w == InstantWindow(end)
           inner == Inner(e, tenant, w, samples)
<1>1. DefaultLookback \in Int /\ DefaultLookback > 0
  BY PromAssumption
<1>2. Window(p) = w
  <2>1. p.step = 0 /\ p.end = end /\ p.lookback = DefaultLookback
    OBVIOUS
  <2> HIDE DEF p
  <2> QED
    BY <1>1, <2>1 DEF Window, InstantWindow
<1>3. w.ok
  BY DEF InstantWindow
<1>4. c = [ok |-> TRUE, attrs |-> TRUE, rows |-> ByBucket(inner)]
  BY <1>2, <1>3 DEF compile
<1>5. c.attrs = TRUE /\ c.rows = ByBucket(inner)
  <2> HIDE DEF c, inner
  <2> QED
    BY <1>4
<1>6. PromInstantQuery(e, tenant, end, now, counted, samples).result = writeVector(c)
  <2>1. \/ PromInstantQuery(e, tenant, end, now, counted, samples) = [ok |-> TRUE, result |-> writeVector(c)]
        \/ PromInstantQuery(e, tenant, end, now, counted, samples) = [ok |-> FALSE]
    BY DEF PromInstantQuery, Refused
  <2> HIDE DEF c
  <2> QED
    BY <2>1
<1> QED
  BY <1>5, <1>6

\* A finite set of samples has a latest one.
LEMMA LatestExists ==
    ASSUME NEW S, IsFiniteSet(S), S # {}, \A s \in S : s.timestamp \in Int
    PROVE  \E s \in S : \A r \in S : r.timestamp <= s.timestamp
<1> DEFINE key == [r \in S |-> r.timestamp]
<1>1. key \in [S -> Int] /\ \A r \in S : key[r] = r.timestamp
  OBVIOUS
<1> HIDE DEF key
<1>2. PICK d \in SetToSeqs(S) : \A i, j \in DOMAIN d : i < j => key[d[i]] <= key[d[j]]
  BY <1>1, SortedBy
<1>3. /\ d \in Seq(S) /\ Len(d) = Cardinality(S) /\ Cardinality(S) \in Nat /\ S = {d[i] : i \in 1..Len(d)}
      /\ \A i, j \in 1..Len(d) : d[i] = d[j] => i = j
  BY SequencesOfSet
<1>4. d \in Seq(S)
  BY <1>3, Zenon
<1>5. \A r \in S : \E i \in 1..Len(d) : r = d[i]
  BY <1>3, Zenon
<1> DEFINE n == Len(d)
<1>6. n \in Nat /\ DOMAIN d = 1..n
  BY <1>4
<1>7. PICK r0 \in S : TRUE
  OBVIOUS
<1>8. n \in 1..n
  BY <1>5, <1>6, <1>7
<1>9. d[n] \in S
  BY <1>4, <1>8
<1>10. ASSUME NEW r \in S PROVE r.timestamp <= d[n].timestamp
  <2>1. PICK i \in 1..n : r = d[i]
    BY <1>5
  <2>2. CASE i = n
    BY <1>9, <2>1, <2>2
  <2>3. CASE i # n
    <3> HIDE DEF n
    <3>1. i < n
      BY <1>6, <2>3
    <3>2. key[d[i]] <= key[d[n]]
      BY <1>2, <1>6, <1>8, <3>1
    <3> QED
      BY <1>1, <1>9, <2>1, <3>2
  <2> QED
    BY <2>2, <2>3
<1> QED
  BY <1>9, <1>10

\* A set with an injection into two values has at most two members.
LEMMA AtMostTwo ==
    ASSUME NEW S, NEW a, NEW b, NEW f \in [S -> {a, b}], \A x, y \in S : f[x] = f[y] => x = y
    PROVE  IsFiniteSet(S) /\ Cardinality(S) \in Nat /\ Cardinality(S) <= 2
<1>1. IsFiniteSet({a, b}) /\ Cardinality({a, b}) \in Nat /\ Cardinality({a, b}) <= 2
  <2>1. IsFiniteSet({a}) /\ Cardinality({a}) = 1
    BY FS_Singleton
  <2>2. {a, b} = {a} \cup {b}
    OBVIOUS
  <2>3. IsFiniteSet({a} \cup {b}) /\ Cardinality({a} \cup {b}) = (IF b \in {a} THEN Cardinality({a}) ELSE Cardinality({a}) + 1)
    BY <2>1, FS_AddElement
  <2> QED
    BY <2>1, <2>2, <2>3
<1>2. f \in Injection(S, {a, b})
  <2>1. DOMAIN f = S
    OBVIOUS
  <2> QED
    BY <2>1 DEF Injection, IsInjective
<1>3. IsFiniteSet(S) /\ Cardinality(S) <= Cardinality({a, b})
  BY <1>1, <1>2, FS_Injection
<1>4. Cardinality(S) \in Nat
  BY <1>3, FS_CardinalityType
<1> QED
  BY <1>1, <1>3, <1>4

\* The samples and the points of a series, and what is to hold of them.
SeriesIn(sel, t) == {s \in sel : SeriesOf(s) = SeriesOf(t)}
PointsOf(c, t) == {i \in DOMAIN c.rows : labelsOf(c, c.rows[i]) = Shown(t)}
EndsLatest(win, rows, pts) ==
    IF win = {} THEN pts = {}
    ELSE /\ Cardinality(pts) <= 2
         /\ \E i \in pts, s \in win : /\ \A j \in pts : j <= i
                                      /\ \A r \in win : r.timestamp <= s.timestamp
                                      /\ rows[i].value = s.value

\* The points of a series, from a list of the rows in the order of their buckets.
LEMMA SeriesPoints ==
    ASSUME NEW e, ~e.rate, NEW sel, IsFiniteSet(sel), NEW end \in Int,
           \A s \in sel : s.timestamp \in Int /\ end - DefaultLookback <= s.timestamp /\ s.timestamp <= end,
           NEW t, NEW c, c.attrs = TRUE, c.rows = ByBucket(RowsOf(e, sel)),
           \A s \in sel : Shown(s) = Shown(t) => SeriesOf(s) = SeriesOf(t)
    PROVE  EndsLatest(SeriesIn(sel, t), c.rows, PointsOf(c, t))
<1> DEFINE win == {s \in sel : SeriesOf(s) = SeriesOf(t)}
           rows == c.rows
           S == {RowOf(e, sel, s) : s \in sel}
           pts == {i \in DOMAIN rows : labelsOf(c, rows[i]) = Shown(t)}
           L == DefaultLookback
<1>a. RowsOf(e, sel) = S /\ SeriesIn(sel, t) = win /\ PointsOf(c, t) = pts
  BY DEF RowsOf, SeriesIn, PointsOf
<1>1. L \in Nat \ {0}
  BY PromAssumption
<1>2. \A s \in sel : BucketOf(s) \in Int
  <2>1. L \in Int /\ L > 0
    BY <1>1
  <2> QED
    BY <2>1, Interval DEF BucketOf
<1>3. \A s : RowOf(e, sel, s).bucket = BucketOf(s) /\ RowOf(e, sel, s).value = innerVal(e, L, GroupOf(sel, s))
  BY DEF RowOf
<1>4. IsFiniteSet(S) /\ \A r \in S : r.bucket \in Int
  <2> DEFINE f == [s \in sel |-> RowOf(e, sel, s)]
  <2>1. f \in Surjection(sel, S)
    BY DEF Surjection
  <2>2. IsFiniteSet(S)
    <3> HIDE DEF f, S
    <3> QED
      BY <2>1, FS_Surjection
  <2> QED
    BY <1>2, <1>3, <2>2
<1>5. rows \in SetToSeqs(S) /\ \A i, j \in DOMAIN rows : i < j => rows[i].bucket <= rows[j].bucket
  BY <1>a, <1>4, BucketsSorted
<1>6. /\ rows \in Seq(S) /\ Len(rows) = Cardinality(S) /\ Cardinality(S) \in Nat /\ S = {rows[i] : i \in 1..Len(rows)}
      /\ \A i, j \in 1..Len(rows) : rows[i] = rows[j] => i = j
  <2> HIDE DEF rows, S
  <2> QED
    BY <1>4, <1>5, SequencesOfSet
<1> HIDE DEF rows
<1>7. /\ rows \in Seq(S) /\ DOMAIN rows = 1..Len(rows) /\ Len(rows) \in Nat
      /\ \A i, j \in DOMAIN rows : rows[i] = rows[j] => i = j
  <2> HIDE DEF S
  <2>1. rows \in Seq(S)
    BY <1>6, Zenon
  <2>2. \A i, j \in 1..Len(rows) : rows[i] = rows[j] => i = j
    BY <1>6, Zenon
  <2> QED
    BY <2>1, <2>2
<1>8. \A s \in sel : \E i \in DOMAIN rows : rows[i] = RowOf(e, sel, s)
  <2>1. \A r \in S : \E i \in 1..Len(rows) : rows[i] = r
    <3> HIDE DEF S
    <3> QED
      BY <1>6, Zenon
  <2> QED
    BY <1>7, <2>1
<1>9. \A i \in DOMAIN rows : \E s \in sel : rows[i] = RowOf(e, sel, s)
  BY <1>7
<1>10. \A i \in DOMAIN rows : DOMAIN rows \in SUBSET Int
  BY <1>7
<1> HIDE DEF S, L
<1>11. \A s : labelsOf(c, RowOf(e, sel, s)) = Shown(s)
  BY RowShown
<1>12. \A i \in pts : i \in Int /\ i \in DOMAIN rows /\ \E s \in win : rows[i] = RowOf(e, sel, s) /\ rows[i].bucket = BucketOf(s)
  <2> SUFFICES ASSUME NEW i \in pts
      PROVE i \in Int /\ i \in DOMAIN rows /\ \E s \in win : rows[i] = RowOf(e, sel, s) /\ rows[i].bucket = BucketOf(s)
    OBVIOUS
  <2>1. i \in DOMAIN rows /\ labelsOf(c, rows[i]) = Shown(t) /\ i \in Int
    BY <1>10
  <2>2. PICK s \in sel : rows[i] = RowOf(e, sel, s)
    BY <1>9, <2>1
  <2>3. Shown(s) = Shown(t)
    BY <1>11, <2>1, <2>2
  <2>4. s \in win /\ rows[i].bucket = BucketOf(s)
    BY <1>3, <2>2, <2>3
  <2> QED
    BY <2>1, <2>2, <2>4
<1>13. CASE win = {}
  <2>1. pts = {}
    BY <1>12, <1>13
  <2> QED
    BY <1>a, <1>13, <2>1 DEF EndsLatest
<1>14. CASE win # {}
  <2>1. IsFiniteSet(win)
    <3>1. win \in SUBSET sel
      OBVIOUS
    <3> QED
      BY <3>1, FS_Subset
  <2>2. \A s \in win : s \in sel /\ s.timestamp \in Int /\ SeriesOf(s) = SeriesOf(t) /\ BucketOf(s) \in Int
    BY <1>2
  <2>3. PICK m \in win : \A r \in win : r.timestamp <= m.timestamp
    <3> HIDE DEF win
    <3> QED
      BY <1>14, <2>1, <2>2, LatestExists
  <2>4. PICK k \in DOMAIN rows : rows[k] = RowOf(e, sel, m)
    BY <1>8, <2>2
  <2>5. k \in pts /\ rows[k].bucket = BucketOf(m)
    <3>1. Shown(m) = Shown(t)
      BY DEF Shown, labelsOf, SeriesOf
    <3> QED
      BY <1>3, <1>11, <2>4, <3>1
  <2>6. ASSUME NEW r \in win PROVE BucketOf(r) <= BucketOf(m) /\ BucketOf(r) \in {BucketOf(m), BucketOf(m) - L}
    <3>1. /\ r.timestamp \in Int /\ m.timestamp \in Int /\ r.timestamp <= m.timestamp
          /\ m.timestamp - L <= r.timestamp
      <4>1. end - L <= r.timestamp /\ m.timestamp <= end
        BY <2>2 DEF L
      <4>2. L \in Int
        BY <1>1
      <4> QED
        BY <2>2, <2>3, <4>1, <4>2
    <3> QED
      BY <1>1, <3>1, TwoIntervals DEF BucketOf, L
  <2>7. ASSUME NEW r \in win, NEW s \in win, BucketOf(r) = BucketOf(s) PROVE RowOf(e, sel, r) = RowOf(e, sel, s)
    <3>1. SeriesOf(r) = SeriesOf(s)
      BY <2>2
    <3>2. r.service = s.service /\ r.environment = s.environment /\ r.attributes = s.attributes
      BY <3>1 DEF SeriesOf
    <3>3. GroupOf(sel, r) = GroupOf(sel, s)
      BY <2>7, <3>1 DEF GroupOf
    <3> QED
      BY <2>7, <3>2, <3>3 DEF RowOf
  <2> HIDE DEF win
  <2>8. \A i, j \in pts : rows[i].bucket = rows[j].bucket => i = j
    <3> SUFFICES ASSUME NEW i \in pts, NEW j \in pts, rows[i].bucket = rows[j].bucket PROVE i = j
      OBVIOUS
    <3>1. PICK r \in win : rows[i] = RowOf(e, sel, r) /\ rows[i].bucket = BucketOf(r)
      BY <1>12
    <3>2. PICK s \in win : rows[j] = RowOf(e, sel, s) /\ rows[j].bucket = BucketOf(s)
      BY <1>12
    <3>3. rows[i] = rows[j]
      BY <2>7, <3>1, <3>2
    <3>4. i \in DOMAIN rows /\ j \in DOMAIN rows
      BY <1>12
    <3> QED
      BY <1>7, <3>3, <3>4, Zenon
  <2>9. \A i \in pts : rows[i].bucket \in Int /\ rows[i].bucket <= BucketOf(m) /\ rows[i].bucket \in {BucketOf(m), BucketOf(m) - L}
    BY <1>12, <2>2, <2>6
  <2>10. ASSUME NEW j \in pts PROVE j <= k
    <3>1. j \in Int /\ k \in Int /\ j \in DOMAIN rows
      BY <1>12, <2>5
    <3>2. k < j => rows[k].bucket <= rows[j].bucket
      BY <1>5, <3>1
    <3>3. k < j => rows[j].bucket = rows[k].bucket
      BY <2>5, <2>9, <3>2
    <3>4. k < j => j = k
      BY <2>5, <2>8, <3>3
    <3> QED
      BY <3>1, <3>4
  <2>11. Cardinality(pts) <= 2
    <3> DEFINE f == [i \in pts |-> rows[i].bucket]
    <3>1. f \in [pts -> {BucketOf(m), BucketOf(m) - L}]
      BY <2>9
    <3>2. \A x, y \in pts : f[x] = f[y] => x = y
      BY <2>8
    <3> HIDE DEF f, pts
    <3> QED
      BY <3>1, <3>2, AtMostTwo
  <2>12. \E s \in win : (\A r \in win : r.timestamp <= s.timestamp) /\ rows[k].value = s.value
    <3> DEFINE group == GroupOf(sel, m)
               Latest(s) == \A r \in group : r.timestamp <= s.timestamp
               g == CHOOSE s \in group : Latest(s)
    <3>1. m \in group
      BY <2>2 DEF GroupOf
    <3>2. \A s \in group : s \in win
      BY <2>2 DEF GroupOf, win
    <3>3. g \in group /\ Latest(g)
      BY <2>3, <3>1, <3>2
    <3>4. innerVal(e, L, group) = g.value
      BY DEF innerVal
    <3> HIDE DEF g, group
    <3>5. rows[k].value = g.value
      BY <1>3, <2>4, <3>4 DEF group
    <3>6. ASSUME NEW r \in win PROVE r.timestamp <= g.timestamp
      <4>1. r.timestamp <= m.timestamp /\ m.timestamp <= g.timestamp
        BY <2>3, <3>1, <3>3
      <4>2. r.timestamp \in Int /\ m.timestamp \in Int /\ g.timestamp \in Int
        BY <2>2, <3>2, <3>3
      <4> QED
        BY <4>1, <4>2
    <3> QED
      BY <3>2, <3>3, <3>5, <3>6
  <2>13. EndsLatest(win, rows, pts)
    <3> HIDE DEF pts
    <3> QED
      BY <1>14, <2>5, <2>10, <2>11, <2>12 DEF EndsLatest
  <2> QED
    BY <1>a, <2>13 DEF rows
<1> QED
  BY <1>13, <1>14

\* The state's own form of InstantEndsWithLatest.
LEMMA InstantShowsLatest ==
    ASSUME what = "prom", input.req.end \in Int,
           IsFiniteSet(input.samples), \A s \in input.samples : s.timestamp \in Int
    PROVE  InstantEndsWithLatest
<1> DEFINE e == input.expr
           end == input.req.end
           w == InstantWindow(end)
           tenant == input.tenant
           now == input.now
           counted == input.counted
           samples == input.samples
           sel == Selected(e, tenant, w, samples)
<1> SUFFICES ASSUME e.agg = None, ~e.rate, PromAnswer.ok,
                    NEW t \in input.samples,
                    \A s \in input.samples : Shown(s) = Shown(t) => SeriesOf(s) = SeriesOf(t)
             PROVE  LET result == PromAnswer.result
                        win == {s \in InLookback : SeriesOf(s) = SeriesOf(t)}
                        pts == {i \in DOMAIN result : result[i].metric = Shown(t)}
                    IN  IF win = {} THEN pts = {}
                        ELSE /\ Cardinality(pts) <= 2
                             /\ \E i \in pts, s \in win : /\ \A j \in pts : j <= i
                                                          /\ \A r \in win : r.timestamp <= s.timestamp
                                                          /\ result[i].value[2] = s.value
  BY DEF InstantEndsWithLatest
<1>1. DefaultLookback \in Int
  BY PromAssumption
<1>2. w.start = end - DefaultLookback /\ w.end = end
  BY DEF InstantWindow
<1>3. sel = InLookback
  <2>1. ASSUME NEW s \in input.samples
        PROVE  s.timestamp >= end - DefaultLookback <=> end - DefaultLookback <= s.timestamp
    BY <1>1
  <2> QED
    BY <1>2, <2>1 DEF Selected, InLookback
<1>4. PICK c : /\ c.attrs = TRUE /\ c.rows = ByBucket(Inner(e, tenant, w, samples))
               /\ PromAnswer.result = writeVector(c)
  <2>1. PromAnswer = PromInstantQuery(e, tenant, end, now, counted, samples)
    BY DEF PromAnswer
  <2>2. e.agg = None /\ PromInstantQuery(e, tenant, end, now, counted, samples).ok
    BY <2>1
  <2> HIDE DEF e, tenant, end, now, counted, samples
  <2> QED
    BY <2>1, <2>2, InstantPoints
<1>5. c.rows = ByBucket(RowsOf(e, sel))
  <2> HIDE DEF e, tenant, end, samples
  <2> QED
    BY <1>4, InnerRows
<1>6. IsFiniteSet(sel) /\ \A s \in sel : s \in input.samples /\ s.timestamp \in Int
                                       /\ end - DefaultLookback <= s.timestamp /\ s.timestamp <= end
  <2>1. sel \in SUBSET input.samples
    BY DEF Selected
  <2>2. IsFiniteSet(sel)
    BY <2>1, FS_Subset
  <2> QED
    BY <1>3, <2>1, <2>2 DEF InLookback
<1>7. /\ DOMAIN PromAnswer.result = DOMAIN c.rows
      /\ \A i \in DOMAIN c.rows : /\ PromAnswer.result[i].metric = labelsOf(c, c.rows[i])
                                  /\ PromAnswer.result[i].value[2] = c.rows[i].value
  BY <1>4 DEF writeVector
<1> HIDE DEF e, end, w, sel
<1> DEFINE win == SeriesIn(sel, t)
           rows == c.rows
           pts == PointsOf(c, t)
<1>8. EndsLatest(SeriesIn(sel, t), c.rows, PointsOf(c, t))
  <2>1. \A s \in sel : Shown(s) = Shown(t) => SeriesOf(s) = SeriesOf(t)
    BY <1>6
  <2>2. \A s \in sel : s.timestamp \in Int /\ end - DefaultLookback <= s.timestamp /\ s.timestamp <= end
    BY <1>6
  <2>3. end \in Int /\ ~e.rate
    BY DEF end, e
  <2>4. c.attrs = TRUE /\ IsFiniteSet(sel)
    BY <1>4, <1>6
  <2> QED
    BY <1>5, <2>1, <2>2, <2>3, <2>4, SeriesPoints
<1>9. pts = {i \in DOMAIN PromAnswer.result : PromAnswer.result[i].metric = Shown(t)}
  BY <1>7 DEF PointsOf
<1>10. win = {s \in InLookback : SeriesOf(s) = SeriesOf(t)}
  BY <1>3 DEF SeriesIn
<1>11. \A i \in pts : PromAnswer.result[i].value[2] = rows[i].value
  BY <1>7 DEF PointsOf
<1>12. EndsLatest(win, rows, pts)
  BY <1>8
<1> HIDE DEF pts, win, rows
<1> QED
  BY <1>12, <1>9, <1>10, <1>11, Zenon DEF EndsLatest

\* stripOuterParens takes exactly the balanced expressions, and an instant query
\* ends each series with the latest sample of its lookback, in at most two
\* points: for any text, any finite set of samples and any lookback.
THEOREM PromIsExact == PromSpec => []PromAnswersSamples
<1> DEFINE Inv == /\ what \in {"parens", "prom"}
                  /\ what = "parens" => input \in Seq(STRING)
                  /\ what = "prom" => /\ input.req.end \in Int /\ IsFiniteSet(input.samples)
                                      /\ \A s \in input.samples : s.timestamp \in Int
<1>1. PromInit => Inv
  BY DEF PromInit
<1>2. Inv /\ [\E w \in {"parens", "prom"} : Submit(w)]_vars => Inv'
  BY DEF Submit, vars
<1>3. Inv => PromAnswersSamples
  <2> SUFFICES ASSUME Inv PROVE ParensStripped /\ InstantEndsWithLatest
    BY DEF PromAnswersSamples
  <2>1. ParensStripped
    <3>1. CASE what = "parens"
      <4>1. input \in Seq(STRING)
        BY <3>1
      <4>2. stripOuterParens(input).ok
              <=> Len(input) >= 2 /\ input[1] = "(" /\ input[Len(input)] = ")"
                  /\ Balanced(SubSeq(input, 2, Len(input) - 1))
        BY <4>1, StripsOnlyBalanced
      <4> QED
        BY <4>2, Zenon DEF ParensStripped
    <3>2. CASE what # "parens"
      BY <3>2 DEF ParensStripped
    <3> QED
      BY <3>1, <3>2
  <2>2. InstantEndsWithLatest
    <3>1. CASE what = "prom"
      BY <3>1, InstantShowsLatest
    <3>2. CASE what # "prom"
      BY <3>2 DEF InstantEndsWithLatest
    <3> QED
      BY <3>1, <3>2
  <2> QED
    BY <2>1, <2>2
<1> QED
  BY <1>1, <1>2, <1>3, PTL DEF PromSpec
-----------------------------------------------------------------------------
(* LogQL++: the tenant's guard *)

Symbols(w) == {w[i] : i \in DOMAIN w}

\* A sequence of symbols in which every parenthesis is closed again.
Closed(w) ==
    /\ w \in Seq(Symbols(w))
    /\ \A i \in 0..Len(w) : Depth(w, i) \in Nat
    /\ Depth(w, Len(w)) = 0

\* The depth after a symbol.
LEMMA SymbolStep ==
    ASSUME NEW w, NEW i \in Nat
    PROVE  /\ Depth(w, i) \in Int /\ Depth(w, 0) = 0
           /\ w[i + 1].sym = "(" => Depth(w, i + 1) = Depth(w, i) + 1
           /\ w[i + 1].sym = ")" => Depth(w, i + 1) = Depth(w, i) - 1
           /\ w[i + 1].sym \notin {"(", ")"} => Depth(w, i + 1) = Depth(w, i)
<1> DEFINE s == [j \in Nat |-> w[j].sym]
<1>1. \A j \in Nat : s[j] = w[j].sym
  OBVIOUS
<1>2. \A n \in Nat : Depths(s, n) = Depth(w, n)
  <2> TAKE n \in Nat
  <2>1. \A c : {j \in 1..n : s[j] = c} = {j \in 1..n : w[j].sym = c}
    BY <1>1
  <2> HIDE DEF s
  <2> QED
    BY <2>1 DEF Depths, Depth
<1> HIDE DEF s
<1>3. /\ Depths(s, i) \in Int /\ Depths(s, 0) = 0
      /\ s[i + 1] = "(" => Depths(s, i + 1) = Depths(s, i) + 1
      /\ s[i + 1] = ")" => Depths(s, i + 1) = Depths(s, i) - 1
      /\ s[i + 1] \notin {"(", ")"} => Depths(s, i + 1) = Depths(s, i)
  BY DepthStep
<1>4. i + 1 \in Nat /\ 0 \in Nat
  OBVIOUS
<1> QED
  BY <1>1, <1>2, <1>3, <1>4

\* Up to the end of a sequence the depth does not depend on what follows.
LEMMA DepthOfPrefix ==
    ASSUME NEW v, NEW w, NEW n \in Nat, \A i \in 1..n : v[i].sym = w[i].sym
    PROVE  \A i \in 0..n : Depth(v, i) = Depth(w, i)
<1> SUFFICES ASSUME NEW i \in 0..n PROVE Depth(v, i) = Depth(w, i)
  OBVIOUS
<1>1. \A c : {j \in 1..i : v[j].sym = c} = {j \in 1..i : w[j].sym = c}
  <2>1. \A j \in 1..i : v[j].sym = w[j].sym
    OBVIOUS
  <2> QED
    BY <2>1
<1> QED
  BY <1>1 DEF Depth

\* The depths of two sequences one after the other.
LEMMA DepthOfConcat ==
    ASSUME NEW A, NEW v \in Seq(A), NEW w \in Seq(A)
    PROVE  /\ \A i \in 0..Len(v) : Depth(v \o w, i) = Depth(v, i)
           /\ \A i \in 0..Len(w) : Depth(v \o w, Len(v) + i) = Depth(v, Len(v)) + Depth(w, i)
<1> DEFINE u == v \o w
           T == {i \in Nat : i <= Len(w) => Depth(u, Len(v) + i) = Depth(v, Len(v)) + Depth(w, i)}
<1>1. /\ Len(v) \in Nat /\ Len(w) \in Nat
      /\ \A i \in 1..Len(v) : u[i] = v[i]
      /\ \A i \in 1..Len(w) : u[Len(v) + i] = w[i]
  BY Concat
<1> HIDE DEF u
<1>2. \A i \in 0..Len(v) : Depth(u, i) = Depth(v, i)
  <2>1. \A i \in 1..Len(v) : u[i].sym = v[i].sym
    BY <1>1
  <2> QED
    BY <1>1, <2>1, DepthOfPrefix
<1>3. 0 \in T
  <2>1. Depth(w, 0) = 0 /\ Depth(v, Len(v)) \in Int
    BY <1>1, SymbolStep
  <2>2. Depth(u, Len(v)) = Depth(v, Len(v))
    BY <1>1, <1>2
  <2> QED
    BY <1>1, <2>1, <2>2
<1>4. ASSUME NEW i \in T PROVE i + 1 \in T
  <2> SUFFICES ASSUME i + 1 <= Len(w)
               PROVE  Depth(u, Len(v) + (i + 1)) = Depth(v, Len(v)) + Depth(w, i + 1)
    OBVIOUS
  <2> DEFINE k == Len(v) + i
  <2>1. i \in Nat /\ k \in Nat /\ Depth(u, k) = Depth(v, Len(v)) + Depth(w, i) /\ Len(v) + (i + 1) = k + 1
    BY <1>1
  <2>2. u[k + 1] = w[i + 1]
    <3>1. i + 1 \in 1..Len(w)
      BY <1>1, <2>1
    <3> QED
      BY <1>1, <2>1, <3>1
  <2> HIDE DEF k
  <2>3. /\ Depth(u, k) \in Int
        /\ u[k + 1].sym = "(" => Depth(u, k + 1) = Depth(u, k) + 1
        /\ u[k + 1].sym = ")" => Depth(u, k + 1) = Depth(u, k) - 1
        /\ u[k + 1].sym \notin {"(", ")"} => Depth(u, k + 1) = Depth(u, k)
    BY <2>1, SymbolStep
  <2>4. /\ Depth(w, i) \in Int
        /\ w[i + 1].sym = "(" => Depth(w, i + 1) = Depth(w, i) + 1
        /\ w[i + 1].sym = ")" => Depth(w, i + 1) = Depth(w, i) - 1
        /\ w[i + 1].sym \notin {"(", ")"} => Depth(w, i + 1) = Depth(w, i)
    BY <2>1, SymbolStep
  <2>5. Depth(v, Len(v)) \in Int
    BY <1>1, SymbolStep
  <2>6. Depth(u, k + 1) = Depth(v, Len(v)) + Depth(w, i + 1)
    BY <2>1, <2>2, <2>3, <2>4, <2>5
  <2> QED
    BY <2>1, <2>6
<1>5. \A i \in Nat : i \in T
  <2> HIDE DEF T
  <2>1. T \in SUBSET Nat
    BY DEF T
  <2> QED
    BY <1>3, <1>4, <2>1, Induct
<1>6. \A i \in 0..Len(w) : Depth(u, Len(v) + i) = Depth(v, Len(v)) + Depth(w, i)
  BY <1>1, <1>5
<1> QED
  BY <1>2, <1>6 DEF u

\* A sequence over some set is one over its own symbols.
LEMMA OwnSymbols ==
    ASSUME NEW A, NEW w \in Seq(A)
    PROVE  w \in Seq(Symbols(w)) /\ Symbols(w) \subseteq A
<1>1. w \in [1..Len(w) -> A] /\ Len(w) \in Nat /\ DOMAIN w = 1..Len(w)
  OBVIOUS
<1>2. w \in [1..Len(w) -> Symbols(w)] /\ Symbols(w) \subseteq A
  BY <1>1 DEF Symbols
<1> QED
  BY <1>1, <1>2

\* Two closed sequences one after the other.
LEMMA ClosedConcat ==
    ASSUME NEW v, NEW w, Closed(v), Closed(w)
    PROVE  Closed(v \o w)
<1> DEFINE A == Symbols(v) \cup Symbols(w)
           u == v \o w
<1>1. v \in Seq(A) /\ w \in Seq(A)
  <2>1. v \in Seq(Symbols(v)) /\ w \in Seq(Symbols(w)) /\ Symbols(v) \subseteq A /\ Symbols(w) \subseteq A
    BY DEF Closed
  <2> HIDE DEF A
  <2> QED
    BY <2>1, SeqWider
<1> HIDE DEF A
<1>2. /\ u \in Seq(A) /\ Len(u) = Len(v) + Len(w) /\ Len(v) \in Nat /\ Len(w) \in Nat
  BY <1>1, Concat
<1>3. /\ \A i \in 0..Len(v) : Depth(u, i) = Depth(v, i)
      /\ \A i \in 0..Len(w) : Depth(u, Len(v) + i) = Depth(v, Len(v)) + Depth(w, i)
  BY <1>1, DepthOfConcat
<1> HIDE DEF u
<1>4. /\ \A i \in 0..Len(v) : Depth(v, i) \in Nat
      /\ \A i \in 0..Len(w) : Depth(w, i) \in Nat
      /\ Depth(v, Len(v)) = 0 /\ Depth(w, Len(w)) = 0
  BY DEF Closed
<1>5. ASSUME NEW i \in 0..Len(u) PROVE Depth(u, i) \in Nat
  <2>1. CASE i <= Len(v)
    BY <1>2, <1>3, <1>4, <2>1
  <2>2. CASE i > Len(v)
    <3>1. i - Len(v) \in 0..Len(w) /\ Len(v) + (i - Len(v)) = i
      BY <1>2, <2>2
    <3>2. Depth(u, Len(v) + (i - Len(v))) = Depth(v, Len(v)) + Depth(w, i - Len(v))
      BY <1>3, <3>1
    <3> QED
      BY <1>4, <3>1, <3>2
  <2> QED
    BY <1>2, <2>1, <2>2
<1>6. Depth(u, Len(u)) = 0
  BY <1>2, <1>3, <1>4
<1>7. u \in Seq(Symbols(u))
  BY <1>2, OwnSymbols
<1> QED
  BY <1>5, <1>6, <1>7 DEF Closed, u

\* One symbol that is no parenthesis.
LEMMA ClosedSymbol ==
    ASSUME NEW x, x.sym \notin {"(", ")"}
    PROVE  Closed(<<x>>)
<1> DEFINE u == <<x>>
<1>1. u \in Seq({x}) /\ Len(u) = 1 /\ u[1] = x
  OBVIOUS
<1> HIDE DEF u
<1>2. Depth(u, 0) = 0 /\ Depth(u, 0 + 1) = Depth(u, 0)
  BY <1>1, SymbolStep
<1>3. u \in Seq(Symbols(u))
  BY <1>1, OwnSymbols
<1>4. \A i \in 0..Len(u) : i = 0 \/ i = 0 + 1
  BY <1>1
<1>5. \A i \in 0..Len(u) : Depth(u, i) = 0
  BY <1>2, <1>4
<1>6. Depth(u, Len(u)) = 0
  BY <1>1, <1>5
<1> QED
  BY <1>3, <1>5, <1>6 DEF Closed, u

\* Between its parentheses a parenthesised sequence is nowhere at depth 0.
LEMMA InParens ==
    ASSUME NEW w, Closed(w)
    PROVE  /\ parens(w) \in Seq(Symbols(parens(w))) /\ Len(parens(w)) = Len(w) + 2 /\ Len(w) \in Nat
           /\ parens(w)[1].sym = "(" /\ parens(w)[Len(w) + 2].sym = ")"
           /\ \A i \in 1..Len(w) : parens(w)[1 + i] = w[i]
           /\ Depth(parens(w), 0) = 0 /\ Depth(parens(w), Len(w) + 2) = 0
           /\ \A i \in 1..(Len(w) + 1) : Depth(parens(w), i) \in Nat \ {0}
<1> DEFINE o == [sym |-> "("]
           c == [sym |-> ")"]
           p == <<o>>
           q == <<c>>
           A == Symbols(w) \cup {o, c}
           v == p \o w
           u == v \o q
<1>1. o.sym = "(" /\ c.sym = ")" /\ o \in A /\ c \in A /\ Symbols(w) \subseteq A /\ u = parens(w)
  BY DEF parens, Sym
<1> HIDE DEF o, c, A
<1>2. w \in Seq(Symbols(w)) /\ (\A i \in 0..Len(w) : Depth(w, i) \in Nat) /\ Depth(w, Len(w)) = 0
  BY DEF Closed
<1>3. p \in Seq(A) /\ q \in Seq(A) /\ Len(p) = 1 /\ Len(q) = 1 /\ p[1] = o /\ q[1] = c
  BY <1>1
<1> HIDE DEF p, q
<1>4. w \in Seq(A)
  BY <1>1, <1>2, SeqWider
<1>5. /\ v \in Seq(A) /\ Len(v) = Len(p) + Len(w) /\ Len(w) \in Nat
      /\ \A i \in 1..Len(p) : v[i] = p[i]
      /\ \A i \in 1..Len(w) : v[Len(p) + i] = w[i]
  <2>1. p \in Seq(A)
    BY <1>3
  <2> QED
    BY <1>4, <2>1, Concat
<1>6. /\ \A i \in 0..Len(p) : Depth(v, i) = Depth(p, i)
      /\ \A i \in 0..Len(w) : Depth(v, Len(p) + i) = Depth(p, Len(p)) + Depth(w, i)
  <2>1. p \in Seq(A)
    BY <1>3
  <2> QED
    BY <1>4, <2>1, DepthOfConcat
<1>7. Depth(p, 0) = 0 /\ Depth(p, 0 + 1) = 1 /\ Depth(q, 0) = 0 /\ Depth(q, 0 + 1) = -1
  <2>1. p[0 + 1].sym = "(" /\ q[0 + 1].sym = ")"
    BY <1>1, <1>3
  <2>2. /\ Depth(p, 0) = 0 /\ (p[0 + 1].sym = "(" => Depth(p, 0 + 1) = Depth(p, 0) + 1)
    BY SymbolStep
  <2>3. /\ Depth(q, 0) = 0 /\ (q[0 + 1].sym = ")" => Depth(q, 0 + 1) = Depth(q, 0) - 1)
    BY SymbolStep
  <2> QED
    BY <2>1, <2>2, <2>3
<1>8. Len(v) = Len(w) + 1 /\ v[1] = o /\ \A i \in 0..Len(w) : Depth(v, i + 1) = Depth(w, i) + 1
  <2>1. \A i \in 0..Len(w) : Depth(v, 1 + i) = 1 + Depth(w, i)
    BY <1>3, <1>6, <1>7
  <2>2. \A i \in 0..Len(w) : 1 + i = i + 1 /\ Depth(w, i) \in Nat
    BY <1>2, <1>5
  <2> QED
    BY <1>3, <1>5, <2>1, <2>2
<1> HIDE DEF v
<1>9. /\ u \in Seq(A) /\ Len(u) = Len(v) + Len(q)
      /\ \A i \in 1..Len(v) : u[i] = v[i]
      /\ \A i \in 1..Len(q) : u[Len(v) + i] = q[i]
  <2>1. v \in Seq(A) /\ q \in Seq(A)
    BY <1>3, <1>5
  <2> QED
    BY <2>1, Concat
<1>10. /\ \A i \in 0..Len(v) : Depth(u, i) = Depth(v, i)
       /\ \A i \in 0..Len(q) : Depth(u, Len(v) + i) = Depth(v, Len(v)) + Depth(q, i)
  <2>1. v \in Seq(A) /\ q \in Seq(A)
    BY <1>3, <1>5
  <2> QED
    BY <2>1, DepthOfConcat
<1> HIDE DEF u
<1>11. Len(u) = Len(w) + 2 /\ u[1].sym = "(" /\ u[Len(w) + 2].sym = ")"
  <2>1. Len(u) = Len(w) + 2 /\ 1 \in 1..Len(v) /\ 1 \in 1..Len(q) /\ Len(v) + 1 = Len(w) + 2
    BY <1>3, <1>5, <1>8, <1>9
  <2> QED
    BY <1>1, <1>3, <1>8, <1>9, <2>1
<1>12. \A i \in 1..(Len(w) + 1) : Depth(u, i) \in Nat \ {0}
  <2> TAKE i \in 1..(Len(w) + 1)
  <2>1. i - 1 \in 0..Len(w) /\ (i - 1) + 1 = i /\ i \in 0..Len(v)
    BY <1>5, <1>8
  <2>2. Depth(v, (i - 1) + 1) = Depth(w, i - 1) + 1 /\ Depth(w, i - 1) \in Nat
    BY <1>2, <1>8, <2>1
  <2> QED
    BY <1>10, <2>1, <2>2
<1>13. Depth(u, Len(w) + 2) = 0
  <2>1. Depth(u, Len(v) + 1) = Depth(v, Len(v)) + Depth(q, 1)
    BY <1>3, <1>10
  <2>2. Depth(v, Len(v)) = 1
    BY <1>2, <1>5, <1>8
  <2>3. Depth(q, 1) = -1 /\ Len(v) + 1 = Len(w) + 2
    BY <1>5, <1>7, <1>8
  <2> QED
    BY <2>1, <2>2, <2>3
<1>14. Depth(u, 0) = 0
  BY SymbolStep
<1>15. u \in Seq(Symbols(u))
  BY <1>9, OwnSymbols
<1>16. \A i \in 1..Len(w) : u[1 + i] = w[i]
  <2> TAKE i \in 1..Len(w)
  <2>1. 1 + i \in 1..Len(v) /\ v[1 + i] = w[i]
    BY <1>3, <1>5, <1>8
  <2> QED
    BY <1>9, <2>1
<1> QED
  BY <1>1, <1>5, <1>11, <1>12, <1>13, <1>14, <1>15, <1>16

LEMMA ClosedParens ==
    ASSUME NEW w, Closed(w)
    PROVE  Closed(parens(w))
<1> DEFINE u == parens(w)
<1>1. /\ u \in Seq(Symbols(u)) /\ Len(u) = Len(w) + 2 /\ Len(w) \in Nat
      /\ Depth(u, 0) = 0 /\ Depth(u, Len(w) + 2) = 0
      /\ \A i \in 1..(Len(w) + 1) : Depth(u, i) \in Nat \ {0}
  BY InParens
<1> HIDE DEF u
<1>2. \A i \in 0..Len(u) : i = 0 \/ i = Len(w) + 2 \/ i \in 1..(Len(w) + 1)
  BY <1>1
<1>3. \A i \in 0..Len(u) : Depth(u, i) \in Nat
  BY <1>1, <1>2
<1> QED
  BY <1>1, <1>3 DEF Closed, u

\* A set of syntax trees: with an expression come its operands, which are lower.
Trees(E, height) ==
    \A e \in E : /\ e.node \in {"cmp", "paren", "AND", "OR"} /\ height[e] \in Nat
                 /\ \A x \in Subexpressions(e) : x \in E /\ height[x] < height[e]

\* compileExpr, as a function: the one that compiles every node from its operands.
CompilesTo(E, table, tenant, expr) ==
    \A e \in E : expr[e] = compileNode(table, tenant, e, expr)

\* Whatever an expression compiles to, it closes its parentheses.
LEMMA CompiledIsClosed ==
    ASSUME NEW E, NEW height, Trees(E, height), NEW table, NEW tenant, NEW expr,
           CompilesTo(E, table, tenant, expr)
    PROVE  \A e \in E : expr[e].ok => Closed(expr[e].sql)
<1> DEFINE T == {n \in Nat : \A e \in E : height[e] < n /\ expr[e].ok => Closed(expr[e].sql)}
<1>1. \A e \in E : height[e] \in Nat
  BY DEF Trees
<1>2. 0 \in T
  BY <1>1
<1>3. ASSUME NEW n \in T PROVE n + 1 \in T
  <2> SUFFICES ASSUME NEW e \in E, height[e] < n + 1, expr[e].ok PROVE Closed(expr[e].sql)
    OBVIOUS
  <2>1. \A x \in Subexpressions(e) : x \in E /\ (expr[x].ok => Closed(expr[x].sql))
    <3> TAKE x \in Subexpressions(e)
    <3>1. x \in E /\ height[x] < height[e]
      BY DEF Trees
    <3>2. height[x] < n
      BY <1>1, <3>1
    <3> QED
      BY <3>1, <3>2
  <2>2. expr[e] = compileNode(table, tenant, e, expr) /\ e.node \in {"cmp", "paren", "AND", "OR"}
    BY DEF CompilesTo, Trees
  <2> HIDE DEF T
  <2>3. CASE e.node = "cmp"
    <3>1. expr[e] = compileComparison(table, tenant, e)
      BY <2>2, <2>3 DEF compileNode
    <3>2. PICK how, lhs, op, rhs : expr[e].sql = Pred(how, lhs, op, rhs)
      BY <3>1 DEF compileComparison, Sql, SqlError, TenantIs
    <3> DEFINE p == [sym |-> "pred", how |-> how, lhs |-> lhs, op |-> op, rhs |-> rhs]
    <3>3. p.sym \notin {"(", ")"} /\ expr[e].sql = <<p>>
      BY <3>2 DEF Pred
    <3> HIDE DEF p
    <3> QED
      BY <3>3, ClosedSymbol
  <2>4. CASE e.node = "paren"
    <3>1. e.inner \in Subexpressions(e)
      BY <2>4 DEF Subexpressions
    <3>2. expr[e] = IF expr[e.inner].ok THEN Sql(parens(expr[e.inner].sql)) ELSE SqlError
      BY <2>2, <2>4 DEF compileNode
    <3>3. expr[e.inner].ok /\ expr[e].sql = parens(expr[e.inner].sql)
      BY <3>2 DEF Sql, SqlError
    <3>4. Closed(expr[e.inner].sql)
      BY <2>1, <3>1, <3>3
    <3> QED
      BY <3>3, <3>4, ClosedParens
  <2>5. CASE e.node \in {"AND", "OR"}
    <3> DEFINE l == expr[e.left].sql
               r == expr[e.right].sql
               x == [sym |-> e.node]
    <3>1. e.left \in Subexpressions(e) /\ e.right \in Subexpressions(e)
      BY <2>5 DEF Subexpressions
    <3>2. expr[e] = IF expr[e.left].ok /\ expr[e.right].ok THEN Sql(parens(l \o <<x>> \o r)) ELSE SqlError
      BY <2>2, <2>5 DEF compileNode, Sym
    <3>3. expr[e.left].ok /\ expr[e.right].ok /\ expr[e].sql = parens(l \o <<x>> \o r)
      BY <3>2 DEF Sql, SqlError
    <3>4. Closed(l) /\ Closed(r)
      BY <2>1, <3>1, <3>3
    <3>5. Closed(<<x>>)
      <4>1. x.sym \notin {"(", ")"}
        BY <2>5
      <4> HIDE DEF x
      <4> QED
        BY <4>1, ClosedSymbol
    <3> HIDE DEF l, r, x
    <3>6. Closed(l \o <<x>>)
      BY <3>4, <3>5, ClosedConcat
    <3>7. Closed((l \o <<x>>) \o r)
      BY <3>4, <3>6, ClosedConcat
    <3> QED
      BY <3>3, <3>7, ClosedParens
  <2> QED
    BY <2>2, <2>3, <2>4, <2>5
<1> HIDE DEF T
<1>4. T \in SUBSET Nat
  BY DEF T
<1>5. \A n \in Nat : n \in T
  BY <1>2, <1>3, <1>4, Induct
<1>6. ASSUME NEW e \in E, expr[e].ok PROVE Closed(expr[e].sql)
  <2>1. height[e] + 1 \in T /\ height[e] < height[e] + 1
    BY <1>1, <1>5
  <2> QED
    BY <1>6, <2>1 DEF T
<1> QED
  BY <1>6

\* Putting the values of a row in changes neither symbols nor depths.
LEMMA RowPutIn ==
    ASSUME NEW A, NEW w \in Seq(A), NEW row, NEW now
    PROVE  LET g == chCondition(w, row, now) IN
           /\ g \in Seq(Symbols(g)) /\ Len(g) = Len(w) /\ DOMAIN g = 1..Len(w)
           /\ \A i \in 1..Len(w) : g[i].sym = w[i].sym
           /\ \A i \in 0..Len(w) : Depth(g, i) = Depth(w, i)
<1> DEFINE g == chCondition(w, row, now)
<1>1. DOMAIN w = 1..Len(w) /\ Len(w) \in Nat
  OBVIOUS
<1>2. g = [i \in DOMAIN w |-> g[i]] /\ \A i \in DOMAIN w : g[i].sym = w[i].sym
  BY DEF chCondition
<1> HIDE DEF g
<1>3. DOMAIN g = 1..Len(w)
  BY <1>1, <1>2
<1>4. g \in [1..Len(w) -> Symbols(g)]
  BY <1>1, <1>2, <1>3 DEF Symbols
<1>5. g \in Seq(Symbols(g)) /\ Len(g) = Len(w)
  BY <1>1, <1>4
<1>6. \A i \in 0..Len(w) : Depth(g, i) = Depth(w, i)
  BY <1>1, <1>2, DepthOfPrefix
<1> QED
  BY <1>1, <1>2, <1>3, <1>5, <1>6 DEF g

\* A part of a condition with a row put in is the part, with the row put in.
LEMMA PartPutIn ==
    ASSUME NEW A, NEW v \in Seq(A), NEW w \in Seq(A), NEW k \in Nat, k + Len(v) <= Len(w),
           \A i \in 1..Len(v) : w[k + i] = v[i], NEW row, NEW now
    PROVE  SubSeq(chCondition(w, row, now), k + 1, k + Len(v)) = chCondition(v, row, now)
<1> DEFINE g == chCondition(w, row, now)
           x == chCondition(v, row, now)
           n == Len(v)
<1>1. DOMAIN w = 1..Len(w) /\ Len(w) \in Nat /\ DOMAIN v = 1..n /\ n \in Nat
  OBVIOUS
<1>2. x = [i \in 1..n |-> x[i]]
  BY <1>1 DEF chCondition
<1>3. ASSUME NEW i \in 1..n PROVE g[k + i] = x[i]
  <2>1. k + i \in DOMAIN w /\ i \in DOMAIN v /\ w[k + i] = v[i]
    BY <1>1
  <2> QED
    BY <2>1 DEF chCondition
<1>4. g \in Seq(Symbols(g)) /\ Len(g) = Len(w)
  BY RowPutIn
<1> HIDE DEF g, x, n
<1>5. SubSeq(g, k + 1, k + n) = [i \in 1..n |-> g[k + i]]
  BY <1>1, <1>4
<1>6. [i \in 1..n |-> g[k + i]] = [i \in 1..n |-> x[i]]
  BY <1>3
<1> QED
  BY <1>2, <1>5, <1>6 DEF g, x, n

\* A parenthesised condition is not taken apart before its parentheses are off.
LEMMA ParensAreOutermost ==
    ASSUME NEW w, Closed(w), NEW row, NEW now
    PROVE  LET x == chCondition(parens(w), row, now) IN
           /\ TopLevel(x, "OR") = {} /\ TopLevel(x, "AND") = {} /\ x[1].sym = "("
           /\ InnerPart(x) = chCondition(w, row, now)
<1> DEFINE u == parens(w)
           x == chCondition(u, row, now)
           n == Len(w)
           A == Symbols(u) \cup Symbols(w)
<1>1. /\ u \in Seq(Symbols(u)) /\ Len(u) = n + 2 /\ n \in Nat
      /\ u[1].sym = "(" /\ u[n + 2].sym = ")"
      /\ \A i \in 1..n : u[1 + i] = w[i]
      /\ \A i \in 1..(n + 1) : Depth(u, i) \in Nat \ {0}
  BY InParens
<1>2. w \in Seq(Symbols(w)) /\ Symbols(w) \subseteq A /\ Symbols(u) \subseteq A
  BY DEF Closed
<1> HIDE DEF u, A
<1>3. u \in Seq(A) /\ w \in Seq(A)
  BY <1>1, <1>2, SeqWider
<1>4. /\ x \in Seq(Symbols(x)) /\ Len(x) = Len(u) /\ DOMAIN x = 1..Len(u)
      /\ \A i \in 1..Len(u) : x[i].sym = u[i].sym
      /\ \A i \in 0..Len(u) : Depth(x, i) = Depth(u, i)
  BY <1>3, RowPutIn
<1>5. SubSeq(x, 1 + 1, 1 + n) = chCondition(w, row, now)
  <2>1. 1 \in Nat /\ 1 + n <= Len(u) /\ w \in Seq(A) /\ u \in Seq(A) /\ \A i \in 1..n : u[1 + i] = w[i]
    BY <1>1, <1>3
  <2> HIDE DEF x
  <2> QED
    BY <2>1, PartPutIn DEF x
<1> HIDE DEF x, n
<1>6. x[1].sym = "(" /\ x[n + 2].sym = ")"
  BY <1>1, <1>4
<1>7. \A i \in DOMAIN x : i = n + 2 \/ Depth(x, i) # 0
  BY <1>1, <1>4
<1>8. TopLevel(x, "OR") = {} /\ TopLevel(x, "AND") = {}
  BY <1>6, <1>7 DEF TopLevel
<1>9. InnerPart(x) = chCondition(w, row, now)
  <2>1. 1 + 1 = 2 /\ 1 + n = Len(x) - 1
    BY <1>1, <1>4
  <2> QED
    BY <1>5, <2>1 DEF InnerPart
<1> QED
  BY <1>6, <1>8, <1>9 DEF x, u

\* The guard is taken apart at its own AND: nothing the user wrote is at depth 0.
LEMMA GuardIsOutermost ==
    ASSUME NEW w, Closed(w), NEW tenant, NEW row, NEW now
    PROVE  LET g == chCondition(guarded(tenant, w), row, now) IN
           /\ TopLevel(g, "OR") = {} /\ TopLevel(g, "AND") = {2}
           /\ LeftPart(g, 2) = chCondition(TenantIs(tenant), row, now)
           /\ RightPart(g, 2) = chCondition(parens(w), row, now)
<1> DEFINE p == TenantIs(tenant)[1]
           a == [sym |-> "AND"]
           q == <<p>>
           r == <<a>>
           h == q \o r
           u == parens(w)
           A == Symbols(u) \cup {p, a}
           G == h \o u
           g == chCondition(G, row, now)
           n == Len(w)
<1>1. p.sym = "pred" /\ a.sym = "AND" /\ TenantIs(tenant) = q /\ guarded(tenant, w) = G
  BY DEF TenantIs, Pred, Sym, guarded
<1>2. p \in A /\ a \in A /\ Symbols(u) \subseteq A
  OBVIOUS
<1> HIDE DEF p, a
<1>3. q \in Seq(A) /\ r \in Seq(A) /\ Len(q) = 1 /\ Len(r) = 1 /\ q[1] = p /\ r[1] = a
  BY <1>2
<1>4. Closed(q) /\ Closed(r)
  BY <1>1, ClosedSymbol
<1> HIDE DEF q, r
<1>5. Closed(h)
  BY <1>4, ClosedConcat
<1>6. /\ h \in Seq(A) /\ Len(h) = Len(q) + Len(r)
      /\ \A i \in 1..Len(q) : h[i] = q[i]
      /\ \A i \in 1..Len(r) : h[Len(q) + i] = r[i]
  <2>1. q \in Seq(A) /\ r \in Seq(A)
    BY <1>3
  <2> QED
    BY <2>1, Concat
<1>7. Len(h) = 2 /\ h[1] = p /\ h[2] = a
  BY <1>3, <1>6
<1> HIDE DEF h
<1>8. /\ u \in Seq(Symbols(u)) /\ Len(u) = n + 2 /\ n \in Nat
      /\ u[1].sym = "(" /\ u[n + 2].sym = ")"
      /\ Depth(u, 0) = 0 /\ Depth(u, n + 2) = 0
      /\ \A i \in 1..(n + 1) : Depth(u, i) \in Nat \ {0}
  BY InParens
<1> HIDE DEF u, A, n
<1>9. u \in Seq(A)
  BY <1>2, <1>8, SeqWider
<1>10. /\ G \in Seq(A) /\ Len(G) = Len(h) + Len(u)
       /\ \A i \in 1..Len(h) : G[i] = h[i]
       /\ \A i \in 1..Len(u) : G[Len(h) + i] = u[i]
  <2>1. h \in Seq(A) /\ u \in Seq(A)
    BY <1>6, <1>9
  <2> QED
    BY <2>1, Concat
<1>11. /\ \A i \in 0..Len(h) : Depth(G, i) = Depth(h, i)
       /\ \A i \in 0..Len(u) : Depth(G, Len(h) + i) = Depth(h, Len(h)) + Depth(u, i)
  <2>1. h \in Seq(A) /\ u \in Seq(A)
    BY <1>6, <1>9
  <2> QED
    BY <2>1, DepthOfConcat
<1> HIDE DEF G
<1>12. Len(G) = n + 4 /\ G[1] = p /\ G[2] = a /\ \A i \in 1..(n + 2) : G[2 + i] = u[i]
  BY <1>7, <1>8, <1>10
<1>13. /\ g \in Seq(Symbols(g)) /\ Len(g) = Len(G) /\ DOMAIN g = 1..Len(G)
       /\ \A i \in 1..Len(G) : g[i].sym = G[i].sym
       /\ \A i \in 0..Len(G) : Depth(g, i) = Depth(G, i)
  BY <1>10, RowPutIn
<1>14. SubSeq(g, 0 + 1, 0 + Len(q)) = chCondition(q, row, now)
  <2> DEFINE k == 0
  <2>1. /\ k \in Nat /\ k + Len(q) <= Len(G) /\ \A i \in 1..Len(q) : G[k + i] = q[i]
        /\ q \in Seq(A) /\ G \in Seq(A)
    BY <1>3, <1>8, <1>10, <1>12
  <2> HIDE DEF k
  <2>2. SubSeq(g, k + 1, k + Len(q)) = chCondition(q, row, now)
    BY <2>1, PartPutIn
  <2> QED
    BY <2>2 DEF k
<1>15. SubSeq(g, 2 + 1, 2 + Len(u)) = chCondition(u, row, now)
  <2>1. /\ 2 \in Nat /\ 2 + Len(u) <= Len(G) /\ \A i \in 1..Len(u) : G[2 + i] = u[i]
        /\ u \in Seq(A) /\ G \in Seq(A)
    BY <1>8, <1>9, <1>10, <1>12
  <2> QED
    BY <2>1, PartPutIn
<1> HIDE DEF g
<1>16. /\ g[1].sym = "pred" /\ g[2].sym = "AND" /\ g[n + 4].sym = ")" /\ Depth(g, 2) = 0
       /\ \A i \in 3..(n + 3) : Depth(g, i) # 0
  <2>1. g[1].sym = "pred" /\ g[2].sym = "AND"
    BY <1>1, <1>8, <1>12, <1>13
  <2>2. g[n + 4].sym = ")"
    <3>1. n + 2 \in 1..(n + 2) /\ 2 + (n + 2) = n + 4 /\ n + 4 \in 1..Len(G)
      BY <1>8, <1>12
    <3>2. G[2 + (n + 2)] = u[n + 2]
      BY <1>12, <3>1
    <3> QED
      BY <1>8, <1>13, <3>1, <3>2
  <2>3. Depth(h, Len(h)) = 0
    BY <1>5 DEF Closed
  <2>4. Depth(g, 2) = 0
    BY <1>7, <1>8, <1>11, <1>12, <1>13, <2>3
  <2>5. ASSUME NEW i \in 3..(n + 3) PROVE Depth(g, i) # 0
    <3>1. i - 2 \in 1..(n + 1) /\ i - 2 \in 0..Len(u) /\ 2 + (i - 2) = i /\ i \in 0..Len(G)
      BY <1>8, <1>12
    <3>2. Depth(G, 2 + (i - 2)) = 0 + Depth(u, i - 2)
      BY <1>7, <1>11, <2>3, <3>1
    <3>3. Depth(u, i - 2) \in Nat \ {0}
      BY <1>8, <3>1
    <3> QED
      BY <1>13, <3>1, <3>2, <3>3
  <2> QED
    BY <2>1, <2>2, <2>4, <2>5
<1>17. \A i \in DOMAIN g : i = 1 \/ i = 2 \/ i \in 3..(n + 3) \/ i = n + 4
  BY <1>8, <1>12, <1>13
<1>18. TopLevel(g, "OR") = {}
  BY <1>16, <1>17 DEF TopLevel
<1>19. TopLevel(g, "AND") = {2}
  <2>1. 2 \in DOMAIN g
    BY <1>8, <1>12, <1>13
  <2> QED
    BY <1>16, <1>17, <2>1 DEF TopLevel
<1>20. LeftPart(g, 2) = chCondition(q, row, now) /\ RightPart(g, 2) = chCondition(u, row, now)
  <2>1. 0 + 1 = 1 /\ 0 + Len(q) = 2 - 1 /\ 2 + Len(u) = Len(g)
    BY <1>3, <1>8, <1>12, <1>13
  <2> QED
    BY <1>14, <1>15, <2>1 DEF LeftPart, RightPart
<1> QED
  BY <1>1, <1>18, <1>19, <1>20 DEF g, u

\* ClickHouse's reading of a set of conditions: each from those in it.
ReadsAs(C, meaning) ==
    \A w \in C : /\ meaning[w] \in BOOLEAN
                 /\ SubConditions(w) \subseteq C /\ meaning[w] = MeansOf(w, meaning)

\* The guard is outermost in the compiled condition: what ClickHouse makes of
\* the whole is what it makes of the guard and of the user's part.
LEMMA GuardIsConjoined ==
    ASSUME NEW E, NEW height, Trees(E, height),
           NEW table, NEW tenant, NEW expr, CompilesTo(E, table, tenant, expr),
           NEW where \in E, expr[where].ok,
           NEW row, NEW now, NEW C, NEW meaning, ReadsAs(C, meaning),
           chCondition(guarded(tenant, expr[where].sql), row, now) \in C
    PROVE  meaning[chCondition(guarded(tenant, expr[where].sql), row, now)]
             <=> row.tenant_id = tenant /\ meaning[chCondition(expr[where].sql, row, now)]
<1> DEFINE w == expr[where].sql
           g == chCondition(guarded(tenant, w), row, now)
           t == chCondition(TenantIs(tenant), row, now)
           x == chCondition(parens(w), row, now)
           y == chCondition(w, row, now)
<1>1. Closed(w)
  BY CompiledIsClosed
<1>2. /\ TopLevel(g, "OR") = {} /\ TopLevel(g, "AND") = {2}
      /\ LeftPart(g, 2) = t /\ RightPart(g, 2) = x
  BY <1>1, GuardIsOutermost
<1>3. TopLevel(x, "OR") = {} /\ TopLevel(x, "AND") = {} /\ x[1].sym = "(" /\ InnerPart(x) = y
  BY <1>1, ParensAreOutermost
<1>4. g \in C
  OBVIOUS
<1> HIDE DEF g, x, y
<1>5. t \in C /\ x \in C /\ meaning[g] = (meaning[t] /\ meaning[x])
  <2>1. Split(g) = 2
    BY <1>2 DEF Split, Splits
  <2>2. SubConditions(g) = {t, x}
    BY <1>2, <2>1 DEF SubConditions, Splits
  <2>3. MeansOf(g, meaning) = (meaning[t] /\ meaning[x])
    BY <1>2, <2>1 DEF MeansOf
  <2> QED
    BY <1>4, <2>2, <2>3 DEF ReadsAs
<1>6. y \in C /\ meaning[x] = meaning[y]
  <2>1. SubConditions(x) = {y} /\ MeansOf(x, meaning) = meaning[y]
    BY <1>3 DEF SubConditions, Splits, MeansOf
  <2> QED
    BY <1>5, <2>1 DEF ReadsAs
<1>7. \A i \in DOMAIN t : t[i].sym = "pred"
  <2> DEFINE p == TenantIs(tenant)[1]
  <2>1. DOMAIN TenantIs(tenant) = {1} /\ p.sym = "pred"
    BY DEF TenantIs, Pred
  <2> QED
    BY <2>1 DEF chCondition
<1>8. t[1].sym = "pred" /\ t[1].holds = (row.tenant_id = tenant)
  <2> DEFINE p == [sym |-> "pred", how |-> "string", lhs |-> Col("tenant_id"), op |-> "=", rhs |-> tenant]
             q == <<p>>
  <2>1. TenantIs(tenant) = q
    BY DEF TenantIs, Pred
  <2>2. 1 \in DOMAIN q /\ q[1] = p
    OBVIOUS
  <2>3. p.sym = "pred" /\ p.how = "string" /\ p.lhs = Col("tenant_id") /\ p.rhs = tenant
    OBVIOUS
  <2> HIDE DEF p, q
  <2>4. Col("tenant_id").path = <<>> /\ Col("tenant_id").col = "tenant_id"
    BY DEF Col
  <2>5. chColumn(p.lhs, row) = row.tenant_id
    BY <2>3, <2>4 DEF chColumn
  <2>6. chPred(p, row, now) = (row.tenant_id = tenant)
    BY <2>3, <2>4, <2>5 DEF chPred
  <2>7. t[1] = [sym |-> "pred", holds |-> chPred(p, row, now)]
    BY <2>1, <2>2, <2>3 DEF chCondition
  <2> QED
    BY <2>6, <2>7
<1> HIDE DEF t
<1>9. MeansOf(t, meaning) = (row.tenant_id = tenant)
  <2>1. TopLevel(t, "OR") = {} /\ TopLevel(t, "AND") = {}
    BY <1>7 DEF TopLevel
  <2> QED
    BY <1>8, <2>1 DEF MeansOf
<1>10. meaning[t] = (row.tenant_id = tenant)
  BY <1>5, <1>9 DEF ReadsAs
<1>11. meaning[g] <=> row.tenant_id = tenant /\ meaning[y]
  BY <1>5, <1>6, <1>10
<1> QED
  BY <1>11 DEF g, y

\* compile.go, whereSQL: "the forced tenant guard".  For every table, every
\* condition the parser can build (E may be any set of syntax trees), every
\* SELECT list that gives the name tenant_id to nothing else (ClickHouse would
\* look that up before the column), every row and time: ClickHouse finds the
\* row exactly when it belongs to the tenant and the compiled condition alone
\* is true of it, the names in it standing for whatever the SELECT list makes
\* of them.  No parenthesis, OR or tenant comparison gets past the guard.
THEOREM GuardConfines ==
    ASSUME NEW E, NEW height, Trees(E, height),
           NEW table, NEW tenant, NEW expr, CompilesTo(E, table, tenant, expr),
           NEW where \in E, expr[where].ok,
           NEW items, Unshadowed(items, "tenant_id"),
           NEW row, "tenant_id" \in DOMAIN row,
           NEW now, NEW C, NEW meaning, ReadsAs(C, meaning),
           chCondition(guarded(tenant, expr[where].sql), chNames(items, row), now) \in C
    PROVE  meaning[chCondition(guarded(tenant, expr[where].sql), chNames(items, row), now)]
             <=> /\ row.tenant_id = tenant
                 /\ meaning[chCondition(expr[where].sql, chNames(items, row), now)]
<1> DEFINE names == chNames(items, row)
<1>1. names.tenant_id = row.tenant_id
  <2>1. CASE Aliased(items, "tenant_id") = {}
    BY <2>1 DEF chNames
  <2>2. CASE Aliased(items, "tenant_id") # {}
    <3> DEFINE it == CHOOSE it \in Aliased(items, "tenant_id") : TRUE
    <3>1. it \in Aliased(items, "tenant_id")
      BY <2>2
    <3>2. it.expr = Col("tenant_id")
      BY <3>1 DEF Unshadowed
    <3>3. Col("tenant_id").path = <<>> /\ Col("tenant_id").col = "tenant_id"
      BY DEF Col
    <3> HIDE DEF it
    <3>4. chColumn(it.expr, row) = row.tenant_id
      BY <3>2, <3>3 DEF chColumn
    <3> QED
      BY <2>2, <3>4 DEF chNames, it
  <2> QED
    BY <2>1, <2>2
<1> HIDE DEF names
<1>2. chCondition(guarded(tenant, expr[where].sql), names, now) \in C
  BY DEF names
<1>3. meaning[chCondition(guarded(tenant, expr[where].sql), names, now)]
        <=> names.tenant_id = tenant /\ meaning[chCondition(expr[where].sql, names, now)]
  BY <1>2, GuardIsConjoined
<1> QED
  BY <1>1, <1>3 DEF names

=============================================================================
