---------------------------- MODULE ScListProofs ----------------------------
(***************************************************************************)
(* For any number of lists and elements, and any operations in any order,  *)
(* also from inside a loop: the pointers make lists that are sequences of  *)
(* elements, every operation of sc_list.c does to them what ListSpec says, *)
(* and a loop sees what it should.  (The Sentinel of ListOps, a list head, *)
(* plays no part here.)                                                    *)
(***************************************************************************)
EXTENDS ScList, ListOpsProofs, FiniteSetTheorems, WellFoundedInduction, TLAPS

\* What the pointer operations need of the links and what they give back.
Ring(L) ==
    /\ L \in Links
    /\ \A n \in Node : L.next[L.prev[n]] = n /\ L.prev[L.next[n]] = n

\* The i-th node of list l with the elements s: the head comes before the
\* first and after the last of them.
At(l, s, i) == IF i \in 1 .. Len(s) THEN s[i] ELSE l

\* Going along next from the head of l is going through s, and back.
Follows(L, l, s) == \A i \in 0 .. Len(s) : L.next[At(l, s, i)] = At(l, s, i + 1)

\* The links make the lists I, and no other ring: no element is twice in them,
\* and an element in none of them is a ring of its own.
Holds(L, I) ==
    /\ I \in [Lists -> Seq(Elems)]
    /\ \A l \in Lists : NoRepeat(I[l]) /\ Follows(L, l, I[l])
    /\ \A l, m \in Lists : l # m => ToSet(I[l]) \cap ToSet(I[m]) = {}
    /\ \A e \in Elems : (\A l \in Lists : e \notin ToSet(I[l])) => L.next[e] = e

\* The lists that the links make.
Items(L) == [l \in Lists |-> Walk(L, l)]

\* The links make lists.
Linked(L) == Ring(L) /\ Holds(L, Items(L))

\* The lists once e has been taken out of the one it is in, and once it has
\* been put into l as the k-th element.
Out(I, e) == [l \in Lists |-> RemoveFirst(I[l], e)]

Put(I, l, k, e) == [Out(I, e) EXCEPT ![l] = InsertAt(@, k, e)]

\* The element a comes somewhere before b in s.
Before(s, a, b) == \E i, j \in DOMAIN s : i < j /\ s[i] = a /\ s[j] = b

\* v is how s begins.
Begins(v, s) == Len(v) <= Len(s) /\ \A i \in 1 .. Len(v) : v[i] = s[i]

\* k is what is left of a list: in the list, and in its order.
Remains(k, s) ==
    /\ NoRepeat(k)
    /\ ToSet(k) \subseteq ToSet(s)
    /\ \A a, b \in ToSet(k) : Before(k, a, b) => Before(s, a, b)

\* What a loop sees in a list of which it has saved the node n: it is the head
\* or in the list, and what is visited is what comes before it.
Sees(l, s, k, v, n) ==
    /\ n = l \/ n \in ToSet(s)
    /\ Begins(v, k)
    /\ \A a \in ToSet(k) : a \in ToSet(v) <=> n = l \/ Before(s, a, n)

\* Where the loop is.
LoopInv ==
    IF Looping
    THEN LET s == Items(link)[list]
         IN  /\ list \in Lists
             /\ Remains(kept, s)
             /\ IF it = list
                THEN visited = kept /\ (tmp = list \/ tmp \in ToSet(s))
                ELSE Sees(list, s, kept, visited, tmp)
    ELSE kept = <<>> /\ visited = <<>>

\* The inductive invariant.
IInv ==
    /\ TypeOK
    /\ Linked(link)
    /\ LoopInv

-----------------------------------------------------------------------------
(* Induction, with the set of the numbers of which something is true.      *)

\* A set of natural numbers that is not empty has a least one.
LEMMA Least ==
    ASSUME NEW T \in SUBSET Nat, T # {}
    PROVE  \E n \in T : \A m \in T : n <= m
<1> DEFINE R == {p \in Nat \X Nat : p[1] < p[2]}
<1>1. IsWellFoundedOn(R, Nat)
  <2>1. R = OpToRel(<, Nat)
    BY DEF OpToRel
  <2> QED BY <2>1, NatLessThanWellFounded
<1> HIDE DEF R
<1>2. PICK n \in T : \A m \in T : <<m, n>> \notin R
  BY <1>1, WFMin
<1>3. \A m \in T : ~(m < n)
  BY <1>2 DEF R
<1> QED BY <1>3

\* What is in a set of numbers with zero and every successor is every number.
LEMMA SetInduction ==
    ASSUME NEW T \in SUBSET Nat, 0 \in T, \A n \in T : n + 1 \in T
    PROVE  T = Nat
<1> SUFFICES ASSUME Nat \ T # {} PROVE FALSE
  OBVIOUS
<1>1. PICK n \in Nat \ T : \A m \in Nat \ T : n <= m
  BY Least
<1>2. n - 1 \in Nat /\ n - 1 \in T
  BY <1>1
<1> QED BY <1>1, <1>2

\* How a sequence of n values in S goes on.
StepsIn(S, n) == [S \X (1 .. n) -> S]

\* A function can be defined by what it is at zero and how it goes on.
LEMMA Recursion ==
    ASSUME NEW S, NEW a \in S, NEW n \in Nat, NEW G \in StepsIn(S, n)
    PROVE  \E f \in [0 .. n -> S] :
              f[0] = a /\ \A k \in 1 .. n : f[k] = G[<<f[k - 1], k>>]
<1> DEFINE Def(f, m) == /\ f \in [0 .. m -> S]
                        /\ f[0] = a
                        /\ \A k \in 1 .. m : f[k] = G[<<f[k - 1], k>>]
           T == {m \in Nat : m <= n => \E f : Def(f, m)}
<1>1. 0 \in T
  <2>1. Def([k \in 0 .. 0 |-> a], 0)
    OBVIOUS
  <2> QED BY <2>1
<1>2. ASSUME NEW m \in T PROVE m + 1 \in T
  <2> SUFFICES ASSUME m + 1 <= n PROVE \E f : Def(f, m + 1)
    OBVIOUS
  <2>1. m \in Nat /\ m <= n
    OBVIOUS
  <2>2. PICK f : Def(f, m)
    BY <2>1
  <2> DEFINE b == G[<<f[m], m + 1>>]
             g == [k \in 0 .. m + 1 |-> IF k = m + 1 THEN b ELSE f[k]]
  <2>3. b \in S
    BY <2>1, <2>2 DEF StepsIn
  <2> HIDE DEF b
  <2>4. g \in [0 .. m + 1 -> S] /\ g[0] = a
    BY <2>1, <2>2, <2>3
  <2>5. ASSUME NEW k \in 1 .. m + 1 PROVE g[k] = G[<<g[k - 1], k>>]
    <3>1. k - 1 \in 0 .. m /\ g[k - 1] = f[k - 1]
      BY <2>1
    <3>2. CASE k = m + 1
      <4>1. k - 1 = m /\ g[k] = b
        BY <2>1, <3>2
      <4> QED BY <3>1, <3>2, <4>1 DEF b
    <3>3. CASE k # m + 1
      <4>1. k \in 1 .. m /\ g[k] = f[k]
        BY <2>1, <3>3
      <4> QED BY <2>2, <3>1, <4>1
    <3> QED BY <3>2, <3>3
  <2> HIDE DEF g
  <2> QED BY <2>4, <2>5
<1>3. T \in SUBSET Nat
  OBVIOUS
<1> HIDE DEF T
<1>4. n \in T
  BY <1>1, <1>2, <1>3, SetInduction
<1> QED BY <1>4 DEF T

-----------------------------------------------------------------------------
(* The walk along the links.                                               *)

\* The walk of a loop, step by step.
LEMMA StepsUnfold ==
    ASSUME NEW L \in Links, NEW l \in Node, NEW N \in Nat, N = Cardinality(Elems)
    PROVE  /\ Steps(L, l)[0] = l
           /\ \A k \in 1 .. N + 1 : Steps(L, l)[k] = L.next[Steps(L, l)[k - 1]]
<1> DEFINE M == N + 1
           Def(f) == f = [k \in 0 .. M |-> IF k = 0 THEN l ELSE L.next[f[k - 1]]]
           G == [p \in Node \X (1 .. M) |-> L.next[p[1]]]
<1>1. M \in Nat
  OBVIOUS
<1>2. G \in StepsIn(Node, M)
  BY DEF Links, StepsIn
<1>3. PICK f \in [0 .. M -> Node] :
         f[0] = l /\ \A k \in 1 .. M : f[k] = G[<<f[k - 1], k>>]
  <2> HIDE DEF G, M
  <2> QED BY <1>1, <1>2, Recursion
<1>4. Def(f)
  <2>1. ASSUME NEW k \in 0 .. M, k # 0 PROVE f[k] = L.next[f[k - 1]]
    <3>1. k \in 1 .. M /\ f[k - 1] \in Node
      BY <2>1
    <3>2. f[k] = G[<<f[k - 1], k>>]
      BY <1>3, <3>1
    <3> QED BY <3>1, <3>2
  <2> QED BY <1>3, <2>1
<1>5. Def(Steps(L, l))
  BY <1>4 DEF Steps
<1>6. Steps(L, l)[0] = l
  BY <1>5
<1>7. ASSUME NEW k \in 1 .. M PROVE Steps(L, l)[k] = L.next[Steps(L, l)[k - 1]]
  BY <1>5
<1> QED BY <1>6, <1>7

\* A list without repetition is not longer than there are elements.
LEMMA LengthBound ==
    ASSUME IsFiniteSet(Elems), NEW s \in Seq(Elems), NoRepeat(s)
    PROVE  Cardinality(Elems) \in Nat /\ Len(s) <= Cardinality(Elems)
<1>1. Len(s) \in Nat /\ s \in [1 .. Len(s) -> Elems]
  OBVIOUS
<1>2. s \in Injection(1 .. Len(s), Elems)
  BY <1>1 DEF NoRepeat, Injection, IsInjective
<1>3. Cardinality(1 .. Len(s)) = Len(s)
  BY <1>1, FS_Interval
<1> QED BY <1>2, <1>3, FS_Injection, FS_CardinalityType

\* Links that follow a sequence are walked along that sequence.
LEMMA WalkFollows ==
    ASSUME ScListAssumption, NEW L \in Links, NEW l \in Lists, NEW s \in Seq(Elems),
           NoRepeat(s), Follows(L, l, s)
    PROVE  Walk(L, l) = s
<1> DEFINE N == Cardinality(Elems)
           at == Steps(L, l)
           T == {k \in Nat : k <= Len(s) + 1 => at[k] = At(l, s, k)}
           back == {k \in 1 .. N + 1 : at[k] = l}
<1>1. N \in Nat /\ Len(s) \in Nat /\ Len(s) <= N /\ l \in Node
  BY LengthBound DEF ScListAssumption, Node
<1>2. at[0] = l /\ \A k \in 1 .. N + 1 : at[k] = L.next[at[k - 1]]
  BY <1>1, StepsUnfold
<1> HIDE DEF N, at
<1>3. \A k \in 0 .. Len(s) + 1 : at[k] = At(l, s, k)
  <2>1. 0 \in T
    BY <1>2 DEF At
  <2>2. ASSUME NEW k \in T PROVE k + 1 \in T
    <3> SUFFICES ASSUME k + 1 <= Len(s) + 1 PROVE at[k + 1] = At(l, s, k + 1)
      OBVIOUS
    <3>1. k \in 0 .. Len(s) /\ k + 1 \in 1 .. N + 1 /\ (k + 1) - 1 = k /\ at[k] = At(l, s, k)
      BY <1>1
    <3>2. at[k + 1] = L.next[at[k]]
      BY <1>2, <3>1
    <3> QED BY <3>1, <3>2 DEF Follows
  <2>3. T \in SUBSET Nat
    OBVIOUS
  <2>4. T = Nat
    <3> HIDE DEF T
    <3> QED BY <2>1, <2>2, <2>3, SetInduction
  <2> QED BY <1>1, <2>4
<1>4. \A k \in 1 .. Len(s) : at[k] = s[k] /\ at[k] # l
  BY <1>1, <1>3 DEF At, ScListAssumption
<1>5. at[Len(s) + 1] = l
  BY <1>1, <1>3 DEF At
<1>6. Len(s) + 1 \in back /\ \A k \in back : Len(s) + 1 <= k
  BY <1>1, <1>4, <1>5
<1>7. (CHOOSE k \in back : \A j \in back : k <= j) = Len(s) + 1
  <2> DEFINE c == CHOOSE k \in back : \A j \in back : k <= j
  <2>1. c \in back /\ \A j \in back : c <= j
    BY <1>6
  <2> QED BY <1>1, <1>6, <2>1
<1>8. Walk(L, l) = [k \in 1 .. Len(s) |-> at[k]]
  <2> DEFINE len == IF back = {} THEN N
                    ELSE (CHOOSE k \in back : \A j \in back : k <= j) - 1
  <2>1. len = Len(s)
    BY <1>1, <1>6, <1>7
  <2>2. Walk(L, l) = [k \in 1 .. len |-> at[k]]
    BY DEF Walk, at, N
  <2> HIDE DEF len
  <2> QED BY <2>1, <2>2
<1>9. [k \in 1 .. Len(s) |-> at[k]] = s
  BY <1>4
<1> QED BY <1>8, <1>9

\* The nodes of a list: the head at either end, the elements between, and no
\* node twice before the end.
LEMMA AtFacts ==
    ASSUME ScListAssumption, NEW l \in Lists, NEW s \in Seq(Elems), NoRepeat(s)
    PROVE  /\ At(l, s, 0) = l /\ At(l, s, Len(s) + 1) = l
           /\ \A i \in 1 .. Len(s) : At(l, s, i) = s[i] /\ s[i] \in Elems /\ s[i] # l
           /\ \A i \in 0 .. Len(s) + 1 : At(l, s, i) \in Node
           /\ \A i, j \in 0 .. Len(s) : At(l, s, i) = At(l, s, j) => i = j
<1>1. Len(s) \in Nat
  OBVIOUS
<1>2. At(l, s, 0) = l /\ At(l, s, Len(s) + 1) = l
  BY <1>1 DEF At
<1>3. \A i \in 1 .. Len(s) : At(l, s, i) = s[i] /\ s[i] \in Elems /\ s[i] # l
  BY DEF At, ScListAssumption
<1>4. \A i \in 0 .. Len(s) + 1 : At(l, s, i) \in Node
  BY DEF At, Node
<1>5. ASSUME NEW i \in 0 .. Len(s), NEW j \in 0 .. Len(s), At(l, s, i) = At(l, s, j)
      PROVE  i = j
  <2>1. CASE i = 0 \/ j = 0
    BY <1>2, <1>3, <1>5, <2>1
  <2>2. CASE i # 0 /\ j # 0
    BY <1>1, <1>3, <1>5, <2>2 DEF NoRepeat
  <2> QED BY <2>1, <2>2
<1> QED BY <1>2, <1>3, <1>4, <1>5

-----------------------------------------------------------------------------
(* sc_list_del and the splice keep the rings.                              *)

\* sc_list_del closes the ring an element leaves and makes the element a ring
\* of its own.
LEMMA DelKeepsRing ==
    ASSUME NEW L, Ring(L), NEW e \in Node
    PROVE  /\ Ring(sc_list_del(L, e))
           /\ sc_list_del(L, e).next[e] = e
           /\ sc_list_del(L, e).prev[e] = e
<1> DEFINE D == sc_list_del(L, e)
<1>1. D \in Links
  BY DEF Ring, Links, sc_list_del
<1>2. D.next[e] = e /\ D.prev[e] = e
  BY DEF Ring, Links, sc_list_del
<1>3. ASSUME NEW n \in Node
      PROVE  D.next[D.prev[n]] = n /\ D.prev[D.next[n]] = n
  <2>1. CASE n = e
    BY <1>2, <2>1
  <2>2. CASE n # e
    <3>1. D.prev[n] = IF n = L.next[e] THEN L.prev[e] ELSE L.prev[n]
      BY <2>2 DEF Ring, Links, sc_list_del
    <3>2. D.next[n] = IF n = L.prev[e] THEN L.next[e] ELSE L.next[n]
      BY <2>2 DEF Ring, Links, sc_list_del
    <3> QED
      BY <2>2, <3>1, <3>2 DEF Ring, Links, sc_list_del
  <2> QED BY <2>1, <2>2
<1> QED BY <1>1, <1>2, <1>3 DEF Ring

\* Splicing a detached element between two neighbours keeps the ring.
LEMMA SpliceKeepsRing ==
    ASSUME NEW L, Ring(L),
           NEW e \in Node, L.next[e] = e,
           NEW before \in Node, NEW after \in Node,
           before # e, L.next[before] = after
    PROVE  Ring(Splice(L, before, e, after))
<1> DEFINE S == Splice(L, before, e, after)
<1>0. after # e /\ L.prev[after] = before
  BY DEF Ring
<1>1. S \in Links
  BY DEF Ring, Links, Splice
<1>2. ASSUME NEW n \in Node
      PROVE  S.next[S.prev[n]] = n /\ S.prev[S.next[n]] = n
  <2>1. S.prev[n] = IF n = e THEN before ELSE IF n = after THEN e ELSE L.prev[n]
    BY <1>0 DEF Ring, Links, Splice
  <2>2. S.next[n] = IF n = e THEN after ELSE IF n = before THEN e ELSE L.next[n]
    BY <1>0 DEF Ring, Links, Splice
  <2> QED
    BY <1>0, <2>1, <2>2 DEF Ring, Links, Splice
<1> QED BY <1>1, <1>2 DEF Ring

\* Whatever the operation, a ring is left a ring.

\* The links a step of sc_list.c can leave behind it (the step's own guard is
\* not needed: the operations are safe whatever element they are given).
LinkStep ==
    \/ UNCHANGED link
    \/ \E e \in Elems : link' = sc_list_del(link, e)
    \/ \E l \in Lists, e \in Elems : link' = sc_list_add_tail(link, l, e)
    \/ \E l \in Lists, e \in Elems : link' = sc_list_add_head(link, l, e)
    \/ \E p, e \in Elems : p # e /\ link' = sc_list_add_after(link, p, e)
    \/ \E n, e \in Elems : n # e /\ link' = sc_list_add_before(link, n, e)

\* Whatever the operation, a ring is left a ring.
LEMMA LinkStepKeepsRing ==
    ASSUME ScListAssumption, Ring(link), LinkStep
    PROVE  Ring(link')
<1>1. CASE UNCHANGED link
  BY <1>1 DEF Ring, Links
<1>2. ASSUME NEW e \in Elems, link' = sc_list_del(link, e) PROVE Ring(link')
  BY <1>2, DelKeepsRing DEF Node
<1>3. ASSUME NEW l \in Lists, NEW e \in Elems,
             link' = sc_list_add_tail(link, l, e)
      PROVE  Ring(link')
  <2> DEFINE D == sc_list_del(link, e)
  <2>1. Ring(D) /\ D.next[e] = e /\ e \in Node /\ l \in Node /\ l # e
    BY DelKeepsRing DEF Node, ScListAssumption
  <2>2. D.prev[l] \in Node /\ D.next[D.prev[l]] = l /\ D.prev[l] # e
    BY <2>1 DEF Ring, Links
  <2> HIDE DEF D
  <2>3. Ring(Splice(D, D.prev[l], e, l))
    BY <2>1, <2>2, SpliceKeepsRing
  <2> QED BY <1>3, <2>3 DEF sc_list_add_tail, D
<1>4. ASSUME NEW l \in Lists, NEW e \in Elems,
             link' = sc_list_add_head(link, l, e)
      PROVE  Ring(link')
  <2> DEFINE D == sc_list_del(link, e)
  <2>1. Ring(D) /\ D.next[e] = e /\ e \in Node /\ l \in Node /\ l # e
    BY DelKeepsRing DEF Node, ScListAssumption
  <2>2. D.next[l] \in Node
    BY <2>1 DEF Ring, Links
  <2> HIDE DEF D
  <2>3. Ring(Splice(D, l, e, D.next[l]))
    BY <2>1, <2>2, SpliceKeepsRing
  <2> QED BY <1>4, <2>3 DEF sc_list_add_head, D
<1>5. ASSUME NEW p \in Elems, NEW e \in Elems, p # e,
             link' = sc_list_add_after(link, p, e)
      PROVE  Ring(link')
  <2> DEFINE D == sc_list_del(link, e)
  <2>1. Ring(D) /\ D.next[e] = e /\ e \in Node /\ p \in Node
    BY DelKeepsRing DEF Node
  <2>2. D.next[p] \in Node
    BY <2>1 DEF Ring, Links
  <2> HIDE DEF D
  <2>3. Ring(Splice(D, p, e, D.next[p]))
    BY <1>5, <2>1, <2>2, SpliceKeepsRing
  <2> QED BY <1>5, <2>3 DEF sc_list_add_after, D
<1>6. ASSUME NEW n \in Elems, NEW e \in Elems, n # e,
             link' = sc_list_add_before(link, n, e)
      PROVE  Ring(link')
  <2> DEFINE D == sc_list_del(link, e)
  <2>1. Ring(D) /\ D.next[e] = e /\ e \in Node /\ n \in Node
    BY DelKeepsRing DEF Node
  <2>2. D.prev[n] \in Node /\ D.next[D.prev[n]] = n /\ D.prev[n] # e
    BY <1>6, <2>1 DEF Ring, Links
  <2> HIDE DEF D
  <2>3. Ring(Splice(D, D.prev[n], e, n))
    BY <2>1, <2>2, SpliceKeepsRing
  <2> QED BY <1>6, <2>3 DEF sc_list_add_before, D
<1> QED BY <1>1, <1>2, <1>3, <1>4, <1>5, <1>6 DEF LinkStep

-----------------------------------------------------------------------------
(* What the operations do to the lists that the links make.                *)

\* What stands next to each other in a list, seen through its links.
LEMMA Neighbours ==
    ASSUME ScListAssumption, NEW L, Ring(L), NEW I, Holds(L, I), NEW l \in Lists
    PROVE  \A i \in 0 .. Len(I[l]) :
              /\ L.next[At(l, I[l], i)] = At(l, I[l], i + 1)
              /\ L.prev[At(l, I[l], i + 1)] = At(l, I[l], i)
<1>1. I[l] \in Seq(Elems) /\ NoRepeat(I[l]) /\ Follows(L, l, I[l])
  BY DEF Holds
<1>2. ASSUME NEW i \in 0 .. Len(I[l])
      PROVE  /\ L.next[At(l, I[l], i)] = At(l, I[l], i + 1)
             /\ L.prev[At(l, I[l], i + 1)] = At(l, I[l], i)
  <2>1. L.next[At(l, I[l], i)] = At(l, I[l], i + 1)
    BY <1>1 DEF Follows
  <2>2. i \in 0 .. Len(I[l]) + 1
    BY <1>1
  <2>3. At(l, I[l], i) \in Node
    BY <1>1, <2>2, AtFacts
  <2> QED BY <2>1, <2>3 DEF Ring
<1> QED BY <1>2

\* The lists without an element are still lists, and it is in none of them.
LEMMA OutFacts ==
    ASSUME NEW L, NEW I, Holds(L, I), NEW e \in Elems
    PROVE  /\ Out(I, e) \in [Lists -> Seq(Elems)]
           /\ \A l \in Lists :
                /\ NoRepeat(Out(I, e)[l])
                /\ ToSet(Out(I, e)[l]) = ToSet(I[l]) \ {e}
                /\ e \in ToSet(I[l]) => Out(I, e)[l] = Unlink(I[l], e)
                /\ e \notin ToSet(I[l]) => Out(I, e)[l] = I[l]
<1>1. ASSUME NEW l \in Lists
      PROVE  /\ Out(I, e)[l] \in Seq(Elems)
             /\ NoRepeat(Out(I, e)[l])
             /\ ToSet(Out(I, e)[l]) = ToSet(I[l]) \ {e}
             /\ e \in ToSet(I[l]) => Out(I, e)[l] = Unlink(I[l], e)
             /\ e \notin ToSet(I[l]) => Out(I, e)[l] = I[l]
  <2>1. I[l] \in Seq(Elems) /\ NoRepeat(I[l]) /\ Out(I, e)[l] = RemoveFirst(I[l], e)
    BY DEF Holds, Out
  <2> QED BY <2>1, RemoveFirstFacts
<1> QED BY <1>1 DEF Out

\* A list without an element, node by node.
LEMMA UnlinkAt ==
    ASSUME NEW l, NEW s \in Seq(Elems), NoRepeat(s), NEW e \in ToSet(s)
    PROVE  \A i \in 0 .. Len(s) :
              At(l, Unlink(s, e), i) = IF i < Position(s, e) THEN At(l, s, i) ELSE At(l, s, i + 1)
<1> DEFINE p == Position(s, e)
           t == Unlink(s, e)
<1>1. p \in 1 .. Len(s)
  BY PositionFacts
<1>2. /\ Len(t) = Len(s) - 1
      /\ \A i \in 1 .. Len(t) : t[i] = IF i < p THEN s[i] ELSE s[i + 1]
  BY UnlinkElements
<1> HIDE DEF p, t
<1>3. ASSUME NEW i \in 0 .. Len(s)
      PROVE  At(l, t, i) = IF i < p THEN At(l, s, i) ELSE At(l, s, i + 1)
  BY <1>1, <1>2 DEF At
<1> QED BY <1>3 DEF p, t

\* sc_list_del takes the element out of the list that the links make, if it is
\* in one, and leaves the others as they are.
LEMMA DelHolds ==
    ASSUME ScListAssumption, NEW L, Ring(L), NEW I, Holds(L, I), NEW e \in Elems
    PROVE  Holds(sc_list_del(L, e), Out(I, e))
<1> DEFINE D == sc_list_del(L, e)
           J == Out(I, e)
<1>1. /\ J \in [Lists -> Seq(Elems)]
      /\ \A l \in Lists :
            /\ NoRepeat(J[l])
            /\ ToSet(J[l]) = ToSet(I[l]) \ {e}
            /\ e \in ToSet(I[l]) => J[l] = Unlink(I[l], e)
            /\ e \notin ToSet(I[l]) => J[l] = I[l]
  BY OutFacts
<1>2. \A n \in Node : D.next[n] = IF n = e THEN e
                                  ELSE IF n = L.prev[e] THEN L.next[e] ELSE L.next[n]
  BY DEF sc_list_del, Ring, Links
<1>3. e \in Node /\ e \notin Lists
  BY DEF Node, ScListAssumption
<1> HIDE DEF D, J
<1>4. ASSUME NEW l \in Lists, e \notin ToSet(I[l]) PROVE Follows(D, l, J[l])
  <2> DEFINE s == I[l]
  <2>1. s \in Seq(Elems) /\ NoRepeat(s) /\ J[l] = s
    BY <1>1, <1>4 DEF Holds
  <2>2. ASSUME NEW i \in 0 .. Len(s) PROVE D.next[At(l, s, i)] = At(l, s, i + 1)
    <3>1. L.next[At(l, s, i)] = At(l, s, i + 1)
      BY Neighbours
    <3>2. At(l, s, i) \in Node /\ At(l, s, i) # e /\ At(l, s, i + 1) # e
      BY <1>3, <1>4, <2>1 DEF At, ToSet, Node
    <3>3. At(l, s, i) # L.prev[e]
      BY <1>3, <3>1, <3>2 DEF Ring
    <3> QED BY <1>2, <3>1, <3>2, <3>3
  <2> QED BY <2>1, <2>2 DEF Follows
<1>5. ASSUME NEW l \in Lists, e \in ToSet(I[l]) PROVE Follows(D, l, J[l])
  <2> DEFINE s == I[l]
             t == J[l]
             p == Position(s, e)
  <2>1. s \in Seq(Elems) /\ NoRepeat(s) /\ t = Unlink(s, e) /\ Len(t) = Len(s) - 1
    BY <1>1, <1>5, UnlinkElements DEF Holds
  <2>2. p \in 1 .. Len(s) /\ At(l, s, p) = e
    BY <1>5, <2>1, PositionFacts DEF At
  <2>3. \A i \in 0 .. Len(s) : At(l, t, i) = IF i < p THEN At(l, s, i) ELSE At(l, s, i + 1)
    BY <1>5, <2>1, UnlinkAt
  <2>4. \A i \in 0 .. Len(s) : L.next[At(l, s, i)] = At(l, s, i + 1)
    BY Neighbours
  <2>5. L.prev[e] = At(l, s, p - 1) /\ L.next[e] = At(l, s, p + 1)
    <3>1. p - 1 \in 0 .. Len(s) /\ p \in 0 .. Len(s) /\ (p - 1) + 1 = p
      BY <2>1, <2>2
    <3> QED BY <2>2, <3>1, Neighbours
  <2>6. /\ \A i \in 0 .. Len(s) + 1 : At(l, s, i) \in Node
        /\ \A i, j \in 0 .. Len(s) : At(l, s, i) = At(l, s, j) => i = j
    BY <2>1, AtFacts
  <2> HIDE DEF s, t, p
  <2>7. ASSUME NEW i \in 0 .. Len(t) PROVE D.next[At(l, t, i)] = At(l, t, i + 1)
    <3>0. Len(s) \in Nat /\ p \in Nat /\ i \in Nat /\ i <= Len(s) - 1 /\ 1 <= p /\ p <= Len(s)
      BY <2>1, <2>2
    <3>1. CASE i < p - 1
      <4>1. At(l, t, i) = At(l, s, i) /\ At(l, t, i + 1) = At(l, s, i + 1)
        BY <2>3, <3>0, <3>1
      <4>2. At(l, s, i) # At(l, s, p) /\ At(l, s, i) # At(l, s, p - 1)
        BY <2>6, <3>0, <3>1
      <4>3. At(l, s, i) \in Node /\ L.next[At(l, s, i)] = At(l, s, i + 1)
        BY <2>4, <2>6, <3>0
      <4> QED BY <1>2, <2>2, <2>5, <4>1, <4>2, <4>3
    <3>2. CASE i = p - 1
      <4>1. At(l, t, i) = At(l, s, p - 1) /\ At(l, t, i + 1) = At(l, s, p + 1)
        BY <2>3, <3>0, <3>2
      <4>2. At(l, s, p - 1) # At(l, s, p)
        BY <2>6, <3>0
      <4>3. At(l, s, p - 1) \in Node
        BY <2>6, <3>0
      <4> QED BY <1>2, <2>2, <2>5, <4>1, <4>2, <4>3
    <3>3. CASE i > p - 1
      <4>1. At(l, t, i) = At(l, s, i + 1) /\ At(l, t, i + 1) = At(l, s, i + 2)
        <5>1. ~(i < p) /\ ~(i + 1 < p) /\ i \in 0 .. Len(s) /\ i + 1 \in 0 .. Len(s)
              /\ (i + 1) + 1 = i + 2
          BY <3>0, <3>3
        <5> QED BY <2>3, <5>1
      <4>2. At(l, s, i + 1) # At(l, s, p) /\ At(l, s, i + 1) # At(l, s, p - 1)
        BY <2>6, <3>0, <3>3
      <4>3. At(l, s, i + 1) \in Node /\ L.next[At(l, s, i + 1)] = At(l, s, i + 2)
        <5>1. i + 1 \in 0 .. Len(s) /\ i + 1 \in 0 .. Len(s) + 1 /\ (i + 1) + 1 = i + 2
          BY <3>0
        <5> QED BY <2>4, <2>6, <5>1
      <4> QED BY <1>2, <2>2, <2>5, <4>1, <4>2, <4>3
    <3>4. i < p - 1 \/ i = p - 1 \/ i > p - 1
      BY <3>0
    <3> QED BY <3>1, <3>2, <3>3, <3>4
  <2> QED BY <2>7 DEF Follows, t
<1>6. ASSUME NEW x \in Elems, \A l \in Lists : x \notin ToSet(J[l]) PROVE D.next[x] = x
  <2>1. CASE x = e
    BY <1>2, <1>3, <2>1
  <2>2. CASE x # e
    <3>1. L.next[x] = x
      BY <1>1, <1>6, <2>2 DEF Holds
    <3>2. x \in Node /\ x # L.prev[e]
      BY <1>3, <2>2, <3>1 DEF Ring, Node
    <3> QED BY <1>2, <2>2, <3>1, <3>2
  <2> QED BY <2>1, <2>2
<1>7. \A l, m \in Lists : l # m => ToSet(J[l]) \cap ToSet(J[m]) = {}
  BY <1>1 DEF Holds
<1>8. Holds(D, J)
  BY <1>1, <1>4, <1>5, <1>6, <1>7 DEF Holds
<1> QED BY <1>8 DEF D, J

\* A list with an element put in, node by node.
LEMMA InsertAtNode ==
    ASSUME NEW l, NEW s \in Seq(Elems), NEW e \in Elems, NEW k \in 1 .. Len(s) + 1
    PROVE  \A i \in 0 .. Len(s) + 2 :
              At(l, InsertAt(s, k, e), i)
                 = IF i < k THEN At(l, s, i) ELSE IF i = k THEN e ELSE At(l, s, i - 1)
<1> DEFINE t == InsertAt(s, k, e)
<1>1. /\ t \in Seq(Elems) /\ Len(t) = Len(s) + 1
      /\ \A i \in 1 .. Len(s) + 1 : t[i] = IF i < k THEN s[i] ELSE IF i = k THEN e ELSE s[i - 1]
  BY InsertElements
<1> HIDE DEF t
<1>2. ASSUME NEW i \in 0 .. Len(s) + 2
      PROVE  At(l, t, i) = IF i < k THEN At(l, s, i) ELSE IF i = k THEN e ELSE At(l, s, i - 1)
  BY <1>1 DEF At
<1> QED BY <1>2 DEF t

\* Splicing an element that is in no list between two neighbours puts it
\* between them into the list.
LEMMA SpliceHolds ==
    ASSUME ScListAssumption, NEW L, Ring(L), NEW I, Holds(L, I),
           NEW e \in Elems, \A m \in Lists : e \notin ToSet(I[m]),
           NEW l \in Lists, NEW k \in 1 .. Len(I[l]) + 1
    PROVE  Holds(Splice(L, At(l, I[l], k - 1), e, At(l, I[l], k)),
                 [I EXCEPT ![l] = InsertAt(@, k, e)])
<1> DEFINE s == I[l]
           t == InsertAt(s, k, e)
           before == At(l, s, k - 1)
           after == At(l, s, k)
           S == Splice(L, before, e, after)
           J == [I EXCEPT ![l] = t]
<1>1. s \in Seq(Elems) /\ NoRepeat(s) /\ Len(s) \in Nat /\ k \in Nat /\ 1 <= k /\ k <= Len(s) + 1
  BY DEF Holds
<1>2. before \in Node /\ before # e
  <2>1. k - 1 \in 0 .. Len(s) + 1
    BY <1>1
  <2> QED BY <1>1, <2>1, AtFacts DEF ScListAssumption, At, ToSet
<1>3. S.next = [L.next EXCEPT ![before] = e, ![e] = after]
  BY DEF Splice
<1>4. \A n \in Node : S.next[n] = IF n = e THEN after ELSE IF n = before THEN e ELSE L.next[n]
  BY <1>2, <1>3 DEF Ring, Links
<1>5. t \in Seq(Elems) /\ NoRepeat(t) /\ ToSet(t) = ToSet(s) \cup {e} /\ Len(t) = Len(s) + 1
  BY <1>1, InsertElements, InsertFacts
<1>6. J \in [Lists -> Seq(Elems)] /\ J[l] = t /\ \A m \in Lists \ {l} : J[m] = I[m]
  BY <1>5 DEF Holds
<1>7. Follows(S, l, t)
  <2>1. \A i \in 0 .. Len(s) + 2 :
           At(l, t, i) = IF i < k THEN At(l, s, i) ELSE IF i = k THEN e ELSE At(l, s, i - 1)
    BY <1>1, InsertAtNode
  <2>2. /\ \A i \in 0 .. Len(s) + 1 : At(l, s, i) \in Node
        /\ \A i, j \in 0 .. Len(s) : At(l, s, i) = At(l, s, j) => i = j
    BY <1>1, AtFacts
  <2>3. \A i \in 0 .. Len(s) : L.next[At(l, s, i)] = At(l, s, i + 1)
    BY Neighbours
  <2>4. \A i \in 0 .. Len(s) : At(l, s, i) # e
    BY DEF At, ScListAssumption, ToSet
  <2>5. e \in Node
    BY DEF Node
  <2> HIDE DEF s, t, S
  <2>6. ASSUME NEW i \in 0 .. Len(t) PROVE S.next[At(l, t, i)] = At(l, t, i + 1)
    <3>0. i \in Nat /\ i <= Len(s) + 1
      BY <1>1, <1>5
    <3>1. CASE i < k - 1
      <4>1. At(l, t, i) = At(l, s, i) /\ At(l, t, i + 1) = At(l, s, i + 1)
        BY <1>1, <2>1, <3>0, <3>1
      <4>2. At(l, s, i) # before /\ At(l, s, i) # e /\ At(l, s, i) \in Node
        BY <1>1, <2>2, <2>4, <3>0, <3>1
      <4>3. L.next[At(l, s, i)] = At(l, s, i + 1)
        BY <1>1, <2>3, <3>0, <3>1
      <4> QED BY <1>4, <4>1, <4>2, <4>3
    <3>2. CASE i = k - 1
      <4>1. At(l, t, i) = before /\ At(l, t, i + 1) = e
        BY <1>1, <2>1, <3>0, <3>2
      <4> QED BY <1>2, <1>4, <4>1
    <3>3. CASE i = k
      <4>1. At(l, t, i) = e /\ At(l, t, i + 1) = after
        BY <1>1, <2>1, <3>0, <3>3
      <4> QED BY <1>4, <2>5, <4>1
    <3>4. CASE i > k
      <4> DEFINE j == i - 1
      <4>1. j \in 0 .. Len(s) /\ j \in 0 .. Len(s) + 1 /\ j > k - 1 /\ k - 1 \in 0 .. Len(s)
            /\ i + 1 > k /\ i + 1 \in 0 .. Len(s) + 2 /\ i \in 0 .. Len(s) + 2 /\ (i + 1) - 1 = j + 1
        BY <1>1, <3>0, <3>4
      <4> HIDE DEF j
      <4>2. At(l, t, i) = At(l, s, j)
        BY <2>1, <3>4, <4>1, <1>1 DEF j
      <4>3. At(l, t, i + 1) = At(l, s, j + 1)
        BY <1>1, <2>1, <4>1
      <4>4. At(l, s, j) # before /\ At(l, s, j) # e /\ At(l, s, j) \in Node
        BY <1>1, <2>2, <2>4, <4>1
      <4> QED BY <1>4, <2>3, <4>1, <4>2, <4>3, <4>4
    <3> QED BY <1>1, <3>0, <3>1, <3>2, <3>3, <3>4
  <2> QED BY <2>6 DEF Follows
<1>8. ASSUME NEW m \in Lists \ {l} PROVE Follows(S, m, I[m])
  <2> DEFINE r == I[m]
  <2>1. r \in Seq(Elems) /\ NoRepeat(r) /\ ToSet(r) \cap ToSet(s) = {}
    BY DEF Holds
  <2>2. ASSUME NEW i \in 0 .. Len(r) PROVE S.next[At(m, r, i)] = At(m, r, i + 1)
    <3>1. L.next[At(m, r, i)] = At(m, r, i + 1)
      BY Neighbours
    <3>2. At(m, r, i) \in Node /\ At(m, r, i) # e
      BY <2>1 DEF At, Node, ToSet, ScListAssumption
    <3>3. At(m, r, i) # before
      <4>1. At(m, r, i) = m \/ At(m, r, i) \in ToSet(r)
        BY DEF At, ToSet
      <4>2. before = l \/ before \in ToSet(s)
        BY <1>1 DEF At, ToSet
      <4>3. l \notin ToSet(r) /\ m \notin ToSet(s)
        BY <1>1, <2>1 DEF ToSet, ScListAssumption
      <4> HIDE DEF before, r, s
      <4> QED BY <2>1, <4>1, <4>2, <4>3
    <3> QED BY <1>4, <3>1, <3>2, <3>3
  <2> QED BY <2>2 DEF Follows
<1>9. \A m, n \in Lists : m # n => ToSet(J[m]) \cap ToSet(J[n]) = {}
  BY <1>5, <1>6 DEF Holds
<1>10. ASSUME NEW x \in Elems, \A m \in Lists : x \notin ToSet(J[m]) PROVE S.next[x] = x
  <2>1. x # e /\ \A m \in Lists : x \notin ToSet(I[m])
    BY <1>5, <1>6, <1>10
  <2>2. L.next[x] = x /\ x \in Node
    BY <2>1 DEF Holds, Node
  <2>3. x # before
    BY <2>1, <1>1 DEF At, ToSet, ScListAssumption
  <2> QED BY <1>4, <2>1, <2>2, <2>3
<1>11. \A m \in Lists : NoRepeat(J[m]) /\ Follows(S, m, J[m])
  BY <1>5, <1>6, <1>7, <1>8 DEF Holds
<1> HIDE DEF S, t
<1> QED BY <1>6, <1>9, <1>10, <1>11 DEF Holds, S, t

\* The operations of sc_list.c, on the links and on the lists they make.
LEMMA AddHolds ==
    ASSUME ScListAssumption, NEW L, Ring(L), NEW I, Holds(L, I),
           NEW e \in Elems, NEW l \in Lists
    PROVE  /\ Holds(sc_list_add_tail(L, l, e), Put(I, l, Len(Out(I, e)[l]) + 1, e))
           /\ Holds(sc_list_add_head(L, l, e), Put(I, l, 1, e))
           /\ \A p \in ToSet(Out(I, e)[l]) :
                /\ Holds(sc_list_add_after(L, p, e), Put(I, l, Position(Out(I, e)[l], p) + 1, e))
                /\ Holds(sc_list_add_before(L, p, e), Put(I, l, Position(Out(I, e)[l], p), e))
<1> DEFINE D == sc_list_del(L, e)
           J == Out(I, e)
           s == J[l]
<1>1. Ring(D) /\ Holds(D, J)
  BY DelKeepsRing, DelHolds DEF Node
<1>2. \A m \in Lists : e \notin ToSet(J[m])
  <2>1. \A m \in Lists : ToSet(J[m]) = ToSet(I[m]) \ {e}
    BY OutFacts, ZenonT(30)
  <2> QED BY <2>1
<1>3. s \in Seq(Elems) /\ NoRepeat(s) /\ Len(s) \in Nat
  BY <1>1 DEF Holds
<1>4. ASSUME NEW k \in 1 .. Len(s) + 1
      PROVE  Holds(Splice(D, At(l, s, k - 1), e, At(l, s, k)), Put(I, l, k, e))
  <2> HIDE DEF D, J
  <2>1. Holds(Splice(D, At(l, s, k - 1), e, At(l, s, k)), [J EXCEPT ![l] = InsertAt(@, k, e)])
    BY <1>1, <1>2, SpliceHolds
  <2> QED BY <2>1 DEF Put, J
<1>5. \A i \in 0 .. Len(s) : /\ D.next[At(l, s, i)] = At(l, s, i + 1)
                             /\ D.prev[At(l, s, i + 1)] = At(l, s, i)
  <2> HIDE DEF D, J
  <2> QED BY <1>1, Neighbours
<1>6. At(l, s, 0) = l /\ At(l, s, Len(s) + 1) = l
  BY <1>3, AtFacts
<1>7. Holds(sc_list_add_tail(L, l, e), Put(I, l, Len(s) + 1, e))
  <2>1. D.prev[l] = At(l, s, Len(s)) /\ (Len(s) + 1) - 1 = Len(s)
    BY <1>3, <1>5, <1>6
  <2>2. sc_list_add_tail(L, l, e) = Splice(D, At(l, s, (Len(s) + 1) - 1), e, At(l, s, Len(s) + 1))
    BY <1>6, <2>1 DEF sc_list_add_tail
  <2>3. Len(s) + 1 \in 1 .. Len(s) + 1
    BY <1>3
  <2> HIDE DEF D, J
  <2> QED BY <1>4, <2>2, <2>3
<1>8. Holds(sc_list_add_head(L, l, e), Put(I, l, 1, e))
  <2>1. 1 \in 1 .. Len(s) + 1 /\ D.next[l] = At(l, s, 1) /\ At(l, s, 1 - 1) = l
    BY <1>3, <1>5, <1>6
  <2>2. sc_list_add_head(L, l, e) = Splice(D, At(l, s, 1 - 1), e, At(l, s, 1))
    BY <2>1 DEF sc_list_add_head
  <2> HIDE DEF D, J
  <2> QED BY <1>4, <2>1, <2>2
<1>9. ASSUME NEW p \in ToSet(s)
      PROVE  /\ Holds(sc_list_add_after(L, p, e), Put(I, l, Position(s, p) + 1, e))
             /\ Holds(sc_list_add_before(L, p, e), Put(I, l, Position(s, p), e))
  <2> DEFINE k == Position(s, p)
  <2>1. k \in 1 .. Len(s) /\ s[k] = p
    BY <1>3, PositionFacts
  <2>2. At(l, s, k) = p
    BY <2>1 DEF At
  <2> HIDE DEF k
  <2>3. k + 1 \in 1 .. Len(s) + 1 /\ k \in 1 .. Len(s) + 1 /\ (k + 1) - 1 = k
        /\ k \in 0 .. Len(s) /\ k - 1 \in 0 .. Len(s) /\ (k - 1) + 1 = k
    BY <1>3, <2>1
  <2>4. D.next[p] = At(l, s, k + 1) /\ D.prev[p] = At(l, s, k - 1)
    BY <1>5, <2>2, <2>3
  <2>5. /\ sc_list_add_after(L, p, e) = Splice(D, At(l, s, (k + 1) - 1), e, At(l, s, k + 1))
        /\ sc_list_add_before(L, p, e) = Splice(D, At(l, s, k - 1), e, At(l, s, k))
    BY <2>2, <2>3, <2>4 DEF sc_list_add_after, sc_list_add_before
  <2> HIDE DEF D, J
  <2>6. /\ Holds(sc_list_add_after(L, p, e), Put(I, l, k + 1, e))
        /\ Holds(sc_list_add_before(L, p, e), Put(I, l, k, e))
    BY <1>4, <2>3, <2>5
  <2> QED BY <2>6 DEF k
<1> QED BY <1>7, <1>8, <1>9

\* The lists that the links make are the ones Items reads from them.
LEMMA HoldsItems ==
    ASSUME ScListAssumption, NEW L, Ring(L), NEW I, Holds(L, I)
    PROVE  Linked(L) /\ Items(L) = I
<1>1. ASSUME NEW l \in Lists PROVE Walk(L, l) = I[l]
  BY WalkFollows DEF Ring, Holds
<1>2. Items(L) = I
  BY <1>1 DEF Items, Holds
<1> QED BY <1>2 DEF Linked

\* Before any operation (sc_list_init of every list and element) all lists
\* are empty.
LEMMA InitLinked ==
    ASSUME ScListAssumption, Init
    PROVE  Linked(link) /\ Items(link) = [l \in Lists |-> <<>>]
<1> DEFINE I == [l \in Lists |-> <<>>]
<1>1. Ring(link)
  BY DEF Init, Ring, Links
<1>2. Holds(link, I)
  <2>1. \A l \in Lists : I[l] = <<>> /\ ToSet(I[l]) = {} /\ NoRepeat(I[l])
    BY DEF ToSet, NoRepeat
  <2>2. ASSUME NEW l \in Lists PROVE Follows(link, l, I[l])
    BY <2>1 DEF Follows, At, Init, Node
  <2>3. \A e \in Elems : link.next[e] = e
    BY DEF Init, Node
  <2>4. I \in [Lists -> Seq(Elems)]
    OBVIOUS
  <2> HIDE DEF I
  <2> QED BY <2>1, <2>2, <2>3, <2>4 DEF Holds
<1> QED BY <1>1, <1>2, HoldsItems

\* The first and the last element of a list that is not empty.
LEMMA EndsOfList ==
    ASSUME ScListAssumption, Linked(link), NEW l \in Lists, ~sc_list_is_empty(link, l)
    PROVE  link.next[l] \in Elems /\ link.prev[l] \in Elems
<1> DEFINE s == Items(link)[l]
<1>1. s \in Seq(Elems) /\ NoRepeat(s) /\ Len(s) \in Nat
  BY DEF Linked, Holds
<1>2. /\ link.next[At(l, s, 0)] = At(l, s, 1)
      /\ link.prev[At(l, s, Len(s) + 1)] = At(l, s, Len(s))
  <2>1. 0 \in 0 .. Len(s) /\ Len(s) \in 0 .. Len(s) /\ 0 + 1 = 1
    BY <1>1
  <2> HIDE DEF s
  <2> QED BY <2>1, Neighbours DEF Linked, s
<1>3. At(l, s, 0) = l /\ At(l, s, Len(s) + 1) = l
  BY <1>1, AtFacts
<1>4. At(l, s, 1) # l
  BY <1>2, <1>3 DEF sc_list_is_empty
<1>5. Len(s) >= 1
  BY <1>1, <1>4 DEF At
<1>6. At(l, s, 1) = s[1] /\ At(l, s, Len(s)) = s[Len(s)]
  BY <1>1, <1>5 DEF At
<1> QED BY <1>1, <1>2, <1>3, <1>5, <1>6

\* sc_list_del takes the element out of Items, and the links stay linked.
LEMMA DelStep ==
    ASSUME ScListAssumption, Linked(link), NEW e \in Elems, link' = sc_list_del(link, e)
    PROVE  Linked(link') /\ Items(link') = Out(Items(link), e)
<1> DEFINE I == Items(link)
<1>1. Ring(link) /\ Holds(link, I)
  BY DEF Linked
<1> HIDE DEF I
<1>2. Ring(link') /\ Holds(link', Out(I, e))
  BY <1>1, DelKeepsRing, DelHolds DEF Node
<1>3. Linked(link') /\ Items(link') = Out(I, e)
  BY <1>2, HoldsItems
<1> QED BY <1>3 DEF I

\* The element p of list l is still there when another one is taken out.
LEMMA StillThere ==
    ASSUME ScListAssumption, Linked(link), NEW l \in Lists, NEW p, NEW e \in Elems,
           Contains(Walk(link, l), p), p # e
    PROVE  p \in ToSet(Out(Items(link), e)[l])
<1>1. p \in ToSet(Items(link)[l])
  BY DEF Contains, Items, ToSet, Linked, Holds
<1>2. ToSet(Out(Items(link), e)[l]) = ToSet(Items(link)[l]) \ {e}
  BY OutFacts, ZenonT(30) DEF Linked
<1> QED BY <1>1, <1>2

\* The four ways of adding leave links that make lists, with the element in
\* the place asked for.
LEMMA AddStep ==
    ASSUME ScListAssumption, Linked(link), NEW l \in Lists, NEW e \in Elems
    PROVE  LET I == Items(link)
               J == Out(Items(link), e)
           IN  /\ AddTail(l, e) => /\ Linked(link')
                                   /\ Items(link') = Put(I, l, Len(J[l]) + 1, e)
               /\ AddHead(l, e) => /\ Linked(link')
                                   /\ Items(link') = Put(I, l, 1, e)
               /\ \A p \in Elems : AddAfter(l, p, e) =>
                     /\ Linked(link')
                     /\ p \in ToSet(J[l])
                     /\ Items(link') = Put(I, l, Position(J[l], p) + 1, e)
               /\ \A p \in Elems : AddBefore(l, p, e) =>
                     /\ Linked(link')
                     /\ p \in ToSet(J[l])
                     /\ Items(link') = Put(I, l, Position(J[l], p), e)
<1> DEFINE I == Items(link)
           J == Out(I, e)
<1>1. Ring(link) /\ Holds(link, I)
  BY DEF Linked
<1>2. /\ Holds(sc_list_add_tail(link, l, e), Put(I, l, Len(J[l]) + 1, e))
      /\ Holds(sc_list_add_head(link, l, e), Put(I, l, 1, e))
      /\ \A p \in ToSet(J[l]) :
           /\ Holds(sc_list_add_after(link, p, e), Put(I, l, Position(J[l], p) + 1, e))
           /\ Holds(sc_list_add_before(link, p, e), Put(I, l, Position(J[l], p), e))
  <2> HIDE DEF I
  <2> QED BY <1>1, AddHolds
<1>3. \A p \in Elems : p # e /\ Contains(Walk(link, l), p) => p \in ToSet(J[l])
  BY StillThere
<1> HIDE DEF I, J
<1>4. AddTail(l, e) => Ring(link') /\ Holds(link', Put(I, l, Len(J[l]) + 1, e))
  BY <1>1, <1>2, LinkStepKeepsRing DEF AddTail, LinkStep
<1>5. AddHead(l, e) => Ring(link') /\ Holds(link', Put(I, l, 1, e))
  BY <1>1, <1>2, LinkStepKeepsRing DEF AddHead, LinkStep
<1>6. ASSUME NEW p \in Elems, AddAfter(l, p, e)
      PROVE  p \in ToSet(J[l]) /\ Ring(link') /\ Holds(link', Put(I, l, Position(J[l], p) + 1, e))
  BY <1>1, <1>2, <1>3, <1>6, LinkStepKeepsRing DEF AddAfter, LinkStep
<1>7. ASSUME NEW p \in Elems, AddBefore(l, p, e)
      PROVE  p \in ToSet(J[l]) /\ Ring(link') /\ Holds(link', Put(I, l, Position(J[l], p), e))
  BY <1>1, <1>2, <1>3, <1>7, LinkStepKeepsRing DEF AddBefore, LinkStep
<1>8. /\ AddTail(l, e) => Linked(link') /\ Items(link') = Put(I, l, Len(J[l]) + 1, e)
      /\ AddHead(l, e) => Linked(link') /\ Items(link') = Put(I, l, 1, e)
      /\ \A p \in Elems : AddAfter(l, p, e) =>
            Linked(link') /\ p \in ToSet(J[l]) /\ Items(link') = Put(I, l, Position(J[l], p) + 1, e)
      /\ \A p \in Elems : AddBefore(l, p, e) =>
            Linked(link') /\ p \in ToSet(J[l]) /\ Items(link') = Put(I, l, Position(J[l], p), e)
  BY <1>4, <1>5, <1>6, <1>7, HoldsItems
<1> QED BY <1>8 DEF I, J

-----------------------------------------------------------------------------
(* The abstract lists.                                                     *)

\* The library operators seen through the instance are the ones seen here.
LEMMA SameOperators ==
    ASSUME NEW s, NEW e, NEW k
    PROVE  /\ Abstract!RemoveFirst(s, e) = RemoveFirst(s, e)
           /\ Abstract!InsertAt(s, k, e) = InsertAt(s, k, e)
           /\ Abstract!Position(s, e) = Position(s, e)
           /\ Abstract!Contains(s, e) = Contains(s, e)
<1>1. Abstract!RemoveFirst(s, e) = RemoveFirst(s, e)
  BY DEF Abstract!RemoveFirst, RemoveFirst, Abstract!RemoveAt, RemoveAt,
         Abstract!SelectInSeq, SelectInSeq, Abstract!Min, Min
<1>2. Abstract!InsertAt(s, k, e) = InsertAt(s, k, e)
  BY DEF Abstract!InsertAt, InsertAt
<1>3. Abstract!Position(s, e) = Position(s, e)
  BY DEF Abstract!Position, Position
<1>4. Abstract!Contains(s, e) = Contains(s, e)
  BY DEF Abstract!Contains, Contains
<1> QED BY <1>1, <1>2, <1>3, <1>4

\* Taking an element out is the same in ListSpec as here.
LEMMA AbstractWithout ==
    ASSUME NEW e
    PROVE  Abstract!Without(e) = Out(Items(link), e)
BY SameOperators DEF Abstract!Without, Out, Items

\* Taking an element out is a step of ListSpec.
LEMMA RemoveStep ==
    ASSUME ScListAssumption, Linked(link), NEW e \in Elems, link' = sc_list_del(link, e)
    PROVE  Abstract!Next
<1>1. Items(link') = Abstract!Without(e)
  BY DelStep, AbstractWithout
<1>2. Abstract!TakeOut(e)
  BY <1>1 DEF Abstract!TakeOut, Items
<1> QED BY <1>2 DEF Abstract!Next

\* The adding operations do to Items what ListSpec says of them.
LEMMA AddsAbstract ==
    ASSUME ScListAssumption, Linked(link), NEW l \in Lists, NEW e \in Elems
    PROVE  /\ AddTail(l, e) => Abstract!Next
           /\ AddHead(l, e) => Abstract!Next
           /\ \A p \in Elems : AddAfter(l, p, e) => Abstract!Next
           /\ \A p \in Elems : AddBefore(l, p, e) => Abstract!Next
<1> DEFINE I == Items(link)
           J == Out(I, e)
<1>0. J \in [Lists -> Seq(Elems)] /\ Abstract!Without(e) = J
  BY OutFacts, AbstractWithout DEF Linked
<1>1. ASSUME AddTail(l, e) PROVE Abstract!AddTail(l, e)
  <2>1. Items(link') = [J EXCEPT ![l] = InsertAt(@, Len(J[l]) + 1, e)]
    BY <1>1, AddStep DEF Put
  <2>2. InsertAt(J[l], Len(J[l]) + 1, e) = Append(J[l], e)
    BY <1>0, AppendIsInsert
  <2>3. Items(link') = [J EXCEPT ![l] = Append(@, e)]
    BY <2>1, <2>2
  <2> QED BY <1>0, <2>3 DEF Abstract!AddTail, Items
<1>2. ASSUME AddHead(l, e) PROVE Abstract!AddHead(l, e)
  <2>1. Items(link') = [J EXCEPT ![l] = InsertAt(@, 1, e)]
    BY <1>2, AddStep DEF Put
  <2>2. InsertAt(J[l], 1, e) = <<e>> \o J[l]
    BY <1>0, AppendIsInsert
  <2>3. Items(link') = [J EXCEPT ![l] = <<e>> \o @]
    BY <2>1, <2>2
  <2> QED BY <1>0, <2>3 DEF Abstract!AddHead, Items
<1>3. ASSUME NEW p \in Elems, AddAfter(l, p, e) PROVE Abstract!AddAfter(l, p, e)
  <2>1. Items(link') = [J EXCEPT ![l] = InsertAt(@, Position(@, p) + 1, e)]
    BY <1>3, AddStep DEF Put
  <2>2. Abstract!Present(l, p) /\ p # e
    BY <1>3, SameOperators DEF AddAfter, Abstract!Present
  <2>3. Items(link') = [Abstract!Without(e) EXCEPT
                          ![l] = Abstract!InsertAt(@, Abstract!Position(@, p) + 1, e)]
    BY <1>0, <2>1, SameOperators
  <2> QED BY <2>2, <2>3 DEF Abstract!AddAfter, Items
<1>4. ASSUME NEW p \in Elems, AddBefore(l, p, e) PROVE Abstract!AddBefore(l, p, e)
  <2>1. Items(link') = [J EXCEPT ![l] = InsertAt(@, Position(@, p), e)]
    BY <1>4, AddStep DEF Put
  <2>2. Abstract!Present(l, p) /\ p # e
    BY <1>4, SameOperators DEF AddBefore, Abstract!Present
  <2>3. Items(link') = [Abstract!Without(e) EXCEPT
                          ![l] = Abstract!InsertAt(@, Abstract!Position(@, p), e)]
    BY <1>0, <2>1, SameOperators
  <2> QED BY <2>2, <2>3 DEF Abstract!AddBefore, Items
<1> QED BY <1>1, <1>2, <1>3, <1>4 DEF Abstract!Next

\* A step of the program is a step of ListSpec, or it changes no list.
LEMMA StepLinked ==
    ASSUME ScListAssumption, Linked(link), [Next]_vars
    PROVE  /\ Linked(link')
           /\ Abstract!Next \/ link' = link
<1>1. ASSUME NEW e \in Elems, link' = sc_list_del(link, e)
      PROVE  Linked(link') /\ Abstract!Next
  BY <1>1, DelStep, RemoveStep
<1>2. ASSUME NEW l \in Lists, NEW e \in Elems, AddTail(l, e) \/ AddHead(l, e)
      PROVE  Linked(link') /\ Abstract!Next
  BY <1>2, AddStep, AddsAbstract
<1>3. ASSUME NEW l \in Lists, NEW e \in Elems, NEW p \in Elems, AddAfter(l, p, e) \/ AddBefore(l, p, e)
      PROVE  Linked(link') /\ Abstract!Next
  BY <1>3, AddStep, AddsAbstract
<1>4. ASSUME NEW e \in Elems, Del(e) PROVE Linked(link') /\ Abstract!Next
  BY <1>1, <1>4 DEF Del
<1>5. ASSUME NEW l \in Lists, PopHead(l) PROVE Linked(link') /\ Abstract!Next
  BY <1>1, <1>5, EndsOfList DEF PopHead
<1>6. ASSUME NEW l \in Lists, PopTail(l) PROVE Linked(link') /\ Abstract!Next
  BY <1>1, <1>6, EndsOfList DEF PopTail
<1>7. ASSUME UNCHANGED link PROVE Linked(link') /\ link' = link
  BY <1>7
<1>8. ASSUME NEW l \in Lists, ForEachBegin(l) PROVE UNCHANGED link
  BY <1>8 DEF ForEachBegin
<1>9. CASE ForEachNext \/ ForEachEnd \/ UNCHANGED vars
  BY <1>7, <1>9 DEF ForEachNext, ForEachEnd, vars
<1> QED
  BY <1>2, <1>3, <1>4, <1>5, <1>6, <1>7, <1>8, <1>9 DEF Next

\* Links that make lists leave no ring without a head.
LEMMA LinkedOneRing ==
    ASSUME ScListAssumption, Linked(link)
    PROVE  OneRing
<1> DEFINE I == Items(link)
<1>1. Holds(link, I) /\ \A l \in Lists : I[l] = Walk(link, l)
  BY DEF Linked, Items
<1> HIDE DEF I
<1> SUFFICES ASSUME NEW e \in Elems
             PROVE  Cardinality({l \in Lists : Contains(Walk(link, l), e)})
                       = IF link.next[e] = e THEN 0 ELSE 1
  BY DEF OneRing
<1> DEFINE In == {l \in Lists : Contains(Walk(link, l), e)}
<1>2. \A l \in Lists : l \in In <=> e \in ToSet(I[l])
  BY <1>1 DEF Contains, ToSet, Holds
<1>3. CASE \A l \in Lists : e \notin ToSet(I[l])
  <2>1. In = {} /\ link.next[e] = e
    BY <1>1, <1>2, <1>3 DEF Holds
  <2> QED BY <2>1, FS_EmptySet
<1>4. ASSUME NEW l \in Lists, e \in ToSet(I[l])
      PROVE  Cardinality(In) = 1 /\ link.next[e] # e
  <2>1. In = {l}
    BY <1>1, <1>2, <1>4 DEF Holds
  <2>2. I[l] \in Seq(Elems) /\ NoRepeat(I[l]) /\ Follows(link, l, I[l])
    BY <1>1 DEF Holds
  <2>3. PICK i \in 1 .. Len(I[l]) : I[l][i] = e
    BY <1>4, <2>2 DEF ToSet
  <2>4. At(l, I[l], i) = e /\ link.next[At(l, I[l], i)] = At(l, I[l], i + 1)
    BY <2>2, <2>3 DEF At, Follows
  <2>5. At(l, I[l], i + 1) # e
    BY <2>2, <2>3 DEF At, NoRepeat, ScListAssumption
  <2> QED BY <2>1, <2>4, <2>5, FS_Singleton
<1> QED BY <1>3, <1>4

-----------------------------------------------------------------------------
(* sc_list_clear.                                                          *)

\* The deletions of sc_list_clear, one after another.
LEMMA DeletedUnfolds ==
    ASSUME NEW L \in Links, NEW w \in Seq(Elems)
    PROVE  /\ Deleted(L, w)[0] = L
           /\ \A k \in 1 .. Len(w) : Deleted(L, w)[k] = sc_list_del(Deleted(L, w)[k - 1], w[k])
<1> DEFINE n == Len(w)
           Def(f) == f = [k \in 0 .. n |-> IF k = 0 THEN L ELSE sc_list_del(f[k - 1], w[k])]
           G == [p \in Links \X (1 .. n) |-> sc_list_del(p[1], w[p[2]])]
<1>1. n \in Nat
  OBVIOUS
<1>2. G \in StepsIn(Links, n)
  <2>1. ASSUME NEW M \in Links, NEW e \in Node PROVE sc_list_del(M, e) \in Links
    BY DEF Links, sc_list_del
  <2>2. \A k \in 1 .. n : w[k] \in Node
    BY DEF Node
  <2> QED BY <2>1, <2>2 DEF StepsIn
<1>3. PICK f \in [0 .. n -> Links] :
         f[0] = L /\ \A k \in 1 .. n : f[k] = G[<<f[k - 1], k>>]
  <2> HIDE DEF G, n
  <2> QED BY <1>1, <1>2, Recursion
<1>4. Def(f)
  <2>1. ASSUME NEW k \in 0 .. n, k # 0 PROVE f[k] = sc_list_del(f[k - 1], w[k])
    <3>1. k \in 1 .. n /\ f[k - 1] \in Links
      BY <2>1
    <3>2. f[k] = G[<<f[k - 1], k>>]
      BY <1>3, <3>1
    <3> QED BY <3>1, <3>2
  <2> QED BY <1>3, <2>1
<1>5. Def(Deleted(L, w))
  BY <1>4 DEF Deleted
<1>6. Deleted(L, w)[0] = L
  BY <1>5
<1>7. ASSUME NEW k \in 1 .. n PROVE Deleted(L, w)[k] = sc_list_del(Deleted(L, w)[k - 1], w[k])
  BY <1>5
<1> QED BY <1>6, <1>7

\* After k deletions the list has lost its first k elements.
LEMMA ClearSteps ==
    ASSUME ScListAssumption, NEW L, Ring(L), NEW I, Holds(L, I), NEW l \in Lists
    PROVE  \A k \in 0 .. Len(I[l]) :
              /\ Ring(Deleted(L, I[l])[k])
              /\ \E J : /\ Holds(Deleted(L, I[l])[k], J)
                        /\ \A m \in Lists \ {l} : J[m] = I[m]
                        /\ Len(J[l]) = Len(I[l]) - k
                        /\ \A i \in 1 .. Len(J[l]) : J[l][i] = I[l][k + i]
<1> DEFINE w == I[l]
           D(k) == Deleted(L, w)[k]
           Rest(k, J) == /\ Holds(D(k), J)
                         /\ \A m \in Lists \ {l} : J[m] = I[m]
                         /\ Len(J[l]) = Len(w) - k
                         /\ \A i \in 1 .. Len(J[l]) : J[l][i] = w[k + i]
           T == {k \in Nat : k <= Len(w) => Ring(D(k)) /\ \E J : Rest(k, J)}
<1>1. w \in Seq(Elems) /\ Len(w) \in Nat /\ L \in Links /\ NoRepeat(w)
  BY DEF Holds, Ring
<1>2. D(0) = L /\ \A k \in 1 .. Len(w) : D(k) = sc_list_del(D(k - 1), w[k])
  BY <1>1, DeletedUnfolds
<1> HIDE DEF D
<1>3. 0 \in T
  <2>1. Rest(0, I)
    BY <1>1, <1>2
  <2> HIDE DEF Rest
  <2> QED BY <1>2, <2>1
<1>4. ASSUME NEW k \in T PROVE k + 1 \in T
  <2> SUFFICES ASSUME k + 1 <= Len(w) PROVE Ring(D(k + 1)) /\ \E J : Rest(k + 1, J)
    OBVIOUS
  <2>0. k \in Nat /\ k <= Len(w) /\ k + 1 \in 1 .. Len(w)
    BY <1>1
  <2>1. Ring(D(k)) /\ \E J : Rest(k, J)
    BY <2>0
  <2>2. PICK J : Rest(k, J)
    BY <2>1
  <2> DEFINE e == w[k + 1]
  <2>3. D(k + 1) = sc_list_del(D(k), e)
    <3>1. (k + 1) - 1 = k
      BY <2>0
    <3> QED BY <1>2, <2>0, <3>1
  <2>4. e \in Elems /\ e \in Node
    BY <1>1, <2>0 DEF Node
  <2>5. Ring(D(k + 1)) /\ Holds(D(k + 1), Out(J, e))
    <3> HIDE DEF e
    <3> QED BY <2>1, <2>2, <2>3, <2>4, DelKeepsRing, DelHolds
  <2>6. J[l] \in Seq(Elems) /\ NoRepeat(J[l])
    BY <2>2 DEF Holds
  <2>7. Len(J[l]) = Len(w) - k /\ 1 \in 1 .. Len(J[l]) /\ J[l][1] = e
    BY <1>1, <2>0, <2>2
  <2>8. e \in ToSet(J[l])
    BY <2>6, <2>7 DEF ToSet
  <2>9. Position(J[l], e) = 1
    BY <2>6, <2>7, <2>8, PositionFacts
  <2>10. ASSUME NEW m \in Lists \ {l} PROVE Out(J, e)[m] = I[m]
    <3>1. e \notin ToSet(J[m])
      BY <2>2, <2>8 DEF Holds
    <3>2. Out(J, e)[m] = J[m]
      BY <2>2, <2>4, <3>1, OutFacts
    <3> QED BY <2>2, <3>2
  <2>11. Out(J, e)[l] = Unlink(J[l], e)
    BY <2>2, <2>4, <2>8, OutFacts
  <2>12. /\ Len(Out(J, e)[l]) = Len(J[l]) - 1
         /\ \A i \in 1 .. Len(J[l]) - 1 : Out(J, e)[l][i] = J[l][i + 1]
    <3> DEFINE t == J[l]
               u == Out(J, e)[l]
    <3>1. t \in Seq(Elems) /\ NoRepeat(t) /\ e \in ToSet(t) /\ Position(t, e) = 1 /\ u = Unlink(t, e)
      BY <2>6, <2>8, <2>9, <2>11
    <3> HIDE DEF t, u, e
    <3>2. /\ Len(u) = Len(t) - 1
          /\ \A i \in 1 .. Len(u) : u[i] = IF i < 1 THEN t[i] ELSE t[i + 1]
      BY <3>1, UnlinkElements
    <3>3. \A i \in 1 .. Len(t) - 1 : u[i] = t[i + 1]
      BY <3>2, SMTT(30)
    <3> QED BY <3>2, <3>3 DEF t, u
  <2>13. ASSUME NEW i \in 1 .. Len(Out(J, e)[l]) PROVE Out(J, e)[l][i] = w[(k + 1) + i]
    <3>1. i \in 1 .. Len(J[l]) - 1 /\ i + 1 \in 1 .. Len(J[l]) /\ k + (i + 1) = (k + 1) + i
      <4> DEFINE n == Len(J[l])
                 q == Len(Out(J, e)[l])
      <4>1. n \in Nat /\ q = n - 1 /\ i \in 1 .. q
        BY <2>6, <2>12
      <4> HIDE DEF n, q, e
      <4>2. i \in 1 .. n - 1 /\ i + 1 \in 1 .. n /\ k + (i + 1) = (k + 1) + i
        BY <2>0, <4>1
      <4> QED BY <4>2 DEF n
    <3>2. Out(J, e)[l][i] = J[l][i + 1] /\ J[l][i + 1] = w[k + (i + 1)]
      BY <2>2, <2>12, <3>1
    <3> QED BY <3>1, <3>2
  <2>14. Len(Out(J, e)[l]) = Len(w) - (k + 1)
    BY <1>1, <2>0, <2>7, <2>12
  <2>15. Rest(k + 1, Out(J, e))
    BY <2>5, <2>10, <2>13, <2>14
  <2> HIDE DEF Rest
  <2> QED BY <2>5, <2>15
<1>5. T \in SUBSET Nat
  OBVIOUS
<1>6. T = Nat
  <2> HIDE DEF T
  <2> QED BY <1>3, <1>4, <1>5, SetInduction
<1>7. ASSUME NEW k \in 0 .. Len(w) PROVE Ring(D(k)) /\ \E J : Rest(k, J)
  <2>1. k \in T /\ k <= Len(w)
    <3>1. k \in Nat /\ k <= Len(w)
      BY <1>1
    <3> HIDE DEF T
    <3> QED BY <1>6, <3>1
  <2> HIDE DEF Rest
  <2> QED BY <2>1
<1> QED BY <1>7 DEF D

\* sc_list_clear leaves an empty list, every element of it a ring of its own,
\* and the other lists as they were.
LEMMA LinkedClear ==
    ASSUME ScListAssumption, Linked(link)
    PROVE  ClearEmpties
<1> DEFINE I == Items(link)
<1>1. Ring(link) /\ Holds(link, I) /\ \A m \in Lists : I[m] = Walk(link, m)
  BY DEF Linked, Items
<1> HIDE DEF I
<1> SUFFICES ASSUME NEW l \in Lists
             PROVE  LET C == sc_list_clear(link, l)
                    IN  /\ sc_list_is_empty(C, l)
                        /\ \A e \in ToSet(Walk(link, l)) : C.next[e] = e /\ C.prev[e] = e
                        /\ \A m \in Lists \ {l} : Walk(C, m) = Walk(link, m)
  BY DEF ClearEmpties
<1> DEFINE C == sc_list_clear(link, l)
<1>2. C = Deleted(link, I[l])[Len(I[l])]
  BY <1>1 DEF sc_list_clear
<1>3. Len(I[l]) \in 0 .. Len(I[l]) /\ I[l] \in Seq(Elems)
  BY <1>1 DEF Holds
<1>4. Ring(C) /\ \E J : /\ Holds(C, J)
                        /\ \A m \in Lists \ {l} : J[m] = I[m]
                        /\ Len(J[l]) = Len(I[l]) - Len(I[l])
  <2> DEFINE n == Len(I[l])
  <2>1. \A k \in 0 .. n :
           /\ Ring(Deleted(link, I[l])[k])
           /\ \E J : /\ Holds(Deleted(link, I[l])[k], J)
                     /\ \A m \in Lists \ {l} : J[m] = I[m]
                     /\ Len(J[l]) = n - k
    BY <1>1, ClearSteps
  <2> HIDE DEF n, C
  <2>2. n \in 0 .. n /\ C = Deleted(link, I[l])[n]
    BY <1>2, <1>3 DEF n
  <2>3. /\ Ring(Deleted(link, I[l])[n])
        /\ \E J : /\ Holds(Deleted(link, I[l])[n], J)
                  /\ \A m \in Lists \ {l} : J[m] = I[m]
                  /\ Len(J[l]) = n - n
    BY <2>1, <2>2
  <2> QED BY <2>2, <2>3 DEF n
<1>5. PICK J : /\ Holds(C, J)
               /\ \A m \in Lists \ {l} : J[m] = I[m]
               /\ Len(J[l]) = 0
  BY <1>3, <1>4
<1> HIDE DEF C
<1>6. J[l] \in Seq(Elems) /\ ToSet(J[l]) = {} /\ Follows(C, l, J[l])
  BY <1>5 DEF Holds, ToSet
<1>7. sc_list_is_empty(C, l)
  BY <1>5, <1>6 DEF Follows, At, sc_list_is_empty
<1>8. ASSUME NEW e \in ToSet(Walk(link, l)) PROVE C.next[e] = e /\ C.prev[e] = e
  <2>1. e \in ToSet(I[l]) /\ e \in Elems
    BY <1>1, <1>3 DEF ToSet
  <2>2. \A m \in Lists : e \notin ToSet(J[m])
    BY <1>1, <1>5, <1>6, <2>1 DEF Holds
  <2>3. C.next[e] = e
    BY <1>5, <2>1, <2>2 DEF Holds
  <2> QED BY <1>4, <2>1, <2>3 DEF Ring, Node
<1>9. ASSUME NEW m \in Lists \ {l} PROVE Walk(C, m) = Walk(link, m)
  <2>1. Items(C) = J
    BY <1>4, <1>5, HoldsItems
  <2> QED BY <1>1, <1>5, <2>1 DEF Items
<1> QED BY <1>7, <1>8, <1>9 DEF C

-----------------------------------------------------------------------------
(* The order of a list.                                                    *)

\* How a sequence begins, in the words of the community modules.
LEMMA BeginsIsPrefix ==
    ASSUME NEW S, NEW v \in Seq(S), NEW s \in Seq(S), Begins(v, s)
    PROVE  IsPrefix(v, s)
<1> DEFINE n == Len(v)
<1>1. n \in Nat /\ Len(s) \in Nat /\ n <= Len(s)
  BY DEF Begins
<1>2. SubSeq(v, 1, n) = [i \in 1 .. n |-> v[i]] /\ SubSeq(s, 1, n) = [i \in 1 .. n |-> s[i]]
  BY <1>1
<1>3. SubSeq(v, 1, n) = SubSeq(s, 1, n)
  BY <1>2 DEF Begins
<1> QED BY <1>1, <1>3 DEF IsPrefix

\* Of two elements of a sequence without repetition exactly one comes first.
LEMMA BeforeFacts ==
    ASSUME NEW S, NEW s \in Seq(S), NoRepeat(s)
    PROVE  /\ \A a, b \in ToSet(s) : a # b => Before(s, a, b) \/ Before(s, b, a)
           /\ \A a, b : Before(s, a, b) => /\ a \in ToSet(s) /\ b \in ToSet(s)
                                           /\ a # b /\ ~Before(s, b, a)
<1>1. ASSUME NEW a \in ToSet(s), NEW b \in ToSet(s), a # b
      PROVE  Before(s, a, b) \/ Before(s, b, a)
  <2>1. PICK i \in DOMAIN s : s[i] = a
    BY DEF ToSet
  <2>2. PICK j \in DOMAIN s : s[j] = b
    BY DEF ToSet
  <2>3. i < j \/ j < i
    BY <1>1, <2>1, <2>2
  <2> QED BY <2>1, <2>2, <2>3 DEF Before
<1>2. ASSUME NEW a, NEW b, Before(s, a, b)
      PROVE  a \in ToSet(s) /\ b \in ToSet(s) /\ a # b /\ ~Before(s, b, a)
  BY <1>2 DEF Before, ToSet, NoRepeat
<1> QED BY <1>1, <1>2

\* Taking an element out leaves the others in order.
LEMMA BeforeRemove ==
    ASSUME NEW S, NEW s \in Seq(S), NoRepeat(s), NEW e, NEW a, NEW b
    PROVE  Before(RemoveFirst(s, e), a, b) <=> Before(s, a, b) /\ a # e /\ b # e
<1>1. CASE e \notin ToSet(s)
  <2>1. RemoveFirst(s, e) = s
    BY <1>1, RemoveFirstFacts
  <2> QED BY <1>1, <2>1, BeforeFacts
<1>2. CASE e \in ToSet(s)
  <2> DEFINE t == Unlink(s, e)
             p == Position(s, e)
  <2>1. RemoveFirst(s, e) = t
    BY <1>2, RemoveFirstFacts
  <2>2. /\ p \in 1 .. Len(s) /\ s[p] = e
        /\ \A i \in 1 .. Len(s) : s[i] = e => i = p
    BY <1>2, PositionFacts
  <2>3. /\ t \in Seq(S) /\ Len(t) = Len(s) - 1
        /\ \A i \in 1 .. Len(t) : t[i] = IF i < p THEN s[i] ELSE s[i + 1]
    BY <1>2, UnlinkElements
  <2> HIDE DEF t, p
  <2>4. ASSUME Before(t, a, b) PROVE Before(s, a, b) /\ a # e /\ b # e
    <3>1. PICK i \in 1 .. Len(t), j \in 1 .. Len(t) : i < j /\ t[i] = a /\ t[j] = b
      BY <2>3, <2>4 DEF Before
    <3> DEFINE was(n) == IF n < p THEN n ELSE n + 1
    <3>2. /\ was(i) \in 1 .. Len(s) /\ was(i) # p /\ s[was(i)] = a
          /\ was(j) \in 1 .. Len(s) /\ was(j) # p /\ s[was(j)] = b
      BY <2>2, <2>3, <3>1
    <3>3. was(i) < was(j)
      BY <2>2, <3>1
    <3> HIDE DEF was
    <3> QED BY <2>2, <3>2, <3>3 DEF Before
  <2>5. ASSUME Before(s, a, b), a # e, b # e PROVE Before(t, a, b)
    <3>1. PICK i \in 1 .. Len(s), j \in 1 .. Len(s) : i < j /\ s[i] = a /\ s[j] = b
      BY <2>5 DEF Before
    <3> DEFINE is(n) == IF n < p THEN n ELSE n - 1
    <3>2. i # p /\ j # p
      BY <2>2, <2>5, <3>1
    <3>3. /\ is(i) \in 1 .. Len(t) /\ t[is(i)] = a
          /\ is(j) \in 1 .. Len(t) /\ t[is(j)] = b
      BY <2>2, <2>3, <3>1, <3>2, SMTT(30)
    <3>4. is(i) < is(j)
      BY <2>2, <3>1, <3>2
    <3> HIDE DEF is
    <3> QED BY <2>3, <3>3, <3>4 DEF Before
  <2> QED BY <2>1, <2>4, <2>5
<1> QED BY <1>1, <1>2

\* So does putting one in.
LEMMA BeforeInsert ==
    ASSUME NEW S, NEW s \in Seq(S), NEW e \in S, NEW k \in 1 .. Len(s) + 1,
           NEW a, NEW b, a # e, b # e
    PROVE  Before(InsertAt(s, k, e), a, b) <=> Before(s, a, b)
<1> DEFINE t == InsertAt(s, k, e)
<1>1. /\ t \in Seq(S) /\ Len(t) = Len(s) + 1
      /\ \A i \in 1 .. Len(s) + 1 : t[i] = IF i < k THEN s[i] ELSE IF i = k THEN e ELSE s[i - 1]
  BY InsertElements
<1> HIDE DEF t
<1>2. ASSUME Before(t, a, b) PROVE Before(s, a, b)
  <2>1. PICK i \in 1 .. Len(t), j \in 1 .. Len(t) : i < j /\ t[i] = a /\ t[j] = b
    BY <1>1, <1>2 DEF Before
  <2> DEFINE was(n) == IF n < k THEN n ELSE n - 1
  <2>2. i # k /\ j # k
    BY <1>1, <2>1
  <2>3. /\ was(i) \in 1 .. Len(s) /\ s[was(i)] = a
        /\ was(j) \in 1 .. Len(s) /\ s[was(j)] = b
    BY <1>1, <2>1, <2>2
  <2>4. was(i) < was(j)
    BY <2>1, <2>2
  <2> HIDE DEF was
  <2> QED BY <2>3, <2>4 DEF Before
<1>3. ASSUME Before(s, a, b) PROVE Before(t, a, b)
  <2>1. PICK i \in 1 .. Len(s), j \in 1 .. Len(s) : i < j /\ s[i] = a /\ s[j] = b
    BY <1>3 DEF Before
  <2> DEFINE is(n) == IF n < k THEN n ELSE n + 1
  <2>2. /\ is(i) \in 1 .. Len(t) /\ t[is(i)] = a
        /\ is(j) \in 1 .. Len(t) /\ t[is(j)] = b
    BY <1>1, <2>1
  <2>3. is(i) < is(j)
    BY <2>1
  <2> HIDE DEF is
  <2> QED BY <1>1, <2>2, <2>3 DEF Before
<1> QED BY <1>2, <1>3 DEF t

\* How a sequence begins, with an element taken out of both.
LEMMA BeginsRemove ==
    ASSUME NEW S, NEW v \in Seq(S), NEW s \in Seq(S), NoRepeat(s), Begins(v, s), NEW e
    PROVE  NoRepeat(v) /\ Begins(RemoveFirst(v, e), RemoveFirst(s, e))
<1>1. NoRepeat(v) /\ Len(v) \in Nat /\ Len(s) \in Nat
  BY DEF NoRepeat, Begins
<1>2. CASE e \in ToSet(v)
  <2> DEFINE p == Position(v, e)
  <2>1. p \in 1 .. Len(v) /\ v[p] = e
    BY <1>1, <1>2, PositionFacts
  <2>2. p \in DOMAIN s /\ s[p] = e
    BY <2>1 DEF Begins
  <2>3. e \in ToSet(s)
    BY <2>2 DEF ToSet
  <2>4. Position(s, e) = p
    BY <2>2, <2>3, PositionFacts
  <2>5. RemoveFirst(v, e) = Unlink(v, e) /\ RemoveFirst(s, e) = Unlink(s, e)
    BY <1>1, <1>2, <2>3, RemoveFirstFacts
  <2>6. /\ Len(Unlink(v, e)) = Len(v) - 1
        /\ \A i \in 1 .. Len(Unlink(v, e)) : Unlink(v, e)[i] = IF i < p THEN v[i] ELSE v[i + 1]
    BY <1>1, <1>2, UnlinkElements
  <2>7. /\ Len(Unlink(s, e)) = Len(s) - 1
        /\ \A i \in 1 .. Len(Unlink(s, e)) : Unlink(s, e)[i] = IF i < p THEN s[i] ELSE s[i + 1]
    BY <2>3, <2>4, UnlinkElements
  <2> HIDE DEF p
  <2> QED BY <1>1, <2>1, <2>5, <2>6, <2>7 DEF Begins
<1>3. CASE e \notin ToSet(v) /\ e \in ToSet(s)
  <2> DEFINE p == Position(s, e)
  <2>1. p \in 1 .. Len(s) /\ s[p] = e
    BY <1>3, PositionFacts
  <2>2. p > Len(v)
    <3> SUFFICES ASSUME p <= Len(v) PROVE FALSE
      BY <1>1, <2>1
    <3>1. p \in DOMAIN v /\ v[p] = e
      BY <2>1 DEF Begins
    <3> QED BY <1>3, <3>1 DEF ToSet
  <2>3. RemoveFirst(v, e) = v /\ RemoveFirst(s, e) = Unlink(s, e)
    BY <1>1, <1>3, RemoveFirstFacts
  <2>4. /\ Len(Unlink(s, e)) = Len(s) - 1
        /\ \A i \in 1 .. Len(Unlink(s, e)) : Unlink(s, e)[i] = IF i < p THEN s[i] ELSE s[i + 1]
    BY <1>3, UnlinkElements
  <2> HIDE DEF p
  <2> QED BY <1>1, <2>1, <2>2, <2>3, <2>4 DEF Begins
<1>4. CASE e \notin ToSet(v) /\ e \notin ToSet(s)
  <2>1. RemoveFirst(v, e) = v /\ RemoveFirst(s, e) = s
    BY <1>1, <1>4, RemoveFirstFacts
  <2> QED BY <1>1, <2>1
<1> QED BY <1>1, <1>2, <1>3, <1>4

\* It has not seen any of them twice, nor one that is not kept.
LEMMA SeesAll ==
    ASSUME NEW S, NEW v \in Seq(S), NEW k \in Seq(S), NoRepeat(k), Begins(v, k),
           \A a \in ToSet(k) : a \in ToSet(v)
    PROVE  v = k
<1>1. Len(v) = Len(k)
  <2> SUFFICES ASSUME Len(v) < Len(k) PROVE FALSE
    BY DEF Begins
  <2> DEFINE j == Len(v) + 1
  <2>1. j \in DOMAIN k
    OBVIOUS
  <2>2. k[j] \in ToSet(v)
    BY <2>1 DEF ToSet
  <2>3. PICK i \in DOMAIN v : v[i] = k[j]
    BY <2>2 DEF ToSet
  <2>4. i \in DOMAIN k /\ k[i] = k[j] /\ i # j
    BY <2>1, <2>3 DEF Begins
  <2> QED BY <2>1, <2>4 DEF NoRepeat
<1> QED BY <1>1, SeqEqual DEF Begins

\* The next one is visited after all that come before it.
LEMMA SeesNext ==
    ASSUME NEW S, NEW v \in Seq(S), NEW k \in Seq(S), NoRepeat(k), Begins(v, k),
           NEW x \in ToSet(k), x \notin ToSet(v),
           \A a : Before(k, a, x) => a \in ToSet(v)
    PROVE  /\ Append(v, x) \in Seq(S)
           /\ Begins(Append(v, x), k)
           /\ ToSet(Append(v, x)) = ToSet(v) \cup {x}
<1>1. PICK j \in DOMAIN k : k[j] = x
  BY DEF ToSet
<1>2. x \in S
  BY <1>1
<1>3. NoRepeat(v) /\ Len(v) \in Nat /\ Len(k) \in Nat /\ Len(v) <= Len(k)
  BY DEF NoRepeat, Begins
<1>4. j > Len(v)
  <2> SUFFICES ASSUME j <= Len(v) PROVE FALSE
    BY <1>1, <1>3
  <2>1. j \in DOMAIN v /\ v[j] = x
    BY <1>1 DEF Begins
  <2> QED BY <2>1 DEF ToSet
<1>5. j = Len(v) + 1
  <2> SUFFICES ASSUME j > Len(v) + 1 PROVE FALSE
    BY <1>1, <1>3, <1>4
  <2> DEFINE h == Len(v) + 1
  <2>1. h \in DOMAIN k /\ h < j
    BY <1>1, <1>3
  <2>2. Before(k, k[h], x)
    BY <1>1, <2>1 DEF Before
  <2>3. PICK i \in DOMAIN v : v[i] = k[h]
    BY <2>2 DEF ToSet
  <2>4. i \in DOMAIN k /\ k[i] = k[h] /\ i # h
    BY <1>3, <2>3 DEF Begins
  <2> QED BY <2>1, <2>4 DEF NoRepeat
<1>6. Begins(Append(v, x), k)
  <2>1. Len(Append(v, x)) = Len(v) + 1 /\ Len(v) + 1 <= Len(k)
    BY <1>1, <1>5
  <2>2. \A i \in 1 .. Len(v) + 1 : Append(v, x)[i] = k[i]
    BY <1>1, <1>2, <1>5 DEF Begins
  <2> QED BY <2>1, <2>2 DEF Begins
<1> QED BY <1>2, <1>3, <1>6, AppendFacts

-----------------------------------------------------------------------------
(* The loop.                                                               *)

\* What comes before the node after n is what comes before n, and n.
LEMMA BeforeNext ==
    ASSUME ScListAssumption, NEW L, NEW l \in Lists, NEW s \in Seq(Elems), NoRepeat(s),
           Follows(L, l, s), NEW n \in ToSet(s)
    PROVE  /\ L.next[n] = l \/ L.next[n] \in ToSet(s)
           /\ \A a \in ToSet(s) : L.next[n] = l \/ Before(s, a, L.next[n])
                                    <=> a = n \/ Before(s, a, n)
<1> DEFINE p == Position(s, n)
           m == L.next[n]
<1>1. p \in 1 .. Len(s) /\ s[p] = n
  BY PositionFacts
<1> HIDE DEF p
<1>2. m = At(l, s, p + 1)
  BY <1>1 DEF Follows, At
<1>3. CASE p = Len(s)
  <2>1. m = l
    BY <1>2, <1>3 DEF At
  <2>2. ASSUME NEW a \in ToSet(s) PROVE a = n \/ Before(s, a, n)
    <3>1. PICK i \in DOMAIN s : s[i] = a
      BY DEF ToSet
    <3>2. i = p \/ i < p
      BY <1>3
    <3> QED BY <1>1, <3>1, <3>2 DEF Before
  <2> QED BY <2>1, <2>2
<1>4. CASE p # Len(s)
  <2>1. p + 1 \in DOMAIN s /\ m = s[p + 1] /\ m \in ToSet(s) /\ m # l
    BY <1>1, <1>2, <1>4 DEF At, ToSet, ScListAssumption
  <2> HIDE DEF m
  <2>2. ASSUME NEW a \in ToSet(s) PROVE Before(s, a, m) <=> a = n \/ Before(s, a, n)
    <3>1. PICK i \in DOMAIN s : s[i] = a
      BY DEF ToSet
    <3>2. ASSUME Before(s, a, m) PROVE a = n \/ Before(s, a, n)
      <4>1. i < p + 1
        <5>1. PICK x \in DOMAIN s, y \in DOMAIN s : x < y /\ s[x] = a /\ s[y] = m
          BY <3>2 DEF Before
        <5>2. x = i /\ y = p + 1
          BY <2>1, <3>1, <5>1 DEF NoRepeat
        <5> QED BY <5>1, <5>2
      <4>2. i = p \/ i < p
        BY <1>1, <4>1
      <4> QED BY <1>1, <3>1, <4>2 DEF Before
    <3>3. ASSUME a = n PROVE Before(s, a, m)
      <4>1. p \in DOMAIN s /\ p < p + 1
        BY <1>1
      <4> QED BY <1>1, <2>1, <3>3, <4>1 DEF Before
    <3>4. ASSUME Before(s, a, n) PROVE Before(s, a, m)
      <4>1. PICK x \in DOMAIN s, y \in DOMAIN s : x < y /\ s[x] = a /\ s[y] = n
        BY <3>4 DEF Before
      <4>2. y = p
        BY <1>1, <4>1 DEF NoRepeat
      <4>3. x < p + 1
        BY <1>1, <4>1, <4>2
      <4> QED BY <2>1, <4>1, <4>3 DEF Before
    <3> QED BY <3>2, <3>3, <3>4
  <2> QED BY <2>1, <2>2 DEF m
<1> QED BY <1>3, <1>4

\* What a loop has visited once it has stopped at n.
Stopped(k, v, n) == IF Contains(k, n) THEN Append(v, n) ELSE v

\* A loop that stops at the node it has saved.
LEMMA StopSees ==
    ASSUME ScListAssumption, NEW L, NEW l \in Lists, NEW s \in Seq(Elems), NoRepeat(s),
           Follows(L, l, s), NEW k \in Seq(Elems), Remains(k, s),
           NEW v \in Seq(Elems), NEW n, Sees(l, s, k, v, n)
    PROVE  /\ Stopped(k, v, n) \in Seq(Elems)
           /\ n = l => Stopped(k, v, n) = k
           /\ n # l => Sees(l, s, k, Stopped(k, v, n), L.next[n])
<1> DEFINE w == Stopped(k, v, n)
<1>0. \A x : Contains(k, x) <=> x \in ToSet(k)
  BY DEF Contains, ToSet
<1>1. CASE n = l
  <2>1. ~Contains(k, n)
    BY <1>1 DEF Contains, ScListAssumption
  <2>2. v = k
    BY <1>1, SeesAll DEF Sees, Remains
  <2> QED BY <1>1, <2>1, <2>2 DEF Stopped
<1>2. CASE n # l
  <2>1. n \in ToSet(s)
    BY <1>2 DEF Sees
  <2>2. /\ L.next[n] = l \/ L.next[n] \in ToSet(s)
        /\ \A a \in ToSet(s) : L.next[n] = l \/ Before(s, a, L.next[n])
                                 <=> a = n \/ Before(s, a, n)
    BY <2>1, BeforeNext
  <2>3. \A a \in ToSet(k) : a \in ToSet(v) <=> Before(s, a, n)
    BY <1>2 DEF Sees
  <2>4. \A a \in ToSet(k) : L.next[n] = l \/ Before(s, a, L.next[n]) <=> a = n \/ a \in ToSet(v)
    BY <2>2, <2>3 DEF Remains
  <2>5. CASE n \in ToSet(k)
    <3>1. n \notin ToSet(v)
      BY <2>3, <2>5, BeforeFacts
    <3>2. \A a : Before(k, a, n) => a \in ToSet(v)
      BY <2>3, BeforeFacts DEF Remains
    <3>3. w = Append(v, n)
      BY <1>0, <2>5 DEF Stopped
    <3>4. w \in Seq(Elems) /\ Begins(w, k) /\ ToSet(w) = ToSet(v) \cup {n}
      BY <2>5, <3>1, <3>2, <3>3, SeesNext DEF Sees, Remains
    <3>5. \A a \in ToSet(k) : a \in ToSet(w) <=> L.next[n] = l \/ Before(s, a, L.next[n])
      BY <2>4, <3>4
    <3> QED BY <1>2, <2>2, <3>4, <3>5 DEF Sees
  <2>6. CASE n \notin ToSet(k)
    <3>1. w = v
      BY <1>0, <2>6 DEF Stopped
    <3>2. \A a \in ToSet(k) : a \in ToSet(w) <=> L.next[n] = l \/ Before(s, a, L.next[n])
      BY <2>4, <2>6, <3>1
    <3> QED BY <1>2, <2>2, <3>1, <3>2 DEF Sees
  <2> QED BY <2>5, <2>6
<1> QED BY <1>1, <1>2

\* A list that another element than e sees as before.
Undisturbed(s, t, e) ==
    /\ ToSet(s) \ {e} \subseteq ToSet(t)
    /\ \A a, b : a # e /\ b # e => (Before(t, a, b) <=> Before(s, a, b))

\* An operation on e leaves the order of the others as it was.
LEMMA ChangesUndisturbed ==
    ASSUME ScListAssumption, NEW L, NEW I, Holds(L, I), NEW e \in Elems, NEW m \in Lists
    PROVE  /\ Undisturbed(I[m], Out(I, e)[m], e)
           /\ \A l \in Lists : \A k \in 1 .. Len(Out(I, e)[l]) + 1 :
                 Undisturbed(I[m], Put(I, l, k, e)[m], e)
<1> DEFINE s == I[m]
           t == Out(I, e)[m]
<1>1. s \in Seq(Elems) /\ NoRepeat(s) /\ t = RemoveFirst(s, e)
  BY DEF Holds, Out
<1>2. t \in Seq(Elems) /\ NoRepeat(t) /\ ToSet(t) = ToSet(s) \ {e}
  <2> HIDE DEF s, t
  <2> QED BY <1>1, RemoveFirstFacts
<1>3. \A a, b : a # e /\ b # e => (Before(t, a, b) <=> Before(s, a, b))
  <2> HIDE DEF s, t
  <2> QED BY <1>1, BeforeRemove
<1>4. Undisturbed(s, t, e)
  BY <1>2, <1>3 DEF Undisturbed
<1>5. ASSUME NEW l \in Lists, NEW k \in 1 .. Len(Out(I, e)[l]) + 1
      PROVE  Undisturbed(s, Put(I, l, k, e)[m], e)
  <2>0. Out(I, e) \in [Lists -> Seq(Elems)]
    BY OutFacts
  <2>1. CASE m # l
    <3>1. Put(I, l, k, e)[m] = t
      BY <2>0, <2>1 DEF Put
    <3> QED BY <1>4, <3>1
  <2>2. CASE m = l
    <3>1. Put(I, l, k, e)[m] = InsertAt(t, k, e)
      BY <2>0, <2>2 DEF Put
    <3>2. k \in 1 .. Len(t) + 1
      BY <2>2
    <3> HIDE DEF s, t
    <3>3. ToSet(InsertAt(t, k, e)) = ToSet(t) \cup {e}
      BY <1>2, <3>2, InsertFacts
    <3>4. ASSUME NEW a, NEW b, a # e, b # e
          PROVE  Before(InsertAt(t, k, e), a, b) <=> Before(s, a, b)
      BY <1>2, <1>3, <3>2, <3>4, BeforeInsert
    <3> QED BY <1>2, <3>1, <3>3, <3>4 DEF Undisturbed
  <2> QED BY <2>1, <2>2
<1> QED BY <1>4, <1>5

\* What a step with another element than the saved one does to a loop.
LEMMA TouchedSees ==
    ASSUME NEW l \in Lists, NEW s, NEW t, NEW e \in Elems, Undisturbed(s, t, e),
           NEW k \in Seq(Elems), Remains(k, s), NEW v \in Seq(Elems)
    PROVE  /\ RemoveFirst(k, e) \in Seq(Elems)
           /\ Remains(RemoveFirst(k, e), t)
           /\ \A n : n # e /\ Sees(l, s, k, v, n) =>
                 /\ RemoveFirst(v, e) \in Seq(Elems)
                 /\ Sees(l, t, RemoveFirst(k, e), RemoveFirst(v, e), n)
<1> DEFINE k1 == RemoveFirst(k, e)
           v1 == RemoveFirst(v, e)
<1>1. k1 \in Seq(Elems) /\ NoRepeat(k1) /\ ToSet(k1) = ToSet(k) \ {e}
  BY RemoveFirstFacts DEF Remains
<1>2. \A a, b : Before(k1, a, b) => Before(k, a, b) /\ a # e /\ b # e
  BY BeforeRemove DEF Remains
<1>3. Remains(k1, t)
  BY <1>1, <1>2 DEF Remains, Undisturbed
<1>4. ASSUME NEW n, n # e, Sees(l, s, k, v, n)
      PROVE  v1 \in Seq(Elems) /\ Sees(l, t, k1, v1, n)
  <2>1. NoRepeat(v) /\ Begins(v1, k1)
    BY <1>4, BeginsRemove DEF Sees, Remains
  <2>2. v1 \in Seq(Elems) /\ ToSet(v1) = ToSet(v) \ {e}
    BY <2>1, RemoveFirstFacts
  <2> HIDE DEF k1, v1
  <2>3. n = l \/ n \in ToSet(t)
    BY <1>4 DEF Sees, Undisturbed
  <2>4. \A a \in ToSet(k1) : a \in ToSet(v1) <=> n = l \/ Before(t, a, n)
    BY <1>1, <1>4, <2>2 DEF Sees, Undisturbed
  <2> QED BY <2>1, <2>2, <2>3, <2>4 DEF Sees
<1> QED BY <1>1, <1>3, <1>4

\* What an operation on e does to a loop that is under way.
LEMMA TouchedStep ==
    ASSUME ScListAssumption, IInv, NEW e \in Elems, MayUnlink(e), Touched(e), Linked(link'),
           \/ Items(link') = Out(Items(link), e)
           \/ \E l \in Lists : \E k \in 1 .. Len(Out(Items(link), e)[l]) + 1 :
                 Items(link') = Put(Items(link), l, k, e)
    PROVE  TypeOK' /\ LoopInv'
<1> DEFINE s == Items(link)[list]
           t == Items(link')[list]
<1>1. /\ kept' = RemoveFirst(kept, e) /\ visited' = RemoveFirst(visited, e)
      /\ list' = list /\ it' = it /\ tmp' = tmp /\ (Looping' <=> Looping)
  BY DEF Touched, Looping
<1>2. kept \in Seq(Elems) /\ visited \in Seq(Elems)
  BY DEF IInv, TypeOK
<1>3. ASSUME kept' \in Seq(Elems), visited' \in Seq(Elems) PROVE TypeOK'
  <2>1. link' \in Links
    BY DEF Linked, Ring
  <2> QED BY <1>1, <1>3, <2>1 DEF IInv, TypeOK
<1>4. CASE ~Looping
  <2>1. kept = <<>> /\ visited = <<>>
    BY <1>4 DEF IInv, LoopInv
  <2>2. RemoveFirst(<<>>, e) = <<>>
    BY DEF RemoveFirst
  <2>3. kept' = <<>> /\ visited' = <<>>
    BY <1>1, <2>1, <2>2
  <2>4. LoopInv'
    BY <1>1, <1>4, <2>3 DEF LoopInv
  <2> QED BY <1>2, <1>3, <2>1, <2>3, <2>4
<1>5. CASE Looping
  <2>1. list \in Lists /\ Remains(kept, s) /\ tmp # e
    BY <1>5 DEF IInv, LoopInv, MayUnlink
  <2>2. Undisturbed(s, t, e)
    <3> DEFINE I == Items(link)
    <3>1. Holds(link, I)
      BY DEF IInv, Linked
    <3>2. \/ Items(link') = Out(I, e)
          \/ \E l \in Lists : \E k \in 1 .. Len(Out(I, e)[l]) + 1 : Items(link') = Put(I, l, k, e)
      OBVIOUS
    <3> HIDE DEF I
    <3>3. Undisturbed(I[list], Items(link')[list], e)
      BY <2>1, <3>1, <3>2, ChangesUndisturbed
    <3> QED BY <3>3 DEF I
  <2>3. Items(link)'[list'] = t
    BY <1>1 DEF Items
  <2> HIDE DEF s, t
  <2>4. kept' \in Seq(Elems) /\ Remains(kept', t)
    BY <1>1, <1>2, <2>1, <2>2, TouchedSees
  <2>5. CASE it = list
    <3>1. visited = kept /\ (tmp = list \/ tmp \in ToSet(s))
      BY <1>5, <2>5 DEF IInv, LoopInv, s
    <3>2. visited' = kept' /\ (tmp = list \/ tmp \in ToSet(t))
      BY <1>1, <2>1, <2>2, <3>1 DEF Undisturbed
    <3>3. LoopInv'
      BY <1>1, <1>5, <2>1, <2>3, <2>4, <2>5, <3>2 DEF LoopInv, Remains
    <3> QED BY <1>3, <2>4, <3>2, <3>3
  <2>6. CASE it # list
    <3>1. Sees(list, s, kept, visited, tmp)
      BY <1>5, <2>6 DEF IInv, LoopInv, s
    <3>2. visited' \in Seq(Elems) /\ Sees(list, t, kept', visited', tmp)
      BY <1>1, <1>2, <2>1, <2>2, <3>1, TouchedSees
    <3>3. LoopInv'
      BY <1>1, <1>5, <2>1, <2>3, <2>4, <2>6, <3>2 DEF LoopInv, Remains, Sees
    <3> QED BY <1>3, <2>4, <3>2, <3>3
  <2> QED BY <2>5, <2>6
<1> QED BY <1>4, <1>5

\* A stop of the loop, at the first node or at the one it has saved.
LEMMA StopStep ==
    ASSUME ScListAssumption, Linked(link), NEW l \in Lists, NEW k \in Seq(Elems),
           Remains(k, Items(link)[l]), NEW n, Sees(l, Items(link)[l], k, visited, n),
           visited \in Seq(Elems), link' = link, list' = l, kept' = k, StopAt(n)
    PROVE  TypeOK' /\ LoopInv'
<1> DEFINE s == Items(link)[l]
<1>1. s \in Seq(Elems) /\ NoRepeat(s) /\ Follows(link, l, s) /\ link \in Links
  BY DEF Linked, Holds, Ring
<1>2. /\ it' = n /\ tmp' = link.next[n]
      /\ visited' = Stopped(k, visited, n)
  BY DEF StopAt, Stopped
<1>3. Items(link)'[list'] = s
  BY DEF Items
<1>4. n \in Node /\ link.next[n] \in Node /\ l # NoNode
  BY <1>1 DEF Sees, ToSet, Node, Links, ScListAssumption
<1>5. n = l => link.next[n] = l \/ link.next[n] \in ToSet(s)
  <2> SUFFICES ASSUME n = l PROVE link.next[l] = l \/ link.next[l] \in ToSet(s)
    OBVIOUS
  <2>1. link.next[At(l, s, 0)] = At(l, s, 0 + 1) /\ At(l, s, 0) = l
    <3>1. 0 \in 0 .. Len(s)
      BY <1>1
    <3> QED BY <1>1, <3>1 DEF Follows, At
  <2>2. At(l, s, 1) = l \/ At(l, s, 1) \in ToSet(s)
    BY <1>1 DEF At, ToSet
  <2> QED BY <2>1, <2>2
<1>6. Remains(k, s) /\ Sees(l, s, k, visited, n)
  OBVIOUS
<1> HIDE DEF s
<1>7. /\ visited' \in Seq(Elems)
      /\ n = l => visited' = k
      /\ n # l => Sees(l, s, k, visited', link.next[n])
  <2>1. /\ Stopped(k, visited, n) \in Seq(Elems)
        /\ n = l => Stopped(k, visited, n) = k
        /\ n # l => Sees(l, s, k, Stopped(k, visited, n), link.next[n])
    BY <1>1, <1>6, StopSees
  <2> QED BY <1>2, <2>1
<1>8. Looping'
  BY <1>4 DEF Looping
<1>9. LoopInv'
  BY <1>2, <1>3, <1>5, <1>7, <1>8 DEF LoopInv, Remains, Sees, s
<1>10. TypeOK'
  BY <1>1, <1>2, <1>4, <1>7 DEF TypeOK, Node
<1> QED BY <1>9, <1>10

\* Every step keeps the inductive invariant.
LEMMA IInvStep ==
    ASSUME ScListAssumption, IInv, [Next]_vars
    PROVE  IInv'
<1> DEFINE I == Items(link)
<1>0. Linked(link) /\ Linked(link)' /\ Linked(link')
  <2>1. Linked(link')
    BY StepLinked DEF IInv
  <2> QED BY <2>1 DEF IInv, Linked, Ring, Holds, Items, Links, Node, Follows, Walk, Steps
<1>1. ASSUME NEW e \in Elems, Del(e) PROVE TypeOK' /\ LoopInv'
  <2>1. Items(link') = Out(I, e)
    BY <1>0, <1>1, DelStep DEF Del
  <2> QED BY <1>0, <1>1, <2>1, TouchedStep DEF Del
<1>2. ASSUME NEW l \in Lists, PopHead(l) PROVE TypeOK' /\ LoopInv'
  <2> DEFINE e == link.next[l]
  <2>1. e \in Elems
    BY <1>0, <1>2, EndsOfList DEF PopHead
  <2>2. link' = sc_list_del(link, e) /\ MayUnlink(e) /\ Touched(e)
    BY <1>2 DEF PopHead
  <2> HIDE DEF e
  <2>3. Items(link') = Out(I, e)
    BY <1>0, <2>1, <2>2, DelStep
  <2> QED BY <1>0, <2>1, <2>2, <2>3, TouchedStep
<1>3. ASSUME NEW l \in Lists, PopTail(l) PROVE TypeOK' /\ LoopInv'
  <2> DEFINE e == link.prev[l]
  <2>1. e \in Elems
    BY <1>0, <1>3, EndsOfList DEF PopTail
  <2>2. link' = sc_list_del(link, e) /\ MayUnlink(e) /\ Touched(e)
    BY <1>3 DEF PopTail
  <2> HIDE DEF e
  <2>3. Items(link') = Out(I, e)
    BY <1>0, <2>1, <2>2, DelStep
  <2> QED BY <1>0, <2>1, <2>2, <2>3, TouchedStep
<1>4. ASSUME NEW l \in Lists, NEW e \in Elems, NEW p \in Elems,
             AddTail(l, e) \/ AddHead(l, e) \/ AddAfter(l, p, e) \/ AddBefore(l, p, e)
      PROVE  TypeOK' /\ LoopInv'
  <2> DEFINE J == Out(I, e)
  <2>1. J[l] \in Seq(Elems) /\ NoRepeat(J[l])
    BY <1>0, OutFacts DEF Linked
  <2>2. MayUnlink(e) /\ Touched(e)
    BY <1>4 DEF AddTail, AddHead, AddAfter, AddBefore
  <2>3. \E k \in 1 .. Len(J[l]) + 1 : Items(link') = Put(I, l, k, e)
    <3>1. /\ 1 \in 1 .. Len(J[l]) + 1 /\ Len(J[l]) + 1 \in 1 .. Len(J[l]) + 1
          /\ \A x \in ToSet(J[l]) : /\ Position(J[l], x) \in 1 .. Len(J[l]) + 1
                                    /\ Position(J[l], x) + 1 \in 1 .. Len(J[l]) + 1
      <4> HIDE DEF J
      <4>1. \A x \in ToSet(J[l]) : Position(J[l], x) \in 1 .. Len(J[l])
        BY <2>1, PositionFacts
      <4> QED BY <2>1, <4>1
    <3>2. CASE AddTail(l, e)
      BY <1>0, <3>1, <3>2, AddStep
    <3>3. CASE AddHead(l, e)
      BY <1>0, <3>1, <3>3, AddStep
    <3>4. CASE AddAfter(l, p, e)
      BY <1>0, <3>1, <3>4, AddStep
    <3>5. CASE AddBefore(l, p, e)
      BY <1>0, <3>1, <3>5, AddStep
    <3> QED BY <1>4, <3>2, <3>3, <3>4, <3>5
  <2> QED BY <1>0, <2>2, <2>3, TouchedStep
<1>5. ASSUME NEW l \in Lists, ForEachBegin(l) PROVE TypeOK' /\ LoopInv'
  <2> DEFINE s == Items(link)[l]
             n == link.next[l]
  <2>1. ~Looping /\ list' = l /\ kept' = s /\ StopAt(n) /\ link' = link
    BY <1>5 DEF ForEachBegin, Items
  <2>2. visited = <<>>
    BY <2>1 DEF IInv, LoopInv
  <2>3. s \in Seq(Elems) /\ NoRepeat(s) /\ Follows(link, l, s)
    BY <1>0 DEF Linked, Holds
  <2>4. Remains(s, s)
    BY <2>3 DEF Remains
  <2> HIDE DEF s
  <2>5. n = At(l, s, 1)
    <3>1. link.next[At(l, s, 0)] = At(l, s, 0 + 1) /\ At(l, s, 0) = l
      BY <2>3 DEF Follows, At
    <3> QED BY <3>1
  <2> HIDE DEF n
  <2>6. Sees(l, s, s, <<>>, n)
    <3>1. CASE s = <<>>
      BY <2>5, <3>1 DEF Sees, At, Begins, ToSet
    <3>2. CASE s # <<>>
      <4>1. 1 \in DOMAIN s /\ n = s[1] /\ n \in ToSet(s) /\ n # l
        BY <2>3, <2>5, <3>2 DEF At, ToSet, ScListAssumption
      <4>2. \A a : ~Before(s, a, n)
        BY <2>3, <4>1 DEF Before, NoRepeat
      <4>3. ToSet(<<>>) = {} /\ Begins(<<>>, s)
        BY <2>3 DEF ToSet, Begins
      <4> QED BY <4>1, <4>2, <4>3 DEF Sees
    <3> QED BY <3>1, <3>2
  <2> QED BY <1>0, <2>1, <2>2, <2>3, <2>4, <2>6, StopStep DEF s
<1>6. ASSUME ForEachNext PROVE TypeOK' /\ LoopInv'
  <2> DEFINE s == Items(link)[list]
  <2>1. Looping /\ it # list /\ link' = link /\ list' = list /\ kept' = kept /\ StopAt(tmp)
    BY <1>6 DEF ForEachNext
  <2>2. list \in Lists /\ Remains(kept, s) /\ Sees(list, s, kept, visited, tmp)
    BY <2>1 DEF IInv, LoopInv
  <2>3. kept \in Seq(Elems) /\ visited \in Seq(Elems)
    BY DEF IInv, TypeOK
  <2> QED BY <1>0, <2>1, <2>2, <2>3, StopStep
<1>7. ASSUME ForEachEnd PROVE TypeOK' /\ LoopInv'
  BY <1>7 DEF ForEachEnd, IInv, TypeOK, LoopInv, Looping
<1>8. ASSUME UNCHANGED vars PROVE TypeOK' /\ LoopInv'
  <2>1. Items(link)' = Items(link)
    BY <1>8 DEF vars, Items, Walk, Steps
  <2> QED BY <1>8, <2>1 DEF vars, IInv, TypeOK, LoopInv, Looping
<1>9. TypeOK' /\ LoopInv'
  BY <1>1, <1>2, <1>3, <1>4, <1>5, <1>6, <1>7, <1>8 DEF Next
<1> QED BY <1>0, <1>9 DEF IInv

-----------------------------------------------------------------------------
(* The theorems.                                                           *)

\* The inductive invariant holds in every reachable state.
LEMMA Invariance == Spec => []IInv
<1>1. Init => IInv
  BY InitLinked, ScListAssumption
     DEF Init, IInv, TypeOK, LoopInv, Looping, Linked, Ring
<1>2. IInv /\ [Next]_vars => IInv'
  BY IInvStep, ScListAssumption
<1> QED BY <1>1, <1>2, PTL DEF Spec

\* The state has its types.
THEOREM TypeCorrect == Spec => []TypeOK
<1>1. IInv => TypeOK
  BY DEF IInv
<1> QED BY <1>1, Invariance, PTL

\* next and prev are inverses of each other in every reachable state.
THEOREM RingInvariant == Spec => []RingInv
<1>1. IInv => RingInv
  BY DEF IInv, Linked, Ring, RingInv
<1> QED BY <1>1, Invariance, PTL

\* An element is a ring of its own or in exactly one list.
THEOREM NoLostRing == Spec => []OneRing
<1>1. IInv => OneRing
  BY LinkedOneRing, ScListAssumption DEF IInv
<1> QED BY <1>1, Invariance, PTL

\* sc_list_clear would detach every element of its list and disturb no other
\* one, in every reachable state.
THEOREM ClearsItsList == Spec => []ClearEmpties
<1>1. IInv => ClearEmpties
  BY LinkedClear, ScListAssumption DEF IInv
<1> QED BY <1>1, Invariance, PTL

\* Whatever its body does short of unlinking the saved element, a loop of
\* sc_list_foreach_safe visits the elements that stay, in order and once.
THEOREM LoopSeesAll == Spec => []LoopVisitsKept
<1>1. IInv => LoopVisitsKept
  <2> SUFFICES ASSUME IInv, Looping
               PROVE  /\ tmp = list \/ Contains(Walk(link, list), tmp)
                      /\ IsPrefix(visited, kept)
                      /\ it = list => visited = kept
    BY DEF LoopVisitsKept
  <2>1. list \in Lists /\ Items(link)[list] = Walk(link, list)
    BY DEF IInv, LoopInv, Items
  <2>2. Walk(link, list) \in Seq(Elems)
    BY <2>1 DEF IInv, Linked, Holds
  <2>3. tmp = list \/ Contains(Walk(link, list), tmp)
    BY <2>1, <2>2 DEF IInv, LoopInv, Sees, ToSet, Contains
  <2>4. visited \in Seq(Elems) /\ kept \in Seq(Elems)
    BY DEF IInv, TypeOK
  <2>5. it = list => visited = kept
    BY DEF IInv, LoopInv
  <2>6. Begins(visited, kept)
    <3>1. Begins(kept, kept)
      BY <2>4 DEF Begins
    <3> QED BY <2>5, <3>1 DEF IInv, LoopInv, Sees
  <2> QED BY <2>3, <2>4, <2>5, <2>6, BeginsIsPrefix
<1> QED BY <1>1, Invariance, PTL

\* The pointers implement lists that are sequences: every operation does to
\* the sequences what its name says, and the steps of a loop nothing.
THEOREM Refinement == Spec => ImplementsListSpec
<1>1. Init => Abstract!Init
  BY InitLinked, ScListAssumption DEF Abstract!Init, Items
<1>2. IInv /\ [Next]_vars => [Abstract!Next]_(Items(link))
  <2> SUFFICES ASSUME IInv, [Next]_vars PROVE Abstract!Next \/ Items(link)' = Items(link)
    OBVIOUS
  <2>1. Abstract!Next \/ link' = link
    BY StepLinked, ScListAssumption DEF IInv
  <2>2. link' = link => Items(link)' = Items(link)
    BY DEF Items, Walk, Steps
  <2> QED BY <2>1, <2>2
<1>3. IInv /\ [Next]_vars => [Abstract!Next]_([l \in Lists |-> Walk(link, l)])
  BY <1>2 DEF Items
<1> QED BY <1>1, <1>3, Invariance, PTL DEF Spec, ImplementsListSpec, Abstract!Spec

=============================================================================
