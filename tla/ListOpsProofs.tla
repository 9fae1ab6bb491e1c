--------------------------- MODULE ListOpsProofs ---------------------------
(***************************************************************************)
(* What the list operations of ListOps return, for lists of any length:    *)
(* the facts the proofs about the event queues rest on.                    *)
(***************************************************************************)
EXTENDS ListOps, SequenceTheorems, TLAPS

\* In a list without repetition an element has one position.
LEMMA PositionFacts ==
    ASSUME NEW S, NEW s \in Seq(S), NoRepeat(s), NEW e \in ToSet(s)
    PROVE  /\ Position(s, e) \in 1 .. Len(s)
           /\ s[Position(s, e)] = e
           /\ \A i \in 1 .. Len(s) : s[i] = e => i = Position(s, e)
<1>1. \E i \in DOMAIN s : s[i] = e
  BY DEF ToSet
<1>2. Position(s, e) \in DOMAIN s /\ s[Position(s, e)] = e
  BY <1>1 DEF Position
<1> QED BY <1>2 DEF NoRepeat

\* The element after another one is the list head or stands one further on.
LEMMA AfterFacts ==
    ASSUME NEW S, NEW s \in Seq(S), NoRepeat(s), NEW e \in ToSet(s)
    PROVE  \/ After(s, e) = Sentinel
           \/ /\ After(s, e) \in ToSet(s)
              /\ Position(s, After(s, e)) = Position(s, e) + 1
<1> DEFINE p == Position(s, e)
<1>1. p \in 1 .. Len(s)
  BY PositionFacts
<1>2. CASE p = Len(s)
  BY <1>2 DEF After
<1>3. CASE p # Len(s)
  <2>1. After(s, e) = s[p + 1] /\ p + 1 \in 1 .. Len(s)
    BY <1>1, <1>3 DEF After
  <2>2. After(s, e) \in ToSet(s)
    BY <2>1 DEF ToSet
  <2>3. Position(s, After(s, e)) = p + 1
    <3> HIDE DEF p
    <3> DEFINE a == After(s, e)
    <3>1. a \in ToSet(s) /\ s[p + 1] = a
      BY <2>1, <2>2
    <3> HIDE DEF a
    <3>2. p + 1 = Position(s, a)
      BY <3>1, <2>1, PositionFacts
    <3> QED BY <3>2 DEF a
  <2> QED BY <2>2, <2>3
<1> QED BY <1>2, <1>3

\* sc_list_add_tail of an element that is not in the list.
LEMMA AppendFacts ==
    ASSUME NEW S, NEW s \in Seq(S), NoRepeat(s), NEW e \in S, e \notin ToSet(s)
    PROVE  /\ Append(s, e) \in Seq(S)
           /\ NoRepeat(Append(s, e))
           /\ ToSet(Append(s, e)) = ToSet(s) \cup {e}
           /\ \A x \in ToSet(s) : Position(Append(s, e), x) = Position(s, x)
<1> DEFINE t == Append(s, e)
<1>1. /\ t \in Seq(S)
      /\ Len(t) = Len(s) + 1
      /\ \A i \in 1 .. Len(s) : t[i] = s[i]
      /\ t[Len(s) + 1] = e
  OBVIOUS
<1> HIDE DEF t
<1>2. \A i \in 1 .. Len(s) : s[i] # e
  BY DEF ToSet
<1>3. NoRepeat(t)
  BY <1>1, <1>2 DEF NoRepeat
<1>4. ToSet(t) = ToSet(s) \cup {e}
  <2>1. ASSUME NEW x \in ToSet(t) PROVE x \in ToSet(s) \cup {e}
    BY <1>1, <2>1 DEF ToSet
  <2>2. ASSUME NEW x \in ToSet(s) PROVE x \in ToSet(t)
    <3>1. PICK i \in 1 .. Len(s) : s[i] = x
      BY <2>2 DEF ToSet
    <3>2. i \in DOMAIN t /\ t[i] = x
      BY <1>1, <3>1
    <3> QED BY <3>2 DEF ToSet
  <2>3. e \in ToSet(t)
    <3>1. Len(s) + 1 \in DOMAIN t
      BY <1>1
    <3> QED BY <1>1, <3>1 DEF ToSet
  <2> QED BY <2>1, <2>2, <2>3
<1>5. ASSUME NEW x \in ToSet(s) PROVE Position(t, x) = Position(s, x)
  <2>1. Position(s, x) \in 1 .. Len(s) /\ s[Position(s, x)] = x
    BY <1>5, PositionFacts
  <2>2. Position(s, x) \in 1 .. Len(t) /\ t[Position(s, x)] = x
    BY <1>1, <2>1
  <2>3. x \in ToSet(t)
    BY <1>4, <1>5
  <2> QED BY <1>1, <1>3, <2>2, <2>3, PositionFacts
<1> QED BY <1>1, <1>3, <1>4, <1>5 DEF t

\* It stands behind all others.
LEMMA AppendPosition ==
    ASSUME NEW S, NEW s \in Seq(S), NoRepeat(s), NEW e \in S, e \notin ToSet(s)
    PROVE  /\ Position(Append(s, e), e) = Len(s) + 1
           /\ \A x \in ToSet(s) : Position(Append(s, e), x) <= Len(s)
<1> DEFINE t == Append(s, e)
<1>1. t \in Seq(S) /\ Len(s) + 1 \in 1 .. Len(t) /\ t[Len(s) + 1] = e
  OBVIOUS
<1>2. NoRepeat(t) /\ e \in ToSet(t)
  BY AppendFacts
<1>3. Position(t, e) = Len(s) + 1
  <2> HIDE DEF t
  <2> QED BY <1>1, <1>2, PositionFacts
<1>4. ASSUME NEW x \in ToSet(s) PROVE Position(t, x) <= Len(s)
  <2>1. Position(t, x) = Position(s, x)
    BY <1>4, AppendFacts
  <2> QED BY <1>4, <2>1, PositionFacts
<1> QED BY <1>3, <1>4

\* sc_list_del, place by place.
LEMMA UnlinkElements ==
    ASSUME NEW S, NEW s \in Seq(S), NoRepeat(s), NEW e \in ToSet(s)
    PROVE  /\ Unlink(s, e) \in Seq(S)
           /\ Len(Unlink(s, e)) = Len(s) - 1
           /\ \A i \in 1 .. Len(Unlink(s, e)) :
                 Unlink(s, e)[i] = IF i < Position(s, e) THEN s[i] ELSE s[i + 1]
<1> DEFINE p == Position(s, e)
           t == Unlink(s, e)
<1>1. p \in 1 .. Len(s)
  BY PositionFacts
<1>2. t = SubSeq(s, 1, p - 1) \o SubSeq(s, p + 1, Len(s))
  BY DEF Unlink, RemoveAt
<1> HIDE DEF p, t
<1>3. /\ t \in Seq(S)
      /\ Len(t) = Len(s) - 1
      /\ \A i \in 1 .. Len(t) : t[i] = IF i < p THEN s[i] ELSE s[i + 1]
  <2> DEFINE a == SubSeq(s, 1, p - 1)
             b == SubSeq(s, p + 1, Len(s))
  <2>0. Len(s) \in Nat /\ p \in Nat /\ 1 <= p /\ p <= Len(s)
    BY <1>1
  <2>1. a \in Seq(S) /\ Len(a) = p - 1 /\ \A i \in 1 .. p - 1 : a[i] = s[i]
    BY <2>0
  <2>2. /\ b \in Seq(S)
        /\ Len(b) = Len(s) - p
        /\ \A i \in 1 .. Len(s) - p : b[i] = s[p + i]
    BY <2>0
  <2> HIDE DEF a, b
  <2>3. /\ a \o b \in Seq(S)
        /\ Len(a \o b) = Len(s) - 1
        /\ \A i \in 1 .. Len(s) - 1 :
              (a \o b)[i] = IF i <= p - 1 THEN a[i] ELSE b[i - (p - 1)]
    <3>1. a \o b \in Seq(S)
      BY <2>1, <2>2
    <3>2. Len(a \o b) = Len(a) + Len(b)
      BY <2>1, <2>2
    <3>3. \A i \in 1 .. Len(a) + Len(b) :
             (a \o b)[i] = IF i <= Len(a) THEN a[i] ELSE b[i - Len(a)]
      BY <2>1, <2>2, ConcatProperties
    <3>4. Len(a) + Len(b) = Len(s) - 1
      BY <2>0, <2>1, <2>2
    <3> QED BY <2>1, <3>1, <3>2, <3>3, <3>4
  <2>4. t = a \o b
    BY <1>2 DEF a, b
  <2>5. ASSUME NEW i \in 1 .. Len(s) - 1
        PROVE  t[i] = IF i < p THEN s[i] ELSE s[i + 1]
    <3>1. CASE i < p
      BY <2>0, <2>1, <2>3, <2>4, <3>1
    <3>2. CASE ~(i < p)
      <4>1. i - (p - 1) \in 1 .. Len(s) - p /\ p + (i - (p - 1)) = i + 1
        BY <2>0, <3>2
      <4>2. t[i] = b[i - (p - 1)]
        <5>1. t[i] = IF i <= p - 1 THEN a[i] ELSE b[i - (p - 1)]
          BY <2>3, <2>4
        <5>2. ~(i <= p - 1)
          BY <2>0, <3>2
        <5> QED BY <5>1, <5>2
      <4> QED BY <2>2, <3>2, <4>1, <4>2
    <3> QED BY <3>1, <3>2
  <2> QED BY <2>3, <2>4, <2>5
<1> QED BY <1>3 DEF p, t

\* sc_list_del takes out one element and leaves the others as they were.
LEMMA UnlinkFacts ==
    ASSUME NEW S, NEW s \in Seq(S), NoRepeat(s), NEW e \in ToSet(s)
    PROVE  /\ Unlink(s, e) \in Seq(S)
           /\ NoRepeat(Unlink(s, e))
           /\ ToSet(Unlink(s, e)) = ToSet(s) \ {e}
<1> DEFINE p == Position(s, e)
           t == Unlink(s, e)
<1>1. p \in 1 .. Len(s) /\ s[p] = e /\ \A i \in 1 .. Len(s) : s[i] = e => i = p
  BY PositionFacts
<1>3. /\ t \in Seq(S)
      /\ Len(t) = Len(s) - 1
      /\ \A i \in 1 .. Len(t) : t[i] = IF i < p THEN s[i] ELSE s[i + 1]
  BY UnlinkElements
<1> HIDE DEF p, t
<1>4. NoRepeat(t)
  <2> SUFFICES ASSUME NEW i \in 1 .. Len(t), NEW j \in 1 .. Len(t), t[i] = t[j]
               PROVE  i = j
    BY <1>3 DEF NoRepeat
  <2> DEFINE was(k) == IF k < p THEN k ELSE k + 1
  <2>1. /\ was(i) \in DOMAIN s /\ s[was(i)] = t[i]
        /\ was(j) \in DOMAIN s /\ s[was(j)] = t[j]
    BY <1>1, <1>3
  <2>2. was(i) = was(j)
    BY <2>1 DEF NoRepeat
  <2> QED BY <1>1, <2>2
<1>5. ToSet(t) = ToSet(s) \ {e}
  <2>1. ASSUME NEW x \in ToSet(t) PROVE x \in ToSet(s) \ {e}
    <3>1. PICK i \in 1 .. Len(t) : t[i] = x
      BY <1>3 DEF ToSet
    <3>2. CASE i < p
      <4>1. i \in 1 .. Len(s) /\ s[i] = x /\ i # p
        BY <1>1, <1>3, <3>1, <3>2
      <4> QED BY <1>1, <4>1 DEF ToSet
    <3>3. CASE ~(i < p)
      <4>1. i + 1 \in 1 .. Len(s) /\ s[i + 1] = x /\ i + 1 # p
        BY <1>1, <1>3, <3>1, <3>3
      <4> QED BY <1>1, <4>1 DEF ToSet
    <3> QED BY <3>2, <3>3
  <2>2. ASSUME NEW x \in ToSet(s) \ {e} PROVE x \in ToSet(t)
    <3>1. PICK i \in 1 .. Len(s) : s[i] = x
      BY <2>2 DEF ToSet
    <3>2. i # p
      BY <1>1, <2>2, <3>1
    <3>3. CASE i < p
      <4>1. i \in 1 .. Len(t) /\ t[i] = x
        BY <1>1, <1>3, <3>1, <3>3
      <4> QED BY <1>3, <4>1 DEF ToSet
    <3>4. CASE i > p
      <4>1. i - 1 \in 1 .. Len(t) /\ t[i - 1] = x
        BY <1>1, <1>3, <3>1, <3>4
      <4> QED BY <1>3, <4>1 DEF ToSet
    <3> QED BY <1>1, <3>1, <3>2, <3>3, <3>4
  <2> QED BY <2>1, <2>2
<1> QED BY <1>3, <1>4, <1>5 DEF t

\* The first element has position one; the list head comes first in no other
\* list than the empty one.
LEMMA FirstFacts ==
    ASSUME NEW S, Sentinel \notin S, NEW s \in Seq(S), NoRepeat(s)
    PROVE  /\ First(s) = Sentinel <=> s = <<>>
           /\ s # <<>> => First(s) \in ToSet(s) /\ Position(s, First(s)) = 1
<1>1. CASE s = <<>>
  BY <1>1 DEF First
<1>2. CASE s # <<>>
  <2>1. 1 \in 1 .. Len(s) /\ First(s) = s[1]
    BY <1>2 DEF First
  <2>2. s[1] \in ToSet(s) /\ s[1] # Sentinel
    BY <2>1 DEF ToSet
  <2> QED BY <1>2, <2>1, <2>2, PositionFacts
<1> QED BY <1>1, <1>2

\* After the last element comes the list head, and only there.
LEMMA AfterLast ==
    ASSUME NEW S, Sentinel \notin S, NEW s \in Seq(S), NoRepeat(s), NEW e \in ToSet(s)
    PROVE  After(s, e) = Sentinel => Position(s, e) = Len(s)
<1> SUFFICES ASSUME Position(s, e) # Len(s) PROVE After(s, e) # Sentinel
  OBVIOUS
<1>1. Position(s, e) + 1 \in 1 .. Len(s)
  BY PositionFacts
<1> QED BY <1>1 DEF After

\* No two elements have the same position.
LEMMA PositionInjective ==
    ASSUME NEW S, NEW s \in Seq(S), NoRepeat(s), NEW e \in ToSet(s), NEW f \in ToSet(s),
           Position(s, e) = Position(s, f)
    PROVE  e = f
<1>1. s[Position(s, e)] = e /\ s[Position(s, f)] = f
  BY PositionFacts
<1> QED BY <1>1

\* sc_list_del moves up what comes after the element.
LEMMA UnlinkPositions ==
    ASSUME NEW S, NEW s \in Seq(S), NoRepeat(s), NEW e \in ToSet(s),
           NEW x \in ToSet(s) \ {e}
    PROVE  Position(Unlink(s, e), x) = IF Position(s, x) < Position(s, e)
                                       THEN Position(s, x)
                                       ELSE Position(s, x) - 1
<1> DEFINE t == Unlink(s, e)
           p == Position(s, e)
           k == Position(s, x)
           i == IF k < p THEN k ELSE k - 1
<1>1. /\ p \in 1 .. Len(s) /\ s[p] = e
      /\ k \in 1 .. Len(s) /\ s[k] = x
  BY PositionFacts
<1>2. k # p
  BY <1>1
<1>3. t \in Seq(S) /\ NoRepeat(t) /\ x \in ToSet(t)
  BY UnlinkFacts
<1>4. i \in 1 .. Len(t) /\ t[i] = x
  <2>1. /\ Len(t) = Len(s) - 1
        /\ \A j \in 1 .. Len(t) : t[j] = IF j < p THEN s[j] ELSE s[j + 1]
    BY UnlinkElements
  <2> HIDE DEF t, p, k
  <2> QED BY <1>1, <1>2, <2>1
<1> QED BY <1>3, <1>4, PositionFacts

\* Taking the head off a list.
LEMMA TailFacts ==
    ASSUME NEW S, NEW s \in Seq(S), NoRepeat(s), s # <<>>
    PROVE  /\ Head(s) \in ToSet(s)
           /\ Tail(s) \in Seq(S)
           /\ NoRepeat(Tail(s))
           /\ ToSet(Tail(s)) = ToSet(s) \ {Head(s)}
<1>1. /\ Head(s) = s[1] /\ 1 \in DOMAIN s
      /\ Tail(s) \in Seq(S) /\ Len(Tail(s)) = Len(s) - 1
      /\ \A i \in 1 .. Len(s) - 1 : Tail(s)[i] = s[i + 1]
  OBVIOUS
<1>2. Head(s) \in ToSet(s)
  BY <1>1 DEF ToSet
<1>3. NoRepeat(Tail(s))
  BY <1>1 DEF NoRepeat
<1>4. ASSUME NEW x \in ToSet(Tail(s)) PROVE x \in ToSet(s) \ {Head(s)}
  <2>1. PICK i \in 1 .. Len(s) - 1 : Tail(s)[i] = x
    BY <1>1 DEF ToSet
  <2>2. i + 1 \in DOMAIN s /\ s[i + 1] = x /\ i + 1 # 1
    BY <1>1, <2>1
  <2> QED BY <1>1, <2>2 DEF NoRepeat, ToSet
<1>5. ASSUME NEW x \in ToSet(s) \ {Head(s)} PROVE x \in ToSet(Tail(s))
  <2>1. PICK i \in 1 .. Len(s) : s[i] = x
    BY <1>1 DEF ToSet
  <2>2. i - 1 \in DOMAIN Tail(s) /\ Tail(s)[i - 1] = x
    BY <1>1, <1>5, <2>1
  <2> QED BY <2>2 DEF ToSet
<1> QED BY <1>1, <1>2, <1>3, <1>4, <1>5

\* The community modules' RemoveFirst takes out the one there is.
LEMMA RemoveFirstFacts ==
    ASSUME NEW S, NEW s \in Seq(S), NoRepeat(s), NEW e
    PROVE  /\ RemoveFirst(s, e) \in Seq(S)
           /\ NoRepeat(RemoveFirst(s, e))
           /\ ToSet(RemoveFirst(s, e)) = ToSet(s) \ {e}
           /\ e \in ToSet(s) => RemoveFirst(s, e) = Unlink(s, e)
           /\ e \notin ToSet(s) => RemoveFirst(s, e) = s
<1>1. CASE e \in ToSet(s)
  <2>1. \E i \in 1 .. Len(s) : s[i] = e
    BY <1>1 DEF ToSet
  <2>2. RemoveFirst(s, e) = RemoveAt(s, SelectInSeq(s, LAMBDA v : v = e))
    BY <2>1 DEF RemoveFirst
  <2>3. SelectInSeq(s, LAMBDA v : v = e) = Position(s, e)
    <3>1. /\ Position(s, e) \in 1 .. Len(s)
          /\ s[Position(s, e)] = e
          /\ \A i \in 1 .. Len(s) : s[i] = e => i = Position(s, e)
      BY <1>1, PositionFacts
    <3>2. SelectInSeq(s, LAMBDA v : v = e) \in {i \in 1 .. Len(s) : s[i] = e}
      BY <3>1 DEF SelectInSeq, Min
    <3> QED BY <3>1, <3>2
  <2>4. RemoveFirst(s, e) = Unlink(s, e)
    BY <2>2, <2>3 DEF Unlink
  <2> QED BY <1>1, <2>4, UnlinkFacts
<1>2. CASE e \notin ToSet(s)
  <2>1. ~\E i \in 1 .. Len(s) : s[i] = e
    BY <1>2 DEF ToSet
  <2>2. RemoveFirst(s, e) = s
    BY <2>1 DEF RemoveFirst
  <2> QED BY <1>2, <2>2
<1> QED BY <1>1, <1>2

\* InsertAt, place by place.
LEMMA InsertElements ==
    ASSUME NEW S, NEW s \in Seq(S), NEW e \in S, NEW k \in 1 .. Len(s) + 1
    PROVE  /\ InsertAt(s, k, e) \in Seq(S)
           /\ Len(InsertAt(s, k, e)) = Len(s) + 1
           /\ \A i \in 1 .. Len(s) + 1 :
                 InsertAt(s, k, e)[i] = IF i < k THEN s[i] ELSE IF i = k THEN e ELSE s[i - 1]
<1> DEFINE a == SubSeq(s, 1, k - 1)
           b == SubSeq(s, k, Len(s))
           c == <<e>>
<1>0. Len(s) \in Nat /\ k \in Nat /\ 1 <= k /\ k <= Len(s) + 1
  OBVIOUS
<1>1. a \in Seq(S) /\ Len(a) = k - 1 /\ \A i \in 1 .. k - 1 : a[i] = s[i]
  BY <1>0
<1>2. /\ b \in Seq(S)
      /\ Len(b) = Len(s) - k + 1
      /\ \A i \in 1 .. Len(s) - k + 1 : b[i] = s[k + i - 1]
  BY <1>0
<1>3. c \in Seq(S) /\ Len(c) = 1 /\ c[1] = e
  OBVIOUS
<1>4. InsertAt(s, k, e) = (a \o c) \o b
  BY DEF InsertAt
<1> HIDE DEF a, b, c
<1>5. /\ a \o c \in Seq(S)
      /\ Len(a \o c) = k
      /\ \A i \in 1 .. k : (a \o c)[i] = IF i <= k - 1 THEN a[i] ELSE c[i - (k - 1)]
  <2>1. /\ Len(a \o c) = Len(a) + Len(c)
        /\ \A i \in 1 .. Len(a) + Len(c) : (a \o c)[i] = IF i <= Len(a) THEN a[i] ELSE c[i - Len(a)]
    BY <1>1, <1>3, ConcatProperties
  <2>2. Len(a) + Len(c) = k
    BY <1>0, <1>1, <1>3
  <2> QED BY <1>1, <1>3, <2>1, <2>2
<1> DEFINE d == a \o c
<1>6. d \in Seq(S) /\ Len(d) = k /\ (\A i \in 1 .. k - 1 : d[i] = s[i]) /\ d[k] = e
  <2>1. \A i \in 1 .. k - 1 : d[i] = s[i]
    BY <1>0, <1>1, <1>5
  <2>2. d[k] = c[1]
    <3>1. k \in 1 .. k /\ ~(k <= k - 1) /\ k - (k - 1) = 1
      BY <1>0
    <3>2. d[k] = IF k <= k - 1 THEN a[k] ELSE c[k - (k - 1)]
      BY <1>5, <3>1
    <3> QED BY <3>1, <3>2
  <2> QED BY <1>3, <1>5, <2>1, <2>2
<1>7. InsertAt(s, k, e) = d \o b
  BY <1>4
<1> HIDE DEF d
<1>8. /\ d \o b \in Seq(S)
      /\ Len(d \o b) = Len(s) + 1
      /\ \A i \in 1 .. Len(s) + 1 : (d \o b)[i] = IF i <= k THEN d[i] ELSE b[i - k]
  <2>1. /\ Len(d \o b) = Len(d) + Len(b)
        /\ \A i \in 1 .. Len(d) + Len(b) : (d \o b)[i] = IF i <= Len(d) THEN d[i] ELSE b[i - Len(d)]
    BY <1>2, <1>6, ConcatProperties
  <2>2. Len(d) + Len(b) = Len(s) + 1
    BY <1>0, <1>2, <1>6
  <2> QED BY <1>2, <1>6, <2>1, <2>2
<1>9. ASSUME NEW i \in 1 .. Len(s) + 1
      PROVE  (d \o b)[i] = IF i < k THEN s[i] ELSE IF i = k THEN e ELSE s[i - 1]
  <2>1. CASE i <= k
    <3>1. (d \o b)[i] = d[i]
      BY <1>8, <2>1
    <3>2. CASE i = k
      BY <1>0, <1>6, <3>1, <3>2
    <3>3. CASE i # k
      <4>1. i \in 1 .. k - 1 /\ i < k
        BY <1>0, <2>1, <3>3
      <4> QED BY <1>6, <3>1, <4>1
    <3> QED BY <3>2, <3>3
  <2>2. CASE i > k
    <3>1. i - k \in 1 .. Len(s) - k + 1 /\ k + (i - k) - 1 = i - 1 /\ ~(i <= k)
      BY <1>0, <2>2
    <3>2. (d \o b)[i] = b[i - k]
      BY <1>8, <3>1
    <3>3. b[i - k] = s[i - 1]
      BY <1>2, <3>1
    <3>4. ~(i < k) /\ i # k
      BY <1>0, <2>2
    <3> QED BY <3>2, <3>3, <3>4
  <2>3. i <= k \/ i > k
    BY <1>0
  <2> QED BY <2>1, <2>2, <2>3
<1> QED BY <1>7, <1>8, <1>9

\* Inserting an element that is not in the list.
LEMMA InsertFacts ==
    ASSUME NEW S, NEW s \in Seq(S), NoRepeat(s), NEW e \in S, e \notin ToSet(s),
           NEW k \in 1 .. Len(s) + 1
    PROVE  /\ NoRepeat(InsertAt(s, k, e))
           /\ ToSet(InsertAt(s, k, e)) = ToSet(s) \cup {e}
<1> DEFINE t == InsertAt(s, k, e)
<1>1. /\ t \in Seq(S) /\ Len(t) = Len(s) + 1
      /\ \A i \in 1 .. Len(s) + 1 : t[i] = IF i < k THEN s[i] ELSE IF i = k THEN e ELSE s[i - 1]
  BY InsertElements
<1> HIDE DEF t
<1>2. \A i \in 1 .. Len(s) : s[i] # e
  BY DEF ToSet
<1>3. \A i \in 1 .. Len(s) + 1 : t[i] = e => i = k
  <2> SUFFICES ASSUME NEW i \in 1 .. Len(s) + 1, i # k PROVE t[i] # e
    OBVIOUS
  <2>1. CASE i < k
    BY <1>1, <1>2, <2>1
  <2>2. CASE i > k
    <3>1. i - 1 \in 1 .. Len(s) /\ t[i] = s[i - 1]
      BY <1>1, <2>2
    <3> QED BY <1>2, <3>1
  <2> QED BY <2>1, <2>2
<1>4. NoRepeat(t)
  <2> SUFFICES ASSUME NEW i \in 1 .. Len(s) + 1, NEW j \in 1 .. Len(s) + 1, t[i] = t[j]
               PROVE  i = j
    BY <1>1 DEF NoRepeat
  <2> DEFINE was(n) == IF n < k THEN n ELSE n - 1
  <2>1. CASE i = k \/ j = k
    <3>1. t[k] = e
      BY <1>1
    <3> QED BY <1>3, <2>1, <3>1
  <2>2. CASE i # k /\ j # k
    <3>1. /\ was(i) \in DOMAIN s /\ s[was(i)] = t[i]
          /\ was(j) \in DOMAIN s /\ s[was(j)] = t[j]
      BY <1>1, <2>2
    <3>2. was(i) = was(j)
      BY <3>1 DEF NoRepeat
    <3> QED BY <2>2, <3>2
  <2> QED BY <2>1, <2>2
<1>5. ASSUME NEW x \in ToSet(t) PROVE x \in ToSet(s) \cup {e}
  <2>1. PICK i \in 1 .. Len(s) + 1 : t[i] = x
    BY <1>1 DEF ToSet
  <2>2. CASE i = k
    BY <1>1, <2>1, <2>2
  <2>3. CASE i < k
    <3>1. i \in DOMAIN s /\ s[i] = x
      BY <1>1, <2>1, <2>3
    <3> QED BY <3>1 DEF ToSet
  <2>4. CASE i > k
    <3>1. i - 1 \in DOMAIN s /\ s[i - 1] = x
      BY <1>1, <2>1, <2>4
    <3> QED BY <3>1 DEF ToSet
  <2> QED BY <2>2, <2>3, <2>4
<1>6. ASSUME NEW x \in ToSet(s) PROVE x \in ToSet(t)
  <2>1. PICK i \in 1 .. Len(s) : s[i] = x
    BY DEF ToSet
  <2>2. CASE i < k
    <3>1. i \in DOMAIN t /\ t[i] = x
      BY <1>1, <2>1, <2>2
    <3> QED BY <3>1 DEF ToSet
  <2>3. CASE ~(i < k)
    <3>1. i + 1 \in DOMAIN t /\ t[i + 1] = x
      BY <1>1, <2>1, <2>3
    <3> QED BY <3>1 DEF ToSet
  <2> QED BY <2>2, <2>3
<1>7. e \in ToSet(t)
  <2>1. k \in DOMAIN t /\ t[k] = e
    BY <1>1
  <2> QED BY <2>1 DEF ToSet
<1> QED BY <1>4, <1>5, <1>6, <1>7 DEF t

\* Adding at either end is inserting there.
LEMMA AppendIsInsert ==
    ASSUME NEW S, NEW s \in Seq(S), NEW e \in S
    PROVE  /\ Append(s, e) = InsertAt(s, Len(s) + 1, e)
           /\ <<e>> \o s = InsertAt(s, 1, e)
<1>1. Append(s, e) = InsertAt(s, Len(s) + 1, e)
  <2> DEFINE t == InsertAt(s, Len(s) + 1, e)
  <2>1. /\ t \in Seq(S) /\ Len(t) = Len(s) + 1
        /\ \A i \in 1 .. Len(s) + 1 :
             t[i] = IF i < Len(s) + 1 THEN s[i] ELSE IF i = Len(s) + 1 THEN e ELSE s[i - 1]
    <3>1. Len(s) + 1 \in 1 .. Len(s) + 1
      OBVIOUS
    <3> QED BY <3>1, InsertElements
  <2> HIDE DEF t
  <2>2. /\ Append(s, e) \in Seq(S) /\ Len(Append(s, e)) = Len(s) + 1
        /\ \A i \in 1 .. Len(s) + 1 : Append(s, e)[i] = t[i]
    BY <2>1
  <2>3. Append(s, e) = t
    BY <2>1, <2>2, SeqEqual
  <2> QED BY <2>3 DEF t
<1>2. <<e>> \o s = InsertAt(s, 1, e)
  <2>1. SubSeq(s, 1, 1 - 1) = <<>> /\ SubSeq(s, 1, Len(s)) = s
    OBVIOUS
  <2>2. InsertAt(s, 1, e) = (<<>> \o <<e>>) \o s
    BY <2>1 DEF InsertAt
  <2>3. <<>> \o <<e>> = <<e>>
    OBVIOUS
  <2> QED BY <2>2, <2>3
<1> QED BY <1>1, <1>2
=============================================================================
