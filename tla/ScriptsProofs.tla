--------------------------- MODULE ScriptsProofs ---------------------------
(***************************************************************************)
(* For any depth of the stack, any modules and any resources: require      *)
(* returns only the exports of scripts that have come to their end, and an *)
(* observer of the hooks knows the scopes that the code is in.             *)
(***************************************************************************)
EXTENDS Scripts, SequenceTheorems, WellFoundedInduction, TLAPS

Kinds == {"module", "emit", "hook", "scope"}

Points == {"init", "destroy", "before", "after", "code", "returned", "threw"}

AnyFrame == [kind : Kinds, of : Nat, at : Points, called : SUBSET {Observer, Other}]

\* What a frame stands on: code, or what the engine or a scope is calling it for.
Seated(i) ==
    LET f == stack[i]
        b == stack[i - 1]
    IN  /\ f.kind = "hook" => i > 1 /\ b.kind = "emit"
        /\ f.kind = "emit" /\ f.at = "before" =>
              i > 1 /\ b.kind = "scope" /\ b.of = f.of /\ b.at = "before"
        /\ f.kind = "emit" /\ f.at = "after" =>
              i > 1 /\ b.kind = "scope" /\ b.of = f.of /\ b.at \in {"returned", "threw"}
        /\ f.kind \in {"module", "scope"} \/ (f.kind = "emit" /\ f.at \in {"init", "destroy"}) =>
              (i > 1 => b.at = "code")

\* How the frames of the stack follow one another.
FramesInv ==
    /\ stack \in Seq(AnyFrame)
    /\ \A i \in DOMAIN stack :
          /\ stack[i].kind \in {"module", "hook"} => stack[i].at = "code"
          /\ stack[i].kind = "scope" => stack[i].at \in {"before", "code", "returned", "threw"}
          /\ stack[i].kind = "emit" => stack[i].at \in Events
          /\ Seated(i)

StackInv ==
    /\ FramesInv
    /\ throwing \in BOOLEAN
    /\ created \in Nat
    \* Only a hook can throw before the function of a scope is called.
    /\ throwing /\ stack # <<>> /\ Top.kind = "scope" /\ Top.at = "before" => skipped

\* The frames of modules, by their places.
Begun == {<<i, stack[i].of>> : i \in {k \in DOMAIN stack : stack[k].kind = "module"}}

\* An instance is being loaded, has come to its end or has thrown, and only one
\* of these.  One that came to its end is kept, or another one instead of it; so
\* that when it is loaded again, it was being loaded, or kept for none.
LoaderInv ==
    /\ LoaderTypeOK
    /\ \A m \in Begun : m[2] \in DOMAIN instances
    /\ \A m, n \in Begun : m[2] = n[2] => m = n
    /\ got \cup thrown \cup Loading = DOMAIN instances
    /\ got \cap (Loading \cup thrown) = {} /\ Loading \cap thrown = {}
    /\ falsy \subseteq DOMAIN instances
    /\ \A name \in Names : modules[name] # 0 =>
          modules[name] \in got /\ instances[modules[name]] = name
    /\ \A i \in got : modules[instances[i]] # 0
    /\ \A i, j \in DOMAIN instances :
          i < j /\ instances[i] = instances[j]
            => \/ i \in inside[j]
               \/ i \in thrown
               \/ \E f \in falsy : instances[f] = instances[i]

\* The places of the scopes that are open.
Opens == {i \in DOMAIN stack : Open(i)}

IInv == StackInv /\ LoaderInv /\ ScopesNest

-----------------------------------------------------------------------------
(* Induction, with the set of the numbers of which something is true.      *)

\* A set of natural numbers has a least member.
LEMMA Least ==
    ASSUME NEW T \in SUBSET Nat, T # {}
    PROVE  \E n \in T : \A m \in T : n <= m
<1> DEFINE R == {p \in Nat \X Nat : p[1] < p[2]}
<1>1. IsWellFoundedOn(R, Nat)
  <2>1. R = OpToRel(<, Nat)
    BY DEF OpToRel
  <2> QED BY <2>1, NatLessThanWellFounded
<1> HIDE DEF R
<1>2. PICK n \in T : \A m \in T : <<m, n>> \notin R
  BY <1>1, WFMin
<1>3. \A m \in T : ~(m < n)
  BY <1>2 DEF R
<1> QED BY <1>3

\* Induction, with a set in the place of a predicate.
LEMMA SetInduction ==
    ASSUME NEW T \in SUBSET Nat, 0 \in T, \A n \in T : n + 1 \in T
    PROVE  T = Nat
<1> SUFFICES ASSUME Nat \ T # {} PROVE FALSE
  OBVIOUS
<1>1. PICK n \in Nat \ T : \A m \in Nat \ T : n <= m
  BY Least
<1>2. n - 1 \in Nat /\ n - 1 \in T
  BY <1>1
<1> QED BY <1>1, <1>2

-----------------------------------------------------------------------------
(* Selected(s, I).                                                         *)

\* Selecting goes on by one element, or leaves one out.
LEMMA SelectedUnfolds ==
    ASSUME NEW S, NEW s \in Seq(S), NEW I
    PROVE  \A n \in 0 .. Len(s) :
              SelectedUpTo(s, I)[n] =
                 IF n = 0 THEN <<>>
                 ELSE IF n \in I THEN Append(SelectedUpTo(s, I)[n - 1], s[n])
                 ELSE SelectedUpTo(s, I)[n - 1]
<1> DEFINE Body(f, i) == IF i = 0 THEN <<>>
                         ELSE IF i \in I THEN Append(f[i - 1], s[i]) ELSE f[i - 1]
           Def(f, n) == f = [i \in 0 .. n |-> Body(f, i)]
           T == {n \in Nat : \E f : Def(f, n)}
<1>1. 0 \in T
  <2>1. Def([i \in 0 .. 0 |-> <<>>], 0)
    OBVIOUS
  <2> QED BY <2>1
<1>2. ASSUME NEW n \in T PROVE n + 1 \in T
  <2>1. PICK f : Def(f, n)
    BY <1>2
  <2> DEFINE g == [i \in 0 .. n + 1 |-> IF i = n + 1 THEN Body(f, i) ELSE f[i]]
             h == [i \in 0 .. n + 1 |-> Body(g, i)]
  <2>2. n \in Nat
    OBVIOUS
  <2>3. ASSUME NEW i \in 0 .. n + 1 PROVE g[i] = h[i]
    <3>1. CASE i = n + 1
      <4>1. i # 0 /\ i - 1 = n /\ n \in 0 .. n + 1 /\ n # n + 1
        BY <2>2, <3>1
      <4>2. g[n] = f[n]
        BY <4>1
      <4> QED BY <3>1, <4>1, <4>2
    <3>2. CASE i # n + 1
      <4>1. i \in 0 .. n /\ g[i] = f[i]
        BY <2>2, <3>2
      <4>2. f[i] = Body(f, i)
        BY <2>1, <4>1
      <4>3. i # 0 => i - 1 \in 0 .. n + 1 /\ i - 1 # n + 1 /\ g[i - 1] = f[i - 1]
        BY <2>2, <4>1
      <4>4. Body(f, i) = Body(g, i)
        BY <4>3
      <4> QED BY <4>1, <4>2, <4>4
    <3> QED BY <3>1, <3>2
  <2>4. g = h
    BY <2>3
  <2>5. Def(g, n + 1)
    BY <2>4
  <2> HIDE DEF g, h, Def
  <2> QED BY <2>2, <2>5
<1>3. Len(s) \in T
  <2>1. T \in SUBSET Nat /\ Len(s) \in Nat
    OBVIOUS
  <2> HIDE DEF T
  <2> QED BY <1>1, <1>2, <2>1, SetInduction
<1>4. \E f : Def(f, Len(s))
  BY <1>3
<1>5. Def(SelectedUpTo(s, I), Len(s))
  BY <1>4 DEF SelectedUpTo
<1>6. ASSUME NEW n \in 0 .. Len(s) PROVE SelectedUpTo(s, I)[n] = Body(SelectedUpTo(s, I), n)
  BY <1>5
<1> QED BY <1>6

\* Nothing is selected from nothing.
LEMMA SelectedNone ==
    ASSUME NEW S, NEW s \in Seq(S), NEW I
    PROVE  SelectedUpTo(s, I)[0] = <<>>
<1>1. 0 \in 0 .. Len(s)
  OBVIOUS
<1> QED BY <1>1, SelectedUnfolds

\* What is selected from a sequence is of the same elements.
LEMMA SelectedType ==
    ASSUME NEW S, NEW s \in Seq(S), NEW I
    PROVE  \A n \in 0 .. Len(s) : SelectedUpTo(s, I)[n] \in Seq(S)
<1> DEFINE T == {n \in Nat : n <= Len(s) => SelectedUpTo(s, I)[n] \in Seq(S)}
<1>1. 0 \in T
  <2>1. SelectedUpTo(s, I)[0] = <<>>
    BY SelectedNone
  <2>2. <<>> \in Seq(S)
    OBVIOUS
  <2> QED BY <2>1, <2>2
<1>2. ASSUME NEW n \in T PROVE n + 1 \in T
  <2>1. CASE n + 1 <= Len(s)
    <3>1. SelectedUpTo(s, I)[n] \in Seq(S) /\ n + 1 \in 0 .. Len(s) /\ n + 1 # 0
      BY <2>1
    <3>2. s[n + 1] \in S /\ n + 1 - 1 = n
      BY <2>1
    <3>3. Append(SelectedUpTo(s, I)[n], s[n + 1]) \in Seq(S)
      BY <3>1, <3>2
    <3>4. SelectedUpTo(s, I)[n + 1] = IF n + 1 \in I THEN Append(SelectedUpTo(s, I)[n], s[n + 1])
                                      ELSE SelectedUpTo(s, I)[n]
      BY <3>1, <3>2, SelectedUnfolds
    <3>5. SelectedUpTo(s, I)[n + 1] \in Seq(S)
      BY <3>1, <3>3, <3>4
    <3> QED BY <3>5
  <2>2. CASE ~(n + 1 <= Len(s))
    BY <2>2
  <2> QED BY <2>1, <2>2
<1>3. T \in SUBSET Nat
  OBVIOUS
<1> HIDE DEF T
<1>4. T = Nat
  BY <1>1, <1>2, <1>3, SetInduction
<1> QED BY <1>4 DEF T

\* It is told by what is selected.
LEMMA SelectedAgree ==
    ASSUME NEW S, NEW s \in Seq(S), NEW t \in Seq(S), NEW I, NEW J,
           NEW m \in Nat, m <= Len(s), m <= Len(t),
           \A i \in 1 .. m : (i \in I <=> i \in J) /\ (i \in I => s[i] = t[i])
    PROVE  SelectedUpTo(s, I)[m] = SelectedUpTo(t, J)[m]
<1> DEFINE T == {n \in Nat : n <= m => SelectedUpTo(s, I)[n] = SelectedUpTo(t, J)[n]}
<1>1. 0 \in T
  BY SelectedNone
<1>2. ASSUME NEW n \in T PROVE n + 1 \in T
  <2>1. CASE n + 1 <= m
    <3>1. /\ SelectedUpTo(s, I)[n] = SelectedUpTo(t, J)[n]
          /\ n + 1 \in 0 .. Len(s) /\ n + 1 \in 0 .. Len(t) /\ n + 1 # 0
          /\ n + 1 \in 1 .. m /\ n + 1 - 1 = n
      BY <2>1
    <3>2. SelectedUpTo(s, I)[n + 1] = IF n + 1 \in I THEN Append(SelectedUpTo(s, I)[n], s[n + 1])
                                      ELSE SelectedUpTo(s, I)[n]
      BY <3>1, SelectedUnfolds
    <3>3. SelectedUpTo(t, J)[n + 1] = IF n + 1 \in J THEN Append(SelectedUpTo(t, J)[n], t[n + 1])
                                      ELSE SelectedUpTo(t, J)[n]
      BY <3>1, SelectedUnfolds
    <3>4. SelectedUpTo(s, I)[n + 1] = SelectedUpTo(t, J)[n + 1]
      BY <3>1, <3>2, <3>3
    <3> QED BY <3>4
  <2>2. CASE ~(n + 1 <= m)
    BY <2>2
  <2> QED BY <2>1, <2>2
<1>3. T \in SUBSET Nat
  OBVIOUS
<1> HIDE DEF T
<1>4. T = Nat
  BY <1>1, <1>2, <1>3, SetInduction
<1> QED BY <1>4 DEF T

\* Behind the last index to select there is nothing to select.
LEMMA SelectedSkips ==
    ASSUME NEW S, NEW s \in Seq(S), NEW I, NEW m \in 0 .. Len(s), \A i \in I : i <= m
    PROVE  Selected(s, I) = SelectedUpTo(s, I)[m]
<1> DEFINE T == {n \in Nat : m + n <= Len(s)
                                => SelectedUpTo(s, I)[m + n] = SelectedUpTo(s, I)[m]}
<1>1. 0 \in T
  OBVIOUS
<1>2. ASSUME NEW n \in T PROVE n + 1 \in T
  <2>1. CASE m + n + 1 <= Len(s)
    <3>1. /\ SelectedUpTo(s, I)[m + n] = SelectedUpTo(s, I)[m]
          /\ m + n + 1 \in 0 .. Len(s) /\ m + n + 1 # 0 /\ m + n + 1 - 1 = m + n
      BY <2>1
    <3>2. m + n + 1 \notin I
      OBVIOUS
    <3>3. SelectedUpTo(s, I)[m + n + 1] = SelectedUpTo(s, I)[m + n]
      BY <3>1, <3>2, SelectedUnfolds
    <3>4. m + n + 1 = m + (n + 1)
      OBVIOUS
    <3> QED BY <3>1, <3>3, <3>4
  <2>2. CASE ~(m + n + 1 <= Len(s))
    BY <2>2
  <2> QED BY <2>1, <2>2
<1>3. T \in SUBSET Nat
  OBVIOUS
<1>4. Len(s) - m \in Nat /\ m + (Len(s) - m) = Len(s)
  OBVIOUS
<1> HIDE DEF T
<1>5. Len(s) - m \in T
  BY <1>1, <1>2, <1>3, <1>4, SetInduction
<1> QED BY <1>4, <1>5 DEF T, Selected

\* It does not matter where the sequences differ otherwise.
LEMMA SelectedSame ==
    ASSUME NEW S, NEW s \in Seq(S), NEW t \in Seq(S), NEW I,
           I \subseteq DOMAIN s, I \subseteq DOMAIN t, \A i \in I : s[i] = t[i]
    PROVE  Selected(s, I) = Selected(t, I)
<1>1. CASE Len(s) <= Len(t)
  <2>1. Selected(t, I) = SelectedUpTo(t, I)[Len(s)]
    BY <1>1, SelectedSkips
  <2>2. SelectedUpTo(s, I)[Len(s)] = SelectedUpTo(t, I)[Len(s)]
    BY <1>1, SelectedAgree
  <2> QED BY <2>1, <2>2 DEF Selected
<1>2. CASE Len(t) <= Len(s)
  <2>1. Selected(s, I) = SelectedUpTo(s, I)[Len(t)]
    BY <1>2, SelectedSkips
  <2>2. SelectedUpTo(s, I)[Len(t)] = SelectedUpTo(t, I)[Len(t)]
    BY <1>2, SelectedAgree
  <2> QED BY <2>1, <2>2 DEF Selected
<1> QED BY <1>1, <1>2

\* One more, after the others.
LEMMA SelectedOneMore ==
    ASSUME NEW S, NEW s \in Seq(S), NEW I, I \subseteq DOMAIN s,
           NEW k \in DOMAIN s, \A i \in I : i < k
    PROVE  Selected(s, I \cup {k}) = Append(Selected(s, I), s[k])
<1> DEFINE J == I \cup {k}
<1>1. k \in 1 .. Len(s) /\ k - 1 \in 0 .. Len(s) /\ \A i \in I : i \in Nat /\ i <= k - 1
  OBVIOUS
<1>2. Selected(s, J) = SelectedUpTo(s, J)[k]
  BY <1>1, SelectedSkips
<1>3. SelectedUpTo(s, J)[k] = Append(SelectedUpTo(s, J)[k - 1], s[k])
  <2>1. k \in J /\ k \in 0 .. Len(s) /\ k # 0
    BY <1>1
  <2> HIDE DEF J
  <2> QED BY <2>1, SelectedUnfolds
<1>4. SelectedUpTo(s, J)[k - 1] = SelectedUpTo(s, I)[k - 1]
  BY <1>1, SelectedAgree
<1>5. Selected(s, I) = SelectedUpTo(s, I)[k - 1]
  BY <1>1, SelectedSkips
<1> QED BY <1>2, <1>3, <1>4, <1>5

\* The places where something else than r is.
Others(s, r) == {i \in DOMAIN s : s[i] # r}

\* To select all but r of what has been selected is to select all but r.
LEMMA SelectedTwice ==
    ASSUME NEW S, NEW s \in Seq(S), NEW I, NEW r
    PROVE  Selected(Selected(s, I), Others(Selected(s, I), r)) = Selected(s, I \cap Others(s, r))
<1> DEFINE J == I \cap Others(s, r)
           u(n) == SelectedUpTo(s, I)[n]
           K(n) == Others(u(n), r)
           T == {n \in Nat : n <= Len(s) => Selected(u(n), K(n)) = SelectedUpTo(s, J)[n]}
<1>1. 0 \in T
  <2>1. u(0) = <<>> /\ SelectedUpTo(s, J)[0] = <<>>
    BY SelectedNone
  <2>2. u(0) \in Seq(S) /\ Len(u(0)) = 0
    BY <2>1
  <2> HIDE DEF u, K
  <2>3. Selected(u(0), K(0)) = <<>>
    BY <2>2, SelectedNone DEF Selected
  <2> QED BY <2>1, <2>3
<1>2. ASSUME NEW n \in T PROVE n + 1 \in T
  <2>1. SUFFICES ASSUME n + 1 <= Len(s)
                 PROVE  Selected(u(n + 1), K(n + 1)) = SelectedUpTo(s, J)[n + 1]
    OBVIOUS
  <2>2. /\ n \in 0 .. Len(s) /\ n + 1 \in 0 .. Len(s) /\ n + 1 # 0 /\ n + 1 - 1 = n
        /\ Selected(u(n), K(n)) = SelectedUpTo(s, J)[n]
        /\ s[n + 1] \in S
    BY <2>1
  <2>3. u(n) \in Seq(S) /\ u(n + 1) \in Seq(S)
    BY <2>2, SelectedType
  <2>4. u(n + 1) = IF n + 1 \in I THEN Append(u(n), s[n + 1]) ELSE u(n)
    BY <2>2, SelectedUnfolds
  <2>5. SelectedUpTo(s, J)[n + 1] = IF n + 1 \in J THEN Append(SelectedUpTo(s, J)[n], s[n + 1])
                                    ELSE SelectedUpTo(s, J)[n]
    BY <2>2, SelectedUnfolds
  <2>6. CASE n + 1 \notin I
    BY <2>2, <2>4, <2>5, <2>6
  <2>7. CASE n + 1 \in I
    <3>1. /\ DOMAIN u(n + 1) = DOMAIN u(n) \cup {Len(u(n)) + 1}
          /\ \A k \in DOMAIN u(n) : u(n + 1)[k] = u(n)[k]
          /\ u(n + 1)[Len(u(n)) + 1] = s[n + 1]
          /\ DOMAIN u(n) = 1 .. Len(u(n)) /\ Len(u(n)) \in Nat
      BY <2>2, <2>3, <2>4, <2>7, AppendProperties
    <3> HIDE DEF u
    <3>2. Selected(u(n + 1), K(n)) = Selected(u(n), K(n))
      BY <2>3, <3>1, SelectedSame DEF Others
    <3>3. CASE s[n + 1] = r
      <4>1. K(n + 1) = K(n)
        BY <3>1, <3>3 DEF Others
      <4> QED BY <2>2, <2>5, <2>7, <3>2, <3>3, <4>1 DEF Others
    <3>4. CASE s[n + 1] # r
      <4>1. K(n + 1) = K(n) \cup {Len(u(n)) + 1}
        BY <3>1, <3>4 DEF Others
      <4> DEFINE v == u(n + 1)
                 I1 == K(n)
                 k == Len(u(n)) + 1
      <4>2. /\ v \in Seq(S) /\ I1 \subseteq DOMAIN v /\ k \in DOMAIN v
            /\ \A i \in I1 : i < k
        BY <2>3, <3>1 DEF Others
      <4> HIDE DEF v, I1, k, K
      <4>3. Selected(v, I1 \cup {k}) = Append(Selected(v, I1), v[k])
        BY <4>2, SelectedOneMore
      <4>4. Selected(u(n + 1), K(n + 1)) = Append(Selected(u(n + 1), K(n)), s[n + 1])
        BY <3>1, <4>1, <4>3 DEF v, I1, k
      <4>5. n + 1 \in J
        BY <2>2, <2>7, <3>4 DEF Others
      <4> HIDE DEF J
      <4> QED BY <2>2, <2>5, <3>2, <4>4, <4>5
    <3> QED BY <3>3, <3>4
  <2> QED BY <2>6, <2>7
<1>3. T \in SUBSET Nat /\ Len(s) \in Nat
  OBVIOUS
<1> HIDE DEF T
<1>4. Len(s) \in T
  BY <1>1, <1>2, <1>3, SetInduction
<1> QED BY <1>3, <1>4 DEF T, Selected

-----------------------------------------------------------------------------
(* What the stack is after a step.                                         *)

Size == Len(stack)

\* One more frame; two more; one less; another one at the top.
Grown(f) ==
    /\ stack' \in Seq(AnyFrame) /\ Len(stack') = Size + 1
    /\ \A i \in 1 .. Size : stack'[i] = stack[i]
    /\ stack'[Size + 1] = f

GrownByTwo(f, g) ==
    /\ stack' \in Seq(AnyFrame) /\ Len(stack') = Size + 2
    /\ \A i \in 1 .. Size : stack'[i] = stack[i]
    /\ stack'[Size + 1] = f /\ stack'[Size + 2] = g

Shrunk ==
    /\ Size > 0
    /\ stack' \in Seq(AnyFrame) /\ Len(stack') = Size - 1
    /\ \A i \in 1 .. Size - 1 : stack'[i] = stack[i]

Changed(f) ==
    /\ Size > 0
    /\ stack' \in Seq(AnyFrame) /\ Len(stack') = Size
    /\ \A i \in 1 .. Size - 1 : stack'[i] = stack[i]
    /\ stack'[Size] = f

ChangedAndGrown(f, g) ==
    /\ Size > 0
    /\ stack' \in Seq(AnyFrame) /\ Len(stack') = Size + 1
    /\ \A i \in 1 .. Size - 1 : stack'[i] = stack[i]
    /\ stack'[Size] = f /\ stack'[Size + 1] = g

\* The fields of a new frame.
LEMMA FrameType ==
    ASSUME NEW kind \in Kinds, NEW of \in Nat, NEW at \in Points
    PROVE  /\ Frame(kind, of, at) \in AnyFrame
           /\ Frame(kind, of, at).kind = kind /\ Frame(kind, of, at).of = of
           /\ Frame(kind, of, at).at = at /\ Frame(kind, of, at).called = {}
  BY DEF Frame, AnyFrame

\* A call is on the stack, or there is no room and it throws.
LEMMA PushOne ==
    ASSUME stack \in Seq(AnyFrame), NEW f \in AnyFrame, Push(<<f>>), throwing = FALSE
    PROVE  \/ throwing' = TRUE /\ stack' = stack
           \/ throwing' = FALSE /\ Grown(f)
<1>1. <<f>> \in Seq(AnyFrame) /\ Len(<<f>>) = 1 /\ <<f>>[1] = f
  OBVIOUS
<1>2. CASE Overflow
  BY <1>2 DEF Overflow
<1>3. CASE stack' = stack \o <<f>> /\ throwing' = throwing
  BY <1>1, <1>3, ConcatProperties DEF Grown, Size
<1> QED BY <1>2, <1>3 DEF Push

\* So are two calls.
LEMMA PushTwo ==
    ASSUME stack \in Seq(AnyFrame), NEW f \in AnyFrame, NEW g \in AnyFrame,
           Push(<<f, g>>), throwing = FALSE
    PROVE  \/ throwing' = TRUE /\ stack' = stack
           \/ throwing' = FALSE /\ GrownByTwo(f, g)
<1>1. <<f, g>> \in Seq(AnyFrame) /\ Len(<<f, g>>) = 2 /\ <<f, g>>[1] = f /\ <<f, g>>[2] = g
  OBVIOUS
<1>2. CASE Overflow
  BY <1>2 DEF Overflow
<1>3. CASE stack' = stack \o <<f, g>> /\ throwing' = throwing
  BY <1>1, <1>3, ConcatProperties DEF GrownByTwo, Size
<1> QED BY <1>2, <1>3 DEF Push

\* A return takes the last frame off.
LEMMA PopShrinks ==
    ASSUME stack \in Seq(AnyFrame), stack # <<>>, Pop
    PROVE  Shrunk
<1>1. Len(stack) \in Nat /\ Len(stack) > 0 /\ Len(stack) - 1 \in 0 .. Len(stack)
  BY EmptySeq
<1> DEFINE n == Len(stack) - 1
           t == SubSeq(stack, 1, n)
<1>2. n \in Nat /\ \A i \in 1 .. n : stack[i] \in AnyFrame
  BY <1>1
<1>3. stack' = t
  BY DEF Pop, Below
<1> HIDE DEF n
<1>4. t \in Seq(AnyFrame) /\ Len(t) = n /\ \A i \in 1 .. n : t[i] = stack[i]
  BY <1>2
<1> QED BY <1>1, <1>3, <1>4 DEF Shrunk, Size, n

\* The running frame, and how a step of it is written.
LEMMA TopChanges ==
    ASSUME stack \in Seq(AnyFrame), stack # <<>>
    PROVE  /\ Top \in AnyFrame /\ Size \in Nat /\ Size > 0 /\ Size \in DOMAIN stack
           /\ \A at \in Points : stack' = [stack EXCEPT ![Len(stack)].at = at]
                 => Changed([Top EXCEPT !.at = at])
           /\ \A h \in {Observer, Other} :
                 stack' = [stack EXCEPT ![Len(stack)].called = @ \cup {h}]
                 => Changed([Top EXCEPT !.called = @ \cup {h}])
<1>1. Len(stack) \in Nat /\ Len(stack) > 0 /\ Len(stack) \in DOMAIN stack /\ Top \in AnyFrame
  BY EmptySeq DEF Top
<1>2. \A x \in AnyFrame : [stack EXCEPT ![Len(stack)] = x] \in Seq(AnyFrame)
  BY <1>1, ExceptSeq
<1>3. ASSUME NEW at \in Points, stack' = [stack EXCEPT ![Len(stack)].at = at]
      PROVE  Changed([Top EXCEPT !.at = at])
  <2>1. [Top EXCEPT !.at = at] \in AnyFrame
    BY <1>1 DEF AnyFrame
  <2> QED BY <1>1, <1>2, <1>3, <2>1 DEF Changed, Size, Top
<1>4. ASSUME NEW h \in {Observer, Other},
             stack' = [stack EXCEPT ![Len(stack)].called = @ \cup {h}]
      PROVE  Changed([Top EXCEPT !.called = @ \cup {h}])
  <2>1. [Top EXCEPT !.called = @ \cup {h}] \in AnyFrame
    BY <1>1 DEF AnyFrame
  <2> QED BY <1>1, <1>2, <1>4, <2>1 DEF Changed, Size, Top
<1> QED BY <1>1, <1>3, <1>4 DEF Size

\* A frame that gets to another point, or has called a hook.
LEMMA TopFields ==
    ASSUME NEW x \in AnyFrame
    PROVE  /\ \A at \in Points :
                 LET y == [x EXCEPT !.at = at]
                 IN  /\ y \in AnyFrame
                     /\ y.kind = x.kind /\ y.of = x.of /\ y.at = at /\ y.called = x.called
           /\ \A h \in {Observer, Other} :
                 LET y == [x EXCEPT !.called = @ \cup {h}]
                 IN  /\ y \in AnyFrame
                     /\ y.kind = x.kind /\ y.of = x.of /\ y.at = x.at
                     /\ y.called = x.called \cup {h}
  BY DEF AnyFrame

\* The same scopes are open.
ScopesStand == Opens' = Opens /\ \A i \in Opens : stack'[i].of = stack[i].of

\* A module, or an emission outside of scopes, may stand on running code.
LEMMA GrownKeeps ==
    ASSUME FramesInv, Code, NEW f \in AnyFrame, Grown(f),
           \/ f.kind = "module" /\ f.at = "code"
           \/ f.kind = "emit" /\ f.at \in {"init", "destroy"},
           destroyed' = destroyed
    PROVE  /\ FramesInv' /\ ScopesStand
           /\ Begun' = IF f.kind = "module" THEN Begun \cup {<<Size + 1, f.of>>} ELSE Begun
<1>1. /\ Size \in Nat /\ DOMAIN stack = 1 .. Size /\ DOMAIN stack' = 1 .. Size + 1
      /\ stack' \in Seq(AnyFrame) /\ Len(stack') = Size + 1
      /\ \A i \in 1 .. Size : stack'[i] = stack[i]
      /\ stack'[Size + 1] = f
  BY DEF FramesInv, Grown, Size
<1>2. Size > 0 => stack[Size].at = "code"
  BY <1>1 DEF Code, Top, Size
<1>3. FramesInv'
  <2>1. ASSUME NEW i \in 1 .. Size + 1
        PROVE  /\ stack'[i].kind \in {"module", "hook"} => stack'[i].at = "code"
               /\ stack'[i].kind = "scope" => stack'[i].at \in {"before", "code", "returned", "threw"}
               /\ stack'[i].kind = "emit" => stack'[i].at \in Events
               /\ Seated(i)'
    <3>1. CASE i = Size + 1
      BY <1>1, <1>2, <3>1 DEF Seated, Events
    <3>2. CASE i # Size + 1
      <4>1. i \in 1 .. Size /\ (i > 1 => i - 1 \in 1 .. Size)
        BY <1>1, <3>2
      <4> QED BY <1>1, <4>1 DEF FramesInv, Seated
    <3> QED BY <3>1, <3>2
  <2> QED BY <1>1, <2>1 DEF FramesInv
<1>4. ScopesStand
  <2> PICK n \in Nat : n = Size
    BY <1>1
  <2>1. ~Open(n + 1)'
    BY <1>1 DEF Open
  <2>2. ASSUME NEW i \in 1 .. Size PROVE Open(i)' <=> Open(i)
    <3>1. CASE i = Size
      BY <1>1, <1>2, <3>1 DEF Open
    <3>2. CASE i # Size
      <4>1. i + 1 \in 1 .. Size /\ i # Size + 1 /\ i < Size /\ i < Size + 1
        BY <1>1, <3>2
      <4> QED BY <1>1, <4>1 DEF Open, Size
    <3> QED BY <3>1, <3>2
  <2>3. ASSUME NEW i PROVE i \in Opens' <=> i \in Opens
    BY <1>1, <2>1, <2>2 DEF Opens
  <2>4. ASSUME NEW i \in Opens PROVE stack'[i].of = stack[i].of
    BY <1>1 DEF Opens
  <2> QED BY <2>3, <2>4 DEF ScopesStand
<1>5. Begun' = IF f.kind = "module" THEN Begun \cup {<<Size + 1, f.of>>} ELSE Begun
  BY <1>1 DEF Begun
<1> QED BY <1>3, <1>4, <1>5

\* So may a scope with the emission of its before.
LEMMA GrownByTwoKeeps ==
    ASSUME FramesInv, Code, NEW f \in AnyFrame, NEW g \in AnyFrame, GrownByTwo(f, g),
           f.kind = "scope", f.at = "before", g.kind = "emit", g.at = "before",
           g.of = f.of, g.called = {},
           destroyed' = destroyed
    PROVE  FramesInv' /\ ScopesStand /\ Begun' = Begun
<1>1. /\ Size \in Nat /\ DOMAIN stack = 1 .. Size /\ DOMAIN stack' = 1 .. Size + 2
      /\ stack' \in Seq(AnyFrame) /\ Len(stack') = Size + 2
      /\ \A i \in 1 .. Size : stack'[i] = stack[i]
      /\ stack'[Size + 1] = f /\ stack'[Size + 2] = g
  BY DEF FramesInv, GrownByTwo, Size
<1>2. Size > 0 => stack[Size].at = "code"
  BY <1>1 DEF Code, Top, Size
<1>3. FramesInv'
  <2>1. ASSUME NEW i \in 1 .. Size + 2
        PROVE  /\ stack'[i].kind \in {"module", "hook"} => stack'[i].at = "code"
               /\ stack'[i].kind = "scope" => stack'[i].at \in {"before", "code", "returned", "threw"}
               /\ stack'[i].kind = "emit" => stack'[i].at \in Events
               /\ Seated(i)'
    <3>1. CASE i = Size + 1
      BY <1>1, <1>2, <3>1 DEF Seated, Events
    <3>2. CASE i = Size + 2
      BY <1>1, <3>2 DEF Seated, Events
    <3>3. CASE i \in 1 .. Size
      <4>1. i > 1 => i - 1 \in 1 .. Size
        BY <1>1, <3>3
      <4> QED BY <1>1, <3>3, <4>1, SMTT(30) DEF FramesInv, Seated
    <3> QED BY <1>1, <3>1, <3>2, <3>3
  <2> QED BY <1>1, <2>1 DEF FramesInv
<1>4. ScopesStand
  <2> PICK n \in Nat : n = Size
    BY <1>1
  <2>1. ~Open(n + 1)' /\ ~Open(n + 2)'
    BY <1>1 DEF Open
  <2>2. ASSUME NEW i \in 1 .. Size PROVE Open(i)' <=> Open(i)
    <3>1. CASE i = Size
      BY <1>1, <1>2, <3>1 DEF Open
    <3>2. CASE i # Size
      <4>1. i + 1 \in 1 .. Size /\ i # Size + 2 /\ i < Size /\ i < Size + 2
        BY <1>1, <3>2
      <4> QED BY <1>1, <4>1 DEF Open, Size
    <3> QED BY <3>1, <3>2
  <2>3. ASSUME NEW i PROVE i \in Opens' <=> i \in Opens
    BY <1>1, <2>1, <2>2 DEF Opens
  <2>4. ASSUME NEW i \in Opens PROVE stack'[i].of = stack[i].of
    BY <1>1 DEF Opens
  <2> QED BY <2>3, <2>4 DEF ScopesStand
<1>5. Begun' = Begun
  BY <1>1 DEF Begun
<1> QED BY <1>3, <1>4, <1>5

\* A frame goes; no open scope does, unless it is the frame.
LEMMA ShrunkKeeps ==
    ASSUME FramesInv, Shrunk
    PROVE  /\ FramesInv'
           /\ Begun' = IF Top.kind = "module" THEN Begun \ {<<Size, Top.of>>} ELSE Begun
           /\ /\ ~Open(Size) /\ destroyed' = destroyed
              /\ Top.kind = "emit" /\ Top.at \in {"before", "after"} => Observer \in Top.called
              => ScopesStand
<1>1. /\ Size \in Nat /\ Size > 0 /\ DOMAIN stack = 1 .. Size /\ DOMAIN stack' = 1 .. Size - 1
      /\ stack' \in Seq(AnyFrame) /\ Len(stack') = Size - 1
      /\ \A i \in 1 .. Size - 1 : stack'[i] = stack[i]
      /\ Top = stack[Size]
  BY DEF FramesInv, Shrunk, Size, Top
<1>2. FramesInv'
  <2>1. ASSUME NEW i \in 1 .. Size - 1
        PROVE  /\ stack'[i].kind \in {"module", "hook"} => stack'[i].at = "code"
               /\ stack'[i].kind = "scope" => stack'[i].at \in {"before", "code", "returned", "threw"}
               /\ stack'[i].kind = "emit" => stack'[i].at \in Events
               /\ Seated(i)'
    <3>1. i \in 1 .. Size /\ (i > 1 => i - 1 \in 1 .. Size - 1)
      BY <1>1
    <3> QED BY <1>1, <3>1 DEF FramesInv, Seated
  <2> QED BY <1>1, <2>1 DEF FramesInv
<1>3. Begun' = IF Top.kind = "module" THEN Begun \ {<<Size, Top.of>>} ELSE Begun
  BY <1>1 DEF Begun
<1>4. ASSUME ~Open(Size), destroyed' = destroyed,
             Top.kind = "emit" /\ Top.at \in {"before", "after"} => Observer \in Top.called
      PROVE  ScopesStand
  <2>1. ASSUME NEW i \in 1 .. Size - 1 PROVE Open(i)' <=> Open(i)
    <3>1. CASE i = Size - 1
      <4>1. i \in 1 .. Size /\ i + 1 = Size /\ i < Size /\ ~(i < Size - 1) /\ Size \in 1 .. Size
        BY <1>1, <3>1
      <4>2. Top \in AnyFrame /\ Seated(Size) /\ (Top.kind = "emit" => Top.at \in Events)
        BY <1>1, <1>4, <4>1 DEF FramesInv
      <4>3. Top.kind \in Kinds
        BY <4>2 DEF AnyFrame
      <4>4. stack[i].kind = "scope" => stack[i].at \in {"before", "code", "returned", "threw"}
        BY <1>1, <1>4, <4>1 DEF FramesInv
      <4>5. CASE stack[i].kind = "scope" /\ stack[i].at = "code"
        BY <1>1, <1>4, <3>1, <4>1, <4>2, <4>3, <4>4, <4>5 DEF Open, Size
      <4>6. CASE stack[i].kind # "scope"
        BY <1>1, <1>4, <4>6 DEF Open
      <4>7. CASE stack[i].kind = "scope" /\ stack[i].at # "code"
        <5>1. Top.kind = "emit" /\ Top.at \in {"before", "after"}
          BY <1>1, <1>4, <3>1, <4>1, <4>2, <4>3, <4>4, <4>7 DEF Seated, Kinds, Events
        <5>2. Observer \in stack[i + 1].called
          BY <1>1, <1>4, <4>1, <5>1
        <5> QED BY <1>1, <1>4, <3>1, <4>1, <4>2, <4>3, <4>4, <4>7, <5>2 DEF Open, Size
      <4> QED BY <4>5, <4>6, <4>7
    <3>2. CASE i # Size - 1
      <4>1. i + 1 \in 1 .. Size - 1 /\ i # Size /\ i < Size /\ i < Size - 1
        BY <1>1, <3>2
      <4> QED BY <1>1, <1>4, <4>1 DEF Open, Size
    <3> QED BY <3>1, <3>2
  <2>2. ASSUME NEW i PROVE i \in Opens' <=> i \in Opens
    BY <1>1, <1>4, <2>1 DEF Opens
  <2>3. ASSUME NEW i \in Opens PROVE stack'[i].of = stack[i].of
    BY <1>1, <1>4, <2>1 DEF Opens
  <2> QED BY <2>2, <2>3 DEF ScopesStand
<1> QED BY <1>2, <1>3, <1>4

\* The function of a scope is called.
LEMMA EnteredKeeps ==
    ASSUME FramesInv, Within("scope", "before"), Changed([Top EXCEPT !.at = "code"]),
           destroyed' = destroyed
    PROVE  FramesInv' /\ ScopesStand /\ Begun' = Begun
<1> DEFINE f == [Top EXCEPT !.at = "code"]
<1>1. /\ Size \in Nat /\ Size > 0 /\ DOMAIN stack = 1 .. Size /\ DOMAIN stack' = 1 .. Size
      /\ stack' \in Seq(AnyFrame) /\ Len(stack') = Size
      /\ \A i \in 1 .. Size - 1 : stack'[i] = stack[i]
      /\ Top = stack[Size] /\ stack'[Size] = f
      /\ Top.kind = "scope" /\ Top.at = "before"
  BY DEF FramesInv, Changed, Size, Top, Within
<1>2. f.kind = "scope" /\ f.of = Top.of /\ f.at = "code"
  <2>1. Top \in AnyFrame
    BY <1>1 DEF FramesInv
  <2> QED BY <1>1, <2>1, TopFields
<1> HIDE DEF f
<1>3. FramesInv'
  <2>1. ASSUME NEW i \in 1 .. Size
        PROVE  /\ stack'[i].kind \in {"module", "hook"} => stack'[i].at = "code"
               /\ stack'[i].kind = "scope" => stack'[i].at \in {"before", "code", "returned", "threw"}
               /\ stack'[i].kind = "emit" => stack'[i].at \in Events
               /\ Seated(i)'
    <3>1. i > 1 => i - 1 \in 1 .. Size - 1
      BY <1>1
    <3>2. CASE i = Size
      BY <1>1, <1>2, <3>1, <3>2 DEF FramesInv, Seated
    <3>3. CASE i # Size
      <4>1. i \in 1 .. Size - 1
        BY <1>1, <3>3
      <4> QED BY <1>1, <3>1, <4>1 DEF FramesInv, Seated
    <3> QED BY <3>2, <3>3
  <2> QED BY <1>1, <2>1 DEF FramesInv
<1>4. ScopesStand
  <2>1. ASSUME NEW i \in 1 .. Size PROVE Open(i)' <=> Open(i)
    <3>1. CASE i = Size
      BY <1>1, <1>2, <3>1 DEF Open, Size
    <3>2. CASE i # Size
      <4>1. i \in 1 .. Size - 1 /\ i + 1 \in 1 .. Size /\ i < Size
        BY <1>1, <3>2
      <4>2. CASE i + 1 = Size
        <5>1. Top.at = "before" /\ Top.kind = "scope" /\ Seated(Size) /\ Size > 1 /\ Size - 1 = i
          BY <1>1, <4>1, <4>2 DEF FramesInv
        <5>2. stack[i].at = "code"
          BY <1>1, <5>1 DEF Seated
        <5> QED BY <1>1, <4>1, <5>2 DEF Open
      <4>3. CASE i + 1 # Size
        <5>1. i + 1 \in 1 .. Size - 1
          BY <1>1, <4>1, <4>3
        <5> QED BY <1>1, <4>1, <5>1 DEF Open, Size
      <4> QED BY <4>2, <4>3
    <3> QED BY <3>1, <3>2
  <2>2. ASSUME NEW i PROVE i \in Opens' <=> i \in Opens
    BY <1>1, <2>1 DEF Opens
  <2>3. ASSUME NEW i \in Opens PROVE stack'[i].of = stack[i].of
    BY <1>1, <1>2 DEF Opens
  <2> QED BY <2>2, <2>3 DEF ScopesStand
<1>5. Begun' = Begun
  <2>1. ASSUME NEW i \in 1 .. Size
        PROVE  stack'[i].kind = stack[i].kind /\ stack'[i].of = stack[i].of
    BY <1>1, <1>2
  <2> QED BY <1>1, <2>1 DEF Begun
<1> QED BY <1>3, <1>4, <1>5

\* A hook other than the observer, or the observer, has been called.
LEMMA CalledKeeps ==
    ASSUME FramesInv, Top.kind = "emit", NEW h \in {Observer, Other},
           Changed([Top EXCEPT !.called = @ \cup {h}]), destroyed' = destroyed
    PROVE  /\ FramesInv' /\ Begun' = Begun
           /\ \A i \in 1 .. Size : stack'[i].of = stack[i].of
           /\ \A i \in 1 .. Size : i # Size - 1 => (Open(i)' <=> Open(i))
           /\ ~Open(Size)
           /\ Size > 1 => /\ stack'[Size - 1] = stack[Size - 1]
                          /\ stack'[Size].called = Top.called \cup {h}
           /\ DOMAIN stack = 1 .. Size /\ DOMAIN stack' = 1 .. Size /\ Len(stack') = Size
<1> DEFINE f == [Top EXCEPT !.called = @ \cup {h}]
<1>1. /\ Size \in Nat /\ Size > 0 /\ DOMAIN stack = 1 .. Size /\ DOMAIN stack' = 1 .. Size
      /\ stack' \in Seq(AnyFrame) /\ Len(stack') = Size
      /\ \A i \in 1 .. Size - 1 : stack'[i] = stack[i]
      /\ Top = stack[Size] /\ stack'[Size] = f
  BY DEF FramesInv, Changed, Size, Top
<1>2. f.kind = Top.kind /\ f.of = Top.of /\ f.at = Top.at /\ f.called = Top.called \cup {h}
  <2>1. Top \in AnyFrame
    BY <1>1 DEF FramesInv
  <2> QED BY <1>1, <2>1, TopFields
<1> HIDE DEF f
<1>3. FramesInv'
  <2>1. ASSUME NEW i \in 1 .. Size
        PROVE  /\ stack'[i].kind \in {"module", "hook"} => stack'[i].at = "code"
               /\ stack'[i].kind = "scope" => stack'[i].at \in {"before", "code", "returned", "threw"}
               /\ stack'[i].kind = "emit" => stack'[i].at \in Events
               /\ Seated(i)'
    <3>1. i > 1 => i - 1 \in 1 .. Size - 1
      BY <1>1
    <3>2. CASE i = Size
      BY <1>1, <1>2, <3>1, <3>2 DEF FramesInv, Seated
    <3>3. CASE i # Size
      <4>1. i \in 1 .. Size - 1
        BY <1>1, <3>3
      <4> QED BY <1>1, <3>1, <4>1 DEF FramesInv, Seated
    <3> QED BY <3>2, <3>3
  <2> QED BY <1>1, <2>1 DEF FramesInv
<1>4. ASSUME NEW i \in 1 .. Size
      PROVE  stack'[i].kind = stack[i].kind /\ stack'[i].of = stack[i].of
  BY <1>1, <1>2
<1>5. Begun' = Begun
  BY <1>1, <1>4 DEF Begun
<1>6. ~Open(Size)
  BY <1>1 DEF Open
<1>7. ASSUME NEW i \in 1 .. Size, i # Size - 1 PROVE Open(i)' <=> Open(i)
  <2>1. CASE i = Size
    BY <1>1, <1>2, <2>1 DEF Open
  <2>2. CASE i # Size
    <3>1. i \in 1 .. Size - 1 /\ i + 1 \in 1 .. Size - 1 /\ i < Size
      BY <1>1, <1>7, <2>2
    <3> QED BY <1>1, <3>1 DEF Open, Size
  <2> QED BY <2>1, <2>2
<1> QED BY <1>1, <1>2, <1>3, <1>4, <1>5, <1>6, <1>7

\* A step of the running frame that calls another.
LEMMA TopChangesAndGrows ==
    ASSUME stack \in Seq(AnyFrame), stack # <<>>, NEW g \in AnyFrame
    PROVE  /\ \A at \in Points : stack' = Append([stack EXCEPT ![Len(stack)].at = at], g)
                 => ChangedAndGrown([Top EXCEPT !.at = at], g)
           /\ \A h \in {Observer, Other} :
                 stack' = Append([stack EXCEPT ![Len(stack)].called = @ \cup {h}], g)
                 => ChangedAndGrown([Top EXCEPT !.called = @ \cup {h}], g)
<1>1. /\ Len(stack) \in Nat /\ Len(stack) > 0 /\ DOMAIN stack = 1 .. Len(stack)
      /\ Top = stack[Len(stack)] /\ Top \in AnyFrame
  BY EmptySeq DEF Top
<1>2. ASSUME NEW x \in AnyFrame, stack' = Append([stack EXCEPT ![Len(stack)] = x], g)
      PROVE  ChangedAndGrown(x, g)
  <2> DEFINE t == [stack EXCEPT ![Len(stack)] = x]
  <2>1. t \in Seq(AnyFrame) /\ Len(t) = Len(stack)
    BY <1>1, ExceptSeq
  <2>2. t[Len(stack)] = x /\ \A i \in 1 .. Len(stack) - 1 : t[i] = stack[i]
    BY <1>1
  <2>3. stack' = Append(t, g)
    BY <1>2
  <2> HIDE DEF t
  <2>4. /\ Append(t, g) \in Seq(AnyFrame) /\ Len(Append(t, g)) = Len(stack) + 1
        /\ \A i \in 1 .. Len(stack) : Append(t, g)[i] = t[i]
        /\ Append(t, g)[Len(stack) + 1] = g
    BY <2>1, AppendProperties
  <2>5. Len(stack) \in 1 .. Len(stack) /\ \A i \in 1 .. Len(stack) - 1 : i \in 1 .. Len(stack)
    BY <1>1
  <2> QED BY <1>1, <2>2, <2>3, <2>4, <2>5 DEF ChangedAndGrown, Size
<1>3. ASSUME NEW at \in Points, stack' = Append([stack EXCEPT ![Len(stack)].at = at], g)
      PROVE  ChangedAndGrown([Top EXCEPT !.at = at], g)
  <2>1. [Top EXCEPT !.at = at] \in AnyFrame
    BY <1>1, TopFields
  <2>2. [stack EXCEPT ![Len(stack)].at = at] = [stack EXCEPT ![Len(stack)] = [Top EXCEPT !.at = at]]
    BY <1>1
  <2> QED BY <1>2, <1>3, <2>1, <2>2
<1>4. ASSUME NEW h \in {Observer, Other},
             stack' = Append([stack EXCEPT ![Len(stack)].called = @ \cup {h}], g)
      PROVE  ChangedAndGrown([Top EXCEPT !.called = @ \cup {h}], g)
  <2>1. [Top EXCEPT !.called = @ \cup {h}] \in AnyFrame
    BY <1>1, TopFields
  <2>2. [stack EXCEPT ![Len(stack)].called = @ \cup {h}]
           = [stack EXCEPT ![Len(stack)] = [Top EXCEPT !.called = @ \cup {h}]]
    BY <1>1
  <2> QED BY <1>2, <1>4, <2>1, <2>2
<1> QED BY <1>3, <1>4

\* A hook has been called, and runs.
LEMMA HookedKeeps ==
    ASSUME FramesInv, Top.kind = "emit", NEW g \in AnyFrame,
           ChangedAndGrown([Top EXCEPT !.called = @ \cup {Other}], g),
           g.kind = "hook", g.at = "code", destroyed' = destroyed
    PROVE  FramesInv' /\ ScopesStand /\ Begun' = Begun
<1> DEFINE f == [Top EXCEPT !.called = @ \cup {Other}]
<1>1. /\ Size \in Nat /\ Size > 0 /\ DOMAIN stack = 1 .. Size /\ DOMAIN stack' = 1 .. Size + 1
      /\ stack' \in Seq(AnyFrame) /\ Len(stack') = Size + 1
      /\ \A i \in 1 .. Size - 1 : stack'[i] = stack[i]
      /\ Top = stack[Size] /\ stack'[Size] = f /\ stack'[Size + 1] = g
  BY DEF FramesInv, ChangedAndGrown, Size, Top
<1>2. f.kind = Top.kind /\ f.of = Top.of /\ f.at = Top.at /\ f.called = Top.called \cup {Other}
  <2>1. Top \in AnyFrame
    BY <1>1 DEF FramesInv
  <2> QED BY <1>1, <2>1, TopFields
<1> HIDE DEF f
<1>3. FramesInv'
  <2>1. ASSUME NEW i \in 1 .. Size + 1
        PROVE  /\ stack'[i].kind \in {"module", "hook"} => stack'[i].at = "code"
               /\ stack'[i].kind = "scope" => stack'[i].at \in {"before", "code", "returned", "threw"}
               /\ stack'[i].kind = "emit" => stack'[i].at \in Events
               /\ Seated(i)'
    <3>1. i > 1 /\ i # Size + 1 => i - 1 \in 1 .. Size - 1
      BY <1>1
    <3>2. CASE i = Size
      BY <1>1, <1>2, <3>1, <3>2 DEF FramesInv, Seated
    <3>3. CASE i = Size + 1
      BY <1>1, <1>2, <3>3 DEF Seated
    <3>4. CASE i \in 1 .. Size - 1
      BY <1>1, <3>1, <3>4 DEF FramesInv, Seated
    <3> QED BY <1>1, <3>2, <3>3, <3>4
  <2> QED BY <1>1, <2>1 DEF FramesInv
<1>4. ASSUME NEW i \in 1 .. Size
      PROVE  stack'[i].kind = stack[i].kind /\ stack'[i].of = stack[i].of
  BY <1>1, <1>2
<1>5. Begun' = Begun
  BY <1>1, <1>4 DEF Begun
<1>6. ScopesStand
  <2> PICK n \in Nat : n = Size
    BY <1>1
  <2>1. ~Open(n + 1)' /\ ~Open(n) /\ ~Open(n)'
    BY <1>1, <1>2 DEF Open
  <2>2. ASSUME NEW i \in 1 .. Size - 1 PROVE Open(i)' <=> Open(i)
    <3>1. i + 1 \in 1 .. Size /\ i < Size /\ i # Size /\ i # Size + 1 /\ i < Size + 1
      BY <1>1
    <3>2. Observer \in stack'[i + 1].called <=> Observer \in stack[i + 1].called
      <4>1. CASE i + 1 = Size
        BY <1>1, <1>2, <4>1, ResourceAssumption
      <4>2. CASE i + 1 # Size
        <5>1. i + 1 \in 1 .. Size - 1
          BY <1>1, <3>1, <4>2
        <5> QED BY <1>1, <5>1
      <4> QED BY <4>1, <4>2
    <3> QED BY <1>1, <3>1, <3>2 DEF Open, Size
  <2>3. ASSUME NEW i PROVE i \in Opens' <=> i \in Opens
    BY <1>1, <2>1, <2>2 DEF Opens
  <2>4. ASSUME NEW i \in Opens PROVE stack'[i].of = stack[i].of
    BY <1>1, <1>4 DEF Opens
  <2> QED BY <2>3, <2>4 DEF ScopesStand
<1> QED BY <1>3, <1>5, <1>6

\* The function of a scope is over, and the hooks are about to be called.
LEMMA LeftKeeps ==
    ASSUME FramesInv, Within("scope", "code"), Top.of \notin destroyed,
           NEW at \in {"returned", "threw"}, NEW g \in AnyFrame,
           ChangedAndGrown([Top EXCEPT !.at = at], g),
           g.kind = "emit", g.of = Top.of, g.at = "after", g.called = {}, destroyed' = destroyed
    PROVE  FramesInv' /\ ScopesStand /\ Begun' = Begun
<1> DEFINE f == [Top EXCEPT !.at = at]
<1>1. /\ Size \in Nat /\ Size > 0 /\ DOMAIN stack = 1 .. Size /\ DOMAIN stack' = 1 .. Size + 1
      /\ stack' \in Seq(AnyFrame) /\ Len(stack') = Size + 1
      /\ \A i \in 1 .. Size - 1 : stack'[i] = stack[i]
      /\ Top = stack[Size] /\ stack'[Size] = f /\ stack'[Size + 1] = g
      /\ Top.kind = "scope" /\ Top.at = "code"
  BY DEF FramesInv, ChangedAndGrown, Size, Top, Within
<1>2. f.kind = "scope" /\ f.of = Top.of /\ f.at = at
  <2>1. Top \in AnyFrame
    BY <1>1 DEF FramesInv
  <2> QED BY <1>1, <2>1, TopFields
<1> HIDE DEF f
<1>3. FramesInv'
  <2>1. ASSUME NEW i \in 1 .. Size + 1
        PROVE  /\ stack'[i].kind \in {"module", "hook"} => stack'[i].at = "code"
               /\ stack'[i].kind = "scope" => stack'[i].at \in {"before", "code", "returned", "threw"}
               /\ stack'[i].kind = "emit" => stack'[i].at \in Events
               /\ Seated(i)'
    <3>1. i > 1 /\ i # Size + 1 => i - 1 \in 1 .. Size - 1
      BY <1>1
    <3>2. CASE i = Size
      BY <1>1, <1>2, <3>1, <3>2 DEF FramesInv, Seated
    <3>3. CASE i = Size + 1
      BY <1>1, <1>2, <3>3 DEF Seated, Events
    <3>4. CASE i \in 1 .. Size - 1
      BY <1>1, <3>1, <3>4 DEF FramesInv, Seated
    <3> QED BY <1>1, <3>2, <3>3, <3>4
  <2> QED BY <1>1, <2>1 DEF FramesInv
<1>4. ASSUME NEW i \in 1 .. Size
      PROVE  stack'[i].kind = stack[i].kind /\ stack'[i].of = stack[i].of
  BY <1>1, <1>2
<1>5. Begun' = Begun
  BY <1>1, <1>4 DEF Begun
<1>6. ScopesStand
  <2> PICK n \in Nat : n = Size
    BY <1>1
  <2>1. ~Open(n + 1)'
    BY <1>1 DEF Open
  <2>2. Open(n)
    BY <1>1 DEF Open
  <2>3. Open(n)'
    BY <1>1, <1>2 DEF Open
  <2>4. ASSUME NEW i \in 1 .. Size - 1 PROVE Open(i)' <=> Open(i)
    <3>1. i + 1 \in 1 .. Size /\ i < Size /\ i # Size /\ i # Size + 1 /\ i < Size + 1
      BY <1>1
    <3>2. CASE i + 1 = Size
      <4>1. Size \in 1 .. Size /\ Size > 1 /\ Size - 1 = i
        BY <1>1, <3>1, <3>2
      <4>2. Seated(Size)
        BY <1>1, <4>1 DEF FramesInv
      <4>3. stack[i].at = "code"
        BY <1>1, <4>1, <4>2 DEF Seated
      <4> QED BY <1>1, <4>3 DEF Open
    <3>3. CASE i + 1 # Size
      <4>1. i + 1 \in 1 .. Size - 1
        BY <1>1, <3>1, <3>3
      <4> QED BY <1>1, <3>1, <4>1 DEF Open, Size
    <3> QED BY <3>2, <3>3
  <2>5. ASSUME NEW i PROVE i \in Opens' <=> i \in Opens
    BY <1>1, <2>1, <2>2, <2>3, <2>4 DEF Opens
  <2>6. ASSUME NEW i \in Opens PROVE stack'[i].of = stack[i].of
    BY <1>1, <1>4 DEF Opens
  <2> QED BY <2>5, <2>6 DEF ScopesStand
<1> QED BY <1>3, <1>5, <1>6

\* The resources of frames.
LEMMA OfType ==
    ASSUME NEW st \in Seq(AnyFrame)
    PROVE  [i \in DOMAIN st |-> st[i].of] \in Seq(Nat)
<1> DEFINE n == Len(st)
           s == [i \in DOMAIN st |-> st[i].of]
<1>1. n \in Nat /\ DOMAIN st = 1 .. n
  OBVIOUS
<1>2. \A i \in 1 .. n : st[i].of \in Nat
  <2>1. \A x \in AnyFrame : x.of \in Nat
    BY DEF AnyFrame
  <2>2. \A i \in 1 .. n : st[i] \in AnyFrame
    OBVIOUS
  <2> QED BY <2>1, <2>2
<1>3. s \in [1 .. n -> Nat]
  BY <1>1, <1>2
<1> HIDE DEF n, s
<1>4. s \in Seq(Nat)
  BY <1>1, <1>3
<1> QED BY <1>4 DEF s

\* The observer still knows them if it learns nothing.
LEMMA StandingNest ==
    ASSUME FramesInv, FramesInv', ScopesStand, ScopesNest, seen' = seen, skipped' = skipped
    PROVE  ScopesNest'
<1> DEFINE s == [i \in DOMAIN stack |-> stack[i].of]
           t == [i \in DOMAIN stack' |-> stack'[i].of]
<1>1. s \in Seq(Nat) /\ t \in Seq(Nat)
  BY OfType DEF FramesInv
<1>2. /\ Opens \subseteq DOMAIN s /\ Opens \subseteq DOMAIN t
      /\ \A i \in Opens : s[i] = t[i]
  BY DEF ScopesStand, Opens
<1> HIDE DEF s, t
<1>3. Selected(s, Opens) = Selected(t, Opens)
  BY <1>1, <1>2, SelectedSame
<1>4. OpenScopes = Selected(s, Opens) /\ OpenScopes' = Selected(t, Opens)
  BY DEF OpenScopes, Opens, ScopesStand, s, t
<1> QED BY <1>3, <1>4 DEF ScopesNest

-----------------------------------------------------------------------------
(* The actions.                                                            *)

\* Only what has been thrown, or caught, changes.
LEMMA StillKeeps ==
    ASSUME StackInv, ScopesNest, Code \/ Top.kind = "emit",
           stack' = stack, throwing' \in BOOLEAN, UNCHANGED <<created, destroyed, seen, skipped>>
    PROVE  StackInv' /\ ScopesNest' /\ Begun' = Begun
<1>1. FramesInv' /\ Begun' = Begun
  BY DEF StackInv, FramesInv, Seated, Begun
<1>2. ScopesStand
  <2>1. Opens' = Opens
    BY DEF Opens, Open
  <2> QED BY <2>1 DEF ScopesStand
<1>3. ScopesNest'
  BY <1>1, <1>2, StandingNest DEF StackInv
<1>4. ~(stack' # <<>> /\ Top'.kind = "scope" /\ Top'.at = "before")
  BY DEF Code, Top
<1> QED BY <1>1, <1>3, <1>4 DEF StackInv

\* A call by running code leaves the open scopes as they are.
LEMMA PushedKeeps ==
    ASSUME StackInv, ScopesNest, Running, NEW f \in AnyFrame, Push(<<f>>),
           \/ f.kind = "module" /\ f.at = "code"
           \/ f.kind = "emit" /\ f.at \in {"init", "destroy"},
           created' \in Nat, UNCHANGED <<destroyed, seen, skipped>>
    PROVE  /\ StackInv' /\ ScopesNest'
           /\ \/ throwing' = TRUE /\ Begun' = Begun
              \/ throwing' = FALSE /\ Begun' = IF f.kind = "module" THEN Begun \cup {<<Size + 1, f.of>>}
                                               ELSE Begun
<1>1. FramesInv /\ stack \in Seq(AnyFrame) /\ throwing = FALSE /\ Code
  BY DEF StackInv, FramesInv, Running
<1>2. CASE throwing' = TRUE /\ stack' = stack
  <2>1. FramesInv' /\ Begun' = Begun
    BY <1>1, <1>2 DEF FramesInv, Seated, Begun
  <2>2. ScopesStand
    <3>1. Opens' = Opens
      BY <1>2 DEF Opens, Open
    <3> QED BY <1>2, <3>1 DEF ScopesStand
  <2>3. ScopesNest'
    BY <1>1, <2>1, <2>2, StandingNest
  <2>4. ~(stack' # <<>> /\ Top'.at = "before")
    BY <1>1, <1>2 DEF Code, Top
  <2> QED BY <1>2, <2>1, <2>3, <2>4 DEF StackInv
<1>3. CASE throwing' = FALSE /\ Grown(f)
  <2>1. /\ FramesInv' /\ ScopesStand
        /\ Begun' = IF f.kind = "module" THEN Begun \cup {<<Size + 1, f.of>>} ELSE Begun
    BY <1>1, <1>3, GrownKeeps
  <2>2. ScopesNest'
    BY <1>1, <2>1, StandingNest
  <2> QED BY <1>3, <2>1, <2>2 DEF StackInv
<1> QED BY <1>1, <1>2, <1>3, PushOne

\* So does the end of a frame that is no open scope.
LEMMA PoppedKeeps ==
    ASSUME StackInv, ScopesNest, stack # <<>>, Pop,
           ~Open(Size),
           Top.kind = "emit" /\ Top.at \in {"before", "after"} => Observer \in Top.called,
           Top.kind = "emit" /\ Top.at = "before" => ~throwing',
           throwing' \in BOOLEAN, UNCHANGED <<created, destroyed, seen, skipped>>
    PROVE  /\ StackInv' /\ ScopesNest'
           /\ Begun' = IF Top.kind = "module" THEN Begun \ {<<Size, Top.of>>} ELSE Begun
<1>1. FramesInv /\ stack \in Seq(AnyFrame) /\ Shrunk
  BY PopShrinks DEF StackInv, FramesInv
<1>2. /\ FramesInv' /\ ScopesStand
      /\ Begun' = IF Top.kind = "module" THEN Begun \ {<<Size, Top.of>>} ELSE Begun
  BY <1>1, ShrunkKeeps
<1>3. ScopesNest'
  BY <1>1, <1>2, StandingNest
<1>4. ASSUME throwing', stack' # <<>>, Top'.kind = "scope", Top'.at = "before"
      PROVE  FALSE
  <2>1. /\ Size \in Nat /\ Size - 1 \in 1 .. Size - 1 /\ Size \in 1 .. Size /\ Size > 1
        /\ DOMAIN stack = 1 .. Size /\ Top = stack[Size]
    BY <1>1, <1>4, EmptySeq DEF Shrunk, Size, Top
  <2>2. Top' = stack[Size - 1]
    BY <1>1, <2>1 DEF Shrunk, Size, Top
  <2>3. /\ Seated(Size) /\ Top \in AnyFrame /\ (Top.kind = "emit" => Top.at \in Events)
    BY <1>1, <2>1 DEF FramesInv
  <2>4. Top.kind \in Kinds
    BY <2>3 DEF AnyFrame
  <2> QED BY <1>4, <2>1, <2>2, <2>3, <2>4 DEF Seated, Kinds, Events
<1> QED BY <1>2, <1>3, <1>4 DEF StackInv

\* Hooks have been left out: nothing is said of what the observer knows.
LEMMA SkippedKeeps ==
    ASSUME StackInv, stack # <<>>, Top.kind # "module", Pop, skipped' = TRUE,
           throwing' \in BOOLEAN, created' = created
    PROVE  StackInv' /\ ScopesNest' /\ Begun' = Begun
<1>1. FramesInv /\ stack \in Seq(AnyFrame) /\ Shrunk
  BY PopShrinks DEF StackInv, FramesInv
<1>2. FramesInv' /\ Begun' = Begun
  BY <1>1, ShrunkKeeps
<1> QED BY <1>2 DEF StackInv, ScopesNest

\* The observer sees a scope open or close: the last one.
LEMMA ObserveKeeps ==
    ASSUME StackInv, ScopesNest, NEW event \in Events, Observe(event), stack' # stack
    PROVE  StackInv' /\ ScopesNest' /\ Begun' = Begun
<1>1. /\ FramesInv /\ stack \in Seq(AnyFrame) /\ stack # <<>>
      /\ Top.kind = "emit" /\ Top.at = event /\ event \in {"before", "after"}
      /\ Observer \notin Top.called /\ ~throwing
  <2>1. Emitting(event) /\ Observer \in ToCall(event)
    BY DEF Observe
  <2>2. event \in {"before", "after"} /\ Observer \notin Top.called
    BY <2>1, ResourceAssumption DEF ToCall
  <2> QED BY <2>1, <2>2 DEF StackInv, FramesInv, Emitting, Within
<1>2. /\ Top \in AnyFrame /\ Size \in Nat /\ Size > 0 /\ Size \in DOMAIN stack
      /\ Changed([Top EXCEPT !.called = @ \cup {Observer}])
  BY <1>1, TopChanges DEF Observe, Overflow
<1>3. destroyed' = destroyed /\ created' = created /\ skipped' = skipped /\ throwing' = throwing
  BY DEF Observe, Overflow
<1>7. seen' = IF skipped \/ Top.of \in destroyed THEN seen
              ELSE IF event = "before" THEN Append(seen, Top.of)
              ELSE IF seen = <<>> THEN seen
              ELSE SubSeq(seen, 1, Len(seen) - 1)
  BY DEF Observe, Overflow
<1>4. /\ FramesInv' /\ Begun' = Begun
      /\ \A i \in 1 .. Size : stack'[i].of = stack[i].of
      /\ \A i \in 1 .. Size : i # Size - 1 => (Open(i)' <=> Open(i))
      /\ ~Open(Size)
      /\ Size > 1 => /\ stack'[Size - 1] = stack[Size - 1]
                     /\ stack'[Size].called = Top.called \cup {Observer}
      /\ DOMAIN stack = 1 .. Size /\ DOMAIN stack' = 1 .. Size /\ Len(stack') = Size
  <2>1. Observer \in {Observer, Other}
    OBVIOUS
  <2> QED BY <1>1, <1>2, <1>3, <2>1, CalledKeeps
<1>5. StackInv'
  BY <1>1, <1>3, <1>4 DEF StackInv
<1>6. ScopesNest'
  <2>1. PICK n \in Nat : n = Size - 1
    BY <1>2
  <2>2. /\ n \in 1 .. Size /\ n + 1 = Size /\ n # Size /\ n < Size
        /\ stack[n].kind = "scope" /\ stack[n].of = Top.of
        /\ stack[n].at \in IF event = "before" THEN {"before"} ELSE {"returned", "threw"}
        /\ stack'[n] = stack[n] /\ Top = stack[n + 1] /\ Len(stack) = Size /\ Len(stack') = Size
        /\ Observer \notin stack[n + 1].called /\ Observer \in stack'[n + 1].called
    <3>1. Seated(Size) /\ Top = stack[Size] /\ Len(stack) = Size
      BY <1>1, <1>2 DEF FramesInv, Top, Size
    <3>2. Size > 1
      BY <1>1, <3>1 DEF Seated
    <3>3. /\ stack[n].kind = "scope" /\ stack[n].of = Top.of
          /\ stack[n].at \in IF event = "before" THEN {"before"} ELSE {"returned", "threw"}
      BY <1>1, <2>1, <3>1 DEF Seated
    <3> QED BY <1>1, <1>2, <1>4, <2>1, <3>1, <3>2, <3>3
  <2> DEFINE s == [i \in DOMAIN stack |-> stack[i].of]
             t == [i \in DOMAIN stack' |-> stack'[i].of]
  <2>3. s \in Seq(Nat) /\ t \in Seq(Nat) /\ s = t /\ s[n] = Top.of
    <3>1. s = t
      BY <1>4
    <3> QED BY <1>1, <1>4, <2>2, <3>1, OfType
  <2>4. /\ \A i : i # n => (i \in Opens' <=> i \in Opens)
        /\ \A i \in Opens : i \in DOMAIN s /\ i <= n
    BY <1>2, <1>4, <2>1, <2>2 DEF Opens
  <2> HIDE DEF s, t
  <2>5. OpenScopes = Selected(s, Opens) /\ OpenScopes' = Selected(s, Opens')
    BY <2>3 DEF OpenScopes, Opens, s, t
  <2>6. n \in DOMAIN s /\ n \in DOMAIN stack /\ n \in DOMAIN stack'
    BY <1>4, <2>2 DEF s
  <2>7. n \in Opens <=> Open(n)
    BY <2>6 DEF Opens
  <2>8. n \in Opens' <=> Open(n)'
    BY <2>6 DEF Opens
  <2>9. CASE skipped
    BY <1>3, <2>9 DEF ScopesNest
  <2>10. CASE ~skipped /\ Top.of \in destroyed
    <3>1. ~Open(n) /\ ~Open(n)'
      BY <1>3, <2>2, <2>10 DEF Open
    <3>2. Opens' = Opens
      BY <2>4, <2>7, <2>8, <3>1
    <3>3. seen' = seen
      BY <1>7, <2>10
    <3> QED BY <1>3, <2>5, <3>2, <3>3 DEF ScopesNest
  <2>11. CASE ~skipped /\ Top.of \notin destroyed /\ event = "before"
    <3>1. ~Open(n)
      BY <2>2, <2>11 DEF Open
    <3>2. Open(n)'
      BY <1>3, <2>2, <2>11 DEF Open
    <3>3. /\ Opens' = Opens \cup {n} /\ Opens \subseteq DOMAIN s
          /\ \A i \in Opens : i < n
      <4>1. Opens' = Opens \cup {n}
        BY <2>4, <2>8, <3>2
      <4>2. \A i \in Opens : i # n /\ i \in Nat
        BY <2>3, <2>4, <2>7, <3>1
      <4> QED BY <2>4, <4>1, <4>2
    <3>4. Selected(s, Opens') = Append(Selected(s, Opens), Top.of)
      BY <2>3, <2>6, <3>3, SelectedOneMore, SMTT(30)
    <3>5. seen' = Append(seen, Top.of)
      BY <1>7, <2>11
    <3> QED BY <1>3, <2>5, <2>11, <3>4, <3>5 DEF ScopesNest
  <2>12. CASE ~skipped /\ Top.of \notin destroyed /\ event = "after"
    <3>1. Open(n)
      BY <2>2, <2>12 DEF Open
    <3>2. ~Open(n)'
      BY <1>3, <2>2, <2>12 DEF Open
    <3>3. /\ Opens = Opens' \cup {n} /\ Opens' \subseteq DOMAIN s
          /\ \A i \in Opens' : i < n
      <4>1. Opens = Opens' \cup {n}
        BY <2>4, <2>7, <3>1
      <4>2. \A i \in Opens' : i # n /\ i \in Opens /\ i \in Nat
        BY <2>3, <2>4, <2>8, <3>2
      <4> QED BY <2>4, <4>1, <4>2
    <3> DEFINE u == Selected(s, Opens')
    <3>4. Selected(s, Opens) = Append(u, Top.of)
      <4> HIDE DEF Opens
      <4> DEFINE I == Opens'
      <4>1. I \subseteq DOMAIN s /\ \A i \in I : i < n
        BY <3>3
      <4> HIDE DEF I
      <4>2. Selected(s, I \cup {n}) = Append(Selected(s, I), s[n])
        BY <2>3, <2>6, <4>1, SelectedOneMore
      <4> QED BY <2>3, <3>3, <4>2 DEF I
    <3>5. u \in Seq(Nat)
      <4>1. Len(s) \in 0 .. Len(s)
        BY <2>3
      <4> QED BY <2>3, <4>1, SelectedType DEF Selected
    <3>6. Top.of \in Nat
      BY <1>2 DEF AnyFrame
    <3>7. seen = Append(u, Top.of)
      BY <2>5, <2>12, <3>4 DEF ScopesNest
    <3> HIDE DEF u
    <3>8. seen # <<>> /\ SubSeq(seen, 1, Len(seen) - 1) = u
      <4>1. /\ Append(u, Top.of) = u \o <<Top.of>> /\ <<Top.of>> \in Seq(Nat)
            /\ Len(Append(u, Top.of)) = Len(u) + 1 /\ Len(u) \in Nat
        BY <3>5, <3>6, AppendIsConcat
      <4>2. SubSeq(u \o <<Top.of>>, 1, Len(u)) = u
        BY <3>5, <4>1
      <4> QED BY <3>5, <3>7, <4>1, <4>2
    <3>9. seen' = u
      <4>1. event # "before"
        BY <2>12
      <4> QED BY <1>7, <2>12, <3>8, <4>1
    <3> QED BY <1>3, <2>5, <3>9 DEF ScopesNest, u
  <2> QED BY <1>1, <2>9, <2>10, <2>11, <2>12
<1> QED BY <1>4, <1>5, <1>6

\* The open scopes of a resource count no longer when its destroy has been emitted.
LEMMA DestroyKeeps ==
    ASSUME StackInv, ScopesNest, DestroyEnds
    PROVE  StackInv' /\ ScopesNest' /\ Begun' = Begun
<1>1. /\ FramesInv /\ stack \in Seq(AnyFrame) /\ stack # <<>>
      /\ Top.kind = "emit" /\ Top.at = "destroy" /\ ~throwing /\ Pop
  BY DEF StackInv, FramesInv, DestroyEnds, Emitted, Emitting, Within
<1>2. Shrunk
  BY <1>1, PopShrinks
<1>3. FramesInv' /\ Begun' = Begun
  BY <1>1, <1>2, ShrunkKeeps
<1>4. /\ throwing' = throwing /\ created' = created /\ skipped' = skipped
      /\ destroyed' = destroyed \cup {Top.of}
      /\ seen' = Selected(seen, {k \in DOMAIN seen : seen[k] # Top.of})
  BY DEF DestroyEnds
<1>5. StackInv'
  BY <1>1, <1>3, <1>4 DEF StackInv
<1>6. /\ Size \in Nat /\ Size > 0 /\ DOMAIN stack = 1 .. Size /\ DOMAIN stack' = 1 .. Size - 1
      /\ Len(stack') = Size - 1 /\ Top = stack[Size] /\ Size \in 1 .. Size
      /\ \A i \in 1 .. Size - 1 : stack'[i] = stack[i]
  BY <1>1, <1>2, EmptySeq DEF Shrunk, Size, Top
<1> DEFINE s == [i \in DOMAIN stack |-> stack[i].of]
           t == [i \in DOMAIN stack' |-> stack'[i].of]
           r == Top.of
<1>7. Opens' = {i \in Opens : s[i] # r}
  <2>1. ASSUME NEW i \in 1 .. Size - 1 PROVE Open(i)' <=> Open(i) /\ stack[i].of # r
    <3>1. CASE i = Size - 1
      <4>1. Seated(Size) /\ Size > 1
        BY <1>1, <1>6, <3>1 DEF FramesInv
      <4>2. stack[i].at = "code"
        BY <1>1, <1>6, <3>1, <4>1 DEF Seated
      <4> QED BY <1>4, <1>6, <4>2 DEF Open
    <3>2. CASE i # Size - 1
      <4>1. i + 1 \in 1 .. Size - 1 /\ i # Size /\ i < Size /\ i < Size - 1
        BY <1>6, <3>2
      <4> QED BY <1>4, <1>6, <4>1 DEF Open, Size
    <3> QED BY <3>1, <3>2
  <2>2. ~Open(Size)
    BY <1>1, <1>6 DEF Open
  <2>3. ASSUME NEW i PROVE i \in Opens' <=> i \in Opens /\ s[i] # r
    BY <1>6, <2>1, <2>2 DEF Opens
  <2> QED BY <2>3
<1>8. r \in Nat
  <2>1. Top \in AnyFrame
    BY <1>1, <1>6
  <2> QED BY <2>1 DEF AnyFrame
<1>9. ScopesNest'
  <2>1. SUFFICES ASSUME ~skipped PROVE seen' = OpenScopes'
    BY <1>4 DEF ScopesNest
  <2>2. s \in Seq(Nat) /\ t \in Seq(Nat)
    BY <1>1, <1>3, OfType DEF FramesInv
  <2>3. Opens' \subseteq DOMAIN s /\ Opens' \subseteq DOMAIN t /\ \A i \in Opens' : s[i] = t[i]
    <3>1. Opens' \subseteq DOMAIN stack'
      BY DEF Opens
    <3> QED BY <1>6, <3>1
  <2>4. seen = Selected(s, Opens)
    BY <2>1 DEF ScopesNest, OpenScopes, Opens
  <2>5. OpenScopes' = Selected(t, Opens')
    BY DEF OpenScopes, Opens
  <2> DEFINE I == Opens
             J == Opens'
  <2> HIDE DEF s, t, r
  <2>6. J = {i \in I : s[i] # r}
    BY <1>7
  <2>7. seen' = Selected(Selected(s, I), {k \in DOMAIN Selected(s, I) : Selected(s, I)[k] # r})
    BY <1>4, <2>4 DEF r
  <2>8. J \subseteq DOMAIN s /\ J \subseteq DOMAIN t /\ \A i \in J : s[i] = t[i]
    BY <2>3
  <2>9. OpenScopes' = Selected(t, J)
    BY <2>5
  <2> HIDE DEF I, J
  <2>10. seen' = Selected(s, J)
    <3>1. seen' = Selected(Selected(s, I), Others(Selected(s, I), r))
      BY <2>7 DEF Others
    <3>2. J = I \cap Others(s, r)
      BY <2>6 DEF Others, I, Opens, s
    <3> QED BY <2>2, <3>1, <3>2, SelectedTwice
  <2>11. Selected(s, J) = Selected(t, J)
    BY <2>2, <2>8, SelectedSame
  <2> QED BY <2>9, <2>10, <2>11
<1> QED BY <1>3, <1>5, <1>9

\* No step of AsyncResource disturbs the scopes or the modules begun.
LEMMA ResourceStep ==
    ASSUME StackInv, ScopesNest, ResourceNext
    PROVE  StackInv' /\ ScopesNest' /\ Begun' = Begun
<1>1. FramesInv /\ stack \in Seq(AnyFrame) /\ throwing \in BOOLEAN /\ created \in Nat
  BY DEF StackInv, FramesInv
<1>2. ASSUME stack # <<>>
      PROVE  /\ Top \in AnyFrame /\ Top.of \in Nat /\ Top = stack[Size] /\ Len(stack) = Size
             /\ Size \in Nat /\ Size > 0 /\ Size \in DOMAIN stack
  <2>1. Top \in AnyFrame /\ Size \in Nat /\ Size > 0 /\ Size \in DOMAIN stack
    BY <1>1, <1>2, TopChanges
  <2>2. Top.of \in Nat
    BY <2>1 DEF AnyFrame
  <2> QED BY <2>1, <2>2 DEF Top, Size
<1>3. ASSUME NEW event \in Events, CallHook(event)
      PROVE  StackInv' /\ ScopesNest' /\ Begun' = Begun
  <2>1. /\ stack # <<>> /\ Top.kind = "emit" /\ ~throwing
        /\ UNCHANGED <<created, destroyed, seen, skipped>>
    BY <1>3 DEF CallHook, Emitting, Within, resources
  <2>2. CASE throwing' = TRUE /\ stack' = stack
    BY <2>1, <2>2, StillKeeps
  <2>3. CASE /\ stack' = Append([stack EXCEPT ![Len(stack)].called = @ \cup {Other}],
                                Frame("hook", Top.of, "code"))
             /\ throwing' = throwing
    <3> DEFINE g == Frame("hook", Top.of, "code")
    <3>1. g \in AnyFrame /\ g.kind = "hook" /\ g.at = "code"
      BY <1>2, <2>1, FrameType DEF Kinds, Points
    <3>2. stack' = Append([stack EXCEPT ![Len(stack)].called = @ \cup {Other}], g)
      BY <2>3
    <3> HIDE DEF g
    <3>3. ChangedAndGrown([Top EXCEPT !.called = @ \cup {Other}], g)
      BY <1>1, <2>1, <3>1, <3>2, TopChangesAndGrows
    <3>4. FramesInv' /\ ScopesStand /\ Begun' = Begun
      BY <1>1, <2>1, <3>1, <3>3, HookedKeeps
    <3>5. ScopesNest'
      BY <1>1, <2>1, <3>4, StandingNest
    <3> QED BY <1>1, <2>1, <2>3, <3>4, <3>5 DEF StackInv
  <2> QED BY <1>3, <2>2, <2>3 DEF CallHook, Overflow
<1>4. ASSUME NEW event \in Events, Observe(event)
      PROVE  StackInv' /\ ScopesNest' /\ Begun' = Begun
  <2>1. CASE Overflow /\ seen' = seen
    <3>1. Top.kind = "emit" /\ throwing' = TRUE /\ stack' = stack
      BY <1>4, <2>1 DEF Observe, Emitting, Within, Overflow
    <3>2. UNCHANGED <<created, destroyed, seen, skipped>>
      BY <1>4, <2>1 DEF Observe
    <3> QED BY <3>1, <3>2, StillKeeps
  <2>2. CASE stack' # stack
    BY <1>4, <2>2, ObserveKeeps
  <2>3. CASE /\ stack' = stack
             /\ stack' = [stack EXCEPT ![Len(stack)].called = @ \cup {Observer}]
    <3>1. stack # <<>> /\ Observer \notin Top.called /\ Top = stack[Size]
      BY <1>2, <1>4, ResourceAssumption DEF Observe, ToCall, Emitting, Within
    <3>2. Changed([Top EXCEPT !.called = @ \cup {Observer}])
      BY <1>1, <2>3, <3>1, TopChanges
    <3> DEFINE f == [Top EXCEPT !.called = @ \cup {Observer}]
    <3>3. f.called = Top.called \cup {Observer}
      BY <1>2, TopFields
    <3>4. Changed(f)
      BY <3>2
    <3> HIDE DEF f
    <3>5. stack'[Size] = f
      BY <3>4 DEF Changed
    <3>6. f = Top
      BY <2>3, <3>1, <3>5
    <3> QED BY <3>1, <3>3, <3>6
  <2> QED BY <1>4, <2>1, <2>2, <2>3 DEF Observe
<1>5. CASE HookReturns
  <2>1. /\ stack # <<>> /\ Top.kind = "hook" /\ Top.at = "code" /\ Pop
        /\ throwing' = throwing /\ UNCHANGED <<created, destroyed, seen, skipped>>
    BY <1>5 DEF HookReturns, Within, resources
  <2>2. ~Open(Size)
    BY <1>2, <2>1 DEF Open
  <2> QED BY <1>1, <2>1, <2>2, PoppedKeeps
<1>6. CASE EmitEnds
  <2>1. PICK event \in {"init", "before", "after"} : Emitted(event)
    BY <1>6 DEF EmitEnds
  <2>2. /\ stack # <<>> /\ Top.kind = "emit" /\ Top.at = event /\ ~throwing /\ Pop
        /\ throwing' = throwing /\ UNCHANGED <<created, destroyed, seen, skipped>>
        /\ event \in {"before", "after"} => Observer \in Top.called
    BY <1>6, <2>1 DEF EmitEnds, Emitted, Emitting, Within, ToCall, resources
  <2>3. ~Open(Size)
    BY <1>2, <2>2 DEF Open
  <2> QED BY <1>1, <2>2, <2>3, PoppedKeeps
<1>7. CASE DestroyEnds
  BY <1>7, DestroyKeeps
<1>8. CASE EmitThrows
  BY <1>1, <1>8, SkippedKeeps DEF EmitThrows
<1>9. CASE New
  <2> DEFINE f == Emission("init", created + 1)
  <2>1. f \in AnyFrame /\ f.kind = "emit" /\ f.at = "init"
    <3>1. created + 1 \in Nat /\ "emit" \in Kinds
      BY <1>1 DEF Kinds, Points
    <3> QED BY <3>1, FrameType DEF Emission, Points
  <2>2. Running /\ Push(<<f>>) /\ created' = created + 1 /\ UNCHANGED <<destroyed, seen, skipped>>
    BY <1>9 DEF New
  <2> HIDE DEF f
  <2>3. created' \in Nat
    BY <1>1, <2>2
  <2> QED BY <1>1, <2>1, <2>2, <2>3, PushedKeeps
<1>10. ASSUME NEW r \in Resource, emitDestroy(r)
       PROVE  StackInv' /\ ScopesNest' /\ Begun' = Begun
  <2> DEFINE f == Emission("destroy", r)
  <2>1. f \in AnyFrame /\ f.kind = "emit" /\ f.at = "destroy"
    <3>1. r \in Nat /\ "emit" \in Kinds
      BY ResourceAssumption DEF Kinds, Resource
    <3> QED BY <3>1, FrameType DEF Emission, Points
  <2>2. Running /\ Push(<<f>>) /\ UNCHANGED <<created, destroyed, seen, skipped>>
    BY <1>10 DEF emitDestroy, resources
  <2> HIDE DEF f
  <2>3. created' \in Nat
    BY <1>1, <2>2
  <2> QED BY <1>1, <2>1, <2>2, <2>3, PushedKeeps
<1>11. ASSUME NEW r \in Resource, runInAsyncScope(r)
       PROVE  StackInv' /\ ScopesNest' /\ Begun' = Begun
  <2> DEFINE f == Frame("scope", r, "before")
             g == Emission("before", r)
  <2>1. /\ f \in AnyFrame /\ f.kind = "scope" /\ f.at = "before" /\ f.of = r
        /\ g \in AnyFrame /\ g.kind = "emit" /\ g.at = "before" /\ g.of = r /\ g.called = {}
    <3>1. r \in Nat /\ "emit" \in Kinds /\ "scope" \in Kinds
      BY ResourceAssumption DEF Kinds, Resource
    <3> QED BY <3>1, FrameType DEF Emission, Points
  <2>2. /\ Code /\ throwing = FALSE /\ Push(<<f, g>>)
        /\ UNCHANGED <<created, destroyed, seen, skipped>>
    BY <1>1, <1>11 DEF runInAsyncScope, Running, resources
  <2> HIDE DEF f, g
  <2>3. CASE throwing' = TRUE /\ stack' = stack
    BY <2>2, <2>3, StillKeeps
  <2>4. CASE throwing' = FALSE /\ GrownByTwo(f, g)
    <3>1. FramesInv' /\ ScopesStand /\ Begun' = Begun
      BY <1>1, <2>1, <2>2, <2>4, GrownByTwoKeeps
    <3>2. ScopesNest'
      BY <1>1, <2>2, <3>1, StandingNest
    <3> QED BY <1>1, <2>2, <2>4, <3>1, <3>2 DEF StackInv
  <2> QED BY <1>1, <2>1, <2>2, <2>3, <2>4, PushTwo
<1>12. ASSUME NEW E \in HookSets, SetHooks(E)
       PROVE  StackInv' /\ ScopesNest' /\ Begun' = Begun
  BY <1>1, <1>12, StillKeeps DEF SetHooks, Running
<1>13. CASE ScopeEnters
  <2>1. /\ stack # <<>> /\ Within("scope", "before") /\ ~throwing
        /\ throwing' = throwing /\ UNCHANGED <<created, destroyed, seen, skipped>>
        /\ stack' = [stack EXCEPT ![Len(stack)].at = "code"]
    BY <1>13 DEF ScopeEnters, Goto, Within, resources
  <2>2. Changed([Top EXCEPT !.at = "code"])
    BY <1>1, <2>1, TopChanges DEF Points
  <2>3. FramesInv' /\ ScopesStand /\ Begun' = Begun
    BY <1>1, <2>1, <2>2, EnteredKeeps
  <2>4. ScopesNest'
    BY <1>1, <2>1, <2>3, StandingNest
  <2> QED BY <1>1, <2>1, <2>3, <2>4 DEF StackInv
<1>14. CASE ScopeRefused
  <2>1. /\ stack # <<>> /\ Top.kind = "scope" /\ Top.at = "before" /\ throwing /\ Pop
        /\ UNCHANGED <<throwing, created, skipped>>
    BY <1>14 DEF ScopeRefused, Within, resources
  <2>2. skipped
    BY <2>1 DEF StackInv
  <2> QED BY <1>1, <2>1, <2>2, SkippedKeeps
<1>15. CASE ScopeLeaves
  <2> DEFINE g == Emission("after", Top.of)
             at == IF throwing THEN "threw" ELSE "returned"
  <2>1. /\ stack # <<>> /\ Within("scope", "code") /\ Top.of \notin destroyed
        /\ stack' = Append([stack EXCEPT ![Len(stack)].at = at], g)
        /\ throwing' = FALSE /\ UNCHANGED <<created, destroyed, seen, skipped>>
    BY <1>15 DEF ScopeLeaves, Leaves, Within, resources
  <2>2. g \in AnyFrame /\ g.kind = "emit" /\ g.at = "after" /\ g.of = Top.of /\ g.called = {}
    BY <1>2, <2>1, FrameType DEF Emission, Kinds, Points
  <2>3. at \in {"returned", "threw"} /\ at \in Points
    BY DEF Points
  <2> HIDE DEF g, at
  <2>4. ChangedAndGrown([Top EXCEPT !.at = at], g)
    BY <1>1, <2>1, <2>2, <2>3, TopChangesAndGrows
  <2>5. FramesInv' /\ ScopesStand /\ Begun' = Begun
    BY <1>1, <2>1, <2>2, <2>3, <2>4, LeftKeeps
  <2>6. ScopesNest'
    BY <1>1, <2>1, <2>5, StandingNest
  <2> QED BY <1>1, <2>1, <2>5, <2>6 DEF StackInv
<1>16. CASE ScopeLeft
  <2>1. /\ stack # <<>> /\ Top.kind = "scope" /\ Pop
        /\ Top.at \in {"returned", "threw"} \/ (Top.at = "code" /\ Top.of \in destroyed)
        /\ throwing' \in BOOLEAN /\ UNCHANGED <<created, destroyed, seen, skipped>>
    BY <1>1, <1>16 DEF ScopeLeft, Leaves, resources
  <2>2. ~Open(Size)
    BY <1>2, <2>1 DEF Open
  <2> QED BY <1>1, <2>1, <2>2, PoppedKeeps
<1>17. CASE ScopeOverflows
  <2>1. /\ stack # <<>> /\ Top.kind = "scope" /\ Pop /\ throwing' = TRUE
        /\ created' = created /\ destroyed' = destroyed
    BY <1>17 DEF ScopeOverflows, Within
  <2>2. CASE Top.of \in destroyed
    <3>1. UNCHANGED <<seen, skipped>>
      BY <1>17, <2>2 DEF ScopeOverflows
    <3>2. ~Open(Size)
      BY <1>2, <2>1, <2>2 DEF Open
    <3> QED BY <2>1, <3>1, <3>2, PoppedKeeps
  <2>3. CASE Top.of \notin destroyed
    BY <1>17, <2>1, <2>3, SkippedKeeps DEF ScopeOverflows
  <2> QED BY <2>2, <2>3
<1> QED BY <1>3, <1>4, <1>5, <1>6, <1>7, <1>8, <1>9, <1>10, <1>11, <1>12, <1>13, <1>14,
           <1>15, <1>16, <1>17 DEF ResourceNext

\* Of the stack, the loader's invariant says only which modules are begun.
BegunLoading == \A k : k \in Loading <=> \E m \in Begun : m[2] = k

\* The modules that the loader calls loading are those begun on the stack.
LEMMA LoadingIsBegun == BegunLoading
<1> DEFINE P == {i \in DOMAIN stack : stack[i].kind = "module"}
<1>1. Loading = {stack[i].of : i \in P} /\ Begun = {<<i, stack[i].of>> : i \in P}
  BY DEF Loading, Begun
<1> HIDE DEF P
<1>2. ASSUME NEW k \in Loading PROVE \E m \in Begun : m[2] = k
  <2>1. PICK i \in P : stack[i].of = k
    BY <1>1
  <2>2. <<i, stack[i].of>> \in Begun /\ <<i, stack[i].of>>[2] = k
    BY <1>1, <2>1
  <2> QED BY <2>2
<1>3. ASSUME NEW m \in Begun PROVE m[2] \in Loading
  <2>1. PICK i \in P : m = <<i, stack[i].of>>
    BY <1>1
  <2>2. m[2] = stack[i].of
    BY <2>1
  <2> QED BY <1>1, <2>2
<1> QED BY <1>2, <1>3 DEF BegunLoading

\* So they are before and after a step.
LEMMA LoadingBegun == BegunLoading /\ BegunLoading'
  BY LoadingIsBegun, PTL

\* The loader does not depend on anything else.
LEMMA LoaderStands ==
    ASSUME LoaderInv, Begun' = Begun,
           UNCHANGED <<modules, instances, falsy, got, thrown, inside>>,
           moduleLoadList' \in SUBSET Names
    PROVE  LoaderInv'
<1>1. Loading' = Loading
  BY LoadingBegun DEF BegunLoading
<1> QED BY <1>1 DEF LoaderInv, LoaderTypeOK

\* A require of a module keeps the invariant.
LEMMA LoadStep ==
    ASSUME StackInv, LoaderInv, ScopesNest, NEW name \in Names, Load(name), UNCHANGED resources
    PROVE  IInv'
<1> DEFINE k == Len(instances) + 1
           f == Frame("module", k, "code")
<1>1. /\ instances \in Seq(Mapped) /\ k \in Nat /\ k <= MaxInstances /\ k \in Instance
      /\ DOMAIN instances = 1 .. k - 1 /\ name \in Mapped /\ Len(instances) = k - 1
      /\ name \in Names /\ ~Kept(name) /\ Running
  BY LoaderAssumption DEF LoaderInv, LoaderTypeOK, Load, Instance
<1>2. f \in AnyFrame /\ f.kind = "module" /\ f.at = "code" /\ f.of = k
  BY <1>1, FrameType DEF Kinds, Points
<1>3. /\ Push(<<f>>) /\ created' \in Nat /\ UNCHANGED <<destroyed, seen, skipped>>
      /\ moduleLoadList' = moduleLoadList \cup {name}
      /\ UNCHANGED <<modules, falsy, got, thrown>>
  BY DEF Load, resources, StackInv
<1>4. IF throwing' THEN UNCHANGED <<instances, inside>>
      ELSE /\ instances' = Append(instances, name)
           /\ inside' = [inside EXCEPT ![k] = Loading]
  BY DEF Load
<1> HIDE DEF f
<1>5. /\ StackInv' /\ ScopesNest'
      /\ \/ throwing' = TRUE /\ Begun' = Begun
         \/ throwing' = FALSE /\ Begun' = Begun \cup {<<Size + 1, k>>}
  BY <1>1, <1>2, <1>3, PushedKeeps
<1>6. CASE throwing' = TRUE /\ Begun' = Begun
  <2>1. LoaderInv'
    BY <1>3, <1>4, <1>6, LoaderStands DEF LoaderInv, LoaderTypeOK
  <2> QED BY <1>5, <2>1 DEF IInv
<1>7. CASE throwing' = FALSE /\ Begun' = Begun \cup {<<Size + 1, k>>}
  <2>1. /\ instances' = Append(instances, name) /\ inside' = [inside EXCEPT ![k] = Loading]
    BY <1>4, <1>7
  <2> HIDE DEF k
  <2>2. Loading' = Loading \cup {k}
    <3>1. \A m : m \in Begun' <=> m \in Begun \/ m = <<Size + 1, k>>
      BY <1>7
    <3>2. \A x : x \in Loading' <=> x \in Loading \/ x = k
      <4>1. ASSUME NEW x PROVE x \in Loading' <=> x \in Loading \/ x = k
        <5>1. (\E m \in Begun' : m[2] = x) <=> (\E m \in Begun : m[2] = x) \/ x = k
          <6>1. <<Size + 1, k>>[2] = k
            OBVIOUS
          <6> QED BY <3>1, <6>1
        <5> QED BY <5>1, LoadingBegun DEF BegunLoading
      <4> QED BY <4>1
    <3> QED BY <3>2
  <2>3. /\ instances' \in Seq(Mapped) /\ Len(instances') = k /\ DOMAIN instances' = 1 .. k
        /\ \A i \in 1 .. k - 1 : instances'[i] = instances[i]
        /\ instances'[k] = name
    <3>1. k - 1 + 1 = k
      BY <1>1
    <3> QED BY <1>1, <2>1, <3>1, AppendProperties
  <2>4. \A i \in 1 .. k - 1 : i \in 1 .. k /\ i # k
    BY <1>1
  <2>5. got \cup thrown \cup Loading = 1 .. k - 1
    BY <1>1 DEF LoaderInv
  <2>6. LoaderTypeOK'
    <3>1. Loading \subseteq Instance
      BY <1>1, <2>5, LoaderAssumption DEF Instance
    <3>2. inside' \in [Instance -> SUBSET Instance]
      BY <1>1, <2>1, <3>1 DEF LoaderInv, LoaderTypeOK
    <3> QED BY <1>1, <1>3, <2>3, <3>2 DEF LoaderInv, LoaderTypeOK
  <2>7. /\ \A m \in Begun' : m[2] \in DOMAIN instances'
        /\ \A m, n \in Begun' : m[2] = n[2] => m = n
    <3>1. /\ \A m \in Begun : m[2] \in 1 .. k - 1
          /\ \A m, n \in Begun : m[2] = n[2] => m = n
      BY <1>1 DEF LoaderInv
    <3> QED BY <1>1, <1>7, <2>3, <2>4, <3>1
  <2>8. /\ got' \cup thrown' \cup Loading' = DOMAIN instances'
        /\ got' \cap (Loading' \cup thrown') = {} /\ Loading' \cap thrown' = {}
    <3>1. got \cap (Loading \cup thrown) = {} /\ Loading \cap thrown = {}
      BY DEF LoaderInv
    <3>2. 1 .. k = (1 .. k - 1) \cup {k}
      BY <1>1
    <3> QED BY <1>3, <2>2, <2>3, <2>4, <2>5, <3>1, <3>2
  <2>9. falsy' \subseteq DOMAIN instances'
    BY <1>1, <1>3, <2>3, <2>4 DEF LoaderInv
  <2>10. /\ \A x \in Names : modules'[x] # 0 =>
              modules'[x] \in got' /\ instances'[modules'[x]] = x
         /\ \A i \in got' : modules'[instances'[i]] # 0
    <3>1. /\ \A x \in Names : modules[x] # 0 =>
               modules[x] \in got /\ instances[modules[x]] = x
          /\ \A i \in got : modules[instances[i]] # 0
      BY DEF LoaderInv
    <3>2. \A i \in got : instances'[i] = instances[i]
      BY <2>3, <2>5
    <3> QED BY <1>3, <3>1, <3>2
  <2>11. ASSUME NEW i \in DOMAIN instances', NEW j \in DOMAIN instances',
                i < j, instances'[i] = instances'[j]
         PROVE  \/ i \in inside'[j]
                \/ i \in thrown'
                \/ \E x \in falsy' : instances'[x] = instances'[i]
    <3>1. i \in 1 .. k - 1 /\ instances'[i] = instances[i]
      BY <1>1, <2>3, <2>11
    <3>2. \A x \in falsy : instances'[x] = instances[x]
      BY <1>1, <2>3 DEF LoaderInv
    <3>3. inside \in [Instance -> SUBSET Instance]
      BY DEF LoaderInv, LoaderTypeOK
    <3>4. CASE j = k
      <4>1. inside'[j] = Loading
        BY <1>1, <2>1, <3>3, <3>4
      <4>2. CASE i \in got
        <5>1. instances[i] = name
          BY <2>3, <2>11, <3>1, <3>4
        <5>2. modules[name] # 0 /\ instances[modules[name]] = name
          BY <1>1, <4>2, <5>1 DEF LoaderInv
        <5>3. modules[name] \in falsy
          BY <1>1, <5>2 DEF Kept
        <5> QED BY <1>3, <3>1, <3>2, <5>1, <5>2, <5>3
      <4> QED BY <1>3, <2>5, <3>1, <4>1, <4>2
    <3>5. CASE j # k
      <4>1. j \in 1 .. k - 1 /\ j \in Instance /\ instances'[j] = instances[j]
        BY <1>1, <2>3, <3>5, LoaderAssumption DEF Instance
      <4>2. inside'[j] = inside[j]
        BY <2>1, <3>3, <3>5, <4>1
      <4>3. \/ i \in inside[j]
            \/ i \in thrown
            \/ \E x \in falsy : instances[x] = instances[i]
        BY <1>1, <2>11, <3>1, <4>1 DEF LoaderInv
      <4> QED BY <1>3, <3>1, <3>2, <4>2, <4>3
    <3> QED BY <3>4, <3>5
  <2>12. LoaderInv'
    BY <2>6, <2>7, <2>8, <2>9, <2>10, <2>11 DEF LoaderInv
  <2> QED BY <1>5, <2>12 DEF IInv
<1> QED BY <1>5, <1>6, <1>7

\* A script has come to its end, or has thrown.
LEMMA EndStep ==
    ASSUME StackInv, LoaderInv, ScopesNest, Loaded \/ LoadThrows, UNCHANGED resources
    PROVE  IInv'
<1> DEFINE k == Top.of
<1>1. /\ stack # <<>> /\ Top.kind = "module" /\ Top.at = "code" /\ Pop
      /\ UNCHANGED <<throwing, created, destroyed, seen, skipped>>
      /\ UNCHANGED <<moduleLoadList, instances, inside>>
  BY DEF Loaded, LoadThrows, Within, resources
<1>2. throwing' \in BOOLEAN /\ stack \in Seq(AnyFrame)
  BY <1>1 DEF StackInv, FramesInv
<1>3. Size \in DOMAIN stack /\ Top = stack[Size]
  BY <1>1, <1>2, TopChanges DEF Top, Size
<1>4. ~Open(Size)
  BY <1>1, <1>3 DEF Open
<1>5. StackInv' /\ ScopesNest' /\ Begun' = Begun \ {<<Size, k>>}
  BY <1>1, <1>2, <1>4, PoppedKeeps
<1>6. <<Size, k>> \in Begun
  BY <1>1, <1>3 DEF Begun
<1> HIDE DEF k
<1>7. /\ \A m \in Begun : m[2] \in DOMAIN instances
      /\ \A m, n \in Begun : m[2] = n[2] => m = n
      /\ got \cup thrown \cup Loading = DOMAIN instances
      /\ got \cap (Loading \cup thrown) = {} /\ Loading \cap thrown = {}
  BY DEF LoaderInv
<1>8. Loading' = Loading \ {k} /\ k \in Loading
  <2>1. \A x : x \in Loading' <=> x \in Loading /\ x # k
    <3>1. ASSUME NEW x, x \in Loading' PROVE x \in Loading /\ x # k
      <4>1. PICK m \in Begun' : m[2] = x
        BY <3>1, LoadingBegun DEF BegunLoading
      <4>2. m \in Begun /\ m # <<Size, k>>
        BY <1>5, <4>1
      <4> QED BY <1>6, <1>7, <4>1, <4>2, LoadingBegun DEF BegunLoading
    <3>2. ASSUME NEW x, x \in Loading, x # k PROVE x \in Loading'
      <4>1. PICK m \in Begun : m[2] = x
        BY <3>2, LoadingBegun DEF BegunLoading
      <4>2. m # <<Size, k>>
        BY <3>2, <4>1
      <4> QED BY <1>5, <4>1, <4>2, LoadingBegun DEF BegunLoading
    <3> QED BY <3>1, <3>2
  <2>2. k \in Loading
    BY <1>6, LoadingBegun DEF BegunLoading
  <2> QED BY <2>1, <2>2
<1>9. /\ \A m \in Begun' : m[2] \in DOMAIN instances'
      /\ \A m, n \in Begun' : m[2] = n[2] => m = n
  BY <1>1, <1>5, <1>7
<1>10. /\ instances \in Seq(Mapped) /\ Mapped \subseteq Names /\ k \in DOMAIN instances
       /\ instances[k] \in Names /\ k \in Instance /\ k # 0
  BY <1>7, <1>8, LoaderAssumption DEF LoaderInv, LoaderTypeOK, Instance
<1>11. CASE Loaded
  <2>1. PICK f \in SUBSET {k} : falsy' = falsy \cup f
    BY <1>11 DEF Loaded, k
  <2>2. /\ modules' = [modules EXCEPT ![instances[k]] = k] /\ got' = got \cup {k}
        /\ thrown' = thrown
    BY <1>11 DEF Loaded, k
  <2>3. LoaderTypeOK'
    BY <1>1, <1>10, <2>1, <2>2 DEF LoaderInv, LoaderTypeOK
  <2>4. /\ got' \cup thrown' \cup Loading' = DOMAIN instances'
        /\ got' \cap (Loading' \cup thrown') = {} /\ Loading' \cap thrown' = {}
    BY <1>1, <1>7, <1>8, <2>2
  <2>5. falsy' \subseteq DOMAIN instances'
    BY <1>1, <1>10, <2>1 DEF LoaderInv
  <2>6. modules \in [Names -> Instance \cup {0}]
    BY DEF LoaderInv, LoaderTypeOK
  <2>7. ASSUME NEW x \in Names, modules'[x] # 0
        PROVE  modules'[x] \in got' /\ instances'[modules'[x]] = x
    <3>1. CASE x = instances[k]
      BY <1>1, <1>10, <2>2, <2>6, <3>1
    <3>2. CASE x # instances[k]
      <4>1. modules'[x] = modules[x]
        BY <2>2, <2>6, <3>2
      <4> QED BY <1>1, <2>2, <2>7, <4>1 DEF LoaderInv
    <3> QED BY <3>1, <3>2
  <2>8. ASSUME NEW i \in got' PROVE modules'[instances'[i]] # 0
    <3>1. instances[i] \in Names /\ (i # k => modules[instances[i]] # 0)
      <4>1. i \in DOMAIN instances
        BY <1>7, <1>10, <2>2
      <4>2. instances[i] \in Mapped
        BY <1>10, <4>1
      <4> QED BY <1>10, <2>2, <4>2 DEF LoaderInv
    <3>2. modules'[instances[i]] = IF instances[i] = instances[k] THEN k ELSE modules[instances[i]]
      BY <2>2, <2>6, <3>1
    <3> QED BY <1>1, <1>10, <3>1, <3>2
  <2>9. \A i, j \in DOMAIN instances' :
           i < j /\ instances'[i] = instances'[j]
             => \/ i \in inside'[j]
                \/ i \in thrown'
                \/ \E x \in falsy' : instances'[x] = instances'[i]
    BY <1>1, <2>1, <2>2 DEF LoaderInv
  <2>10. LoaderInv'
    BY <1>9, <2>3, <2>4, <2>5, <2>7, <2>8, <2>9 DEF LoaderInv
  <2> QED BY <1>5, <2>10 DEF IInv
<1>12. CASE LoadThrows
  <2>1. thrown' = thrown \cup {k} /\ UNCHANGED <<modules, falsy, got>>
    BY <1>12 DEF LoadThrows, k
  <2>2. /\ got' \cup thrown' \cup Loading' = DOMAIN instances'
        /\ got' \cap (Loading' \cup thrown') = {} /\ Loading' \cap thrown' = {}
    BY <1>1, <1>7, <1>8, <2>1
  <2>3. LoaderTypeOK'
    BY <1>1, <1>10, <2>1 DEF LoaderInv, LoaderTypeOK
  <2>4. \A i, j \in DOMAIN instances' :
           i < j /\ instances'[i] = instances'[j]
             => \/ i \in inside'[j]
                \/ i \in thrown'
                \/ \E x \in falsy' : instances'[x] = instances'[i]
    BY <1>1, <2>1 DEF LoaderInv
  <2>5. LoaderInv'
    BY <1>1, <1>9, <2>1, <2>2, <2>3, <2>4 DEF LoaderInv
  <2> QED BY <1>5, <2>5 DEF IInv
<1> QED BY <1>11, <1>12

-----------------------------------------------------------------------------
(* The theorems.                                                           *)

\* Nothing runs when the loop makes its first call.
LEMMA InitIInv == Init => IInv
<1> SUFFICES ASSUME Init PROVE IInv
  OBVIOUS
<1>1. /\ stack = <<>> /\ throwing = FALSE /\ created = 0 /\ seen = <<>> /\ skipped = FALSE
      /\ DOMAIN stack = {} /\ Len(stack) = 0
  BY DEF Init, ResourceInit
<1>2. StackInv
  <2>1. stack \in Seq(AnyFrame)
    BY <1>1
  <2>2. FramesInv
    BY <1>1, <2>1 DEF FramesInv
  <2> QED BY <1>1, <2>2 DEF StackInv
<1>3. Begun = {} /\ Loading = {} /\ Opens = {}
  BY <1>1 DEF Begun, Loading, Opens
<1>4. LoaderInv
  <2>1. LoaderTypeOK
    BY LoaderAssumption DEF Init, LoaderInit, LoaderTypeOK
  <2> QED BY <1>3, <2>1 DEF Init, LoaderInit, LoaderInv
<1>5. ScopesNest
  <2> DEFINE s == [i \in DOMAIN stack |-> stack[i].of]
  <2>1. s \in Seq(Nat) /\ Len(s) = 0
    BY <1>1
  <2> HIDE DEF s
  <2>2. Selected(s, Opens) = <<>>
    BY <2>1, SelectedNone DEF Selected
  <2> QED BY <1>1, <2>2 DEF ScopesNest, OpenScopes, Opens, s
<1> QED BY <1>2, <1>4, <1>5 DEF IInv

\* Every step keeps it.
LEMMA StepIInv == IInv /\ [Next]_vars => IInv'
<1> SUFFICES ASSUME IInv, [Next]_vars PROVE IInv'
  OBVIOUS
<1>1. StackInv /\ LoaderInv /\ ScopesNest /\ moduleLoadList \in SUBSET Names
  BY DEF IInv, LoaderInv, LoaderTypeOK
<1>2. CASE UNCHANGED vars
  <2>1. UNCHANGED <<stack, throwing, modules, moduleLoadList, instances, falsy, got, thrown,
                    inside, created, destroyed, hooks, seen, skipped>>
    BY <1>2 DEF vars, loader, resources
  <2>2. FramesInv' /\ Begun' = Begun /\ StackInv'
    BY <1>1, <2>1 DEF StackInv, FramesInv, Seated, Begun, Top
  <2>3. Opens' = Opens
    BY <2>1 DEF Opens, Open
  <2>4. ScopesNest'
    BY <1>1, <2>1, <2>2, <2>3, StandingNest DEF ScopesStand, StackInv
  <2>5. LoaderInv'
    BY <1>1, <2>1, <2>2, LoaderStands
  <2> QED BY <2>2, <2>4, <2>5 DEF IInv
<1>3. CASE Exceptions
  <2>1. /\ Code /\ stack' = stack /\ throwing' \in BOOLEAN
        /\ UNCHANGED <<created, destroyed, seen, skipped>>
        /\ UNCHANGED <<modules, moduleLoadList, instances, falsy, got, thrown, inside>>
    BY <1>3 DEF Exceptions, Throw, Catch, Running, loader, resources
  <2>2. StackInv' /\ ScopesNest' /\ Begun' = Begun
    BY <1>1, <2>1, StillKeeps
  <2>3. LoaderInv'
    BY <1>1, <2>1, <2>2, LoaderStands
  <2> QED BY <2>2, <2>3 DEF IInv
<1>4. CASE ResourceNext /\ UNCHANGED loader
  <2>1. StackInv' /\ ScopesNest' /\ Begun' = Begun
    BY <1>1, <1>4, ResourceStep
  <2>2. LoaderInv'
    BY <1>1, <1>4, <2>1, LoaderStands DEF loader
  <2> QED BY <2>1, <2>2 DEF IInv
<1>5. CASE LoaderNext /\ UNCHANGED resources
  <2>1. ASSUME NEW name \in Names, RequireKept(name) PROVE IInv'
    <3>1. modules[name] \in got
      BY <1>1, <2>1 DEF RequireKept, Kept, LoaderInv
    <3>2. /\ Code /\ stack' = stack /\ throwing' \in BOOLEAN
          /\ UNCHANGED <<created, destroyed, seen, skipped>>
          /\ UNCHANGED <<modules, moduleLoadList, instances, falsy, got, thrown, inside>>
      BY <1>1, <1>5, <2>1, <3>1 DEF RequireKept, Running, StackInv, resources
    <3>3. StackInv' /\ ScopesNest' /\ Begun' = Begun
      BY <1>1, <3>2, StillKeeps
    <3>4. LoaderInv'
      BY <1>1, <3>2, <3>3, LoaderStands
    <3> QED BY <3>3, <3>4 DEF IInv
  <2>2. ASSUME NEW name \in Names, RequireUnknown(name) PROVE IInv'
    <3>1. /\ Code /\ stack' = stack /\ throwing' \in BOOLEAN
          /\ UNCHANGED <<created, destroyed, seen, skipped>>
          /\ UNCHANGED <<modules, instances, falsy, got, thrown, inside>>
          /\ moduleLoadList' \in SUBSET Names
      BY <1>1, <1>5, <2>2 DEF RequireUnknown, Running, resources
    <3>2. StackInv' /\ ScopesNest' /\ Begun' = Begun
      BY <1>1, <3>1, StillKeeps
    <3>3. LoaderInv'
      BY <1>1, <3>1, <3>2, LoaderStands
    <3> QED BY <3>2, <3>3 DEF IInv
  <2>3. ASSUME NEW name \in Names, Load(name) PROVE IInv'
    BY <1>1, <1>5, <2>3, LoadStep
  <2>4. CASE Loaded \/ LoadThrows
    BY <1>1, <1>5, <2>4, EndStep
  <2> QED BY <1>5, <2>1, <2>2, <2>3, <2>4 DEF LoaderNext
<1> QED BY <1>2, <1>3, <1>4, <1>5 DEF Next

\* The frames, the instances and what the observer has seen go together.
THEOREM ScriptsAreSound == Spec => []IInv
<1> QED BY InitIInv, StepIInv, PTL DEF Spec

\* require never returns the exports of a script that is running or has thrown,
\* and loads a module twice only while it is being loaded, or if its exports are
\* taken for none; whatever the scripts require, throw and catch.
THEOREM LoadedOnceAlways == Spec => []LoadedOnce
<1>1. IInv => LoadedOnce
  <2> SUFFICES ASSUME IInv PROVE LoadedOnce
    OBVIOUS
  <2>1. /\ got \cap (Loading \cup thrown) = {} /\ got \subseteq DOMAIN instances
        /\ \A i, j \in DOMAIN instances :
              i < j /\ instances[i] = instances[j]
                => \/ i \in inside[j]
                   \/ i \in thrown
                   \/ \E f \in falsy : instances[f] = instances[i]
    BY DEF IInv, LoaderInv
  <2>2. \A i \in got : i \in DOMAIN instances /\ i \notin thrown
    BY <2>1
  <2> QED BY <2>1, <2>2 DEF LoadedOnce
<1> QED BY <1>1, ScriptsAreSound, PTL

\* The observer knows the scopes that the code is in, at any depth of the stack
\* and wherever it is exhausted, so long as no hook has thrown and there has
\* been room for the calls around each scope's function.
THEOREM ScopesAlwaysNest == Spec => []ScopesNest
<1>1. IInv => ScopesNest
  BY DEF IInv
<1> QED BY <1>1, ScriptsAreSound, PTL

=============================================================================
