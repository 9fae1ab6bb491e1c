------------------------- MODULE NativeCallsProofs -------------------------
(***************************************************************************)
(* Every function of bindings.c, and every operation of fs.inc that        *)
(* NativePaths has, gives back what it obtains, whichever of its steps     *)
(* fails, and the process is as the script has asked for, however many     *)
(* workers run beside the JavaScript thread.                               *)
(*                                                                         *)
(* A path is followed step by step: Goes says that a thread which has p to *)
(* do comes to q or fails, Does that this is so whatever q is, and each    *)
(* kind of step and of path has a rule.  The rules show of every function  *)
(* that its call is Safe: there is a set of things to do, held resources   *)
(* and changed state that the call never leaves.  The inductive invariant  *)
(* says that every running call is safe from where it is.                  *)
(***************************************************************************)
EXTENDS NativeCalls, SequenceTheorems, TLAPS

\* The steps a thread has left are a sequence.
IsPath(p) == \E S : p \in Seq(S)

\* A sequence over a set is one over a larger set.
LEMMA SeqGrows ==
    ASSUME NEW S, NEW T, S \subseteq T, NEW s \in Seq(S)
    PROVE  s \in Seq(T)
<1>1. Len(s) \in Nat /\ s = [i \in 1 .. Len(s) |-> s[i]]
  OBVIOUS
<1>2. \A i \in 1 .. Len(s) : s[i] \in T
  OBVIOUS
<1> QED BY <1>1, <1>2

\* Two sequences are sequences over one set.
LEMMA CommonSet ==
    ASSUME NEW p, NEW q, IsPath(p), IsPath(q)
    PROVE  \E S : p \in Seq(S) /\ q \in Seq(S)
<1>1. PICK A, B : p \in Seq(A) /\ q \in Seq(B)
  BY DEF IsPath
<1>2. A \subseteq A \cup B /\ B \subseteq A \cup B
  OBVIOUS
<1>3. p \in Seq(A \cup B) /\ q \in Seq(A \cup B)
  BY <1>1, <1>2, SeqGrows
<1> QED BY <1>3

\* And concatenation is associative.
LEMMA PathAssociative ==
    ASSUME NEW p, NEW q, NEW r, IsPath(p), IsPath(q), IsPath(r)
    PROVE  (p \o q) \o r = p \o (q \o r)
<1>1. PICK A : p \in Seq(A) /\ q \in Seq(A)
  BY CommonSet
<1>2. PICK B : q \in Seq(B) /\ r \in Seq(B)
  BY CommonSet
<1>3. A \subseteq A \cup B /\ B \subseteq A \cup B
  OBVIOUS
<1>4. p \in Seq(A \cup B) /\ q \in Seq(A \cup B) /\ r \in Seq(A \cup B)
  BY <1>1, <1>2, <1>3, SeqGrows
<1> QED BY <1>4, ConcatAssociative

\* The facts about these sequences that paths need.
LEMMA PathFacts ==
    /\ IsPath(<<>>)
    /\ \A s : IsPath(<<s>>)
    /\ \A p, q : IsPath(p) /\ IsPath(q) => IsPath(p \o q)
    /\ \A p : IsPath(p) => p \o <<>> = p /\ <<>> \o p = p
    /\ \A s, q : IsPath(q) => /\ <<s>> \o q # <<>>
                              /\ Head(<<s>> \o q) = s
                              /\ Tail(<<s>> \o q) = q
    /\ \A p : IsPath(p) /\ p # <<>> => IsPath(Tail(p))
<1>1. IsPath(<<>>)
  <2>1. <<>> \in Seq({})
    OBVIOUS
  <2> QED BY <2>1 DEF IsPath
<1>2. ASSUME NEW s PROVE IsPath(<<s>>)
  <2>1. <<s>> \in Seq({s})
    OBVIOUS
  <2> QED BY <2>1 DEF IsPath
<1>4. ASSUME NEW p, NEW q, IsPath(p), IsPath(q) PROVE IsPath(p \o q)
  <2>1. PICK S : p \in Seq(S) /\ q \in Seq(S)
    BY CommonSet, <1>4
  <2>2. p \o q \in Seq(S)
    BY <2>1, ConcatProperties
  <2> QED BY <2>2 DEF IsPath
<1>5. ASSUME NEW p, IsPath(p) PROVE p \o <<>> = p /\ <<>> \o p = p
  BY <1>5, ConcatEmptySeq DEF IsPath
<1>7. ASSUME NEW s, NEW q, IsPath(q)
      PROVE  <<s>> \o q # <<>> /\ Head(<<s>> \o q) = s /\ Tail(<<s>> \o q) = q
  <2>1. PICK S : <<s>> \in Seq(S) /\ q \in Seq(S)
    BY <1>2, CommonSet, <1>7
  <2> DEFINE t == <<s>> \o q
  <2>2. /\ t \in Seq(S)
        /\ Len(t) = 1 + Len(q)
        /\ \A i \in 1 .. 1 + Len(q) : t[i] = IF i <= 1 THEN <<s>>[i] ELSE q[i - 1]
    <3>1. Len(<<s>>) = 1
      OBVIOUS
    <3> QED BY <2>1, <3>1, ConcatProperties
  <2> HIDE DEF t
  <2>3. Len(q) \in Nat
    BY <2>1
  <2>4. t # <<>>
    BY <2>2, <2>3
  <2>5. Head(t) = s
    <3>1. t[1] = <<s>>[1]
      BY <2>2, <2>3
    <3> QED BY <2>2, <2>4, <3>1
  <2>6. Tail(t) = q
    <3>1. /\ Tail(t) \in Seq(S) /\ Len(Tail(t)) = Len(q)
          /\ \A i \in 1 .. Len(Tail(t)) : Tail(t)[i] = t[i + 1]
      BY <2>2, <2>3, <2>4, HeadTailProperties
    <3>2. \A i \in 1 .. Len(q) : t[i + 1] = q[i]
      <4> TAKE i \in 1 .. Len(q)
      <4>1. i \in Nat /\ i + 1 \in 1 .. 1 + Len(q) /\ ~(i + 1 <= 1) /\ (i + 1) - 1 = i
        BY <2>3
      <4> QED BY <2>2, <4>1
    <3> QED BY <2>1, <3>1, <3>2, SeqEqual
  <2> QED BY <2>4, <2>5, <2>6 DEF t
<1>8. ASSUME NEW p, IsPath(p), p # <<>> PROVE IsPath(Tail(p))
  BY <1>8, HeadTailProperties DEF IsPath
<1>9. \A p, q : IsPath(p) /\ IsPath(q) => IsPath(p \o q)
  BY <1>4
<1>10. \A p : IsPath(p) => p \o <<>> = p /\ <<>> \o p = p
  BY <1>5
<1>12. \A s, q : IsPath(q) => <<s>> \o q # <<>> /\ Head(<<s>> \o q) = s /\ Tail(<<s>> \o q) = q
  BY <1>7
<1>13. \A p : IsPath(p) /\ p # <<>> => IsPath(Tail(p))
  BY <1>8
<1>14. \A s : IsPath(<<s>>)
  BY <1>2
<1> HIDE DEF IsPath
<1> QED BY <1>1, <1>9, <1>10, <1>12, <1>13, <1>14, Zenon

-----------------------------------------------------------------------------
(* What it means that a path is followed.                                  *)

\* The state of the process that a step leaves other than it should be, until
\* another step of the same call sets it right.
After(e, d) ==
    IF e = "mask all" THEN {"mask"}
    ELSE IF e = "stdout wide" THEN {"stdout"}
    ELSE IF e = "stderr wide" THEN {"stderr"}
    ELSE IF e = "free runtime" THEN {"freed"}
    ELSE IF e \in {"mask back", "stdout back", "stderr back", "end"} THEN {}
    ELSE d

\* When a step may be taken.
Fits(e, d) ==
    /\ e \in {"mask all", "mask on", "mask off", "stdout wide", "stderr wide",
              "free runtime", "terminate", "string", "create", "write"} => d = {}
    /\ e = "mask back" => d = {"mask"}
    /\ e = "stdout back" => d = {"stdout"}
    /\ e = "stderr back" => d = {"stderr"}
    /\ e = "end" => d \subseteq {"freed"}

\* A thread with the steps p before it, that holds h and has left d as it should
\* not be, can go on: it gives back what it has, every way on is in X, and if it
\* fails nothing is left but L.  E is what its steps may do.
Sound(L, E, p, h, d, X) ==
    /\ p = <<>> => h = {} /\ d = {}
    /\ p # <<>> =>
          LET s == Head(p)
          IN  /\ s.puts \subseteq h
              /\ s.undo \subseteq h
              /\ s.fails => h \ s.undo \subseteq L /\ d = {}
              /\ s.ways = {} =>
                    /\ s.effect \in E
                    /\ Fits(s.effect, d)
                    /\ <<Tail(p), (h \cup s.gets) \ s.puts, After(s.effect, d)>> \in X
              /\ \A w \in s.ways :
                    <<IF s.again /\ w # <<>> THEN w \o p ELSE w \o Tail(p), h, d>> \in X

\* From p the call comes to q, with k and f in the place of h and d, or it fails.
Goes(L, E, p, h, d, q, k, f) ==
    \E X : /\ <<p, h, d>> \in X
           /\ \A x, y, z : <<x, y, z>> \in X =>
                 (x = q /\ y = k /\ z = f) \/ Sound(L, E, x, y, z, X)

\* What the steps p do, whatever comes after them.
Does(L, E, p, h, d, k, f) ==
    IsPath(p) /\ \A q : IsPath(q) => Goes(L, E, p \o q, h, d, q, k, f)

\* A call that has p to do will come to its end.
Safe(L, E, p, h, d) ==
    \E X : /\ <<p, h, d>> \in X
           /\ \A x, y, z : <<x, y, z>> \in X => Sound(L, E, x, y, z, X)

-----------------------------------------------------------------------------
(* Rules for steps.                                                        *)

\* A thread can go on whatever else may lie ahead.
LEMMA SoundGrows ==
    ASSUME NEW L, NEW E, NEW p, NEW h, NEW d, NEW X, NEW Y, X \subseteq Y,
           Sound(L, E, p, h, d, X)
    PROVE  Sound(L, E, p, h, d, Y)
BY DEF Sound

\* One step, that has no ways.
LEMMA OneStep ==
    ASSUME NEW L, NEW E, NEW s, NEW h, NEW d, NEW k, NEW f,
           s.ways = {}, s.puts \subseteq h, s.undo \subseteq h,
           s.fails => h \ s.undo \subseteq L /\ d = {},
           s.effect \in E, Fits(s.effect, d),
           k = (h \cup s.gets) \ s.puts, f = After(s.effect, d)
    PROVE  Does(L, E, <<s>>, h, d, k, f)
<1>1. IsPath(<<s>>)
  BY PathFacts
<1>2. ASSUME NEW q, IsPath(q) PROVE Goes(L, E, <<s>> \o q, h, d, q, k, f)
  <2> DEFINE p == <<s>> \o q
             X == {<<p, h, d>>, <<q, k, f>>}
  <2>1. p # <<>> /\ Head(p) = s /\ Tail(p) = q
    BY <1>2, PathFacts
  <2>2. <<p, h, d>> \in X /\ <<q, k, f>> \in X
    OBVIOUS
  <2>3. Sound(L, E, p, h, d, X)
    <3> HIDE DEF p, X
    <3> QED BY <2>1, <2>2 DEF Sound
  <2>4. ASSUME NEW x, NEW y, NEW z, <<x, y, z>> \in X
        PROVE  (x = q /\ y = k /\ z = f) \/ Sound(L, E, x, y, z, X)
    <3>1. (x = p /\ y = h /\ z = d) \/ (x = q /\ y = k /\ z = f)
      BY <2>4
    <3> QED BY <2>3, <3>1
  <2> HIDE DEF X
  <2> QED BY <2>2, <2>4 DEF Goes
<1> QED BY <1>1, <1>2 DEF Does

\* No step at all.
LEMMA NoStep ==
    ASSUME NEW L, NEW E, NEW h, NEW d
    PROVE  Does(L, E, <<>>, h, d, h, d)
<1>1. IsPath(<<>>)
  BY PathFacts
<1>2. ASSUME NEW q, IsPath(q) PROVE Goes(L, E, <<>> \o q, h, d, q, h, d)
  <2>1. <<>> \o q = q
    BY <1>2, PathFacts
  <2> DEFINE X == {<<q, h, d>>}
  <2>2. <<q, h, d>> \in X
    OBVIOUS
  <2>3. \A x, y, z : <<x, y, z>> \in X => x = q /\ y = h /\ z = d
    OBVIOUS
  <2> HIDE DEF X
  <2> QED BY <2>1, <2>2, <2>3 DEF Goes
<1> QED BY <1>1, <1>2 DEF Does

\* One way after another.
LEMMA GoesOn ==
    ASSUME NEW L, NEW E, NEW p, NEW h, NEW d, NEW q, NEW k, NEW f, NEW r, NEW m, NEW g,
           Goes(L, E, p, h, d, q, k, f), Goes(L, E, q, k, f, r, m, g)
    PROVE  Goes(L, E, p, h, d, r, m, g)
<1>1. PICK X : /\ <<p, h, d>> \in X
               /\ \A x, y, z : <<x, y, z>> \in X =>
                     (x = q /\ y = k /\ z = f) \/ Sound(L, E, x, y, z, X)
  BY DEF Goes
<1>2. PICK Y : /\ <<q, k, f>> \in Y
               /\ \A x, y, z : <<x, y, z>> \in Y =>
                     (x = r /\ y = m /\ z = g) \/ Sound(L, E, x, y, z, Y)
  BY DEF Goes
<1> DEFINE Z == X \cup Y
<1>3. X \subseteq Z /\ Y \subseteq Z
  OBVIOUS
<1>4. ASSUME NEW x, NEW y, NEW z, <<x, y, z>> \in Z
      PROVE  (x = r /\ y = m /\ z = g) \/ Sound(L, E, x, y, z, Z)
  <2>1. <<x, y, z>> \in X \/ <<x, y, z>> \in Y
    BY <1>4
  <2>2. <<x, y, z>> \in Y \/ Sound(L, E, x, y, z, X)
    BY <1>1, <1>2, <2>1
  <2>3. (x = r /\ y = m /\ z = g) \/ Sound(L, E, x, y, z, X) \/ Sound(L, E, x, y, z, Y)
    BY <1>2, <2>2
  <2> HIDE DEF Z
  <2> QED BY <1>3, <2>3, SoundGrows
<1>5. <<p, h, d>> \in Z
  BY <1>1
<1> HIDE DEF Z
<1> QED BY <1>4, <1>5 DEF Goes

\* Steps after other steps.
LEMMA InTurn ==
    ASSUME NEW L, NEW E, NEW p, NEW h, NEW d, NEW q, NEW k, NEW f, NEW m, NEW g,
           Does(L, E, p, h, d, k, f), Does(L, E, q, k, f, m, g)
    PROVE  Does(L, E, p \o q, h, d, m, g)
<1>1. IsPath(p) /\ IsPath(q) /\ IsPath(p \o q)
  BY PathFacts DEF Does
<1>2. ASSUME NEW r, IsPath(r) PROVE Goes(L, E, (p \o q) \o r, h, d, r, m, g)
  <2>1. (p \o q) \o r = p \o (q \o r) /\ IsPath(q \o r)
    BY <1>1, <1>2, PathFacts, PathAssociative, SMTT(30)
  <2>2. Goes(L, E, p \o (q \o r), h, d, q \o r, k, f)
    BY <2>1 DEF Does
  <2>3. Goes(L, E, q \o r, k, f, r, m, g)
    BY <1>2 DEF Does
  <2>4. Goes(L, E, p \o (q \o r), h, d, r, m, g)
    BY <2>2, <2>3, GoesOn
  <2> QED BY <2>1, <2>4
<1> QED BY <1>1, <1>2 DEF Does

\* A choice of three, or of less.
LEMMA EitherWay ==
    ASSUME NEW L, NEW E, NEW a, NEW b, NEW c, NEW h, NEW d, NEW k, NEW f,
           Does(L, E, a, h, d, k, f), Does(L, E, b, h, d, k, f), Does(L, E, c, h, d, k, f)
    PROVE  Does(L, E, <<Either({a, b, c})>>, h, d, k, f)
<1> DEFINE s == Either({a, b, c})
<1>0. /\ s.ways = {a, b, c} /\ s.again = FALSE /\ s.fails = FALSE
      /\ s.puts = {} /\ s.undo = {}
  BY DEF Either, Step
<1> HIDE DEF s
<1>1. IsPath(<<s>>)
  BY PathFacts
<1>2. ASSUME NEW q, IsPath(q) PROVE Goes(L, E, <<s>> \o q, h, d, q, k, f)
  <2> DEFINE p == <<s>> \o q
  <2>1. p # <<>> /\ Head(p) = s /\ Tail(p) = q
    BY <1>2, PathFacts
  <2>2. PICK A : /\ <<a \o q, h, d>> \in A
                 /\ \A x, y, z : <<x, y, z>> \in A =>
                       (x = q /\ y = k /\ z = f) \/ Sound(L, E, x, y, z, A)
    BY <1>2 DEF Does, Goes
  <2>3. PICK B : /\ <<b \o q, h, d>> \in B
                 /\ \A x, y, z : <<x, y, z>> \in B =>
                       (x = q /\ y = k /\ z = f) \/ Sound(L, E, x, y, z, B)
    BY <1>2 DEF Does, Goes
  <2>4. PICK C : /\ <<c \o q, h, d>> \in C
                 /\ \A x, y, z : <<x, y, z>> \in C =>
                       (x = q /\ y = k /\ z = f) \/ Sound(L, E, x, y, z, C)
    BY <1>2 DEF Does, Goes
  <2> DEFINE X == {<<p, h, d>>} \cup A \cup B \cup C
  <2>5. A \subseteq X /\ B \subseteq X /\ C \subseteq X /\ <<p, h, d>> \in X
    OBVIOUS
  <2>6. Sound(L, E, p, h, d, X)
    <3>1. <<a \o q, h, d>> \in X /\ <<b \o q, h, d>> \in X /\ <<c \o q, h, d>> \in X
      BY <2>2, <2>3, <2>4, <2>5
    <3>2. \A w \in s.ways : <<w \o q, h, d>> \in X
      BY <1>0, <3>1
    <3>3. s.ways # {} /\ ~s.again /\ ~s.fails
      BY <1>0
    <3> HIDE DEF p, X
    <3> QED BY <1>0, <2>1, <3>2, <3>3 DEF Sound
  <2>7. ASSUME NEW x, NEW y, NEW z, <<x, y, z>> \in X
        PROVE  (x = q /\ y = k /\ z = f) \/ Sound(L, E, x, y, z, X)
    <3>1. \/ x = p /\ y = h /\ z = d
          \/ <<x, y, z>> \in A
          \/ <<x, y, z>> \in B
          \/ <<x, y, z>> \in C
      BY <2>7
    <3> HIDE DEF p, X
    <3>2. CASE x = p /\ y = h /\ z = d
      BY <2>6, <3>2
    <3>3. CASE <<x, y, z>> \in A
      BY <2>2, <2>5, <3>3, SoundGrows
    <3>4. CASE <<x, y, z>> \in B
      BY <2>3, <2>5, <3>4, SoundGrows
    <3>5. CASE <<x, y, z>> \in C
      BY <2>4, <2>5, <3>5, SoundGrows
    <3> QED BY <3>1, <3>2, <3>3, <3>4, <3>5
  <2> HIDE DEF X
  <2> QED BY <2>5, <2>7 DEF Goes
<1> QED BY <1>1, <1>2 DEF Does, s

\* Steps that are taken or not, and leave everything as it is.
LEMMA MaybeNot ==
    ASSUME NEW L, NEW E, NEW p, NEW h, NEW d, Does(L, E, p, h, d, h, d)
    PROVE  Does(L, E, <<Maybe(p)>>, h, d, h, d)
<1>1. Does(L, E, <<>>, h, d, h, d)
  BY NoStep
<1>2. {<<>>, p} = {<<>>, p, p}
  OBVIOUS
<1> QED BY <1>1, <1>2, EitherWay DEF Maybe

\* Steps that are taken any number of times.
LEMMA AgainAndAgain ==
    ASSUME NEW L, NEW E, NEW p, NEW h, NEW d, Does(L, E, p, h, d, h, d), p # <<>>
    PROVE  Does(L, E, <<Loop(p)>>, h, d, h, d)
<1> DEFINE s == Loop(p)
<1>0. /\ s.ways = {<<>>, p} /\ s.again = TRUE /\ s.fails = FALSE
      /\ s.puts = {} /\ s.undo = {}
  BY DEF Loop, Step
<1> HIDE DEF s
<1>1. IsPath(<<s>>)
  BY PathFacts
<1>2. ASSUME NEW q, IsPath(q) PROVE Goes(L, E, <<s>> \o q, h, d, q, h, d)
  <2> DEFINE o == <<s>> \o q
  <2>1. o # <<>> /\ Head(o) = s /\ Tail(o) = q /\ IsPath(o) /\ <<>> \o q = q
    BY <1>1, <1>2, PathFacts
  <2> HIDE DEF o
  <2>2. PICK A : /\ <<p \o o, h, d>> \in A
                 /\ \A x, y, z : <<x, y, z>> \in A =>
                       (x = o /\ y = h /\ z = d) \/ Sound(L, E, x, y, z, A)
    BY <2>1, SMTT(30) DEF Does, Goes
  <2> DEFINE X == {<<o, h, d>>, <<q, h, d>>} \cup A
  <2>3. A \subseteq X /\ <<o, h, d>> \in X /\ <<q, h, d>> \in X
    OBVIOUS
  <2>4. Sound(L, E, o, h, d, X)
    <3>1. <<p \o o, h, d>> \in X /\ <<<<>> \o q, h, d>> \in X
      BY <2>1, <2>2, <2>3
    <3>2. \A w \in s.ways : <<IF w # <<>> THEN w \o o ELSE w \o q, h, d>> \in X
      BY <1>0, <3>1
    <3>3. s.ways # {} /\ s.again /\ ~s.fails
      BY <1>0
    <3> HIDE DEF X
    <3> QED BY <1>0, <2>1, <3>2, <3>3 DEF Sound
  <2>5. ASSUME NEW x, NEW y, NEW z, <<x, y, z>> \in X
        PROVE  (x = q /\ y = h /\ z = d) \/ Sound(L, E, x, y, z, X)
    <3>1. \/ x = o /\ y = h /\ z = d
          \/ x = q /\ y = h /\ z = d
          \/ <<x, y, z>> \in A
      BY <2>5
    <3> HIDE DEF X
    <3> QED BY <2>2, <2>3, <2>4, <3>1, SoundGrows
  <2> HIDE DEF X
  <2> QED BY <2>3, <2>5 DEF Goes, o
<1> QED BY <1>1, <1>2 DEF Does, s

\* A call that has everything before it and gives everything back.
LEMMA WholeCall ==
    ASSUME NEW L, NEW E, NEW p, Does(L, E, p, {}, {}, {}, {})
    PROVE  Safe(L, E, p, {}, {})
<1>1. Goes(L, E, p \o <<>>, {}, {}, <<>>, {}, {}) /\ p \o <<>> = p
  BY PathFacts DEF Does
<1>2. PICK X : /\ <<p, {}, {}>> \in X
               /\ \A x, y, z : <<x, y, z>> \in X =>
                     (x = <<>> /\ y = {} /\ z = {}) \/ Sound(L, E, x, y, z, X)
  BY <1>1 DEF Goes
<1>3. Sound(L, E, <<>>, {}, {}, X)
  BY DEF Sound
<1>4. \A x, y, z : <<x, y, z>> \in X => Sound(L, E, x, y, z, X)
  BY <1>2, <1>3
<1> QED BY <1>2, <1>4 DEF Safe

\* A step that obtains a resource.
LEMMA Gets ==
    ASSUME NEW L, NEW E, "none" \in E, NEW h, NEW k, NEW r, NEW undo,
           undo \subseteq h, h \ undo \subseteq L, k = h \cup {r}
    PROVE  Does(L, E, <<Get(r, undo)>>, h, {}, k, {})
<1> DEFINE s == Get(r, undo)
<1>1. /\ s.gets = {r} /\ s.puts = {} /\ s.effect = "none" /\ s.undo = undo
      /\ s.ways = {}
  BY DEF Get, Step
<1>2. k = (h \cup s.gets) \ s.puts
  BY <1>1
<1>3. Fits("none", {}) /\ After("none", {}) = {}
  BY DEF Fits, After
<1> HIDE DEF s
<1>4. Does(L, E, <<s>>, h, {}, k, {})
  BY <1>1, <1>2, <1>3, OneStep
<1> QED BY <1>4 DEF s

\* A step that can fail.
LEMMA Tries ==
    ASSUME NEW L, NEW E, "none" \in E, NEW h, NEW k, NEW undo,
           undo \subseteq h, h \ undo \subseteq L, k = h
    PROVE  Does(L, E, <<Try(undo)>>, h, {}, k, {})
<1> DEFINE s == Try(undo)
<1>1. /\ s.gets = {} /\ s.puts = {} /\ s.effect = "none" /\ s.undo = undo
      /\ s.ways = {}
  BY DEF Try, Step
<1>2. k = (h \cup s.gets) \ s.puts
  BY <1>1
<1>3. Fits("none", {}) /\ After("none", {}) = {}
  BY DEF Fits, After
<1> HIDE DEF s
<1>4. Does(L, E, <<s>>, h, {}, k, {})
  BY <1>1, <1>2, <1>3, OneStep
<1> QED BY <1>4 DEF s

\* One that cannot, and obtains resources.
LEMMA Takes ==
    ASSUME NEW L, NEW E, "none" \in E, NEW h, NEW k, NEW R,
           k = h \cup R
    PROVE  Does(L, E, <<Take(R)>>, h, {}, k, {})
<1> DEFINE s == Take(R)
<1>1. /\ s.gets = R /\ s.puts = {} /\ s.effect = "none" /\ s.undo = {}
      /\ s.ways = {} /\ s.fails = FALSE
  BY DEF Take, Step
<1>2. k = (h \cup s.gets) \ s.puts
  BY <1>1
<1>3. Fits("none", {}) /\ After("none", {}) = {}
  BY DEF Fits, After
<1> HIDE DEF s
<1>4. Does(L, E, <<s>>, h, {}, k, {})
  BY <1>1, <1>2, <1>3, OneStep
<1> QED BY <1>4 DEF s

\* One that gives them back.
LEMMA Puts ==
    ASSUME NEW L, NEW E, "none" \in E, NEW h, NEW k, NEW R,
           R \subseteq h, k = h \ R
    PROVE  Does(L, E, <<Put(R)>>, h, {}, k, {})
<1> DEFINE s == Put(R)
<1>1. /\ s.gets = {} /\ s.puts = R /\ s.effect = "none" /\ s.undo = {}
      /\ s.ways = {} /\ s.fails = FALSE
  BY DEF Put, Step
<1>2. k = (h \cup s.gets) \ s.puts
  BY <1>1
<1>3. Fits("none", {}) /\ After("none", {}) = {}
  BY DEF Fits, After
<1> HIDE DEF s
<1>4. Does(L, E, <<s>>, h, {}, k, {})
  BY <1>1, <1>2, <1>3, OneStep
<1> QED BY <1>4 DEF s

\* A step that touches state outside the function.
LEMMA Touches ==
    ASSUME NEW L, NEW E, NEW e \in E, NEW h, NEW d, Fits(e, d)
    PROVE  Does(L, E, <<Do(e)>>, h, d, h, After(e, d))
<1> DEFINE s == Do(e)
<1>1. /\ s.gets = {} /\ s.puts = {} /\ s.effect = e /\ s.undo = {} /\ s.ways = {}
      /\ s.fails = FALSE
  BY DEF Do, Step
<1>2. h = (h \cup s.gets) \ s.puts
  BY <1>1
<1> HIDE DEF s
<1>3. Does(L, E, <<s>>, h, d, h, After(e, d))
  BY <1>1, <1>2, OneStep
<1> QED BY <1>3 DEF s

\* One that can fail.
LEMMA TriesTo ==
    ASSUME NEW L, NEW E, NEW e \in E, NEW h, Fits(e, {}),
           NEW undo, undo \subseteq h, h \ undo \subseteq L
    PROVE  Does(L, E, <<TryTo(e, undo)>>, h, {}, h, After(e, {}))
<1> DEFINE s == TryTo(e, undo)
<1>1. /\ s.gets = {} /\ s.puts = {} /\ s.effect = e /\ s.undo = undo /\ s.ways = {}
  BY DEF TryTo, Step
<1>2. h = (h \cup s.gets) \ s.puts
  BY <1>1
<1> HIDE DEF s
<1>3. Does(L, E, <<s>>, h, {}, h, After(e, {}))
  BY <1>1, <1>2, OneStep
<1> QED BY <1>3 DEF s

\* Steps written down in a row.
LEMMA Pair == ASSUME NEW a, NEW b PROVE <<a, b>> = <<a>> \o <<b>>
<1> DEFINE t == <<a, b>>
           u == <<a>> \o <<b>>
<1>1. t \in Seq({a, b}) /\ u \in Seq({a, b}) /\ Len(t) = 2 /\ Len(u) = 2
  OBVIOUS
<1>2. t[1] = u[1] /\ t[2] = u[2]
  OBVIOUS
<1>3. \A i \in 1 .. Len(t) : t[i] = u[i]
  BY <1>1, <1>2
<1> QED BY <1>1, <1>3, SeqEqual

\* Two steps, one after the other;
LEMMA Two ==
    ASSUME NEW L, NEW E, NEW a, NEW b,
           NEW h0, NEW d0, NEW h1, NEW d1, NEW h2, NEW d2,
           Does(L, E, <<a>>, h0, d0, h1, d1),
           Does(L, E, <<b>>, h1, d1, h2, d2)
    PROVE  Does(L, E, <<a, b>>, h0, d0, h2, d2)
BY Pair, InTurn

\* three;
LEMMA Three ==
    ASSUME NEW L, NEW E, NEW a, NEW b, NEW c,
           NEW h0, NEW d0, NEW h1, NEW d1, NEW h2, NEW d2, NEW h3, NEW d3,
           Does(L, E, <<a>>, h0, d0, h1, d1),
           Does(L, E, <<b>>, h1, d1, h2, d2),
           Does(L, E, <<c>>, h2, d2, h3, d3)
    PROVE  Does(L, E, <<a, b, c>>, h0, d0, h3, d3)
<1>1. Does(L, E, <<b, c>>, h1, d1, h3, d3)
  <2>1. <<b, c>> = <<b>> \o <<c>>
    BY Pair
  <2> QED BY <2>1, InTurn
<1>2. Does(L, E, <<a, b, c>>, h0, d0, h3, d3)
  <2>1. <<a, b, c>> = <<a>> \o <<b, c>>
    BY ONLY TRUE
  <2> QED BY <1>1, <2>1, InTurn
<1> QED BY <1>2

\* five;
LEMMA Five ==
    ASSUME NEW L, NEW E, NEW a, NEW b, NEW c, NEW d, NEW e,
           NEW h0, NEW d0, NEW h1, NEW d1, NEW h2, NEW d2, NEW h3, NEW d3,
           NEW h4, NEW d4, NEW h5, NEW d5,
           Does(L, E, <<a>>, h0, d0, h1, d1),
           Does(L, E, <<b>>, h1, d1, h2, d2),
           Does(L, E, <<c>>, h2, d2, h3, d3),
           Does(L, E, <<d>>, h3, d3, h4, d4),
           Does(L, E, <<e>>, h4, d4, h5, d5)
    PROVE  Does(L, E, <<a, b, c, d, e>>, h0, d0, h5, d5)
<1>1. Does(L, E, <<d, e>>, h3, d3, h5, d5)
  <2>1. <<d, e>> = <<d>> \o <<e>>
    BY Pair
  <2> QED BY <2>1, InTurn
<1>2. Does(L, E, <<c, d, e>>, h2, d2, h5, d5)
  <2>1. <<c, d, e>> = <<c>> \o <<d, e>>
    BY ONLY TRUE
  <2> QED BY <1>1, <2>1, InTurn
<1>3. Does(L, E, <<b, c, d, e>>, h1, d1, h5, d5)
  <2>1. <<b, c, d, e>> = <<b>> \o <<c, d, e>>
    BY ONLY TRUE
  <2> QED BY <1>2, <2>1, InTurn
<1>4. Does(L, E, <<a, b, c, d, e>>, h0, d0, h5, d5)
  <2>1. <<a, b, c, d, e>> = <<a>> \o <<b, c, d, e>>
    BY ONLY TRUE
  <2> QED BY <1>3, <2>1, InTurn
<1> QED BY <1>4

\* seven.
LEMMA Seven ==
    ASSUME NEW L, NEW E, NEW a, NEW b, NEW c, NEW d, NEW e, NEW f, NEW g,
           NEW h0, NEW d0, NEW h1, NEW d1, NEW h2, NEW d2, NEW h3, NEW d3,
           NEW h4, NEW d4, NEW h5, NEW d5, NEW h6, NEW d6, NEW h7,
           NEW d7,
           Does(L, E, <<a>>, h0, d0, h1, d1),
           Does(L, E, <<b>>, h1, d1, h2, d2),
           Does(L, E, <<c>>, h2, d2, h3, d3),
           Does(L, E, <<d>>, h3, d3, h4, d4),
           Does(L, E, <<e>>, h4, d4, h5, d5),
           Does(L, E, <<f>>, h5, d5, h6, d6),
           Does(L, E, <<g>>, h6, d6, h7, d7)
    PROVE  Does(L, E, <<a, b, c, d, e, f, g>>, h0, d0, h7, d7)
<1>1. Does(L, E, <<f, g>>, h5, d5, h7, d7)
  <2>1. <<f, g>> = <<f>> \o <<g>>
    BY Pair
  <2> QED BY <2>1, InTurn
<1>2. Does(L, E, <<e, f, g>>, h4, d4, h7, d7)
  <2>1. <<e, f, g>> = <<e>> \o <<f, g>>
    BY ONLY TRUE
  <2> QED BY <1>1, <2>1, InTurn
<1>3. Does(L, E, <<d, e, f, g>>, h3, d3, h7, d7)
  <2>1. <<d, e, f, g>> = <<d>> \o <<e, f, g>>
    BY ONLY TRUE
  <2> QED BY <1>2, <2>1, InTurn
<1>4. Does(L, E, <<c, d, e, f, g>>, h2, d2, h7, d7)
  <2>1. <<c, d, e, f, g>> = <<c>> \o <<d, e, f, g>>
    BY ONLY TRUE
  <2> QED BY <1>3, <2>1, InTurn
<1>5. Does(L, E, <<b, c, d, e, f, g>>, h1, d1, h7, d7)
  <2>1. <<b, c, d, e, f, g>> = <<b>> \o <<c, d, e, f, g>>
    BY ONLY TRUE
  <2> QED BY <1>4, <2>1, InTurn
<1>6. Does(L, E, <<a, b, c, d, e, f, g>>, h0, d0, h7, d7)
  <2>1. <<a, b, c, d, e, f, g>> = <<a>> \o <<b, c, d, e, f, g>>
    BY ONLY TRUE
  <2> QED BY <1>5, <2>1, InTurn
<1> QED BY <1>6

-----------------------------------------------------------------------------
(* The paths of the functions.                                             *)

\* A string for the system, in a buffer of its own.
LEMMA ToWide ==
    ASSUME NEW L, NEW E, {"none", "string"} \subseteq E, NEW h, NEW k, k = h \cup {"wide"}
    PROVE  Does(L, E, utf8_to_wchar(h), h, {}, k, {})
<1>1. Does(L, E, <<TryTo("string", h)>>, h, {}, h, {})
  BY TriesTo DEF Fits, After
<1>2. Does(L, E, <<Get("wide", h)>>, h, {}, k, {})
  BY Gets
<1>3. Does(L, E, <<TryTo("string", k)>>, k, {}, k, {})
  BY TriesTo DEF Fits, After
<1> QED BY <1>1, <1>2, <1>3, Three DEF utf8_to_wchar

\* A string from the system, likewise.
LEMMA ToUtf8 ==
    ASSUME NEW L, NEW E, "none" \in E, NEW h, NEW k, k = h \cup {"utf8"}
    PROVE  Does(L, E, wstr_to_utf8(h), h, {}, k, {})
<1>1. Does(L, E, <<Try(h)>>, h, {}, h, {})
  BY Tries
<1>2. Does(L, E, <<Get("utf8", h)>>, h, {}, k, {})
  BY Gets
<1>3. Does(L, E, <<Try(k)>>, k, {}, k, {})
  BY Tries
<1> QED BY <1>1, <1>2, <1>3, Three DEF wstr_to_utf8

\* cwd
LEMMA CwdPath ==
    ASSUME NEW L, NEW E, "none" \in E
    PROVE  Does(L, E, cwd, {}, {}, {}, {})
<1>1. Does(L, E, <<Try({})>>, {}, {}, {}, {})
  BY Tries
<1>2. Does(L, E, <<Get("wide", {})>>, {}, {}, {"wide"}, {})
  BY Gets
<1>3. Does(L, E, <<Try({"wide"})>>, {"wide"}, {}, {"wide"}, {})
  BY Tries
<1>4. Does(L, E, <<Try({}), Get("wide", {}), Try({"wide"})>>, {}, {}, {"wide"}, {})
  BY <1>1, <1>2, <1>3, Three
<1>5. Does(L, E, wstr_to_utf8({"wide"}), {"wide"}, {}, {"wide", "utf8"}, {})
  BY ToUtf8
<1>6. Does(L, E, <<Put({"wide", "utf8"})>>, {"wide", "utf8"}, {}, {}, {})
  BY Puts
<1> QED BY <1>4, <1>5, <1>6, InTurn DEF cwd

\* execPath, which can leave its wide string behind.
LEMMA ExecPathPath ==
    ASSUME NEW L, NEW E, "none" \in E, "wide" \in L
    PROVE  Does(L, E, execPath, {}, {}, {}, {})
<1>1. Does(L, E, <<Get("wide", {})>>, {}, {}, {"wide"}, {})
  BY Gets
<1>2. Does(L, E, <<Try({"wide"})>>, {"wide"}, {}, {"wide"}, {})
  BY Tries
<1>3. Does(L, E, <<Get("wide", {})>>, {"wide"}, {}, {"wide"}, {})
  BY Gets
<1>4. Does(L, E, <<Get("wide", {}), Try({"wide"})>>, {"wide"}, {}, {"wide"}, {})
  BY <1>2, <1>3, Two
<1>5. <<Get("wide", {}), Try({"wide"})>> # <<>>
  OBVIOUS
<1>6. Does(L, E, <<Loop(<<Get("wide", {}), Try({"wide"})>>)>>, {"wide"}, {}, {"wide"}, {})
  BY <1>4, <1>5, AgainAndAgain
<1>7. Does(L, E, <<Get("wide", {}), Try({"wide"}), Loop(<<Get("wide", {}), Try({"wide"})>>)>>,
            {}, {}, {"wide"}, {})
  BY <1>1, <1>2, <1>6, Three
<1>8. Does(L, E, wstr_to_utf8({"wide"}), {"wide"}, {}, {"wide", "utf8"}, {})
  BY ToUtf8
<1>9. Does(L, E, <<Put({"wide", "utf8"})>>, {"wide", "utf8"}, {}, {}, {})
  BY Puts
<1> QED BY <1>7, <1>8, <1>9, InTurn DEF execPath

\* title
LEMMA TitlePath ==
    ASSUME NEW L, NEW E, "none" \in E, "wide" \in L
    PROVE  Does(L, E, title, {}, {}, {}, {})
<1>1. Does(L, E, execPath, {}, {}, {}, {})
  BY ExecPathPath
<1>2. Does(L, E, <<Take({"path"})>>, {}, {}, {"path"}, {})
  BY Takes
<1>3. Does(L, E, <<Get("cstring", {"path"})>>, {"path"}, {}, {"cstring", "path"}, {})
  BY Gets
<1>4. Does(L, E, <<Put({"cstring", "path"})>>, {"cstring", "path"}, {}, {}, {})
  BY Puts
<1>5. Does(L, E, <<Take({"path"}), Get("cstring", {"path"}), Put({"cstring", "path"})>>,
            {}, {}, {}, {})
  BY <1>2, <1>3, <1>4, Three
<1> QED BY <1>1, <1>5, InTurn DEF title

\* Something is obtained, or not, and given back at once.
LEMMA TakenAndPut ==
    ASSUME NEW L, NEW E, "none" \in E, NEW h, NEW r, r \notin h
    PROVE  Does(L, E, <<Maybe(<<Take({r}), Put({r})>>)>>, h, {}, h, {})
<1>1. Does(L, E, <<Take({r})>>, h, {}, h \cup {r}, {})
  BY Takes
<1>2. Does(L, E, <<Put({r})>>, h \cup {r}, {}, h, {})
  BY Puts
<1>3. Does(L, E, <<Take({r}), Put({r})>>, h, {}, h, {})
  BY <1>1, <1>2, Two
<1> QED BY <1>3, MaybeNot

\* ppid
LEMMA PpidPath ==
    ASSUME NEW L, NEW E, "none" \in E
    PROVE  Does(L, E, ppid, {}, {}, {}, {})
<1> QED BY TakenAndPut DEF ppid, GetParentPID

\* env
LEMMA EnvPath ==
    ASSUME NEW L, NEW E, "none" \in E
    PROVE  Does(L, E, env, {}, {}, {}, {})
<1>1. Does(L, E, <<Get("environment", {})>>, {}, {}, {"environment"}, {})
  BY Gets
<1>2. Does(L, E, <<Put({"environment"})>>, {"environment"}, {}, {}, {})
  BY Puts
<1> QED BY <1>1, <1>2, Two DEF env

\* argv
LEMMA ArgvPath ==
    ASSUME NEW L, NEW E, "none" \in E
    PROVE  Does(L, E, js_argv, {}, {}, {}, {})
<1>1. Does(L, E, <<Get("array", {})>>, {}, {}, {"array"}, {})
  BY Gets
<1>2. Does(L, E, <<Try({"array"})>>, {"array"}, {}, {"array"}, {})
  BY Tries
<1>3. <<Try({"array"})>> # <<>>
  OBVIOUS
<1>4. Does(L, E, <<Loop(<<Try({"array"})>>)>>, {"array"}, {}, {"array"}, {})
  BY <1>2, <1>3, AgainAndAgain
<1>5. Does(L, E, <<Put({"array"})>>, {"array"}, {}, {}, {})
  BY Puts
<1> QED BY <1>1, <1>4, <1>5, Three DEF js_argv

\* kill
LEMMA KillPath ==
    ASSUME NEW L, NEW E, {"none", "terminate"} \subseteq E
    PROVE  Does(L, E, js_kill, {}, {}, {}, {})
<1>1. Does(L, E, <<Try({})>>, {}, {}, {}, {})
  BY Tries
<1>2. Does(L, E, <<Get("process", {})>>, {}, {}, {"process"}, {})
  BY Gets
<1>3. Does(L, E, <<Do("terminate")>>, {"process"}, {}, {"process"}, {})
  BY Touches DEF Fits, After
<1>4. Does(L, E, <<Maybe(<<Do("terminate")>>)>>, {"process"}, {}, {"process"}, {})
  BY <1>3, MaybeNot
<1>5. Does(L, E, <<Put({"process"})>>, {"process"}, {}, {}, {})
  BY Puts
<1>6. Does(L, E, <<Maybe(<<Try({})>>)>>, {}, {}, {}, {})
  BY <1>1, MaybeNot
<1> QED BY <1>1, <1>2, <1>4, <1>5, <1>6, Five DEF js_kill

\* freemem and totalmem
LEMMA MemPath ==
    ASSUME NEW L, NEW E, "none" \in E
    PROVE  Does(L, E, <<Try({})>>, {}, {}, {}, {})
<1> QED BY Tries

\* A wide string in a local array, returned.
LEMMA FromWidePath ==
    ASSUME NEW L, NEW E, "none" \in E
    PROVE  Does(L, E, FromWide, {}, {}, {}, {})
<1>1. Does(L, E, wstr_to_utf8({}), {}, {}, {"utf8"}, {})
  BY ToUtf8
<1>2. Does(L, E, <<Put({"utf8"})>>, {"utf8"}, {}, {}, {})
  BY Puts
<1> QED BY <1>1, <1>2, InTurn DEF FromWide

\* homedir, hostname, username and osRelease
LEMMA NamePath ==
    ASSUME NEW L, NEW E, "none" \in E
    PROVE  Does(L, E, <<Try({})>> \o FromWide, {}, {}, {}, {})
<1> QED BY MemPath, FromWidePath, InTurn

\* osVersion
LEMMA OsVersionPath ==
    ASSUME NEW L, NEW E, "none" \in E
    PROVE  Does(L, E, osVersion, {}, {}, {}, {})
<1>1. Does(L, E, <<Maybe(<<Take({"key"}), Put({"key"})>>)>>, {}, {}, {}, {})
  BY TakenAndPut
<1> QED BY <1>1, FromWidePath, InTurn DEF osVersion

\* fsConstants
LEMMA FsConstantsPath ==
    ASSUME NEW L, NEW E, "none" \in E
    PROVE  Does(L, E, fsConstants, {}, {}, {}, {})
<1>1. Does(L, E, <<Take({"constants"})>>, {}, {}, {"constants"}, {})
  BY Takes
<1>2. Does(L, E, <<Put({"constants"})>>, {"constants"}, {}, {}, {})
  BY Puts
<1> QED BY <1>1, <1>2, Two DEF fsConstants

\* osConstants
LEMMA OsConstantsPath ==
    ASSUME NEW L, NEW E, "none" \in E
    PROVE  Does(L, E, osConstants, {}, {}, {}, {})
<1>1. Does(L, E, <<Take({"dlopen", "errnum", "signals", "priority", "constants"})>>,
            {}, {}, {"dlopen", "errnum", "signals", "priority", "constants"}, {})
  BY Takes
<1>2. Does(L, E, <<Put({"dlopen", "errnum", "signals", "priority"})>>,
            {"dlopen", "errnum", "signals", "priority", "constants"}, {}, {"constants"}, {})
  BY Puts
<1>3. Does(L, E, <<Put({"constants"})>>, {"constants"}, {}, {}, {})
  BY Puts
<1>4. Does(L, E, <<Take({"dlopen", "errnum", "signals", "priority", "constants"}),
                   Put({"dlopen", "errnum", "signals", "priority"}), Put({"constants"})>>,
           {}, {}, {}, {})
  BY <1>1, <1>2, <1>3, Three
<1> QED BY <1>4 DEF osConstants

\* Printing, which sets the stream to UTF-16 and back.  It can leave the wide
\* string behind.
LEMMA PrintPath ==
    ASSUME NEW L, NEW E, "wide" \in L, NEW w, NEW p, NEW b, NEW D,
           {"none", "string", w, p, b} \subseteq E,
           Fits(w, {}), After(w, {}) = D, Fits(p, D), After(p, D) = D,
           Fits(b, D), After(b, D) = {}
    PROVE  Does(L, E, <<Maybe(PrintTo(w, p, b))>>, {}, {}, {}, {})
<1>1. Does(L, E, <<Get("cstring", {})>>, {}, {}, {"cstring"}, {})
  BY Gets
<1>2. Does(L, E, utf8_to_wchar({"cstring"}), {"cstring"}, {}, {"cstring", "wide"}, {})
  BY ToWide
<1>3. Does(L, E, <<Put({"cstring"})>>, {"cstring", "wide"}, {}, {"wide"}, {})
  BY Puts
<1>4. Does(L, E, <<TryTo(w, {})>>, {"wide"}, {}, {"wide"}, D)
  BY TriesTo
<1>5. Does(L, E, <<Do(p)>>, {"wide"}, D, {"wide"}, D)
  BY Touches
<1>6. Does(L, E, <<Do(b)>>, {"wide"}, D, {"wide"}, {})
  BY Touches
<1>7. Does(L, E, <<Put({"wide"})>>, {"wide"}, {}, {}, {})
  BY Puts
<1>8. Does(L, E, <<Put({"cstring"}), TryTo(w, {}), Do(p), Do(b), Put({"wide"})>>,
            {"cstring", "wide"}, {}, {}, {})
  BY <1>3, <1>4, <1>5, <1>6, <1>7, Five
<1>9. Does(L, E, PrintTo(w, p, b), {}, {}, {}, {})
  BY <1>1, <1>2, <1>8, InTurn DEF PrintTo
<1> QED BY <1>9, MaybeNot

\* stdout and stderr
LEMMA StreamPaths ==
    ASSUME NEW L, NEW E, "wide" \in L
    PROVE  /\ {"none", "string", "stdout wide", "stdout print", "stdout back"} \subseteq E =>
                 Does(L, E, js_stdout, {}, {}, {}, {})
           /\ {"none", "string", "stderr wide", "stderr print", "stderr back"} \subseteq E =>
                 Does(L, E, js_stderr, {}, {}, {}, {})
<1>1. ASSUME {"none", "string", "stdout wide", "stdout print", "stdout back"} \subseteq E
      PROVE  Does(L, E, js_stdout, {}, {}, {}, {})
  <2>1. /\ Fits("stdout wide", {}) /\ After("stdout wide", {}) = {"stdout"}
        /\ Fits("stdout print", {"stdout"}) /\ After("stdout print", {"stdout"}) = {"stdout"}
        /\ Fits("stdout back", {"stdout"}) /\ After("stdout back", {"stdout"}) = {}
    BY DEF Fits, After
  <2> QED BY <1>1, <2>1, PrintPath DEF js_stdout
<1>2. ASSUME {"none", "string", "stderr wide", "stderr print", "stderr back"} \subseteq E
      PROVE  Does(L, E, js_stderr, {}, {}, {}, {})
  <2>1. /\ Fits("stderr wide", {}) /\ After("stderr wide", {}) = {"stderr"}
        /\ Fits("stderr print", {"stderr"}) /\ After("stderr print", {"stderr"}) = {"stderr"}
        /\ Fits("stderr back", {"stderr"}) /\ After("stderr back", {"stderr"}) = {}
    BY DEF Fits, After
  <2> QED BY <1>2, <2>1, PrintPath DEF js_stderr
<1> QED BY <1>1, <1>2

\* umask
LEMMA UmaskPath ==
    ASSUME NEW L, NEW E, {"none", "mask all", "mask back", "mask on", "mask off"} \subseteq E
    PROVE  Does(L, E, js_umask, {}, {}, {}, {})
<1>1. Does(L, E, <<Do("mask all")>>, {}, {}, {}, {"mask"})
  BY Touches DEF Fits, After
<1>2. Does(L, E, <<Do("mask back")>>, {}, {"mask"}, {}, {})
  BY Touches DEF Fits, After
<1>3. Does(L, E, QueryMask, {}, {}, {}, {})
  BY <1>1, <1>2, Two DEF QueryMask
<1>4. Does(L, E, <<Do("mask on")>>, {}, {}, {}, {})
  BY Touches DEF Fits, After
<1>5. Does(L, E, <<Do("mask off")>>, {}, {}, {}, {})
  BY Touches DEF Fits, After
<1> DEFINE set == <<Either({QueryMask, <<Do("mask on")>>, <<Do("mask off")>>})>>
<1>6. Does(L, E, set, {}, {}, {}, {})
  BY <1>3, <1>4, <1>5, EitherWay
<1>7. Does(L, E, <<Try({})>>, {}, {}, {}, {})
  BY Tries
<1> DEFINE try == <<Try({}), Either({QueryMask, <<Do("mask on")>>, <<Do("mask off")>>})>>
<1>8. Does(L, E, try, {}, {}, {}, {})
  BY <1>6, <1>7, Two
<1> HIDE DEF try
<1>9. {QueryMask, try} = {QueryMask, try, try}
  OBVIOUS
<1>10. Does(L, E, <<Either({QueryMask, try})>>, {}, {}, {}, {})
  BY <1>3, <1>8, <1>9, EitherWay
<1> QED BY <1>10 DEF js_umask, try

\* exit, reallyExit, abort, and the end of main
LEMMA EndPaths ==
    ASSUME NEW L, NEW E, "none" \in E
    PROVE  /\ {"free runtime", "end"} \subseteq E =>
                 /\ Does(L, E, js_exit, {}, {}, {}, {})
                 /\ Does(L, E, main, {}, {}, {}, {})
           /\ "end" \in E => Does(L, E, reallyExit, {}, {}, {}, {})
           /\ "terminate" \in E => Does(L, E, js_abort, {}, {}, {}, {})
<1>1. ASSUME {"free runtime", "end"} \subseteq E
      PROVE  Does(L, E, js_exit, {}, {}, {}, {}) /\ Does(L, E, main, {}, {}, {}, {})
  <2>1. Does(L, E, <<Do("free runtime")>>, {}, {}, {}, {"freed"})
    BY <1>1, Touches DEF Fits, After
  <2>2. Does(L, E, <<Do("end")>>, {}, {"freed"}, {}, {})
    BY <1>1, Touches DEF Fits, After
  <2>3. Does(L, E, <<Try({})>>, {}, {}, {}, {})
    BY Tries
  <2>4. Does(L, E, <<Maybe(<<Try({})>>)>>, {}, {}, {}, {})
    BY <2>3, MaybeNot
  <2>5. Does(L, E, js_exit, {}, {}, {}, {})
    BY <2>1, <2>2, <2>4, Three DEF js_exit
  <2>6. Does(L, E, main, {}, {}, {}, {})
    BY <2>1, <2>2, Two DEF main
  <2> QED BY <2>5, <2>6
<1>2. ASSUME "end" \in E PROVE Does(L, E, reallyExit, {}, {}, {}, {})
  BY <1>2, Touches DEF Fits, After, reallyExit
<1>3. ASSUME "terminate" \in E PROVE Does(L, E, js_abort, {}, {}, {}, {})
  BY <1>3, Touches DEF Fits, After, js_abort
<1> QED BY <1>1, <1>2, <1>3

\* fs_open, fs_unlink and fs_write_buffer
LEMMA FilePaths ==
    ASSUME NEW L, NEW E, "none" \in E
    PROVE  /\ {"string", "create"} \subseteq E => Does(L, E, fs_open, {}, {}, {}, {})
           /\ "string" \in E => Does(L, E, fs_unlink, {}, {}, {}, {})
           /\ "write" \in E => Does(L, E, fs_write_buffer, {}, {}, {}, {})
<1>1. Does(L, E, <<Put({"wide"})>>, {"wide"}, {}, {}, {})
  BY Puts
<1>2. ASSUME "string" \in E
      PROVE  Does(L, E, utf8_to_wchar({}), {}, {}, {"wide"}, {})
  BY <1>2, ToWide
<1>3. ASSUME {"string", "create"} \subseteq E PROVE Does(L, E, fs_open, {}, {}, {}, {})
  <2>1. Does(L, E, <<Do("create")>>, {"wide"}, {}, {"wide"}, {})
    BY <1>3, Touches DEF Fits, After
  <2>2. Does(L, E, <<Do("create"), Put({"wide"})>>, {"wide"}, {}, {}, {})
    BY <1>1, <2>1, Two
  <2> QED BY <1>2, <1>3, <2>2, InTurn DEF fs_open
<1>4. ASSUME "string" \in E PROVE Does(L, E, fs_unlink, {}, {}, {}, {})
  BY <1>1, <1>2, <1>4, InTurn DEF fs_unlink
<1>5. ASSUME "write" \in E PROVE Does(L, E, fs_write_buffer, {}, {}, {}, {})
  BY <1>5, Touches DEF Fits, After, fs_write_buffer
<1> QED BY <1>3, <1>4, <1>5

\* Opening a directory, by a caller that holds undo.
LEMMA OpenDirPath ==
    ASSUME NEW L, NEW E, "none" \in E, NEW undo,
           {"find", "buffer", "link", "file"} \cap undo = {}
    PROVE  Does(L, E, __internal_opendir(undo), undo, {}, undo \cup Directory, {})
<1> DEFINE found == undo \cup {"find"}
           data  == found \cup {"data", "handle"}
           all   == data \cup {"entries", "buffer"}
           grow  == Maybe(<<Get("entries", all)>>)
<1>1. Does(L, E, <<Get("find", undo)>>, undo, {}, found, {})
  BY Gets
<1>2. Does(L, E, <<Get("data", found)>>, found, {}, found \cup {"data"}, {})
  BY Gets
<1>3. Does(L, E, <<Take({"handle"})>>, found \cup {"data"}, {}, data, {})
  BY Takes
<1>4. Does(L, E, <<Get("entries", data)>>, data, {}, data \cup {"entries"}, {})
  BY Gets
<1>5. Does(L, E, <<Get("buffer", data \cup {"entries"})>>, data \cup {"entries"}, {}, all, {})
  BY Gets
<1>6. Does(L, E, <<__islink>>, all, {}, all, {})
  BY TakenAndPut DEF __islink
<1>7. Does(L, E, <<__inode>>, all, {}, all, {})
  BY TakenAndPut DEF __inode
<1>8. Does(L, E, <<Get("entries", all)>>, all, {}, all, {})
  BY Gets
<1>9. Does(L, E, <<grow>>, all, {}, all, {})
  BY <1>8, MaybeNot
<1>10. Does(L, E, <<Put({"buffer", "find"})>>, all, {}, undo \cup Directory, {})
  BY Puts DEF Directory
<1> HIDE DEF found, data, all, grow
<1>11. Does(L, E, <<__islink, __inode, grow>>, all, {}, all, {})
  BY <1>6, <1>7, <1>9, Three
<1>12. <<__islink, __inode, grow>> # <<>>
  OBVIOUS
<1>13. Does(L, E, <<Loop(<<__islink, __inode, grow>>)>>, all, {}, all, {})
  BY <1>11, <1>12, AgainAndAgain
<1>14. Does(L, E, <<Get("find", undo), Get("data", found), Take({"handle"}),
                    Get("entries", data), Get("buffer", data \cup {"entries"}),
                    Loop(<<__islink, __inode, grow>>), Put({"buffer", "find"})>>,
            undo, {}, undo \cup Directory, {})
  BY <1>1, <1>2, <1>3, <1>4, <1>5, <1>10, <1>13, Seven
<1> QED BY <1>14 DEF __internal_opendir, found, data, all, grow

\* fs_readdir
LEMMA ReadDirPath ==
    ASSUME NEW L, NEW E, {"none", "string"} \subseteq E
    PROVE  Does(L, E, fs_readdir, {}, {}, {}, {})
<1> DEFINE name  == {"wide"} \cup {"name"}
           grow  == Maybe(<<Get("strs", Directory \cup {"strs"})>>)
           copy  == <<grow, Try(Directory \cup {"strs"})>>
<1>1. Does(L, E, utf8_to_wchar({}), {}, {}, {"wide"}, {})
  BY ToWide
<1>2. Does(L, E, _wopendir({"wide"}), {"wide"}, {}, {"wide"} \cup Directory, {})
  <2>1. Does(L, E, __get_buffer({"wide"}), {"wide"}, {}, name, {})
    BY Gets DEF __get_buffer
  <2>2. Does(L, E, <<Try(name)>>, name, {}, name, {})
    BY Tries
  <2>3. Does(L, E, __internal_opendir(name), name, {}, name \cup Directory, {})
    BY OpenDirPath
  <2>4. Does(L, E, <<Put({"name"})>>, name \cup Directory, {}, {"wide"} \cup Directory, {})
    BY Puts DEF Directory
  <2> QED BY <2>1, <2>2, <2>3, <2>4, InTurn DEF _wopendir
<1>3. Does(L, E, <<Put({"wide"})>>, {"wide"} \cup Directory, {}, Directory, {})
  BY Puts DEF Directory
<1>4. Does(L, E, <<Get("strs", Directory)>>, Directory, {}, Directory \cup {"strs"}, {})
  BY Gets
<1>5. Does(L, E, <<Get("strs", Directory \cup {"strs"})>>,
           Directory \cup {"strs"}, {}, Directory \cup {"strs"}, {})
  BY Gets
<1>6. Does(L, E, <<grow>>, Directory \cup {"strs"}, {}, Directory \cup {"strs"}, {})
  BY <1>5, MaybeNot
<1>7. Does(L, E, <<Try(Directory \cup {"strs"})>>,
           Directory \cup {"strs"}, {}, Directory \cup {"strs"}, {})
  BY Tries
<1>8. Does(L, E, copy, Directory \cup {"strs"}, {}, Directory \cup {"strs"}, {}) /\ copy # <<>>
  BY <1>6, <1>7, Two
<1>9. Does(L, E, <<Loop(copy)>>, Directory \cup {"strs"}, {}, Directory \cup {"strs"}, {})
  BY <1>8, AgainAndAgain
<1>10. Does(L, E, <<Get("strs", Directory), Loop(copy)>>,
            Directory, {}, Directory \cup {"strs"}, {})
  BY <1>4, <1>9, Two
<1>11. Does(L, E, closedir, Directory \cup {"strs"}, {}, {"strs"}, {})
  BY Puts DEF closedir, Directory
<1>12. Does(L, E, <<Try({"strs"})>>, {"strs"}, {}, {"strs"}, {})
  BY Tries
<1>13. Does(L, E, <<Put({"strs"})>>, {"strs"}, {}, {}, {})
  BY Puts
<1>14. Does(L, E, <<Try({"strs"}), Put({"strs"})>>, {"strs"}, {}, {}, {})
  BY <1>12, <1>13, Two
<1>15. Does(L, E, utf8_to_wchar({}) \o _wopendir({"wide"}) \o <<Put({"wide"})>>,
            {}, {}, Directory, {})
  BY <1>1, <1>2, <1>3, InTurn
<1> QED BY <1>10, <1>11, <1>14, <1>15, InTurn DEF fs_readdir

-----------------------------------------------------------------------------
(* The invariant.                                                          *)

\* What may be left behind when a function fails.
Left(f) == IF f \in {"execPath", "title", "stdout", "stderr"} THEN {"wide"} ELSE {}

\* What the steps of a function do to the process.
Effects(f) ==
    CASE f = "umask" -> {"none", "mask all", "mask back", "mask on", "mask off"}
      [] f = "stdout" -> {"none", "string", "stdout wide", "stdout print", "stdout back"}
      [] f = "stderr" -> {"none", "string", "stderr wide", "stderr print", "stderr back"}
      [] f \in {"kill", "abort"} -> {"none", "terminate"}
      [] f \in {"exit", "main", "mainAfterThrow"} -> {"none", "free runtime", "end"}
      [] f = "reallyExit" -> {"none", "end"}
      [] f = "open" -> {"none", "string", "create"}
      [] f \in {"unlink", "readdir"} -> {"none", "string"}
      [] f = "write" -> {"none", "write"}
      [] OTHER -> {"none"}

\* How far a thread has come: it will come to its end, or it has failed.
ThreadInv(t, d) ==
    /\ call[t] = None => todo[t] = <<>> /\ held[t] = {} /\ failed[t] = FALSE /\ d = {}
    /\ call[t] # None /\ failed[t] => todo[t] = <<>> /\ held[t] \subseteq Left(call[t]) /\ d = {}
    /\ call[t] # None /\ ~failed[t] =>
          Safe(Left(call[t]), Effects(call[t]), todo[t], held[t], d)

\* The state of the process is as asked, but for what the JavaScript thread has
\* left to set right.
StateInv(d) ==
    /\ mask # wanted => d = {"mask"}
    /\ d = {"mask"} => saved = wanted /\ call[JS] = "umask"
    /\ wide \subseteq d \cap Stream
    /\ d \cap Stream # {} => call[JS] \in Stream
    /\ runtime = "freed" => d = {"freed"}
    /\ d = {"freed"} => call[JS] \in {"exit", "main", "mainAfterThrow"}

\* The history has only what SharedStateAsAsked allows.
OddInv ==
    /\ pending => redirected
    /\ \A o \in odd :
          \/ o.what = "created" /\ o.during = "umask"
          \/ o.what = "written" /\ o.during \in Stream
          \/ o.what = "flushed" /\ redirected
          \/ o.what = "lost" /\ redirected /\ o.during \in {"abort", "kill"}

\* The inductive invariant.
CallsInv ==
    /\ call \in [Thread -> DOMAIN Bindings \cup DOMAIN Operations \cup {None}]
    /\ DOMAIN todo = Thread /\ todo = [t \in Thread |-> todo[t]]
    /\ DOMAIN held = Thread /\ held = [t \in Thread |-> held[t]]
    /\ failed \in [Thread -> BOOLEAN]
    /\ call[JS] \in DOMAIN Bindings \cup {None}
    /\ \A w \in Worker : call[w] \in DOMAIN Operations \cup {None}
    /\ \A w \in Worker : ThreadInv(w, {})
    /\ \E d : ThreadInv(JS, d) /\ StateInv(d)
    /\ call[JS] = "main" => \A w \in Worker : call[w] = None

\* What a thread does leaves the others where they are.
OthersStay(t) ==
    /\ call' = [call EXCEPT ![t] = call'[t]]
    /\ todo' = [todo EXCEPT ![t] = todo'[t]]
    /\ held' = [held EXCEPT ![t] = held'[t]]
    /\ failed' = [failed EXCEPT ![t] = failed'[t]]

\* The state of the process has its types.
SharedOK ==
    /\ mask \in BOOLEAN /\ saved \in BOOLEAN /\ wanted \in BOOLEAN
    /\ wide \in SUBSET Stream
    /\ redirected \in BOOLEAN /\ pending \in BOOLEAN
    /\ runtime \in {"up", "freed", "over"}
    /\ odd \in SUBSET [what : {"created", "written", "flushed", "lost"},
                       during : DOMAIN Bindings \cup {None}]
    /\ touched \in SUBSET DOMAIN Operations

IInv ==
    /\ CallsInv
    /\ SharedOK
    /\ OddInv
    /\ FreedOnlyUnderAbandoned

-----------------------------------------------------------------------------
(* Calls that are safe.                                                    *)

\* What is known of a call that will come to its end, and how it goes on.
LEMMA SafeUnfolds ==
    ASSUME NEW L, NEW E, NEW p, NEW h, NEW d, Safe(L, E, p, h, d)
    PROVE  \E X : /\ Sound(L, E, p, h, d, X)
                  /\ \A x, y, z : <<x, y, z>> \in X => Safe(L, E, x, y, z)
<1>1. PICK X : /\ <<p, h, d>> \in X
               /\ \A x, y, z : <<x, y, z>> \in X => Sound(L, E, x, y, z, X)
  BY DEF Safe
<1>2. Sound(L, E, p, h, d, X)
  BY <1>1
<1>3. \A x, y, z : <<x, y, z>> \in X => Safe(L, E, x, y, z)
  BY <1>1 DEF Safe
<1> QED BY <1>2, <1>3

\* At its end it has nothing.
LEMMA SafeEnds ==
    ASSUME NEW L, NEW E, NEW h, NEW d, Safe(L, E, <<>>, h, d)
    PROVE  h = {} /\ d = {}
<1>1. PICK X : Sound(L, E, <<>>, h, d, X)
  BY SafeUnfolds
<1> QED BY <1>1 DEF Sound

\* What the next step gives back, and releases when it fails, it has.
LEMMA SafeFails ==
    ASSUME NEW L, NEW E, NEW p, NEW h, NEW d, Safe(L, E, p, h, d), p # <<>>
    PROVE  /\ Head(p).puts \subseteq h
           /\ Head(p).undo \subseteq h
           /\ Head(p).fails => h \ Head(p).undo \subseteq L /\ d = {}
<1>1. PICK X : /\ Sound(L, E, p, h, d, X)
               /\ \A x, y, z : <<x, y, z>> \in X => Safe(L, E, x, y, z)
  BY SafeUnfolds
<1> QED BY <1>1 DEF Sound

\* After the next step it will still come to its end.
LEMMA SafeSucceeds ==
    ASSUME NEW L, NEW E, NEW p, NEW h, NEW d, Safe(L, E, p, h, d), p # <<>>,
           Head(p).ways = {}
    PROVE  /\ Head(p).effect \in E
           /\ Fits(Head(p).effect, d)
           /\ Safe(L, E, Tail(p), (h \cup Head(p).gets) \ Head(p).puts,
                   After(Head(p).effect, d))
<1>1. PICK X : /\ Sound(L, E, p, h, d, X)
               /\ \A x, y, z : <<x, y, z>> \in X => Safe(L, E, x, y, z)
  BY SafeUnfolds
<1> QED BY <1>1 DEF Sound

\* And so on every way.
LEMMA SafeChooses ==
    ASSUME NEW L, NEW E, NEW p, NEW h, NEW d, Safe(L, E, p, h, d), p # <<>>,
           NEW w \in Head(p).ways
    PROVE  Safe(L, E, IF Head(p).again /\ w # <<>> THEN w \o p ELSE w \o Tail(p), h, d)
<1>1. PICK X : /\ Sound(L, E, p, h, d, X)
               /\ \A x, y, z : <<x, y, z>> \in X => Safe(L, E, x, y, z)
  BY SafeUnfolds
<1>2. <<IF Head(p).again /\ w # <<>> THEN w \o p ELSE w \o Tail(p), h, d>> \in X
  BY <1>1 DEF Sound
<1> QED BY <1>1, <1>2

\* Whatever a script calls comes to its end and gives back what it has.
LEMMA BindingsSafe ==
    ASSUME NEW f \in DOMAIN Bindings
    PROVE  Safe(Left(f), Effects(f), Bindings[f], {}, {})
<1> DEFINE L == Left(f)
           E == Effects(f)
<1>0. "none" \in E
  BY DEF Effects
<1>1. f \in {"arch", "platform", "hrtime", "pid", "cwd", "execPath", "title", "ppid", "env",
        "argv", "kill", "endianness", "freemem", "totalmem", "uptime", "osType",
        "tmpdir", "uid", "gid", "shell", "homedir", "hostname", "username", "osMachine",
        "osRelease", "osVersion", "osConstants", "fsConstants", "isExternal", "isProxy",
        "isModuleNamespaceObject", "getProxyTarget", "getProxyHandler",
        "getPromiseState", "getPromiseResult", "stdout", "stderr", "umask",
        "exit", "reallyExit", "abort", "main", "mainAfterThrow"}
  BY DEF Bindings
<1> DEFINE quiet == {"arch", "platform", "hrtime", "pid", "endianness", "uptime", "osType",
                    "tmpdir", "uid", "gid", "shell", "isExternal", "isProxy",
                    "isModuleNamespaceObject", "getProxyTarget", "getProxyHandler",
                    "getPromiseState", "getPromiseResult"}
<1>2. ASSUME f \in quiet PROVE Does(L, E, Bindings[f], {}, {}, {}, {})
  <2>1. Bindings[f] = <<>>
    BY <1>2 DEF Bindings, Returns,
       arch, endianness, getPromiseResult, getPromiseState, getProxyHandler,
       getProxyTarget, gid, hrtime, isExternal, isModuleNamespaceObject, isProxy,
       osType, pid, platform, shell, tmpdir, uid, uptime
  <2> QED BY <2>1, NoStep
<1>3. ASSUME f \in {"freemem", "totalmem", "homedir", "hostname", "username",
                     "osMachine", "osRelease", "osVersion"}
      PROVE  Does(L, E, Bindings[f], {}, {}, {}, {})
  <2>1. CASE f = "freemem"
    <3>1. Bindings[f] = freemem
      BY <2>1 DEF Bindings
    <3> QED BY <1>0, <3>1, MemPath DEF freemem
  <2>2. CASE f = "totalmem"
    <3>1. Bindings[f] = totalmem
      BY <2>2 DEF Bindings
    <3> QED BY <1>0, <3>1, MemPath DEF totalmem
  <2>3. CASE f = "homedir"
    <3>1. Bindings[f] = homedir
      BY <2>3 DEF Bindings
    <3> QED BY <1>0, <3>1, NamePath DEF homedir
  <2>4. CASE f = "hostname"
    <3>1. Bindings[f] = hostname
      BY <2>4 DEF Bindings
    <3> QED BY <1>0, <3>1, NamePath DEF hostname
  <2>5. CASE f = "username"
    <3>1. Bindings[f] = username
      BY <2>5 DEF Bindings
    <3> QED BY <1>0, <3>1, NamePath DEF username
  <2>6. CASE f = "osMachine"
    <3>1. Bindings[f] = osMachine
      BY <2>6 DEF Bindings
    <3> QED BY <1>0, <3>1, FromWidePath DEF osMachine
  <2>7. CASE f = "osRelease"
    <3>1. Bindings[f] = osRelease
      BY <2>7 DEF Bindings
    <3> QED BY <1>0, <3>1, NamePath DEF osRelease
  <2>8. CASE f = "osVersion"
    <3>1. Bindings[f] = osVersion
      BY <2>8 DEF Bindings
    <3> QED BY <1>0, <3>1, OsVersionPath
  <2> QED BY <1>3, <2>1, <2>2, <2>3, <2>4, <2>5, <2>6, <2>7, <2>8
<1>4. ASSUME f \in {"cwd", "ppid", "env", "argv", "fsConstants", "osConstants"}
      PROVE  Does(L, E, Bindings[f], {}, {}, {}, {})
  <2>1. CASE f = "cwd"
    <3>1. Bindings[f] = cwd
      BY <2>1 DEF Bindings
    <3> QED BY <1>0, <3>1, CwdPath
  <2>2. CASE f = "ppid"
    <3>1. Bindings[f] = ppid
      BY <2>2 DEF Bindings
    <3> QED BY <1>0, <3>1, PpidPath
  <2>3. CASE f = "env"
    <3>1. Bindings[f] = env
      BY <2>3 DEF Bindings
    <3> QED BY <1>0, <3>1, EnvPath
  <2>4. CASE f = "argv"
    <3>1. Bindings[f] = js_argv
      BY <2>4 DEF Bindings
    <3> QED BY <1>0, <3>1, ArgvPath
  <2>5. CASE f = "fsConstants"
    <3>1. Bindings[f] = fsConstants
      BY <2>5 DEF Bindings
    <3> QED BY <1>0, <3>1, FsConstantsPath
  <2>6. CASE f = "osConstants"
    <3>1. Bindings[f] = osConstants
      BY <2>6 DEF Bindings
    <3> QED BY <1>0, <3>1, OsConstantsPath
  <2> QED BY <1>4, <2>1, <2>2, <2>3, <2>4, <2>5, <2>6
<1>5. ASSUME f \in {"execPath", "title"}
      PROVE  Does(L, E, Bindings[f], {}, {}, {}, {})
  <2>1. CASE f = "execPath"
    <3>1. Bindings[f] = execPath
      BY <2>1 DEF Bindings
    <3> QED BY <1>0, <2>1, <3>1, ExecPathPath DEF Effects, Left
  <2>2. CASE f = "title"
    <3>1. Bindings[f] = title
      BY <2>2 DEF Bindings
    <3> QED BY <1>0, <2>2, <3>1, TitlePath DEF Effects, Left
  <2> QED BY <1>5, <2>1, <2>2
<1>6. ASSUME f \in {"kill", "abort"}
      PROVE  Does(L, E, Bindings[f], {}, {}, {}, {})
  <2>1. CASE f = "kill"
    <3>1. Bindings[f] = js_kill
      BY <2>1 DEF Bindings
    <3> QED BY <1>0, <2>1, <3>1, KillPath DEF Effects, Left
  <2>2. CASE f = "abort"
    <3>1. Bindings[f] = js_abort
      BY <2>2 DEF Bindings
    <3> QED BY <1>0, <2>2, <3>1, EndPaths DEF Effects, Left
  <2> QED BY <1>6, <2>1, <2>2
<1>7. ASSUME f \in {"exit", "main", "mainAfterThrow", "reallyExit"}
      PROVE  Does(L, E, Bindings[f], {}, {}, {}, {})
  <2>1. CASE f = "exit"
    <3>1. Bindings[f] = js_exit
      BY <2>1 DEF Bindings
    <3> QED BY <1>0, <2>1, <3>1, EndPaths DEF Effects, Left
  <2>2. CASE f = "main"
    <3>1. Bindings[f] = main
      BY <2>2 DEF Bindings
    <3> QED BY <1>0, <2>2, <3>1, EndPaths DEF Effects, Left
  <2>3. CASE f = "mainAfterThrow"
    <3>1. Bindings[f] = main
      BY <2>3 DEF Bindings
    <3> QED BY <1>0, <2>3, <3>1, EndPaths DEF Effects, Left
  <2>4. CASE f = "reallyExit"
    <3>1. Bindings[f] = reallyExit
      BY <2>4 DEF Bindings
    <3> QED BY <1>0, <2>4, <3>1, EndPaths DEF Effects, Left
  <2> QED BY <1>7, <2>1, <2>2, <2>3, <2>4
<1>8. ASSUME f \in {"umask"}
      PROVE  Does(L, E, Bindings[f], {}, {}, {}, {})
  <2>1. CASE f = "umask"
    <3>1. Bindings[f] = js_umask
      BY <2>1 DEF Bindings
    <3> QED BY <1>0, <2>1, <3>1, UmaskPath DEF Effects, Left
  <2> QED BY <1>8, <2>1
<1>9. ASSUME f \in {"stdout", "stderr"}
      PROVE  Does(L, E, Bindings[f], {}, {}, {}, {})
  <2>1. CASE f = "stdout"
    <3>1. Bindings[f] = js_stdout
      BY <2>1 DEF Bindings
    <3>2. /\ "wide" \in L
          /\ {"none", "string", "stdout wide", "stdout print", "stdout back"} \subseteq E
      BY <2>1 DEF Left, Effects
    <3> HIDE DEF L, E
    <3> QED BY <3>1, <3>2, StreamPaths
  <2>2. CASE f = "stderr"
    <3>1. Bindings[f] = js_stderr
      BY <2>2 DEF Bindings
    <3>2. /\ "wide" \in L
          /\ {"none", "string", "stderr wide", "stderr print", "stderr back"} \subseteq E
      BY <2>2 DEF Left, Effects
    <3> HIDE DEF L, E
    <3> QED BY <3>1, <3>2, StreamPaths
  <2> QED BY <1>9, <2>1, <2>2
<1>10. Does(L, E, Bindings[f], {}, {}, {}, {})
  BY <1>1, <1>2, <1>3, <1>4, <1>5, <1>6, <1>7, <1>8, <1>9
<1> QED BY <1>10, WholeCall

\* So does whatever a worker runs.
LEMMA OperationsSafe ==
    ASSUME NEW f \in DOMAIN Operations
    PROVE  Safe(Left(f), Effects(f), Operations[f], {}, {})
<1>1. f \in {"open", "unlink", "write", "close", "readdir"}
  BY DEF Operations
<1>2. ASSUME f = "open" PROVE Does(Left(f), Effects(f), Operations[f], {}, {}, {}, {})
  <2>1. Operations[f] = fs_open
    BY <1>2 DEF Operations
  <2> QED BY <1>2, <2>1, FilePaths DEF Effects
<1>3. ASSUME f = "unlink" PROVE Does(Left(f), Effects(f), Operations[f], {}, {}, {}, {})
  <2>1. Operations[f] = fs_unlink
    BY <1>3 DEF Operations
  <2> QED BY <1>3, <2>1, FilePaths DEF Effects
<1>4. ASSUME f = "write" PROVE Does(Left(f), Effects(f), Operations[f], {}, {}, {}, {})
  <2>1. Operations[f] = fs_write_buffer
    BY <1>4 DEF Operations
  <2> QED BY <1>4, <2>1, FilePaths DEF Effects
<1>5. ASSUME f = "readdir" PROVE Does(Left(f), Effects(f), Operations[f], {}, {}, {}, {})
  <2>1. Operations[f] = fs_readdir
    BY <1>5 DEF Operations
  <2> QED BY <1>5, <2>1, ReadDirPath DEF Effects
<1>6. ASSUME f = "close" PROVE Does(Left(f), Effects(f), Operations[f], {}, {}, {}, {})
  <2>1. Operations[f] = <<>>
    BY <1>6 DEF Operations, fs_close, Returns
  <2> QED BY <2>1, NoStep
<1> QED BY <1>1, <1>2, <1>3, <1>4, <1>5, <1>6, WholeCall

-----------------------------------------------------------------------------
(* The steps of threads.                                                   *)

\* What is known of the other threads stays true.
LEMMA ThreadsApart ==
    ASSUME CallsInv, NEW t \in Thread, OthersStay(t), NEW u \in Thread \ {t}
    PROVE  /\ call'[u] = call[u]
           /\ \A d : ThreadInv(u, d) => ThreadInv(u, d)'
<1>1. /\ call'[u] = call[u] /\ todo'[u] = todo[u]
      /\ held'[u] = held[u] /\ failed'[u] = failed[u]
  BY DEF CallsInv, OthersStay
<1>2. ASSUME NEW d, ThreadInv(u, d) PROVE ThreadInv(u, d)'
  BY <1>1, <1>2 DEF ThreadInv
<1> QED BY <1>1, <1>2

\* A call begins.
LEMMA EnterStep ==
    ASSUME CallsInv, NEW t \in Thread, NEW f, f # None, NEW p, Enter(t, f, p),
           Safe(Left(f), Effects(f), p, {}, {}), NEW d, ThreadInv(t, d)
    PROVE  OthersStay(t) /\ call'[t] = f /\ d = {} /\ ThreadInv(t, {})'
<1>1. call[t] = None /\ held[t] = {} /\ failed[t] = FALSE /\ d = {}
  BY DEF Enter, Busy, ThreadInv
<1>2. /\ call'[t] = f /\ todo'[t] = p /\ held'[t] = {} /\ failed'[t] = FALSE
      /\ OthersStay(t)
  BY <1>1 DEF Enter, CallsInv, OthersStay, local
<1>3. ThreadInv(t, {})'
  BY <1>2 DEF ThreadInv
<1> QED BY <1>1, <1>2, <1>3

\* One way or another.
LEMMA ChooseStep ==
    ASSUME CallsInv, NEW t \in Thread, Choose(t), NEW d, ThreadInv(t, d)
    PROVE  OthersStay(t) /\ call' = call /\ ThreadInv(t, d)'
<1>1. /\ todo[t] # <<>> /\ call[t] # None /\ ~failed[t]
      /\ Safe(Left(call[t]), Effects(call[t]), todo[t], held[t], d)
  BY DEF Choose, ThreadInv
<1>2. PICK w \in Head(todo[t]).ways :
         todo' = [todo EXCEPT ![t] = IF Head(todo[t]).again /\ w # <<>>
                                     THEN w \o @ ELSE w \o Tail(@)]
  BY DEF Choose
<1>3. todo'[t] = IF Head(todo[t]).again /\ w # <<>>
                 THEN w \o todo[t] ELSE w \o Tail(todo[t])
  BY <1>2 DEF CallsInv
<1>4. Safe(Left(call[t]), Effects(call[t]), todo'[t], held[t], d)
  BY <1>1, <1>3, SafeChooses
<1>5. call' = call /\ held' = held /\ failed' = failed
  BY DEF Choose
<1>6. OthersStay(t)
  BY <1>2, <1>3, <1>5 DEF OthersStay, CallsInv
<1>7. ThreadInv(t, d)'
  BY <1>1, <1>4, <1>5 DEF ThreadInv
<1> QED BY <1>5, <1>6, <1>7

\* A step succeeds.
LEMMA SucceedStep ==
    ASSUME CallsInv, NEW t \in Thread, Succeed(t), NEW d, ThreadInv(t, d),
           NEW e, e = Head(todo[t]).effect, NEW f, f = After(e, d)
    PROVE  /\ OthersStay(t) /\ call' = call
           /\ call[t] # None /\ e \in Effects(call[t]) /\ Fits(e, d)
           /\ Effect(t, e)
           /\ ThreadInv(t, f)'
<1>1. /\ todo[t] # <<>> /\ call[t] # None /\ ~failed[t]
      /\ Safe(Left(call[t]), Effects(call[t]), todo[t], held[t], d)
      /\ Head(todo[t]).ways = {}
  BY DEF Succeed, ThreadInv
<1>2. /\ held'[t] = (held[t] \cup Head(todo[t]).gets) \ Head(todo[t]).puts
      /\ todo'[t] = Tail(todo[t])
      /\ call' = call /\ failed' = failed
      /\ OthersStay(t)
  BY DEF Succeed, CallsInv, OthersStay
<1>3. /\ e \in Effects(call[t])
      /\ Fits(e, d)
      /\ Safe(Left(call[t]), Effects(call[t]), Tail(todo[t]),
              (held[t] \cup Head(todo[t]).gets) \ Head(todo[t]).puts, f)
  BY <1>1, SafeSucceeds
<1>4. Effect(t, e)
  BY DEF Succeed
<1>5. Safe(Left(call[t]), Effects(call[t]), todo'[t], held'[t], f)
  BY <1>2, <1>3
<1>6. ThreadInv(t, f)'
  BY <1>1, <1>2, <1>5 DEF ThreadInv
<1> QED BY <1>1, <1>2, <1>3, <1>4, <1>6

\* A step fails.
LEMMA FailStep ==
    ASSUME CallsInv, NEW t \in Thread, Fail(t), NEW d, ThreadInv(t, d)
    PROVE  OthersStay(t) /\ call' = call /\ d = {} /\ ThreadInv(t, {})'
<1>1. /\ todo[t] # <<>> /\ call[t] # None /\ ~failed[t]
      /\ Safe(Left(call[t]), Effects(call[t]), todo[t], held[t], d)
      /\ Head(todo[t]).fails
  BY DEF Fail, ThreadInv
<1>2. held[t] \ Head(todo[t]).undo \subseteq Left(call[t]) /\ d = {}
  BY <1>1, SafeFails
<1>3. /\ held'[t] = held[t] \ Head(todo[t]).undo
      /\ todo'[t] = <<>> /\ failed'[t] = TRUE /\ call' = call
      /\ OthersStay(t)
  BY DEF Fail, CallsInv, OthersStay
<1>4. ThreadInv(t, {})'
  BY <1>1, <1>2, <1>3 DEF ThreadInv
<1> QED BY <1>2, <1>3, <1>4

\* A call returns.
LEMMA ReturnStep ==
    ASSUME CallsInv, NEW t \in Thread, Return(t), NEW d, ThreadInv(t, d)
    PROVE  OthersStay(t) /\ call'[t] = None /\ d = {} /\ ThreadInv(t, {})'
<1>1. call[t] # None /\ todo[t] = <<>>
  BY DEF Return, Busy
<1>2. d = {}
  BY <1>1, SafeEnds DEF ThreadInv
<1>3. /\ call'[t] = None /\ held'[t] = {} /\ failed'[t] = FALSE /\ todo' = todo
      /\ OthersStay(t)
  BY DEF Return, CallsInv, OthersStay
<1>4. ThreadInv(t, {})'
  BY <1>1, <1>3 DEF ThreadInv
<1> QED BY <1>2, <1>3, <1>4

-----------------------------------------------------------------------------
(* What the threads share.                                                 *)

\* Something is noted in the history.
LEMMA SawIsAllowed ==
    ASSUME SharedOK, OddInv, call[JS] \in DOMAIN Bindings \cup {None},
           NEW what \in {"created", "written", "flushed", "lost"}, Saw(what),
           redirected' = redirected, pending' => pending,
           \/ what = "created" /\ call[JS] = "umask"
           \/ what = "written" /\ call[JS] \in Stream
           \/ what = "flushed" /\ pending
           \/ what = "lost" /\ pending /\ call[JS] \in {"abort", "kill"}
    PROVE  /\ OddInv'
           /\ odd' \in SUBSET [what : {"created", "written", "flushed", "lost"},
                               during : DOMAIN Bindings \cup {None}]
<1> DEFINE o == [what |-> what, during |-> call[JS]]
<1>1. /\ o \in [what : {"created", "written", "flushed", "lost"},
                during : DOMAIN Bindings \cup {None}]
      /\ o.what = what /\ o.during = call[JS]
  OBVIOUS
<1>2. odd' = odd \cup {o}
  BY DEF Saw
<1> HIDE DEF o
<1>3. \A x \in odd' : x \in odd \/ x = o
  BY <1>2
<1>4. OddInv'
  BY <1>1, <1>3 DEF OddInv
<1>5. odd' \in SUBSET [what : {"created", "written", "flushed", "lost"},
                       during : DOMAIN Bindings \cup {None}]
  BY <1>1, <1>2 DEF SharedOK
<1> QED BY <1>4, <1>5

\* The mask: it is the script's, or it is umask that has to set it back.
LEMMA MaskKeeps ==
    ASSUME SharedOK, OddInv, FreedOnlyUnderAbandoned, NEW d, StateInv(d), call' = call,
           NEW e, MaskEffect(e), Fits(e, d), e \in Effects(call[JS])
    PROVE  /\ \A f : f = After(e, d) => StateInv(f)'
           /\ SharedOK' /\ OddInv' /\ FreedOnlyUnderAbandoned'
<1>1. /\ wide' = wide /\ redirected' = redirected /\ pending' = pending
      /\ runtime' = runtime /\ odd' = odd /\ touched' = touched
  BY DEF MaskEffect, SetMask
<1>2. e \in {"mask all", "mask back", "mask on", "mask off"}
  BY DEF MaskEffect
<1>3. call[JS] = "umask"
  BY <1>2 DEF Effects
<1>4. SharedOK' /\ OddInv' /\ FreedOnlyUnderAbandoned'
  <2>1. mask' \in BOOLEAN /\ saved' \in BOOLEAN /\ wanted' \in BOOLEAN
    BY DEF MaskEffect, SetMask, SharedOK
  <2>2. SharedOK'
    BY <1>1, <2>1 DEF SharedOK
  <2>3. OddInv'
    BY <1>1 DEF OddInv
  <2>4. FreedOnlyUnderAbandoned'
    BY <1>1 DEF FreedOnlyUnderAbandoned
  <2> QED BY <2>2, <2>3, <2>4
<1>5. ASSUME NEW f, f = After(e, d) PROVE StateInv(f)'
  <2>1. CASE e = "mask all"
    <3>1. d = {} /\ f = {"mask"} /\ mask = wanted
      BY <1>5, <2>1 DEF Fits, After, StateInv
    <3>2. mask' = TRUE /\ saved' = mask /\ wanted' = wanted
      BY <2>1 DEF MaskEffect, SetMask
    <3> QED BY <1>1, <1>3, <3>1, <3>2 DEF StateInv, Stream
  <2>2. CASE e = "mask back"
    <3>1. d = {"mask"} /\ f = {} /\ saved = wanted
      BY <1>5, <2>2 DEF Fits, After, StateInv
    <3>2. mask' = saved /\ wanted' = wanted
      BY <2>2 DEF MaskEffect, SetMask
    <3> QED BY <1>1, <1>3, <3>1, <3>2 DEF StateInv, Stream
  <2>3. CASE e \in {"mask on", "mask off"}
    <3>1. d = {} /\ f = {}
      BY <1>5, <2>3 DEF Fits, After
    <3>2. mask' = wanted'
      BY <2>3 DEF MaskEffect, SetMask
    <3> QED BY <1>1, <1>3, <3>1, <3>2 DEF StateInv, Stream
  <2> QED BY <1>2, <2>1, <2>2, <2>3
<1> QED BY <1>4, <1>5

\* The translation modes: likewise, for stdout and stderr.
LEMMA StreamKeeps ==
    ASSUME SharedOK, OddInv, FreedOnlyUnderAbandoned, NEW d, StateInv(d), call' = call,
           NEW e, StreamEffect(e), Fits(e, d), e \in Effects(call[JS])
    PROVE  /\ \A f : f = After(e, d) => StateInv(f)'
           /\ SharedOK' /\ OddInv' /\ FreedOnlyUnderAbandoned'
<1>1. /\ mask' = mask /\ saved' = saved /\ wanted' = wanted /\ redirected' = redirected
      /\ runtime' = runtime /\ odd' = odd /\ touched' = touched
  BY DEF StreamEffect
<1>2. e \in {"stdout wide", "stderr wide", "stdout back", "stderr back",
             "stdout print", "stderr print"}
  BY DEF StreamEffect
<1>3. call[JS] \in Stream
  BY <1>2 DEF Effects, Stream
<1>4. SharedOK' /\ OddInv' /\ FreedOnlyUnderAbandoned'
  <2>1. wide' \in SUBSET Stream
    BY DEF StreamEffect, SharedOK, Stream
  <2>2. pending' \in BOOLEAN /\ (pending' => pending \/ redirected)
    <3>1. pending' = pending \/ pending' = FALSE \/ pending' = redirected
      BY DEF StreamEffect
    <3>2. pending \in BOOLEAN /\ redirected \in BOOLEAN
      BY DEF SharedOK
    <3>3. CASE pending' = pending
      BY <3>2, <3>3, Zenon
    <3>4. CASE pending' = FALSE
      BY <3>4, Zenon
    <3>5. CASE pending' = redirected
      BY <3>2, <3>5, Zenon
    <3> QED BY <3>1, <3>3, <3>4, <3>5
  <2>3. SharedOK'
    BY <1>1, <2>1, <2>2 DEF SharedOK
  <2>4. OddInv'
    BY <1>1, <2>2 DEF OddInv
  <2>5. FreedOnlyUnderAbandoned'
    BY <1>1 DEF FreedOnlyUnderAbandoned
  <2> QED BY <2>3, <2>4, <2>5
<1>5. ASSUME NEW f, f = After(e, d) PROVE StateInv(f)'
  <2>1. CASE e \in {"stdout wide", "stderr wide"}
    <3>1. d = {} /\ wide = {}
      BY <2>1 DEF Fits, StateInv
    <3>2. wide' = f /\ f \in {{"stdout"}, {"stderr"}}
      BY <1>5, <2>1, <3>1 DEF After, StreamEffect
    <3> QED BY <1>1, <1>3, <3>1, <3>2 DEF StateInv, Stream
  <2>2. CASE e = "stdout back"
    <3>1. d = {"stdout"} /\ f = {} /\ wide' = {}
      BY <1>5, <2>2 DEF Fits, After, StateInv, StreamEffect
    <3> QED BY <1>1, <3>1 DEF StateInv
  <2>3. CASE e = "stderr back"
    <3>1. d = {"stderr"} /\ f = {} /\ wide' = {}
      BY <1>5, <2>3 DEF Fits, After, StateInv, StreamEffect
    <3> QED BY <1>1, <3>1 DEF StateInv
  <2>4. CASE e \in {"stdout print", "stderr print"}
    <3>1. f = d /\ wide' = wide
      BY <1>5, <2>4 DEF After, StreamEffect
    <3> QED BY <1>1, <1>3, <3>1 DEF StateInv
  <2> QED BY <1>2, <2>1, <2>2, <2>3, <2>4
<1> QED BY <1>4, <1>5

\* The end of the process.
LEMMA EndKeeps ==
    ASSUME SharedOK, OddInv, FreedOnlyUnderAbandoned, NEW d, StateInv(d), call' = call,
           call[JS] \in DOMAIN Bindings, runtime # "over",
           NEW e, EndEffect(e), Fits(e, d), e \in Effects(call[JS])
    PROVE  /\ \A f : f = After(e, d) => StateInv(f)'
           /\ SharedOK' /\ OddInv' /\ FreedOnlyUnderAbandoned'
<1>1. /\ mask' = mask /\ saved' = saved /\ wanted' = wanted /\ wide' = wide
      /\ redirected' = redirected /\ touched' = touched
      /\ runtime' \in {"freed", "over"}
  BY DEF EndEffect
<1>2. e \in {"free runtime", "end", "terminate"}
  BY DEF EndEffect
<1>3. FreedOnlyUnderAbandoned'
  BY <1>1 DEF FreedOnlyUnderAbandoned
<1>4. CASE e = "free runtime"
  <2>1. d = {} /\ After(e, d) = {"freed"} /\ call[JS] \in {"exit", "main", "mainAfterThrow"}
    BY <1>4 DEF Fits, After, Effects
  <2>2. odd' = odd /\ pending' = pending /\ runtime' = "freed"
    BY <1>4 DEF EndEffect
  <2>3. SharedOK' /\ OddInv'
    BY <1>1, <2>2 DEF SharedOK, OddInv
  <2>4. ASSUME NEW f, f = {"freed"} PROVE StateInv(f)'
    BY <1>1, <2>1, <2>2, <2>4 DEF StateInv, Stream
  <2> QED BY <1>3, <2>1, <2>3, <2>4
<1>5. CASE e = "end"
  <2>1. d \subseteq {"freed"} /\ After(e, d) = {}
    BY <1>5 DEF Fits, After
  <2>2. runtime' = "over" /\ pending' = FALSE
    BY <1>5 DEF EndEffect
  <2>3. odd' = odd \/ (pending /\ Saw("flushed"))
    BY <1>5 DEF EndEffect
  <2>4. OddInv' /\ odd' \in SUBSET [what : {"created", "written", "flushed", "lost"},
                                    during : DOMAIN Bindings \cup {None}]
    <3>1. CASE odd' = odd
      BY <1>1, <2>2, <3>1 DEF OddInv, SharedOK
    <3>2. CASE pending /\ Saw("flushed")
      BY <1>1, <2>2, <3>2, SawIsAllowed
    <3> QED BY <2>3, <3>1, <3>2
  <2>5. SharedOK'
    BY <1>1, <2>2, <2>4 DEF SharedOK
  <2>6. mask = wanted /\ wide = {}
    BY <2>1 DEF StateInv, Stream
  <2>7. ASSUME NEW f, f = {} PROVE StateInv(f)'
    BY <1>1, <2>2, <2>6, <2>7 DEF StateInv
  <2> QED BY <1>3, <2>1, <2>4, <2>5, <2>7
<1>6. CASE e = "terminate"
  <2>1. d = {} /\ After(e, d) = d /\ call[JS] \in {"abort", "kill"}
    BY <1>6 DEF Fits, After, Effects
  <2>2. runtime' = "over" /\ pending' = pending
    BY <1>6 DEF EndEffect
  <2>3. odd' = odd \/ (pending /\ Saw("lost"))
    BY <1>6 DEF EndEffect
  <2>4. OddInv' /\ odd' \in SUBSET [what : {"created", "written", "flushed", "lost"},
                                    during : DOMAIN Bindings \cup {None}]
    <3>1. CASE odd' = odd
      BY <1>1, <2>2, <3>1 DEF OddInv, SharedOK
    <3>2. CASE pending /\ Saw("lost")
      BY <1>1, <2>1, <2>2, <3>2, SawIsAllowed
    <3> QED BY <2>3, <3>1, <3>2
  <2>5. SharedOK'
    BY <1>1, <2>2, <2>4 DEF SharedOK
  <2>6. ASSUME NEW f, f = d PROVE StateInv(f)'
    BY <1>1, <2>1, <2>2, <2>6 DEF StateInv
  <2> QED BY <1>3, <2>1, <2>4, <2>5, <2>6
<1> QED BY <1>2, <1>4, <1>5, <1>6

\* What a worker does, and what the JavaScript thread reads for a conversion.
LEMMA WorkKeeps ==
    ASSUME SharedOK, OddInv, FreedOnlyUnderAbandoned, NEW d, StateInv(d), call' = call,
           call[JS] \in DOMAIN Bindings \cup {None},
           NEW t \in Thread, NEW e, WorkerEffect(t, e),
           \/ call[t] \in {"open", "unlink", "write", "readdir"} /\ call[JS] # "main"
           \/ runtime # "freed"
    PROVE  StateInv(d)' /\ SharedOK' /\ OddInv' /\ FreedOnlyUnderAbandoned'
<1>1. /\ mask' = mask /\ saved' = saved /\ wanted' = wanted /\ wide' = wide
      /\ redirected' = redirected /\ pending' = pending /\ runtime' = runtime
  BY DEF WorkerEffect
<1>2. StateInv(d)'
  BY <1>1 DEF StateInv
<1>3. touched' = touched \/ (runtime = "freed" /\ touched' = touched \cup {call[t]})
  BY DEF WorkerEffect, UsesRuntime
<1>4. FreedOnlyUnderAbandoned' /\ touched' \in SUBSET DOMAIN Operations
  <2>1. CASE touched' = touched
    BY <1>1, <2>1 DEF FreedOnlyUnderAbandoned, SharedOK
  <2>2. CASE runtime = "freed" /\ touched' = touched \cup {call[t]}
    <3>1. call[JS] \in {"exit", "mainAfterThrow"}
      BY <2>2 DEF StateInv
    <3>2. call[t] \in {"open", "unlink", "write", "readdir"}
      BY <2>2
    <3>3. {"open", "unlink", "write", "readdir"} \subseteq DOMAIN Operations
      BY DEF Operations
    <3> QED BY <1>1, <2>2, <3>1, <3>2, <3>3 DEF FreedOnlyUnderAbandoned, SharedOK
  <2> QED BY <1>3, <2>1, <2>2
<1>5. \/ odd' = odd
      \/ mask # wanted /\ Saw("created")
      \/ wide # {} /\ Saw("written")
  BY DEF WorkerEffect
<1>6. OddInv' /\ odd' \in SUBSET [what : {"created", "written", "flushed", "lost"},
                                  during : DOMAIN Bindings \cup {None}]
  <2>1. CASE odd' = odd
    BY <1>1, <2>1 DEF OddInv, SharedOK
  <2>2. CASE mask # wanted /\ Saw("created")
    <3>1. call[JS] = "umask"
      BY <2>2 DEF StateInv
    <3> QED BY <1>1, <2>2, <3>1, SawIsAllowed
  <2>3. CASE wide # {} /\ Saw("written")
    <3>1. call[JS] \in Stream
      BY <2>3 DEF StateInv
    <3> QED BY <1>1, <2>3, <3>1, SawIsAllowed
  <2> QED BY <1>5, <2>1, <2>2, <2>3
<1>7. SharedOK'
  BY <1>1, <1>4, <1>6 DEF SharedOK
<1> QED BY <1>2, <1>4, <1>6, <1>7

-----------------------------------------------------------------------------
(* The steps keep the invariant.                                           *)

\* The state is right again after a step of a worker,
LEMMA WorkerMoves ==
    ASSUME CallsInv, NEW w \in Worker, OthersStay(w),
           call'[w] \in DOMAIN Operations \cup {None}, failed'[w] \in BOOLEAN,
           ThreadInv(w, {})', call[JS] = "main" => call'[w] = None,
           \A d : StateInv(d) => StateInv(d)'
    PROVE  CallsInv'
<1>1. w \in Thread /\ JS \in Thread \ {w}
  BY ThreadAssumption DEF Thread
<1>2. /\ call' \in [Thread -> DOMAIN Bindings \cup DOMAIN Operations \cup {None}]
      /\ failed' \in [Thread -> BOOLEAN]
      /\ DOMAIN todo' = Thread /\ todo' = [t \in Thread |-> todo'[t]]
      /\ DOMAIN held' = Thread /\ held' = [t \in Thread |-> held'[t]]
  BY <1>1 DEF CallsInv, OthersStay
<1>3. /\ \A u \in Thread \ {w} : call'[u] = call[u]
      /\ \A u \in Thread \ {w} : \A d : ThreadInv(u, d) => ThreadInv(u, d)'
  BY <1>1, ThreadsApart
<1>4. \A u \in Worker : call'[u] \in DOMAIN Operations \cup {None} /\ ThreadInv(u, {})'
  BY <1>3 DEF CallsInv, Thread
<1>5. \E d : ThreadInv(JS, d)' /\ StateInv(d)'
  BY <1>1, <1>3 DEF CallsInv
<1>6. call'[JS] = call[JS] /\ (call'[JS] = "main" => \A u \in Worker : call'[u] = None)
  BY <1>1, <1>3 DEF CallsInv, Thread
<1> QED BY <1>2, <1>4, <1>5, <1>6 DEF CallsInv

\* and of the JavaScript thread.
LEMMA ScriptMoves ==
    ASSUME CallsInv, OthersStay(JS),
           call'[JS] \in DOMAIN Bindings \cup {None}, failed'[JS] \in BOOLEAN,
           NEW d, ThreadInv(JS, d)', StateInv(d)',
           call'[JS] = "main" => \A w \in Worker : call[w] = None
    PROVE  CallsInv'
<1>1. JS \in Thread /\ \A w \in Worker : w \in Thread \ {JS}
  BY ThreadAssumption DEF Thread
<1>2. /\ call' \in [Thread -> DOMAIN Bindings \cup DOMAIN Operations \cup {None}]
      /\ failed' \in [Thread -> BOOLEAN]
      /\ DOMAIN todo' = Thread /\ todo' = [t \in Thread |-> todo'[t]]
      /\ DOMAIN held' = Thread /\ held' = [t \in Thread |-> held'[t]]
  BY <1>1 DEF CallsInv, OthersStay
<1>3. \A w \in Worker : call'[w] = call[w] /\ \A x : ThreadInv(w, x) => ThreadInv(w, x)'
  BY <1>1, ThreadsApart
<1>4. \A w \in Worker : call'[w] \in DOMAIN Operations \cup {None} /\ ThreadInv(w, {})'
  BY <1>3 DEF CallsInv
<1>5. call'[JS] = "main" => \A w \in Worker : call'[w] = None
  BY <1>3
<1> QED BY <1>2, <1>4, <1>5 DEF CallsInv

\* A step that leaves what the threads share leaves what is known of it.
LEMMA SharedStays ==
    ASSUME UNCHANGED shared, SharedOK, OddInv
    PROVE  SharedOK' /\ OddInv'
<1>1. /\ mask' = mask /\ saved' = saved /\ wanted' = wanted /\ wide' = wide
      /\ redirected' = redirected /\ pending' = pending /\ runtime' = runtime
      /\ odd' = odd /\ touched' = touched
  BY DEF shared
<1>2. SharedOK'
  BY <1>1 DEF SharedOK
<1>3. OddInv'
  BY <1>1 DEF OddInv
<1> QED BY <1>2, <1>3

\* When a call of the JavaScript thread begins or ends, all is as asked.
LEMMA AllIsAsAsked ==
    ASSUME UNCHANGED shared, SharedOK, StateInv({}), FreedOnlyUnderAbandoned,
           runtime # "over"
    PROVE  StateInv({})' /\ FreedOnlyUnderAbandoned'
<1>1. /\ mask' = mask /\ wanted' = wanted /\ wide' = wide /\ runtime' = runtime
      /\ touched' = touched
  BY DEF shared
<1>2. runtime = "up" /\ mask = wanted /\ wide = {}
  BY DEF StateInv, SharedOK
<1>3. StateInv({})'
  BY <1>1, <1>2 DEF StateInv
<1>4. FreedOnlyUnderAbandoned'
  BY <1>1, <1>2 DEF FreedOnlyUnderAbandoned
<1> QED BY <1>3, <1>4

\* A script calls a function.
LEMMA ScriptCallKeeps ==
    ASSUME IInv, NEW f \in DOMAIN Bindings, ScriptCall(f)
    PROVE  IInv'
<1>1. JS \in Thread
  BY DEF Thread
<1>2. PICK d : ThreadInv(JS, d) /\ StateInv(d)
  BY DEF IInv, CallsInv
<1>3. f # None /\ Safe(Left(f), Effects(f), Bindings[f], {}, {})
  BY ThreadAssumption, BindingsSafe
<1>4. OthersStay(JS) /\ call'[JS] = f /\ d = {} /\ ThreadInv(JS, {})'
  BY <1>1, <1>2, <1>3, EnterStep DEF IInv, ScriptCall
<1>5. UNCHANGED shared /\ failed' = failed /\ runtime = "up"
  BY DEF ScriptCall, Enter
<1>6. StateInv({})' /\ FreedOnlyUnderAbandoned'
  BY <1>2, <1>4, <1>5, AllIsAsAsked DEF IInv
<1>7. SharedOK' /\ OddInv'
  BY <1>5, SharedStays DEF IInv
<1>8. call'[JS] = "main" => \A w \in Worker : call[w] = None
  BY <1>4 DEF ScriptCall, Busy
<1>9. failed'[JS] \in BOOLEAN
  BY <1>1, <1>5 DEF IInv, CallsInv
<1>10. CallsInv'
  BY <1>4, <1>6, <1>8, <1>9, ScriptMoves DEF IInv
<1> QED BY <1>6, <1>7, <1>10 DEF IInv

\* What a worker does that leaves what the threads share.
LEMMA WorkerApart ==
    ASSUME IInv, NEW w \in Worker, OthersStay(w), UNCHANGED shared,
           call'[w] \in DOMAIN Operations \cup {None}, failed'[w] \in BOOLEAN,
           ThreadInv(w, {})', call[JS] = "main" => call'[w] = None
    PROVE  IInv'
<1>1. w \in Thread /\ JS \in Thread \ {w}
  BY ThreadAssumption DEF Thread
<1>2. call'[JS] = call[JS]
  BY <1>1, ThreadsApart DEF IInv
<1>3. \A d : StateInv(d) => StateInv(d)'
  BY <1>2 DEF StateInv, shared
<1>4. FreedOnlyUnderAbandoned'
  <2>1. FreedOnlyUnderAbandoned /\ touched' = touched /\ runtime' = runtime
    BY DEF IInv, shared
  <2> QED BY <1>2, <2>1 DEF FreedOnlyUnderAbandoned
<1>5. SharedOK' /\ OddInv'
  BY SharedStays DEF IInv
<1>6. CallsInv'
  BY <1>3, WorkerMoves DEF IInv
<1> QED BY <1>4, <1>5, <1>6 DEF IInv

\* A worker takes a request.
LEMMA WorkerCallKeeps ==
    ASSUME IInv, NEW w \in Worker, NEW f \in DOMAIN Operations, WorkerCall(w, f)
    PROVE  IInv'
<1>1. w \in Thread /\ ThreadInv(w, {})
  BY DEF Thread, IInv, CallsInv
<1>2. f # None /\ Safe(Left(f), Effects(f), Operations[f], {}, {})
  BY ThreadAssumption, OperationsSafe
<1>3. Enter(w, f, Operations[f]) /\ call[JS] # "main"
  BY DEF WorkerCall
<1>4. OthersStay(w) /\ call'[w] = f /\ ThreadInv(w, {})'
  BY <1>1, <1>2, <1>3, EnterStep DEF IInv
<1>5. UNCHANGED shared /\ failed' = failed
  BY <1>3 DEF Enter
<1>6. failed'[w] \in BOOLEAN
  BY <1>1, <1>5 DEF IInv, CallsInv
<1> QED BY <1>3, <1>4, <1>5, <1>6, WorkerApart

\* A step of a path that leads two or more ways.
LEMMA ChooseKeeps ==
    ASSUME IInv, NEW t \in Thread, Choose(t)
    PROVE  IInv'
<1>1. UNCHANGED shared /\ failed' = failed /\ failed[t] \in BOOLEAN
  BY DEF Choose, IInv, CallsInv
<1>2. CASE t = JS
  <2>1. PICK d : ThreadInv(JS, d) /\ StateInv(d)
    BY DEF IInv, CallsInv
  <2>2. OthersStay(JS) /\ call' = call /\ ThreadInv(JS, d)'
    BY <1>2, <2>1, ChooseStep DEF IInv
  <2>3. StateInv(d)'
    BY <1>1, <2>1, <2>2 DEF StateInv, shared
  <2>4. SharedOK' /\ OddInv'
    BY <1>1, SharedStays DEF IInv
  <2>5. FreedOnlyUnderAbandoned'
    BY <1>1, <2>2 DEF FreedOnlyUnderAbandoned, IInv, shared
  <2>6. call'[JS] \in DOMAIN Bindings \cup {None} /\ failed'[JS] \in BOOLEAN
    BY <1>1, <1>2, <2>2 DEF IInv, CallsInv
  <2>7. call'[JS] = "main" => \A w \in Worker : call[w] = None
    BY <2>2 DEF IInv, CallsInv
  <2>8. CallsInv'
    BY <2>2, <2>3, <2>6, <2>7, ScriptMoves DEF IInv
  <2> QED BY <2>4, <2>5, <2>8 DEF IInv
<1>3. CASE t \in Worker
  <2>1. OthersStay(t) /\ call' = call /\ ThreadInv(t, {})'
    BY <1>3, ChooseStep DEF IInv, CallsInv
  <2>2. /\ call'[t] \in DOMAIN Operations \cup {None}
        /\ call[JS] = "main" => call'[t] = None
    BY <1>3, <2>1 DEF IInv, CallsInv
  <2> QED BY <1>1, <1>3, <2>1, <2>2, WorkerApart
<1> QED BY <1>2, <1>3 DEF Thread

\* A step that fails.
LEMMA FailKeeps ==
    ASSUME IInv, NEW t \in Thread, Fail(t)
    PROVE  IInv'
<1>1. UNCHANGED shared /\ failed'[t] \in BOOLEAN /\ runtime # "over"
  BY DEF Fail, IInv, CallsInv
<1>2. CASE t = JS
  <2>1. PICK d : ThreadInv(JS, d) /\ StateInv(d)
    BY DEF IInv, CallsInv
  <2>2. OthersStay(JS) /\ call' = call /\ d = {} /\ ThreadInv(JS, {})'
    BY <1>2, <2>1, FailStep DEF IInv
  <2>3. StateInv({})' /\ FreedOnlyUnderAbandoned'
    BY <1>1, <2>1, <2>2, AllIsAsAsked DEF IInv
  <2>4. SharedOK' /\ OddInv'
    BY <1>1, SharedStays DEF IInv
  <2>5. call'[JS] \in DOMAIN Bindings \cup {None}
    BY <2>2 DEF IInv, CallsInv
  <2>6. call'[JS] = "main" => \A w \in Worker : call[w] = None
    BY <2>2 DEF IInv, CallsInv
  <2>7. CallsInv'
    BY <1>1, <1>2, <2>2, <2>3, <2>5, <2>6, ScriptMoves DEF IInv
  <2> QED BY <2>3, <2>4, <2>7 DEF IInv
<1>3. CASE t \in Worker
  <2>1. OthersStay(t) /\ call' = call /\ ThreadInv(t, {})'
    BY <1>3, FailStep DEF IInv, CallsInv
  <2>2. /\ call'[t] \in DOMAIN Operations \cup {None}
        /\ call[JS] = "main" => call'[t] = None
    BY <1>3, <2>1 DEF IInv, CallsInv
  <2> QED BY <1>1, <1>3, <2>1, <2>2, WorkerApart
<1> QED BY <1>2, <1>3 DEF Thread

\* The end of a call.
LEMMA ReturnKeeps ==
    ASSUME IInv, NEW t \in Thread, Return(t)
    PROVE  IInv'
<1>1. UNCHANGED shared /\ failed'[t] \in BOOLEAN /\ runtime # "over"
  BY DEF Return, IInv, CallsInv
<1>2. CASE t = JS
  <2>1. PICK d : ThreadInv(JS, d) /\ StateInv(d)
    BY DEF IInv, CallsInv
  <2>2. OthersStay(JS) /\ call'[JS] = None /\ d = {} /\ ThreadInv(JS, {})'
    BY <1>2, <2>1, ReturnStep DEF IInv
  <2>3. StateInv({})' /\ FreedOnlyUnderAbandoned'
    BY <1>1, <2>1, <2>2, AllIsAsAsked DEF IInv
  <2>4. SharedOK' /\ OddInv'
    BY <1>1, SharedStays DEF IInv
  <2>5. None # "main"
    BY ThreadAssumption DEF Bindings
  <2>6. CallsInv'
    BY <1>1, <1>2, <2>2, <2>3, <2>5, ScriptMoves DEF IInv
  <2> QED BY <2>3, <2>4, <2>6 DEF IInv
<1>3. CASE t \in Worker
  <2>1. OthersStay(t) /\ call'[t] = None /\ ThreadInv(t, {})'
    BY <1>3, ReturnStep DEF IInv, CallsInv
  <2> QED BY <1>1, <1>3, <2>1, WorkerApart
<1> QED BY <1>2, <1>3 DEF Thread

\* What a step of the JavaScript thread does to the process.
LEMMA EffectKeeps ==
    ASSUME IInv, NEW d, StateInv(d), call' = call, runtime # "over",
           call[JS] # None, NEW e, Effect(JS, e), Fits(e, d), e \in Effects(call[JS]),
           NEW f, f = After(e, d)
    PROVE  StateInv(f)' /\ SharedOK' /\ OddInv' /\ FreedOnlyUnderAbandoned'
<1> USE DEF IInv
<1>1. JS \in Thread /\ call[JS] \in DOMAIN Bindings
  BY DEF Thread, CallsInv
<1>2. CASE e = "none" /\ UNCHANGED shared
  <2>1. f = d
    BY <1>2 DEF After
  <2>2. StateInv(d)'
    BY <1>2 DEF StateInv, shared
  <2>3. FreedOnlyUnderAbandoned'
    BY <1>2 DEF FreedOnlyUnderAbandoned, shared
  <2> QED BY <1>2, <2>1, <2>2, <2>3, SharedStays
<1>3. CASE MaskEffect(e)
  BY <1>3, MaskKeeps
<1>4. CASE StreamEffect(e)
  BY <1>4, StreamKeeps
<1>5. CASE EndEffect(e)
  BY <1>1, <1>5, EndKeeps
<1>6. CASE WorkerEffect(JS, e)
  <2>1. e \in {"string", "create", "write"}
    BY <1>6 DEF WorkerEffect
  <2>2. d = {} /\ f = d
    BY <2>1 DEF Fits, After
  <2>3. runtime # "freed"
    BY <2>2 DEF StateInv
  <2> QED BY <1>1, <1>6, <2>2, <2>3, WorkKeeps
<1> QED BY <1>2, <1>3, <1>4, <1>5, <1>6 DEF Effect

\* What a worker does to it.
LEMMA WorkerEffectKeeps ==
    ASSUME IInv, NEW w \in Worker, call' = call, call[w] # None,
           NEW e \in Effects(call[w]), Effect(w, e)
    PROVE  /\ After(e, {}) = {}
           /\ \A d : StateInv(d) => StateInv(d)'
           /\ SharedOK' /\ OddInv' /\ FreedOnlyUnderAbandoned'
<1>1. w \in Thread /\ call[w] \in DOMAIN Operations /\ call[JS] # "main"
  BY DEF Thread, IInv, CallsInv
<1>2. call[w] \in {"open", "unlink", "write", "close", "readdir"}
  BY <1>1 DEF Operations
<1>3. /\ e \in {"none", "string", "create", "write"}
      /\ e = "none" \/ call[w] \in {"open", "unlink", "write", "readdir"}
  BY <1>2 DEF Effects
<1>4. After(e, {}) = {}
  BY <1>3 DEF After
<1>5. (e = "none" /\ UNCHANGED shared) \/ (e # "none" /\ WorkerEffect(w, e))
  BY <1>3 DEF Effect, MaskEffect, StreamEffect, EndEffect, WorkerEffect
<1>6. CASE e = "none" /\ UNCHANGED shared
  <2>1. \A d : StateInv(d) => StateInv(d)'
    BY <1>6 DEF StateInv, shared
  <2>2. FreedOnlyUnderAbandoned'
    BY <1>6 DEF FreedOnlyUnderAbandoned, IInv, shared
  <2> QED BY <1>4, <1>6, <2>1, <2>2, SharedStays DEF IInv
<1>7. CASE e # "none" /\ WorkerEffect(w, e)
  <2>1. PICK c : ThreadInv(JS, c) /\ StateInv(c)
    BY DEF IInv, CallsInv
  <2>2. call[JS] \in DOMAIN Bindings \cup {None}
    BY DEF IInv, CallsInv
  <2>3. ASSUME NEW d, StateInv(d)
        PROVE  StateInv(d)' /\ SharedOK' /\ OddInv' /\ FreedOnlyUnderAbandoned'
    BY <1>1, <1>3, <1>7, <2>2, <2>3, WorkKeeps DEF IInv
  <2> QED BY <1>4, <2>1, <2>3
<1> QED BY <1>5, <1>6, <1>7

\* A step that succeeds.
LEMMA SucceedKeeps ==
    ASSUME IInv, NEW t \in Thread, Succeed(t)
    PROVE  IInv'
<1>1. PICK e : e = Head(todo[t]).effect
  OBVIOUS
<1>2. failed' = failed /\ failed[t] \in BOOLEAN /\ runtime # "over"
  BY DEF Succeed, IInv, CallsInv
<1>3. CASE t = JS
  <2>1. PICK d : ThreadInv(JS, d) /\ StateInv(d)
    BY DEF IInv, CallsInv
  <2>2. PICK f : f = After(e, d)
    OBVIOUS
  <2>3. /\ OthersStay(JS) /\ call' = call
        /\ call[JS] # None /\ e \in Effects(call[JS]) /\ Fits(e, d)
        /\ Effect(JS, e)
        /\ ThreadInv(JS, f)'
    BY <1>1, <1>3, <2>1, <2>2, SucceedStep DEF IInv
  <2>4. StateInv(f)' /\ SharedOK' /\ OddInv' /\ FreedOnlyUnderAbandoned'
    BY <1>2, <2>1, <2>2, <2>3, EffectKeeps
  <2>5. call'[JS] \in DOMAIN Bindings \cup {None}
    BY <2>3 DEF IInv, CallsInv
  <2>6. call'[JS] = "main" => \A w \in Worker : call[w] = None
    BY <2>3 DEF IInv, CallsInv
  <2>7. CallsInv'
    BY <1>2, <1>3, <2>3, <2>4, <2>5, <2>6, ScriptMoves DEF IInv
  <2> QED BY <2>4, <2>7 DEF IInv
<1>4. CASE t \in Worker
  <2>1. ThreadInv(t, {})
    BY <1>4 DEF IInv, CallsInv
  <2>2. PICK f : f = After(e, {})
    OBVIOUS
  <2>3. /\ OthersStay(t) /\ call' = call
        /\ call[t] # None /\ e \in Effects(call[t])
        /\ Effect(t, e)
        /\ ThreadInv(t, f)'
    BY <1>1, <2>1, <2>2, SucceedStep DEF IInv
  <2>4. /\ f = {}
        /\ \A d : StateInv(d) => StateInv(d)'
        /\ SharedOK' /\ OddInv' /\ FreedOnlyUnderAbandoned'
    BY <1>4, <2>2, <2>3, WorkerEffectKeeps
  <2>5. /\ call'[t] \in DOMAIN Operations \cup {None}
        /\ call[JS] = "main" => call'[t] = None
    BY <1>4, <2>3 DEF IInv, CallsInv
  <2>6. CallsInv'
    BY <1>2, <1>4, <2>3, <2>4, <2>5, WorkerMoves DEF IInv
  <2> QED BY <2>4, <2>6 DEF IInv
<1> QED BY <1>3, <1>4 DEF Thread

\* At first no function runs, and nothing has been changed.
LEMMA InitHolds == ASSUME Init PROVE IInv
<1>1. CallsInv
  <2>1. \A t \in Thread : ThreadInv(t, {})
    BY DEF Init, ThreadInv
  <2>2. StateInv({})
    BY DEF Init, StateInv
  <2> QED BY <2>1, <2>2 DEF CallsInv, Init, Thread
<1>2. SharedOK
  BY DEF SharedOK, Init
<1>3. OddInv /\ FreedOnlyUnderAbandoned
  BY DEF OddInv, FreedOnlyUnderAbandoned, Init
<1> QED BY <1>1, <1>2, <1>3 DEF IInv

\* Nothing happens.
LEMMA StutterKeeps == ASSUME IInv, UNCHANGED vars PROVE IInv'
<1> USE DEF vars, local
<1>1. \A t, d : ThreadInv(t, d) => ThreadInv(t, d)'
  BY DEF ThreadInv
<1>2. \A d : StateInv(d) => StateInv(d)'
  BY DEF StateInv, shared
<1>3. CallsInv'
  BY <1>1, <1>2 DEF CallsInv, IInv
<1>4. SharedOK' /\ OddInv'
  BY SharedStays DEF IInv
<1>5. FreedOnlyUnderAbandoned'
  BY DEF FreedOnlyUnderAbandoned, IInv, shared
<1> QED BY <1>3, <1>4, <1>5 DEF IInv

\* The inductive invariant holds in every state.
LEMMA Invariance == Spec => []IInv
<1>1. Init => IInv
  BY InitHolds
<1>2. IInv /\ [Next]_vars => IInv'
  <2> SUFFICES ASSUME IInv, [Next]_vars PROVE IInv'
    OBVIOUS
  <2>1. ASSUME NEW f \in DOMAIN Bindings, ScriptCall(f) PROVE IInv'
    BY <2>1, ScriptCallKeeps
  <2>2. ASSUME NEW w \in Worker, NEW f \in DOMAIN Operations, WorkerCall(w, f)
        PROVE  IInv'
    BY <2>2, WorkerCallKeeps
  <2>3. ASSUME NEW t \in Thread, Choose(t) PROVE IInv'
    BY <2>3, ChooseKeeps
  <2>4. ASSUME NEW t \in Thread, Succeed(t) PROVE IInv'
    BY <2>4, SucceedKeeps
  <2>5. ASSUME NEW t \in Thread, Fail(t) PROVE IInv'
    BY <2>5, FailKeeps
  <2>6. ASSUME NEW t \in Thread, Return(t) PROVE IInv'
    BY <2>6, ReturnKeeps
  <2>7. CASE UNCHANGED vars
    BY <2>7, StutterKeeps
  <2> QED BY <2>1, <2>2, <2>3, <2>4, <2>5, <2>6, <2>7 DEF Next
<1> QED BY <1>1, <1>2, PTL DEF Spec

\* Every variable has its type.
THEOREM TypeCorrect == Spec => []TypeOK
<1>1. IInv => TypeOK
  BY DEF IInv, CallsInv, SharedOK, TypeOK
<1> QED BY <1>1, Invariance, PTL

\* Whatever step of whatever function fails, on whatever thread, the function
\* gives back what it holds and nothing else, but for the three known ones.
THEOREM Balance == Spec => []ResourcesBalance
<1>1. ASSUME IInv PROVE ResourcesBalance
  <2> SUFFICES ASSUME NEW t \in Thread
               PROVE  /\ todo[t] # <<>> =>
                            /\ Head(todo[t]).puts \subseteq held[t]
                            /\ Head(todo[t]).undo \subseteq held[t]
                      /\ Busy(t) /\ todo[t] = <<>> =>
                            held[t] \subseteq (IF failed[t] THEN Left(call[t]) ELSE {})
    BY DEF ResourcesBalance, Left
  <2>1. PICK d : ThreadInv(t, d)
    BY <1>1 DEF IInv, CallsInv, Thread
  <2>2. CASE call[t] = None \/ failed[t]
    BY <2>1, <2>2 DEF ThreadInv, Busy
  <2>3. CASE call[t] # None /\ ~failed[t]
    <3>1. Safe(Left(call[t]), Effects(call[t]), todo[t], held[t], d)
      BY <2>1, <2>3 DEF ThreadInv
    <3>2. todo[t] # <<>> => /\ Head(todo[t]).puts \subseteq held[t]
                            /\ Head(todo[t]).undo \subseteq held[t]
      BY <3>1, SafeFails
    <3>3. todo[t] = <<>> => held[t] = {}
      BY <3>1, SafeEnds
    <3> QED BY <3>2, <3>3
  <2> QED BY <2>2, <2>3
<1> QED BY <1>1, Invariance, PTL

\* Mask and translation modes are what the script has asked for, with any number
\* of workers, except where umask, printing, abort and kill are known to differ.
THEOREM AsAsked == Spec => []SharedStateAsAsked
<1>1. ASSUME IInv PROVE SharedStateAsAsked
  <2>1. PICK d : StateInv(d)
    BY <1>1 DEF IInv, CallsInv
  <2>2. mask # wanted => call[JS] = "umask"
    BY <2>1 DEF StateInv
  <2>3. wide # {} => call[JS] \in Stream
    BY <2>1 DEF StateInv
  <2> QED BY <1>1, <2>2, <2>3 DEF SharedStateAsAsked, IInv, OddInv
<1> QED BY <1>1, Invariance, PTL

\* Freed memory of the runtime is used only under process.exit or a promise job
\* that throws, and only by operations that read strings or buffers.
THEOREM FreedUnderAbandoned == Spec => []FreedOnlyUnderAbandoned
<1>1. IInv => FreedOnlyUnderAbandoned
  BY DEF IInv
<1> QED BY <1>1, Invariance, PTL
=============================================================================
