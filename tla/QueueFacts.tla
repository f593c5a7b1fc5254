----------------------------- MODULE QueueFacts -----------------------------
(***************************************************************************)
(* Facts about sequences used as queues, in the form the proofs need, and  *)
(* about induction and loops: the principle of the least element, stated   *)
(* for a set (which the provers can instantiate, unlike a predicate), and  *)
(* what a loop written as a recursive function computes.                   *)
(***************************************************************************)
EXTENDS Integers, Sequences, WellFoundedInduction, TLAPS

(* What Append and Tail do to the entries of a queue. *)
LEMMA AppendFacts ==
  ASSUME NEW S, NEW q \in Seq(S), NEW e \in S
  PROVE  /\ Append(q, e) \in Seq(S)
         /\ Append(q, e) # << >>
         /\ Len(Append(q, e)) = Len(q) + 1
         /\ \A i \in 1 .. Len(q) : Append(q, e)[i] = q[i]
         /\ Append(q, e)[Len(q) + 1] = e
  OBVIOUS

(* What Tail and Head do. *)
LEMMA TailFacts ==
  ASSUME NEW S, NEW q \in Seq(S), q # << >>
  PROVE  /\ Tail(q) \in Seq(S)
         /\ Head(q) = q[1]
         /\ Head(q) \in S
         /\ Len(q) \in Nat /\ Len(q) > 0
         /\ Len(Tail(q)) = Len(q) - 1
         /\ \A i \in 1 .. Len(Tail(q)) : Tail(q)[i] = q[i + 1]
  OBVIOUS

(* Concatenation, entry by entry. *)
LEMMA ConcatFacts ==
  ASSUME NEW S, NEW q \in Seq(S), NEW r \in Seq(S)
  PROVE  /\ q \o r \in Seq(S)
         /\ Len(q \o r) = Len(q) + Len(r)
         /\ Len(q) \in Nat /\ Len(r) \in Nat
         /\ \A i \in 1 .. Len(q) : (q \o r)[i] = q[i]
         /\ \A i \in Len(q) + 1 .. Len(q) + Len(r) : (q \o r)[i] = r[i - Len(q)]
  OBVIOUS

(* The first n entries of a sequence, and the others. *)
LEMMA SplitFacts ==
  ASSUME NEW S, NEW q \in Seq(S), NEW n \in 0 .. Len(q)
  PROVE  /\ SubSeq(q, 1, n) \in Seq(S)
         /\ Len(SubSeq(q, 1, n)) = n
         /\ \A i \in 1 .. n : SubSeq(q, 1, n)[i] = q[i]
         /\ SubSeq(q, n + 1, Len(q)) \in Seq(S)
  OBVIOUS

(* An entry of a sequence. *)
LEMMA EntryIn == ASSUME NEW S, NEW q \in Seq(S), NEW i \in 1 .. Len(q) PROVE q[i] \in S
  OBVIOUS

(* A sequence over a set is one over every larger set. *)
LEMMA WiderSeq ==
  ASSUME NEW S, NEW T, S \subseteq T, NEW q \in Seq(S)
  PROVE  q \in Seq(T)
  OBVIOUS

(* What is left after the first n elements. *)
LEMMA RestFacts ==
  ASSUME NEW S, NEW q \in Seq(S), NEW n \in 0 .. Len(q)
  PROVE  /\ SubSeq(q, n + 1, Len(q)) \in Seq(S)
         /\ Len(SubSeq(q, n + 1, Len(q))) = Len(q) - n
         /\ \A i \in 1 .. Len(q) - n : SubSeq(q, n + 1, Len(q))[i] = q[n + i]
  OBVIOUS

(* A function on an initial segment of the naturals is a sequence. *)
LEMMA TableFacts ==
  ASSUME NEW S, NEW n \in Nat, NEW f \in [1 .. n -> S]
  PROVE  f \in Seq(S) /\ Len(f) = n
  OBVIOUS

(* Updating a function, possibly outside its domain. *)
LEMMA UpdateFacts ==
  ASSUME NEW A, NEW B, NEW f \in [A -> B], NEW a, NEW v \in B
  PROVE  /\ [f EXCEPT ![a] = v] \in [A -> B]
         /\ \A x \in A : x # a => [f EXCEPT ![a] = v][x] = f[x]
         /\ a \in A => [f EXCEPT ![a] = v][a] = v
  OBVIOUS

(* Sequences of the same length with the same entries are the same. *)
LEMMA SameEntries ==
  ASSUME NEW S, NEW q \in Seq(S), NEW r \in Seq(S), Len(q) = Len(r),
         \A i \in 1 .. Len(q) : q[i] = r[i]
  PROVE  q = r
  OBVIOUS

(* Appending after concatenating, and the other way round. *)
LEMMA AppendConcat ==
  ASSUME NEW S, NEW q \in Seq(S), NEW r \in Seq(S), NEW e \in S
  PROVE  q \o Append(r, e) = Append(q \o r, e)
<1>1. /\ Append(r, e) \in Seq(S) /\ Len(Append(r, e)) = Len(r) + 1
      /\ \A i \in 1 .. Len(r) : Append(r, e)[i] = r[i]
      /\ Append(r, e)[Len(r) + 1] = e
  BY AppendFacts
<1>2. /\ q \o r \in Seq(S) /\ Len(q \o r) = Len(q) + Len(r) /\ Len(q) \in Nat /\ Len(r) \in Nat
      /\ \A i \in 1 .. Len(q) : (q \o r)[i] = q[i]
      /\ \A i \in Len(q) + 1 .. Len(q) + Len(r) : (q \o r)[i] = r[i - Len(q)]
  BY ConcatFacts
<1>3. /\ q \o Append(r, e) \in Seq(S) /\ Len(q \o Append(r, e)) = Len(q) + Len(r) + 1
      /\ \A i \in 1 .. Len(q) : (q \o Append(r, e))[i] = q[i]
      /\ \A i \in Len(q) + 1 .. Len(q) + Len(r) + 1 :
           (q \o Append(r, e))[i] = Append(r, e)[i - Len(q)]
  <2> DEFINE t == Append(r, e)
  <2>1. t \in Seq(S) /\ Len(t) = Len(r) + 1 BY <1>1
  <2> HIDE DEF t
  <2>2. /\ q \o t \in Seq(S) /\ Len(q \o t) = Len(q) + Len(t)
        /\ \A i \in 1 .. Len(q) : (q \o t)[i] = q[i]
        /\ \A i \in Len(q) + 1 .. Len(q) + Len(t) : (q \o t)[i] = t[i - Len(q)]
    BY <2>1, ConcatFacts
  <2>3. Len(q) + Len(t) = Len(q) + Len(r) + 1 BY <2>1, <1>2
  <2> QED BY <2>2, <2>3 DEF t
<1>4. /\ Append(q \o r, e) \in Seq(S) /\ Len(Append(q \o r, e)) = Len(q) + Len(r) + 1
      /\ \A i \in 1 .. Len(q) + Len(r) : Append(q \o r, e)[i] = (q \o r)[i]
      /\ Append(q \o r, e)[Len(q) + Len(r) + 1] = e
  BY <1>2, AppendFacts
<1>5. ASSUME NEW i \in 1 .. Len(q) + Len(r) + 1
      PROVE  (q \o Append(r, e))[i] = Append(q \o r, e)[i]
  <2>1. CASE i \in 1 .. Len(q) BY <2>1, <1>2, <1>3, <1>4
  <2>2. CASE i \in Len(q) + 1 .. Len(q) + Len(r)
    <3>1. i - Len(q) \in 1 .. Len(r) /\ i \in 1 .. Len(q) + Len(r)
          /\ i \in Len(q) + 1 .. Len(q) + Len(r) + 1
      BY <2>2, <1>2
    <3> QED BY <3>1, <2>2, <1>1, <1>2, <1>3, <1>4
  <2>3. CASE i = Len(q) + Len(r) + 1
    <3>1. i - Len(q) = Len(r) + 1 /\ i \in Len(q) + 1 .. Len(q) + Len(r) + 1 BY <2>3, <1>2
    <3> QED BY <3>1, <2>3, <1>1, <1>3, <1>4
  <2> QED BY <2>1, <2>2, <2>3, <1>2
<1> QED BY <1>3, <1>4, <1>5, SameEntries

(* A first entry in front of the others. *)
LEMMA ConsFacts ==
  ASSUME NEW S, NEW q \in Seq(S), NEW e \in S
  PROVE  /\ << >> \o q = q
         /\ <<e>> \o q \in Seq(S) /\ <<e>> \o q # << >>
         /\ Head(<<e>> \o q) = e /\ Tail(<<e>> \o q) = q
         /\ q # << >> => <<Head(q)>> \o Tail(q) = q
<1>1. << >> \o q = q OBVIOUS
<1>2. /\ <<e>> \o q \in Seq(S) /\ Len(<<e>> \o q) = Len(q) + 1 /\ Len(q) \in Nat
      /\ (<<e>> \o q)[1] = e
      /\ \A i \in 2 .. Len(q) + 1 : (<<e>> \o q)[i] = q[i - 1]
  OBVIOUS
<1>3. <<e>> \o q # << >> /\ Head(<<e>> \o q) = e BY <1>2
<1>4. Tail(<<e>> \o q) = q
  <2> DEFINE t == <<e>> \o q
  <2>1. t \in Seq(S) /\ t # << >> BY <1>2, <1>3
  <2>2. /\ Tail(t) \in Seq(S) /\ Len(Tail(t)) = Len(t) - 1
        /\ \A i \in 1 .. Len(Tail(t)) : Tail(t)[i] = t[i + 1]
    BY <2>1, TailFacts
  <2>3. Len(t) = Len(q) + 1 /\ \A i \in 1 .. Len(q) : t[i + 1] = q[i] BY <1>2
  <2> HIDE DEF t
  <2>4. Len(Tail(t)) = Len(q) /\ \A i \in 1 .. Len(q) : Tail(t)[i] = q[i]
    BY <2>2, <2>3, <1>2
  <2>5. Tail(t) = q BY <2>2, <2>4, SameEntries
  <2> QED BY <2>5 DEF t
<1>5. ASSUME q # << >> PROVE <<Head(q)>> \o Tail(q) = q
  <2> DEFINE t == Tail(q)
             h == Head(q)
  <2>1. /\ t \in Seq(S) /\ h = q[1] /\ h \in S /\ Len(q) \in Nat /\ Len(q) > 0
        /\ Len(t) = Len(q) - 1 /\ \A i \in 1 .. Len(t) : t[i] = q[i + 1]
    BY <1>5, TailFacts
  <2> HIDE DEF t, h
  <2>2. /\ <<h>> \o t \in Seq(S) /\ Len(<<h>> \o t) = Len(t) + 1
        /\ (<<h>> \o t)[1] = h
        /\ \A i \in 2 .. Len(t) + 1 : (<<h>> \o t)[i] = t[i - 1]
    BY <2>1
  <2>3. \A i \in 1 .. Len(q) : (<<h>> \o t)[i] = q[i]
    <3> SUFFICES ASSUME NEW i \in 1 .. Len(q) PROVE (<<h>> \o t)[i] = q[i] OBVIOUS
    <3>1. CASE i = 1 BY <3>1, <2>1, <2>2
    <3>2. CASE i # 1
      <4>1. i \in 2 .. Len(t) + 1 /\ i - 1 \in 1 .. Len(t) /\ (i - 1) + 1 = i BY <3>2, <2>1
      <4>2. t[i - 1] = q[i] BY <4>1, <2>1
      <4> QED BY <4>1, <4>2, <2>2
    <3> QED BY <3>1, <3>2
  <2>4. <<h>> \o t = q BY <2>1, <2>2, <2>3, SameEntries
  <2> QED BY <2>4 DEF t, h
<1> QED BY <1>1, <1>2, <1>3, <1>4, <1>5

(* A part of a sequence. *)
LEMMA WindowFacts ==
  ASSUME NEW S, NEW q \in Seq(S), NEW i \in Nat, NEW j \in Nat, i <= j, j <= Len(q)
  PROVE  /\ SubSeq(q, i + 1, j) \in Seq(S) /\ Len(SubSeq(q, i + 1, j)) = j - i
         /\ \A k \in 1 .. j - i : SubSeq(q, i + 1, j)[k] = q[i + k]
  OBVIOUS

(* ... is made of its parts. *)
LEMMA WindowSplit ==
  ASSUME NEW S, NEW q \in Seq(S), NEW i \in Nat, NEW m \in Nat, NEW j \in Nat,
         i <= m, m <= j, j <= Len(q)
  PROVE  SubSeq(q, i + 1, j) = SubSeq(q, i + 1, m) \o SubSeq(q, m + 1, j)
<1> DEFINE x == SubSeq(q, i + 1, m)
           y == SubSeq(q, m + 1, j)
           z == SubSeq(q, i + 1, j)
<1>0. Len(q) \in Nat /\ i <= j /\ m <= Len(q) OBVIOUS
<1>1. /\ x \in Seq(S) /\ Len(x) = m - i /\ \A k \in 1 .. m - i : x[k] = q[i + k]
      /\ y \in Seq(S) /\ Len(y) = j - m /\ \A k \in 1 .. j - m : y[k] = q[m + k]
      /\ z \in Seq(S) /\ Len(z) = j - i /\ \A k \in 1 .. j - i : z[k] = q[i + k]
  BY <1>0, WindowFacts
<1> HIDE DEF x, y, z
<1> DEFINE c == x \o y
           a == Len(x)
           b == Len(y)
<1>2. /\ c \in Seq(S) /\ Len(c) = a + b
      /\ \A k \in 1 .. a : c[k] = x[k]
      /\ \A k \in a + 1 .. a + b : c[k] = y[k - a]
  <2>1. x \in Seq(S) /\ y \in Seq(S) BY <1>1
  <2> QED BY <2>1, ConcatFacts
<1>3. /\ a \in Nat /\ b \in Nat /\ Len(z) = a + b /\ i + a = m
      /\ \A k \in 1 .. a : x[k] = q[i + k]
      /\ \A k \in 1 .. b : y[k] = q[m + k]
      /\ \A k \in 1 .. a + b : z[k] = q[i + k]
  <2>1. a = m - i /\ b = j - m /\ Len(z) = j - i BY <1>1
  <2>2. a + b = j - i /\ i + a = m /\ a \in Nat /\ b \in Nat BY <2>1
  <2> QED BY <1>1, <2>1, <2>2
<1> HIDE DEF a, b, c
<1>4. ASSUME NEW k \in 1 .. a + b PROVE z[k] = c[k]
  <2>1. CASE k <= a
    <3>1. k \in 1 .. a BY <2>1, <1>3
    <3> QED BY <3>1, <1>2, <1>3
  <2>2. CASE k > a
    <3>1. k - a \in 1 .. b /\ m + (k - a) = i + k /\ k \in a + 1 .. a + b BY <2>2, <1>3
    <3> QED BY <3>1, <1>2, <1>3
  <2>3. k <= a \/ k > a BY <1>3
  <2> QED BY <2>1, <2>2, <2>3
<1>5. z = c BY <1>1, <1>2, <1>3, <1>4, SameEntries
<1> QED BY <1>5 DEF x, y, z, c

(* ... and a part of a part is a part. *)
LEMMA WindowInWindow ==
  ASSUME NEW S, NEW q \in Seq(S), NEW i \in Nat, NEW j \in Nat, i <= j, j <= Len(q),
         NEW a \in Nat, NEW b \in Nat, a <= b, b <= j - i
  PROVE  SubSeq(SubSeq(q, i + 1, j), a + 1, b) = SubSeq(q, (i + a) + 1, i + b)
<1> DEFINE x == SubSeq(q, i + 1, j)
           c == i + a
           d == i + b
           y == SubSeq(q, c + 1, d)
           z == SubSeq(x, a + 1, b)
<1>0. Len(q) \in Nat /\ c \in Nat /\ d \in Nat /\ c <= d /\ d <= Len(q) /\ d - c = b - a OBVIOUS
<1> HIDE DEF c, d
<1>1. x \in Seq(S) /\ Len(x) = j - i /\ \A k \in 1 .. j - i : x[k] = q[i + k] BY WindowFacts
<1>2. y \in Seq(S) /\ Len(y) = d - c /\ \A k \in 1 .. d - c : y[k] = q[c + k]
  BY <1>0, WindowFacts
<1> HIDE DEF x, y
<1>3. z \in Seq(S) /\ Len(z) = b - a /\ \A k \in 1 .. b - a : z[k] = x[a + k]
  BY <1>1, WindowFacts
<1> HIDE DEF z
<1>4. ASSUME NEW k \in 1 .. b - a PROVE z[k] = y[k]
  <2>1. a + k \in 1 .. j - i /\ i + (a + k) = c + k /\ k \in 1 .. d - c BY <1>0 DEF c
  <2> QED BY <2>1, <1>1, <1>2, <1>3
<1>5. z = y BY <1>0, <1>2, <1>3, <1>4, SameEntries
<1> QED BY <1>5 DEF x, y, z, c, d

----------------------------------------------------------------------------
(* The least element of a set of naturals. *)
LEMMA NatLeast ==
  ASSUME NEW T, T \subseteq Nat, T # {}
  PROVE  \E x \in T : \A y \in T : x <= y
<1> DEFINE R == OpToRel(<, Nat)
<1>1. IsWellFoundedOn(R, Nat) BY NatLessThanWellFounded
<1>2. \A y, x \in Nat : y < x => <<y, x>> \in R BY DEF OpToRel
<1> HIDE DEF R
<1>3. PICK x \in T : \A y \in T : ~ (<<y, x>> \in R) BY <1>1, WFMin
<1>4. ASSUME NEW y \in T PROVE x <= y
  <2>1. y \in Nat /\ x \in Nat OBVIOUS
  <2>2. ~(y < x) BY <1>2, <1>3, <2>1
  <2> QED BY <2>1, <2>2
<1> QED BY <1>4

(* Induction, for a set of naturals. *)
LEMMA NatSetInduction ==
  ASSUME NEW S, 0 \in S, \A n \in Nat : n \in S => n + 1 \in S
  PROVE  Nat \subseteq S
<1> DEFINE T == Nat \ S
<1> SUFFICES ASSUME T # {} PROVE FALSE OBVIOUS
<1>1. T \subseteq Nat OBVIOUS
<1>2. \E x \in T : \A y \in T : x <= y
  <2> HIDE DEF T
  <2> QED BY <1>1, NatLeast
<1>3. PICK x \in T : \A y \in T : x <= y BY <1>2
<1>4. x # 0 /\ x - 1 \in Nat OBVIOUS
<1>5. x - 1 \in S BY <1>3, <1>4
<1> QED BY <1>4, <1>5

(* A least counterexample: what fails somewhere on S fails at an s before
   which, in the order of size, it holds. *)
LEMMA LeastOf ==
  ASSUME NEW S, NEW size \in [S -> Nat], NEW B \in SUBSET S, B # {}
  PROVE  \E s \in B : \A t \in B : size[s] <= size[t]
<1> DEFINE T == {size[s] : s \in B}
<1>1. T \subseteq Nat /\ T # {} OBVIOUS
<1>2. \E x \in T : \A y \in T : x <= y
  <2> HIDE DEF T
  <2> QED BY <1>1, NatLeast
<1> QED BY <1>2

(* The loop "while s is not done, s := step[s]" on the states S, in which each
   step makes something smaller; f as the function from a state to the one the
   loop ends in; and what the loop keeps. *)
IsLoop(S, step, done, size) ==
  /\ step \in [S -> S] /\ done \in SUBSET S /\ size \in [S -> Nat]
  /\ \A s \in S \ done : size[step[s]] < size[s]
RunsLoop(f, S, step, done) == \A s \in S : f[s] = IF s \in done THEN s ELSE f[step[s]]
KeptByLoop(I, S, step, done) == I \in SUBSET S /\ \A s \in I \ done : step[s] \in I

(* Such a function exists. *)
LEMMA LoopDefined ==
  ASSUME NEW S, NEW step, NEW done, NEW size, IsLoop(S, step, done, size)
  PROVE  \E f \in [S -> S] : RunsLoop(f, S, step, done)
<1> USE DEF IsLoop
<1> DEFINE D(n) == {s \in S : size[s] < n}
           Good(g, n) == /\ g \in [D(n) -> S]
                         /\ \A s \in D(n) : g[s] = IF s \in done THEN s ELSE g[step[s]]
           N == {n \in Nat : \E g : Good(g, n)}
<1>1. 0 \in N
  <2>1. D(0) = {} OBVIOUS
  <2>2. Good([s \in D(0) |-> s], 0) BY <2>1
  <2> QED BY <2>2
<1>2. ASSUME NEW n \in Nat, n \in N PROVE n + 1 \in N
  <2>1. PICK g : Good(g, n) BY <1>2
  <2> DEFINE h == [s \in D(n + 1) |-> IF s \in done THEN s ELSE g[step[s]]]
  <2>2. ASSUME NEW s \in D(n + 1), s \notin done
        PROVE  step[s] \in D(n) /\ step[s] \in D(n + 1) /\ step[s] \in S
    <3>1. size[s] \in Nat /\ size[step[s]] \in Nat /\ size[s] < n + 1 /\ size[step[s]] < size[s]
      BY <2>2
    <3>2. size[step[s]] < n /\ size[step[s]] < n + 1 BY <3>1
    <3> QED BY <3>2
  <2>3. ASSUME NEW s \in D(n) PROVE h[s] = g[s] /\ s \in D(n + 1)
    <3>1. size[s] \in Nat /\ size[s] < n BY <2>3
    <3>2. s \in D(n + 1) BY <3>1
    <3>3. g[s] = IF s \in done THEN s ELSE g[step[s]] BY <2>1, <2>3
    <3> QED BY <3>2, <3>3
  <2>4. h \in [D(n + 1) -> S]
    <3> SUFFICES ASSUME NEW s \in D(n + 1) PROVE h[s] \in S OBVIOUS
    <3>1. CASE s \in done BY <3>1
    <3>2. CASE s \notin done
      <4>1. step[s] \in D(n) BY <3>2, <2>2
      <4>2. g[step[s]] \in S BY <4>1, <2>1
      <4> QED BY <3>2, <4>2
    <3> QED BY <3>1, <3>2
  <2>5. ASSUME NEW s \in D(n + 1) PROVE h[s] = IF s \in done THEN s ELSE h[step[s]]
    <3>1. CASE s \in done BY <3>1
    <3>2. CASE s \notin done
      <4>1. step[s] \in D(n) BY <3>2, <2>2
      <4>2. h[step[s]] = g[step[s]] BY <4>1, <2>3
      <4>3. h[s] = g[step[s]] BY <3>2
      <4> QED BY <3>2, <4>2, <4>3
    <3> QED BY <3>1, <3>2
  <2>6. Good(h, n + 1) BY <2>4, <2>5
  <2> HIDE DEF Good
  <2> QED BY <2>6
<1>3. Nat \subseteq N
  <2> HIDE DEF N
  <2> QED BY <1>1, <1>2, NatSetInduction
<1>4. ASSUME NEW n \in Nat, NEW m \in Nat, NEW g, NEW h, Good(g, n), Good(h, m),
             NEW s \in D(n), s \in D(m)
      PROVE  g[s] = h[s]
  <2> DEFINE B == {t \in D(n) \cap D(m) : g[t] # h[t]}
  <2> SUFFICES ASSUME B # {} PROVE FALSE BY <1>4
  <2>1. B \in SUBSET S OBVIOUS
  <2>2. \E t \in B : \A u \in B : size[t] <= size[u]
    <3> HIDE DEF B
    <3> QED BY <2>1, LeastOf
  <2>3. PICK t \in B : \A u \in B : size[t] <= size[u] BY <2>2
  <2>4. t \in D(n) /\ t \in D(m) /\ t \in S /\ g[t] # h[t] BY <2>3
  <2>5. /\ g[t] = IF t \in done THEN t ELSE g[step[t]]
        /\ h[t] = IF t \in done THEN t ELSE h[step[t]]
    BY <2>4, <1>4
  <2>6. t \notin done /\ g[step[t]] # h[step[t]] BY <2>4, <2>5
  <2>7. size[step[t]] < size[t] /\ step[t] \in S BY <2>4, <2>6
  <2>8. size[t] \in Nat /\ size[step[t]] \in Nat /\ size[t] < n /\ size[t] < m BY <2>4, <2>7
  <2>9. step[t] \in D(n) /\ step[t] \in D(m) BY <2>7, <2>8
  <2>10. step[t] \in B BY <2>6, <2>9
  <2>11. size[t] <= size[step[t]] BY <2>3, <2>10
  <2> QED BY <2>7, <2>8, <2>11
<1> DEFINE G == [n \in Nat |-> CHOOSE g : Good(g, n)]
           f == [s \in S |-> G[size[s] + 1][s]]
<1>5. \A n \in Nat : Good(G[n], n)
  <2> TAKE n \in Nat
  <2>1. \E g : Good(g, n) BY <1>3
  <2> HIDE DEF Good
  <2> QED BY <2>1
<1>6. ASSUME NEW s \in S PROVE size[s] + 1 \in Nat /\ s \in D(size[s] + 1)
  <2>1. size[s] \in Nat BY <1>6
  <2> QED BY <2>1
<1>7. f \in [S -> S]
  <2> SUFFICES ASSUME NEW s \in S PROVE G[size[s] + 1][s] \in S OBVIOUS
  <2>1. G[size[s] + 1] \in [D(size[s] + 1) -> S] BY <1>5, <1>6
  <2> HIDE DEF G, D
  <2> QED BY <2>1, <1>6
<1>8. ASSUME NEW s \in S PROVE f[s] = IF s \in done THEN s ELSE f[step[s]]
  <2> DEFINE g == G[size[s] + 1]
  <2>1. Good(g, size[s] + 1) /\ s \in D(size[s] + 1) /\ size[s] + 1 \in Nat BY <1>5, <1>6
  <2>2. f[s] = g[s] OBVIOUS
  <2>3. g[s] = IF s \in done THEN s ELSE g[step[s]] BY <2>1
  <2>4. ASSUME s \notin done PROVE g[step[s]] = f[step[s]]
    <3> DEFINE t == step[s]
               h == G[size[t] + 1]
    <3>1. t \in S /\ size[t] < size[s] /\ size[s] \in Nat /\ size[t] \in Nat BY <2>4
    <3>2. Good(h, size[t] + 1) /\ t \in D(size[t] + 1) /\ size[t] + 1 \in Nat
      BY <1>5, <1>6, <3>1
    <3>3. t \in D(size[s] + 1) BY <3>1
    <3>4. f[t] = h[t] BY <3>1
    <3> HIDE DEF t, g, h, Good, D, G, f
    <3>5. g[t] = h[t] BY <1>4, <2>1, <3>2, <3>3
    <3> QED BY <3>4, <3>5 DEF t
  <2> HIDE DEF f, g
  <2> QED BY <2>2, <2>3, <2>4
<1>9. RunsLoop(f, S, step, done)
  <2> HIDE DEF f
  <2> QED BY <1>8 DEF RunsLoop
<1> HIDE DEF f
<1> QED BY <1>7, <1>9

(* What every step keeps holds at the end of the loop, which is done. *)
LEMMA LoopEnds ==
  ASSUME NEW S, NEW step, NEW done, NEW size, IsLoop(S, step, done, size),
         NEW f, RunsLoop(f, S, step, done),
         NEW I, KeptByLoop(I, S, step, done), NEW a \in I
  PROVE  f[a] \in I /\ f[a] \in done
<1> USE DEF IsLoop, RunsLoop, KeptByLoop
<1> DEFINE B == {s \in I : ~(f[s] \in I /\ f[s] \in done)}
<1> SUFFICES ASSUME B # {} PROVE FALSE OBVIOUS
<1>1. B \in SUBSET S OBVIOUS
<1>2. \E t \in B : \A u \in B : size[t] <= size[u]
  <2> HIDE DEF B
  <2> QED BY <1>1, LeastOf
<1>3. PICK t \in B : \A u \in B : size[t] <= size[u] BY <1>2
<1>4. t \in I /\ t \in S /\ f[t] = IF t \in done THEN t ELSE f[step[t]] BY <1>3
<1>5. t \notin done BY <1>3, <1>4
<1>6. step[t] \in I /\ size[step[t]] < size[t] /\ size[t] \in Nat /\ size[step[t]] \in Nat
  BY <1>4, <1>5
<1>7. step[t] \in B BY <1>3, <1>4, <1>5, <1>6
<1>8. size[t] <= size[step[t]] BY <1>3, <1>7
<1> QED BY <1>6, <1>8

(* A recursion over 0 .. n: from start, in n steps. *)
Iterates(f, n, start, step) ==
  f[0] = start /\ \A k \in 1 .. n : f[k] = step[k][f[k - 1]]

(* There is a function that follows it. *)
LEMMA IterationDefined ==
  ASSUME NEW n \in Nat, NEW S, NEW start \in S, NEW step \in [1 .. n -> [S -> S]]
  PROVE  \E f \in [0 .. n -> S] : Iterates(f, n, start, step)
<1> DEFINE N == {m \in Nat : m <= n => \E f \in [0 .. m -> S] : Iterates(f, m, start, step)}
<1>1. 0 \in N
  <2> DEFINE f == [k \in 0 .. 0 |-> start]
  <2>1. f \in [0 .. 0 -> S] /\ Iterates(f, 0, start, step) BY DEF Iterates
  <2> QED BY <2>1
<1>2. ASSUME NEW m \in Nat, m \in N PROVE m + 1 \in N
  <2> SUFFICES ASSUME m + 1 <= n
               PROVE  \E f \in [0 .. m + 1 -> S] : Iterates(f, m + 1, start, step)
    OBVIOUS
  <2>1. PICK f \in [0 .. m -> S] : Iterates(f, m, start, step) BY <1>2
  <2> DEFINE g == [k \in 0 .. m + 1 |-> IF k = m + 1 THEN step[m + 1][f[m]] ELSE f[k]]
  <2>2. step[m + 1][f[m]] \in S
    <3>1. m + 1 \in 1 .. n /\ f[m] \in S OBVIOUS
    <3>2. step[m + 1] \in [S -> S] BY <3>1
    <3> QED BY <3>1, <3>2
  <2>3. g \in [0 .. m + 1 -> S] BY <2>2
  <2>4. g[0] = start BY <2>1 DEF Iterates
  <2>5. ASSUME NEW k \in 1 .. m + 1 PROVE g[k] = step[k][g[k - 1]]
    <3>1. CASE k = m + 1 BY <3>1
    <3>2. CASE k # m + 1
      <4>1. k \in 1 .. m /\ k - 1 \in 0 .. m /\ k - 1 # m + 1 /\ k \in 0 .. m + 1
            /\ k - 1 \in 0 .. m + 1
        BY <3>2
      <4>2. g[k] = f[k] /\ g[k - 1] = f[k - 1] BY <4>1
      <4>3. f[k] = step[k][f[k - 1]] BY <4>1, <2>1 DEF Iterates
      <4> QED BY <4>2, <4>3
    <3> QED BY <3>1, <3>2
  <2>6. Iterates(g, m + 1, start, step) BY <2>4, <2>5 DEF Iterates
  <2> HIDE DEF g
  <2> QED BY <2>3, <2>6
<1>3. Nat \subseteq N
  <2> HIDE DEF N
  <2> QED BY <1>1, <1>2, NatSetInduction
<1>4. n \in N BY <1>3
<1> QED BY <1>4

----------------------------------------------------------------------------
(* Quotient and remainder. *)
LEMMA DivModFacts ==
  ASSUME NEW a \in Int, NEW m \in Int, m > 0
  PROVE /\ a \div m \in Int /\ a % m \in 0 .. m - 1 /\ a = m * (a \div m) + (a % m)
  OBVIOUS

(* Multiplication keeps the order ... *)
LEMMA MulMono ==
  ASSUME NEW a \in Int, NEW b \in Int, NEW c \in Nat, a <= b
  PROVE a * c <= b * c /\ a * c \in Int /\ b * c \in Int
  OBVIOUS

(* ... and the sign. *)
LEMMA MulPos ==
  ASSUME NEW a \in Int, a > 0, NEW b \in Int, b > 0
  PROVE a * b \in Int /\ a * b > 0
  OBVIOUS

(* Quotient and remainder are unique. *)
LEMMA DivUnique ==
  ASSUME NEW m \in Int, m > 0, NEW k \in Int, NEW r \in 0 .. m - 1
  PROVE (m * k + r) \div m = k /\ (m * k + r) % m = r
<1> DEFINE a == m * k + r
           d == a \div m
           e == a % m
<1>1. a \in Int /\ d \in Int /\ e \in 0 .. m - 1 /\ a = m * d + e BY DivModFacts
<1>2. m * (d - k) = r - e BY <1>1
<1>3. ~(d - k >= 1)
  <2> SUFFICES ASSUME d - k >= 1 PROVE FALSE OBVIOUS
  <2>1. m * (d - k) >= m BY <1>1
  <2> QED BY <2>1, <1>1, <1>2
<1>4. ~(d - k <= -1)
  <2> SUFFICES ASSUME d - k <= -1 PROVE FALSE OBVIOUS
  <2>1. m * (d - k) <= -m BY <1>1
  <2> QED BY <2>1, <1>1, <1>2
<1>5. d = k BY <1>1, <1>3, <1>4
<1> QED BY <1>5, <1>1

(* Quotients of naturals, ... *)
LEMMA DivNat == ASSUME NEW a \in Nat, NEW m \in Int, m > 0 PROVE a \div m \in Nat
  OBVIOUS

(* ... their order, ... *)
LEMMA DivMono ==
  ASSUME NEW a \in Int, NEW b \in Int, NEW m \in Int, m > 0, a <= b
  PROVE  a \div m <= b \div m
  OBVIOUS

(* ... and the quotient after adding a multiple of the divisor. *)
LEMMA DivAdd ==
  ASSUME NEW n \in Int, NEW z \in Int, NEW p \in Int, p > 0
  PROVE (n + z * p) \div p = (n \div p) + z
<1> DEFINE x == n \div p
           y == n % p
<1>1. x \in Int /\ y \in 0 .. p - 1 /\ n = p * x + y BY DivModFacts
<1> HIDE DEF x, y
<1>2. n + z * p = p * (x + z) + y BY <1>1
<1>3. x + z \in Int BY <1>1
<1>4. (p * (x + z) + y) \div p = x + z BY <1>1, <1>3, DivUnique
<1> QED BY <1>2, <1>4 DEF x
=============================================================================
