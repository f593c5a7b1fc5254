--------------------------- MODULE TimerHeapProofs ---------------------------
(***************************************************************************)
(* Theorems about TimerHeap: the map, the array and the positions agree;   *)
(* without removals the array is a min heap, polls end in time, and the    *)
(* heap implements the table of timers.                                    *)
(***************************************************************************)
EXTENDS MCTimerHeap, QueueFacts, FiniteSetTheorems, TLAPS

(* Array and positions of q describe the timers D. *)
Placed(q, D) ==
  /\ \A i \in DOMAIN q.heap : q.heap[i] \in D /\ q.pos[q.heap[i]] = i
  /\ \A id \in D : q.pos[id] \in DOMAIN q.heap /\ q.heap[q.pos[id]] = id

(* q and r agree on the positions of the timers outside D. *)
SameOutside(q, r, D) == \A id \in Ids \ D : q.pos[id] = r.pos[id]

LEMMA HeapsFacts ==
  ASSUME NEW n \in Nat, NEW m \in Nat, NEW q \in Heaps(n, m)
  PROVE  /\ q.heap \in [1 .. n -> Ids] /\ q.heap \in Seq(Ids) /\ Len(q.heap) = n
         /\ DOMAIN q.heap = 1 .. n
         /\ q.pos \in [Ids -> Int] /\ q.at \in 1 .. m
<1>1. q.heap \in [1 .. n -> Ids] /\ q.pos \in [Ids -> Int] /\ q.at \in 1 .. m
  BY DEF Heaps
<1>2. q.heap \in Seq(Ids) /\ Len(q.heap) = n BY <1>1, TableFacts
<1> QED BY <1>1, <1>2

LEMMA HeapsWiden ==
  ASSUME NEW n \in Nat, NEW q \in Heaps(n, n)
  PROVE  q \in Heaps(n, n + 1)
<1>1. 1 .. n \subseteq 1 .. n + 1 OBVIOUS
<1> DEFINE A == 1 .. n
           B == 1 .. n + 1
           H == [1 .. n -> Ids]
           P == [Ids -> Int]
<1>2. q \in [heap : H, pos : P, at : A] BY DEF Heaps
<1> HIDE DEF H, P, A, B
<1>3. q \in [heap : H, pos : P, at : B] BY <1>1, <1>2 DEF A, B
<1> QED BY <1>3 DEF Heaps, H, P, B

(* Exchanging two timers keeps map and positions in agreement. *)
LEMMA SwapFacts ==
  ASSUME NEW n \in Nat, NEW m \in Nat, NEW q \in Heaps(n, m),
         q.at \in 1 .. n, NEW j \in 1 .. n
  PROVE  /\ Swap(q, j) \in Heaps(n, n)
         /\ Swap(q, j).at = j
         /\ Swap(q, j).heap[q.at] = q.heap[j]
         /\ Swap(q, j).heap[j] = q.heap[q.at]
         /\ \A i \in 1 .. n : i # j /\ i # q.at => Swap(q, j).heap[i] = q.heap[i]
<1>1. /\ q.heap \in [1 .. n -> Ids] /\ q.pos \in [Ids -> Int] /\ j \in Int /\ q.at \in Int
  BY HeapsFacts
<1>2. Swap(q, j).heap \in [1 .. n -> Ids]
  BY <1>1 DEF Swap
<1>3. Swap(q, j).pos \in [Ids -> Int]
  BY <1>1 DEF Swap
<1>4. Swap(q, j) = [heap |-> Swap(q, j).heap, pos |-> Swap(q, j).pos, at |-> j]
  BY DEF Swap
<1>5. Swap(q, j) \in Heaps(n, n)
  BY <1>2, <1>3, <1>4 DEF Heaps
<1>6. /\ Swap(q, j).at = j
      /\ Swap(q, j).heap[q.at] = q.heap[j]
      /\ Swap(q, j).heap[j] = q.heap[q.at]
      /\ \A i \in 1 .. n : i # j /\ i # q.at => Swap(q, j).heap[i] = q.heap[i]
  BY <1>1 DEF Swap
<1> QED BY <1>5, <1>6

LEMMA SwapPlaced ==
  ASSUME NEW n \in Nat, NEW m \in Nat, NEW q \in Heaps(n, m), NEW D \in SUBSET Ids,
         q.at \in 1 .. n, NEW j \in 1 .. n, j # q.at, Placed(q, D)
  PROVE  Placed(Swap(q, j), D) /\ SameOutside(Swap(q, j), q, D)
<1> DEFINE r == Swap(q, j)
           a == q.heap[q.at]
           b == q.heap[j]
<1>1. /\ q.heap \in [1 .. n -> Ids] /\ q.pos \in [Ids -> Int] /\ DOMAIN q.heap = 1 .. n
  BY HeapsFacts
<1>2. a \in D /\ b \in D /\ q.pos[a] = q.at /\ q.pos[b] = j BY <1>1 DEF Placed
<1>3. a # b BY <1>2
<1>4. /\ r.pos[a] = j /\ r.pos[b] = q.at
      /\ \A id \in Ids : id # a /\ id # b => r.pos[id] = q.pos[id]
  BY <1>1, <1>2, <1>3 DEF Swap
<1>5. /\ r.heap[q.at] = b /\ r.heap[j] = a /\ DOMAIN r.heap = 1 .. n
      /\ \A i \in 1 .. n : i # j /\ i # q.at => r.heap[i] = q.heap[i]
  <2>1. r \in Heaps(n, n) BY SwapFacts
  <2>2. DOMAIN r.heap = 1 .. n BY <2>1, HeapsFacts
  <2> QED BY <2>2, SwapFacts
<1> HIDE DEF r, a, b
<1>6. ASSUME NEW i \in 1 .. n PROVE r.heap[i] \in D /\ r.pos[r.heap[i]] = i
  <2>1. CASE i = j BY <2>1, <1>2, <1>4, <1>5
  <2>2. CASE i = q.at BY <2>2, <1>2, <1>4, <1>5
  <2>3. CASE i # j /\ i # q.at
    <3>1. r.heap[i] = q.heap[i] /\ q.heap[i] \in D /\ q.pos[q.heap[i]] = i
      BY <2>3, <1>1, <1>5 DEF Placed
    <3>2. q.heap[i] # a /\ q.heap[i] # b BY <3>1, <2>3, <1>2
    <3> QED BY <3>1, <3>2, <1>4
  <2> QED BY <2>1, <2>2, <2>3
<1>7. ASSUME NEW id \in D PROVE r.pos[id] \in 1 .. n /\ r.heap[r.pos[id]] = id
  <2>1. CASE id = a BY <2>1, <1>4, <1>5
  <2>2. CASE id = b BY <2>2, <1>4, <1>5
  <2>3. CASE id # a /\ id # b
    <3>1. r.pos[id] = q.pos[id] /\ q.pos[id] \in 1 .. n /\ q.heap[q.pos[id]] = id
      BY <2>3, <1>1, <1>4 DEF Placed
    <3>2. q.pos[id] # j /\ q.pos[id] # q.at BY <3>1, <2>3, <1>2 DEF a, b
    <3> QED BY <3>1, <3>2, <1>5
  <2> QED BY <2>1, <2>2, <2>3
<1>8. Placed(r, D) BY <1>5, <1>6, <1>7 DEF Placed
<1>9. SameOutside(r, q, D) BY <1>2, <1>4 DEF SameOutside
<1> QED BY <1>8, <1>9 DEF r
-----------------------------------------------------------------------------
(* The due times of the timers D are timestamps. *)
DuesOK(tm, D) == \A id \in D : TimestampOK(tm[id].due)

(* Being due earlier is a strict weak order. *)
LEMMA EarlierOrder ==
  ASSUME NEW D, NEW tm, DuesOK(tm, D), NEW a \in D, NEW b \in D, NEW c \in D
  PROVE  /\ Earlier(tm, a, b) => ~Earlier(tm, b, a)
         /\ Earlier(tm, a, b) /\ Earlier(tm, b, c) => Earlier(tm, a, c)
         /\ ~Earlier(tm, a, b) /\ ~Earlier(tm, b, c) => ~Earlier(tm, a, c)
<1>1. /\ tm[a].due.second \in Nat /\ tm[b].due.second \in Nat /\ tm[c].due.second \in Nat
      /\ tm[a].due.nanosecond \in Int /\ tm[b].due.nanosecond \in Int
      /\ tm[c].due.nanosecond \in Int
  BY DEF DuesOK, TimestampOK
<1> QED BY <1>1 DEF Earlier, Less

(* No timer of the array is due before its parent. *)
Ordered(h, tm) == \A i \in 2 .. Len(h) : ~Earlier(tm, h[i], h[i \div 2])

(* ... but perhaps the one at q.at, which may have to go up, ... *)
OrderedBelow(q, tm) ==
  /\ \A i \in 2 .. Len(q.heap) : i # q.at => ~Earlier(tm, q.heap[i], q.heap[i \div 2])
  /\ \A i \in 2 .. Len(q.heap) : i \div 2 = q.at /\ q.at >= 2 =>
       ~Earlier(tm, q.heap[i], q.heap[q.at \div 2])

(* ... or perhaps its children, so that it may have to go down. *)
OrderedAbove(q, tm) ==
  /\ \A i \in 2 .. Len(q.heap) : i \div 2 # q.at => ~Earlier(tm, q.heap[i], q.heap[i \div 2])
  /\ \A i \in 2 .. Len(q.heap) : i \div 2 = q.at /\ q.at >= 2 =>
       ~Earlier(tm, q.heap[i], q.heap[q.at \div 2])

LEMMA ParentFacts ==
  ASSUME NEW n \in Nat, NEW i \in 1 .. n
  PROVE  /\ i \div 2 \in 0 .. n /\ i \div 2 < i
         /\ i >= 2 => i \div 2 \in 1 .. n
         /\ i \div 2 = 0 => i = 1
  OBVIOUS

LEMMA UpStep ==
  ASSUME NEW n \in Nat, NEW q \in Heaps(n, n), NEW D \in SUBSET Ids, NEW tm, DuesOK(tm, D),
         Placed(q, D), OrderedBelow(q, tm), ~UpDone(q, tm)
  PROVE  OrderedBelow(Swap(q, q.at \div 2), tm)
<1> DEFINE a == q.at
           p == q.at \div 2
           r == Swap(q, p)
           h == q.heap
<1>1. /\ a \in 1 .. n /\ p # 0 /\ ~Earlier(tm, h[p], h[a])
      /\ Len(h) = n /\ DOMAIN h = 1 .. n
  BY HeapsFacts DEF UpDone
<1>2. p \in 1 .. n /\ p < a /\ a >= 2 BY <1>1
<1>3. /\ r \in Heaps(n, n) /\ r.at = p /\ r.heap[a] = h[p] /\ r.heap[p] = h[a]
      /\ \A i \in 1 .. n : i # p /\ i # a => r.heap[i] = h[i]
  BY <1>1, <1>2, SwapFacts
<1>4. Len(r.heap) = n BY <1>3, HeapsFacts
<1>5. \A i \in 1 .. n : h[i] \in D BY <1>1 DEF Placed
<1>6. /\ \A i \in 2 .. n : i # a => ~Earlier(tm, h[i], h[i \div 2])
      /\ \A i \in 2 .. n : i \div 2 = a => ~Earlier(tm, h[i], h[p])
  BY <1>1, <1>2 DEF OrderedBelow
<1>7. \A x, y, z \in D : ~Earlier(tm, x, y) /\ ~Earlier(tm, y, z) => ~Earlier(tm, x, z)
  BY EarlierOrder
<1>8. a \div 2 = p OBVIOUS
<1> HIDE DEF a, p, r, h
<1>9. ASSUME NEW i \in 2 .. n, i # p
      PROVE  ~Earlier(tm, r.heap[i], r.heap[i \div 2])
  <2>1. i \in 1 .. n /\ i \div 2 \in 1 .. n /\ i \div 2 < i OBVIOUS
  <2>2. CASE i = a BY <2>2, <1>1, <1>3, <1>8
  <2>3. CASE i # a /\ i \div 2 = a
    <3>1. r.heap[i] = h[i] /\ r.heap[i \div 2] = h[p] BY <2>1, <2>3, <1>3, <1>9
    <3> QED BY <3>1, <2>3, <1>6
  <2>4. CASE i # a /\ i \div 2 = p
    <3>1. r.heap[i] = h[i] /\ r.heap[i \div 2] = h[a] BY <2>1, <2>4, <1>3, <1>9
    <3>2. ~Earlier(tm, h[i], h[p]) BY <2>4, <1>6
    <3> QED BY <3>1, <3>2, <2>1, <1>1, <1>2, <1>5, <1>7
  <2>5. CASE i # a /\ i \div 2 # a /\ i \div 2 # p
    <3>1. r.heap[i] = h[i] /\ r.heap[i \div 2] = h[i \div 2] BY <2>1, <2>5, <1>3, <1>9
    <3> QED BY <3>1, <2>5, <1>6
  <2> QED BY <2>2, <2>3, <2>4, <2>5
<1>10. ASSUME NEW i \in 2 .. n, i \div 2 = p, p >= 2
       PROVE  ~Earlier(tm, r.heap[i], r.heap[p \div 2])
  <2>1. i \in 1 .. n /\ p \div 2 \in 1 .. n /\ p \div 2 < p /\ i # p BY <1>2, <1>10
  <2>2. r.heap[p \div 2] = h[p \div 2] BY <2>1, <1>2, <1>3
  <2>3. ~Earlier(tm, h[p], h[p \div 2]) BY <1>2, <1>6, <1>10
  <2>4. CASE i = a BY <2>2, <2>3, <2>4, <1>3
  <2>5. CASE i # a
    <3>1. r.heap[i] = h[i] /\ ~Earlier(tm, h[i], h[p]) BY <2>1, <2>5, <1>3, <1>6, <1>10
    <3> QED BY <3>1, <2>1, <2>2, <2>3, <1>2, <1>5, <1>7
  <2> QED BY <2>4, <2>5
<1>11. OrderedBelow(r, tm) BY <1>3, <1>4, <1>9, <1>10 DEF OrderedBelow
<1> QED BY <1>11 DEF r, p

LEMMA UpEnd ==
  ASSUME NEW n \in Nat, NEW q \in Heaps(n, n), NEW D \in SUBSET Ids, NEW tm, DuesOK(tm, D),
         Placed(q, D), OrderedBelow(q, tm), UpDone(q, tm)
  PROVE  Ordered(q.heap, tm)
<1>1. q.at \in 1 .. n /\ Len(q.heap) = n /\ DOMAIN q.heap = 1 .. n BY HeapsFacts
<1> SUFFICES ASSUME NEW i \in 2 .. n PROVE ~Earlier(tm, q.heap[i], q.heap[i \div 2])
  BY <1>1 DEF Ordered
<1>2. CASE i # q.at BY <1>1, <1>2 DEF OrderedBelow
<1>3. CASE i = q.at
  <2>1. i \div 2 \in 1 .. n /\ i \in 1 .. n OBVIOUS
  <2>2. Earlier(tm, q.heap[i \div 2], q.heap[i]) BY <2>1, <1>3 DEF UpDone
  <2>3. q.heap[i] \in D /\ q.heap[i \div 2] \in D BY <2>1, <1>1 DEF Placed
  <2> QED BY <2>2, <2>3, EarlierOrder
<1> QED BY <1>2, <1>3

(* What minHeapInsert's loop does to a heap whose last timer was just put
   there. *)
LEMMA SiftUpFacts ==
  ASSUME NEW n \in Nat, NEW q \in Heaps(n, n), NEW D \in SUBSET Ids, NEW tm, Placed(q, D)
  PROVE  /\ SiftUp(q, tm) \in Heaps(n, n)
         /\ Placed(SiftUp(q, tm), D)
         /\ SameOutside(SiftUp(q, tm), q, D)
         /\ DuesOK(tm, D) /\ OrderedBelow(q, tm) => Ordered(SiftUp(q, tm).heap, tm)
<1> DEFINE S == Heaps(n, n)
           done == {r \in S : UpDone(r, tm)}
           next(r) == Swap(r, r.at \div 2)
           step == [r \in S |-> IF r \in done THEN r ELSE next(r)]
           size == [r \in S |-> r.at]
           f == CHOOSE g : g = [r \in S |-> IF UpDone(r, tm) THEN r ELSE g[next(r)]]
<1>1. ASSUME NEW r \in S, r \notin done
      PROVE  next(r) \in S /\ r.at \in Nat /\ next(r).at \in Nat /\ next(r).at < r.at
             /\ r.at \div 2 \in 1 .. n /\ r.at \in 1 .. n /\ r.at \div 2 # r.at
  <2>1. r.at \in 1 .. n BY HeapsFacts
  <2>2. r.at \div 2 # 0 BY <1>1 DEF UpDone
  <2>3. r.at \div 2 \in 1 .. n /\ r.at \div 2 < r.at BY <2>1, <2>2
  <2>4. next(r) \in Heaps(n, n) /\ next(r).at = r.at \div 2 BY <2>1, <2>3, SwapFacts
  <2> QED BY <2>1, <2>3, <2>4
<1>2. step \in [S -> S] BY <1>1
<1>3. size \in [S -> Nat]
  <2>1. \A r \in S : r.at \in 1 .. n BY HeapsFacts
  <2> QED BY <2>1
<1>4. \A r \in S \ done : step[r] = next(r) /\ size[step[r]] < size[r]
  <2> SUFFICES ASSUME NEW r \in S \ done PROVE step[r] = next(r) /\ size[step[r]] < size[r]
    OBVIOUS
  <2>1. step[r] = next(r) /\ size[r] = r.at /\ size[next(r)] = next(r).at BY <1>1
  <2> QED BY <2>1, <1>1
<1>5. done \in SUBSET S OBVIOUS
<1>6. /\ IsLoop(S, step, done, size)
      /\ \E g \in [S -> S] : \A r \in S : g[r] = IF r \in done THEN r ELSE g[step[r]]
  <2> HIDE DEF S, done, step, size, next, f
  <2>1. IsLoop(S, step, done, size) BY <1>2, <1>3, <1>4, <1>5 DEF IsLoop
  <2>2. \E g \in [S -> S] : RunsLoop(g, S, step, done) BY <2>1, LoopDefined
  <2> QED BY <2>1, <2>2 DEF RunsLoop
<1>7. f = [r \in S |-> IF UpDone(r, tm) THEN r ELSE f[next(r)]]
  <2>1. PICK g \in [S -> S] : \A r \in S : g[r] = IF r \in done THEN r ELSE g[step[r]] BY <1>6
  <2>2. g = [r \in S |-> g[r]] BY <2>1
  <2>3. \A r \in S : g[r] = IF UpDone(r, tm) THEN r ELSE g[next(r)] BY <2>1, <1>4
  <2> HIDE DEF S, next
  <2>4. g = [r \in S |-> IF UpDone(r, tm) THEN r ELSE g[next(r)]] BY <2>2, <2>3
  <2> QED BY <2>4
<1>8. \A r \in S : f[r] = IF r \in done THEN r ELSE f[step[r]]
  <2> HIDE DEF S, next, f
  <2> SUFFICES ASSUME NEW r \in S PROVE f[r] = IF r \in done THEN r ELSE f[step[r]] OBVIOUS
  <2>1. f[r] = IF UpDone(r, tm) THEN r ELSE f[next(r)] BY <1>7
  <2> QED BY <2>1, <1>4
<1>9. SiftUp(q, tm) = f[q]
  <2>1. Len(q.heap) = n BY HeapsFacts
  <2> QED BY <2>1 DEF SiftUp
<1> DEFINE I == {r \in S : /\ Placed(r, D) /\ SameOutside(r, q, D)
                           /\ DuesOK(tm, D) /\ OrderedBelow(q, tm) => OrderedBelow(r, tm)}
<1>10. I \in SUBSET S /\ q \in I BY DEF SameOutside
<1>11. \A r \in I \ done : step[r] \in I
  <2> SUFFICES ASSUME NEW r \in I \ done PROVE next(r) \in I BY <1>4
  <2>1. next(r) \in S BY <1>1
  <2>2. Placed(next(r), D) /\ SameOutside(next(r), r, D) BY <1>1, SwapPlaced
  <2>3. SameOutside(next(r), q, D) BY <2>2 DEF SameOutside
  <2>4. ASSUME DuesOK(tm, D), OrderedBelow(q, tm) PROVE OrderedBelow(next(r), tm)
    <3>1. Placed(r, D) /\ OrderedBelow(r, tm) /\ ~UpDone(r, tm) BY <2>4
    <3> QED BY <3>1, <2>4, UpStep
  <2> QED BY <2>1, <2>2, <2>3, <2>4
<1>12. f[q] \in I /\ f[q] \in done
  <2> HIDE DEF S, done, step, size, next, f, I
  <2>1. RunsLoop(f, S, step, done) BY <1>8 DEF RunsLoop
  <2>2. KeptByLoop(I, S, step, done) BY <1>10, <1>11 DEF KeptByLoop
  <2> QED BY <1>6, <1>10, <2>1, <2>2, LoopEnds
<1>13. DuesOK(tm, D) /\ OrderedBelow(q, tm) => Ordered(f[q].heap, tm)
  <2> HIDE DEF f
  <2> QED BY <1>12, UpEnd
<1> HIDE DEF f
<1> QED BY <1>9, <1>12, <1>13

(* The child the loop of minHeapErase looks at. *)
LEMMA ChildFacts ==
  ASSUME NEW n \in Nat, NEW q \in Heaps(n, n + 1), NEW tm, ~DownDone(q, tm)
  PROVE  /\ q.at \in 1 .. n /\ Child(q, tm) \in 1 .. n
         /\ Child(q, tm) > q.at /\ Child(q, tm) \div 2 = q.at
         /\ ~Earlier(tm, q.heap[q.at], q.heap[Child(q, tm)])
<1>1. q.at \in 1 .. n + 1 /\ Len(q.heap) = n BY HeapsFacts
<1>2. 2 * q.at <= n /\ ~Earlier(tm, q.heap[q.at], q.heap[Child(q, tm)])
  BY <1>1 DEF DownDone
<1>3. \/ Child(q, tm) = 2 * q.at
      \/ Child(q, tm) = 2 * q.at + 1 /\ 2 * q.at + 1 <= n
  BY <1>1 DEF Child
<1>4. \A a, c \in Int : a >= 1 /\ 2 * a <= n /\ (c = 2 * a \/ (c = 2 * a + 1 /\ 2 * a + 1 <= n))
        => a \in 1 .. n /\ c \in 1 .. n /\ c > a /\ c \div 2 = a
  OBVIOUS
<1>5. q.at \in Int /\ q.at >= 1 /\ Child(q, tm) \in Int BY <1>1, <1>3
<1> QED BY <1>2, <1>3, <1>4, <1>5

(* ... is not later than the other one. *)
LEMMA ChildIsEarlier ==
  ASSUME NEW n \in Nat, NEW q \in Heaps(n, n + 1), NEW D \in SUBSET Ids, NEW tm, DuesOK(tm, D),
         Placed(q, D), NEW i \in 2 .. n, i \div 2 = q.at
  PROVE  ~Earlier(tm, q.heap[i], q.heap[Child(q, tm)])
<1>1. q.at \in 1 .. n + 1 /\ Len(q.heap) = n /\ DOMAIN q.heap = 1 .. n BY HeapsFacts
<1>2. 2 * q.at <= n /\ (i = 2 * q.at \/ i = 2 * q.at + 1) BY <1>1
<1>3. \A j \in 1 .. n : q.heap[j] \in D BY <1>1 DEF Placed
<1>4. 2 * q.at \in 1 .. n /\ q.heap[2 * q.at] \in D BY <1>1, <1>2, <1>3
<1>5. \A x, y \in D : Earlier(tm, x, y) => ~Earlier(tm, y, x) BY EarlierOrder
<1>6. CASE 2 * q.at + 1 <= n /\ Earlier(tm, q.heap[2 * q.at + 1], q.heap[2 * q.at])
  <2>1. Child(q, tm) = 2 * q.at + 1 BY <1>1, <1>6 DEF Child
  <2>2. 2 * q.at + 1 \in 1 .. n /\ q.heap[2 * q.at + 1] \in D BY <1>1, <1>6, <1>3
  <2>3. i = 2 * q.at => ~Earlier(tm, q.heap[i], q.heap[Child(q, tm)])
    BY <1>4, <1>5, <1>6, <2>1, <2>2
  <2>4. i = 2 * q.at + 1 => ~Earlier(tm, q.heap[i], q.heap[Child(q, tm)])
    BY <1>5, <2>1, <2>2
  <2> QED BY <1>2, <2>3, <2>4
<1>7. CASE ~(2 * q.at + 1 <= n /\ Earlier(tm, q.heap[2 * q.at + 1], q.heap[2 * q.at]))
  <2>1. Child(q, tm) = 2 * q.at BY <1>1, <1>7 DEF Child
  <2>2. i = 2 * q.at => ~Earlier(tm, q.heap[i], q.heap[Child(q, tm)])
    BY <1>4, <1>5, <2>1
  <2>3. i = 2 * q.at + 1 => ~Earlier(tm, q.heap[i], q.heap[Child(q, tm)])
    BY <1>1, <1>7, <2>1
  <2> QED BY <1>2, <2>2, <2>3
<1> QED BY <1>6, <1>7

LEMMA DownStep ==
  ASSUME NEW n \in Nat, NEW q \in Heaps(n, n + 1), NEW D \in SUBSET Ids, NEW tm, DuesOK(tm, D),
         Placed(q, D), OrderedAbove(q, tm), ~DownDone(q, tm)
  PROVE  OrderedAbove(Swap(q, Child(q, tm)), tm)
<1> DEFINE a == q.at
           c == Child(q, tm)
           r == Swap(q, c)
           h == q.heap
<1>1. Len(h) = n /\ DOMAIN h = 1 .. n BY HeapsFacts
<1>2. a \in 1 .. n /\ c \in 1 .. n /\ c > a /\ c \div 2 = a /\ ~Earlier(tm, h[a], h[c])
  BY ChildFacts
<1>3. /\ r \in Heaps(n, n) /\ r.at = c /\ r.heap[a] = h[c] /\ r.heap[c] = h[a]
      /\ \A i \in 1 .. n : i # c /\ i # a => r.heap[i] = h[i]
  <2>1. n + 1 \in Nat OBVIOUS
  <2> QED BY <2>1, <1>2, SwapFacts
<1>4. Len(r.heap) = n BY <1>3, HeapsFacts
<1>5. /\ \A i \in 2 .. n : i \div 2 # a => ~Earlier(tm, h[i], h[i \div 2])
      /\ \A i \in 2 .. n : i \div 2 = a /\ a >= 2 => ~Earlier(tm, h[i], h[a \div 2])
  BY <1>1 DEF OrderedAbove
<1>6. \A i \in 2 .. n : i \div 2 = a => ~Earlier(tm, h[i], h[c]) BY ChildIsEarlier
<1> HIDE DEF a, c, r, h
<1>7. ASSUME NEW i \in 2 .. n, i \div 2 # c
      PROVE  ~Earlier(tm, r.heap[i], r.heap[i \div 2])
  <2>1. i \in 1 .. n /\ i \div 2 \in 1 .. n /\ i \div 2 < i OBVIOUS
  <2>2. CASE i \div 2 = a /\ i = c BY <2>2, <1>2, <1>3
  <2>3. CASE i \div 2 = a /\ i # c
    <3>1. i # a BY <2>1, <2>3, <1>2
    <3>2. r.heap[i] = h[i] /\ r.heap[i \div 2] = h[c] BY <2>1, <2>3, <3>1, <1>3
    <3> QED BY <3>2, <2>3, <1>6
  <2>4. CASE i = a
    <3>1. i \div 2 # a /\ a >= 2 /\ c \in 2 .. n BY <2>1, <2>4, <1>2
    <3>2. r.heap[i] = h[c] /\ r.heap[i \div 2] = h[a \div 2] BY <2>1, <2>4, <3>1, <1>3, <1>7
    <3>3. ~Earlier(tm, h[c], h[a \div 2]) BY <3>1, <1>2, <1>5
    <3> QED BY <3>2, <3>3
  <2>5. CASE i \div 2 # a /\ i # a
    <3>1. i # c BY <2>5, <1>2
    <3>2. r.heap[i] = h[i] /\ r.heap[i \div 2] = h[i \div 2] BY <2>1, <2>5, <3>1, <1>3, <1>7
    <3> QED BY <3>2, <2>5, <1>5
  <2> QED BY <2>2, <2>3, <2>4, <2>5
<1>8. ASSUME NEW i \in 2 .. n, i \div 2 = c
      PROVE  ~Earlier(tm, r.heap[i], r.heap[c \div 2])
  <2>1. i \in 1 .. n /\ i > c /\ i # a /\ i \div 2 # a BY <1>2, <1>8
  <2>2. r.heap[i] = h[i] /\ r.heap[c \div 2] = h[c] BY <2>1, <1>2, <1>3
  <2> QED BY <2>1, <2>2, <1>5, <1>8
<1>9. OrderedAbove(r, tm) BY <1>3, <1>4, <1>7, <1>8 DEF OrderedAbove
<1> QED BY <1>9 DEF r, c

LEMMA DownEnd ==
  ASSUME NEW n \in Nat, NEW q \in Heaps(n, n + 1), NEW D \in SUBSET Ids, NEW tm, DuesOK(tm, D),
         Placed(q, D), OrderedAbove(q, tm), DownDone(q, tm)
  PROVE  Ordered(q.heap, tm)
<1>1. q.at \in 1 .. n + 1 /\ Len(q.heap) = n /\ DOMAIN q.heap = 1 .. n BY HeapsFacts
<1> SUFFICES ASSUME NEW i \in 2 .. n PROVE ~Earlier(tm, q.heap[i], q.heap[i \div 2])
  BY <1>1 DEF Ordered
<1>2. CASE i \div 2 # q.at BY <1>1, <1>2 DEF OrderedAbove
<1>3. CASE i \div 2 = q.at
  <2> DEFINE c == Child(q, tm)
  <2>1. i \in 1 .. n /\ q.at \in 1 .. n /\ 2 * q.at <= n BY <1>1, <1>3
  <2>2. Earlier(tm, q.heap[q.at], q.heap[c]) BY <2>1, <1>1 DEF DownDone
  <2>3. ~Earlier(tm, q.heap[i], q.heap[c]) BY <1>3, ChildIsEarlier
  <2>4. c \in 1 .. n BY <2>1, <1>1 DEF Child
  <2>5. q.heap[i] \in D /\ q.heap[q.at] \in D /\ q.heap[c] \in D
    <3> HIDE DEF c
    <3> QED BY <2>1, <2>4, <1>1 DEF Placed
  <2> HIDE DEF c
  <2> QED BY <2>2, <2>3, <2>5, <1>3, EarlierOrder
<1> QED BY <1>2, <1>3

(* What minHeapErase's loop does to a heap in which the last timer took the
   place of the erased one. *)
LEMMA SiftDownFacts ==
  ASSUME NEW n \in Nat, NEW q \in Heaps(n, n + 1), NEW D \in SUBSET Ids, NEW tm, Placed(q, D)
  PROVE  /\ SiftDown(q, tm) \in Heaps(n, n + 1)
         /\ Placed(SiftDown(q, tm), D)
         /\ SameOutside(SiftDown(q, tm), q, D)
         /\ DuesOK(tm, D) /\ OrderedAbove(q, tm) => Ordered(SiftDown(q, tm).heap, tm)
<1> DEFINE S == Heaps(n, n + 1)
           done == {r \in S : DownDone(r, tm)}
           next(r) == Swap(r, Child(r, tm))
           step == [r \in S |-> IF r \in done THEN r ELSE next(r)]
           size == [r \in S |-> n + 1 - r.at]
           f == CHOOSE g : g = [r \in S |-> IF DownDone(r, tm) THEN r ELSE g[next(r)]]
<1>0. n + 1 \in Nat OBVIOUS
<1>1. ASSUME NEW r \in S, r \notin done
      PROVE  /\ next(r) \in S /\ next(r).at > r.at /\ next(r).at \in 1 .. n
             /\ r.at \in 1 .. n /\ Child(r, tm) \in 1 .. n /\ Child(r, tm) # r.at
  <2>1. ~DownDone(r, tm) BY <1>1
  <2>2. r.at \in 1 .. n /\ Child(r, tm) \in 1 .. n /\ Child(r, tm) > r.at BY <2>1, ChildFacts
  <2>3. next(r) \in Heaps(n, n) /\ next(r).at = Child(r, tm) BY <1>0, <2>2, SwapFacts
  <2>4. next(r) \in S BY <2>3, HeapsWiden
  <2> HIDE DEF next
  <2> QED BY <2>2, <2>3, <2>4
<1>2. step \in [S -> S] BY <1>1
<1>3. size \in [S -> Nat]
  <2>1. \A r \in S : r.at \in 1 .. n + 1 BY <1>0, HeapsFacts
  <2> QED BY <2>1
<1>4. \A r \in S \ done : step[r] = next(r) /\ size[step[r]] < size[r]
  <2> SUFFICES ASSUME NEW r \in S \ done PROVE step[r] = next(r) /\ size[step[r]] < size[r]
    OBVIOUS
  <2>1. step[r] = next(r) /\ size[r] = n + 1 - r.at /\ size[next(r)] = n + 1 - next(r).at
    BY <1>1
  <2> QED BY <2>1, <1>1
<1>5. done \in SUBSET S OBVIOUS
<1>6. /\ IsLoop(S, step, done, size)
      /\ \E g \in [S -> S] : \A r \in S : g[r] = IF r \in done THEN r ELSE g[step[r]]
  <2> HIDE DEF S, done, step, size, next, f
  <2>1. IsLoop(S, step, done, size) BY <1>2, <1>3, <1>4, <1>5 DEF IsLoop
  <2>2. \E g \in [S -> S] : RunsLoop(g, S, step, done) BY <2>1, LoopDefined
  <2> QED BY <2>1, <2>2 DEF RunsLoop
<1>7. f = [r \in S |-> IF DownDone(r, tm) THEN r ELSE f[next(r)]]
  <2>1. PICK g \in [S -> S] : \A r \in S : g[r] = IF r \in done THEN r ELSE g[step[r]] BY <1>6
  <2>2. g = [r \in S |-> g[r]] BY <2>1
  <2>3. \A r \in S : g[r] = IF DownDone(r, tm) THEN r ELSE g[next(r)] BY <2>1, <1>4
  <2> HIDE DEF S, next
  <2>4. g = [r \in S |-> IF DownDone(r, tm) THEN r ELSE g[next(r)]] BY <2>2, <2>3
  <2> QED BY <2>4
<1>8. \A r \in S : f[r] = IF r \in done THEN r ELSE f[step[r]]
  <2> HIDE DEF S, next, f
  <2> SUFFICES ASSUME NEW r \in S PROVE f[r] = IF r \in done THEN r ELSE f[step[r]] OBVIOUS
  <2>1. f[r] = IF DownDone(r, tm) THEN r ELSE f[next(r)] BY <1>7
  <2> QED BY <2>1, <1>4
<1>9. SiftDown(q, tm) = f[q]
  <2>1. Len(q.heap) = n BY HeapsFacts
  <2> QED BY <2>1 DEF SiftDown
<1> DEFINE I == {r \in S : /\ Placed(r, D) /\ SameOutside(r, q, D)
                           /\ DuesOK(tm, D) /\ OrderedAbove(q, tm) => OrderedAbove(r, tm)}
<1>10. I \in SUBSET S /\ q \in I BY DEF SameOutside
<1>11. \A r \in I \ done : step[r] \in I
  <2> SUFFICES ASSUME NEW r \in I \ done PROVE next(r) \in I BY <1>4
  <2>1. next(r) \in S BY <1>1
  <2>2. Placed(next(r), D) /\ SameOutside(next(r), r, D) BY <1>0, <1>1, SwapPlaced
  <2>3. SameOutside(next(r), q, D) BY <2>2 DEF SameOutside
  <2>4. ASSUME DuesOK(tm, D), OrderedAbove(q, tm) PROVE OrderedAbove(next(r), tm)
    <3>1. Placed(r, D) /\ OrderedAbove(r, tm) /\ ~DownDone(r, tm) BY <2>4
    <3> QED BY <3>1, <2>4, DownStep
  <2> QED BY <2>1, <2>2, <2>3, <2>4
<1>12. f[q] \in I /\ f[q] \in done
  <2> HIDE DEF S, done, step, size, next, f, I
  <2>1. RunsLoop(f, S, step, done) BY <1>8 DEF RunsLoop
  <2>2. KeptByLoop(I, S, step, done) BY <1>10, <1>11 DEF KeptByLoop
  <2> QED BY <1>6, <1>10, <2>1, <2>2, LoopEnds
<1>13. DuesOK(tm, D) /\ OrderedAbove(q, tm) => Ordered(f[q].heap, tm)
  <2> HIDE DEF f
  <2> QED BY <1>12, DownEnd
<1> HIDE DEF f
<1> QED BY <1>9, <1>12, <1>13

-----------------------------------------------------------------------------
Timestamps == [second : Nat, nanosecond : 0 .. NanoPerSec - 1]

(* A second has nanoseconds. *)
LEMMA NanoPerSecType == NanoPerSec \in Int /\ NanoPerSec > 0
  BY TimerAssumption, MulPos DEF NanoPerSec

(* What operator+= computes, from the quotient and the remainder. *)
LEMMA PlusIs ==
  ASSUME NEW t \in Timestamps, NEW ms, NEW d \in Int, NEW e \in Int,
         ms \div MsPerSec = d, ms % MsPerSec = e
  PROVE  Plus(t, ms) = IF t.nanosecond + e * NanoPerMs >= NanoPerSec
                       THEN [second |-> t.second + d + 1,
                             nanosecond |-> t.nanosecond + e * NanoPerMs - NanoPerSec]
                       ELSE [second |-> t.second + d, nanosecond |-> t.nanosecond + e * NanoPerMs]
<1>1. t.second \in Int /\ t.nanosecond \in Int /\ e * NanoPerMs \in Int /\ NanoPerSec \in Int
  BY TimerAssumption, NanoPerSecType DEF Timestamps
<1> QED BY <1>1 DEF Plus

(* Adding milliseconds to a timestamp gives a timestamp that is not earlier. *)
LEMMA PlusFacts ==
  ASSUME NEW t \in Timestamps, NEW ms \in Nat
  PROVE  Plus(t, ms) \in Timestamps /\ ~Less(Plus(t, ms), t)
<1> DEFINE d == ms \div MsPerSec
           e == ms % MsPerSec
           f == e * NanoPerMs
<1>1. /\ NanoPerSec \in Int /\ NanoPerSec > 0 /\ MsPerSec \in Int /\ MsPerSec > 0
      /\ NanoPerMs \in Int /\ NanoPerMs > 0
  BY TimerAssumption, NanoPerSecType
<1>2. d \in Nat /\ e \in 0 .. MsPerSec - 1 BY <1>1, DivNat, DivModFacts
<1>3. f \in Nat /\ f <= NanoPerSec - NanoPerMs
  <2>1. e <= MsPerSec - 1 /\ e \in Int /\ MsPerSec - 1 \in Int /\ 0 <= e BY <1>1, <1>2
  <2>2. e * NanoPerMs <= (MsPerSec - 1) * NanoPerMs /\ 0 * NanoPerMs <= e * NanoPerMs /\ e * NanoPerMs \in Int
    BY <1>1, <2>1, MulMono
  <2>3. (MsPerSec - 1) * NanoPerMs = NanoPerSec - NanoPerMs BY <1>1 DEF NanoPerSec
  <2> QED BY <1>1, <2>2, <2>3
<1>4. t.second \in Nat /\ t.nanosecond \in 0 .. NanoPerSec - 1 BY DEF Timestamps
<1>5. Plus(t, ms) = IF t.nanosecond + f >= NanoPerSec
                    THEN [second |-> t.second + d + 1, nanosecond |-> t.nanosecond + f - NanoPerSec]
                    ELSE [second |-> t.second + d, nanosecond |-> t.nanosecond + f]
  <2>1. d \in Int /\ e \in Int BY <1>2
  <2> QED BY <2>1, PlusIs
<1> HIDE DEF d, e, f
<1>6. CASE t.nanosecond + f >= NanoPerSec
  <2>1. Plus(t, ms) = [second |-> t.second + d + 1, nanosecond |-> t.nanosecond + f - NanoPerSec]
    BY <1>5, <1>6
  <2>2. t.second + d + 1 \in Nat /\ t.nanosecond + f - NanoPerSec \in 0 .. NanoPerSec - 1
    BY <1>1, <1>2, <1>3, <1>4, <1>6
  <2> QED BY <2>1, <2>2, <1>2, <1>4 DEF Timestamps, Less
<1>7. CASE ~(t.nanosecond + f >= NanoPerSec)
  <2>1. Plus(t, ms) = [second |-> t.second + d, nanosecond |-> t.nanosecond + f] BY <1>5, <1>7
  <2>2. t.second + d \in Nat /\ t.nanosecond + f \in 0 .. NanoPerSec - 1
    BY <1>1, <1>2, <1>3, <1>4, <1>7
  <2> QED BY <2>1, <2>2, <1>2, <1>3, <1>4 DEF Timestamps, Less
<1> QED BY <1>6, <1>7

(* The millisecond of a timestamp. *)
LEMMA MillisecondFacts ==
  ASSUME NEW t \in Timestamps
  PROVE Millisecond(t) \in 0 .. MsPerSec - 1
<1>1. /\ NanoPerSec \in Int /\ NanoPerSec > 0 /\ MsPerSec \in Int /\ MsPerSec > 0
      /\ NanoPerMs \in Int /\ NanoPerMs > 0
  BY TimerAssumption, NanoPerSecType
<1>2. t.nanosecond \in 0 .. NanoPerSec - 1 BY DEF Timestamps
<1>3. t.nanosecond \div NanoPerMs \in Nat BY <1>1, <1>2, DivNat
<1>4. t.nanosecond \div NanoPerMs <= (NanoPerSec - 1) \div NanoPerMs BY <1>1, <1>2, DivMono
<1>5. NanoPerSec - 1 = NanoPerMs * (MsPerSec - 1) + (NanoPerMs - 1)  BY <1>1 DEF NanoPerSec
<1>6. (NanoPerMs * (MsPerSec - 1) + (NanoPerMs - 1)) \div NanoPerMs = MsPerSec - 1
  BY <1>1, DivUnique
<1> QED BY <1>1, <1>3, <1>4, <1>5, <1>6 DEF Millisecond

(* From t, the distance to a later u in milliseconds leads to the millisecond of u. *)
LEMMA WakesInTime ==
  ASSUME NEW t \in Timestamps, NEW u \in Timestamps, ~Less(u, t)
  PROVE  LET w == Plus(t, DistanceMillisecond(t, u)) IN
         ~MillisecondLess(w, u) /\ ~MillisecondLess(u, w)
<1>0. /\ NanoPerSec \in Int /\ NanoPerSec > 0 /\ MsPerSec \in Int /\ MsPerSec > 0
      /\ NanoPerMs \in Int /\ NanoPerMs > 0
  BY TimerAssumption, NanoPerSecType
<1>1. /\ t.second \in Nat /\ t.nanosecond \in 0 .. NanoPerSec - 1
      /\ u.second \in Nat /\ u.nanosecond \in 0 .. NanoPerSec - 1 BY DEF Timestamps
<1> DEFINE a == Millisecond(t)
           b == Millisecond(u)
           k == u.second - t.second
           ms == DistanceMillisecond(t, u)
           w == Plus(t, ms)
<1>2. a \in 0 .. MsPerSec - 1 /\ b \in 0 .. MsPerSec - 1 BY MillisecondFacts
<1> DEFINE tn == t.nanosecond
           un == u.nanosecond
           y == tn % NanoPerMs
<1>1a. tn \in Int /\ un \in Int BY <1>1
<1>1b. tn = NanoPerMs * a + y /\ y \in 0 .. NanoPerMs - 1
  <2>1. /\ tn = NanoPerMs * (tn \div NanoPerMs) + (tn % NanoPerMs)
        /\ tn % NanoPerMs \in 0 .. NanoPerMs - 1
    <3> HIDE DEF tn
    <3> QED BY <1>0, <1>1a, DivModFacts
  <2> QED BY <2>1 DEF Millisecond
<1>1c. (tn + (b - a) * NanoPerMs) \div NanoPerMs = a + (b - a)
  <2>1. tn \div NanoPerMs = a BY DEF Millisecond
  <2>2. b - a \in Int BY <1>2
  <2> HIDE DEF tn, a, b
  <2> QED BY <1>0, <1>1a, <2>1, <2>2, DivAdd
<1>1d. b < a => un < tn
  <2>1. tn \div NanoPerMs = a /\ un \div NanoPerMs = b BY DEF Millisecond
  <2> HIDE DEF tn, un
  <2>2. tn <= un => tn \div NanoPerMs <= un \div NanoPerMs BY <1>0, <1>1a, DivMono
  <2> HIDE DEF a, b
  <2> QED BY <1>2, <1>1a, <2>1, <2>2
<1>3. ms = MsPerSec * k + (b - a)
  <2> k * MsPerSec = MsPerSec * k BY <1>0, <1>1
  <2> QED BY DEF DistanceMillisecond
<1>4. k \in Nat BY <1>1 DEF Less
<1>5. CASE b >= a
  <2>1. b - a \in 0 .. MsPerSec - 1 BY <1>0, <1>2, <1>5
  <2>2. ms \div MsPerSec = k /\ ms % MsPerSec = b - a
    <3>1. k \in Int BY <1>4
    <3> HIDE DEF a, b, k, ms
    <3> QED BY <1>0, <1>3, <2>1, <3>1, DivUnique
  <2>3. w.second = t.second + k /\ w.nanosecond = t.nanosecond + (b - a) * NanoPerMs
    <3>1. t.nanosecond + (b - a) * NanoPerMs < NanoPerSec
      <4>1. /\ t.nanosecond = NanoPerMs * a + (t.nanosecond % NanoPerMs)
            /\ t.nanosecond % NanoPerMs \in 0 .. NanoPerMs - 1
        BY <1>1b
      <4>2. t.nanosecond + (b - a) * NanoPerMs = b * NanoPerMs + (t.nanosecond % NanoPerMs)
        BY <1>0, <1>2, <4>1
      <4>3. b * NanoPerMs <= (MsPerSec - 1) * NanoPerMs BY <1>0, <1>2, MulMono
      <4>4. (MsPerSec - 1) * NanoPerMs = NanoPerSec - NanoPerMs BY <1>0 DEF NanoPerSec
      <4>5. b * NanoPerMs \in Int BY <1>0, <1>2
      <4> QED BY <4>1, <4>2, <4>3, <4>4, <4>5, <1>0
    <3>2. (b - a) * NanoPerMs \in Int BY <1>0, <1>2
    <3>3. k \in Int /\ b - a \in Int BY <1>2, <1>4
    <3>4. w = [second |-> t.second + k, nanosecond |-> t.nanosecond + (b - a) * NanoPerMs]
      <4> HIDE DEF k, a, b, ms
      <4> QED BY <3>1, <3>2, <3>3, <2>2, <1>0, <1>1, PlusIs
    <3> QED BY <3>4
  <2>4. Millisecond(w) = b
    <3>1. (t.nanosecond + (b - a) * NanoPerMs) \div NanoPerMs = a + (b - a) BY <1>1c
    <3> QED BY <3>1, <2>3, <1>2 DEF Millisecond
  <2>5. w.second = u.second BY <2>3, <1>1
  <2> HIDE DEF w, a, b
  <2> QED BY <2>4, <2>5, <1>1, <1>2 DEF MillisecondLess, w, b
<1>6. CASE b < a
  <2>0. k >= 1
    <3>1. b < a => u.nanosecond < t.nanosecond BY <1>1d
    <3> QED BY <3>1, <1>1, <1>4, <1>6 DEF Less
  <2>1. b - a + MsPerSec \in 0 .. MsPerSec - 1 /\ k - 1 \in Int BY <1>0, <1>2, <1>4, <1>6
  <2>2. ms = MsPerSec * (k - 1) + (b - a + MsPerSec) BY <1>0, <1>2, <1>3, <1>4
  <2>3. ms \div MsPerSec = k - 1 /\ ms % MsPerSec = b - a + MsPerSec
    BY <1>0, <2>1, <2>2, DivUnique
  <2>4. t.nanosecond + (b - a + MsPerSec) * NanoPerMs = t.nanosecond + (b - a) * NanoPerMs + NanoPerSec
    BY <1>0, <1>1, <1>2 DEF NanoPerSec
  <2>5. t.nanosecond + (b - a) * NanoPerMs >= 0
      <4>1. /\ t.nanosecond = NanoPerMs * a + (t.nanosecond % NanoPerMs)
            /\ t.nanosecond % NanoPerMs \in 0 .. NanoPerMs - 1
        BY <1>1b
      <4>2. t.nanosecond + (b - a) * NanoPerMs = b * NanoPerMs + (t.nanosecond % NanoPerMs)
        BY <1>0, <1>2, <4>1
      <4>3. b * NanoPerMs \in Int /\ b * NanoPerMs >= 0 BY <1>0, <1>2
      <4> QED BY <4>1, <4>2, <4>3
  <2>6. w.second = t.second + k /\ w.nanosecond = t.nanosecond + (b - a) * NanoPerMs
    <3>1. (b - a) * NanoPerMs \in Int /\ (b - a + MsPerSec) * NanoPerMs \in Int BY <1>0, <1>2
    <3>2. t.nanosecond + (b - a + MsPerSec) * NanoPerMs >= NanoPerSec
      BY <3>1, <2>4, <2>5, <1>0, <1>1
    <3>3. w = [second |-> t.second + (k - 1) + 1,
               nanosecond |-> t.nanosecond + (b - a + MsPerSec) * NanoPerMs - NanoPerSec]
      <4>1. k - 1 \in Int /\ b - a + MsPerSec \in Int BY <1>0, <1>2, <1>4
      <4> HIDE DEF k, a, b, ms
      <4> QED BY <3>2, <2>3, <4>1, PlusIs
    <3> QED BY <3>1, <3>3, <2>4, <1>0, <1>1, <1>4
  <2>7. Millisecond(w) = b
    <3>1. (t.nanosecond + (b - a) * NanoPerMs) \div NanoPerMs = a + (b - a) BY <1>1c
    <3> QED BY <3>1, <2>6, <1>2 DEF Millisecond
  <2>8. w.second = u.second BY <2>6, <1>1
  <2> HIDE DEF w, a, b
  <2> QED BY <2>7, <2>8, <1>1, <1>2 DEF MillisecondLess, w, b
<1> QED BY <1>5, <1>6, <1>2

(* ... which is again a timestamp. *)
LEMMA LaterByDistance ==
  ASSUME NEW t \in Timestamps, NEW u \in Timestamps, ~Less(u, t)
  PROVE  Plus(t, DistanceMillisecond(t, u)) \in Timestamps
<1>0. /\ MsPerSec \in Int /\ MsPerSec > 0 /\ NanoPerMs \in Int /\ NanoPerMs > 0
      /\ NanoPerSec \in Int
  BY TimerAssumption, NanoPerSecType
<1> DEFINE a == Millisecond(t)
           b == Millisecond(u)
           k == u.second - t.second
<1>1. /\ t.second \in Nat /\ t.nanosecond \in Int /\ u.second \in Nat /\ u.nanosecond \in Int
  BY <1>0 DEF Timestamps
<1>2. a \in 0 .. MsPerSec - 1 /\ b \in 0 .. MsPerSec - 1 BY MillisecondFacts
<1>3. t.nanosecond <= u.nanosecond => a <= b BY <1>0, <1>1, DivMono DEF Millisecond
<1>4. k \in Nat /\ (k = 0 => a <= b) BY <1>1, <1>3 DEF Less
<1> HIDE DEF a, b, k
<1>5. k * MsPerSec + (b - a) \in Nat
  <2>1. CASE k = 0 BY <2>1, <1>0, <1>2, <1>4
  <2>2. CASE k >= 1
    <3>1. k \in Int /\ 1 \in Int /\ MsPerSec \in Nat BY <1>0, <1>4
    <3>2. 1 * MsPerSec <= k * MsPerSec /\ k * MsPerSec \in Int BY <2>2, <3>1, MulMono
    <3> QED BY <3>2, <1>0, <1>2
  <2> QED BY <2>1, <2>2, <1>4
<1>6. DistanceMillisecond(t, u) \in Nat BY <1>5 DEF DistanceMillisecond, a, b, k
<1> QED BY <1>6, PlusFacts

-----------------------------------------------------------------------------
(* A sequence is a function on its positions. *)
LEMMA SeqIsTable ==
  ASSUME NEW S, NEW q \in Seq(S)
  PROVE  q \in [1 .. Len(q) -> S] /\ Len(q) \in Nat
  OBVIOUS

(* minHeapInsert. *)
LEMMA InsertFacts ==
  ASSUME NEW n \in Nat, NEW m \in Nat, NEW q \in Heaps(n, m), NEW D \in SUBSET Ids, NEW tm,
         Placed(q, D), NEW id \in Ids, id \notin D
  PROVE  LET r == MinHeapInsert(q, tm, id)
             E == D \cup {id}
         IN  /\ r \in Heaps(n + 1, n + 1)
             /\ Placed(r, E)
             /\ SameOutside(r, q, E)
             /\ DuesOK(tm, E) /\ Ordered(q.heap, tm) => Ordered(r.heap, tm)
<1> DEFINE E == D \cup {id}
           h == Append(q.heap, id)
           pos == [q.pos EXCEPT ![id] = n + 1]
           p == [heap |-> h, pos |-> pos, at |-> n + 1]
<1>1. /\ q.heap \in Seq(Ids) /\ Len(q.heap) = n /\ DOMAIN q.heap = 1 .. n
      /\ q.pos \in [Ids -> Int]
  BY HeapsFacts
<1>2. /\ h \in Seq(Ids) /\ Len(h) = n + 1
      /\ \A i \in 1 .. n : h[i] = q.heap[i]
      /\ h[n + 1] = id
  BY <1>1, AppendFacts
<1>3. h \in [1 .. n + 1 -> Ids] /\ DOMAIN h = 1 .. n + 1
  <2> HIDE DEF h
  <2> QED BY <1>2, SeqIsTable
<1>4. /\ pos \in [Ids -> Int] /\ pos[id] = n + 1
      /\ \A x \in Ids : x # id => pos[x] = q.pos[x]
  BY <1>1
<1>5. p \in Heaps(n + 1, n + 1) /\ n + 1 \in Nat
  <2> HIDE DEF h, pos
  <2> QED BY <1>3, <1>4 DEF Heaps
<1>6. MinHeapInsert(q, tm, id) = SiftUp(p, tm) BY <1>1 DEF MinHeapInsert
<1>7. p.heap = h /\ p.pos = pos /\ p.at = n + 1 OBVIOUS
<1> HIDE DEF h, pos, p
<1>8. Placed(p, E)
  <2>1. ASSUME NEW i \in 1 .. n + 1 PROVE h[i] \in E /\ pos[h[i]] = i
    <3>1. CASE i = n + 1 BY <3>1, <1>2, <1>4
    <3>2. CASE i # n + 1
      <4>1. i \in 1 .. n BY <3>2
      <4>2. q.heap[i] \in D /\ q.pos[q.heap[i]] = i BY <4>1, <1>1 DEF Placed
      <4> QED BY <4>1, <4>2, <1>2, <1>4
    <3> QED BY <3>1, <3>2
  <2>2. ASSUME NEW x \in E PROVE pos[x] \in 1 .. n + 1 /\ h[pos[x]] = x
    <3>1. CASE x = id BY <3>1, <1>2, <1>4
    <3>2. CASE x # id
      <4>1. x \in D /\ q.pos[x] \in 1 .. n /\ q.heap[q.pos[x]] = x BY <3>2, <1>1 DEF Placed
      <4> QED BY <3>2, <4>1, <1>2, <1>4
    <3> QED BY <3>1, <3>2
  <2> QED BY <2>1, <2>2, <1>3, <1>7 DEF Placed
<1>9. SameOutside(p, q, E) BY <1>4, <1>7 DEF SameOutside
<1>10. ASSUME Ordered(q.heap, tm) PROVE OrderedBelow(p, tm)
  <2>1. ASSUME NEW i \in 2 .. n + 1, i # n + 1 PROVE ~Earlier(tm, h[i], h[i \div 2])
    <3>1. i \in 2 .. n /\ i \in 1 .. n /\ i \div 2 \in 1 .. n BY <2>1
    <3>2. ~Earlier(tm, q.heap[i], q.heap[i \div 2]) BY <3>1, <1>1, <1>10 DEF Ordered
    <3> QED BY <3>1, <3>2, <1>2
  <2>2. \A i \in 2 .. n + 1 : i \div 2 # n + 1 OBVIOUS
  <2> QED BY <2>1, <2>2, <1>2, <1>7 DEF OrderedBelow
<1> DEFINE r == SiftUp(p, tm)
<1>11. E \in SUBSET Ids OBVIOUS
<1>12. /\ r \in Heaps(n + 1, n + 1) /\ Placed(r, E) /\ SameOutside(r, p, E)
       /\ DuesOK(tm, E) /\ OrderedBelow(p, tm) => Ordered(r.heap, tm)
  <2> HIDE DEF E
  <2> QED BY <1>5, <1>8, <1>11, SiftUpFacts
<1>13. SameOutside(r, q, E) BY <1>9, <1>12 DEF SameOutside
<1> QED BY <1>6, <1>10, <1>12, <1>13

(* minHeapErase.  Only when the first timer is erased is the order kept. *)
LEMMA EraseFacts ==
  ASSUME NEW n \in Nat, NEW m \in Nat, NEW q \in Heaps(n, m), NEW D \in SUBSET Ids, NEW tm,
         Placed(q, D), NEW id \in D
  PROVE  LET r == MinHeapErase(q, tm, id)
             E == D \ {id}
         IN  /\ n - 1 \in Nat /\ r \in Heaps(n - 1, n)
             /\ Placed(r, E)
             /\ SameOutside(r, q, D)
             /\ q.pos[id] = 1 /\ DuesOK(tm, D) /\ Ordered(q.heap, tm) => Ordered(r.heap, tm)
<1> DEFINE E == D \ {id}
           k == q.pos[id]
           back == q.heap[n]
           g == [q.heap EXCEPT ![k] = back]
           h == SubSeq(g, 1, n - 1)
           pos == [q.pos EXCEPT ![id] = -1, ![back] = k]
           p == [heap |-> h, pos |-> pos, at |-> k]
<1>1. /\ q.heap \in Seq(Ids) /\ q.heap \in [1 .. n -> Ids] /\ Len(q.heap) = n
      /\ DOMAIN q.heap = 1 .. n /\ q.pos \in [Ids -> Int]
  BY HeapsFacts
<1>2. k \in 1 .. n /\ q.heap[k] = id BY <1>1 DEF Placed
<1>3. n - 1 \in Nat /\ n \in 1 .. n BY <1>2
<1>4. back \in D /\ q.pos[back] = n BY <1>1, <1>3 DEF Placed
<1>5. g \in [1 .. n -> Ids] /\ \A i \in 1 .. n : g[i] = IF i = k THEN back ELSE q.heap[i]
  BY <1>1, <1>2, <1>4
<1>6. g \in Seq(Ids) /\ Len(g) = n
  <2> HIDE DEF g
  <2> QED BY <1>5, TableFacts
<1>7. /\ h \in Seq(Ids) /\ Len(h) = n - 1
      /\ \A i \in 1 .. n - 1 : h[i] = g[i]
  <2>1. n - 1 \in 0 .. Len(g) BY <1>3, <1>6
  <2> HIDE DEF g
  <2> QED BY <1>6, <2>1, SplitFacts
<1>8. h \in [1 .. n - 1 -> Ids] /\ DOMAIN h = 1 .. n - 1
  <2> HIDE DEF h
  <2> QED BY <1>7, SeqIsTable
<1>9. /\ pos \in [Ids -> Int] /\ pos[back] = k
      /\ \A x \in Ids : x # id /\ x # back => pos[x] = q.pos[x]
  BY <1>1, <1>2, <1>4
<1>10. p \in Heaps(n - 1, n)
  <2> HIDE DEF h, pos, k
  <2> QED BY <1>2, <1>8, <1>9 DEF Heaps
<1>11. MinHeapErase(q, tm, id) = SiftDown(p, tm)
  <2>1. ~(k < 0) BY <1>2
  <2>2. Last(q.heap) = back /\ Front(g) = h BY <1>1, <1>6 DEF Last, Front
  <2> QED BY <2>1, <2>2 DEF MinHeapErase
<1>12. p.heap = h /\ p.pos = pos /\ p.at = k OBVIOUS
<1>13. back = id <=> k = n BY <1>2, <1>4
<1> HIDE DEF g, h, pos, p, back, k
<1>14. Placed(p, E)
  <2>1. ASSUME NEW i \in 1 .. n - 1 PROVE h[i] \in E /\ pos[h[i]] = i
    <3>1. i \in 1 .. n /\ i # n BY <1>3
    <3>2. CASE i = k BY <3>1, <3>2, <1>4, <1>5, <1>7, <1>9, <1>13
    <3>3. CASE i # k
      <4>1. h[i] = q.heap[i] /\ q.heap[i] \in D /\ q.pos[q.heap[i]] = i
        BY <3>1, <3>3, <1>1, <1>5, <1>7 DEF Placed
      <4>2. q.heap[i] # id /\ q.heap[i] # back BY <4>1, <3>1, <3>3, <1>4 DEF k
      <4> QED BY <4>1, <4>2, <1>9
    <3> QED BY <3>2, <3>3
  <2>2. ASSUME NEW x \in E PROVE pos[x] \in 1 .. n - 1 /\ h[pos[x]] = x
    <3>1. CASE x = back
      <4>1. k \in 1 .. n - 1 BY <3>1, <1>2, <1>3, <1>13
      <4> QED BY <3>1, <4>1, <1>2, <1>5, <1>7, <1>9
    <3>2. CASE x # back
      <4>1. x \in D /\ x # id /\ q.pos[x] \in 1 .. n /\ q.heap[q.pos[x]] = x
        BY <1>1 DEF Placed
      <4>2. q.pos[x] # k BY <4>1, <1>2
      <4>3. q.pos[x] # n BY <4>1, <3>2 DEF back
      <4>4. q.pos[x] \in 1 .. n - 1 BY <4>1, <4>3, <1>3
      <4> QED BY <3>2, <4>1, <4>2, <4>4, <1>5, <1>7, <1>9
    <3> QED BY <3>1, <3>2
  <2> QED BY <2>1, <2>2, <1>8, <1>12 DEF Placed
<1>15. SameOutside(p, q, D) BY <1>4, <1>9, <1>12 DEF SameOutside
<1>16. ASSUME k = 1, Ordered(q.heap, tm) PROVE OrderedAbove(p, tm)
  <2>1. ASSUME NEW i \in 2 .. n - 1, i \div 2 # 1 PROVE ~Earlier(tm, h[i], h[i \div 2])
    <3>1. /\ i \in 2 .. n /\ i \in 1 .. n - 1 /\ i \div 2 \in 1 .. n - 1
          /\ i \in 1 .. n /\ i \div 2 \in 1 .. n /\ i # 1
      BY <1>3
    <3>2. ~Earlier(tm, q.heap[i], q.heap[i \div 2]) BY <3>1, <1>1, <1>16 DEF Ordered
    <3>3. h[i] = q.heap[i] /\ h[i \div 2] = q.heap[i \div 2] BY <3>1, <2>1, <1>5, <1>7, <1>16
    <3> QED BY <3>2, <3>3
  <2> QED BY <2>1, <1>7, <1>12, <1>16 DEF OrderedAbove
<1> DEFINE r == SiftDown(p, tm)
<1>17. E \in SUBSET Ids OBVIOUS
<1>18. /\ r \in Heaps(n - 1, n) /\ Placed(r, E) /\ SameOutside(r, p, E)
       /\ DuesOK(tm, E) /\ OrderedAbove(p, tm) => Ordered(r.heap, tm)
  <2> DEFINE l == n - 1
  <2>1. l \in Nat /\ n = l + 1 BY <1>3
  <2>2. p \in Heaps(l, l + 1) BY <2>1, <1>10
  <2> HIDE DEF E, l
  <2>3. /\ r \in Heaps(l, l + 1) /\ Placed(r, E) /\ SameOutside(r, p, E)
        /\ DuesOK(tm, E) /\ OrderedAbove(p, tm) => Ordered(r.heap, tm)
    BY <2>1, <2>2, <1>14, <1>17, SiftDownFacts
  <2> QED BY <2>1, <2>3 DEF l
<1>19. SameOutside(r, q, D) BY <1>15, <1>18 DEF SameOutside
<1>20. DuesOK(tm, D) => DuesOK(tm, E) BY DEF DuesOK
<1> QED BY <1>3, <1>11, <1>16, <1>18, <1>19, <1>20 DEF k

-----------------------------------------------------------------------------
Timers == [due : Timestamps, timeout_ms : Nat, call_times : Int]

(* The inductive invariant: the timers are well formed, and map, array and
   positions describe the same ones; a timer that is not in the map has no
   position. *)
TimersInv == /\ DOMAIN timers \in SUBSET Ids
             /\ timers \in [DOMAIN timers -> Timers]
             /\ next_id \in Ids /\ calling \in Ids \cup {-1}
             /\ clock \in Nat /\ asked \in Timestamps \cup {NotAsked}
PlacesInv == /\ heap \in Seq(Ids) /\ heap_pos \in [Ids -> Int]
             /\ Placed(Heap, DOMAIN timers)
             /\ \A id \in Ids \ DOMAIN timers : heap_pos[id] = -1
HeapInv == TimersInv /\ PlacesInv

(* The order of an array does not depend on timers that are not in it. *)
SameDues(tm, um, E) == \A x \in E : um[x].due = tm[x].due

LEMMA OrderedSame ==
  ASSUME NEW n \in Nat, NEW m \in Nat, NEW q \in Heaps(n, m), NEW E, Placed(q, E),
         NEW tm, NEW um, SameDues(tm, um, E), Ordered(q.heap, tm)
  PROVE  Ordered(q.heap, um)
<1>1. Len(q.heap) = n /\ DOMAIN q.heap = 1 .. n BY HeapsFacts
<1> SUFFICES ASSUME NEW i \in 2 .. n PROVE ~Earlier(um, q.heap[i], q.heap[i \div 2])
  BY <1>1 DEF Ordered
<1>2. i \in 1 .. n /\ i \div 2 \in 1 .. n OBVIOUS
<1>3. q.heap[i] \in E /\ q.heap[i \div 2] \in E BY <1>1, <1>2 DEF Placed
<1>4. ~Earlier(tm, q.heap[i], q.heap[i \div 2]) BY <1>1 DEF Ordered
<1> QED BY <1>3, <1>4 DEF Earlier, SameDues

LEMMA HeapIsHeap ==
  ASSUME heap \in Seq(Ids), heap_pos \in [Ids -> Int]
  PROVE  /\ Len(heap) \in Nat /\ Heap \in Heaps(Len(heap), 1)
         /\ Heap.heap = heap /\ Heap.pos = heap_pos
<1>1. Len(heap) \in Nat /\ heap \in [1 .. Len(heap) -> Ids] BY SeqIsTable
<1>2. 1 \in 1 .. 1 OBVIOUS
<1> QED BY <1>1, <1>2 DEF Heap, Heaps

(* Writing back a changed heap. *)
LEMMA SetHeapFacts ==
  ASSUME NEW n \in Nat, NEW m \in Nat, NEW r \in Heaps(n, m), NEW D, Placed(r, D), SetHeap(r)
  PROVE  /\ heap' \in Seq(Ids) /\ heap_pos' \in [Ids -> Int] /\ Placed(Heap', D)
         /\ heap' = r.heap /\ heap_pos' = r.pos
<1>1. r.heap \in Seq(Ids) /\ r.pos \in [Ids -> Int] BY HeapsFacts
<1>2. heap' = r.heap /\ heap_pos' = r.pos BY DEF SetHeap
<1>3. Heap'.heap = r.heap /\ Heap'.pos = r.pos BY <1>2 DEF Heap
<1>4. Placed(Heap', D) BY <1>3 DEF Placed
<1> QED BY <1>1, <1>2, <1>4

(* Deleting a timer that is not in the array any more. *)
LEMMA ForgetFacts ==
  ASSUME NEW n \in Nat, NEW m \in Nat, NEW r \in Heaps(n, m), NEW D \in SUBSET Ids, Placed(r, D),
         NEW id \in Ids, id \notin D
  PROVE  /\ Forget(r, id) \in Heaps(n, m) /\ Placed(Forget(r, id), D)
         /\ Forget(r, id).heap = r.heap /\ Forget(r, id).pos[id] = -1
         /\ \A x \in Ids : x # id => Forget(r, id).pos[x] = r.pos[x]
<1>1. r.heap \in [1 .. n -> Ids] /\ r.pos \in [Ids -> Int] /\ r.at \in 1 .. m
  BY HeapsFacts
<1> DEFINE pos == [r.pos EXCEPT ![id] = -1]
<1>2. pos \in [Ids -> Int] /\ pos[id] = -1 /\ \A x \in Ids : x # id => pos[x] = r.pos[x]
  BY <1>1
<1>3. Forget(r, id) = [heap |-> r.heap, pos |-> pos, at |-> r.at] BY DEF Forget
<1> HIDE DEF pos
<1>4. Forget(r, id) \in Heaps(n, m) BY <1>1, <1>2, <1>3 DEF Heaps
<1>5. Forget(r, id).heap = r.heap /\ Forget(r, id).pos = pos BY <1>3
<1>6. ASSUME NEW i \in DOMAIN r.heap PROVE pos[r.heap[i]] = r.pos[r.heap[i]]
  BY <1>2 DEF Placed
<1>7. Placed(Forget(r, id), D) BY <1>2, <1>5, <1>6 DEF Placed
<1> QED BY <1>2, <1>4, <1>5, <1>7

LEMMA NowFacts == ASSUME clock \in Nat PROVE Now \in Timestamps /\ Now # NotAsked
<1>1. NanoPerSec \in Int /\ NanoPerSec > 0 BY NanoPerSecType
<1>2. clock \div NanoPerSec \in Nat /\ clock % NanoPerSec \in 0 .. NanoPerSec - 1
  BY <1>1, DivNat, DivModFacts
<1>3. Now \in Timestamps BY <1>2 DEF Now, Timestamps
<1>4. Now.second \in Nat BY <1>3 DEF Timestamps
<1>5. NotAsked.second = -1 BY DEF NotAsked
<1> QED BY <1>3, <1>4, <1>5

(* The fields of a timer. *)
LEMMA TimerFields ==
  ASSUME NEW t \in Timers
  PROVE  /\ t.due \in Timestamps /\ t.timeout_ms \in Nat /\ t.call_times \in Int
         /\ TimestampOK(t.due)
         /\ Rearmed(t) \in Timers /\ ~Less(Rearmed(t).due, t.due)
<1>1. t.due \in Timestamps /\ t.timeout_ms \in Nat /\ t.call_times \in Int BY DEF Timers
<1>2. TimestampOK(t.due) BY <1>1 DEF Timestamps, TimestampOK
<1> DEFINE c == IF t.call_times > 0 THEN t.call_times - 1 ELSE t.call_times
           d == Plus(t.due, t.timeout_ms)
<1>3. c \in Int BY <1>1
<1>4. d \in Timestamps /\ ~Less(d, t.due) BY <1>1, PlusFacts
<1>5. Rearmed(t) = [due |-> d, timeout_ms |-> t.timeout_ms, call_times |-> c]
  BY DEF Rearmed
<1> HIDE DEF c, d
<1>6. Rearmed(t) \in Timers BY <1>1, <1>3, <1>4, <1>5 DEF Timers
<1> QED BY <1>1, <1>2, <1>4, <1>5, <1>6

LEMMA AddedFacts ==
  ASSUME clock \in Nat, NEW ms \in Int, NEW n \in Int
  PROVE  Added(ms, n) \in Timers
<1> DEFINE t == IF ms < 0 THEN 0 ELSE ms
<1>1. t \in Nat OBVIOUS
<1> HIDE DEF t
<1>2. Plus(Now, t) \in Timestamps BY <1>1, NowFacts, PlusFacts
<1>3. Added(ms, n) = [due |-> Plus(Now, t), timeout_ms |-> t, call_times |-> n]
  BY DEF Added, t
<1> QED BY <1>1, <1>2, <1>3 DEF Timers

LEMMA DuesFacts ==
  ASSUME NEW D, NEW tm \in [D -> Timers]
  PROVE  DuesOK(tm, D)
  BY TimerFields DEF DuesOK

(* A map of timers with one more, or with another value for one. *)
LEMMA WithTimer ==
  ASSUME NEW D \in SUBSET Ids, NEW tm \in [D -> Timers], NEW id \in Ids, NEW t \in Timers, NEW um,
         um = [i \in D \cup {id} |-> IF i = id THEN t ELSE tm[i]]
  PROVE  /\ um \in [D \cup {id} -> Timers] /\ DOMAIN um = D \cup {id}
         /\ D \cup {id} \in SUBSET Ids
         /\ um[id] = t /\ \A x \in D : x # id => um[x] = tm[x]
  OBVIOUS

(* addTimer keeps the invariant, and the order. *)
LEMMA AddTimerKeeps ==
  ASSUME HeapInv, NEW ms \in Int, NEW n \in Int, AddTimer(ms, n)
  PROVE  HeapInv' /\ (MinHeap => MinHeap')
<1> DEFINE id == NextId
           D == DOMAIN timers
           E == D \cup {id}
           t == Added(ms, n)
           tm == [i \in E |-> IF i = id THEN t ELSE timers[i]]
<1>1. /\ D \in SUBSET Ids /\ timers \in [D -> Timers] /\ next_id \in Ids /\ clock \in Nat
      /\ heap \in Seq(Ids) /\ heap_pos \in [Ids -> Int] /\ Placed(Heap, D)
      /\ \A x \in Ids \ D : heap_pos[x] = -1
  BY DEF HeapInv, TimersInv, PlacesInv
<1>2. id \in Ids BY <1>1, TimerAssumption DEF NextId, Ids
<1>3. t \in Timers
  <2>1. ms \in Int /\ n \in Int BY TimerAssumption
  <2> QED BY <2>1, <1>1, AddedFacts
<1>4. next_id' = id /\ UNCHANGED <<clock, asked, calling>> BY DEF AddTimer
<1>5. CASE ~Fresh(id)
  <2>1. UNCHANGED <<timers, heap, heap_pos>> BY <1>5 DEF AddTimer
  <2>2. TimersInv' BY <2>1, <1>2, <1>4 DEF HeapInv, TimersInv
  <2>3. PlacesInv' BY <2>1 DEF HeapInv, PlacesInv, Heap
  <2>4. MinHeap => MinHeap' BY <2>1 DEF MinHeap
  <2> QED BY <2>2, <2>3, <2>4 DEF HeapInv
<1>6. CASE Fresh(id)
  <2>1. timers' = tm /\ SetHeap(MinHeapInsert(Heap, tm, id)) BY <1>6 DEF AddTimer
  <2>2. id \notin D BY <1>6 DEF Fresh
  <2>3. /\ Len(heap) \in Nat /\ Heap \in Heaps(Len(heap), 1)
        /\ Heap.heap = heap /\ Heap.pos = heap_pos
    BY <1>1, HeapIsHeap
  <2> HIDE DEF t, id, D
  <2>4. /\ tm \in [E -> Timers] /\ DOMAIN tm = E /\ E \in SUBSET Ids
        /\ \A x \in D : tm[x] = timers[x]
    BY <1>1, <1>2, <1>3, <2>2, WithTimer
  <2> HIDE DEF tm
  <2> DEFINE r == MinHeapInsert(Heap, tm, id)
             k == Len(heap)
  <2>5. /\ r \in Heaps(k + 1, k + 1) /\ Placed(r, E) /\ SameOutside(r, Heap, E)
        /\ DuesOK(tm, E) /\ Ordered(heap, tm) => Ordered(r.heap, tm)
    BY <1>1, <1>2, <2>2, <2>3, InsertFacts
  <2> HIDE DEF r, E
  <2>6. SetHeap(r) /\ k + 1 \in Nat BY <2>1, <2>3 DEF r
  <2> HIDE DEF k
  <2>7. /\ heap' \in Seq(Ids) /\ heap_pos' \in [Ids -> Int] /\ Placed(Heap', E)
        /\ heap' = r.heap /\ heap_pos' = r.pos
    BY <2>5, <2>6, SetHeapFacts
  <2>8. DOMAIN timers' = E /\ timers' \in [E -> Timers] BY <2>1, <2>4
  <2>9. ASSUME NEW x \in Ids \ E PROVE heap_pos'[x] = -1
    <3>1. x \in Ids \ D BY DEF E
    <3> QED BY <3>1, <1>1, <2>3, <2>5, <2>7 DEF SameOutside
  <2>10. TimersInv' BY <2>4, <2>8, <1>2, <1>4 DEF HeapInv, TimersInv
  <2>11. PlacesInv' BY <2>7, <2>8, <2>9 DEF PlacesInv
  <2>12. ASSUME MinHeap PROVE MinHeap'
    <3>1. Ordered(heap, timers) BY <2>12 DEF MinHeap, Ordered
    <3>2. SameDues(timers, tm, D) BY <2>4 DEF SameDues
    <3>3. 1 \in Nat /\ Len(heap) \in Nat BY <2>3
    <3>4. Ordered(Heap.heap, tm) BY <1>1, <2>3, <3>1, <3>2, <3>3, OrderedSame
    <3>5. DuesOK(tm, E) BY <2>4, DuesFacts
    <3>6. Ordered(heap', timers') BY <2>1, <2>3, <2>5, <2>7, <3>4, <3>5
    <3> QED BY <3>6 DEF MinHeap, Ordered
  <2> QED BY <2>10, <2>11, <2>12 DEF HeapInv
<1> QED BY <1>5, <1>6

(* A map of timers without one. *)
LEMMA WithoutFacts ==
  ASSUME NEW id, timers \in [DOMAIN timers -> Timers]
  PROVE  /\ Without(id) \in [DOMAIN timers \ {id} -> Timers]
         /\ DOMAIN Without(id) = DOMAIN timers \ {id}
         /\ SameDues(timers, Without(id), DOMAIN timers \ {id})
  BY DEF Without, SameDues

(* Erasing a timer from the array: what removeTimer and checkTimeout start
   with. *)
LEMMA ErasedFacts ==
  ASSUME HeapInv, NEW id \in DOMAIN timers
  PROVE  LET r == MinHeapErase(Heap, timers, id)
             E == DOMAIN timers \ {id}
         IN  /\ \E n \in Nat, m \in Nat : r \in Heaps(n, m)
             /\ E \in SUBSET Ids
             /\ Placed(r, E)
             /\ \A x \in Ids \ DOMAIN timers : r.pos[x] = -1
             /\ heap_pos[id] = 1 /\ MinHeap => Ordered(r.heap, timers)
<1> DEFINE D == DOMAIN timers
           E == D \ {id}
           r == MinHeapErase(Heap, timers, id)
           n == Len(heap)
<1>1. /\ D \in SUBSET Ids /\ timers \in [D -> Timers]
      /\ heap \in Seq(Ids) /\ heap_pos \in [Ids -> Int] /\ Placed(Heap, D)
      /\ \A x \in Ids \ D : heap_pos[x] = -1
  BY DEF HeapInv, TimersInv, PlacesInv
<1>2. n \in Nat /\ Heap \in Heaps(n, 1) /\ Heap.heap = heap /\ Heap.pos = heap_pos
  BY <1>1, HeapIsHeap
<1>3. DuesOK(timers, D) BY <1>1, DuesFacts
<1>4. MinHeap => Ordered(heap, timers) BY DEF MinHeap, Ordered
<1> HIDE DEF D, n
<1>5. id \in D BY DEF D
<1>6. /\ n - 1 \in Nat /\ r \in Heaps(n - 1, n) /\ Placed(r, E) /\ SameOutside(r, Heap, D)
      /\ heap_pos[id] = 1 /\ DuesOK(timers, D) /\ Ordered(heap, timers) => Ordered(r.heap, timers)
  BY <1>1, <1>2, <1>5, EraseFacts
<1>7. \A x \in Ids \ D : r.pos[x] = -1 BY <1>1, <1>2, <1>6 DEF SameOutside
<1> HIDE DEF r
<1>8. \E k \in Nat, m \in Nat : r \in Heaps(k, m) BY <1>2, <1>6
<1> QED BY <1>1, <1>3, <1>4, <1>6, <1>7, <1>8 DEF D, r

(* Erasing and deleting a timer. *)
LEMMA DeletedFacts ==
  ASSUME HeapInv, NEW id \in DOMAIN timers, timers' = Without(id), UNCHANGED <<next_id, clock, asked>>,
         calling' \in Ids \cup {-1}, SetHeap(Forget(MinHeapErase(Heap, timers, id), id))
  PROVE  HeapInv' /\ (heap_pos[id] = 1 /\ MinHeap => MinHeap')
<1> DEFINE D == DOMAIN timers
           E == D \ {id}
           r == MinHeapErase(Heap, timers, id)
           f == Forget(r, id)
<1>1. /\ \E n \in Nat, m \in Nat : r \in Heaps(n, m)
      /\ E \in SUBSET Ids /\ Placed(r, E)
      /\ \A x \in Ids \ D : r.pos[x] = -1
      /\ heap_pos[id] = 1 /\ MinHeap => Ordered(r.heap, timers)
  BY ErasedFacts
<1>2. PICK n \in Nat, m \in Nat : r \in Heaps(n, m) BY <1>1
<1>3. D \in SUBSET Ids /\ timers \in [D -> Timers] BY DEF HeapInv, TimersInv
<1>4. timers' \in [E -> Timers] /\ DOMAIN timers' = E /\ SameDues(timers, timers', E)
  BY <1>3, WithoutFacts
<1>5. id \in Ids /\ id \notin E /\ SetHeap(f) BY <1>3
<1> HIDE DEF r, E
<1>6. /\ f \in Heaps(n, m) /\ Placed(f, E) /\ f.heap = r.heap /\ f.pos[id] = -1
      /\ \A x \in Ids : x # id => f.pos[x] = r.pos[x]
  BY <1>1, <1>2, <1>5, ForgetFacts
<1> HIDE DEF f
<1>7. /\ heap' \in Seq(Ids) /\ heap_pos' \in [Ids -> Int] /\ Placed(Heap', E)
      /\ heap' = f.heap /\ heap_pos' = f.pos
  BY <1>5, <1>6, SetHeapFacts
<1>8. ASSUME NEW x \in Ids \ E PROVE heap_pos'[x] = -1
  <2>1. x = id \/ x \in Ids \ D BY DEF E
  <2> QED BY <2>1, <1>1, <1>6, <1>7
<1>9. TimersInv' BY <1>1, <1>4 DEF HeapInv, TimersInv
<1>10. PlacesInv' BY <1>4, <1>7, <1>8 DEF PlacesInv
<1>11. ASSUME heap_pos[id] = 1, MinHeap PROVE MinHeap'
  <2>1. Ordered(f.heap, timers) BY <1>1, <1>6, <1>11
  <2>2. Ordered(f.heap, timers') BY <1>4, <1>6, <2>1, OrderedSame
  <2> QED BY <2>2, <1>7 DEF MinHeap, Ordered
<1> QED BY <1>9, <1>10, <1>11 DEF HeapInv

LEMMA RemoveTimerKeeps ==
  ASSUME HeapInv, NEW id \in Ids, RemoveTimer(id)
  PROVE  HeapInv'
<1>1. /\ id \in DOMAIN timers /\ timers' = Without(id) /\ UNCHANGED <<next_id, clock, asked, calling>>
      /\ SetHeap(Forget(MinHeapErase(Heap, timers, id), id))
  BY DEF RemoveTimer
<1>2. calling' \in Ids \cup {-1} BY <1>1 DEF HeapInv, TimersInv
<1> QED BY <1>1, <1>2, DeletedFacts

(* The first timer of the array. *)
LEMMA TopFacts ==
  ASSUME HeapInv, heap # << >>
  PROVE  /\ Len(heap) \in Nat /\ Len(heap) >= 1
         /\ heap[1] \in DOMAIN timers /\ heap[1] \in Ids /\ heap_pos[heap[1]] = 1
         /\ timers[heap[1]] \in Timers
<1>1. /\ DOMAIN timers \in SUBSET Ids /\ timers \in [DOMAIN timers -> Timers]
      /\ heap \in Seq(Ids) /\ Placed(Heap, DOMAIN timers)
      /\ Heap.heap = heap /\ Heap.pos = heap_pos
  BY DEF HeapInv, TimersInv, PlacesInv, Heap
<1>2. Len(heap) \in Nat /\ Len(heap) >= 1 /\ 1 \in DOMAIN heap BY <1>1
<1>3. heap[1] \in DOMAIN timers /\ heap_pos[heap[1]] = 1 BY <1>1, <1>2 DEF Placed
<1> QED BY <1>1, <1>2, <1>3

(* checkTimeout's iteration keeps the invariant, and the order. *)
LEMMA FireTopKeeps ==
  ASSUME HeapInv, FireTop
  PROVE  HeapInv' /\ (MinHeap => MinHeap')
<1> DEFINE id == heap[1]
           D == DOMAIN timers
           E == D \ {id}
           r == MinHeapErase(Heap, timers, id)
           tm == [timers EXCEPT ![id] = Rearmed(@)]
<1>1. heap # << >> /\ calling' = id /\ UNCHANGED <<next_id, clock, asked>>
  BY DEF FireTop, TopIsDue
<1>2. id \in D /\ id \in Ids /\ heap_pos[id] = 1 /\ timers[id] \in Timers BY <1>1, TopFacts
<1>3. CASE timers[id].call_times = 1
  <2>1. timers' = Without(id) /\ SetHeap(Forget(r, id)) BY <1>3 DEF FireTop
  <2>2. calling' \in Ids \cup {-1} BY <1>1, <1>2
  <2> QED BY <2>1, <2>2, <1>1, <1>2, DeletedFacts
<1>4. CASE timers[id].call_times # 1
  <2> DEFINE s == MinHeapInsert(r, tm, id)
             F == E \cup {id}
  <2>1. timers' = tm /\ SetHeap(s) BY <1>4 DEF FireTop
  <2>2. /\ \E n \in Nat, m \in Nat : r \in Heaps(n, m)
        /\ E \in SUBSET Ids /\ Placed(r, E)
        /\ \A x \in Ids \ D : r.pos[x] = -1
        /\ heap_pos[id] = 1 /\ MinHeap => Ordered(r.heap, timers)
    BY <1>2, ErasedFacts
  <2>3. PICK n \in Nat, m \in Nat : r \in Heaps(n, m) BY <2>2
  <2>4. D \in SUBSET Ids /\ timers \in [D -> Timers] BY DEF HeapInv, TimersInv
  <2>5. Rearmed(timers[id]) \in Timers BY <1>2, TimerFields
  <2>6. /\ tm \in [D -> Timers] /\ DOMAIN tm = D /\ \A x \in E : tm[x] = timers[x]
    BY <1>2, <2>4, <2>5
  <2>7. F = D /\ id \notin E BY <1>2
  <2> HIDE DEF r, tm, F, E
  <2>8. /\ s \in Heaps(n + 1, n + 1) /\ Placed(s, F) /\ SameOutside(s, r, F)
        /\ DuesOK(tm, F) /\ Ordered(r.heap, tm) => Ordered(s.heap, tm)
    BY <1>2, <2>2, <2>3, <2>7, InsertFacts DEF F
  <2> HIDE DEF s
  <2>9. n + 1 \in Nat OBVIOUS
  <2>10. /\ heap' \in Seq(Ids) /\ heap_pos' \in [Ids -> Int] /\ Placed(Heap', D)
         /\ heap' = s.heap /\ heap_pos' = s.pos
    BY <2>1, <2>7, <2>8, <2>9, SetHeapFacts
  <2>11. \A x \in Ids \ D : heap_pos'[x] = -1 BY <2>2, <2>7, <2>8, <2>10 DEF SameOutside
  <2>12. TimersInv' BY <1>1, <1>2, <2>1, <2>4, <2>6 DEF HeapInv, TimersInv
  <2>13. DOMAIN timers' = D BY <2>1, <2>6
  <2>14. PlacesInv' BY <2>10, <2>11, <2>13 DEF PlacesInv
  <2>15. ASSUME MinHeap PROVE MinHeap'
    <3>1. Ordered(r.heap, timers) BY <1>2, <2>2, <2>15
    <3>2. SameDues(timers, tm, E) BY <2>6 DEF SameDues
    <3>3. Ordered(r.heap, tm) BY <2>2, <2>3, <3>1, <3>2, OrderedSame
    <3>4. DuesOK(tm, F) BY <2>6, <2>7, DuesFacts
    <3>5. Ordered(heap', timers') BY <2>1, <2>8, <2>10, <3>3, <3>4
    <3> QED BY <3>5 DEF MinHeap, Ordered
  <2> QED BY <2>12, <2>14, <2>15 DEF HeapInv
<1> QED BY <1>3, <1>4

LEMMA OthersKeep ==
  ASSUME HeapInv, CheckTimeout \/ CallbackReturns \/ CheckDone \/ Tick \/ UNCHANGED vars
  PROVE  HeapInv' /\ (MinHeap => MinHeap')
<1>1. UNCHANGED <<timers, heap, heap_pos, next_id>>
  BY DEF CheckTimeout, CallbackReturns, CheckDone, Tick, vars
<1>2. Now \in Timestamps BY NowFacts DEF HeapInv, TimersInv
<1>3. /\ clock' \in Nat /\ calling' \in Ids \cup {-1}
  BY DEF HeapInv, TimersInv, CheckTimeout, CallbackReturns, CheckDone, Tick, vars
<1>4. asked' \in Timestamps \cup {NotAsked}
  BY <1>2 DEF HeapInv, TimersInv, CheckTimeout, CallbackReturns, CheckDone, Tick, vars
<1>5. TimersInv' BY <1>1, <1>3, <1>4 DEF HeapInv, TimersInv
<1>6. PlacesInv' BY <1>1 DEF HeapInv, PlacesInv, Heap
<1>7. MinHeap => MinHeap' BY <1>1 DEF MinHeap
<1> QED BY <1>5, <1>6, <1>7 DEF HeapInv

LEMMA InvInit == ASSUME Init PROVE HeapInv /\ MinHeap
<1>1. /\ timers = << >> /\ heap = << >> /\ heap_pos = [id \in Ids |-> -1]
      /\ next_id = 0 /\ clock = 0 /\ asked = NotAsked /\ calling = -1
  BY DEF Init
<1>2. DOMAIN timers = {} /\ DOMAIN heap = {} /\ Len(heap) = 0 /\ heap \in Seq(Ids) BY <1>1
<1>3. timers \in [DOMAIN timers -> Timers] BY <1>1, <1>2
<1>4. 0 \in Ids BY TimerAssumption DEF Ids
<1>5. TimersInv BY <1>1, <1>2, <1>3, <1>4 DEF TimersInv
<1>6. Placed(Heap, DOMAIN timers) BY <1>2 DEF Placed, Heap
<1>7. heap_pos \in [Ids -> Int] /\ \A id \in Ids : heap_pos[id] = -1 BY <1>1
<1>8. PlacesInv BY <1>2, <1>6, <1>7 DEF PlacesInv
<1>9. MinHeap BY <1>2 DEF MinHeap
<1> QED BY <1>5, <1>8, <1>9 DEF HeapInv

LEMMA AddNextKeeps == ASSUME HeapInv, [AddNext]_vars PROVE HeapInv' /\ (MinHeap => MinHeap')
<1>1. ASSUME NEW ask \in Asks, AddTimer(ask[1], ask[2])
      PROVE  HeapInv' /\ (MinHeap => MinHeap')
  <2>1. ask[1] \in Int /\ ask[2] \in Int BY TimerAssumption
  <2> QED BY <1>1, <2>1, AddTimerKeeps
<1>2. CASE FireTop BY <1>2, FireTopKeeps
<1>3. CASE CheckTimeout \/ CallbackReturns \/ CheckDone \/ Tick \/ UNCHANGED vars
  BY <1>3, OthersKeep
<1> QED BY <1>1, <1>2, <1>3 DEF AddNext, Run

LEMMA NextKeeps == ASSUME HeapInv, [Next]_vars PROVE HeapInv'
<1>1. CASE [AddNext]_vars BY <1>1, AddNextKeeps
<1>2. ASSUME NEW id \in Ids, RemoveTimer(id) PROVE HeapInv' BY <1>2, RemoveTimerKeeps
<1> QED BY <1>1, <1>2 DEF Next

(* Of a step of the heap with and without removals: it is one of the heap, and
   one that removes nothing if timers are not removed. *)
LEMMA HeapSteps ==
  ASSUME [HeapNext]_<<removes, vars>>
  PROVE  [Next]_vars /\ removes' = removes /\ (~removes => [AddNext]_vars)
BY DEF HeapNext, Next

(* HeapInv is inductive, and MinHeap with it as long as no timer is removed. *)
THEOREM Invariance == HeapSpec => [](HeapInv /\ (~removes => MinHeap))
<1>1. HeapInit => HeapInv /\ (~removes => MinHeap) BY InvInit DEF HeapInit
<1>2. ASSUME HeapInv, ~removes => MinHeap, [HeapNext]_<<removes, vars>>
      PROVE  (HeapInv /\ (~removes => MinHeap))'
  BY <1>2, HeapSteps, NextKeeps, AddNextKeeps
<1> QED BY <1>1, <1>2, PTL DEF HeapSpec

(* The array has one place for each timer of the map, and room for no more
   timers than there are ids. *)
LEMMA HeapLength ==
  ASSUME HeapInv
  PROVE  /\ ToSet(heap) = DOMAIN timers /\ Len(heap) = Cardinality(DOMAIN timers)
         /\ Len(heap) <= MaxId + 1
<1> DEFINE D == DOMAIN timers
           n == Len(heap)
<1>1. /\ D \in SUBSET Ids /\ heap \in Seq(Ids)
      /\ \A i \in DOMAIN heap : heap[i] \in D /\ heap_pos[heap[i]] = i
      /\ \A id \in D : heap_pos[id] \in DOMAIN heap /\ heap[heap_pos[id]] = id
  BY DEF HeapInv, TimersInv, PlacesInv, Placed, Heap
<1>2. n \in Nat /\ DOMAIN heap = 1 .. n BY <1>1
<1>3. ToSet(heap) = D BY <1>1 DEF ToSet
<1>4. ExistsBijection(1 .. n, D)
  <2>1. heap \in [1 .. n -> D] BY <1>1, <1>2
  <2>2. \A i, j \in 1 .. n : heap[i] = heap[j] => i = j BY <1>1, <1>2
  <2>3. \A id \in D : \E i \in 1 .. n : heap[i] = id BY <1>1, <1>2
  <2>4. heap \in Bijection(1 .. n, D)
    BY <2>1, <2>2, <2>3 DEF Bijection, Injection, Surjection, IsInjective
  <2> QED BY <2>4 DEF ExistsBijection
<1>5. Cardinality(D) = n BY <1>2, <1>4, FS_CountingElements
<1>6. IsFiniteSet(Ids) /\ Cardinality(Ids) = MaxId + 1
  BY TimerAssumption, FS_Interval DEF Ids
<1>7. Cardinality(D) <= Cardinality(Ids) BY <1>1, <1>6, FS_Subset
<1> QED BY <1>3, <1>5, <1>6, <1>7

(* PosAgrees for any timeouts and ids: the map, the array and the positions
   describe the same timers, also when ids are reused and whatever the
   callbacks add and remove. *)
THEOREM PositionsAgree == HeapSpec => []PosAgrees
<1>1. HeapInv => PosAgrees
  <2> SUFFICES ASSUME HeapInv PROVE PosAgrees OBVIOUS
  <2>1. ToSet(heap) = DOMAIN timers /\ Len(heap) = Cardinality(DOMAIN timers) BY HeapLength
  <2>2. DOMAIN heap = 1 .. Len(heap) BY DEF HeapInv, PlacesInv
  <2>3. \A id \in DOMAIN timers : heap_pos[id] \in DOMAIN heap /\ heap[heap_pos[id]] = id
    BY DEF HeapInv, PlacesInv, Placed, Heap
  <2> QED BY <2>1, <2>2, <2>3 DEF PosAgrees
<1> QED BY <1>1, Invariance, PTL

(* TypeOK: due times stay normalised, and no position exceeds the number of
   ids, although the ids wrap around. *)
THEOREM TypeCorrect == HeapSpec => []TypeOK
<1>1. HeapInv => TypeOK
  <2> SUFFICES ASSUME HeapInv PROVE TypeOK OBVIOUS
  <2>1. /\ DOMAIN timers \in SUBSET Ids /\ timers \in [DOMAIN timers -> Timers]
        /\ next_id \in Ids /\ calling \in Ids \cup {-1}
        /\ heap \in Seq(Ids) /\ heap_pos \in [Ids -> Int]
        /\ \A id \in Ids \ DOMAIN timers : heap_pos[id] = -1
    BY DEF HeapInv, TimersInv, PlacesInv
  <2>2. ASSUME NEW id \in DOMAIN timers
        PROVE  TimestampOK(timers[id].due) /\ timers[id].timeout_ms \in Nat
               /\ timers[id].call_times \in Int
    BY <2>1, TimerFields
  <2>3. ASSUME NEW id \in Ids PROVE heap_pos[id] \in -1 .. MaxId + 1
    <3>1. CASE id \notin DOMAIN timers
      <4>1. heap_pos[id] = -1 BY <3>1, <2>1
      <4> QED BY <4>1, TimerAssumption
    <3>2. CASE id \in DOMAIN timers
      <4>1. heap_pos[id] \in DOMAIN heap
        BY <3>2 DEF HeapInv, PlacesInv, Placed, Heap
      <4>2. heap_pos[id] \in 1 .. Len(heap) /\ Len(heap) \in Nat BY <4>1, <2>1
      <4>3. Len(heap) <= MaxId + 1 BY HeapLength
      <4> QED BY <4>2, <4>3, TimerAssumption
    <3> QED BY <3>1, <3>2
  <2>4. heap_pos \in [Ids -> -1 .. MaxId + 1] BY <2>1, <2>3
  <2> QED BY <2>1, <2>2, <2>4 DEF TypeOK
<1> QED BY <1>1, Invariance, PTL

(* The order of milliseconds agrees with that of timestamps. *)
LEMMA MillisecondOrder ==
  ASSUME NEW t \in Timestamps, NEW u \in Timestamps, NEW v \in Timestamps, ~Less(v, u)
  PROVE  /\ MillisecondLess(t, u) => MillisecondLess(t, v)
         /\ MillisecondLess(v, t) => MillisecondLess(u, t)
<1>1. /\ t.second \in Int /\ u.second \in Int /\ v.second \in Int
      /\ u.nanosecond \in Int /\ v.nanosecond \in Int
  BY NanoPerSecType DEF Timestamps
<1>2. Millisecond(t) \in Int /\ Millisecond(u) \in Int /\ Millisecond(v) \in Int
  <2>1. MsPerSec \in Int BY TimerAssumption
  <2> QED BY <2>1, MillisecondFacts
<1>3. u.nanosecond <= v.nanosecond => Millisecond(u) <= Millisecond(v)
  <2>1. NanoPerMs \in Int /\ NanoPerMs > 0 BY TimerAssumption
  <2> QED BY <1>1, <2>1, DivMono DEF Millisecond
<1> QED BY <1>1, <1>2, <1>3 DEF MillisecondLess, Less

(* The first timer of a min heap is not later than any other: a least place
   whose timer is earlier would have an earlier parent. *)
LEMMA TopIsFirst ==
  ASSUME HeapInv, MinHeap, NEW id \in DOMAIN timers
  PROVE  heap # << >> /\ ~Less(timers[id].due, timers[heap[1]].due)
<1> DEFINE D == DOMAIN timers
           n == Len(heap)
           B == {i \in 1 .. n : Earlier(timers, heap[i], heap[1])}
<1>1. /\ heap \in Seq(Ids) /\ n \in Nat /\ DOMAIN heap = 1 .. n
      /\ \A i \in 1 .. n : heap[i] \in D
      /\ heap_pos[id] \in 1 .. n /\ heap[heap_pos[id]] = id
  BY DEF HeapInv, PlacesInv, Placed, Heap
<1>2. heap # << >> /\ 1 \in 1 .. n BY <1>1
<1>3. DuesOK(timers, D) BY DuesFacts DEF HeapInv, TimersInv
<1>4. \A x, y, z \in D : /\ Earlier(timers, x, y) => ~Earlier(timers, y, x)
                         /\ ~Earlier(timers, x, y) /\ ~Earlier(timers, y, z) => ~Earlier(timers, x, z)
  BY <1>3, EarlierOrder
<1>5. ASSUME B # {} PROVE FALSE
  <2>1. B \subseteq Nat OBVIOUS
  <2>2. \E i \in B : \A j \in B : i <= j
    <3> HIDE DEF B
    <3> QED BY <2>1, <1>5, NatLeast
  <2>3. PICK i \in B : \A j \in B : i <= j BY <2>2
  <2>4. i \in 1 .. n /\ Earlier(timers, heap[i], heap[1]) BY <2>3
  <2>5. i # 1 BY <1>1, <1>2, <1>4, <2>4
  <2>6. i \in 2 .. n /\ i \div 2 \in 1 .. n /\ i \div 2 < i BY <2>4, <2>5, <1>1
  <2>7. i \div 2 \notin B
    <3>1. i \div 2 \in B => i <= i \div 2 BY <2>3
    <3>2. i \in Int /\ i \div 2 \in Int BY <2>6
    <3> QED BY <3>1, <3>2, <2>6
  <2>8. ~Earlier(timers, heap[i \div 2], heap[1]) BY <2>6, <2>7
  <2>9. ~Earlier(timers, heap[i], heap[i \div 2]) BY <2>6 DEF MinHeap
  <2> QED BY <2>4, <2>6, <2>8, <2>9, <1>1, <1>2, <1>4
<1>6. ~Earlier(timers, id, heap[1]) BY <1>1, <1>5
<1> QED BY <1>2, <1>6 DEF Earlier

(* PollInTime, for any number of timers and any resolution of the clock: the
   loops of minHeapInsert and minHeapErase restore the order of the array when
   timers are added, re-armed and dropped after their last call; a poll for
   getNextTimeoutMillisecond does not end before the millisecond in which the first
   timer is due, and misses that of no timer. *)
THEOREM PollAlwaysInTime == HeapSpec => []PollInTime
<1>1. HeapInv /\ MinHeap => SleepEndsInTime
  <2> DEFINE due == timers[heap[1]].due
             wakes == Plus(Now, DistanceMillisecond(Now, due))
  <2> SUFFICES ASSUME HeapInv, MinHeap, heap # << >>, ~Less(due, Now)
               PROVE  /\ ~MillisecondLess(wakes, due)
                      /\ \A id \in DOMAIN timers : ~MillisecondLess(timers[id].due, wakes)
    BY DEF SleepEndsInTime
  <2>1. due \in Timestamps BY TopFacts, TimerFields
  <2>2. Now \in Timestamps BY NowFacts DEF HeapInv, TimersInv
  <2> HIDE DEF due
  <2>3. ~MillisecondLess(wakes, due) /\ ~MillisecondLess(due, wakes) BY <2>1, <2>2, WakesInTime
  <2>4. wakes \in Timestamps BY <2>1, <2>2, LaterByDistance
  <2> HIDE DEF wakes
  <2>5. ASSUME NEW id \in DOMAIN timers PROVE ~MillisecondLess(timers[id].due, wakes)
    <3>1. timers[id].due \in Timestamps BY TimerFields DEF HeapInv, TimersInv
    <3>2. ~Less(timers[id].due, due) BY TopIsFirst DEF due
    <3> QED BY <2>1, <2>3, <2>4, <3>1, <3>2, MillisecondOrder
  <2> QED BY <2>3, <2>5
<1>2. HeapInv /\ (~removes => MinHeap) => PollInTime BY <1>1 DEF PollInTime
<1> QED BY <1>2, Invariance, PTL

-----------------------------------------------------------------------------
(* The steps of the heap are steps of the table of timers. *)
LEMMA FireTopRefines ==
  ASSUME HeapInv, MinHeap, FireTop
  PROVE  Table!Fire
<1> DEFINE id == heap[1]
           D == DOMAIN timers
<1>1. /\ heap # << >> /\ ~MillisecondLess(asked, timers[id].due) /\ asked # NotAsked
      /\ calling = -1 /\ calling' = id /\ asked' = asked
  BY DEF FireTop, TopIsDue
<1>2. id \in D /\ timers[id] \in Timers BY <1>1, TopFacts
<1>3. timers \in [D -> Timers] BY DEF HeapInv, TimersInv
<1>4. \A x \in D : ~Less(timers[x].due, timers[id].due) BY TopIsFirst
<1>5. \/ timers' = Without(id)
      \/ timers' = [timers EXCEPT ![id] = Rearmed(@)]
  BY DEF FireTop
<1>6. ~Less(Rearmed(timers[id]).due, timers[id].due) BY <1>2, TimerFields
<1>7. /\ D \ {id} \subseteq DOMAIN timers' /\ DOMAIN timers' \subseteq D
      /\ \A x \in D \ {id} : timers'[x] = timers[x]
      /\ id \in DOMAIN timers' => timers'[id] = Rearmed(timers[id])
  BY <1>2, <1>3, <1>5 DEF Without
<1>8. /\ DOMAIN DueMap = D /\ \A x \in D : DueMap[x] = timers[x].due
      /\ DOMAIN DueMap' = DOMAIN timers' /\ \A x \in DOMAIN timers' : DueMap'[x] = timers'[x].due
  BY DEF DueMap
<1> HIDE DEF id, D
<1>9. /\ id \in DOMAIN DueMap /\ AtTime(asked, DueMap[id])
      /\ \A x \in DOMAIN DueMap : ~Less(DueMap[x], DueMap[id])
  BY <1>1, <1>2, <1>4, <1>8 DEF AtTime
<1>10. /\ DOMAIN DueMap \ {id} \subseteq DOMAIN DueMap' /\ DOMAIN DueMap' \subseteq DOMAIN DueMap
       /\ \A x \in DOMAIN DueMap \ {id} : DueMap'[x] = DueMap[x]
       /\ id \in DOMAIN DueMap' => ~Less(DueMap'[id], DueMap[id])
  BY <1>2, <1>6, <1>7, <1>8
<1> QED BY <1>1, <1>9, <1>10 DEF Table!Fire

LEMMA AddTimerRefines ==
  ASSUME HeapInv, NEW ms \in Int, NEW n \in Int, AddTimer(ms, n)
  PROVE  Table!Add \/ UNCHANGED <<DueMap, asked, calling>>
<1> DEFINE id == NextId
           t == Added(ms, n)
<1>1. (asked # NotAsked => calling # -1) /\ UNCHANGED <<asked, calling>>
  BY DEF AddTimer, CallerRuns
<1>2. CASE ~Fresh(id)
  <2>1. timers' = timers BY <1>2 DEF AddTimer
  <2> QED BY <2>1, <1>1 DEF DueMap
<1>3. CASE Fresh(id)
  <2>1. timers' = [i \in DOMAIN timers \cup {id} |-> IF i = id THEN t ELSE timers[i]]
    BY <1>3 DEF AddTimer
  <2> HIDE DEF id, t
  <2>2. id \notin DOMAIN timers BY <1>3 DEF Fresh
  <2>3. /\ DOMAIN DueMap = DOMAIN timers /\ \A x \in DOMAIN timers : DueMap[x] = timers[x].due
        /\ DOMAIN DueMap' = DOMAIN timers' /\ \A x \in DOMAIN timers' : DueMap'[x] = timers'[x].due
    BY DEF DueMap
  <2>4. id \in DOMAIN DueMap' \ DOMAIN DueMap /\ DOMAIN DueMap' = DOMAIN DueMap \cup {id}
    BY <2>1, <2>2, <2>3
  <2>5. \A x \in DOMAIN DueMap : DueMap'[x] = DueMap[x] BY <2>1, <2>2, <2>3
  <2>6. Table!Add BY <1>1, <2>4, <2>5 DEF Table!Add
  <2> QED BY <2>6
<1> QED BY <1>2, <1>3

LEMMA CheckDoneRefines ==
  ASSUME HeapInv, MinHeap, CheckDone
  PROVE  Table!Return
<1>1. /\ asked # NotAsked /\ calling = -1 /\ ~TopIsDue /\ asked' = NotAsked
      /\ UNCHANGED <<timers, calling>>
  BY DEF CheckDone
<1>2. asked \in Timestamps BY <1>1 DEF HeapInv, TimersInv
<1>3. timers \in [DOMAIN timers -> Timers] BY DEF HeapInv, TimersInv
<1>4. ASSUME NEW id \in DOMAIN timers PROVE MillisecondLess(asked, timers[id].due)
  <2>1. heap # << >> /\ ~Less(timers[id].due, timers[heap[1]].due) BY TopIsFirst
  <2>2. MillisecondLess(asked, timers[heap[1]].due) BY <1>1, <2>1 DEF TopIsDue
  <2>3. timers[heap[1]].due \in Timestamps /\ timers[id].due \in Timestamps
    BY <1>3, <2>1, TopFacts, TimerFields
  <2> QED BY <1>2, <2>1, <2>2, <2>3, MillisecondOrder
<1>5. \A id \in DOMAIN DueMap : ~AtTime(asked, DueMap[id]) BY <1>4 DEF DueMap, AtTime
<1>6. DueMap' = DueMap BY <1>1 DEF DueMap
<1> QED BY <1>1, <1>5, <1>6 DEF Table!Return

(* As long as no timer is removed the heap implements TimerTable: checkTimeout
   fires an earliest due timer each time, re-arms it for no earlier time, and
   returns only when no timer is due. *)
THEOREM RefinesTimerTable == HeapSpec => ImplementsTimerTable
<1>1. Init => Table!TableInit
  <2> SUFFICES ASSUME Init PROVE Table!TableInit OBVIOUS
  <2>1. DueMap = << >> BY DEF Init, DueMap
  <2> QED BY <2>1 DEF Init, Table!TableInit
<1>2. HeapInv /\ MinHeap /\ [AddNext]_vars => [Table!TableNext]_(Table!tvars)
  <2> SUFFICES ASSUME HeapInv, MinHeap, [AddNext]_vars PROVE [Table!TableNext]_(Table!tvars)
    OBVIOUS
  <2> USE DEF Table!TableNext, Table!tvars
  <2>1. ASSUME NEW ask \in Asks, AddTimer(ask[1], ask[2])
        PROVE  [Table!TableNext]_(Table!tvars)
    <3>1. ask[1] \in Int /\ ask[2] \in Int BY TimerAssumption
    <3> QED BY <2>1, <3>1, AddTimerRefines
  <2>2. CASE FireTop BY <2>2, FireTopRefines
  <2>3. CASE CheckDone BY <2>3, CheckDoneRefines
  <2>4. CASE CheckTimeout
    <3>1. Now # NotAsked BY NowFacts DEF HeapInv, TimersInv
    <3>2. DueMap' = DueMap BY <2>4 DEF CheckTimeout, DueMap
    <3>3. Table!Check BY <2>4, <3>1, <3>2 DEF CheckTimeout, Table!Check
    <3> QED BY <3>3
  <2>5. CASE CallbackReturns
    <3>1. DueMap' = DueMap BY <2>5 DEF CallbackReturns, DueMap
    <3>2. Table!CallbackReturns BY <2>5, <3>1 DEF CallbackReturns, Table!CallbackReturns
    <3> QED BY <3>2
  <2>6. CASE Tick \/ UNCHANGED vars
    <3>1. UNCHANGED <<timers, asked, calling>> BY <2>6 DEF Tick, vars
    <3> QED BY <3>1 DEF DueMap
  <2> QED BY <2>1, <2>2, <2>3, <2>4, <2>5, <2>6 DEF AddNext, Run
<1>3. HeapInit => (~removes => Table!TableInit) BY <1>1 DEF HeapInit
<1>4. ASSUME HeapInv, ~removes => MinHeap, [HeapNext]_<<removes, vars>>
      PROVE  [~removes => Table!TableNext]_(Table!tvars)
  BY <1>4, <1>2, HeapSteps
<1> QED BY <1>3, <1>4, Invariance, PTL DEF HeapSpec, ImplementsTimerTable
=============================================================================
