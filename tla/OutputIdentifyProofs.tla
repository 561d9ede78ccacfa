------------------------ MODULE OutputIdentifyProofs ------------------------
(***************************************************************************)
(* What one call of Output::identify finds and does to the account, for    *)
(* every account and every transaction.  The call is a recursive function  *)
(* of the outputs, and totals are folds, so that the induction over the    *)
(* natural numbers and over finite sets comes first.                       *)
(***************************************************************************)
EXTENDS OutputIdentify, SubaddressBookProofs, WellFoundedInduction

(* Induction over the natural numbers.  The library's theorem is about an  *)
(* operator P; this one is about a set, and follows from the minimum that  *)
(* a well-founded order has.                                               *)
LEMMA Induction ==
    ASSUME NEW S, 0 \in S, \A n \in Nat : n \in S => n + 1 \in S
    PROVE  \A n \in Nat : n \in S
<1> DEFINE less == {p \in Nat \X Nat : p[1] < p[2]}
           T == Nat \ S
<1>1. IsWellFoundedOn(less, Nat)
  BY NatLessThanWellFounded DEF OpToRel
<1> SUFFICES ASSUME T # {} PROVE FALSE
  OBVIOUS
<1>2. PICK x \in T : \A y \in T : ~(<<y, x>> \in less)
  BY <1>1, WFMin
<1>3. x \in Nat /\ x # 0 /\ x - 1 \in Nat /\ x - 1 < x
  BY <1>2
<1>4. x - 1 \in S
  BY <1>2, <1>3
<1> QED BY <1>3, <1>4

(* A set of numbers that is not empty has a smallest one.                  *)
LEMMA SmallestExists ==
    ASSUME NEW T \in SUBSET Nat, T # {}
    PROVE  \E x \in T : \A y \in T : x <= y
<1> DEFINE less == {p \in Nat \X Nat : p[1] < p[2]}
<1>1. IsWellFoundedOn(less, Nat)
  BY NatLessThanWellFounded DEF OpToRel
<1>2. PICK x \in T : \A y \in T : ~(<<y, x>> \in less)
  BY <1>1, WFMin
<1>3. ASSUME NEW y \in T
      PROVE  x <= y
  <2>1. x \in Nat /\ y \in Nat /\ ~(y < x)
    BY <1>2
  <2> QED BY <2>1
<1> QED BY <1>3

(* f begins at x0 and goes on by step.                                     *)
Recursion(f, n, x0, step) ==
    f = [m \in 0..n |-> IF m = 0 THEN x0 ELSE step[<<f[m - 1], m>>]]

(* A recursion over 0..n has a solution.                                   *)
LEMMA RecursionSolvable ==
    ASSUME NEW n \in Nat, NEW X, NEW x0 \in X,
           NEW step \in [X \X (1..n) -> X]
    PROVE  \E f \in [0..n -> X] : Recursion(f, n, x0, step)
<1> DEFINE Solves(f, m) ==
               \A l \in 0..m : f[l] = IF l = 0 THEN x0
                                      ELSE step[<<f[l - 1], l>>]
           S == {m \in Nat : m <= n => \E f \in [0..m -> X] : Solves(f, m)}
<1>1. 0 \in S
  <2> DEFINE f == [l \in 0..0 |-> x0]
  <2>1. f \in [0..0 -> X] /\ Solves(f, 0)
    OBVIOUS
  <2> HIDE DEF Solves, f
  <2> QED BY <2>1
<1>2. ASSUME NEW m \in Nat, m \in S
      PROVE  m + 1 \in S
  <2> SUFFICES ASSUME m + 1 <= n
               PROVE  \E f \in [0..(m + 1) -> X] : Solves(f, m + 1)
    OBVIOUS
  <2>1. PICK g \in [0..m -> X] : Solves(g, m)
    BY <1>2
  <2> DEFINE f == [l \in 0..(m + 1) |-> IF l <= m THEN g[l]
                                        ELSE step[<<g[m], m + 1>>]]
  <2>2. step[<<g[m], m + 1>>] \in X
    OBVIOUS
  <2>3. f \in [0..(m + 1) -> X]
    BY <2>2
  <2>4. \A l \in 0..m : f[l] = g[l]
    OBVIOUS
  <2>5. f[m + 1] = step[<<g[m], m + 1>>] /\ f[m] = g[m]
    OBVIOUS
  <2> HIDE DEF f
  <2>6. Solves(f, m + 1)
    <3> SUFFICES ASSUME NEW l \in 0..(m + 1)
                 PROVE  f[l] = IF l = 0 THEN x0 ELSE step[<<f[l - 1], l>>]
      OBVIOUS
    <3>1. CASE l = m + 1
      BY <2>5, <3>1
    <3>2. CASE l # m + 1
      <4>1. l \in 0..m /\ (l # 0 => l - 1 \in 0..m)
        BY <3>2
      <4> QED BY <2>1, <2>4, <4>1
    <3> QED BY <3>1, <3>2
  <2> QED BY <2>3, <2>6
<1> HIDE DEF Solves
<1>3. n \in S
  <2> HIDE DEF S
  <2> QED BY <1>1, <1>2, Induction
<1>4. PICK f \in [0..n -> X] : Solves(f, n)
  BY <1>3
<1>5. f = [m \in 0..n |-> IF m = 0 THEN x0 ELSE step[<<f[m - 1], m>>]]
  BY <1>4 DEF Solves
<1> QED BY <1>5 DEF Recursion

-----------------------------------------------------------------------------
(* Sums.                                                                   *)

(* f gives the sum of v over every subset of D.                            *)
IsSum(f, D, v) ==
    /\ f \in [SUBSET D -> Int]
    /\ f[{}] = 0
    /\ \A s \in SUBSET D, x \in D : x \notin s => f[s \cup {x}] = f[s] + v[x]

(* f adds one element after the other, in the order in which c takes them. *)
AddsUp(f, D, v, c) ==
    f = [s \in SUBSET D |-> IF s = {} THEN 0 ELSE v[c[s]] + f[s \ {c[s]}]]

Chooses(c, D) == \A s \in SUBSET D : s # {} => c[s] \in s

(* Subsets of a finite set have a size, which one element less lessens.    *)
LEMMA Sizes ==
    ASSUME NEW D, IsFiniteSet(D), NEW s \in SUBSET D
    PROVE  /\ IsFiniteSet(s) /\ Cardinality(s) \in Nat
           /\ Cardinality(s) = 0 <=> s = {}
           /\ \A x \in s : Cardinality(s \ {x}) = Cardinality(s) - 1
  BY FS_Subset, FS_CardinalityType, FS_EmptySet, FS_RemoveElement

(* Whatever the order, there is such a function ...                        *)
LEMMA AddingUpDefined ==
    ASSUME NEW D, IsFiniteSet(D), NEW v \in [D -> Int], NEW c, Chooses(c, D)
    PROVE  \E f \in [SUBSET D -> Int] : AddsUp(f, D, v, c)
<1> DEFINE Right(f, s) == f[s] = IF s = {} THEN 0 ELSE v[c[s]] + f[s \ {c[s]}]
           Solves(f, m) ==
               \A s \in SUBSET D : Cardinality(s) <= m => Right(f, s)
           S == {m \in Nat : \E f \in [SUBSET D -> Int] : Solves(f, m)}
<1>1. 0 \in S
  <2> DEFINE f == [s \in SUBSET D |-> 0]
  <2>1. f \in [SUBSET D -> Int] /\ Solves(f, 0)
    BY Sizes
  <2> HIDE DEF Solves, f
  <2> QED BY <2>1
<1>2. ASSUME NEW m \in Nat, m \in S
      PROVE  m + 1 \in S
  <2>1. PICK g \in [SUBSET D -> Int] : Solves(g, m)
    BY <1>2
  <2> DEFINE f == [s \in SUBSET D |->
                      IF Cardinality(s) <= m THEN g[s]
                      ELSE v[c[s]] + g[s \ {c[s]}]]
  <2>2. \A s \in SUBSET D : Cardinality(s) > m => s # {} /\ c[s] \in s
    BY Sizes DEF Chooses
  <2>3. f \in [SUBSET D -> Int]
    BY <2>2, Sizes
  <2>4. /\ \A s \in SUBSET D : Cardinality(s) <= m => f[s] = g[s]
        /\ \A s \in SUBSET D : ~(Cardinality(s) <= m) =>
               f[s] = v[c[s]] + g[s \ {c[s]}]
    OBVIOUS
  <2> HIDE DEF f
  <2>5. ASSUME NEW s \in SUBSET D, Cardinality(s) <= m + 1
        PROVE  Right(f, s)
    <3>1. CASE s = {}
      BY <2>1, <2>4, <3>1, Sizes
    <3>2. CASE s # {}
      <4>1. c[s] \in s /\ s \ {c[s]} \in SUBSET D
        BY <3>2 DEF Chooses
      <4>2. Cardinality(s \ {c[s]}) <= m /\ Cardinality(s) \in Nat
        BY <2>5, <4>1, Sizes
      <4>3. f[s \ {c[s]}] = g[s \ {c[s]}]
        BY <2>4, <4>1, <4>2
      <4>4. CASE Cardinality(s) <= m
        BY <2>1, <2>4, <3>2, <4>3, <4>4
      <4>5. CASE ~(Cardinality(s) <= m)
        BY <2>4, <3>2, <4>3, <4>5
      <4> QED BY <4>4, <4>5
    <3> QED BY <3>1, <3>2
  <2> HIDE DEF Right
  <2> QED BY <2>3, <2>5
<1> HIDE DEF S
<1>3. Cardinality(D) \in Nat /\ Cardinality(D) \in S
  BY <1>1, <1>2, Induction, Sizes
<1>4. PICK f \in [SUBSET D -> Int] : Solves(f, Cardinality(D))
  BY <1>3 DEF S
<1>5. \A s \in SUBSET D : Right(f, s)
  <2> HIDE DEF Right
  <2>1. \A s \in SUBSET D : Cardinality(s) <= Cardinality(D)
    BY FS_Subset
  <2> QED BY <1>4, <2>1
<1> QED BY <1>5 DEF AddsUp

(* ... and it is a sum.                                                    *)
LEMMA AddingUpIsSum ==
    ASSUME NEW D, IsFiniteSet(D), NEW v \in [D -> Int], NEW c, Chooses(c, D),
           NEW f \in [SUBSET D -> Int], AddsUp(f, D, v, c)
    PROVE  IsSum(f, D, v)
<1> DEFINE Adds(s, x) == f[s \cup {x}] = f[s] + v[x]
           S == {m \in Nat : \A s \in SUBSET D, x \in D :
                                x \notin s /\ Cardinality(s) <= m =>
                                    Adds(s, x)}
<1>1. /\ f[{}] = 0
      /\ \A s \in SUBSET D : s # {} =>
             c[s] \in s /\ f[s] = v[c[s]] + f[s \ {c[s]}]
  BY DEF AddsUp, Chooses
<1>2. 0 \in S
  <2> SUFFICES ASSUME NEW s \in SUBSET D, NEW x \in D, s = {}
               PROVE  Adds(s, x)
    BY Sizes
  <2>1. {x} \in SUBSET D /\ {x} # {} /\ {x} \ {x} = {} /\ s \cup {x} = {x}
    OBVIOUS
  <2>2. c[{x}] = x /\ f[{x}] = v[x] + f[{}]
    BY <1>1, <2>1
  <2>3. f[s \cup {x}] = v[x] /\ f[s] = 0 /\ v[x] \in Int
    BY <1>1, <2>1, <2>2
  <2> QED BY <2>3
<1>3. ASSUME NEW m \in Nat, m \in S
      PROVE  m + 1 \in S
  <2> SUFFICES ASSUME NEW s \in SUBSET D, NEW x \in D, x \notin s,
                      Cardinality(s) <= m + 1
               PROVE  Adds(s, x)
    OBVIOUS
  <2> DEFINE u == s \cup {x}
             e == c[u]
  <2>1. /\ u \in SUBSET D /\ e \in u
        /\ f[u] = v[e] + f[u \ {e}]
    BY <1>1
  <2>0. f[s] \in Int /\ v[x] \in Int
    OBVIOUS
  <2>2. CASE e = x
    <3>1. u \ {e} = s
      BY <2>2
    <3> HIDE DEF u, e
    <3>2. f[u] = v[x] + f[s]
      BY <2>1, <2>2, <3>1
    <3> QED BY <2>0, <3>2 DEF u
  <2>3. CASE e # x
    <3> DEFINE w == s \ {e}
    <3>1. e \in s /\ u \ {e} = w \cup {x} /\ w \cup {e} = s
      BY <2>1, <2>3
    <3> HIDE DEF u, e
    <3>2. w \in SUBSET D /\ Cardinality(w) <= m /\ x \notin w /\ e \notin w
      <4>1. Cardinality(w) = Cardinality(s) - 1 /\ Cardinality(s) \in Nat
        BY <3>1, Sizes
      <4> QED BY <3>1, <4>1
    <3>3. Adds(w, x) /\ Adds(w, e)
      BY <1>3, <2>1, <3>1, <3>2
    <3> HIDE DEF w, u, e
    <3>4. f[w] \in Int /\ f[s] = f[w] + v[e] /\ f[u] = v[e] + (f[w] + v[x])
      BY <2>1, <3>1, <3>2, <3>3
    <3>5. v[e] \in Int /\ v[x] \in Int
      BY <3>1
    <3> QED BY <3>4, <3>5 DEF u
  <2> QED BY <2>2, <2>3
<1>4. \A m \in Nat : m \in S
  <2> HIDE DEF S
  <2> QED BY <1>2, <1>3, Induction
<1>5. ASSUME NEW s \in SUBSET D, NEW x \in D, x \notin s
      PROVE  f[s \cup {x}] = f[s] + v[x]
  <2>1. Cardinality(s) \in Nat
    BY Sizes
  <2>2. Cardinality(s) \in S /\ Cardinality(s) <= Cardinality(s)
    BY <1>4, <2>1
  <2> HIDE DEF Adds
  <2>3. Adds(s, x)
    BY <1>5, <2>2
  <2> QED BY <2>3 DEF Adds
<1> QED BY <1>1, <1>5 DEF IsSum

SameOn(v, w, D) == \A x \in D : v[x] = w[x]

(* Sums of the same values are the same.                                   *)
LEMMA SumUnique ==
    ASSUME NEW D, IsFiniteSet(D), NEW v, NEW f, IsSum(f, D, v),
           NEW E, D \subseteq E, NEW w, NEW g, IsSum(g, E, w),
           SameOn(v, w, D)
    PROVE  \A s \in SUBSET D : f[s] = g[s]
<1> DEFINE S == {m \in Nat : \A s \in SUBSET D :
                                Cardinality(s) <= m => f[s] = g[s]}
<1>1. 0 \in S
  <2>1. \A s \in SUBSET D : Cardinality(s) <= 0 => s = {}
    BY Sizes
  <2> QED BY <2>1 DEF IsSum
<1>2. ASSUME NEW m \in Nat, m \in S
      PROVE  m + 1 \in S
  <2>0. f[{}] = g[{}]
    BY DEF IsSum
  <2> SUFFICES ASSUME NEW s \in SUBSET D, Cardinality(s) <= m + 1, s # {}
               PROVE  f[s] = g[s]
    BY <2>0
  <2>1. PICK x \in s : TRUE
    OBVIOUS
  <2> DEFINE u == s \ {x}
  <2>2. u \in SUBSET D /\ x \notin u /\ u \cup {x} = s /\ x \in D
    OBVIOUS
  <2>3. Cardinality(u) <= m
    <3>1. Cardinality(u) = Cardinality(s) - 1 /\ Cardinality(s) \in Nat
      BY Sizes
    <3> QED BY <3>1
  <2>4. f[u] = g[u]
    BY <1>2, <2>2, <2>3
  <2> HIDE DEF u
  <2>5. f[s] = f[u] + v[x] /\ g[s] = g[u] + w[x]
    BY <2>2 DEF IsSum
  <2> QED BY <2>2, <2>4, <2>5 DEF SameOn
<1>3. \A m \in Nat : m \in S
  <2> HIDE DEF S
  <2> QED BY <1>1, <1>2, Induction
<1>4. ASSUME NEW s \in SUBSET D
      PROVE  f[s] = g[s]
  <2>1. Cardinality(s) \in Nat
    BY Sizes
  <2>2. Cardinality(s) \in S /\ Cardinality(s) <= Cardinality(s)
    BY <1>3, <2>1
  <2> QED BY <2>2
<1> QED BY <1>4

(* A function that adds up has sums for values.                            *)
LEMMA AddingUpTyped ==
    ASSUME NEW D, IsFiniteSet(D), NEW v \in [D -> Int], NEW c, Chooses(c, D),
           NEW f, AddsUp(f, D, v, c)
    PROVE  f \in [SUBSET D -> Int]
<1> DEFINE S == {m \in Nat : \A s \in SUBSET D :
                                Cardinality(s) <= m => f[s] \in Int}
<1>1. /\ f[{}] = 0
      /\ \A s \in SUBSET D : s # {} =>
             c[s] \in s /\ f[s] = v[c[s]] + f[s \ {c[s]}]
  BY DEF AddsUp, Chooses
<1>2. 0 \in S
  <2>1. \A s \in SUBSET D : Cardinality(s) <= 0 => s = {}
    BY Sizes
  <2>2. ASSUME NEW s \in SUBSET D, Cardinality(s) <= 0
        PROVE  f[s] \in Int
    <3>1. s = {}
      BY <2>1, <2>2
    <3> QED BY <1>1, <3>1
  <2> QED BY <2>2
<1>3. ASSUME NEW m \in Nat, m \in S
      PROVE  m + 1 \in S
  <2> SUFFICES ASSUME NEW s \in SUBSET D, Cardinality(s) <= m + 1
               PROVE  f[s] \in Int
    OBVIOUS
  <2>1. CASE s = {}
    BY <1>1, <2>1
  <2>2. CASE s # {}
    <3>1. c[s] \in s /\ f[s] = v[c[s]] + f[s \ {c[s]}]
      BY <1>1, <2>2
    <3>2. /\ Cardinality(s \ {c[s]}) = Cardinality(s) - 1
          /\ Cardinality(s) \in Nat
      BY <3>1, Sizes
    <3>3. f[s \ {c[s]}] \in Int
      BY <1>3, <3>2
    <3> QED BY <3>1, <3>3
  <2> QED BY <2>1, <2>2
<1>4. \A m \in Nat : m \in S
  <2> HIDE DEF S
  <2> QED BY <1>2, <1>3, Induction
<1>5. ASSUME NEW s \in SUBSET D
      PROVE  f[s] \in Int
  <2>1. Cardinality(s) \in S /\ Cardinality(s) <= Cardinality(s)
    BY <1>4, Sizes
  <2> QED BY <2>1
<1> QED BY <1>5 DEF AddsUp

HasAmounts(infos) == \A n \in DOMAIN infos : infos[n].amount \in Int

Amounts(infos) == [n \in DOMAIN infos |-> infos[n].amount]

(* SumAmounts is a sum.                                                    *)
LEMMA SumAmountsIsSum ==
    ASSUME NEW infos, IsFiniteSet(DOMAIN infos), HasAmounts(infos)
    PROVE  \E f : /\ IsSum(f, DOMAIN infos, Amounts(infos))
                  /\ SumAmounts(infos) = f[DOMAIN infos]
<1> DEFINE D == DOMAIN infos
           v == Amounts(infos)
           pick(s) == CHOOSE x \in s : TRUE
           c == [s \in SUBSET D |-> pick(s)]
           rec(h) == [s \in SUBSET D |->
                         IF s = {} THEN 0
                         ELSE infos[pick(s)].amount + h[s \ {pick(s)}]]
<1>1. SumAmounts(infos) = (CHOOSE h : h = rec(h))[D]
  BY DEF SumAmounts, MapThenSumSet, MapThenFoldSet
<1>2. \A s \in SUBSET D : s # {} => c[s] \in s /\ c[s] = pick(s)
  OBVIOUS
<1>3. \A s \in SUBSET D : s # {} => v[c[s]] = infos[pick(s)].amount
  BY <1>2 DEF Amounts
<1>4. v \in [D -> Int] /\ Chooses(c, D)
  BY <1>2 DEF HasAmounts, Amounts, Chooses
<1> HIDE DEF v, c
<1>5. \A h : AddsUp(h, D, v, c) <=> h = rec(h)
  <2> SUFFICES ASSUME NEW h
               PROVE  [s \in SUBSET D |-> IF s = {} THEN 0
                          ELSE v[c[s]] + h[s \ {c[s]}]] = rec(h)
    BY DEF AddsUp
  <2>1. ASSUME NEW s \in SUBSET D, s # {}
        PROVE  v[c[s]] + h[s \ {c[s]}]
                   = infos[pick(s)].amount + h[s \ {pick(s)}]
    <3>1. v[c[s]] = infos[pick(s)].amount /\ c[s] = pick(s)
      BY <1>2, <1>3, <2>1
    <3> HIDE DEF pick
    <3> QED BY <3>1
  <2> HIDE DEF pick
  <2> QED BY <2>1
<1>6. \E h : h = rec(h)
  <2> HIDE DEF rec
  <2> QED BY <1>4, <1>5, AddingUpDefined
<1> DEFINE f == CHOOSE h : h = rec(h)
<1>7. f = rec(f)
  <2> HIDE DEF rec
  <2> QED BY <1>6
<1> HIDE DEF f, rec
<1>8. AddsUp(f, D, v, c)
  BY <1>5, <1>7
<1>9. IsSum(f, D, v)
  BY <1>4, <1>8, AddingUpTyped, AddingUpIsSum
<1> QED BY <1>1, <1>9 DEF f, v

(* The sum of no records, of one, and of two sequences of records.         *)
LEMMA SumOfNone == SumAmounts(<<>>) = 0
<1>1. DOMAIN <<>> = {} /\ IsFiniteSet({}) /\ HasAmounts(<<>>)
  BY FS_EmptySet DEF HasAmounts
<1>2. PICK f : IsSum(f, {}, Amounts(<<>>)) /\ SumAmounts(<<>>) = f[{}]
  BY <1>1, SumAmountsIsSum
<1> QED BY <1>2 DEF IsSum

(* The sum of a concatenation is the sum of both sums.                     *)
LEMMA SumOfBoth ==
    ASSUME NEW R, \A x \in R : x.amount \in Int,
           NEW a \in Seq(R), NEW b \in Seq(R)
    PROVE  /\ SumAmounts(a) \in Int /\ SumAmounts(b) \in Int
           /\ SumAmounts(a \o b) = SumAmounts(a) + SumAmounts(b)
<1> DEFINE ab == a \o b
           la == Len(a)
           lb == Len(b)
<1>1. /\ la \in Nat /\ lb \in Nat /\ ab \in Seq(R)
      /\ DOMAIN a = 1..la /\ DOMAIN b = 1..lb /\ DOMAIN ab = 1..(la + lb)
      /\ HasAmounts(a) /\ HasAmounts(b) /\ HasAmounts(ab)
  BY DEF HasAmounts
<1>2. /\ \A n \in 1..la : Amounts(a)[n] = Amounts(ab)[n]
      /\ \A n \in 1..lb : Amounts(b)[n] = Amounts(ab)[la + n]
  BY <1>1 DEF Amounts
<1> HIDE DEF ab, la, lb
<1>3. /\ IsFiniteSet(1..la) /\ IsFiniteSet(1..lb)
      /\ IsFiniteSet(1..(la + lb)) /\ 1..la \subseteq 1..(la + lb)
  BY <1>1, FS_Interval
<1>4. PICK f : IsSum(f, 1..la, Amounts(a)) /\ SumAmounts(a) = f[1..la]
  BY <1>1, <1>3, SumAmountsIsSum
<1>5. PICK g : IsSum(g, 1..lb, Amounts(b)) /\ SumAmounts(b) = g[1..lb]
  BY <1>1, <1>3, SumAmountsIsSum
<1>6. PICK h : /\ IsSum(h, 1..(la + lb), Amounts(ab))
               /\ SumAmounts(ab) = h[1..(la + lb)]
  BY <1>1, <1>3, SumAmountsIsSum
<1>7. f[1..la] = h[1..la]
  <2>1. \A s \in SUBSET (1..la) : f[s] = h[s]
    <3> DEFINE D == 1..la
               E == 1..(la + lb)
               v == Amounts(a)
               w == Amounts(ab)
    <3>1. /\ IsFiniteSet(D) /\ D \subseteq E
          /\ IsSum(f, D, v) /\ IsSum(h, E, w)
          /\ SameOn(v, w, D)
      BY <1>2, <1>3, <1>4, <1>6 DEF SameOn
    <3> HIDE DEF D, E, v, w
    <3>2. \A s \in SUBSET D : f[s] = h[s]
      BY <3>1, SumUnique
    <3> QED BY <3>2 DEF D
  <2> DEFINE s == 1..la
  <2>2. s \in SUBSET (1..la)
    OBVIOUS
  <2> QED BY <2>1, <2>2
<1> DEFINE S == {m \in Nat : m <= lb =>
                    h[1..(la + m)] = h[1..la] + g[1..m]}
<1>8. h[1..la] \in Int /\ g[1..lb] \in Int
  BY <1>3, <1>5, <1>6 DEF IsSum
<1>9. 0 \in S
  <2>1. 1..0 = {} /\ la + 0 = la
    BY <1>1
  <2> QED BY <1>5, <1>8, <2>1 DEF IsSum
<1>10. ASSUME NEW m \in Nat, m \in S
       PROVE  m + 1 \in S
  <2> SUFFICES ASSUME m + 1 <= lb
               PROVE  h[1..(la + (m + 1))] = h[1..la] + g[1..(m + 1)]
    OBVIOUS
  <2>1. /\ 1..(la + (m + 1)) = (1..(la + m)) \cup {la + (m + 1)}
        /\ la + (m + 1) \notin 1..(la + m)
        /\ 1..(la + m) \in SUBSET (1..(la + lb))
        /\ la + (m + 1) \in 1..(la + lb)
    BY <1>1
  <2>2. /\ 1..(m + 1) = (1..m) \cup {m + 1} /\ m + 1 \notin 1..m
        /\ 1..m \in SUBSET (1..lb) /\ m + 1 \in 1..lb
    BY <1>1
  <2>3. h[1..(la + (m + 1))]
            = h[1..(la + m)] + Amounts(ab)[la + (m + 1)]
    <3> DEFINE s == 1..(la + m)
               e == la + (m + 1)
    <3>1. s \in SUBSET (1..(la + lb)) /\ e \in 1..(la + lb) /\ e \notin s
      BY <2>1
    <3>2. 1..(la + (m + 1)) = s \cup {e}
      BY <2>1
    <3> HIDE DEF s, e
    <3>3. h[s \cup {e}] = h[s] + Amounts(ab)[e]
      BY <1>6, <3>1 DEF IsSum
    <3> QED BY <3>2, <3>3 DEF s, e
  <2>4. g[1..(m + 1)] = g[1..m] + Amounts(b)[m + 1]
    <3> DEFINE s == 1..m
               e == m + 1
    <3>1. s \in SUBSET (1..lb) /\ e \in 1..lb /\ e \notin s
      BY <2>2
    <3>2. 1..(m + 1) = s \cup {e}
      BY <2>2
    <3> HIDE DEF s, e
    <3>3. g[s \cup {e}] = g[s] + Amounts(b)[e]
      BY <1>5, <3>1 DEF IsSum
    <3> QED BY <3>2, <3>3 DEF s, e
  <2>5. h[1..(la + m)] = h[1..la] + g[1..m]
    <3>1. m <= lb
      BY <1>1
    <3> QED BY <1>10, <3>1
  <2>6. g[1..m] \in Int /\ Amounts(b)[m + 1] \in Int
    BY <1>1, <1>5, <2>2 DEF IsSum, Amounts, HasAmounts
  <2>7. Amounts(ab)[la + (m + 1)] = Amounts(b)[m + 1]
    BY <1>2, <2>2
  <2> QED BY <1>8, <2>3, <2>4, <2>5, <2>6, <2>7
<1>11. lb \in S
  <2> HIDE DEF S
  <2> QED BY <1>1, <1>9, <1>10, Induction
<1>12. h[1..(la + lb)] = h[1..la] + g[1..lb]
  BY <1>1, <1>11
<1> QED BY <1>4, <1>5, <1>6, <1>7, <1>8, <1>12 DEF ab

(* One record more adds its amount.                                        *)
LEMMA SumOfOneMore ==
    ASSUME NEW R, \A x \in R : x.amount \in Int,
           NEW a \in Seq(R), NEW x \in R
    PROVE  SumAmounts(Append(a, x)) = SumAmounts(a) + x.amount
<1> DEFINE b == <<x>>
<1>1. Append(a, x) = a \o b /\ b \in Seq(R) /\ DOMAIN b = {1} /\ b[1] = x
  OBVIOUS
<1> HIDE DEF b
<1>2. IsFiniteSet(DOMAIN b) /\ HasAmounts(b)
  BY <1>1, FS_Singleton DEF HasAmounts
<1>5. PICK f : IsSum(f, {1}, Amounts(b)) /\ SumAmounts(b) = f[{1}]
  BY <1>1, <1>2, SumAmountsIsSum
<1>3. f[{} \cup {1}] = f[{}] + Amounts(b)[1] /\ f[{}] = 0
  BY <1>5 DEF IsSum
<1>4. SumAmounts(b) = x.amount
  <2>1. {} \cup {1} = {1}
    OBVIOUS
  <2>2. Amounts(b)[1] = x.amount /\ x.amount \in Int
    BY <1>1 DEF Amounts
  <2> QED BY <1>3, <1>5, <2>1, <2>2
<1> QED BY <1>1, <1>4, SumOfBoth

(* A sum is the same in any order of its records.                          *)
LEMMA SumReordered ==
    ASSUME NEW a, IsFiniteSet(DOMAIN a), HasAmounts(a),
           NEW b, IsFiniteSet(DOMAIN b), HasAmounts(b),
           NEW p \in [DOMAIN a -> DOMAIN b],
           \A x, y \in DOMAIN a : p[x] = p[y] => x = y,
           \A y \in DOMAIN b : \E x \in DOMAIN a : p[x] = y,
           \A x \in DOMAIN a : b[p[x]].amount = a[x].amount
    PROVE  SumAmounts(a) = SumAmounts(b)
<1> DEFINE D == DOMAIN a
           E == DOMAIN b
           v == Amounts(a)
           w == Amounts(b)
           image(s) == {p[x] : x \in s}
<1>1. /\ \A x \in D : p[x] \in E /\ v[x] = w[p[x]]
      /\ \A x, y \in D : p[x] = p[y] => x = y
      /\ image(D) = E /\ IsFiniteSet(D)
  <2>1. ASSUME NEW x \in D
        PROVE  p[x] \in E /\ v[x] = w[p[x]]
    <3>1. p[x] \in DOMAIN b
      OBVIOUS
    <3>2. b[p[x]].amount = a[x].amount
      OBVIOUS
    <3>3. v[x] = a[x].amount
      BY DEF Amounts
    <3>4. w[p[x]] = b[p[x]].amount
      BY <3>1 DEF Amounts
    <3> QED BY <3>1, <3>2, <3>3, <3>4
  <2>2. \A y \in E : y \in image(D)
    OBVIOUS
  <2>3. \A y \in image(D) : y \in E
    BY <2>1
  <2>4. image(D) = E
    <3> HIDE DEF D, E, image
    <3> QED BY <2>2, <2>3
  <2> QED BY <2>1, <2>4
<1>2. PICK f : IsSum(f, D, v) /\ SumAmounts(a) = f[D]
  BY SumAmountsIsSum
<1>3. PICK g : IsSum(g, E, w) /\ SumAmounts(b) = g[E]
  BY SumAmountsIsSum
<1> HIDE DEF D, E, v, w
<1> DEFINE S == {m \in Nat : \A s \in SUBSET D :
                                Cardinality(s) <= m => f[s] = g[image(s)]}
<1>4. 0 \in S
  <2>1. \A s \in SUBSET D : Cardinality(s) <= 0 => s = {}
    BY <1>1, Sizes
  <2>2. image({}) = {}
    OBVIOUS
  <2> HIDE DEF image
  <2>3. f[{}] = g[image({})]
    BY <1>2, <1>3, <2>2 DEF IsSum
  <2> QED BY <2>1, <2>3
<1>5. ASSUME NEW m \in Nat, m \in S
      PROVE  m + 1 \in S
  <2> SUFFICES \A s \in SUBSET D :
                   Cardinality(s) <= m + 1 => f[s] = g[image(s)]
    <3> HIDE DEF image
    <3> QED OBVIOUS
  <2> SUFFICES ASSUME NEW s \in SUBSET D, Cardinality(s) <= m + 1
               PROVE  f[s] = g[image(s)]
    <3> HIDE DEF image
    <3> QED OBVIOUS
  <2>1. CASE s = {}
    <3>1. image(s) = {}
      BY <2>1
    <3> HIDE DEF image
    <3> QED BY <1>2, <1>3, <2>1, <3>1 DEF IsSum
  <2>2. CASE s # {}
    <3>1. PICK x \in s : TRUE
      BY <2>2
    <3> DEFINE u == s \ {x}
    <3>2. u \in SUBSET D /\ x \notin u /\ u \cup {x} = s /\ x \in D
      OBVIOUS
    <3>3. Cardinality(u) <= m
      <4>1. Cardinality(u) = Cardinality(s) - 1 /\ Cardinality(s) \in Nat
        BY <1>1, Sizes
      <4> QED BY <4>1
    <3>4. f[u] = g[image(u)]
      BY <1>5, <3>2, <3>3
    <3> HIDE DEF u
    <3>5. /\ image(u) \in SUBSET E /\ p[x] \in E /\ p[x] \notin image(u)
          /\ image(s) = image(u) \cup {p[x]} /\ v[x] = w[p[x]]
      BY <1>1, <3>2
    <3> HIDE DEF image
    <3>6. f[u \cup {x}] = f[u] + v[x]
      BY <1>2, <3>2 DEF IsSum
    <3>7. g[image(u) \cup {p[x]}] = g[image(u)] + w[p[x]]
      BY <1>3, <3>5 DEF IsSum
    <3> QED BY <3>2, <3>4, <3>5, <3>6, <3>7
  <2> QED BY <2>1, <2>2
<1>6. \A m \in Nat : m \in S
  <2> HIDE DEF S
  <2> QED BY <1>4, <1>5, Induction
<1>7. f[D] = g[image(D)]
  <2>1. Cardinality(D) \in Nat /\ D \in SUBSET D
    BY <1>1, Sizes
  <2>2. Cardinality(D) \in S
    <3> HIDE DEF S
    <3> QED BY <1>6, <2>1
  <2>3. Cardinality(D) <= Cardinality(D)
    BY <2>1
  <2> HIDE DEF image
  <2> QED BY <2>1, <2>2, <2>3
<1> HIDE DEF image
<1> QED BY <1>1, <1>2, <1>3, <1>7

-----------------------------------------------------------------------------
(* The search for one output.                                              *)

(* Any client that searches.                                               *)
IsSearcher(s) == s.pacc \in BOOLEAN /\ s.address \in Key

(* The typed records of a transaction.                                     *)
InfosOf(t) ==
    [pub_key : PubKeys, amount : Nat, idx_in_tx : DOMAIN t.vout,
     derivation : Derivations, subaddress_spendkey : Key, subaddr_idx : Index]

(* An output that matches was sent to an address of the searcher, through  *)
(* the derivation it matched with.                                         *)
LEMMA MatchIsTrue ==
    ASSUME NEW s, IsSearcher(s), NEW acc, GoodAccount(acc), NEW t, NEW n,
           NEW e \in Match(s, acc, t, n)
    PROVE  /\ e.key \in Key /\ e.idx \in Index
           /\ t.vout[n].spend_key = e.key
           /\ t.vout[n].via = UsedDerivation(s, acc, t, n)
           /\ Derivable(t, n, t.vout[n].via)
           /\ e \in Ours(s, acc, e.key)
           /\ IF s.pacc THEN e \in acc.subaddresses /\ e.key = SpendKey[e.idx]
                        ELSE e.key = s.address /\ e.idx = NoIndex
<1> DEFINE d == UsedDerivation(s, acc, t, n)
           key == DerivedSpendKey(t, n, d)
<1>1. e \in Ours(s, acc, key)
  BY DEF Match, UsedDerivation, OursVia
<1>2. NoIndex \in Index
  BY WordAssumption DEF NoIndex, Index, UInt32
<1> HIDE DEF d, key
<1>3. /\ e.key = key /\ e.key \in Key /\ e.idx \in Index
      /\ IF s.pacc THEN e \in acc.subaddresses /\ e.key = SpendKey[e.idx]
                   ELSE e.key = s.address /\ e.idx = NoIndex
  <2>1. CASE s.pacc
    BY <1>1, <2>1, GoodIsSound DEF Ours, Lookup, Sound
  <2>2. CASE ~s.pacc
    BY <1>1, <1>2, <2>2 DEF Ours, IsSearcher, Entry
  <2> QED BY <2>1, <2>2
<1>4. key # OtherKey
  BY <1>3, OtherKeyAssumption
<1> QED BY <1>1, <1>3, <1>4 DEF key, d, DerivedSpendKey

(* An output with a derivation for its key matches if it was sent to an    *)
(* address the searcher knows.                                             *)
LEMMA FindableMatches ==
    ASSUME NEW s, NEW acc, NEW t, NEW n,
           t.vout[n].via \in Derivations, Derivable(t, n, t.vout[n].via),
           Ours(s, acc, t.vout[n].spend_key) # {}
    PROVE  Match(s, acc, t, n) # {}
<1>1. OursVia(s, acc, t, n, t.vout[n].via) # {}
  BY DEF OursVia, DerivedSpendKey
<1>2. t.vout[n].via = "main" \/ t.vout[n].via = "additional"
  BY DEF Derivations
<1>3. t.vout[n].via = "additional" => n \in DOMAIN t.additional
  BY DEF Derivable
<1>4. n \in DOMAIN t.additional => t.additional # <<>>
  OBVIOUS
<1> QED BY <1>1, <1>2, <1>3, <1>4 DEF Match, NeedsAdditional

(* A larger account owns no less.                                          *)
LEMMA OursMonotone ==
    ASSUME NEW s, NEW a, NEW b, a.subaddresses \subseteq b.subaddresses,
           NEW key, Ours(s, a, key) # {}
    PROVE  Ours(s, b, key) # {}
  BY DEF Ours, Lookup

(* Outputs are typed.                                                      *)
LEMMA OutputType ==
    ASSUME NEW t \in Transaction, NEW n \in DOMAIN t.vout
    PROVE  t.vout[n] \in TxOut
<1>1. t.vout \in Seq(TxOut)
  BY DEF Transaction
<1> QED BY <1>1

(* The record of a find is typed.                                          *)
LEMMA InfoType ==
    ASSUME NEW t \in Transaction, NEW n \in DOMAIN t.vout, NEW e,
           e.key \in Key, e.idx \in Index, NEW used \in Derivations
    PROVE  /\ Amount(t, n) \in Nat
           /\ Info(t, n, e, used) \in InfosOf(t)
<1>1. /\ t.vout[n].pub_key \in PubKeys
      /\ t.vout[n].plain \in Nat /\ t.vout[n].hidden \in Nat
  BY OutputType DEF TxOut
<1>2. Amount(t, n) \in Nat
  BY <1>1 DEF Amount
<1>3. DerivationToSave(t, used) \in Derivations
  BY DEF DerivationToSave, Derivations
<1> QED BY <1>1, <1>2, <1>3 DEF Info, InfosOf

(* What is in a sequence with one element more.                            *)
LEMMA AppendFacts ==
    ASSUME NEW S, NEW s \in Seq(S), NEW x \in S
    PROVE  /\ Append(s, x) \in Seq(S)
           /\ Len(Append(s, x)) = Len(s) + 1
           /\ \A n \in DOMAIN Append(s, x) :
                 \/ n \in DOMAIN s /\ Append(s, x)[n] = s[n]
                 \/ Append(s, x)[n] = x
           /\ \A n \in DOMAIN s :
                 n \in DOMAIN Append(s, x) /\ Append(s, x)[n] = s[n]
           /\ Len(s) + 1 \in DOMAIN Append(s, x)
           /\ Append(s, x)[Len(s) + 1] = x
  OBVIOUS

(* Only one entry of a sound map matches.                                  *)
LEMMA MatchUnique ==
    ASSUME NEW s, IsSearcher(s), NEW acc, GoodAccount(acc), NEW t, NEW n,
           NEW e \in Match(s, acc, t, n), NEW f \in Match(s, acc, t, n)
    PROVE  e = f
<1>1. e.key = f.key /\ e.idx \in Index /\ f.idx \in Index
  BY MatchIsTrue
<1>2. CASE s.pacc
  <2>1. e.idx = f.idx
    BY <1>1, <1>2, MatchIsTrue, SpendKeyAssumption
  <2>2. e \in acc.subaddresses /\ f \in acc.subaddresses
    BY <1>2, MatchIsTrue
  <2>3. acc.subaddresses \subseteq [key : Key, idx : Index]
    BY DEF GoodAccount, Account, Book
  <2> QED BY <1>1, <2>1, <2>2, <2>3
<1>3. CASE ~s.pacc
  <2>1. e \in Ours(s, acc, e.key) /\ f \in Ours(s, acc, f.key)
    BY MatchIsTrue
  <2> QED BY <1>1, <1>3, <2>1 DEF Ours
<1> QED BY <1>2, <1>3

(* A find leaves a sound account that has forgotten nothing.               *)
LEMMA FindExtends ==
    ASSUME NEW s, IsSearcher(s), NEW acc, GoodAccount(acc), NEW t, NEW n,
           NEW e \in Match(s, acc, t, n)
    PROVE  Extends(acc, AccountAfter(s, acc, e))
<1>1. e.idx[1] \in UInt32
  BY MatchIsTrue DEF Index
<1> QED BY <1>1, AfterFoundGood DEF AccountAfter, Extends

-----------------------------------------------------------------------------
(* The rounds of the loop.                                                 *)

SkipsRound(s, x, t, n) ==
    x.threw \/ ~t.vout[n].is_key \/ Match(s, x.account, t, n) = {}

FailsRound(s, x, t, n) ==
    IsRct(t) /\ ~DecodesRingct(t, n, UsedDerivation(s, x.account, t, n))

Found(s, x, t, n, e) ==
    [account |-> AccountAfter(s, x.account, e),
     outputs |-> Append(x.outputs,
                        Info(t, n, e, UsedDerivation(s, x.account, t, n))),
     threw |-> FALSE]

(* The three ends of a round.                                              *)
LEMMA RoundCases ==
    ASSUME NEW s, NEW x, NEW t, NEW n
    PROVE  \/ SkipsRound(s, x, t, n) /\ Round(s, x, t, n) = x
           \/ /\ ~SkipsRound(s, x, t, n) /\ FailsRound(s, x, t, n)
              /\ Round(s, x, t, n) = [x EXCEPT !.threw = TRUE]
           \/ /\ ~SkipsRound(s, x, t, n) /\ ~FailsRound(s, x, t, n)
              /\ \E e \in Match(s, x.account, t, n) :
                    Round(s, x, t, n) = Found(s, x, t, n, e)
<1> DEFINE matches == Match(s, x.account, t, n)
           e == CHOOSE e \in matches : TRUE
<1>1. CASE SkipsRound(s, x, t, n)
  BY <1>1 DEF Round, SkipsRound
<1>2. CASE ~SkipsRound(s, x, t, n) /\ FailsRound(s, x, t, n)
  BY <1>2 DEF Round, SkipsRound, FailsRound
<1>3. CASE ~SkipsRound(s, x, t, n) /\ ~FailsRound(s, x, t, n)
  <2>1. e \in matches
    BY <1>3 DEF SkipsRound
  <2>2. Round(s, x, t, n) = Found(s, x, t, n, e)
    BY <1>3 DEF Round, SkipsRound, FailsRound, Found
  <2> QED BY <1>3, <2>1, <2>2
<1> HIDE DEF matches, e
<1> QED BY <1>1, <1>2, <1>3 DEF matches

(* What the loop works on.                                                 *)
SoFar(t) ==
    [account : {a \in Account : GoodAccount(a)}, outputs : Seq(InfosOf(t)),
     threw : BOOLEAN]

(* A round keeps the account and the records typed.                        *)
LEMMA RoundType ==
    ASSUME NEW s, IsSearcher(s), NEW t \in Transaction,
           NEW n \in DOMAIN t.vout, NEW x \in SoFar(t)
    PROVE  Round(s, x, t, n) \in SoFar(t)
<1>1. GoodAccount(x.account) /\ x.outputs \in Seq(InfosOf(t))
  BY DEF SoFar
<1>2. ASSUME NEW e \in Match(s, x.account, t, n)
      PROVE  Found(s, x, t, n, e) \in SoFar(t)
  <2> DEFINE used == UsedDerivation(s, x.account, t, n)
             info == Info(t, n, e, used)
             acc == AccountAfter(s, x.account, e)
  <2>1. used \in Derivations
    BY DEF UsedDerivation, Derivations
  <2>2. e.key \in Key /\ e.idx \in Index
    BY <1>1, MatchIsTrue
  <2> HIDE DEF used
  <2>3. info \in InfosOf(t)
    BY <2>1, <2>2, InfoType
  <2>4. GoodAccount(acc) /\ acc \in Account
    BY <1>1, FindExtends DEF Extends, GoodAccount
  <2> HIDE DEF info, acc
  <2>5. Append(x.outputs, info) \in Seq(InfosOf(t))
    BY <1>1, <2>3
  <2> QED BY <2>4, <2>5 DEF Found, SoFar, info, acc, used
<1>3. [x EXCEPT !.threw = TRUE] \in SoFar(t)
  BY DEF SoFar
<1> QED BY <1>2, <1>3, RoundCases

(* The recursion unfolds.                                                  *)
Start(a) == [account |-> a, outputs |-> <<>>, threw |-> FALSE]

(* The rounds come one after the other.                                    *)
LEMMA RoundsUnfold ==
    ASSUME NEW s, IsSearcher(s), NEW a, GoodAccount(a), NEW t \in Transaction
    PROVE  /\ Rounds(s, a, t)[0] = Start(a)
           /\ \A n \in 1..Len(t.vout) :
                 Rounds(s, a, t)[n] = Round(s, Rounds(s, a, t)[n - 1], t, n)
<1> DEFINE N == Len(t.vout)
           X == SoFar(t)
           step == [p \in X \X (1..N) |-> Round(s, p[1], t, p[2])]
           rec(h) == [n \in 0..N |->
                         IF n = 0
                         THEN [account |-> a, outputs |-> <<>>, threw |-> FALSE]
                         ELSE Round(s, h[n - 1], t, n)]
<1>1. N \in Nat /\ DOMAIN t.vout = 1..N
  BY DEF Transaction
<1>2. Start(a) \in X
  BY DEF Start, SoFar, GoodAccount
<1>3. step \in [X \X (1..N) -> X]
  <2>1. \A p \in X \X (1..N) : p[1] \in X /\ p[2] \in DOMAIN t.vout
    BY <1>1
  <2> HIDE DEF X, N
  <2> QED BY <2>1, RoundType DEF X
<1>4. \A x \in X, n \in 1..N : step[<<x, n>>] = Round(s, x, t, n)
  OBVIOUS
<1> HIDE DEF N, X, step
<1>5. PICK f \in [0..N -> X] : Recursion(f, N, Start(a), step)
  BY <1>1, <1>2, <1>3, RecursionSolvable
<1>6. f = rec(f)
  <2>1. \A n \in 0..N : n # 0 => n - 1 \in 0..N /\ n \in 1..N
    BY <1>1
  <2>2. \A n \in 0..N :
            n # 0 => step[<<f[n - 1], n>>] = Round(s, f[n - 1], t, n)
    BY <1>4, <2>1
  <2> QED BY <1>5, <2>2 DEF Recursion, Start
<1> DEFINE g == CHOOSE h : h = rec(h)
<1>7. Rounds(s, a, t) = g
  BY DEF Rounds, N
<1>8. g = rec(g)
  <2> HIDE DEF rec
  <2> QED BY <1>6
<1> HIDE DEF g
<1>9. g[0] = Start(a)
  BY <1>1, <1>8 DEF Start
<1>10. ASSUME NEW n \in 1..N
       PROVE  g[n] = Round(s, g[n - 1], t, n)
  <2>1. n \in 0..N /\ n # 0
    BY <1>1
  <2>2. rec(g)[n] = Round(s, g[n - 1], t, n)
    BY <2>1
  <2> HIDE DEF rec
  <2> QED BY <1>8, <2>2
<1> QED BY <1>7, <1>9, <1>10 DEF N

-----------------------------------------------------------------------------
(* What a call has reached after n rounds.                                 *)

(* An output that a searcher who knows acc finds.                          *)
CanFind(s, acc, t, n) ==
    /\ t.vout[n].is_key /\ Derivable(t, n, t.vout[n].via)
    /\ Ours(s, acc, t.vout[n].spend_key) # {}

(* A record that tells the truth about its output.                         *)
Truthful(info, s, acc, t) ==
    /\ info.idx_in_tx \in DOMAIN t.vout
    /\ CanFind(s, acc, t, info.idx_in_tx)
    /\ info.pub_key = t.vout[info.idx_in_tx].pub_key
    /\ info.amount = Amount(t, info.idx_in_tx)
    /\ info.derivation = DerivationToSave(t, t.vout[info.idx_in_tx].via)

AllTruthful(infos, s, acc, t) ==
    \A m \in DOMAIN infos : Truthful(infos[m], s, acc, t)

InOrder(infos) ==
    \A l, m \in DOMAIN infos : l < m => infos[l].idx_in_tx < infos[m].idx_in_tx

FoundUpTo(infos, s, acc, t, n) ==
    \A l \in DOMAIN t.vout :
        l <= n /\ CanFind(s, acc, t, l) =>
            \E m \in DOMAIN infos : infos[m].idx_in_tx = l

Reached(x, s, a, t, n) ==
    /\ x \in SoFar(t)
    /\ Extends(a, x.account)
    /\ AllTruthful(x.outputs, s, x.account, t)
    /\ \A m \in DOMAIN x.outputs : x.outputs[m].idx_in_tx <= n
    /\ InOrder(x.outputs)
    /\ ~x.threw => FoundUpTo(x.outputs, s, a, t, n)

(* A larger account finds no less ...                                      *)
LEMMA CanFindMonotone ==
    ASSUME NEW s, NEW a, NEW b, a.subaddresses \subseteq b.subaddresses,
           NEW t, NEW n, CanFind(s, a, t, n)
    PROVE  CanFind(s, b, t, n)
  BY OursMonotone DEF CanFind

(* ... and what was true of a smaller one is true of it.                   *)
LEMMA TruthfulMonotone ==
    ASSUME NEW s, NEW a, NEW b, a.subaddresses \subseteq b.subaddresses,
           NEW t, NEW infos, AllTruthful(infos, s, a, t)
    PROVE  AllTruthful(infos, s, b, t)
  BY CanFindMonotone DEF AllTruthful, Truthful

(* Before the first round nothing was found.                               *)
LEMMA StartReached ==
    ASSUME NEW s, NEW a, GoodAccount(a), NEW t \in Transaction
    PROVE  Reached(Start(a), s, a, t, 0)
<1>1. /\ Start(a).account = a /\ Start(a).outputs = <<>>
      /\ Start(a) \in SoFar(t)
  BY DEF Start, SoFar, GoodAccount
<1>2. \A l \in DOMAIN t.vout : ~(l <= 0)
  BY DEF Transaction
<1>3. AllTruthful(<<>>, s, a, t) /\ InOrder(<<>>)
      /\ FoundUpTo(<<>>, s, a, t, 0)
  BY <1>2 DEF AllTruthful, InOrder, FoundUpTo
<1> QED BY <1>1, <1>3 DEF Reached, Extends

(* The record of a find tells the truth, by the account after the find.    *)
LEMMA FindIsTruthful ==
    ASSUME NEW s, IsSearcher(s), NEW acc, GoodAccount(acc),
           NEW t \in Transaction, NEW n \in DOMAIN t.vout, t.vout[n].is_key,
           NEW e \in Match(s, acc, t, n), NEW b,
           acc.subaddresses \subseteq b.subaddresses
    PROVE  LET info == Info(t, n, e, UsedDerivation(s, acc, t, n))
           IN  info \in InfosOf(t) /\ info.idx_in_tx = n
               /\ Truthful(info, s, b, t)
<1> DEFINE used == UsedDerivation(s, acc, t, n)
           info == Info(t, n, e, used)
<1>1. /\ e.key \in Key /\ e.idx \in Index /\ t.vout[n].spend_key = e.key
      /\ t.vout[n].via = used /\ Derivable(t, n, t.vout[n].via)
      /\ e \in Ours(s, acc, e.key)
  BY MatchIsTrue
<1>2. used \in Derivations
  BY DEF UsedDerivation, Derivations
<1> HIDE DEF used
<1>3. info \in InfosOf(t)
  BY <1>1, <1>2, InfoType
<1>4. CanFind(s, b, t, n)
  BY <1>1, OursMonotone DEF CanFind
<1>5. /\ info.idx_in_tx = n /\ info.pub_key = t.vout[n].pub_key
      /\ info.amount = Amount(t, n)
      /\ info.derivation = DerivationToSave(t, t.vout[n].via)
  BY <1>1 DEF Info
<1> HIDE DEF info
<1>6. Truthful(info, s, b, t)
  BY <1>4, <1>5 DEF Truthful
<1> QED BY <1>3, <1>5, <1>6 DEF info, used

(* A round reaches one output more.                                        *)
LEMMA RoundReached ==
    ASSUME NEW s, IsSearcher(s), NEW a, NEW t \in Transaction,
           NEW n \in DOMAIN t.vout, NEW x, Reached(x, s, a, t, n - 1)
    PROVE  Reached(Round(s, x, t, n), s, a, t, n)
<1>0. n \in Nat /\ n - 1 \in Int
  BY DEF Transaction
<1>1. /\ x \in SoFar(t) /\ GoodAccount(x.account) /\ Extends(a, x.account)
      /\ x.outputs \in Seq(InfosOf(t)) /\ x.threw \in BOOLEAN
      /\ \A m \in DOMAIN x.outputs : x.outputs[m].idx_in_tx \in Int
  <2>1. x \in SoFar(t) /\ Extends(a, x.account)
    BY DEF Reached
  <2>2. \A info \in InfosOf(t) : info.idx_in_tx \in Int
    BY DEF InfosOf, Transaction
  <2> QED BY <2>1, <2>2 DEF SoFar
<1>2. \A m \in DOMAIN x.outputs : x.outputs[m].idx_in_tx <= n
  BY <1>0, <1>1 DEF Reached
<1>3. CASE SkipsRound(s, x, t, n) /\ Round(s, x, t, n) = x
  <2>1. ~x.threw => FoundUpTo(x.outputs, s, a, t, n)
    <3> SUFFICES ASSUME ~x.threw, NEW l \in DOMAIN t.vout, l <= n,
                        CanFind(s, a, t, l)
                 PROVE  \E m \in DOMAIN x.outputs : x.outputs[m].idx_in_tx = l
      BY DEF FoundUpTo
    <3>1. CASE l = n
      <4>1. t.vout[n].via \in Derivations
        BY OutputType DEF TxOut
      <4>2. CanFind(s, x.account, t, n)
        BY <1>1, <3>1, CanFindMonotone DEF Extends
      <4>3. Match(s, x.account, t, n) # {}
        BY <4>1, <4>2, FindableMatches DEF CanFind
      <4> QED BY <1>3, <4>2, <4>3 DEF SkipsRound, CanFind
    <3>2. CASE l # n
      <4>1. l <= n - 1
        BY <1>0, <3>2 DEF Transaction
      <4> QED BY <4>1 DEF Reached, FoundUpTo
    <3> QED BY <3>1, <3>2
  <2> QED BY <1>2, <1>3, <2>1 DEF Reached
<1>4. CASE Round(s, x, t, n) = [x EXCEPT !.threw = TRUE]
  <2> DEFINE y == [x EXCEPT !.threw = TRUE]
  <2>1. /\ y.account = x.account /\ y.outputs = x.outputs /\ y.threw
        /\ y \in SoFar(t)
    BY <1>1 DEF SoFar
  <2> HIDE DEF y
  <2>2. Reached(y, s, a, t, n)
    BY <1>2, <2>1 DEF Reached
  <2> QED BY <1>4, <2>2 DEF y
<1>5. CASE /\ ~SkipsRound(s, x, t, n)
           /\ \E e \in Match(s, x.account, t, n) :
                 Round(s, x, t, n) = Found(s, x, t, n, e)
  <2>1. PICK e \in Match(s, x.account, t, n) :
            Round(s, x, t, n) = Found(s, x, t, n, e)
    BY <1>5
  <2> DEFINE info == Info(t, n, e, UsedDerivation(s, x.account, t, n))
             y == Found(s, x, t, n, e)
             b == AccountAfter(s, x.account, e)
  <2>2. Extends(x.account, b)
    BY <1>1, FindExtends
  <2>3. /\ info \in InfosOf(t) /\ info.idx_in_tx = n
        /\ Truthful(info, s, b, t)
    BY <1>1, <1>5, <2>2, FindIsTruthful DEF Extends, SkipsRound
  <2>4. y.account = b /\ y.outputs = Append(x.outputs, info) /\ y.threw = FALSE
    BY DEF Found
  <2>5. y \in SoFar(t)
    BY <1>1, <2>1, RoundType
  <2> HIDE DEF info, y, b
  <2>6. Extends(a, y.account)
    BY <1>1, <2>2, <2>4 DEF Extends
  <2>7. /\ \A m \in DOMAIN y.outputs :
              \/ m \in DOMAIN x.outputs /\ y.outputs[m] = x.outputs[m]
              \/ m = Len(x.outputs) + 1 /\ y.outputs[m] = info
        /\ \A m \in DOMAIN x.outputs :
              m \in DOMAIN y.outputs /\ y.outputs[m] = x.outputs[m]
        /\ Len(x.outputs) + 1 \in DOMAIN y.outputs
        /\ y.outputs[Len(x.outputs) + 1] = info
    BY <1>1, <2>3, <2>4
  <2>8. AllTruthful(y.outputs, s, y.account, t)
    <3>1. AllTruthful(x.outputs, s, b, t)
      BY <2>2, TruthfulMonotone DEF Reached, Extends
    <3> QED BY <2>3, <2>4, <2>7, <3>1 DEF AllTruthful
  <2>9. \A m \in DOMAIN y.outputs : y.outputs[m].idx_in_tx <= n
    BY <1>0, <1>2, <2>3, <2>7
  <2>10. InOrder(y.outputs)
    <3> SUFFICES ASSUME NEW l \in DOMAIN y.outputs, NEW m \in DOMAIN y.outputs,
                        l < m
                 PROVE  y.outputs[l].idx_in_tx < y.outputs[m].idx_in_tx
      BY DEF InOrder
    <3>1. DOMAIN x.outputs = 1..Len(x.outputs) /\ Len(x.outputs) \in Nat
      BY <1>1
    <3>2. l \in DOMAIN x.outputs /\ y.outputs[l] = x.outputs[l]
      BY <2>7, <3>1
    <3>3. CASE m \in DOMAIN x.outputs /\ y.outputs[m] = x.outputs[m]
      BY <3>2, <3>3 DEF Reached, InOrder
    <3>4. CASE y.outputs[m] = info
      <4>1. x.outputs[l].idx_in_tx <= n - 1 /\ x.outputs[l].idx_in_tx \in Int
        BY <1>1, <3>2 DEF Reached
      <4> QED BY <1>0, <2>3, <3>2, <3>4, <4>1
    <3> QED BY <2>7, <3>3, <3>4
  <2>11. FoundUpTo(y.outputs, s, a, t, n)
    <3> SUFFICES ASSUME NEW l \in DOMAIN t.vout, l <= n, CanFind(s, a, t, l)
                 PROVE  \E m \in DOMAIN y.outputs : y.outputs[m].idx_in_tx = l
      BY DEF FoundUpTo
    <3>1. CASE l = n
      BY <2>3, <2>7, <3>1
    <3>2. CASE l # n
      <4>1. l <= n - 1
        BY <1>0, <3>2 DEF Transaction
      <4>2. ~x.threw
        BY <1>5 DEF SkipsRound
      <4>3. \E m \in DOMAIN x.outputs : x.outputs[m].idx_in_tx = l
        BY <4>1, <4>2 DEF Reached, FoundUpTo
      <4> QED BY <2>7, <4>3
    <3> QED BY <3>1, <3>2
  <2>12. Reached(y, s, a, t, n)
    BY <2>5, <2>6, <2>8, <2>9, <2>10, <2>11 DEF Reached
  <2> QED BY <2>1, <2>12 DEF y
<1> QED BY <1>3, <1>4, <1>5, RoundCases

(* So n rounds reach n outputs.                                            *)
LEMMA RoundsReached ==
    ASSUME NEW s, IsSearcher(s), NEW a, GoodAccount(a), NEW t \in Transaction
    PROVE  \A n \in 0..Len(t.vout) : Reached(Rounds(s, a, t)[n], s, a, t, n)
<1> DEFINE rounds == Rounds(s, a, t)
           N == Len(t.vout)
           S == {n \in Nat : n <= N => Reached(rounds[n], s, a, t, n)}
<1>1. N \in Nat /\ DOMAIN t.vout = 1..N
  BY DEF Transaction
<1>2. rounds[0] = Start(a)
      /\ \A n \in 1..N : rounds[n] = Round(s, rounds[n - 1], t, n)
  BY RoundsUnfold
<1> HIDE DEF rounds, N
<1>3. 0 \in S
  BY <1>2, StartReached
<1>4. ASSUME NEW n \in Nat, n \in S
      PROVE  n + 1 \in S
  <2> SUFFICES ASSUME n + 1 <= N
               PROVE  Reached(rounds[n + 1], s, a, t, n + 1)
    OBVIOUS
  <2> DEFINE l == n + 1
  <2>1. n <= N /\ l \in 1..N /\ l - 1 = n
    BY <1>1
  <2>2. Reached(rounds[n], s, a, t, n)
    BY <1>4, <2>1
  <2> HIDE DEF l
  <2>3. rounds[l] = Round(s, rounds[n], t, l)
    BY <1>2, <2>1
  <2>4. Reached(rounds[l], s, a, t, l)
    BY <1>1, <2>1, <2>2, <2>3, RoundReached
  <2> QED BY <2>4 DEF l
<1>5. \A n \in Nat : n \in S
  <2> HIDE DEF S
  <2> QED BY <1>3, <1>4, Induction
<1>6. \A n \in 0..N : n \in Nat /\ n <= N
  BY <1>1
<1> QED BY <1>5, <1>6 DEF rounds, N

(* The whole call, for every account, transaction and searcher: it leaves  *)
(* a sound account that has forgotten nothing; its records are of          *)
(* different outputs, in their order, and tell the truth; and unless it    *)
(* threw, it found every output of an address that was known when it began *)
(* (UniversalIdentifier.cpp:52-309).                                       *)
THEOREM IdentifyOutputsIsSound ==
    ASSUME NEW s, IsSearcher(s), NEW a, GoodAccount(a), NEW t \in Transaction
    PROVE  LET result == IdentifyOutputs(s, a, t)
           IN  /\ Extends(a, result.account)
               /\ result.outputs \in Seq(InfosOf(t))
               /\ result.threw \in BOOLEAN
               /\ AllTruthful(result.outputs, s, result.account, t)
               /\ InOrder(result.outputs)
               /\ ~result.threw =>
                     \A n \in DOMAIN t.vout : CanFind(s, a, t, n) =>
                         \E m \in DOMAIN result.outputs :
                             result.outputs[m].idx_in_tx = n
<1> DEFINE result == IdentifyOutputs(s, a, t)
           N == Len(t.vout)
<1>1. N \in 0..Len(t.vout) /\ \A n \in DOMAIN t.vout : n <= N
  BY DEF Transaction
<1>2. Reached(result, s, a, t, N)
  BY <1>1, RoundsReached DEF IdentifyOutputs
<1> HIDE DEF result, N
<1>3. result.outputs \in Seq(InfosOf(t)) /\ result.threw \in BOOLEAN
  BY <1>2 DEF Reached, SoFar
<1>4. ~result.threw =>
         \A n \in DOMAIN t.vout : CanFind(s, a, t, n) =>
             \E m \in DOMAIN result.outputs : result.outputs[m].idx_in_tx = n
  BY <1>1, <1>2 DEF Reached, FoundUpTo
<1> QED BY <1>2, <1>3, <1>4 DEF Reached, result

(* An exception ends the loop.                                             *)
LEMMA RoundsStop ==
    ASSUME NEW s, IsSearcher(s), NEW a, GoodAccount(a), NEW t \in Transaction,
           NEW m \in 0..Len(t.vout), Rounds(s, a, t)[m].threw
    PROVE  IdentifyOutputs(s, a, t) = Rounds(s, a, t)[m]
<1> DEFINE rounds == Rounds(s, a, t)
           N == Len(t.vout)
           S == {n \in Nat : m + n <= N => rounds[m + n] = rounds[m]}
<1>1. N \in Nat /\ m \in 0..N /\ rounds[m].threw
  BY DEF Transaction
<1>2. \A n \in 1..N : rounds[n] = Round(s, rounds[n - 1], t, n)
  BY RoundsUnfold
<1> HIDE DEF rounds, N
<1>3. 0 \in S
  BY <1>1
<1>4. ASSUME NEW n \in Nat, n \in S
      PROVE  n + 1 \in S
  <2> SUFFICES ASSUME m + (n + 1) <= N
               PROVE  rounds[m + (n + 1)] = rounds[m]
    OBVIOUS
  <2> DEFINE l == m + (n + 1)
  <2>1. l \in 1..N /\ l - 1 = m + n /\ m + n <= N
    BY <1>1
  <2>2. rounds[l - 1] = rounds[m]
    BY <1>4, <2>1
  <2>3. SkipsRound(s, rounds[l - 1], t, l)
    BY <1>1, <2>2 DEF SkipsRound
  <2> HIDE DEF l
  <2>4. rounds[l] = rounds[l - 1]
    BY <1>2, <2>1, <2>3, RoundCases
  <2> QED BY <2>2, <2>4 DEF l
<1>5. N - m \in Nat /\ m + (N - m) = N
  BY <1>1
<1>6. N - m \in S
  <2> HIDE DEF S
  <2> QED BY <1>3, <1>4, <1>5, Induction
<1>7. rounds[N] = rounds[m]
  BY <1>1, <1>5, <1>6
<1> QED BY <1>7 DEF IdentifyOutputs, rounds, N
=============================================================================
