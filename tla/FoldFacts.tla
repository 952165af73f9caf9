------------------------------ MODULE FoldFacts ------------------------------
(***************************************************************************)
(* What a loop keeps. The loops of the models are the folds of the         *)
(* community modules, all of them MapThenFoldSet: over a finite set, in an *)
(* order that Pick gives by naming the last element of what is left. Op is *)
(* the body of the loop: from the value so far and the next element it     *)
(* makes the next value. Holds is what is claimed of the value once the    *)
(* elements of a set were visited. All three take a parameter, for what    *)
(* the loop does not change.                                               *)
(*                                                                         *)
(* A module that proves something about a loop instantiates this one with  *)
(* the body, the order and the claim.                                      *)
(***************************************************************************)
EXTENDS Integers, Folds, FiniteSetTheorems, TLAPS

CONSTANTS Op(_, _, _), Pick(_, _), Holds(_, _, _)

Loop(p, b, S) == MapThenFoldSet(LAMBDA e, x : Op(p, x, e), b, LAMBDA e : e,
                                LAMBDA T : Pick(p, T), S)

Picks(p, S) == \A T \in SUBSET S : T # {} => Pick(p, T) \in T

-----------------------------------------------------------------------------
(* The recursion of MapThenFoldSet has a solution                           *)

\* A set of naturals that is not empty has a least element: the induction the
\* proofs below use.
LEMMA LeastElement ==
    ASSUME NEW T \in SUBSET Nat, T # {}
    PROVE  \E x \in T : \A y \in T : x <= y
<1>1. PICK x \in T : \A y \in T : ~(<<y, x>> \in OpToRel(<, Nat))
  BY NatLessThanWellFounded, WFMin
<1>2. \A y \in T : ~(y < x)
  BY <1>1 DEF OpToRel
<1> QED
  BY <1>2

\* A finite set of integers that is not empty has a greatest element.
LEMMA GreatestElement ==
    ASSUME NEW T \in SUBSET Int, IsFiniteSet(T), T # {}
    PROVE  \E x \in T : \A y \in T : y <= x
<1> DEFINE above(x) == {y \in T : y > x}
           sizes == {Cardinality(above(x)) : x \in T}
<1>1. \A x \in T : IsFiniteSet(above(x)) /\ Cardinality(above(x)) \in Nat
  BY FS_Subset, FS_CardinalityType
<1>2. sizes \in SUBSET Nat /\ sizes # {}
  BY <1>1
<1>3. PICK n \in sizes : \A k \in sizes : n <= k
  BY <1>2, LeastElement
<1>4. PICK x \in T : n = Cardinality(above(x))
  OBVIOUS
<1>5. ASSUME NEW y \in T, y > x
      PROVE  FALSE
  <2>1. x \in Int /\ y \in Int
    OBVIOUS
  <2>2. \A z \in above(y) : z \in above(x)
    BY <1>5, <2>1
  <2>3. y \in above(x) /\ y \notin above(y)
    BY <1>5, <2>1
  <2>4. Cardinality(above(y)) < Cardinality(above(x))
    <3> HIDE DEF above
    <3>1. above(y) \subseteq above(x) /\ above(y) # above(x)
      BY <2>2, <2>3
    <3>2. Cardinality(above(y)) <= Cardinality(above(x))
      BY <1>1, <3>1, FS_Subset
    <3>3. Cardinality(above(y)) # Cardinality(above(x))
      BY <1>1, <3>1, FS_Subset
    <3> QED
      BY <1>1, <3>2, <3>3
  <2>5. Cardinality(above(y)) \in sizes
    OBVIOUS
  <2>6. n <= Cardinality(above(y))
    BY <1>3, <2>5
  <2> HIDE DEF above, sizes
  <2> QED
    BY <1>1, <1>4, <2>4, <2>6
<1>6. \A y \in T : y <= x
  BY <1>5
<1> QED
  BY <1>6

UpTo(S, n) == {T \in SUBSET S : Cardinality(T) <= n}

\* The function MapThenFoldSet chooses.
Solves(f, p, b, S) ==
    f = [T \in SUBSET S |-> IF T = {} THEN b ELSE Op(p, f[T \ {Pick(p, T)}], Pick(p, T))]

\* The function the fold computes, over the subsets with at most n elements.
Computes(f, p, b, S, n) ==
    f = [T \in UpTo(S, n) |->
            IF T = {} THEN b ELSE Op(p, f[T \ {Pick(p, T)}], Pick(p, T))]

\* Taking an element away from a set takes one away from its size.
LEMMA OneLess ==
    ASSUME NEW S, IsFiniteSet(S), NEW n \in Nat, NEW T \in UpTo(S, n), NEW e \in T
    PROVE  n > 0 /\ T \ {e} \in UpTo(S, n - 1)
<1>1. IsFiniteSet(T)
  BY FS_Subset DEF UpTo
<1>2. Cardinality(T \ {e}) = Cardinality(T) - 1 /\ Cardinality(T) \in Nat /\ Cardinality(T \ {e}) \in Nat
  BY <1>1, FS_RemoveElement, FS_CardinalityType
<1> QED
  BY <1>2 DEF UpTo

\* What is computed for the sets of fewer than n elements is computed for those of
\* n: the fold of such a set asks only for that of a smaller one.
LEMMA Extended ==
    ASSUME NEW p, NEW b, NEW S, IsFiniteSet(S), Picks(p, S), NEW n \in Nat, n > 0,
           NEW f, Computes(f, p, b, S, n - 1)
    PROVE  \E g : Computes(g, p, b, S, n)
<1> DEFINE g == [T \in UpTo(S, n) |->
                    IF T = {} THEN b ELSE Op(p, f[T \ {Pick(p, T)}], Pick(p, T))]
           h == [T \in UpTo(S, n) |->
                    IF T = {} THEN b ELSE Op(p, g[T \ {Pick(p, T)}], Pick(p, T))]
<1>1. ASSUME NEW T \in UpTo(S, n - 1)
      PROVE  g[T] = f[T]
  <2>1. T \in UpTo(S, n)
    <3>1. Cardinality(T) \in Nat
      BY FS_Subset, FS_CardinalityType DEF UpTo
    <3> QED
      BY <3>1 DEF UpTo
  <2> QED
    BY <2>1 DEF Computes
<1>2. ASSUME NEW T \in UpTo(S, n)
      PROVE  g[T] = h[T]
  <2>1. CASE T = {}
    BY <2>1
  <2>2. CASE T # {}
    <3>1. Pick(p, T) \in T
      BY <2>2 DEF Picks, UpTo
    <3>2. g[T \ {Pick(p, T)}] = f[T \ {Pick(p, T)}]
      BY <1>1, <3>1, OneLess
    <3> QED
      BY <2>2, <3>2
  <2> QED
    BY <2>1, <2>2
<1>3. g = h
  BY <1>2
<1>4. Computes(g, p, b, S, n)
  BY <1>3 DEF Computes
<1> QED
  BY <1>4

\* So it is computed for sets of every size.
LEMMA Computable ==
    ASSUME NEW p, NEW b, NEW S, IsFiniteSet(S), Picks(p, S), NEW n \in Nat
    PROVE  \E f : Computes(f, p, b, S, n)
<1> DEFINE stuck == {i \in Nat : ~ \E f : Computes(f, p, b, S, i)}
<1> SUFFICES ASSUME stuck # {} PROVE FALSE
  OBVIOUS
<1>1. PICK i \in stuck : \A j \in stuck : i <= j
  BY LeastElement
<1>2. i # 0
  <2>1. \A T \in UpTo(S, 0) : T = {}
    <3>1. ASSUME NEW T \in UpTo(S, 0), T # {} PROVE FALSE
      <4>1. PICK e \in T : TRUE
        BY <3>1
      <4>2. 0 > 0
        BY <4>1, OneLess
      <4> QED
        BY <4>2
    <3> QED
      BY <3>1
  <2>2. Computes([T \in UpTo(S, 0) |-> b], p, b, S, 0)
    BY <2>1 DEF Computes
  <2> QED
    BY <2>2
<1>3. \E f : Computes(f, p, b, S, i - 1)
  BY <1>1, <1>2
<1>4. \E f : Computes(f, p, b, S, i)
  BY <1>2, <1>3, Extended
<1> QED
  BY <1>4

\* The equations of the fold have a solution, and the loop is what one of them says.
LEMMA LoopComputes ==
    ASSUME NEW p, NEW b, NEW S, IsFiniteSet(S), Picks(p, S)
    PROVE  \E f : Solves(f, p, b, S) /\ Loop(p, b, S) = f[S]
<1>1. UpTo(S, Cardinality(S)) = SUBSET S
  BY FS_Subset DEF UpTo
<1>2. Cardinality(S) \in Nat
  BY FS_CardinalityType
<1>3. PICK g : Computes(g, p, b, S, Cardinality(S))
  BY <1>2, Computable
<1>4. Solves(g, p, b, S)
  BY <1>1, <1>3 DEF Computes, Solves
<1>5. Loop(p, b, S) = (CHOOSE f : Solves(f, p, b, S))[S]
  BY DEF Loop, MapThenFoldSet, Solves
<1>6. Solves(CHOOSE f : Solves(f, p, b, S), p, b, S)
  BY <1>4
<1> QED
  BY <1>5, <1>6

-----------------------------------------------------------------------------
\* What holds of the value a loop starts with, and is kept by its body for every
\* element it visits, holds of the value it ends with.
LEMMA LoopKeeps ==
    ASSUME NEW p, NEW b, NEW S, IsFiniteSet(S), Picks(p, S),
           Holds(p, {}, b),
           \A T \in SUBSET S : \A x : T # {} /\ Holds(p, T \ {Pick(p, T)}, x)
                                        => Holds(p, T, Op(p, x, Pick(p, T)))
    PROVE  Holds(p, S, Loop(p, b, S))
<1>1. PICK f : Solves(f, p, b, S) /\ Loop(p, b, S) = f[S]
  BY LoopComputes
<1> DEFINE lost == {T \in SUBSET S : ~ Holds(p, T, f[T])}
           sizes == {Cardinality(T) : T \in lost}
<1> SUFFICES ASSUME lost # {} PROVE FALSE
  BY <1>1
<1>2. \A T \in SUBSET S : IsFiniteSet(T) /\ Cardinality(T) \in Nat
  BY FS_Subset, FS_CardinalityType
<1>3. sizes \in SUBSET Nat /\ sizes # {}
  BY <1>2
<1>4. PICK n \in sizes : \A k \in sizes : n <= k
  BY <1>3, LeastElement
<1>5. PICK T \in lost : n = Cardinality(T)
  OBVIOUS
<1>6. T # {}
  BY <1>1 DEF Solves
<1> DEFINE e == Pick(p, T)
           rest == T \ {e}
<1>7. e \in T
  BY <1>6 DEF Picks
<1>8. Cardinality(rest) < n /\ rest \in SUBSET S
  BY <1>2, <1>5, <1>7, FS_RemoveElement
<1>9. Holds(p, rest, f[rest])
  <2>1. Cardinality(rest) \in Nat /\ n \in Nat
    BY <1>2, <1>3, <1>8
  <2>2. SUFFICES ASSUME rest \in lost PROVE FALSE
    BY <1>8
  <2>3. Cardinality(rest) \in sizes
    BY <2>2
  <2>4. n <= Cardinality(rest)
    BY <1>4, <2>3
  <2> HIDE DEF rest, sizes, lost
  <2> QED
    BY <1>8, <2>1, <2>4
<1>10. f[T] = Op(p, f[rest], e)
  BY <1>1, <1>6 DEF Solves
<1> QED
  BY <1>6, <1>9, <1>10
-----------------------------------------------------------------------------
(* What a loop computes, one element at a time                              *)

\* Two solutions agree on the sets that both are about.
LEMMA SolutionsAgree ==
    ASSUME NEW p, NEW b, NEW S, IsFiniteSet(S), Picks(p, S), NEW f, Solves(f, p, b, S),
           NEW T \in SUBSET S, NEW g, Solves(g, p, b, T)
    PROVE  \A U \in SUBSET T : f[U] = g[U]
<1> DEFINE apart == {U \in SUBSET T : f[U] # g[U]}
           sizes == {Cardinality(U) : U \in apart}
<1> SUFFICES ASSUME apart # {} PROVE FALSE
  OBVIOUS
<1>1. \A U \in SUBSET T : IsFiniteSet(U) /\ Cardinality(U) \in Nat
  BY FS_Subset, FS_CardinalityType
<1>2. sizes \in SUBSET Nat /\ sizes # {}
  BY <1>1
<1>3. PICK n \in sizes : \A k \in sizes : n <= k
  BY <1>2, LeastElement
<1>4. PICK U \in apart : n = Cardinality(U)
  OBVIOUS
<1> DEFINE e == Pick(p, U)
           rest == U \ {e}
<1>5. /\ f[U] = IF U = {} THEN b ELSE Op(p, f[rest], e)
      /\ g[U] = IF U = {} THEN b ELSE Op(p, g[rest], e)
  BY DEF Solves
<1>6. U # {} /\ f[rest] # g[rest]
  BY <1>5
<1>7. e \in U
  BY <1>6 DEF Picks
<1>8. Cardinality(rest) \in Nat /\ Cardinality(rest) < n /\ n \in Nat
  BY <1>1, <1>4, <1>7, FS_RemoveElement
<1>9. Cardinality(rest) \in sizes
  BY <1>6
<1>10. n <= Cardinality(rest)
  BY <1>3, <1>9
<1> HIDE DEF rest, sizes
<1> QED
  BY <1>8, <1>10

\* A loop over nothing is what it starts with, and any other is the body applied to
\* the loop over all but its last element: the equation of MapThenFoldSet.
LEMMA LoopUnfolds ==
    ASSUME NEW p, NEW b, NEW S, IsFiniteSet(S), Picks(p, S)
    PROVE  Loop(p, b, S) = IF S = {} THEN b
                           ELSE Op(p, Loop(p, b, S \ {Pick(p, S)}), Pick(p, S))
<1> DEFINE rest == S \ {Pick(p, S)}
<1>1. PICK f : Solves(f, p, b, S) /\ Loop(p, b, S) = f[S]
  BY LoopComputes
<1>2. IsFiniteSet(rest) /\ rest \in SUBSET S /\ Picks(p, rest)
  BY FS_Subset DEF Picks
<1> HIDE DEF rest
<1>3. PICK g : Solves(g, p, b, rest) /\ Loop(p, b, rest) = g[rest]
  BY <1>2, LoopComputes
<1>4. f[rest] = g[rest]
  BY <1>1, <1>2, <1>3, SolutionsAgree
<1>5. f[S] = IF S = {} THEN b ELSE Op(p, f[rest], Pick(p, S))
  BY <1>1 DEF Solves, rest
<1> QED
  BY <1>1, <1>3, <1>4, <1>5 DEF rest

\* Two loops with the same bodies and the same order are the same.
LEMMA LoopsAgree ==
    ASSUME NEW p, NEW q, NEW b, NEW S, IsFiniteSet(S), Picks(p, S),
           \A T \in SUBSET S : Pick(q, T) = Pick(p, T),
           \A e \in S : \A x : Op(q, x, e) = Op(p, x, e)
    PROVE  Loop(q, b, S) = Loop(p, b, S)
<1>1. Picks(q, S)
  BY DEF Picks
<1>2. PICK f : Solves(f, p, b, S) /\ Loop(p, b, S) = f[S]
  BY LoopComputes
<1>3. PICK g : Solves(g, q, b, S) /\ Loop(q, b, S) = g[S]
  BY <1>1, LoopComputes
<1> DEFINE body == [T \in SUBSET S |-> IF T = {} THEN b ELSE Op(p, f[T \ {Pick(p, T)}], Pick(p, T))]
           same == [T \in SUBSET S |-> IF T = {} THEN b ELSE Op(q, f[T \ {Pick(q, T)}], Pick(q, T))]
<1>4. ASSUME NEW T \in SUBSET S
      PROVE  body[T] = same[T]
  <2>1. CASE T = {}
    BY <2>1
  <2>2. CASE T # {}
    BY <2>2 DEF Picks
  <2> QED
    BY <2>1, <2>2
<1>5. body = same
  BY <1>4
<1>6. Solves(f, q, b, S)
  BY <1>2, <1>5 DEF Solves
<1>7. \A U \in SUBSET S : f[U] = g[U]
  BY <1>1, <1>3, <1>6, SolutionsAgree
<1> QED
  BY <1>2, <1>3, <1>7

-----------------------------------------------------------------------------
(* Sums                                                                     *)

\* A loop that adds: what it adds for an element does not depend on the sum.
Adds(p, S) == \A e \in S : /\ Op(p, 0, e) \in Int
                           /\ \A n \in Int : Op(p, n, e) = n + Op(p, 0, e)

\* A sum of integers is one.
LEMMA SumIsInt ==
    ASSUME NEW p, NEW S, IsFiniteSet(S), Picks(p, S), Adds(p, S)
    PROVE  Loop(p, 0, S) \in Int
<1> DEFINE odd == {T \in SUBSET S : Loop(p, 0, T) \notin Int}
           sizes == {Cardinality(T) : T \in odd}
<1> SUFFICES ASSUME odd # {} PROVE FALSE
  OBVIOUS
<1>1. \A T \in SUBSET S : IsFiniteSet(T) /\ Cardinality(T) \in Nat /\ Picks(p, T)
  BY FS_Subset, FS_CardinalityType DEF Picks
<1>2. sizes \in SUBSET Nat /\ sizes # {}
  BY <1>1
<1>3. PICK n \in sizes : \A k \in sizes : n <= k
  BY <1>2, LeastElement
<1>4. PICK T \in odd : n = Cardinality(T)
  OBVIOUS
<1> DEFINE e == Pick(p, T)
           rest == T \ {e}
<1>5. Loop(p, 0, T) = IF T = {} THEN 0 ELSE Op(p, Loop(p, 0, rest), e)
  BY <1>1, LoopUnfolds
<1>6. T # {}
  BY <1>5
<1>7. e \in T
  BY <1>1, <1>6 DEF Picks
<1>8. Loop(p, 0, rest) \notin Int
  BY <1>5, <1>6, <1>7 DEF Adds
<1>9. Cardinality(rest) \in Nat /\ Cardinality(rest) < n /\ n \in Nat
  BY <1>1, <1>4, <1>7, FS_RemoveElement
<1>10. Cardinality(rest) \in sizes
  BY <1>8
<1>11. n <= Cardinality(rest)
  BY <1>3, <1>10
<1> HIDE DEF rest, sizes
<1> QED
  BY <1>9, <1>11

\* Any element can be taken out of a sum first, whatever the order of the loop.
LEMMA SumTakesOut ==
    ASSUME NEW p, NEW S, IsFiniteSet(S), Picks(p, S), Adds(p, S), NEW d \in S
    PROVE  Loop(p, 0, S) = Loop(p, 0, S \ {d}) + Op(p, 0, d)
<1> DEFINE Total(T) == Loop(p, 0, T)
           value(c) == Op(p, 0, c)
           odd == {T \in SUBSET S : \E c \in T : Total(T) # Total(T \ {c}) + value(c)}
           sizes == {Cardinality(T) : T \in odd}
<1> SUFFICES ASSUME odd # {} PROVE FALSE
  OBVIOUS
<1>1. \A T \in SUBSET S : /\ IsFiniteSet(T) /\ Cardinality(T) \in Nat
                          /\ Picks(p, T) /\ Adds(p, T)
  BY FS_Subset, FS_CardinalityType DEF Picks, Adds
<1>2. sizes \in SUBSET Nat /\ sizes # {}
  BY <1>1
<1>3. PICK n \in sizes : \A k \in sizes : n <= k
  BY <1>2, LeastElement
<1>4. PICK T \in odd : n = Cardinality(T)
  OBVIOUS
<1>5. PICK c \in T : Total(T) # Total(T \ {c}) + value(c)
  OBVIOUS
<1> DEFINE e == Pick(p, T)
<1>6. e \in T
  BY <1>1 DEF Picks
<1>7. \A U \in SUBSET S : Total(U) \in Int
  BY <1>1, SumIsInt
<1>8. \A a \in S : value(a) \in Int /\ \A k \in Int : Op(p, k, a) = k + value(a)
  BY DEF Adds
<1>9. Total(T) = Total(T \ {e}) + value(e)
  <2>1. Total(T) = Op(p, Total(T \ {e}), e)
    BY <1>1, LoopUnfolds
  <2>2. Total(T \ {e}) \in Int
    BY <1>7
  <2> HIDE DEF Total, value, e
  <2> QED
    BY <1>6, <1>8, <2>1, <2>2
<1>10. ASSUME NEW a \in T, NEW g \in T \ {a}
       PROVE  Total(T \ {a}) = Total((T \ {a}) \ {g}) + value(g)
  <2>1. Cardinality(T \ {a}) \in Nat /\ Cardinality(T \ {a}) < n /\ n \in Nat
    BY <1>1, <1>4, FS_RemoveElement
  <2>2. SUFFICES ASSUME T \ {a} \in odd PROVE FALSE
    OBVIOUS
  <2>3. Cardinality(T \ {a}) \in sizes
    BY <2>2
  <2>4. n <= Cardinality(T \ {a})
    BY <1>3, <2>3
  <2> HIDE DEF sizes
  <2> QED
    BY <2>1, <2>4
<1> HIDE DEF Total, value, odd, sizes, e
<1>11. c # e
  BY <1>5, <1>9
<1>12. Total(T \ {e}) = Total((T \ {e}) \ {c}) + value(c)
  BY <1>6, <1>10, <1>11
<1>13. Total(T \ {c}) = Total((T \ {c}) \ {e}) + value(e)
  BY <1>6, <1>10, <1>11
<1>14. (T \ {e}) \ {c} = (T \ {c}) \ {e}
  OBVIOUS
<1> DEFINE r == Total((T \ {c}) \ {e})
<1>15. r \in Int /\ value(c) \in Int /\ value(e) \in Int
  BY <1>6, <1>7, <1>8 DEF odd
<1>16. Total(T \ {e}) = r + value(c)
  BY <1>12, <1>14
<1>17. Total(T) = (r + value(c)) + value(e)
  BY <1>9, <1>16
<1>18. Total(T \ {c}) + value(c) = (r + value(e)) + value(c)
  BY <1>13
<1> HIDE DEF r
<1>19. (r + value(c)) + value(e) = (r + value(e)) + value(c)
  BY <1>15
<1> QED
  BY <1>5, <1>17, <1>18, <1>19
=============================================================================
