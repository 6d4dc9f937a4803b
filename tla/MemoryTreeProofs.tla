-------------------------- MODULE MemoryTreeProofs --------------------------
(***************************************************************************)
(* Proofs about MemoryTree, for any paths, contents, modes, quota and      *)
(* trees to start from.                                                    *)
(*                                                                         *)
(* What each planner plans is shown to work: its steps run to the end,     *)
(* whatever they are made of, leave every node under directories, add no   *)
(* more than the plan announced and stay within what the request names.    *)
(***************************************************************************)
EXTENDS MemoryTree, Integers, SequenceTheorems, FiniteSetTheorems, WellFoundedInduction, TLAPS

CONSTANTS
  Names,  \* of which paths are made
  Byte    \* what a file holds a sequence of

-----------------------------------------------------------------------------
(* Paths.                                                                  *)

Paths == Seq(Names)

\* A path has a length, and what it is made of.
LEMMA PathIs ==
  ASSUME NEW p \in Paths
  PROVE  Len(p) \in Nat /\ DOMAIN p = 1..Len(p) /\ \A i \in 1..Len(p) : p[i] \in Names
  BY ElementOfSeq DEF Paths

\* The root is the only path without names.
LEMMA RootPath == <<>> \in Paths /\ Len(<<>>) = 0 /\ \A p \in Paths : Len(p) = 0 <=> p = <<>>
<1>1. <<>> \in Paths /\ Len(<<>>) = 0
  BY DEF Paths
<1>2. \A p \in Paths : Len(p) = 0 <=> p = <<>>
  BY EmptySeq DEF Paths
<1>3. QED
  BY <1>1, <1>2

\* Paths of the same names are the same.
LEMMA SamePath ==
  ASSUME NEW p \in Paths, NEW q \in Paths, Len(p) = Len(q), \A i \in 1..Len(p) : p[i] = q[i]
  PROVE  p = q
  BY SeqEqual DEF Paths

\* The first names of a path.
LEMMA CutIs ==
  ASSUME NEW p \in Paths, NEW n \in Nat, n <= Len(p)
  PROVE  /\ SubSeq(p, 1, n) \in Paths /\ Len(SubSeq(p, 1, n)) = n
         /\ \A i \in 1..n : SubSeq(p, 1, n)[i] = p[i]
<1>1. Len(p) \in Nat /\ \A i \in 1..Len(p) : p[i] \in Names
  BY PathIs
<1>2. \A i \in 1..n : p[i] \in Names
  <2>1. \A i \in 1..n : i \in 1..Len(p)
    BY <1>1
  <2>2. QED
    BY <1>1, <2>1
<1>3. 1 \in Int /\ n \in Int
  OBVIOUS
<1>4. /\ SubSeq(p, 1, n) \in Paths
      /\ Len(SubSeq(p, 1, n)) = IF 1 <= n THEN n - 1 + 1 ELSE 0
      /\ \A i \in 1..n - 1 + 1 : SubSeq(p, 1, n)[i] = p[1 + i - 1]
  BY <1>2, <1>3, SubSeqProperties DEF Paths
<1>5. Len(SubSeq(p, 1, n)) = n
  BY <1>4
<1>6. \A i \in 1..n : SubSeq(p, 1, n)[i] = p[i]
  <2>1. ASSUME NEW i \in 1..n PROVE SubSeq(p, 1, n)[i] = p[i]
    <3>1. i \in 1..n - 1 + 1 /\ 1 + i - 1 = i
      OBVIOUS
    <3>2. QED
      BY <1>4, <3>1
  <2>2. QED
    BY <2>1
<1>7. QED
  BY <1>4, <1>5, <1>6

\* The rest of a path.
LEMMA RestIs ==
  ASSUME NEW p \in Paths, NEW n \in Nat, n <= Len(p)
  PROVE  /\ SubSeq(p, n + 1, Len(p)) \in Paths /\ Len(SubSeq(p, n + 1, Len(p))) = Len(p) - n
         /\ \A i \in 1..(Len(p) - n) : SubSeq(p, n + 1, Len(p))[i] = p[n + i]
<1>1. PICK m : m = Len(p)
  OBVIOUS
<1>2. m \in Nat /\ n <= m /\ \A i \in 1..m : p[i] \in Names
  BY <1>1, PathIs
<1>3. \A i \in (n + 1)..m : p[i] \in Names
  <2>1. \A i \in (n + 1)..m : i \in 1..m
    BY <1>2
  <2>2. QED
    BY <1>2, <2>1
<1>4. n + 1 \in Int /\ m \in Int
  BY <1>2
<1>5. /\ SubSeq(p, n + 1, m) \in Paths
      /\ Len(SubSeq(p, n + 1, m)) = IF n + 1 <= m THEN m - (n + 1) + 1 ELSE 0
      /\ \A i \in 1..m - (n + 1) + 1 : SubSeq(p, n + 1, m)[i] = p[(n + 1) + i - 1]
  BY <1>3, <1>4, SubSeqProperties DEF Paths
<1>6. Len(SubSeq(p, n + 1, m)) = m - n
  BY <1>2, <1>5
<1>7. \A i \in 1..(m - n) : SubSeq(p, n + 1, m)[i] = p[n + i]
  <2>1. ASSUME NEW i \in 1..(m - n) PROVE SubSeq(p, n + 1, m)[i] = p[n + i]
    <3>1. i \in 1..m - (n + 1) + 1 /\ (n + 1) + i - 1 = n + i
      BY <1>2
    <3>2. QED
      BY <1>5, <3>1
  <2>2. QED
    BY <2>1
<1>8. QED
  BY <1>1, <1>5, <1>6, <1>7

\* What is below a path begins with its names.
LEMMA DescendsIs ==
  ASSUME NEW p \in Paths, NEW q \in Paths
  PROVE  Descends(p, q) <=> Len(q) < Len(p) /\ \A i \in 1..Len(q) : p[i] = q[i]
<1>1. Len(p) \in Nat /\ Len(q) \in Nat
  BY PathIs
<1>2. ASSUME Len(q) < Len(p)
      PROVE  SubSeq(p, 1, Len(q)) = q <=> \A i \in 1..Len(q) : p[i] = q[i]
  <2>1. Len(q) <= Len(p)
    BY <1>1, <1>2
  <2>2. /\ SubSeq(p, 1, Len(q)) \in Paths /\ Len(SubSeq(p, 1, Len(q))) = Len(q)
        /\ \A i \in 1..Len(q) : SubSeq(p, 1, Len(q))[i] = p[i]
    BY <1>1, <2>1, CutIs
  <2>3. QED
    BY <2>2, SamePath
<1>3. QED
  BY <1>2 DEF Descends

\* The directory a path is in.
LEMMA ParentIs ==
  ASSUME NEW p \in Paths, p # <<>>
  PROVE  /\ Len(p) \in Nat \ {0} /\ Parent(p) \in Paths /\ Len(Parent(p)) = Len(p) - 1
         /\ \A i \in 1..(Len(p) - 1) : Parent(p)[i] = p[i]
         /\ Descends(p, Parent(p)) /\ Parent(p) # p
<1>1. PICK n : n = Len(p) - 1
  OBVIOUS
<1>2. Len(p) \in Nat \ {0} /\ n \in Nat /\ n <= Len(p)
  BY <1>1, PathIs, RootPath
<1>3. /\ SubSeq(p, 1, n) \in Paths /\ Len(SubSeq(p, 1, n)) = n
      /\ \A i \in 1..n : SubSeq(p, 1, n)[i] = p[i]
  BY <1>2, CutIs
<1>4. /\ Parent(p) \in Paths /\ Len(Parent(p)) = n
      /\ \A i \in 1..n : Parent(p)[i] = p[i]
  BY <1>1, <1>3 DEF Parent
<1>5. n < Len(p) /\ n # Len(p)
  BY <1>1, <1>2
<1>6. Descends(p, Parent(p)) /\ Parent(p) # p
  BY <1>4, <1>5, DescendsIs
<1>7. QED
  BY <1>1, <1>2, <1>4, <1>6

\* Being below goes on and on, and up.
LEMMA DescendsOn ==
  ASSUME NEW p \in Paths, NEW q \in Paths, NEW r \in Paths, Descends(p, q), Descends(q, r)
  PROVE  Descends(p, r)
<1>1. Len(p) \in Nat /\ Len(q) \in Nat /\ Len(r) \in Nat
  BY PathIs
<1>2. Len(q) < Len(p) /\ Len(r) < Len(q) /\ Len(r) < Len(p)
      /\ (\A i \in 1..Len(q) : p[i] = q[i]) /\ \A i \in 1..Len(r) : q[i] = r[i]
  BY <1>1, DescendsIs
<1>3. \A i \in 1..Len(r) : i \in 1..Len(q)
  BY <1>1, <1>2
<1>4. \A i \in 1..Len(r) : p[i] = r[i]
  BY <1>2, <1>3
<1>5. QED
  BY <1>2, <1>4, DescendsIs

\* What is below is longer, is not the other, and its parent is at or below it too.
LEMMA DescendsNot ==
  ASSUME NEW p \in Paths, NEW q \in Paths, Descends(p, q)
  PROVE  /\ p # q /\ p # <<>> /\ ~Descends(q, p) /\ Len(q) < Len(p) /\ Len(p) \in Nat /\ Len(q) \in Nat
         /\ Parent(p) \in Paths /\ (Parent(p) = q \/ Descends(Parent(p), q))
<1>1. Len(p) \in Nat /\ Len(q) \in Nat
  BY PathIs
<1>2. Len(q) < Len(p) /\ (\A i \in 1..Len(q) : p[i] = q[i])
  BY DescendsIs
<1>3. Len(p) # 0 /\ p # <<>>
  BY <1>1, <1>2, RootPath
<1>4. ~Descends(q, p) /\ p # q
  BY <1>1, <1>2, DescendsIs
<1>5. /\ Parent(p) \in Paths /\ Len(Parent(p)) = Len(p) - 1
      /\ \A i \in 1..(Len(p) - 1) : Parent(p)[i] = p[i]
  BY <1>3, ParentIs
<1>6. \A i \in 1..Len(q) : i \in 1..(Len(p) - 1)
  BY <1>1, <1>2
<1>7. \A i \in 1..Len(q) : Parent(p)[i] = q[i]
  BY <1>2, <1>5, <1>6
<1>8. CASE Len(q) = Len(p) - 1
  <2>1. Parent(p) = q
    BY <1>5, <1>7, <1>8, SamePath
  <2>2. QED
    BY <1>1, <1>2, <1>3, <1>4, <1>5, <2>1
<1>9. CASE Len(q) # Len(p) - 1
  <2>1. Len(q) < Len(Parent(p))
    BY <1>1, <1>2, <1>5, <1>9
  <2>2. Descends(Parent(p), q)
    BY <1>5, <1>7, <2>1, DescendsIs
  <2>3. QED
    BY <1>1, <1>2, <1>3, <1>4, <1>5, <2>2
<1>10. QED
  BY <1>8, <1>9

\* Everything but the root is below it.
LEMMA AllBelowRoot ==
  ASSUME NEW p \in Paths, p # <<>> PROVE Descends(p, <<>>)
<1>1. Len(p) \in Nat \ {0} /\ <<>> \in Paths /\ Len(<<>>) = 0
  BY ParentIs, RootPath
<1>2. QED
  BY <1>1, DescendsIs

\* Two paths above a third one are above one another.
LEMMA AboveInLine ==
  ASSUME NEW p \in Paths, NEW q \in Paths, NEW r \in Paths, Descends(p, q), Descends(p, r)
  PROVE  q = r \/ Descends(q, r) \/ Descends(r, q)
<1>1. Len(p) \in Nat /\ Len(q) \in Nat /\ Len(r) \in Nat
  BY PathIs
<1>2. /\ \A i \in 1..Len(q) : p[i] = q[i]
      /\ \A i \in 1..Len(r) : p[i] = r[i]
  BY DescendsIs
<1>3. CASE Len(q) = Len(r)
  BY <1>2, <1>3, SamePath
<1>4. CASE Len(q) < Len(r)
  <2>1. \A i \in 1..Len(q) : i \in 1..Len(r)
    BY <1>1, <1>4
  <2>2. \A i \in 1..Len(q) : r[i] = q[i]
    BY <1>2, <2>1
  <2>3. QED
    BY <1>4, <2>2, DescendsIs
<1>5. CASE Len(r) < Len(q)
  <2>1. \A i \in 1..Len(r) : i \in 1..Len(q)
    BY <1>1, <1>5
  <2>2. \A i \in 1..Len(r) : q[i] = r[i]
    BY <1>2, <2>1
  <2>3. QED
    BY <1>5, <2>2, DescendsIs
<1>6. QED
  BY <1>1, <1>3, <1>4, <1>5

\* Two paths in one directory, or one in the other's: only one is below the other.
LEMMA SameParent ==
  ASSUME NEW p \in Paths, NEW q \in Paths, p # <<>>, q # <<>>, Descends(p, q), p # q
  PROVE  Parent(p) # Parent(q)
<1>1. Len(Parent(p)) = Len(p) - 1 /\ Len(Parent(q)) = Len(q) - 1 /\ Len(q) < Len(p)
      /\ Len(p) \in Nat /\ Len(q) \in Nat
  BY ParentIs, DescendsNot
<1>2. QED
  BY <1>1

-----------------------------------------------------------------------------
(* A path that takes another beginning.                                    *)

\* A path with another beginning: the new beginning, then what followed the old one.
LEMMA RebasedIs ==
  ASSUME NEW q \in Paths, NEW from \in Paths, NEW to \in Paths, Len(from) <= Len(q)
  PROVE  \E f, t, n \in Nat :
           /\ f = Len(from) /\ t = Len(to) /\ n = Len(q)
           /\ Rebased(q, from, to) \in Paths /\ Len(Rebased(q, from, to)) = t + (n - f)
           /\ \A i \in 1..t : Rebased(q, from, to)[i] = to[i]
           /\ \A i \in 1..(n - f) : Rebased(q, from, to)[t + i] = q[f + i]
<1>0. PICK f, t, n : f = Len(from) /\ t = Len(to) /\ n = Len(q)
  OBVIOUS
<1>1. f \in Nat /\ t \in Nat /\ n \in Nat /\ f <= n
  BY <1>0, PathIs
<1>2. PICK rest : rest = SubSeq(q, f + 1, n)
  OBVIOUS
<1>3. rest \in Paths /\ Len(rest) = n - f /\ \A i \in 1..(n - f) : rest[i] = q[f + i]
  BY <1>0, <1>1, <1>2, RestIs
<1>4. Rebased(q, from, to) = to \o rest
  BY <1>0, <1>2 DEF Rebased
<1>5. /\ to \o rest \in Paths /\ Len(to \o rest) = t + (n - f)
      /\ \A i \in 1..t : (to \o rest)[i] = to[i]
      /\ \A i \in 1..(n - f) : (to \o rest)[t + i] = rest[i]
  <2>1. /\ to \o rest \in Paths /\ Len(to \o rest) = Len(to) + Len(rest)
        /\ \A i \in 1..Len(to) + Len(rest) :
             (to \o rest)[i] = IF i <= Len(to) THEN to[i] ELSE rest[i - Len(to)]
    BY <1>3, ConcatProperties DEF Paths
  <2>2. to \o rest \in Paths /\ Len(to \o rest) = t + (n - f)
    BY <1>0, <1>3, <2>1
  <2>3. \A i \in 1..t + (n - f) : (to \o rest)[i] = IF i <= t THEN to[i] ELSE rest[i - t]
    BY <1>0, <1>3, <2>1
  <2>4. \A i \in 1..t : i \in 1..t + (n - f) /\ i <= t
    BY <1>1
  <2>5. \A i \in 1..(n - f) : t + i \in 1..t + (n - f) /\ ~(t + i <= t) /\ (t + i) - t = i
    BY <1>1
  <2>6. \A i \in 1..t : (to \o rest)[i] = to[i]
    BY <2>3, <2>4
  <2>7. \A i \in 1..(n - f) : (to \o rest)[t + i] = rest[i]
    <3>1. ASSUME NEW i \in 1..(n - f) PROVE (to \o rest)[t + i] = rest[i]
      <4>1. (to \o rest)[t + i] = IF t + i <= t THEN to[t + i] ELSE rest[(t + i) - t]
        BY <2>3, <2>5
      <4>2. QED
        BY <2>5, <4>1
    <3>2. QED
      BY <3>1
  <2>8. QED
    BY <2>2, <2>6, <2>7
<1>6. /\ Rebased(q, from, to) \in Paths /\ Len(Rebased(q, from, to)) = t + (n - f)
      /\ \A i \in 1..t : Rebased(q, from, to)[i] = to[i]
      /\ \A i \in 1..(n - f) : Rebased(q, from, to)[t + i] = q[f + i]
  BY <1>3, <1>4, <1>5, Zenon
<1>7. QED
  BY <1>0, <1>1, <1>6, Zenon

\* At a path or below it.
AtOrBelow(q, p) == q = p \/ Descends(q, p)

\* To be at or below a path is to begin with it.
LEMMA AtOrBelowIs ==
  ASSUME NEW q \in Paths, NEW p \in Paths
  PROVE  AtOrBelow(q, p) <=> Len(p) <= Len(q) /\ \A i \in 1..Len(p) : q[i] = p[i]
<1>1. Len(p) \in Nat /\ Len(q) \in Nat
  BY PathIs
<1>2. CASE Len(p) = Len(q)
  <2>1. ~Descends(q, p)
    BY <1>1, <1>2, DescendsNot
  <2>2. (\A i \in 1..Len(p) : q[i] = p[i]) => q = p
    BY <1>2, SamePath
  <2>3. QED
    BY <1>1, <1>2, <2>1, <2>2 DEF AtOrBelow
<1>3. CASE Len(p) # Len(q)
  <2>1. q # p
    BY <1>3
  <2>2. Descends(q, p) <=> Len(p) < Len(q) /\ \A i \in 1..Len(p) : q[i] = p[i]
    BY DescendsIs
  <2>3. Len(p) < Len(q) <=> Len(p) <= Len(q)
    BY <1>1, <1>3
  <2>4. QED
    BY <2>1, <2>2, <2>3 DEF AtOrBelow
<1>4. QED
  BY <1>2, <1>3

\* What was at or below the one is at or below the other, and may go back.
LEMMA RebasedBelow ==
  ASSUME NEW q \in Paths, NEW from \in Paths, NEW to \in Paths, AtOrBelow(q, from)
  PROVE  /\ Rebased(q, from, to) \in Paths /\ AtOrBelow(Rebased(q, from, to), to)
         /\ Rebased(Rebased(q, from, to), to, from) = q
         /\ Len(Rebased(q, from, to)) = Len(to) + (Len(q) - Len(from))
<1>1. PICK f, t, n : f = Len(from) /\ t = Len(to) /\ n = Len(q)
  OBVIOUS
<1>2. f <= n /\ \A i \in 1..f : q[i] = from[i]
  BY <1>1, AtOrBelowIs
<1>3. PICK x : x = Rebased(q, from, to)
  OBVIOUS
<1>4. /\ f \in Nat /\ t \in Nat /\ n \in Nat /\ x \in Paths /\ Len(x) = t + (n - f)
      /\ \A i \in 1..t : x[i] = to[i]
      /\ \A i \in 1..(n - f) : x[t + i] = q[f + i]
  <2>1. Len(from) <= Len(q)
    BY <1>1, <1>2
  <2>2. PICK a, b, c \in Nat :
          /\ a = Len(from) /\ b = Len(to) /\ c = Len(q)
          /\ Rebased(q, from, to) \in Paths /\ Len(Rebased(q, from, to)) = b + (c - a)
          /\ \A i \in 1..b : Rebased(q, from, to)[i] = to[i]
          /\ \A i \in 1..(c - a) : Rebased(q, from, to)[b + i] = q[a + i]
    BY <2>1, RebasedIs, Zenon
  <2>3. a = f /\ b = t /\ c = n
    BY <1>1, <2>2
  <2>4. QED
    BY <1>3, <2>2, <2>3, Zenon
<1>5. AtOrBelow(x, to)
  <2>1. Len(to) <= Len(x)
    BY <1>1, <1>2, <1>4
  <2>2. QED
    BY <1>1, <1>4, <2>1, AtOrBelowIs
<1>6. PICK y : y = Rebased(x, to, from)
  OBVIOUS
<1>7. PICK m : m = Len(x)
  OBVIOUS
<1>8. t <= m /\ m - t = n - f
  BY <1>2, <1>4, <1>7
<1>9. /\ y \in Paths /\ Len(y) = f + (m - t)
      /\ \A i \in 1..f : y[i] = from[i]
      /\ \A i \in 1..(m - t) : y[f + i] = x[t + i]
  <2>1. Len(to) <= Len(x)
    BY <1>1, <1>4, <1>7, <1>8
  <2>2. PICK a, b, c \in Nat :
          /\ a = Len(to) /\ b = Len(from) /\ c = Len(x)
          /\ Rebased(x, to, from) \in Paths /\ Len(Rebased(x, to, from)) = b + (c - a)
          /\ \A i \in 1..b : Rebased(x, to, from)[i] = from[i]
          /\ \A i \in 1..(c - a) : Rebased(x, to, from)[b + i] = x[a + i]
    BY <2>1, <1>4, RebasedIs, Zenon
  <2>3. a = t /\ b = f /\ c = m
    BY <1>1, <1>7, <2>2
  <2>4. QED
    BY <1>6, <2>2, <2>3, Zenon
<1>10. y = q
  <2>1. Len(y) = Len(q)
    BY <1>1, <1>2, <1>4, <1>8, <1>9
  <2>2. ASSUME NEW i \in 1..n PROVE y[i] = q[i]
    <3>1. CASE i <= f
      BY <1>2, <1>4, <1>9, <3>1
    <3>2. CASE ~(i <= f)
      <4>1. PICK j : j = i - f
        OBVIOUS
      <4>2. j \in 1..(n - f) /\ i = f + j
        BY <1>4, <3>2, <4>1
      <4>3. y[f + j] = x[t + j] /\ x[t + j] = q[f + j]
        BY <1>4, <1>8, <1>9, <4>2
      <4>4. QED
        BY <4>2, <4>3
    <3>3. QED
      BY <3>1, <3>2
  <2>3. QED
    BY <1>1, <1>9, <2>1, <2>2, SamePath
<1>11. QED
  BY <1>1, <1>3, <1>4, <1>5, <1>6, <1>10

\* Its directory moves along with it.
LEMMA RebasedParent ==
  ASSUME NEW q \in Paths, NEW from \in Paths, NEW to \in Paths, Descends(q, from)
  PROVE  /\ AtOrBelow(Parent(q), from) /\ Rebased(q, from, to) # <<>>
         /\ Parent(Rebased(q, from, to)) = Rebased(Parent(q), from, to)
         /\ Descends(Rebased(q, from, to), to)
<1>1. PICK f, t, n : f = Len(from) /\ t = Len(to) /\ n = Len(q)
  OBVIOUS
<1>2. q # <<>> /\ Parent(q) \in Paths /\ AtOrBelow(Parent(q), from) /\ f < n
  BY <1>1, DescendsNot DEF AtOrBelow
<1>3. Len(Parent(q)) = n - 1 /\ \A i \in 1..(n - 1) : Parent(q)[i] = q[i]
  BY <1>1, <1>2, ParentIs
<1>4. PICK x : x = Rebased(q, from, to)
  OBVIOUS
<1>5. f \in Nat /\ t \in Nat /\ n \in Nat /\ f <= n
  BY <1>1, <1>2, PathIs
<1>6. /\ x \in Paths /\ Len(x) = t + (n - f)
      /\ \A i \in 1..t : x[i] = to[i]
      /\ \A i \in 1..(n - f) : x[t + i] = q[f + i]
  <2>1. Len(from) <= Len(q)
    BY <1>1, <1>5
  <2>2. PICK a, b, c \in Nat :
          /\ a = Len(from) /\ b = Len(to) /\ c = Len(q)
          /\ Rebased(q, from, to) \in Paths /\ Len(Rebased(q, from, to)) = b + (c - a)
          /\ \A i \in 1..b : Rebased(q, from, to)[i] = to[i]
          /\ \A i \in 1..(c - a) : Rebased(q, from, to)[b + i] = q[a + i]
    BY <2>1, RebasedIs, Zenon
  <2>3. a = f /\ b = t /\ c = n
    BY <1>1, <2>2
  <2>4. QED
    BY <1>4, <2>2, <2>3, Zenon
<1>7. Len(x) # 0 /\ x # <<>> /\ t < Len(x)
  BY <1>2, <1>5, <1>6, RootPath
<1>8. PICK m : m = Len(x) - 1
  OBVIOUS
<1>9. /\ Parent(x) \in Paths /\ Len(Parent(x)) = m
      /\ \A i \in 1..m : Parent(x)[i] = x[i]
  BY <1>6, <1>7, <1>8, ParentIs
<1>10. PICK y : y = Rebased(Parent(q), from, to)
  OBVIOUS
<1>11. PICK k : k = n - 1
  OBVIOUS
<1>12. f <= k /\ k = Len(Parent(q)) /\ m = t + (k - f) /\ k \in Nat /\ m \in Nat
  BY <1>2, <1>3, <1>5, <1>6, <1>8, <1>11
<1>13. /\ y \in Paths /\ Len(y) = t + (k - f)
       /\ \A i \in 1..t : y[i] = to[i]
       /\ \A i \in 1..(k - f) : y[t + i] = Parent(q)[f + i]
  <2>1. Len(from) <= Len(Parent(q))
    BY <1>1, <1>12
  <2>2. PICK a, b, c \in Nat :
          /\ a = Len(from) /\ b = Len(to) /\ c = Len(Parent(q))
          /\ Rebased(Parent(q), from, to) \in Paths /\ Len(Rebased(Parent(q), from, to)) = b + (c - a)
          /\ \A i \in 1..b : Rebased(Parent(q), from, to)[i] = to[i]
          /\ \A i \in 1..(c - a) : Rebased(Parent(q), from, to)[b + i] = Parent(q)[a + i]
    BY <2>1, <1>2, RebasedIs, Zenon
  <2>3. a = f /\ b = t /\ c = k
    BY <1>1, <1>12, <2>2
  <2>4. QED
    BY <1>10, <2>2, <2>3, Zenon
<1>14. Parent(x) = y
  <2>1. ASSUME NEW i \in 1..m PROVE Parent(x)[i] = y[i]
    <3>1. Parent(x)[i] = x[i]
      BY <1>9
    <3>2. CASE i <= t
      <4>1. i \in 1..t
        BY <1>5, <3>2
      <4>2. QED
        BY <1>6, <1>13, <3>1, <4>1
    <3>3. CASE ~(i <= t)
      <4>1. PICK j : j = i - t
        OBVIOUS
      <4>2. j \in 1..(k - f) /\ j \in 1..(n - f) /\ i = t + j /\ f + j \in 1..(n - 1)
        BY <1>5, <1>11, <1>12, <3>3, <4>1
      <4>3. x[t + j] = q[f + j] /\ y[t + j] = Parent(q)[f + j] /\ Parent(q)[f + j] = q[f + j]
        BY <1>3, <1>6, <1>13, <4>2
      <4>4. QED
        BY <3>1, <4>2, <4>3
    <3>4. QED
      BY <3>2, <3>3
  <2>2. QED
    BY <1>9, <1>12, <1>13, <2>1, SamePath
<1>15. Descends(x, to)
  BY <1>1, <1>6, <1>7, DescendsIs
<1>16. QED
  BY <1>2, <1>4, <1>7, <1>10, <1>14, <1>15

-----------------------------------------------------------------------------
(* Trees.                                                                  *)

\* What a node of a tree can be: a directory has no bytes.
Nodes == {n \in [kind : {"file", "dir"}, data : Seq(Byte), own : SUBSET rwx, oth : SUBSET rwx,
                 mine : BOOLEAN, origin : {"seed", "user"}] :
            n.kind = "dir" => n.data = <<>>}

\* Every node has a path and hangs in a directory.
IsTree(tr) ==
  /\ tr \in [DOMAIN tr -> Nodes] /\ DOMAIN tr \subseteq Paths \ {<<>>} /\ IsFiniteSet(DOMAIN tr)
  /\ \A p \in DOMAIN tr : IsDir(tr, Parent(p))

\* The root is a directory of every tree.
LEMMA RootIs == Root \in Nodes /\ \A tr : Has(tr, <<>>) /\ IsDir(tr, <<>>) /\ Node(tr, <<>>) = Root
<1>1. Root \in Nodes
  BY DEF Root, Nodes, rwx
<1>2. Root.kind = "dir"
  BY DEF Root
<1>3. \A tr : Has(tr, <<>>) /\ Node(tr, <<>>) = Root
  BY DEF Has, Node
<1>4. QED
  BY <1>1, <1>2, <1>3 DEF IsDir

\* What every node of a tree is.
LEMMA NodeIs ==
  ASSUME NEW tr, IsTree(tr), NEW p \in DOMAIN tr
  PROVE  /\ tr[p] \in Nodes /\ p \in Paths /\ p # <<>> /\ Node(tr, p) = tr[p] /\ Has(tr, p)
         /\ tr[p].kind \in {"file", "dir"} /\ tr[p].data \in Seq(Byte) /\ Len(tr[p].data) \in Nat
         /\ tr[p].own \subseteq rwx /\ tr[p].oth \subseteq rwx /\ tr[p].mine \in BOOLEAN
         /\ tr[p].origin \in {"seed", "user"}
         /\ tr[p].kind = "dir" => tr[p].data = <<>>
         /\ IsDir(tr, p) <=> tr[p].kind = "dir"
         /\ Parent(p) \in Paths /\ IsDir(tr, Parent(p))
<1>1. tr[p] \in Nodes /\ p \in Paths /\ p # <<>> /\ IsDir(tr, Parent(p))
  BY DEF IsTree
<1>2. Node(tr, p) = tr[p] /\ Has(tr, p) /\ (IsDir(tr, p) <=> tr[p].kind = "dir")
  BY <1>1 DEF Node, Has, IsDir
<1>3. /\ tr[p].kind \in {"file", "dir"} /\ tr[p].data \in Seq(Byte)
      /\ tr[p].own \subseteq rwx /\ tr[p].oth \subseteq rwx /\ tr[p].mine \in BOOLEAN
      /\ tr[p].origin \in {"seed", "user"}
      /\ tr[p].kind = "dir" => tr[p].data = <<>>
  BY <1>1 DEF Nodes
<1>4. Len(tr[p].data) \in Nat
  BY <1>3
<1>5. QED
  BY <1>1, <1>2, <1>3, <1>4, ParentIs

\* A directory other than the root is a node of the tree.
LEMMA HasIs ==
  ASSUME NEW tr, IsTree(tr), NEW p \in Paths, IsDir(tr, p), p # <<>>
  PROVE  p \in DOMAIN tr /\ tr[p].kind = "dir" /\ Node(tr, p) = tr[p]
  BY DEF IsDir, Has, Node

\* A set of paths has a shortest one.
LEMMA ShortestIs ==
  ASSUME NEW S \in SUBSET Paths, S # {}
  PROVE  \E p \in S : \A q \in S : ~(Len(q) < Len(p))
<1> DEFINE L == {Len(p) : p \in S}
<1>1. L \in SUBSET Nat /\ L # {}
  BY PathIs
<1>2. PICK n \in L : \A m \in L : ~(<<m, n>> \in OpToRel(<, Nat))
  BY <1>1, WFMin, NatLessThanWellFounded, Zenon
<1>3. \A m \in L : ~(m < n)
  BY <1>1, <1>2 DEF OpToRel
<1>4. PICK p \in S : n = Len(p)
  BY <1>2
<1>5. \A q \in S : ~(Len(q) < Len(p))
  BY <1>3, <1>4
<1>6. QED
  BY <1>5

\* All that is above a node is a directory.
LEMMA AncestorsAreDirs ==
  ASSUME NEW tr, IsTree(tr), NEW p \in DOMAIN tr, NEW q \in Paths, Descends(p, q)
  PROVE  IsDir(tr, q) /\ (q # <<>> => q \in DOMAIN tr)
<1> DEFINE S == {x \in DOMAIN tr : Descends(x, q) /\ ~IsDir(tr, q)}
<1>1. ASSUME S # {} PROVE FALSE
  <2>1. S \in SUBSET Paths
    BY DEF IsTree
  <2>2. PICK x \in S : \A y \in S : ~(Len(y) < Len(x))
    BY <1>1, <2>1, ShortestIs
  <2>3. x \in DOMAIN tr /\ x \in Paths /\ x # <<>> /\ Descends(x, q) /\ ~IsDir(tr, q)
    BY <2>2, NodeIs
  <2>4. Parent(x) \in Paths /\ IsDir(tr, Parent(x)) /\ (Parent(x) = q \/ Descends(Parent(x), q))
    BY <2>3, NodeIs, DescendsNot
  <2>5. Descends(Parent(x), q)
    BY <2>3, <2>4
  <2>6. Parent(x) # <<>>
    BY <2>4, <2>5, DescendsNot
  <2>7. Parent(x) \in DOMAIN tr
    BY <2>4, <2>6, HasIs
  <2>8. Len(Parent(x)) < Len(x)
    BY <2>3, ParentIs
  <2>9. QED
    BY <2>2, <2>3, <2>5, <2>7, <2>8
<1>2. IsDir(tr, q)
  BY <1>1
<1>3. QED
  BY <1>2, HasIs

\* A node that has nothing above it has nothing below it either.
LEMMA NothingBelow ==
  ASSUME NEW tr, IsTree(tr), NEW p \in Paths, ~IsDir(tr, p)
  PROVE  \A q \in DOMAIN tr : ~Descends(q, p)
  BY AncestorsAreDirs

-----------------------------------------------------------------------------
(* Counting up.                                                            *)

\* What holds at first and goes on holding does so to the end.
LEMMA Stair ==
  ASSUME NEW n \in Nat, NEW S, 0 \in S, \A i \in 1..n : i - 1 \in S => i \in S
  PROVE  \A i \in 0..n : i \in S
<1> DEFINE M == {i \in 0..n : i \notin S}
<1>1. ASSUME M # {} PROVE FALSE
  <2>1. M \in SUBSET Nat
    OBVIOUS
  <2>2. PICK m \in M : \A i \in M : ~(<<i, m>> \in OpToRel(<, Nat))
    BY <1>1, <2>1, WFMin, NatLessThanWellFounded, Zenon
  <2>3. \A i \in M : ~(i < m)
    BY <2>1, <2>2 DEF OpToRel
  <2>4. m \in 1..n
    OBVIOUS
  <2>5. m - 1 \in 0..n /\ m - 1 < m
    BY <2>4
  <2>6. m - 1 \in S
    BY <2>3, <2>5
  <2>7. QED
    BY <2>4, <2>6
<1>2. QED
  BY <1>1

-----------------------------------------------------------------------------
(* The bytes of a tree.                                                    *)

\* Finitely many nodes.
Shelf(tr) == tr \in [DOMAIN tr -> Nodes] /\ IsFiniteSet(DOMAIN tr)

\* A node has so many bytes.
LEMMA SizeIs == \A n \in Nodes : Size(n) \in Nat
<1>1. ASSUME NEW n \in Nodes PROVE Size(n) \in Nat
  <2>1. n.data \in Seq(Byte)
    BY DEF Nodes
  <2>2. Len(n.data) \in Nat
    BY <2>1
  <2>3. QED
    BY <2>2 DEF Size
<1>2. QED
  BY <1>1

\* Which bytes are in a tree.
LEMMA ByteIs ==
  ASSUME NEW tr, NEW x
  PROVE  x \in Bytes(tr) <=> \E p \in DOMAIN tr : x \in {p} \X (1..Size(tr[p]))
  BY Zenon DEF Bytes

\* What UsedBytes counts can be counted.
LEMMA BytesAreFinite ==
  ASSUME NEW tr, Shelf(tr)
  PROVE  IsFiniteSet(Bytes(tr)) /\ UsedBytes(tr) \in Nat
<1> DEFINE B == {{p} \X (1..Size(tr[p])) : p \in DOMAIN tr}
           f == [p \in DOMAIN tr |-> {p} \X (1..Size(tr[p]))]
<1>1. IsFiniteSet(B)
  <2>1. f \in Surjection(DOMAIN tr, B)
    BY Zenon DEF Surjection
  <2>2. IsFiniteSet(DOMAIN tr)
    BY DEF Shelf
  <2>3. QED
    BY <2>1, <2>2, FS_Surjection
<1>2. \A T \in B : IsFiniteSet(T)
  <2>1. ASSUME NEW p \in DOMAIN tr PROVE IsFiniteSet({p} \X (1..Size(tr[p])))
    <3>1. tr[p] \in Nodes
      BY DEF Shelf
    <3>2. 1 \in Int /\ Size(tr[p]) \in Int
      BY <3>1, SizeIs
    <3>3. IsFiniteSet(1..Size(tr[p])) /\ IsFiniteSet({p})
      BY <3>2, FS_Interval, FS_Singleton, Zenon
    <3>4. QED
      BY <3>3, FS_Product
  <2>2. QED
    BY <2>1
<1>3. IsFiniteSet(UNION B)
  BY <1>1, <1>2, FS_UNION
<1>4. IsFiniteSet(Bytes(tr))
  BY <1>3 DEF Bytes
<1>5. QED
  BY <1>4, FS_CardinalityType DEF UsedBytes

\* Part of a tree has the nodes it had there.
LEMMA PartIs ==
  ASSUME NEW tr, Shelf(tr), NEW S \in SUBSET DOMAIN tr
  PROVE  Shelf(Part(tr, S)) /\ DOMAIN Part(tr, S) = S /\ \A p \in S : Part(tr, S)[p] = tr[p]
<1>1. DOMAIN Part(tr, S) = S /\ \A p \in S : Part(tr, S)[p] = tr[p]
  BY DEF Part
<1>2. IsFiniteSet(S)
  BY FS_Subset DEF Shelf
<1>3. Part(tr, S) \in [S -> Nodes]
  BY DEF Part, Shelf
<1>4. QED
  BY <1>1, <1>2, <1>3 DEF Shelf

\* Some nodes and the others.
LEMMA BytesAdd ==
  ASSUME NEW tr, Shelf(tr), NEW S \in SUBSET DOMAIN tr
  PROVE  UsedBytes(tr) = UsedBytes(Part(tr, S)) + UsedBytes(Part(tr, DOMAIN tr \ S))
<1> DEFINE T == DOMAIN tr \ S
           A == Bytes(Part(tr, S))
           B == Bytes(Part(tr, T))
<1>1. T \in SUBSET DOMAIN tr
  OBVIOUS
<1>2. Shelf(Part(tr, S)) /\ DOMAIN Part(tr, S) = S /\ \A p \in S : Part(tr, S)[p] = tr[p]
  BY PartIs
<1>3. Shelf(Part(tr, T)) /\ DOMAIN Part(tr, T) = T /\ \A p \in T : Part(tr, T)[p] = tr[p]
  BY <1>1, PartIs
<1>4. \A x : x \in A <=> \E p \in S : x \in {p} \X (1..Size(tr[p]))
  BY <1>2, ByteIs
<1>5. \A x : x \in B <=> \E p \in T : x \in {p} \X (1..Size(tr[p]))
  BY <1>3, ByteIs
<1>6. \A x : x \in Bytes(tr) <=> \E p \in DOMAIN tr : x \in {p} \X (1..Size(tr[p]))
  BY ByteIs
<1>7. A \cup B = Bytes(tr)
  BY <1>4, <1>5, <1>6
<1>8. A \cap B = {}
  BY <1>4, <1>5
<1>9. IsFiniteSet(A) /\ IsFiniteSet(B) /\ Cardinality(A) \in Nat /\ Cardinality(B) \in Nat
  BY <1>2, <1>3, BytesAreFinite DEF UsedBytes
<1> HIDE DEF A, B
<1>10. Cardinality(A \cup B) = Cardinality(A) + Cardinality(B) - Cardinality(A \cap B)
  BY <1>9, FS_Union
<1>11. Cardinality(A \cup B) = Cardinality(A) + Cardinality(B)
  BY <1>8, <1>9, <1>10, FS_EmptySet
<1>12. QED
  BY <1>7, <1>11 DEF UsedBytes, A, B

\* What is left when one node is taken out.
LEMMA BytesRest ==
  ASSUME NEW tr, Shelf(tr), NEW p \in DOMAIN tr
  PROVE  /\ UsedBytes(tr) = UsedBytes(Part(tr, DOMAIN tr \ {p})) + Size(tr[p])
         /\ UsedBytes(Part(tr, DOMAIN tr \ {p})) \in Nat /\ Size(tr[p]) \in Nat
<1> DEFINE R == Part(tr, DOMAIN tr \ {p})
<1>1. UsedBytes(tr) = UsedBytes(Part(tr, {p})) + UsedBytes(R)
  BY BytesAdd
<1>2. Shelf(R)
  BY PartIs
<1>3. tr[p] \in Nodes
  BY DEF Shelf
<1>4. Size(tr[p]) \in Nat
  BY <1>3, SizeIs
<1>5. UsedBytes(Part(tr, {p})) = Size(tr[p])
  <2>1. DOMAIN Part(tr, {p}) = {p} /\ Part(tr, {p})[p] = tr[p]
    BY DEF Part
  <2>2. \A x : x \in Bytes(Part(tr, {p})) <=> x \in {p} \X (1..Size(tr[p]))
    BY <2>1, ByteIs
  <2>3. Bytes(Part(tr, {p})) = {p} \X (1..Size(tr[p]))
    BY <2>2
  <2>4. 1 \in Int /\ Size(tr[p]) \in Int
    BY <1>4
  <2>5. /\ IsFiniteSet(1..Size(tr[p]))
        /\ Cardinality(1..Size(tr[p])) = IF 1 > Size(tr[p]) THEN 0 ELSE Size(tr[p]) - 1 + 1
    BY <2>4, FS_Interval, Zenon
  <2>6. Cardinality(1..Size(tr[p])) = Size(tr[p])
    BY <1>4, <2>5
  <2>7. /\ IsFiniteSet({p}) /\ Cardinality({p}) = 1
    BY FS_Singleton
  <2>8. Cardinality({p} \X (1..Size(tr[p]))) = Cardinality({p}) * Cardinality(1..Size(tr[p]))
    BY <2>5, <2>7, FS_Product, Zenon
  <2>9. 1 * Size(tr[p]) = Size(tr[p])
    BY <1>4
  <2>10. Cardinality({p} \X (1..Size(tr[p]))) = Size(tr[p])
    BY <2>6, <2>7, <2>8, <2>9, Zenon
  <2>11. QED
    BY <2>3, <2>10, Zenon DEF UsedBytes
<1>6. UsedBytes(R) \in Nat
  BY <1>2, BytesAreFinite
<1> HIDE DEF R
<1>7. QED
  BY <1>1, <1>4, <1>5, <1>6 DEF R

\* Nodes that are carried elsewhere, one by one, hold as much there.
LEMMA BytesCarried ==
  ASSUME NEW a, NEW b, Shelf(a), Shelf(b), NEW f \in Bijection(DOMAIN a, DOMAIN b),
         \A p \in DOMAIN a : Size(b[f[p]]) = Size(a[p])
  PROVE  UsedBytes(b) = UsedBytes(a)
<1> DEFINE g == [x \in Bytes(a) |-> <<f[x[1]], x[2]>>]
<1>1. /\ f \in [DOMAIN a -> DOMAIN b]
      /\ \A p, q \in DOMAIN a : f[p] = f[q] => p = q
      /\ \A q \in DOMAIN b : \E p \in DOMAIN a : f[p] = q
  BY DEF Bijection, Injection, Surjection, IsInjective
<1>2. \A x \in Bytes(a) : x[1] \in DOMAIN a /\ x[2] \in 1..Size(a[x[1]]) /\ x = <<x[1], x[2]>>
  BY ByteIs
<1>3. \A p \in DOMAIN a : \A i \in 1..Size(a[p]) : <<p, i>> \in Bytes(a)
  BY ByteIs
<1>4. \A q \in DOMAIN b : \A i \in 1..Size(b[q]) : <<q, i>> \in Bytes(b)
  BY ByteIs
<1>5. \A x \in Bytes(b) : x[1] \in DOMAIN b /\ x[2] \in 1..Size(b[x[1]]) /\ x = <<x[1], x[2]>>
  BY ByteIs
<1>6. \A x \in Bytes(a) : g[x] \in Bytes(b)
  <2>1. ASSUME NEW x \in Bytes(a) PROVE g[x] \in Bytes(b)
    <3>1. x[1] \in DOMAIN a /\ x[2] \in 1..Size(a[x[1]])
      BY <1>2
    <3>2. f[x[1]] \in DOMAIN b /\ x[2] \in 1..Size(b[f[x[1]]])
      BY <1>1, <3>1
    <3>3. QED
      BY <1>4, <3>2
  <2>2. QED
    BY <2>1
<1>7. \A x, y \in Bytes(a) : g[x] = g[y] => x = y
  <2>1. ASSUME NEW x \in Bytes(a), NEW y \in Bytes(a), g[x] = g[y] PROVE x = y
    <3>1. f[x[1]] = f[y[1]] /\ x[2] = y[2]
      BY <2>1
    <3>2. x[1] = y[1]
      BY <1>1, <1>2, <3>1
    <3>3. QED
      BY <1>2, <3>1, <3>2
  <2>2. QED
    BY <2>1
<1>8. \A y \in Bytes(b) : \E x \in Bytes(a) : g[x] = y
  <2>1. ASSUME NEW y \in Bytes(b) PROVE \E x \in Bytes(a) : g[x] = y
    <3>1. y[1] \in DOMAIN b /\ y[2] \in 1..Size(b[y[1]]) /\ y = <<y[1], y[2]>>
      BY <1>5
    <3>2. PICK p \in DOMAIN a : f[p] = y[1]
      BY <1>1, <3>1
    <3>3. <<p, y[2]>> \in Bytes(a)
      BY <1>3, <3>1, <3>2
    <3>4. g[<<p, y[2]>>] = <<f[p], y[2]>>
      BY <3>3
    <3>5. QED
      BY <3>1, <3>2, <3>3, <3>4
  <2>2. QED
    BY <2>1
<1>9. g \in [Bytes(a) -> Bytes(b)]
  BY <1>6
<1> HIDE DEF g
<1>10. g \in Bijection(Bytes(a), Bytes(b))
  BY <1>7, <1>8, <1>9 DEF Bijection, Injection, Surjection, IsInjective
<1>11. ExistsBijection(Bytes(a), Bytes(b))
  BY <1>10 DEF ExistsBijection
<1>12. IsFiniteSet(Bytes(a))
  BY BytesAreFinite
<1>13. QED
  BY <1>11, <1>12, FS_Bijection DEF UsedBytes

-----------------------------------------------------------------------------
(* A set of paths, deepest first.                                          *)

\* Of finitely many paths one is a deepest.
LEMMA DeepestIs ==
  ASSUME NEW S \in SUBSET Paths, IsFiniteSet(S), S # {}
  PROVE  DeepestOf(S) \in S /\ \A q \in S : Len(q) <= Len(DeepestOf(S))
<1> DEFINE n == Cardinality(S)
<1>1. n \in Nat /\ ExistsBijection(1..n, S)
  BY FS_CardinalityType
<1>2. PICK f \in [1..n -> S] : \A p \in S : \E i \in 1..n : f[i] = p
  BY <1>1 DEF ExistsBijection, Bijection, Surjection
<1>3. n # 0
  BY <1>1, <1>2
<1> HIDE DEF n
<1> DEFINE M == {m \in 0..n : m = 0 \/ \E j \in 1..m : \A k \in 1..m : Len(f[k]) <= Len(f[j])}
<1>4. 0 \in M
  BY <1>1
<1>5. ASSUME NEW m \in 1..n, m - 1 \in M PROVE m \in M
  <2>1. \A k \in 1..m : k \in 1..n /\ Len(f[k]) \in Nat /\ (k \in 1..(m - 1) \/ k = m)
    <3>1. ASSUME NEW k \in 1..m PROVE k \in 1..n /\ (k \in 1..(m - 1) \/ k = m)
      BY <1>1
    <3>2. QED
      BY <3>1, PathIs
  <2>2. m \in 1..m /\ m \in 0..n /\ \A k \in 1..(m - 1) : k \in 1..m
    BY <1>1
  <2>3. CASE m - 1 = 0
    <3>1. \A k \in 1..m : k = m
      BY <2>3
    <3>2. \A k \in 1..m : Len(f[k]) <= Len(f[m])
      BY <2>1, <3>1
    <3>3. QED
      BY <2>2, <3>2
  <2>4. CASE m - 1 # 0
    <3>1. PICK j \in 1..(m - 1) : \A k \in 1..(m - 1) : Len(f[k]) <= Len(f[j])
      BY <1>5, <2>4
    <3>2. Len(f[j]) \in Nat /\ Len(f[m]) \in Nat /\ j \in 1..m
      BY <2>1, <2>2
    <3>3. CASE Len(f[m]) <= Len(f[j])
      <4>1. \A k \in 1..m : Len(f[k]) <= Len(f[j])
        BY <2>1, <3>1, <3>3
      <4>2. QED
        BY <2>2, <3>2, <4>1
    <3>4. CASE ~(Len(f[m]) <= Len(f[j]))
      <4>1. \A k \in 1..m : Len(f[k]) <= Len(f[m])
        <5>1. ASSUME NEW k \in 1..m PROVE Len(f[k]) <= Len(f[m])
          <6>1. CASE k = m
            BY <3>2, <6>1
          <6>2. CASE k \in 1..(m - 1)
            <7>1. Len(f[k]) <= Len(f[j]) /\ Len(f[k]) \in Nat
              BY <2>1, <3>1, <6>2
            <7>2. QED
              BY <3>2, <3>4, <7>1
          <6>3. QED
            BY <2>1, <6>1, <6>2
        <5>2. QED
          BY <5>1
      <4>2. QED
        BY <2>2, <4>1
    <3>5. QED
      BY <3>3, <3>4
  <2>5. QED
    BY <2>3, <2>4
<1>6. n \in M
  <2>1. \A i \in 0..n : i \in M
    <3> HIDE DEF M
    <3>1. QED
      BY <1>1, <1>4, <1>5, Stair
  <2>2. n \in 0..n
    BY <1>1
  <2>3. QED
    BY <2>1, <2>2, Zenon
<1>7. PICK j \in 1..n : \A k \in 1..n : Len(f[k]) <= Len(f[j])
  BY <1>3, <1>6
<1>8. f[j] \in S /\ \A q \in S : Len(q) <= Len(f[j])
  BY <1>2, <1>7
<1>9. QED
  BY <1>8 DEF DeepestOf

\* What is left of a set, one deepest path after the other taken away.
LEMMA LeftIs ==
  ASSUME NEW S, Cardinality(S) \in Nat
  PROVE  /\ LeftOf(S)[0] = S
         /\ \A i \in 1..Cardinality(S) : LeftOf(S)[i] = LeftOf(S)[i - 1] \ {DeepestOf(LeftOf(S)[i - 1])}
<1> DEFINE n == Cardinality(S)
           M == {m \in 0..n : \E f : f = [i \in 0..m |-> IF i = 0 THEN S ELSE f[i - 1] \ {DeepestOf(f[i - 1])}]}
<1>1. 0 \in M
  <2> DEFINE f == [i \in 0..0 |-> S]
  <2>1. f = [i \in 0..0 |-> IF i = 0 THEN S ELSE f[i - 1] \ {DeepestOf(f[i - 1])}]
    OBVIOUS
  <2> HIDE DEF f
  <2>2. QED
    BY <2>1
<1>2. ASSUME NEW m \in 1..n, m - 1 \in M PROVE m \in M
  <2>1. PICK f : f = [i \in 0..(m - 1) |-> IF i = 0 THEN S ELSE f[i - 1] \ {DeepestOf(f[i - 1])}]
    BY <1>2
  <2> DEFINE g == [i \in 0..m |-> IF i = m THEN f[m - 1] \ {DeepestOf(f[m - 1])} ELSE f[i]]
  <2>2. \A i \in 0..m : i # m => i \in 0..(m - 1) /\ g[i] = f[i]
    OBVIOUS
  <2>3. ASSUME NEW i \in 0..m
        PROVE  g[i] = IF i = 0 THEN S ELSE g[i - 1] \ {DeepestOf(g[i - 1])}
    <3>1. CASE i = m
      <4>1. m - 1 \in 0..m /\ m - 1 # m /\ m # 0
        OBVIOUS
      <4>2. g[m - 1] = f[m - 1]
        BY <2>2, <4>1
      <4>3. QED
        BY <3>1, <4>1, <4>2
    <3>2. CASE i # m
      <4>1. i \in 0..(m - 1) /\ g[i] = f[i]
        BY <2>2, <3>2
      <4>2. f[i] = IF i = 0 THEN S ELSE f[i - 1] \ {DeepestOf(f[i - 1])}
        BY <2>1, <4>1
      <4>3. i # 0 => i - 1 \in 0..m /\ i - 1 # m
        BY <4>1
      <4>4. i # 0 => g[i - 1] = f[i - 1]
        BY <2>2, <4>3
      <4>5. QED
        BY <4>1, <4>2, <4>4
    <3>3. QED
      BY <3>1, <3>2
  <2>4. DOMAIN g = 0..m /\ g = [i \in 0..m |-> g[i]]
    OBVIOUS
  <2> HIDE DEF g
  <2>5. g = [i \in 0..m |-> IF i = 0 THEN S ELSE g[i - 1] \ {DeepestOf(g[i - 1])}]
    BY <2>3, <2>4
  <2>6. m \in 0..n
    OBVIOUS
  <2>7. QED
    BY <2>5, <2>6
<1>3. n \in M
  <2>1. n \in Nat
    OBVIOUS
  <2>2. \A i \in 0..n : i \in M
    <3> HIDE DEF M, n
    <3>1. QED
      BY <1>1, <1>2, <2>1, Stair
  <2>3. n \in 0..n
    BY <2>1
  <2>4. QED
    BY <2>2, <2>3, Zenon
<1>4. \E f : f = [i \in 0..n |-> IF i = 0 THEN S ELSE f[i - 1] \ {DeepestOf(f[i - 1])}]
  BY <1>3
<1>5. LeftOf(S) = [i \in 0..n |-> IF i = 0 THEN S ELSE LeftOf(S)[i - 1] \ {DeepestOf(LeftOf(S)[i - 1])}]
  BY <1>4 DEF LeftOf
<1>6. \A i \in 0..n :
        LeftOf(S)[i] = IF i = 0 THEN S ELSE LeftOf(S)[i - 1] \ {DeepestOf(LeftOf(S)[i - 1])}
  BY <1>5, Zenon
<1>7. 0 \in 0..n /\ \A i \in 1..n : i \in 0..n /\ i # 0
  OBVIOUS
<1>8. QED
  BY <1>6, <1>7, Zenon

\* After i paths have been taken, deepest first, those left are no deeper than those taken.
LEMMA LeavingIs ==
  ASSUME NEW S \in SUBSET Paths, IsFiniteSet(S), NEW i \in 0..Cardinality(S)
  PROVE  /\ Cardinality(S) \in Nat
         /\ LeftOf(S)[i] \in SUBSET S /\ IsFiniteSet(LeftOf(S)[i])
         /\ Cardinality(LeftOf(S)[i]) = Cardinality(S) - i
         /\ \A x \in S \ LeftOf(S)[i] : \A y \in LeftOf(S)[i] : Len(y) <= Len(x)
<1> DEFINE n == Cardinality(S)
           left == LeftOf(S)
           Fine(j) == /\ left[j] \in SUBSET S /\ IsFiniteSet(left[j])
                      /\ Cardinality(left[j]) = n - j
                      /\ \A x \in S \ left[j] : \A y \in left[j] : Len(y) <= Len(x)
           M == {j \in 0..n : Fine(j)}
<1>1. n \in Nat
  BY FS_CardinalityType
<1>2. left[0] = S /\ \A j \in 1..n : left[j] = left[j - 1] \ {DeepestOf(left[j - 1])}
  BY <1>1, LeftIs
<1> HIDE DEF n, left
<1>3. 0 \in M
  <2>1. 0 \in 0..n
    BY <1>1
  <2>2. Cardinality(left[0]) = n - 0
    BY <1>1, <1>2 DEF n
  <2>3. QED
    BY <1>2, <2>1, <2>2
<1>4. ASSUME NEW j \in 1..n, j - 1 \in M PROVE j \in M
  <2>1. Fine(j - 1)
    BY <1>4
  <2>2. PICK L : L = left[j - 1]
    OBVIOUS
  <2>3. PICK d : d = DeepestOf(L)
    OBVIOUS
  <2>4. left[j] = L \ {d}
    BY <1>2, <2>2, <2>3
  <2>5. L \in SUBSET Paths /\ IsFiniteSet(L) /\ Cardinality(L) = n - (j - 1) /\ L \in SUBSET S
    BY <2>1, <2>2
  <2>6. Cardinality(L) # 0
    BY <1>1, <2>5
  <2>7. L # {}
    BY <2>6, FS_EmptySet
  <2>8. d \in L /\ \A q \in L : Len(q) <= Len(d)
    BY <2>3, <2>5, <2>7, DeepestIs, Zenon
  <2>9. IsFiniteSet(L \ {d}) /\ Cardinality(L \ {d}) = Cardinality(L) - 1
    BY <2>5, <2>8, FS_RemoveElement
  <2>10. Cardinality(L \ {d}) = n - j /\ j \in 0..n
    BY <1>1, <2>5, <2>9
  <2>11. ASSUME NEW x \in S \ left[j], NEW y \in left[j] PROVE Len(y) <= Len(x)
    <3>1. y \in L
      BY <2>4
    <3>2. CASE x = d
      BY <2>8, <3>1, <3>2
    <3>3. CASE x # d
      <4>1. x \in S \ left[j - 1] /\ y \in left[j - 1]
        BY <2>2, <2>4, <3>1, <3>3
      <4>2. QED
        BY <2>1, <4>1
    <3>4. QED
      BY <3>2, <3>3
  <2>12. left[j] \in SUBSET S /\ IsFiniteSet(left[j]) /\ Cardinality(left[j]) = n - j
    BY <2>4, <2>5, <2>9, <2>10
  <2>13. QED
    BY <2>10, <2>11, <2>12
<1>5. i \in M
  <2>1. \A j \in 0..n : j \in M
    <3> HIDE DEF M
    <3>1. QED
      BY <1>1, <1>3, <1>4, Stair
  <2>2. i \in 0..n
    BY DEF n
  <2>3. QED
    BY <2>1, <2>2, Zenon
<1>6. Fine(i)
  BY <1>5
<1>7. QED
  BY <1>1, <1>6 DEF n, left

\* The paths go one by one, none of what is left is longer, and nothing stays.
LEMMA GoingIs ==
  ASSUME NEW S \in SUBSET Paths, IsFiniteSet(S), NEW i \in 1..Cardinality(S)
  PROVE  /\ DeepestOf(LeftOf(S)[i - 1]) \in LeftOf(S)[i - 1]
         /\ LeftOf(S)[i - 1] \in SUBSET S
         /\ LeftOf(S)[i] = LeftOf(S)[i - 1] \ {DeepestOf(LeftOf(S)[i - 1])}
         /\ \A q \in LeftOf(S)[i - 1] : Len(q) <= Len(DeepestOf(LeftOf(S)[i - 1]))
         /\ \A x \in S \ LeftOf(S)[i - 1] : \A y \in LeftOf(S)[i - 1] : Len(y) <= Len(x)
<1>1. Cardinality(S) \in Nat /\ Cardinality(S) - (i - 1) # 0
  BY FS_CardinalityType
<1>2. i - 1 \in 0..Cardinality(S)
  BY <1>1
<1>3. PICK L : L = LeftOf(S)[i - 1]
  OBVIOUS
<1>4. /\ L \in SUBSET S /\ IsFiniteSet(L) /\ Cardinality(L) = Cardinality(S) - (i - 1)
      /\ \A x \in S \ L : \A y \in L : Len(y) <= Len(x)
  BY <1>2, <1>3, LeavingIs
<1>5. L # {} /\ L \in SUBSET Paths
  BY <1>1, <1>4, FS_EmptySet
<1>6. DeepestOf(L) \in L /\ \A q \in L : Len(q) <= Len(DeepestOf(L))
  BY <1>4, <1>5, DeepestIs
<1>7. LeftOf(S)[i] = L \ {DeepestOf(L)}
  BY <1>1, <1>3, LeftIs
<1>8. QED
  BY <1>3, <1>4, <1>6, <1>7

\* In the end every path has been taken.
LEMMA AllGone ==
  ASSUME NEW S \in SUBSET Paths, IsFiniteSet(S)
  PROVE  Cardinality(S) \in Nat /\ LeftOf(S)[0] = S /\ LeftOf(S)[Cardinality(S)] = {}
<1>1. Cardinality(S) \in Nat
  BY FS_CardinalityType
<1>2. LeftOf(S)[0] = S
  BY <1>1, LeftIs
<1>3. PICK n : n = Cardinality(S)
  OBVIOUS
<1>4. n \in 0..Cardinality(S) /\ n - n = 0
  BY <1>1, <1>3
<1>5. IsFiniteSet(LeftOf(S)[n]) /\ Cardinality(LeftOf(S)[n]) = Cardinality(S) - n
  BY <1>4, LeavingIs
<1>6. Cardinality(LeftOf(S)[n]) = 0
  BY <1>3, <1>4, <1>5
<1>7. LeftOf(S)[n] = {}
  BY <1>5, <1>6, FS_EmptySet
<1>8. QED
  BY <1>1, <1>2, <1>3, <1>7

-----------------------------------------------------------------------------
(* Steps, one after the other.                                             *)

\* Where a run of steps starts.
Start(tr, bytes) == [ok |-> TRUE, tree |-> tr, used |-> bytes]

\* A run goes on step by step from where it starts.
LEMMA RunIs ==
  ASSUME NEW tr, NEW bytes, NEW steps, Len(steps) \in Nat
  PROVE  /\ Run(tr, bytes, steps)[0] = Start(tr, bytes)
         /\ \A i \in 1..Len(steps) :
              Run(tr, bytes, steps)[i] = Stepped(Run(tr, bytes, steps)[i - 1], steps[i])
<1> DEFINE n == Len(steps)
           S == Start(tr, bytes)
           M == {m \in 0..n : \E f : f = [i \in 0..m |-> IF i = 0 THEN S ELSE Stepped(f[i - 1], steps[i])]}
<1> HIDE DEF S
<1>1. 0 \in M
  <2> DEFINE f == [i \in 0..0 |-> S]
  <2>1. f = [i \in 0..0 |-> IF i = 0 THEN S ELSE Stepped(f[i - 1], steps[i])]
    OBVIOUS
  <2> HIDE DEF f
  <2>2. QED
    BY <2>1
<1>2. ASSUME NEW m \in 1..n, m - 1 \in M PROVE m \in M
  <2>1. PICK f : f = [i \in 0..(m - 1) |-> IF i = 0 THEN S ELSE Stepped(f[i - 1], steps[i])]
    BY <1>2
  <2> DEFINE g == [i \in 0..m |-> IF i = m THEN Stepped(f[m - 1], steps[m]) ELSE f[i]]
  <2>2. \A i \in 0..m : i # m => i \in 0..(m - 1) /\ g[i] = f[i]
    OBVIOUS
  <2>3. ASSUME NEW i \in 0..m
        PROVE  g[i] = IF i = 0 THEN S ELSE Stepped(g[i - 1], steps[i])
    <3>1. CASE i = m
      <4>1. m - 1 \in 0..m /\ m - 1 # m /\ m # 0
        OBVIOUS
      <4>2. g[m - 1] = f[m - 1]
        BY <2>2, <4>1
      <4>3. QED
        BY <3>1, <4>1, <4>2
    <3>2. CASE i # m
      <4>1. i \in 0..(m - 1) /\ g[i] = f[i]
        BY <2>2, <3>2
      <4>2. f[i] = IF i = 0 THEN S ELSE Stepped(f[i - 1], steps[i])
        BY <2>1, <4>1
      <4>3. i # 0 => i - 1 \in 0..m /\ i - 1 # m
        BY <4>1
      <4>4. i # 0 => g[i - 1] = f[i - 1]
        BY <2>2, <4>3
      <4>5. QED
        BY <4>1, <4>2, <4>4
    <3>3. QED
      BY <3>1, <3>2
  <2>4. DOMAIN g = 0..m /\ g = [i \in 0..m |-> g[i]]
    OBVIOUS
  <2> HIDE DEF g
  <2>5. g = [i \in 0..m |-> IF i = 0 THEN S ELSE Stepped(g[i - 1], steps[i])]
    BY <2>3, <2>4
  <2>6. m \in 0..n
    OBVIOUS
  <2>7. QED
    BY <2>5, <2>6
<1>3. n \in M
  <2>1. n \in Nat
    OBVIOUS
  <2>2. \A i \in 0..n : i \in M
    <3> HIDE DEF M, n
    <3>1. QED
      BY <1>1, <1>2, <2>1, Stair
  <2>3. n \in 0..n
    BY <2>1
  <2>4. QED
    BY <2>2, <2>3, Zenon
<1>4. \E f : f = [i \in 0..n |-> IF i = 0 THEN S ELSE Stepped(f[i - 1], steps[i])]
  BY <1>3
<1>5. Run(tr, bytes, steps) =
        [i \in 0..n |-> IF i = 0 THEN S ELSE Stepped(Run(tr, bytes, steps)[i - 1], steps[i])]
  BY <1>4 DEF Run, S, Start
<1>6. \A i \in 0..n :
        Run(tr, bytes, steps)[i] = IF i = 0 THEN S ELSE Stepped(Run(tr, bytes, steps)[i - 1], steps[i])
  BY <1>5, Zenon
<1>7. 0 \in 0..n /\ \A i \in 1..n : i \in 0..n /\ i # 0
  OBVIOUS
<1>8. QED
  BY <1>6, <1>7, Zenon DEF S


-----------------------------------------------------------------------------
(* One node more, less or other.                                           *)

\* A tree can be counted.
LEMMA TreeIsShelf ==
  ASSUME NEW tr, IsTree(tr)
  PROVE  /\ Shelf(tr) /\ DOMAIN tr \in SUBSET Paths /\ <<>> \notin DOMAIN tr
         /\ UsedBytes(tr) \in Nat
<1>1. Shelf(tr)
  BY DEF IsTree, Shelf
<1>2. DOMAIN tr \in SUBSET Paths /\ <<>> \notin DOMAIN tr
  BY DEF IsTree
<1>3. QED
  BY <1>1, <1>2, BytesAreFinite

\* A directory stays one, where no node goes or changes its kind.
LEMMA DirStays ==
  ASSUME NEW a, NEW b, DOMAIN a \subseteq DOMAIN b, \A q \in DOMAIN a : b[q].kind = a[q].kind,
         NEW p, IsDir(a, p)
  PROVE  IsDir(b, p)
<1>1. CASE p = <<>>
  BY <1>1, RootIs
<1>2. CASE p # <<>>
  BY <1>2 DEF IsDir, Has, Node
<1>3. QED
  BY <1>1, <1>2

\* Counting when one node has changed.
LEMMA OneOther ==
  ASSUME NEW a, NEW b, Shelf(a), Shelf(b), NEW p, p \in DOMAIN a, DOMAIN b = DOMAIN a,
         \A q \in DOMAIN a : q # p => b[q] = a[q]
  PROVE  /\ UsedBytes(b) = UsedBytes(a) - Size(a[p]) + Size(b[p])
         /\ UsedBytes(a) \in Nat /\ Size(a[p]) \in Nat /\ Size(b[p]) \in Nat
<1>1. Part(b, DOMAIN b \ {p}) = Part(a, DOMAIN a \ {p})
  BY DEF Part
<1>2. /\ UsedBytes(a) = UsedBytes(Part(a, DOMAIN a \ {p})) + Size(a[p])
      /\ UsedBytes(Part(a, DOMAIN a \ {p})) \in Nat /\ Size(a[p]) \in Nat
  BY BytesRest
<1>3. UsedBytes(b) = UsedBytes(Part(b, DOMAIN b \ {p})) + Size(b[p]) /\ Size(b[p]) \in Nat
  BY BytesRest
<1>4. QED
  BY <1>1, <1>2, <1>3

\* Counting when there is a node more.
LEMMA OneMore ==
  ASSUME NEW a, NEW b, Shelf(a), Shelf(b), NEW p, p \notin DOMAIN a, DOMAIN b = DOMAIN a \cup {p},
         \A q \in DOMAIN a : b[q] = a[q]
  PROVE  /\ UsedBytes(b) = UsedBytes(a) + Size(b[p])
         /\ UsedBytes(a) \in Nat /\ Size(b[p]) \in Nat
<1>1. DOMAIN b \ {p} = DOMAIN a
  OBVIOUS
<1>2. a = [q \in DOMAIN a |-> a[q]]
  BY DEF Shelf
<1>3. Part(b, DOMAIN a) = [q \in DOMAIN a |-> a[q]]
  BY DEF Part
<1>4. Part(b, DOMAIN b \ {p}) = a
  BY <1>1, <1>2, <1>3
<1>5. /\ UsedBytes(b) = UsedBytes(Part(b, DOMAIN b \ {p})) + Size(b[p])
      /\ Size(b[p]) \in Nat
  BY BytesRest
<1>6. UsedBytes(a) \in Nat
  BY BytesAreFinite
<1>7. QED
  BY <1>4, <1>5, <1>6

\* One node more, or one that is other and of its kind: a tree still.
LEMMA TreeStays ==
  ASSUME NEW a, NEW b, IsTree(a), NEW p \in Paths, p # <<>>, IsDir(a, Parent(p)),
         b \in [DOMAIN b -> Nodes], DOMAIN b = DOMAIN a \cup {p},
         \A q \in DOMAIN a : q # p => b[q] = a[q],
         p \in DOMAIN a => b[p].kind = a[p].kind
  PROVE  IsTree(b)
<1>1. IsFiniteSet(DOMAIN a \cup {p})
  BY FS_AddElement DEF IsTree
<1>2. DOMAIN b \subseteq Paths \ {<<>>}
  BY DEF IsTree
<1>3. \A q \in DOMAIN a : b[q].kind = a[q].kind
  OBVIOUS
<1>4. \A q : IsDir(a, q) => IsDir(b, q)
  BY <1>3, DirStays
<1>5. \A q \in DOMAIN b : IsDir(b, Parent(q))
  BY <1>4 DEF IsTree
<1>6. QED
  BY <1>1, <1>2, <1>5 DEF IsTree

-----------------------------------------------------------------------------
(* What each kind of step does.                                            *)

\* A run that has got on so far, and has counted right.
Whole(st) == st.ok = TRUE /\ IsTree(st.tree) /\ st.used = UsedBytes(st.tree)

\* What a step has put at a path, and nowhere else.
PutAt(a, b, p, kind, data, mode) ==
  /\ DOMAIN b = DOMAIN a \cup {p}
  /\ \A q \in DOMAIN a : q # p => b[q] = a[q]
  /\ b[p].kind = kind /\ b[p].data = data
  /\ p \notin DOMAIN a => b[p].own = mode

\* A mkdir step makes a directory, or leaves the one there is.
LEMMA MakeStep ==
  ASSUME NEW st, Whole(st), NEW p \in Paths, p # <<>>, IsDir(st.tree, Parent(p)),
         p \in DOMAIN st.tree => st.tree[p].kind = "dir",
         NEW mode \in SUBSET rwx, NEW origin \in {"seed", "user"}
  PROVE  /\ Whole(Stepped(st, Make(p, mode, origin)))
         /\ PutAt(st.tree, Stepped(st, Make(p, mode, origin)).tree, p, "dir", <<>>, mode)
         /\ p \in DOMAIN st.tree => Stepped(st, Make(p, mode, origin)).tree = st.tree
         /\ UsedBytes(Stepped(st, Make(p, mode, origin)).tree) = UsedBytes(st.tree)
<1>1. PICK tr : tr = st.tree
  OBVIOUS
<1>2. IsTree(tr) /\ IsDir(tr, Parent(p)) /\ (p \in DOMAIN tr => tr[p].kind = "dir")
      /\ st.ok = TRUE /\ st.used = UsedBytes(tr)
  BY <1>1 DEF Whole
<1> DEFINE s == Make(p, mode, origin)
           n == Born("dir", s, origin)
           b == With(tr, p, n)
<1>3. s.op = "mkdir" /\ s.path = p /\ s.mode = mode /\ s.origin = origin
  BY DEF Make
<1>4. CASE p \in DOMAIN tr
  <2>1. Stepped(st, s) = st
    BY <1>1, <1>2, <1>3, <1>4 DEF Stepped
  <2>2. tr[p].kind = "dir" /\ tr[p].data = <<>>
    BY <1>2, <1>4, NodeIs
  <2>3. DOMAIN tr = DOMAIN tr \cup {p}
    BY <1>4
  <2>4. PutAt(tr, tr, p, "dir", <<>>, mode)
    BY <1>4, <2>2, <2>3 DEF PutAt
  <2>5. QED
    BY <1>1, <2>1, <2>4
<1>5. CASE p \notin DOMAIN tr
  <2>1. Stepped(st, s) = [ok |-> TRUE, tree |-> b, used |-> st.used]
    BY <1>1, <1>2, <1>3, <1>5 DEF Stepped
  <2>2. n \in Nodes /\ n.kind = "dir" /\ n.data = <<>> /\ n.own = mode
    BY <1>3 DEF Born, Nodes, rwx
  <2> HIDE DEF n
  <2>3. DOMAIN b = DOMAIN tr \cup {p} /\ b[p] = n /\ \A q \in DOMAIN tr : b[q] = tr[q]
    BY <1>5 DEF With
  <2>4. b \in [DOMAIN b -> Nodes]
    BY <1>2, <2>2 DEF With, IsTree
  <2> HIDE DEF b
  <2>5. IsTree(b)
    BY <1>2, <1>5, <2>3, <2>4, TreeStays
  <2>6. Size(b[p]) = 0
    BY <2>2, <2>3 DEF Size
  <2>7. UsedBytes(b) = UsedBytes(tr) + Size(b[p]) /\ UsedBytes(tr) \in Nat
    BY <1>2, <1>5, <2>3, <2>5, TreeIsShelf, OneMore
  <2>8. UsedBytes(b) = st.used
    BY <1>2, <2>6, <2>7
  <2>9. Whole(Stepped(st, s)) /\ Stepped(st, s).tree = b
    BY <2>1, <2>5, <2>8 DEF Whole
  <2>10. PutAt(tr, b, p, "dir", <<>>, mode)
    BY <2>2, <2>3 DEF PutAt
  <2>11. QED
    BY <1>1, <1>2, <1>5, <2>8, <2>9, <2>10
<1>6. QED
  BY <1>4, <1>5

\* A write step puts the bytes and counts what it put and what it replaced.
LEMMA PutStep ==
  ASSUME NEW st, Whole(st), NEW p \in Paths, p # <<>>, IsDir(st.tree, Parent(p)),
         p \in DOMAIN st.tree => st.tree[p].kind = "file",
         NEW data \in Seq(Byte), NEW mode \in SUBSET rwx, NEW origin \in {"seed", "user"}
  PROVE  /\ Whole(Stepped(st, Put(p, data, mode, origin)))
         /\ PutAt(st.tree, Stepped(st, Put(p, data, mode, origin)).tree, p, "file", data, mode)
         /\ UsedBytes(Stepped(st, Put(p, data, mode, origin)).tree) =
              UsedBytes(st.tree) + Len(data)
                - (IF p \in DOMAIN st.tree THEN Len(st.tree[p].data) ELSE 0)
<1>1. PICK tr : tr = st.tree
  OBVIOUS
<1>2. IsTree(tr) /\ IsDir(tr, Parent(p)) /\ (p \in DOMAIN tr => tr[p].kind = "file")
      /\ st.ok = TRUE /\ st.used = UsedBytes(tr) /\ Len(data) \in Nat
  BY <1>1 DEF Whole
<1> DEFINE s == Put(p, data, mode, origin)
<1>3. s.op = "put" /\ s.path = p /\ s.data = data /\ s.mode = mode /\ s.origin = origin
  BY DEF Put
<1> HIDE DEF s
<1>4. CASE p \in DOMAIN tr
  <2> DEFINE b == [tr EXCEPT ![p].data = data, ![p].origin = origin]
  <2>1. Stepped(st, s) = [ok |-> TRUE, tree |-> b, used |-> st.used + Len(data) - Len(tr[p].data)]
    BY <1>1, <1>2, <1>3, <1>4 DEF Stepped
  <2>2. tr[p] \in Nodes /\ tr[p].kind = "file" /\ Len(tr[p].data) \in Nat
    BY <1>2, <1>4, NodeIs
  <2>3. PICK n : n = [tr[p] EXCEPT !.data = data, !.origin = origin]
    OBVIOUS
  <2>4. n \in Nodes /\ n.kind = "file" /\ n.data = data
    BY <2>2, <2>3 DEF Nodes
  <2>5. DOMAIN b = DOMAIN tr /\ b[p] = n /\ \A q \in DOMAIN tr : q # p => b[q] = tr[q]
    BY <1>4, <2>3
  <2>6. b \in [DOMAIN b -> Nodes]
    <3>1. b = [q \in DOMAIN b |-> b[q]]
      OBVIOUS
    <3>2. \A q \in DOMAIN b : b[q] \in Nodes
      BY <1>2, <2>4, <2>5 DEF IsTree
    <3> HIDE DEF b
    <3>3. QED
      BY <3>1, <3>2
  <2> HIDE DEF b
  <2>7. DOMAIN b = DOMAIN tr \cup {p}
    BY <1>4, <2>5
  <2>8. IsTree(b)
    BY <1>2, <2>2, <2>4, <2>5, <2>6, <2>7, TreeStays
  <2>9. Size(b[p]) = Len(data) /\ Size(tr[p]) = Len(tr[p].data)
    BY <2>2, <2>4, <2>5 DEF Size
  <2>10. UsedBytes(b) = UsedBytes(tr) - Size(tr[p]) + Size(b[p]) /\ UsedBytes(tr) \in Nat
    BY <1>2, <1>4, <2>5, <2>8, TreeIsShelf, OneOther
  <2>11. UsedBytes(b) = UsedBytes(tr) + Len(data) - Len(tr[p].data)
    <3>1. UsedBytes(b) = UsedBytes(tr) - Len(tr[p].data) + Len(data)
      BY <2>9, <2>10, Zenon
    <3>2. PICK u, k, l : u = UsedBytes(tr) /\ k = Len(tr[p].data) /\ l = Len(data)
      OBVIOUS
    <3>3. u \in Nat /\ k \in Nat /\ l \in Nat
      BY <1>2, <2>2, <2>10, <3>2
    <3>4. u - k + l = u + l - k
      BY <3>3
    <3>5. QED
      BY <3>1, <3>2, <3>4, Zenon
  <2>12. Whole(Stepped(st, s)) /\ Stepped(st, s).tree = b
    BY <1>2, <2>1, <2>8, <2>11 DEF Whole
  <2>13. PutAt(tr, b, p, "file", data, mode)
    BY <1>4, <2>4, <2>5, <2>7 DEF PutAt
  <2>14. QED
    BY <1>1, <1>4, <2>11, <2>12, <2>13 DEF s
<1>5. CASE p \notin DOMAIN tr
  <2> DEFINE n == Born("file", s, origin)
             b == With(tr, p, n)
  <2>1. Stepped(st, s) = [ok |-> TRUE, tree |-> b, used |-> st.used + Len(data)]
    BY <1>1, <1>2, <1>3, <1>5 DEF Stepped
  <2>2. n \in Nodes /\ n.kind = "file" /\ n.data = data /\ n.own = mode
    BY <1>3 DEF Born, Nodes, rwx
  <2> HIDE DEF n
  <2>3. DOMAIN b = DOMAIN tr \cup {p} /\ b[p] = n /\ \A q \in DOMAIN tr : b[q] = tr[q]
    BY <1>5 DEF With
  <2>4. b \in [DOMAIN b -> Nodes]
    BY <1>2, <2>2 DEF With, IsTree
  <2> HIDE DEF b
  <2>5. IsTree(b)
    BY <1>2, <1>5, <2>3, <2>4, TreeStays
  <2>6. Size(b[p]) = Len(data)
    BY <2>2, <2>3 DEF Size
  <2>7. UsedBytes(b) = UsedBytes(tr) + Size(b[p]) /\ UsedBytes(tr) \in Nat
    BY <1>2, <1>5, <2>3, <2>5, TreeIsShelf, OneMore
  <2>8. UsedBytes(b) = UsedBytes(tr) + Len(data) - 0 /\ UsedBytes(b) = st.used + Len(data)
    BY <1>2, <2>6, <2>7
  <2>9. Whole(Stepped(st, s)) /\ Stepped(st, s).tree = b
    BY <2>1, <2>5, <2>8 DEF Whole
  <2>10. PutAt(tr, b, p, "file", data, mode)
    BY <2>2, <2>3 DEF PutAt
  <2>11. QED
    BY <1>1, <1>5, <2>8, <2>9, <2>10 DEF s
<1>6. QED
  BY <1>4, <1>5

\* A node goes, and nothing was below it.
LEMMA RemoveStep ==
  ASSUME NEW st, Whole(st), NEW p \in DOMAIN st.tree, \A q \in DOMAIN st.tree : ~Descends(q, p)
  PROVE  /\ Whole(Stepped(st, Remove_(p)))
         /\ Stepped(st, Remove_(p)).tree = Part(st.tree, DOMAIN st.tree \ {p})
<1>1. PICK tr : tr = st.tree
  OBVIOUS
<1>2. /\ IsTree(tr) /\ st.ok = TRUE /\ st.used = UsedBytes(tr) /\ p \in DOMAIN tr
      /\ \A q \in DOMAIN tr : ~Descends(q, p)
  BY <1>1 DEF Whole
<1>3. p \in Paths /\ p # <<>> /\ IsDir(tr, Parent(p)) /\ Parent(p) \in Paths
  BY <1>2, NodeIs
<1> DEFINE s == Remove_(p)
           b == Part(tr, DOMAIN tr \ {p})
<1>4. s.op = "remove" /\ s.path = p
  BY DEF Remove_
<1> HIDE DEF s
<1>5. Family(tr, p) = {p}
  BY <1>2 DEF Family, Below
<1>6. Stepped(st, s) = [ok |-> TRUE, tree |-> Without(tr, Family(tr, p)), used |-> st.used - Size(tr[p])]
  BY <1>1, <1>2, <1>3, <1>4 DEF Stepped
<1>7. Without(tr, Family(tr, p)) = b
  BY <1>5 DEF Without, Part
<1>8. Shelf(tr) /\ Shelf(b) /\ DOMAIN b = DOMAIN tr \ {p} /\ \A q \in DOMAIN tr \ {p} : b[q] = tr[q]
  <2>1. Shelf(tr)
    BY <1>2, TreeIsShelf
  <2>2. QED
    BY <2>1, PartIs
<1>9. UsedBytes(tr) = UsedBytes(b) + Size(tr[p]) /\ UsedBytes(b) \in Nat /\ Size(tr[p]) \in Nat
  BY <1>2, <1>8, BytesRest
<1> HIDE DEF b
<1>10. st.used - Size(tr[p]) = UsedBytes(b)
  BY <1>2, <1>9
<1>11. IsTree(b)
  <2>1. DOMAIN b \subseteq Paths \ {<<>>}
    BY <1>2, <1>8 DEF IsTree
  <2>2. ASSUME NEW q \in DOMAIN b PROVE IsDir(b, Parent(q))
    <3>1. q \in DOMAIN tr /\ q \in Paths /\ q # <<>> /\ IsDir(tr, Parent(q)) /\ Parent(q) \in Paths
      BY <1>2, <1>8, NodeIs
    <3>2. Parent(q) # p
      BY <1>2, <3>1, ParentIs
    <3>3. CASE Parent(q) = <<>>
      BY <3>3, RootIs
    <3>4. CASE Parent(q) # <<>>
      <4>1. Parent(q) \in DOMAIN tr /\ tr[Parent(q)].kind = "dir"
        BY <1>2, <3>1, <3>4, HasIs
      <4>2. Parent(q) \in DOMAIN b /\ b[Parent(q)].kind = "dir"
        BY <1>8, <3>2, <4>1
      <4>3. QED
        BY <3>4, <4>2 DEF IsDir, Has, Node
    <3>5. QED
      BY <3>3, <3>4
  <2>3. QED
    BY <1>8, <2>1, <2>2 DEF IsTree, Shelf
<1>12. Whole(Stepped(st, s)) /\ Stepped(st, s).tree = b
  BY <1>6, <1>7, <1>10, <1>11 DEF Whole
<1>13. QED
  BY <1>1, <1>12 DEF s, b

\* A chmod step changes one node and no byte.
LEMMA ModeStep ==
  ASSUME NEW st, Whole(st), NEW p \in DOMAIN st.tree, NEW mode \in SUBSET rwx
  PROVE  /\ Whole(Stepped(st, SetMode(p, mode)))
         /\ DOMAIN Stepped(st, SetMode(p, mode)).tree = DOMAIN st.tree
         /\ \A q \in DOMAIN st.tree : q # p => Stepped(st, SetMode(p, mode)).tree[q] = st.tree[q]
         /\ UsedBytes(Stepped(st, SetMode(p, mode)).tree) = UsedBytes(st.tree)
<1>1. PICK tr : tr = st.tree
  OBVIOUS
<1>2. IsTree(tr) /\ st.ok = TRUE /\ st.used = UsedBytes(tr) /\ p \in DOMAIN tr
  BY <1>1 DEF Whole
<1>3. /\ p \in Paths /\ p # <<>> /\ IsDir(tr, Parent(p)) /\ tr[p] \in Nodes
      /\ Len(tr[p].data) \in Nat
  BY <1>2, NodeIs
<1> DEFINE s == SetMode(p, mode)
           b == [tr EXCEPT ![p].own = mode]
<1>4. s.op = "mode" /\ s.path = p /\ s.mode = mode
  BY DEF SetMode
<1> HIDE DEF s
<1>5. Stepped(st, s) = [ok |-> TRUE, tree |-> b, used |-> st.used]
  BY <1>1, <1>2, <1>4 DEF Stepped
<1>6. PICK n : n = [tr[p] EXCEPT !.own = mode]
  OBVIOUS
<1>7. n \in Nodes /\ n.kind = tr[p].kind /\ n.data = tr[p].data
  BY <1>3, <1>6 DEF Nodes
<1>8. DOMAIN b = DOMAIN tr /\ b[p] = n /\ \A q \in DOMAIN tr : q # p => b[q] = tr[q]
  BY <1>2, <1>6
<1>9. b \in [DOMAIN b -> Nodes]
  <2>1. b = [q \in DOMAIN b |-> b[q]]
    OBVIOUS
  <2>2. \A q \in DOMAIN b : b[q] \in Nodes
    BY <1>2, <1>7, <1>8 DEF IsTree
  <2> HIDE DEF b
  <2>3. QED
    BY <2>1, <2>2
<1> HIDE DEF b
<1>10. DOMAIN b = DOMAIN tr \cup {p}
  BY <1>2, <1>8
<1>11. IsTree(b)
  BY <1>2, <1>3, <1>7, <1>8, <1>9, <1>10, TreeStays
<1>12. Size(b[p]) = Size(tr[p])
  BY <1>7, <1>8 DEF Size
<1>13. /\ UsedBytes(b) = UsedBytes(tr) - Size(tr[p]) + Size(b[p]) /\ UsedBytes(tr) \in Nat
       /\ Size(tr[p]) \in Nat
  BY <1>2, <1>8, <1>11, TreeIsShelf, OneOther
<1>14. UsedBytes(b) = st.used
  BY <1>2, <1>12, <1>13
<1>15. Whole(Stepped(st, s)) /\ Stepped(st, s).tree = b
  BY <1>5, <1>11, <1>14 DEF Whole
<1>16. QED
  BY <1>1, <1>2, <1>8, <1>14, <1>15 DEF s

\* A utimes step changes nothing that is modelled.
LEMMA TimesStep ==
  ASSUME NEW st, Whole(st), NEW p \in DOMAIN st.tree
  PROVE  Stepped(st, SetTimes(p)) = st
<1>1. SetTimes(p).op = "times" /\ SetTimes(p).path = p
  BY DEF SetTimes
<1>2. QED
  BY <1>1 DEF Stepped, Whole

-----------------------------------------------------------------------------
(* A subtree that moves.                                                   *)

\* A family is what is at or below its head.
LEMMA FamilyIs ==
  ASSUME NEW tr, IsTree(tr), NEW p \in DOMAIN tr
  PROVE  Family(tr, p) = {q \in DOMAIN tr : AtOrBelow(q, p)}
  BY DEF Family, Below, AtOrBelow

\* The head of a family that moves comes to be what it is moved to.
LEMMA RebasedTop ==
  ASSUME NEW from \in Paths, NEW to \in Paths
  PROVE  Rebased(from, from, to) = to
<1>1. AtOrBelow(from, from)
  BY DEF AtOrBelow
<1>2. PICK x : x = Rebased(from, from, to)
  OBVIOUS
<1>3. x \in Paths /\ AtOrBelow(x, to) /\ Len(x) = Len(to) + (Len(from) - Len(from))
  BY <1>1, <1>2, RebasedBelow
<1>4. Len(to) \in Nat /\ Len(from) \in Nat
  BY PathIs
<1>5. Len(x) = Len(to)
  BY <1>3, <1>4
<1>6. ~Descends(x, to)
  BY <1>3, <1>4, <1>5, DescendsNot
<1>7. QED
  BY <1>2, <1>3, <1>6 DEF AtOrBelow

\* Nothing is where the subtree goes, so what goes and what stays keep apart.
LEMMA MoveApart ==
  ASSUME NEW tr, IsTree(tr), NEW from \in DOMAIN tr, NEW to \in Paths, to # <<>>,
         to \notin DOMAIN tr, IsDir(tr, Parent(to)), ~Descends(to, from)
  PROVE  /\ Below(tr, to) = {}
         /\ \A q \in Family(tr, from) :
              /\ q \in DOMAIN tr /\ AtOrBelow(q, from)
              /\ Rebased(q, from, to) \in Paths /\ AtOrBelow(Rebased(q, from, to), to)
              /\ Rebased(q, from, to) \notin DOMAIN tr
              /\ Rebased(Rebased(q, from, to), to, from) = q
         /\ Rebased(from, from, to) = to /\ from \in Family(tr, from)
<1>1. from \in Paths /\ IsTree(tr)
  BY NodeIs
<1>2. ~IsDir(tr, to)
  BY HasIs
<1>3. \A q \in DOMAIN tr : ~Descends(q, to)
  BY <1>2, NothingBelow
<1>4. Below(tr, to) = {}
  BY <1>3 DEF Below
<1>5. Family(tr, from) = {q \in DOMAIN tr : AtOrBelow(q, from)}
  BY FamilyIs
<1>6. ASSUME NEW q \in Family(tr, from)
      PROVE  /\ q \in DOMAIN tr /\ AtOrBelow(q, from)
             /\ Rebased(q, from, to) \in Paths /\ AtOrBelow(Rebased(q, from, to), to)
             /\ Rebased(q, from, to) \notin DOMAIN tr
             /\ Rebased(Rebased(q, from, to), to, from) = q
  <2>1. q \in DOMAIN tr /\ AtOrBelow(q, from) /\ q \in Paths
    BY <1>5, NodeIs
  <2>2. /\ Rebased(q, from, to) \in Paths /\ AtOrBelow(Rebased(q, from, to), to)
        /\ Rebased(Rebased(q, from, to), to, from) = q
    BY <1>1, <2>1, RebasedBelow
  <2>3. Rebased(q, from, to) \notin DOMAIN tr
    BY <1>3, <2>2 DEF AtOrBelow
  <2>4. QED
    BY <2>1, <2>2, <2>3
<1>7. Rebased(from, from, to) = to
  BY <1>1, RebasedTop
<1>8. from \in Family(tr, from)
  BY DEF Family
<1>9. QED
  BY <1>4, <1>6, <1>7, <1>8

\* A move takes the whole family along, to a place where nothing was.
LEMMA MoveStep ==
  ASSUME NEW st, Whole(st), NEW from \in DOMAIN st.tree, NEW to \in Paths, to # <<>>,
         to \notin DOMAIN st.tree, IsDir(st.tree, Parent(to)), ~Descends(to, from)
  PROVE  /\ Whole(Stepped(st, Move(to, from)))
         /\ DOMAIN Stepped(st, Move(to, from)).tree =
              (DOMAIN st.tree \ Family(st.tree, from))
                \cup {Rebased(q, from, to) : q \in Family(st.tree, from)}
         /\ \A q \in DOMAIN st.tree \ Family(st.tree, from) :
              Stepped(st, Move(to, from)).tree[q] = st.tree[q]
         /\ UsedBytes(Stepped(st, Move(to, from)).tree) = UsedBytes(st.tree)
<1>1. PICK tr : tr = st.tree
  OBVIOUS
<1>2. IsTree(tr) /\ st.ok = TRUE /\ st.used = UsedBytes(tr) /\ from \in DOMAIN tr
      /\ to \notin DOMAIN tr /\ IsDir(tr, Parent(to)) /\ ~Descends(to, from)
  BY <1>1 DEF Whole
<1> DEFINE s == Move(to, from)
           F == Family(tr, from)
           G == {Rebased(q, from, to) : q \in F}
           m == Moved(tr, from, to)
           b == [m EXCEPT ![to].origin = "user"]
<1>3. s.op = "move" /\ s.path = to /\ s.from = from /\ s.origin = "user"
  BY DEF Move
<1> HIDE DEF s
<1>4. /\ Below(tr, to) = {}
      /\ \A q \in F :
           /\ q \in DOMAIN tr /\ AtOrBelow(q, from)
           /\ Rebased(q, from, to) \in Paths /\ AtOrBelow(Rebased(q, from, to), to)
           /\ Rebased(q, from, to) \notin DOMAIN tr
           /\ Rebased(Rebased(q, from, to), to, from) = q
      /\ Rebased(from, from, to) = to /\ from \in F
  BY <1>2, MoveApart
<1>5. from \in Paths /\ from # <<>> /\ IsDir(tr, Parent(from)) /\ tr \in [DOMAIN tr -> Nodes]
      /\ IsFiniteSet(DOMAIN tr)
  BY <1>2, NodeIs DEF IsTree
<1>6. Stepped(st, s) = [ok |-> TRUE, tree |-> b, used |-> st.used]
  BY <1>1, <1>2, <1>3, <1>5 DEF Stepped
<1>7. F = {q \in DOMAIN tr : AtOrBelow(q, from)}
  BY <1>2, FamilyIs
<1>8. Family(tr, to) = {to}
  BY <1>4 DEF Family
<1>9. (DOMAIN tr \ F) \ Family(tr, to) = DOMAIN tr \ F
  BY <1>2, <1>8
<1>10. m = [p \in (DOMAIN tr \ F) \cup G |-> IF p \in G THEN tr[Rebased(p, to, from)] ELSE tr[p]]
  BY <1>9 DEF Moved
<1>11. to \in G
  BY <1>4
<1>12. \A x \in G : x \notin DOMAIN tr /\ x \in Paths /\ AtOrBelow(x, to)
                    /\ Rebased(x, to, from) \in F
  BY <1>4
<1> HIDE DEF F, m
<1>13. /\ DOMAIN m = (DOMAIN tr \ F) \cup G
       /\ \A x \in DOMAIN tr \ F : m[x] = tr[x]
       /\ \A q \in F : m[Rebased(q, from, to)] = tr[q]
  <2>1. DOMAIN m = (DOMAIN tr \ F) \cup G
    BY <1>10
  <2>2. \A x \in DOMAIN tr \ F : x \notin G
    BY <1>12
  <2>3. \A x \in DOMAIN tr \ F : m[x] = tr[x]
    BY <1>10, <2>2
  <2>4. ASSUME NEW q \in F PROVE m[Rebased(q, from, to)] = tr[q]
    <3>1. PICK x \in G : x = Rebased(q, from, to)
      OBVIOUS
    <3>2. m[x] = tr[Rebased(x, to, from)]
      BY <1>10
    <3>3. Rebased(x, to, from) = q
      BY <1>4, <3>1
    <3>4. QED
      BY <3>1, <3>2, <3>3
  <2>5. QED
    BY <2>1, <2>3, <2>4
<1>14. m[to] = tr[from] /\ tr[from] \in Nodes
  BY <1>2, <1>4, <1>5, <1>13
<1>15. PICK n : n = [m[to] EXCEPT !.origin = "user"]
  OBVIOUS
<1>16. n \in Nodes /\ n.kind = tr[from].kind /\ n.data = tr[from].data
  BY <1>14, <1>15 DEF Nodes
<1>17. DOMAIN b = DOMAIN m /\ b[to] = n /\ \A x \in DOMAIN m : x # to => b[x] = m[x]
  BY <1>11, <1>13, <1>15
<1>18. b = [x \in DOMAIN b |-> b[x]]
  OBVIOUS
<1> HIDE DEF b, G
<1>19. DOMAIN b = (DOMAIN tr \ F) \cup G
  BY <1>13, <1>17
<1>20. \A x \in DOMAIN tr \ F : b[x] = tr[x]
  BY <1>2, <1>13, <1>17
<1>21. \A q \in F : Rebased(q, from, to) \in G
  BY DEF G
<1>22. \A q \in F : /\ b[Rebased(q, from, to)] \in Nodes
                    /\ b[Rebased(q, from, to)].kind = tr[q].kind
                    /\ b[Rebased(q, from, to)].data = tr[q].data
  <2>1. ASSUME NEW q \in F
        PROVE  /\ b[Rebased(q, from, to)] \in Nodes
               /\ b[Rebased(q, from, to)].kind = tr[q].kind
               /\ b[Rebased(q, from, to)].data = tr[q].data
    <3>1. PICK x : x = Rebased(q, from, to)
      OBVIOUS
    <3>2. x \in DOMAIN m /\ m[x] = tr[q] /\ tr[q] \in Nodes
      BY <1>4, <1>5, <1>13, <1>21, <3>1
    <3>3. CASE x = to
      <4>1. tr[q] = tr[from]
        BY <1>14, <3>2, <3>3
      <4>2. QED
        BY <1>16, <1>17, <3>1, <3>3, <4>1
    <3>4. CASE x # to
      BY <1>17, <3>1, <3>2, <3>4
    <3>5. QED
      BY <3>3, <3>4
  <2>2. QED
    BY <2>1
<1>23. \A x \in G : \E q \in F : x = Rebased(q, from, to)
  BY DEF G
<1>24. b \in [DOMAIN b -> Nodes]
  <2>1. \A x \in DOMAIN b : b[x] \in Nodes
    BY <1>5, <1>19, <1>20, <1>22, <1>23
  <2>2. QED
    BY <1>18, <2>1
<1> DEFINE f == [q \in DOMAIN tr |-> IF q \in F THEN Rebased(q, from, to) ELSE q]
<1>25. f \in Bijection(DOMAIN tr, DOMAIN b)
  <2>1. \A q \in DOMAIN tr : /\ q \in F => f[q] = Rebased(q, from, to) /\ f[q] \in G
                             /\ q \notin F => f[q] = q /\ f[q] \notin G
    BY <1>12, <1>21
  <2>2. f \in [DOMAIN tr -> DOMAIN b]
    BY <1>19, <1>21
  <2>3. ASSUME NEW p \in DOMAIN tr, NEW q \in DOMAIN tr, f[p] = f[q] PROVE p = q
    <3>1. p \in F <=> q \in F
      BY <2>1, <2>3
    <3>2. CASE p \in F
      <4>1. Rebased(p, from, to) = Rebased(q, from, to)
        BY <2>1, <2>3, <3>1, <3>2
      <4>2. QED
        BY <1>4, <3>1, <3>2, <4>1
    <3>3. CASE p \notin F
      BY <2>1, <2>3, <3>1, <3>3
    <3>4. QED
      BY <3>2, <3>3
  <2>4. ASSUME NEW y \in DOMAIN b PROVE \E q \in DOMAIN tr : f[q] = y
    <3>1. CASE y \in G
      <4>1. PICK q \in F : y = Rebased(q, from, to)
        BY <1>23, <3>1
      <4>2. q \in DOMAIN tr /\ f[q] = y
        BY <1>4, <2>1, <4>1
      <4>3. QED
        BY <4>2
    <3>2. CASE y \notin G
      <4>1. y \in DOMAIN tr /\ f[y] = y
        BY <1>19, <2>1, <3>2
      <4>2. QED
        BY <4>1
    <3>3. QED
      BY <3>1, <3>2
  <2> HIDE DEF f
  <2>5. QED
    BY <2>2, <2>3, <2>4 DEF Bijection, Injection, Surjection, IsInjective
<1>26. Shelf(tr)
  BY <1>2, TreeIsShelf
<1>27. Shelf(b)
  <2>1. ExistsBijection(DOMAIN tr, DOMAIN b)
    BY <1>25, Zenon DEF ExistsBijection
  <2>2. IsFiniteSet(DOMAIN b)
    BY <1>5, <2>1, FS_Bijection
  <2>3. QED
    BY <1>24, <2>2 DEF Shelf
<1>28. \A q \in DOMAIN tr : Size(b[f[q]]) = Size(tr[q])
  <2>1. ASSUME NEW q \in DOMAIN tr PROVE Size(b[f[q]]) = Size(tr[q])
    <3>1. CASE q \in F
      <4>1. f[q] = Rebased(q, from, to)
        BY <3>1
      <4>2. b[f[q]].kind = tr[q].kind /\ b[f[q]].data = tr[q].data
        BY <1>22, <3>1, <4>1
      <4>3. QED
        BY <4>2, Zenon DEF Size
    <3>2. CASE q \notin F
      <4>1. f[q] = q
        BY <3>2
      <4>2. QED
        BY <1>20, <3>2, <4>1
    <3>3. QED
      BY <3>1, <3>2
  <2>2. QED
    BY <2>1
<1> HIDE DEF f
<1>29. UsedBytes(b) = UsedBytes(tr)
  BY <1>25, <1>26, <1>27, <1>28, BytesCarried
<1>30. IsTree(b)
  <2>1. DOMAIN b \subseteq Paths \ {<<>>}
    <3>1. \A x \in G : x # <<>>
      <4>1. ASSUME NEW x \in G PROVE x # <<>>
        <5>1. x \in Paths /\ (x = to \/ Descends(x, to))
          BY <1>12 DEF AtOrBelow, G
        <5>2. QED
          BY <5>1, DescendsNot
      <4>2. QED
        BY <4>1
    <3>2. \A x \in G : x \in Paths
      BY <1>12 DEF G
    <3>3. QED
      BY <1>2, <1>19, <3>1, <3>2 DEF IsTree
  <2>2. ASSUME NEW x \in Paths, IsDir(tr, x), x \notin F PROVE IsDir(b, x)
    <3>1. CASE x = <<>>
      BY <3>1, RootIs
    <3>2. CASE x # <<>>
      <4>1. x \in DOMAIN tr /\ tr[x].kind = "dir"
        BY <1>2, <2>2, <3>2, HasIs
      <4>2. x \in DOMAIN b /\ b[x].kind = "dir"
        BY <1>19, <1>20, <2>2, <4>1
      <4>3. QED
        BY <3>2, <4>2 DEF IsDir, Has, Node
    <3>3. QED
      BY <3>1, <3>2
  <2>3. ASSUME NEW x \in DOMAIN tr \ F PROVE IsDir(b, Parent(x))
    <3>1. x \in Paths /\ x # <<>> /\ Parent(x) \in Paths /\ IsDir(tr, Parent(x))
      BY <1>2, NodeIs
    <3>2. Parent(x) \notin F
      <4>1. ASSUME Parent(x) \in F PROVE FALSE
        <5>1. AtOrBelow(Parent(x), from)
          BY <1>7, <4>1
        <5>2. Descends(x, Parent(x))
          BY <3>1, ParentIs
        <5>3. Descends(x, from)
          BY <1>5, <3>1, <5>1, <5>2, DescendsOn DEF AtOrBelow
        <5>4. QED
          BY <1>7, <5>3 DEF AtOrBelow
      <4>2. QED
        BY <4>1
    <3>3. QED
      BY <2>2, <3>1, <3>2
  <2>4. IsDir(b, Parent(to))
    <3>1. Parent(to) \in Paths /\ Descends(to, Parent(to))
      BY ParentIs
    <3>2. Parent(to) \notin F
      <4>1. ASSUME Parent(to) \in F PROVE FALSE
        <5>1. AtOrBelow(Parent(to), from)
          BY <1>7, <4>1
        <5>2. Descends(to, from)
          BY <1>5, <3>1, <5>1, DescendsOn DEF AtOrBelow
        <5>3. QED
          BY <1>2, <5>2
      <4>2. QED
        BY <4>1
    <3>3. QED
      BY <1>2, <2>2, <3>1, <3>2
  <2>5. ASSUME NEW q \in F, q # from PROVE IsDir(b, Parent(Rebased(q, from, to)))
    <3>1. q \in DOMAIN tr /\ Descends(q, from)
      BY <1>7, <2>5 DEF AtOrBelow
    <3>2. q \in Paths /\ Parent(q) \in Paths /\ IsDir(tr, Parent(q))
      BY <1>2, <3>1, NodeIs
    <3>3. /\ AtOrBelow(Parent(q), from)
          /\ Parent(Rebased(q, from, to)) = Rebased(Parent(q), from, to)
      BY <1>5, <3>1, <3>2, RebasedParent
    <3>4. Parent(q) # <<>>
      BY <1>5, <3>2, <3>3, DescendsNot DEF AtOrBelow
    <3>5. Parent(q) \in DOMAIN tr /\ tr[Parent(q)].kind = "dir"
      BY <1>2, <3>2, <3>4, HasIs
    <3>6. Parent(q) \in F
      BY <1>7, <3>3, <3>5
    <3>7. PICK x : x = Rebased(Parent(q), from, to)
      OBVIOUS
    <3>8. x \in G /\ b[x].kind = "dir" /\ x \in DOMAIN b
      BY <1>19, <1>21, <1>22, <3>5, <3>6, <3>7
    <3>9. x # <<>>
      BY <2>1, <3>8
    <3>10. IsDir(b, x)
      BY <3>8, <3>9 DEF IsDir, Has, Node
    <3>11. QED
      BY <3>3, <3>7, <3>10
  <2>6. ASSUME NEW x \in DOMAIN b PROVE IsDir(b, Parent(x))
    <3>1. CASE x \in G
      <4>1. PICK q \in F : x = Rebased(q, from, to)
        BY <1>23, <3>1
      <4>2. CASE q = from
        BY <1>4, <2>4, <4>1, <4>2
      <4>3. CASE q # from
        BY <2>5, <4>1, <4>3
      <4>4. QED
        BY <4>2, <4>3
    <3>2. CASE x \notin G
      BY <1>19, <2>3, <3>2
    <3>3. QED
      BY <3>1, <3>2
  <2>7. QED
    BY <1>24, <1>27, <2>1, <2>6 DEF IsTree, Shelf
<1>31. Whole(Stepped(st, s)) /\ Stepped(st, s).tree = b
  BY <1>2, <1>6, <1>29, <1>30 DEF Whole
<1>32. QED
  BY <1>1, <1>19, <1>20, <1>29, <1>31 DEF s, F, G

-----------------------------------------------------------------------------
(* The same steps on the same tree.                                        *)

\* The steps plans are made of.
Ops == {"mkdir", "put", "remove", "move", "mode", "times"}
\* What a step or a run makes of a tree, and whether it does, apart from the bytes
\* that it has counted.
Alike(a, b) ==
  /\ a.ok = b.ok /\ a.tree = b.tree /\ a.ok \in BOOLEAN
  /\ DOMAIN a = {"ok", "tree", "used"} /\ DOMAIN b = {"ok", "tree", "used"}

\* Runs that are alike fail alike.
LEMMA AlikeFail ==
  ASSUME NEW a, NEW b, Alike(a, b)
  PROVE  Alike([a EXCEPT !.ok = FALSE], [b EXCEPT !.ok = FALSE])
<1>1. /\ a.ok = b.ok /\ a.tree = b.tree
      /\ DOMAIN a = {"ok", "tree", "used"} /\ DOMAIN b = {"ok", "tree", "used"}
  BY DEF Alike
<1>2. "tree" # "ok" /\ "ok" \in DOMAIN a /\ "tree" \in DOMAIN a /\ "ok" \in DOMAIN b /\ "tree" \in DOMAIN b
  BY <1>1
<1>3. [a EXCEPT !.ok = FALSE].ok = FALSE /\ [a EXCEPT !.ok = FALSE].tree = a.tree
      /\ DOMAIN [a EXCEPT !.ok = FALSE] = DOMAIN a
  BY <1>2
<1>4. [b EXCEPT !.ok = FALSE].ok = FALSE /\ [b EXCEPT !.ok = FALSE].tree = b.tree
      /\ DOMAIN [b EXCEPT !.ok = FALSE] = DOMAIN b
  BY <1>2
<1>5. QED
  BY <1>1, <1>3, <1>4, Zenon DEF Alike

\* Runs that end in the same tree are alike.
LEMMA AlikeTo ==
  \A t, u, v : Alike([ok |-> TRUE, tree |-> t, used |-> u], [ok |-> TRUE, tree |-> t, used |-> v])
  BY DEF Alike

\* A step does the same whatever has been counted.
LEMMA AlikeStep ==
  ASSUME NEW a, NEW b, Alike(a, b), NEW s, s.op \in Ops
  PROVE  Alike(Stepped(a, s), Stepped(b, s))
<1>1. PICK tr : a.tree = tr /\ b.tree = tr
  BY DEF Alike
<1>2. CASE ~a.ok
  <2>1. ~b.ok
    BY <1>2 DEF Alike
  <2>2. Stepped(a, s) = a /\ Stepped(b, s) = b
    BY <1>2, <2>1 DEF Stepped
  <2>3. QED
    BY <2>2
<1>3. CASE a.ok
  <2> DEFINE up == IsDir(tr, Parent(s.path))
             there == s.path \in DOMAIN tr
             old == IF there THEN tr[s.path] ELSE Root
             Got(t, u) == [ok |-> TRUE, tree |-> t, used |-> u]
             A == [a EXCEPT !.ok = FALSE]
             B == [b EXCEPT !.ok = FALSE]
  <2>0. a.ok /\ b.ok /\ a.tree = tr /\ b.tree = tr
    BY <1>1, <1>3 DEF Alike
  <2>1. Alike(A, B)
    BY AlikeFail
  <2>2. \A t, u, v : Alike(Got(t, u), Got(t, v))
    BY AlikeTo
  <2>3. CASE s.op = "remove"
    <3>1. CASE up /\ there
      <4>1. /\ Stepped(a, s) = Got(Without(tr, Family(tr, s.path)), a.used - Size(old))
            /\ Stepped(b, s) = Got(Without(tr, Family(tr, s.path)), b.used - Size(old))
        BY <2>0, <2>3, <3>1 DEF Stepped
      <4>2. QED
        BY <2>2, <4>1
    <3>2. CASE ~(up /\ there)
      <4>1. Stepped(a, s) = A /\ Stepped(b, s) = B
        BY <2>0, <2>3, <3>2 DEF Stepped
      <4>2. QED
        BY <2>1, <4>1
    <3>3. QED
      BY <3>1, <3>2
  <2>4. CASE s.op = "move"
    <3>1. CASE IsDir(tr, Parent(s.from)) /\ s.from \in DOMAIN tr /\ up
      <4>1. /\ Stepped(a, s) = Got([Moved(tr, s.from, s.path) EXCEPT ![s.path].origin = s.origin], a.used)
            /\ Stepped(b, s) = Got([Moved(tr, s.from, s.path) EXCEPT ![s.path].origin = s.origin], b.used)
        BY <2>0, <2>4, <3>1 DEF Stepped
      <4>2. QED
        BY <2>2, <4>1
    <3>2. CASE ~(IsDir(tr, Parent(s.from)) /\ s.from \in DOMAIN tr /\ up)
      <4>1. Stepped(a, s) = A /\ Stepped(b, s) = B
        BY <2>0, <2>4, <3>2 DEF Stepped
      <4>2. QED
        BY <2>1, <4>1
    <3>3. QED
      BY <3>1, <3>2
  <2>5. CASE s.op = "mode"
    <3>1. CASE there
      <4>1. /\ Stepped(a, s) = Got([tr EXCEPT ![s.path].own = s.mode], a.used)
            /\ Stepped(b, s) = Got([tr EXCEPT ![s.path].own = s.mode], b.used)
        BY <2>0, <2>5, <3>1 DEF Stepped
      <4>2. QED
        BY <2>2, <4>1
    <3>2. CASE ~(there)
      <4>1. Stepped(a, s) = A /\ Stepped(b, s) = B
        BY <2>0, <2>5, <3>2 DEF Stepped
      <4>2. QED
        BY <2>1, <4>1
    <3>3. QED
      BY <3>1, <3>2
  <2>6. CASE s.op = "times"
    <3>1. CASE there
      <4>1. /\ Stepped(a, s) = a
            /\ Stepped(b, s) = b
        BY <2>0, <2>6, <3>1 DEF Stepped
      <4>2. QED
        BY <2>2, <4>1
    <3>2. CASE ~(there)
      <4>1. Stepped(a, s) = A /\ Stepped(b, s) = B
        BY <2>0, <2>6, <3>2 DEF Stepped
      <4>2. QED
        BY <2>1, <4>1
    <3>3. QED
      BY <3>1, <3>2
  <2>7. CASE s.op = "mkdir"
    <3>1. CASE ~up \/ (there /\ old.kind # "dir")
      <4>1. Stepped(a, s) = A /\ Stepped(b, s) = B
        BY <2>0, <2>7, <3>1 DEF Stepped
      <4>2. QED
        BY <2>1, <4>1
    <3>2. CASE up /\ there /\ old.kind = "dir"
      <4>1. /\ Stepped(a, s) = a
            /\ Stepped(b, s) = b
        BY <2>0, <2>7, <3>2 DEF Stepped
      <4>2. QED
        BY <2>2, <4>1
    <3>3. CASE up /\ ~there
      <4>1. /\ Stepped(a, s) = Got(With(tr, s.path, Born("dir", s, s.origin)), a.used)
            /\ Stepped(b, s) = Got(With(tr, s.path, Born("dir", s, s.origin)), b.used)
        BY <2>0, <2>7, <3>3 DEF Stepped
      <4>2. QED
        BY <2>2, <4>1
    <3>4. QED
      BY <3>1, <3>2, <3>3
  <2>8. CASE s.op = "put"
    <3>1. CASE ~up \/ (there /\ old.kind # "file")
      <4>1. Stepped(a, s) = A /\ Stepped(b, s) = B
        BY <2>0, <2>8, <3>1 DEF Stepped
      <4>2. QED
        BY <2>1, <4>1
    <3>2. CASE up /\ there /\ old.kind = "file"
      <4>1. /\ Stepped(a, s) = Got([tr EXCEPT ![s.path].data = s.data, ![s.path].origin = s.origin],
                                   a.used + Len(s.data) - Len(old.data))
            /\ Stepped(b, s) = Got([tr EXCEPT ![s.path].data = s.data, ![s.path].origin = s.origin],
                                   b.used + Len(s.data) - Len(old.data))
        BY <2>0, <2>8, <3>2 DEF Stepped
      <4>2. QED
        BY <2>2, <4>1
    <3>3. CASE up /\ ~there
      <4>1. /\ Stepped(a, s) = Got(With(tr, s.path, Born("file", s, s.origin)), a.used + Len(s.data))
            /\ Stepped(b, s) = Got(With(tr, s.path, Born("file", s, s.origin)), b.used + Len(s.data))
        BY <2>0, <2>8, <3>3 DEF Stepped
      <4>2. QED
        BY <2>2, <4>1
    <3>4. QED
      BY <3>1, <3>2, <3>3
  <2>9. QED
    BY <2>3, <2>4, <2>5, <2>6, <2>7, <2>8 DEF Ops
<1>4. QED
  BY <1>2, <1>3

\* So replaying steps gives the tree that applying them gave.
LEMMA AlikeRun ==
  ASSUME NEW tr, NEW u, NEW v, NEW steps, Len(steps) \in Nat,
         \A i \in 1..Len(steps) : steps[i].op \in Ops
  PROVE  /\ Applied(tr, u, steps).tree = Applied(tr, v, steps).tree
         /\ Applied(tr, u, steps).ok = Applied(tr, v, steps).ok
<1> DEFINE n == Len(steps)
           A == Run(tr, u, steps)
           B == Run(tr, v, steps)
           M == {i \in 0..n : Alike(A[i], B[i])}
<1>1. /\ A[0] = Start(tr, u) /\ \A i \in 1..n : A[i] = Stepped(A[i - 1], steps[i])
      /\ B[0] = Start(tr, v) /\ \A i \in 1..n : B[i] = Stepped(B[i - 1], steps[i])
  BY RunIs
<1> HIDE DEF A, B
<1>2. 0 \in M
  <2>1. Alike(A[0], B[0])
    BY <1>1, AlikeTo DEF Start
  <2>2. 0 \in 0..n
    OBVIOUS
  <2>3. QED
    BY <2>1, <2>2
<1>3. ASSUME NEW i \in 1..n, i - 1 \in M PROVE i \in M
  <2>1. Alike(A[i - 1], B[i - 1]) /\ steps[i].op \in Ops
    BY <1>3
  <2>2. Alike(Stepped(A[i - 1], steps[i]), Stepped(B[i - 1], steps[i]))
    BY <2>1, AlikeStep
  <2>3. i \in 0..n
    OBVIOUS
  <2>4. QED
    BY <1>1, <2>2, <2>3
<1>4. n \in M
  <2>1. \A i \in 0..n : i \in M
    <3>1. n \in Nat
      OBVIOUS
    <3> HIDE DEF M, n
    <3>2. QED
      BY <1>2, <1>3, <3>1, Stair
  <2>2. n \in 0..n
    OBVIOUS
  <2>3. QED
    BY <2>1, <2>2, Zenon
<1>5. Alike(A[n], B[n])
  BY <1>4
<1>6. QED
  BY <1>5 DEF Applied, Alike, A, B

\* A run of no step,
LEMMA NoStep ==
  ASSUME NEW tr, NEW bytes, NEW steps, Len(steps) = 0
  PROVE  Applied(tr, bytes, steps) = Start(tr, bytes)
  BY RunIs DEF Applied

\* of one,
LEMMA OneStep ==
  ASSUME NEW tr, NEW bytes, NEW s
  PROVE  Applied(tr, bytes, <<s>>) = Stepped(Start(tr, bytes), s)
<1>1. PICK steps : steps = <<s>>
  OBVIOUS
<1>2. Len(steps) = 1 /\ steps[1] = s
  BY <1>1
<1>3. 1 \in 1..Len(steps) /\ 1 - 1 = 0
  BY <1>2
<1>4. /\ Run(tr, bytes, steps)[0] = Start(tr, bytes)
      /\ Run(tr, bytes, steps)[1] = Stepped(Run(tr, bytes, steps)[1 - 1], steps[1])
  BY <1>2, <1>3, RunIs
<1>5. QED
  BY <1>1, <1>2, <1>3, <1>4 DEF Applied

\* and of two.
LEMMA TwoSteps ==
  ASSUME NEW tr, NEW bytes, NEW r, NEW s
  PROVE  Applied(tr, bytes, <<r, s>>) = Stepped(Stepped(Start(tr, bytes), r), s)
<1>1. PICK steps : steps = <<r, s>>
  OBVIOUS
<1>2. Len(steps) = 2 /\ steps[1] = r /\ steps[2] = s
  BY <1>1
<1>3. 1 \in 1..Len(steps) /\ 1 - 1 = 0 /\ 2 \in 1..Len(steps) /\ 2 - 1 = 1
  BY <1>2
<1>4. Len(steps) \in Nat
  BY <1>2
<1>5. Run(tr, bytes, steps)[0] = Start(tr, bytes)
  BY <1>4, RunIs
<1>6. /\ Run(tr, bytes, steps)[1] = Stepped(Run(tr, bytes, steps)[1 - 1], steps[1])
      /\ Run(tr, bytes, steps)[2] = Stepped(Run(tr, bytes, steps)[2 - 1], steps[2])
  BY <1>3, <1>4, RunIs
<1>7. QED
  BY <1>1, <1>2, <1>3, <1>5, <1>6, Zenon DEF Applied

-----------------------------------------------------------------------------
(* The way to a path.                                                      *)

\* A beginning of a beginning is a beginning.
LEMMA CutAgain ==
  ASSUME NEW p \in Paths, NEW n \in Nat, n <= Len(p), NEW m \in Nat, m <= n
  PROVE  SubSeq(SubSeq(p, 1, n), 1, m) = SubSeq(p, 1, m)
<1>1. PICK q : q = SubSeq(p, 1, n)
  OBVIOUS
<1>2. q \in Paths /\ Len(q) = n /\ \A i \in 1..n : q[i] = p[i]
  BY <1>1, CutIs
<1>3. Len(p) \in Nat /\ m <= Len(p) /\ m <= Len(q)
  BY <1>2, PathIs
<1>4. PICK x, y : x = SubSeq(q, 1, m) /\ y = SubSeq(p, 1, m)
  OBVIOUS
<1>5. x \in Paths /\ Len(x) = m /\ \A i \in 1..m : x[i] = q[i]
  BY <1>2, <1>3, <1>4, CutIs
<1>6. y \in Paths /\ Len(y) = m /\ \A i \in 1..m : y[i] = p[i]
  BY <1>3, <1>4, CutIs
<1>7. \A i \in 1..m : i \in 1..n
  OBVIOUS
<1>8. \A i \in 1..m : x[i] = y[i]
  BY <1>2, <1>5, <1>6, <1>7
<1>9. x = y
  BY <1>5, <1>6, <1>8, SamePath
<1>10. QED
  BY <1>1, <1>4, <1>9

\* The beginnings of a path, from the root to itself.
LEMMA CutsAre ==
  ASSUME NEW p \in Paths
  PROVE  /\ SubSeq(p, 1, 0) = <<>> /\ SubSeq(p, 1, Len(p)) = p
         /\ \A n \in 0..Len(p) : SubSeq(p, 1, n) \in Paths /\ Len(SubSeq(p, 1, n)) = n
         /\ \A n \in 1..Len(p) : SubSeq(p, 1, n) # <<>> /\ Parent(SubSeq(p, 1, n)) = SubSeq(p, 1, n - 1)
         /\ \A n \in 0..(Len(p) - 1) : Descends(p, SubSeq(p, 1, n))
<1>1. Len(p) \in Nat
  BY PathIs
<1>2. \A n \in 0..Len(p) : /\ n \in Nat /\ n <= Len(p) /\ SubSeq(p, 1, n) \in Paths
                           /\ Len(SubSeq(p, 1, n)) = n
                           /\ \A i \in 1..n : SubSeq(p, 1, n)[i] = p[i]
  BY <1>1, CutIs
<1>3. SubSeq(p, 1, 0) = <<>>
  BY <1>1, <1>2, RootPath
<1>4. SubSeq(p, 1, Len(p)) = p
  <2>1. PICK x : x = SubSeq(p, 1, Len(p))
    OBVIOUS
  <2>2. Len(p) \in 0..Len(p)
    BY <1>1
  <2>3. x \in Paths /\ Len(x) = Len(p) /\ \A i \in 1..Len(p) : x[i] = p[i]
    BY <1>2, <2>1, <2>2
  <2>4. QED
    BY <2>1, <2>3, SamePath
<1>5. ASSUME NEW n \in 1..Len(p)
      PROVE  SubSeq(p, 1, n) # <<>> /\ Parent(SubSeq(p, 1, n)) = SubSeq(p, 1, n - 1)
  <2>1. PICK q : q = SubSeq(p, 1, n)
    OBVIOUS
  <2>2. n \in 0..Len(p) /\ n # 0 /\ n - 1 \in Nat /\ n - 1 <= n
    BY <1>1
  <2>3. q \in Paths /\ Len(q) = n /\ n \in Nat /\ n <= Len(p)
    BY <1>2, <2>1, <2>2
  <2>4. q # <<>>
    BY <2>2, <2>3, RootPath
  <2>5. Parent(q) = SubSeq(q, 1, n - 1)
    BY <2>3 DEF Parent
  <2>6. SubSeq(SubSeq(p, 1, n), 1, n - 1) = SubSeq(p, 1, n - 1)
    BY <2>2, <2>3, CutAgain
  <2>7. QED
    BY <2>1, <2>4, <2>5, <2>6
<1>6. ASSUME NEW n \in 0..(Len(p) - 1) PROVE Descends(p, SubSeq(p, 1, n))
  <2>1. n \in 0..Len(p) /\ n < Len(p)
    BY <1>1
  <2>2. QED
    BY <1>2, <2>1, DescendsIs
<1>7. QED
  BY <1>2, <1>3, <1>4, <1>5, <1>6

\* What is at one of them.
LEMMA CutOf ==
  ASSUME NEW p \in Paths, NEW q \in Paths, AtOrBelow(p, q)
  PROVE  Len(q) \in 0..Len(p) /\ q = SubSeq(p, 1, Len(q))
<1>1. Len(p) \in Nat /\ Len(q) \in Nat
  BY PathIs
<1>2. Len(q) <= Len(p) /\ \A i \in 1..Len(q) : p[i] = q[i]
  BY AtOrBelowIs
<1>3. PICK x : x = SubSeq(p, 1, Len(q))
  OBVIOUS
<1>4. x \in Paths /\ Len(x) = Len(q) /\ \A i \in 1..Len(q) : x[i] = p[i]
  BY <1>1, <1>2, <1>3, CutIs
<1>5. x = q
  BY <1>2, <1>4, SamePath
<1>6. QED
  BY <1>1, <1>2, <1>3, <1>5

\* Max of numbers up to n is one of them and the largest.
LEMMA LargestIs ==
  ASSUME NEW n \in Nat, NEW S \in SUBSET (0..n), S # {}
  PROVE  Max(S) \in S /\ \A i \in S : i <= Max(S)
<1> DEFINE T == {n - i : i \in S}
<1>1. T \in SUBSET Nat /\ T # {}
  OBVIOUS
<1>2. PICK k \in T : \A j \in T : ~(<<j, k>> \in OpToRel(<, Nat))
  BY <1>1, WFMin, NatLessThanWellFounded, Zenon
<1>3. \A j \in T : ~(j < k)
  BY <1>1, <1>2 DEF OpToRel
<1>4. PICK m \in S : k = n - m
  BY <1>2
<1>5. \A i \in S : ~(n - i < n - m)
  BY <1>3, <1>4
<1>6. \A i \in S : m >= i /\ i <= m
  <2>1. ASSUME NEW i \in S PROVE m >= i /\ i <= m
    <3>1. i \in Nat /\ m \in Nat /\ ~(n - i < n - m)
      BY <1>5
    <3>2. QED
      BY <3>1
  <2>2. QED
    BY <2>1
<1>7. \E x \in S : \A y \in S : x >= y
  BY <1>6
<1>8. Max(S) \in S /\ \A y \in S : Max(S) >= y
  BY <1>7, Zenon DEF Max
<1>9. QED
  BY <1>8

\* Min of numbers is one of them.
LEMMA SmallestIs ==
  ASSUME NEW S \in SUBSET Nat, S # {}
  PROVE  Min(S) \in S
<1>1. PICK k \in S : \A j \in S : ~(<<j, k>> \in OpToRel(<, Nat))
  BY WFMin, NatLessThanWellFounded, Zenon
<1>2. \A j \in S : ~(j < k)
  BY <1>1 DEF OpToRel
<1>3. \A j \in S : k =< j
  BY <1>2
<1>4. QED
  BY <1>3, Zenon DEF Min

\* A way that can be walked, and what is there or is not.
LEMMA WalkIs ==
  ASSUME NEW tr, IsTree(tr), NEW p \in Paths
  PROVE  /\ Walk(tr, p) = "ok" <=>
              \A i \in 0..(Len(p) - 1) :
                /\ IsDir(tr, SubSeq(p, 1, i)) /\ Can(tr, SubSeq(p, 1, i), {"x"})
                /\ Has(tr, SubSeq(p, 1, i + 1))
         /\ Walk(tr, p) = "ok" => Has(tr, p)
         /\ Walk(tr, p) = "missing" => ~Has(tr, p)
<1> DEFINE Good(i) == /\ IsDir(tr, SubSeq(p, 1, i)) /\ Can(tr, SubSeq(p, 1, i), {"x"})
                      /\ Has(tr, SubSeq(p, 1, i + 1))
           Stuck == {i \in 0..(Len(p) - 1) : ~Good(i)}
           d == SubSeq(p, 1, Min(Stuck))
<1>1. Len(p) \in Nat
  BY PathIs
<1>2. Walk(tr, p) = IF Stuck = {} THEN "ok"
                    ELSE IF IsDir(tr, d) /\ Can(tr, d, {"x"}) THEN "missing" ELSE "refused"
  BY DEF Walk
<1> HIDE DEF d
<1>3. Walk(tr, p) = "ok" <=> Stuck = {}
  BY <1>2
<1>4. Walk(tr, p) = "missing" => Stuck # {} /\ IsDir(tr, d) /\ Can(tr, d, {"x"})
  BY <1>2
<1>5. Walk(tr, p) = "ok" => Has(tr, p)
  <2>1. CASE Len(p) = 0
    BY <2>1, RootPath, RootIs
  <2>2. CASE Len(p) # 0
    <3>1. PICK i : i = Len(p) - 1
      OBVIOUS
    <3>2. i \in 0..(Len(p) - 1) /\ i + 1 = Len(p)
      BY <1>1, <2>2, <3>1
    <3>3. Stuck = {} => Has(tr, SubSeq(p, 1, i + 1))
      BY <3>2
    <3>4. SubSeq(p, 1, Len(p)) = p
      BY CutsAre
    <3>5. QED
      BY <1>3, <3>2, <3>3, <3>4
  <2>3. QED
    BY <2>1, <2>2
<1>6. ASSUME Walk(tr, p) = "missing", Has(tr, p) PROVE FALSE
  <2>1. Stuck \in SUBSET Nat /\ Stuck # {}
    BY <1>4, <1>6
  <2>2. PICK i : i = Min(Stuck)
    OBVIOUS
  <2>3. i \in Stuck
    BY <2>1, <2>2, SmallestIs
  <2>4. i \in 0..(Len(p) - 1) /\ ~Has(tr, SubSeq(p, 1, i + 1))
    BY <1>4, <1>6, <2>2, <2>3 DEF d
  <2>5. CASE i + 1 = Len(p)
    BY <1>6, <2>4, <2>5, CutsAre
  <2>6. CASE i + 1 # Len(p)
    <3>1. PICK j : j = i + 1
      OBVIOUS
    <3>2. j \in 0..(Len(p) - 1) /\ j \in 0..Len(p) /\ Len(p) # 0
      BY <1>1, <2>4, <2>6, <3>1
    <3>3. Descends(p, SubSeq(p, 1, j)) /\ SubSeq(p, 1, j) \in Paths
      BY <3>2, CutsAre
    <3>4. p \in DOMAIN tr
      BY <1>6, <3>2, RootPath DEF Has
    <3>5. IsDir(tr, SubSeq(p, 1, j))
      BY <3>3, <3>4, AncestorsAreDirs
    <3>6. QED
      BY <2>4, <3>1, <3>5 DEF IsDir
  <2>7. QED
    BY <2>5, <2>6
<1>7. Stuck = {} <=> \A i \in 0..(Len(p) - 1) : Good(i)
  OBVIOUS
<1>8. QED
  BY <1>3, <1>5, <1>6, <1>7

\* What is in a directory that can be entered can be walked to.
LEMMA WalkOn ==
  ASSUME NEW tr, IsTree(tr), NEW p \in Paths, p # <<>>, Enterable(tr, Parent(p)), Has(tr, p)
  PROVE  Walk(tr, p) = "ok"
<1>1. /\ Len(p) \in Nat \ {0} /\ Parent(p) \in Paths /\ Len(Parent(p)) = Len(p) - 1
  BY ParentIs
<1>2. Walk(tr, Parent(p)) = "ok" /\ IsDir(tr, Parent(p)) /\ Can(tr, Parent(p), {"w", "x"})
  BY DEF Enterable
<1>3. ASSUME NEW i \in 0..(Len(p) - 1)
      PROVE  /\ IsDir(tr, SubSeq(p, 1, i)) /\ Can(tr, SubSeq(p, 1, i), {"x"})
             /\ Has(tr, SubSeq(p, 1, i + 1))
  <2>1. CASE i = Len(p) - 1
    <3>1. SubSeq(p, 1, i) = Parent(p)
      BY <2>1 DEF Parent
    <3>2. SubSeq(p, 1, i + 1) = p
      BY <1>1, <2>1, CutsAre
    <3>3. Can(tr, Parent(p), {"x"})
      BY <1>2 DEF Can
    <3>4. QED
      BY <1>2, <3>1, <3>2, <3>3
  <2>2. CASE i # Len(p) - 1
    <3>1. i \in 0..(Len(Parent(p)) - 1)
      BY <1>1, <2>2
    <3>2. /\ IsDir(tr, SubSeq(Parent(p), 1, i)) /\ Can(tr, SubSeq(Parent(p), 1, i), {"x"})
          /\ Has(tr, SubSeq(Parent(p), 1, i + 1))
      BY <1>1, <1>2, <3>1, WalkIs
    <3>3. PICK n : n = Len(p) - 1
      OBVIOUS
    <3>4. n \in Nat /\ n <= Len(p) /\ i \in Nat /\ i <= n /\ i + 1 \in Nat /\ i + 1 <= n
      BY <1>1, <2>2, <3>3
    <3>5. SubSeq(SubSeq(p, 1, n), 1, i) = SubSeq(p, 1, i)
          /\ SubSeq(SubSeq(p, 1, n), 1, i + 1) = SubSeq(p, 1, i + 1)
      BY <3>4, CutAgain
    <3>6. Parent(p) = SubSeq(p, 1, n)
      BY <3>3 DEF Parent
    <3>7. QED
      BY <3>2, <3>5, <3>6
  <2>3. QED
    BY <2>1, <2>2
<1>4. QED
  BY <1>3, WalkIs

-----------------------------------------------------------------------------
(* Sequences of steps.                                                     *)

\* The length of a plan that is given by its steps.
LEMMA LenIs ==
  ASSUME NEW n \in Nat, NEW f, f = [i \in 1..n |-> f[i]]
  PROVE  Len(f) = n
<1>1. DOMAIN f = 1..n
  OBVIOUS
<1>2. f \in [1..n -> {f[i] : i \in 1..n}]
  OBVIOUS
<1>3. f \in Seq({f[i] : i \in 1..n})
  BY <1>2, SeqDef
<1>4. Len(f) \in Nat /\ DOMAIN f = 1..Len(f)
  BY <1>3, LenProperties
<1>5. QED
  BY <1>1, <1>4

\* One step more.
LEMMA AppendRun ==
  ASSUME NEW tr, NEW bytes, NEW T, NEW steps \in Seq(T), NEW s \in T
  PROVE  /\ Len(Append(steps, s)) = Len(steps) + 1 /\ Len(steps) \in Nat
         /\ \A i \in 1..Len(steps) : Append(steps, s)[i] = steps[i]
         /\ Append(steps, s)[Len(steps) + 1] = s
         /\ Applied(tr, bytes, Append(steps, s)) = Stepped(Applied(tr, bytes, steps), s)
<1> DEFINE n == Len(steps)
           more == Append(steps, s)
           A == Run(tr, bytes, steps)
           B == Run(tr, bytes, more)
           M == {i \in 0..n : A[i] = B[i]}
<1>1. n \in Nat
  OBVIOUS
<1>2. /\ Len(more) = n + 1 /\ \A i \in 1..n : more[i] = steps[i]
      /\ more[n + 1] = s
  BY AppendProperties
<1> HIDE DEF n, more
<1>3. A[0] = Start(tr, bytes) /\ \A i \in 1..n : A[i] = Stepped(A[i - 1], steps[i])
  BY <1>1, RunIs DEF n
<1>4. B[0] = Start(tr, bytes) /\ \A i \in 1..(n + 1) : B[i] = Stepped(B[i - 1], more[i])
  <2>1. Len(more) \in Nat
    BY <1>1, <1>2
  <2>2. QED
    BY <1>2, <2>1, RunIs
<1> HIDE DEF A, B
<1>5. 0 \in M
  BY <1>1, <1>3, <1>4
<1>6. ASSUME NEW i \in 1..n, i - 1 \in M PROVE i \in M
  <2>1. A[i - 1] = B[i - 1] /\ i \in 1..(n + 1) /\ i \in 0..n
    BY <1>1, <1>6
  <2>2. more[i] = steps[i]
    BY <1>2
  <2>3. A[i] = B[i]
    BY <1>3, <1>4, <2>1, <2>2
  <2>4. QED
    BY <2>1, <2>3
<1>7. n \in M
  <2>1. \A i \in 0..n : i \in M
    <3> HIDE DEF M
    <3>1. QED
      BY <1>1, <1>5, <1>6, Stair
  <2>2. n \in 0..n
    BY <1>1
  <2>3. QED
    BY <2>1, <2>2, Zenon
<1>8. A[n] = B[n]
  BY <1>7
<1>9. n + 1 \in 1..(n + 1) /\ (n + 1) - 1 = n
  BY <1>1
<1>10. B[n + 1] = Stepped(A[n], s)
  BY <1>2, <1>4, <1>8, <1>9
<1>11. Applied(tr, bytes, more) = Stepped(Applied(tr, bytes, steps), s)
  BY <1>2, <1>10 DEF Applied, A, B, n
<1>12. QED
  BY <1>1, <1>2, <1>11 DEF n, more

-----------------------------------------------------------------------------
(* mkdir with parents.                                                     *)

\* #deepestExisting ends in a directory, and so is all above it.
LEMMA DeepestExisting ==
  ASSUME NEW tr, IsTree(tr), NEW p \in Paths
  PROVE  \E d \in 0..Len(p) :
           /\ Deepest(tr, p) = SubSeq(p, 1, d) /\ Len(Deepest(tr, p)) = d
           /\ \A j \in 0..d : IsDir(tr, SubSeq(p, 1, j))
<1> DEFINE S == {i \in 0..Len(p) : \A j \in 0..i : IsDir(tr, SubSeq(p, 1, j))}
<1>1. Len(p) \in Nat
  BY PathIs
<1>2. 0 \in S
  <2>1. IsDir(tr, SubSeq(p, 1, 0))
    BY CutsAre, RootIs
  <2>2. QED
    BY <1>1, <2>1
<1>3. PICK d : d = Max(S)
  OBVIOUS
<1>4. d \in S
  <2>1. S \in SUBSET (0..Len(p)) /\ S # {}
    BY <1>2
  <2> HIDE DEF S
  <2>2. QED
    BY <1>1, <1>3, <2>1, LargestIs
<1>5. Deepest(tr, p) = SubSeq(p, 1, d)
  BY <1>3 DEF Deepest
<1>6. d \in 0..Len(p) /\ \A j \in 0..d : IsDir(tr, SubSeq(p, 1, j))
  BY <1>4
<1>7. Len(SubSeq(p, 1, d)) = d
  BY <1>6, CutsAre
<1>8. QED
  BY <1>5, <1>6, <1>7

\* Directories only, where nothing was, under one that could be written.
MadeWay(a, b, p) ==
  /\ IsTree(b) /\ UsedBytes(b) = UsedBytes(a) /\ IsDir(b, p)
  /\ DOMAIN a \subseteq DOMAIN b /\ \A q \in DOMAIN a : b[q] = a[q]
  /\ \A q \in DOMAIN b \ DOMAIN a :
       /\ q # <<>> /\ AtOrBelow(p, q)
       /\ Has(a, Parent(q)) => Can(a, Parent(q), {"w", "x"})

\* The steps of mkdir -p, from the deepest directory there is down to what is named.
LEMMA MkdirpRuns ==
  ASSUME NEW tr, IsTree(tr), NEW p \in Paths, NEW mode \in SUBSET rwx,
         NEW origin \in {"seed", "user"}, NEW n \in Nat, NEW d \in Nat, d + n = Len(p),
         \A j \in 0..d : IsDir(tr, SubSeq(p, 1, j)),
         n # 0 => /\ ~Has(tr, SubSeq(p, 1, d + 1)) /\ Can(tr, SubSeq(p, 1, d), {"w", "x"}),
         NEW steps, Len(steps) = n,
         \A i \in 1..n : steps[i] = Make(SubSeq(p, 1, d + i), mode, origin)
  PROVE  LET end == Applied(tr, UsedBytes(tr), steps)
         IN  Whole(end) /\ MadeWay(tr, end.tree, p)
<1> DEFINE At(i) == SubSeq(p, 1, d + i)
           A == Run(tr, UsedBytes(tr), steps)
           Fine(i) ==
             /\ Whole(A[i]) /\ UsedBytes(A[i].tree) = UsedBytes(tr) /\ IsDir(A[i].tree, At(i))
             /\ DOMAIN A[i].tree = DOMAIN tr \cup {At(j) : j \in 1..i}
             /\ \A q \in DOMAIN tr : A[i].tree[q] = tr[q]
           M == {i \in 0..n : Fine(i)}
<1>1. Len(p) \in Nat
  BY PathIs
<1>2. A[0] = Start(tr, UsedBytes(tr)) /\ \A i \in 1..n : A[i] = Stepped(A[i - 1], steps[i])
  BY RunIs
<1> HIDE DEF A
<1>3. \A i \in 0..n : At(i) \in Paths /\ Len(At(i)) = d + i /\ AtOrBelow(p, At(i))
  <2>1. ASSUME NEW i \in 0..n PROVE At(i) \in Paths /\ Len(At(i)) = d + i /\ AtOrBelow(p, At(i))
    <3>1. PICK k : k = d + i
      OBVIOUS
    <3>2. k \in 0..Len(p) /\ (k = Len(p) \/ k \in 0..(Len(p) - 1))
      BY <1>1, <3>1
    <3>3. SubSeq(p, 1, k) \in Paths /\ Len(SubSeq(p, 1, k)) = k /\ AtOrBelow(p, SubSeq(p, 1, k))
      BY <3>2, CutsAre DEF AtOrBelow
    <3>4. QED
      BY <3>1, <3>3
  <2>2. QED
    BY <2>1
<1>4. ASSUME NEW i \in 1..n
      PROVE  At(i) # <<>> /\ Parent(At(i)) = At(i - 1) /\ At(i) \notin DOMAIN tr
  <2>1. PICK k : k = d + i
    OBVIOUS
  <2>2. k \in 1..Len(p) /\ k - 1 = d + (i - 1) /\ n # 0 /\ i - 1 \in 0..n
    BY <1>1, <2>1
  <2>3. SubSeq(p, 1, k) # <<>> /\ Parent(SubSeq(p, 1, k)) = SubSeq(p, 1, k - 1)
    BY <2>2, CutsAre
  <2>4. At(i) # <<>> /\ Parent(At(i)) = At(i - 1)
    BY <2>1, <2>2, <2>3
  <2>5. PICK x : x = SubSeq(p, 1, d + 1)
    OBVIOUS
  <2>6. d + 1 \in 0..Len(p)
    BY <1>1, <2>2
  <2>7. x \in Paths /\ Len(x) = d + 1 /\ ~Has(tr, x)
    BY <2>2, <2>5, <2>6, CutsAre
  <2>8. At(i) \notin DOMAIN tr
    <3>1. CASE i = 1
      BY <2>5, <2>7, <3>1 DEF Has
    <3>2. CASE i # 1
      <4>0. i \in 0..n
        OBVIOUS
      <4>1. AtOrBelow(p, At(i)) /\ Len(At(i)) = d + i /\ At(i) \in Paths
        BY <1>3, <4>0, Zenon
      <4>2. PICK y : y = At(i)
        OBVIOUS
      <4>3. d + 1 \in Nat /\ d + 1 < d + i /\ d + i <= Len(p) /\ d + i \in Nat
        BY <1>1, <3>2
      <4>4. SubSeq(y, 1, d + 1) = x
        BY <2>5, <4>2, <4>3, CutAgain
      <4>5. d + 1 \in 0..(Len(y) - 1)
        BY <4>1, <4>2, <4>3
      <4>6. Descends(y, x)
        BY <4>1, <4>2, <4>4, <4>5, CutsAre
      <4>7. ~IsDir(tr, x)
        BY <2>7 DEF IsDir
      <4>8. QED
        BY <2>7, <4>2, <4>6, <4>7, NothingBelow
    <3>3. QED
      BY <3>1, <3>2
  <2>9. QED
    BY <2>4, <2>8
<1>5. 0 \in M
  <2>1. A[0].ok = TRUE /\ A[0].tree = tr /\ A[0].used = UsedBytes(tr)
    BY <1>2 DEF Start
  <2>2. Whole(A[0])
    BY <2>1 DEF Whole
  <2>3. d \in 0..d /\ d + 0 = d
    OBVIOUS
  <2>4. IsDir(A[0].tree, At(0))
    BY <2>1, <2>3
  <2>5. DOMAIN A[0].tree = DOMAIN tr \cup {At(j) : j \in 1..0}
    <3>1. 1..0 = {}
      OBVIOUS
    <3>2. {At(j) : j \in 1..0} = {}
      BY <3>1, Zenon
    <3>3. QED
      BY <2>1, <3>2, Zenon
  <2>6. QED
    BY <2>1, <2>2, <2>4, <2>5
<1>6. ASSUME NEW i \in 1..n, i - 1 \in M PROVE i \in M
  <2>0. i - 1 \in 0..n /\ i \in 0..n
    OBVIOUS
  <2>1. Fine(i - 1) /\ i - 1 \in 0..n /\ i \in 0..n
    BY <1>6, <2>0, Zenon
  <2>2. PICK st, x : st = A[i - 1] /\ x = At(i)
    OBVIOUS
  <2>3. /\ Whole(st) /\ UsedBytes(st.tree) = UsedBytes(tr) /\ IsDir(st.tree, At(i - 1))
        /\ DOMAIN st.tree = DOMAIN tr \cup {At(j) : j \in 1..(i - 1)}
        /\ \A q \in DOMAIN tr : st.tree[q] = tr[q]
    BY <2>1, <2>2
  <2>4. x \in Paths /\ x # <<>> /\ Parent(x) = At(i - 1) /\ x \notin DOMAIN tr /\ Len(x) = d + i
    BY <1>3, <1>4, <2>1, <2>2
  <2>5. x \notin DOMAIN st.tree
    <3>1. ASSUME NEW j \in 1..(i - 1) PROVE x # At(j)
      <4>1. j \in 0..n /\ d + j # d + i
        OBVIOUS
      <4>2. Len(At(j)) = d + j
        BY <1>3, <4>1
      <4>3. QED
        BY <2>4, <4>1, <4>2
    <3>2. QED
      BY <2>3, <2>4, <3>1
  <2>6. A[i] = Stepped(st, Make(x, mode, origin))
    BY <1>2, <2>2
  <2>7. /\ Whole(A[i]) /\ PutAt(st.tree, A[i].tree, x, "dir", <<>>, mode)
        /\ UsedBytes(A[i].tree) = UsedBytes(st.tree)
    <3>1. IsDir(st.tree, Parent(x)) /\ Whole(st) /\ x \in Paths /\ x # <<>>
      BY <2>3, <2>4, Zenon
    <3>2. /\ Whole(Stepped(st, Make(x, mode, origin)))
          /\ PutAt(st.tree, Stepped(st, Make(x, mode, origin)).tree, x, "dir", <<>>, mode)
          /\ UsedBytes(Stepped(st, Make(x, mode, origin)).tree) = UsedBytes(st.tree)
      BY <2>5, <3>1, MakeStep
    <3>3. QED
      BY <2>6, <3>2, Zenon
  <2>8. DOMAIN A[i].tree = DOMAIN st.tree \cup {x} /\ A[i].tree[x].kind = "dir"
        /\ \A q \in DOMAIN st.tree : A[i].tree[q] = st.tree[q]
    BY <2>5, <2>7 DEF PutAt
  <2>9. IsDir(A[i].tree, At(i))
    BY <2>2, <2>4, <2>8 DEF IsDir, Has, Node
  <2>10. DOMAIN A[i].tree = DOMAIN tr \cup {At(j) : j \in 1..i}
    <3>1. \A j \in 1..i : j \in 1..(i - 1) \/ j = i
      OBVIOUS
    <3>2. \A j \in 1..(i - 1) : j \in 1..i
      OBVIOUS
    <3>3. i \in 1..i
      OBVIOUS
    <3>4. {At(j) : j \in 1..i} = {At(j) : j \in 1..(i - 1)} \cup {At(i)}
      BY <3>1, <3>2, <3>3
    <3>5. QED
      BY <2>2, <2>3, <2>8, <3>4
  <2>11. \A q \in DOMAIN tr : A[i].tree[q] = tr[q]
    BY <2>3, <2>8
  <2>12. UsedBytes(A[i].tree) = UsedBytes(tr)
    BY <2>3, <2>7
  <2>13. QED
    BY <2>1, <2>7, <2>9, <2>10, <2>11, <2>12
<1>7. n \in M
  <2>1. \A i \in 0..n : i \in M
    <3> HIDE DEF M
    <3>1. QED
      BY <1>5, <1>6, Stair
  <2>2. n \in 0..n
    OBVIOUS
  <2>3. QED
    BY <2>1, <2>2, Zenon
<1>8. Fine(n)
  BY <1>7
<1>9. PICK b : b = A[n].tree
  OBVIOUS
<1>10. IsTree(b) /\ UsedBytes(b) = UsedBytes(tr) /\ DOMAIN b = DOMAIN tr \cup {At(j) : j \in 1..n}
       /\ \A q \in DOMAIN tr : b[q] = tr[q]
  BY <1>8, <1>9 DEF Whole
<1>11. IsDir(b, p)
  <2>1. At(n) = p
    BY CutsAre
  <2>2. QED
    BY <1>8, <1>9, <2>1
<1>12. ASSUME NEW q \in DOMAIN b \ DOMAIN tr
       PROVE  /\ q # <<>> /\ AtOrBelow(p, q)
              /\ Has(tr, Parent(q)) => Can(tr, Parent(q), {"w", "x"})
  <2>1. PICK j \in 1..n : q = At(j)
    BY <1>10
  <2>0. j \in 0..n
    OBVIOUS
  <2>2. q # <<>> /\ AtOrBelow(p, q) /\ Parent(q) = At(j - 1)
    BY <1>3, <1>4, <2>0, <2>1, Zenon
  <2>3. CASE j = 1
    <3>1. At(j - 1) = SubSeq(p, 1, d) /\ n # 0
      BY <2>3
    <3>2. QED
      BY <2>2, <3>1
  <2>4. CASE j # 1
    <3>1. j - 1 \in 1..n
      BY <2>4
    <3>2. At(j - 1) # <<>> /\ At(j - 1) \notin DOMAIN tr
      BY <1>4, <3>1
    <3>3. ~Has(tr, Parent(q))
      BY <2>2, <3>2 DEF Has
    <3>4. QED
      BY <2>2, <3>3
  <2>5. QED
    BY <2>3, <2>4
<1>13. MadeWay(tr, b, p)
  BY <1>10, <1>11, <1>12 DEF MadeWay
<1>14. Applied(tr, UsedBytes(tr), steps) = A[n]
  BY DEF Applied, A
<1>15. QED
  BY <1>8, <1>9, <1>13, <1>14

-----------------------------------------------------------------------------
(* What every plan is to do.                                               *)

\* What callers name lies under the root, what is written are bytes, and there is
\* room for the trees it starts from.
TreeConstants ==
  /\ Inputs \subseteq Paths \ {<<>>} /\ Contents \subseteq Seq(Byte) /\ Modes \subseteq SUBSET rwx
  /\ Capacity \in Nat /\ MaxPlans \in Nat
  /\ \A tr \in Seeds : IsTree(tr) /\ UsedBytes(tr) <= Capacity

\* A plan is so many steps.
StepsAre(steps) ==
  /\ Len(steps) \in Nat /\ steps = [i \in 1..Len(steps) |-> steps[i]]
  /\ \A i \in 1..Len(steps) : steps[i].op \in Ops

\* What is not in the scope of a request is as it was.
Local(a, b, r) ==
  \A p \in DOMAIN a \cup DOMAIN b : ~InScope(p, r) => p \in DOMAIN a /\ p \in DOMAIN b /\ a[p] = b[p]

\* A directory that cannot be written and searched has the entries it had.
Keeps(a, b, r) ==
  \A d \in DOMAIN a :
    /\ a[d].kind = "dir" /\ ~Can(a, d, {"w", "x"})
    /\ ~(r.op = "rename" /\ d \in {r.to} \cup Family(a, r.path))
    => Children(a, d) = Children(b, d)

\* What a plan comes to: its steps run to the end, leave a whole tree that is counted
\* right, and add no more bytes than announced.
Works(tr, r, plan) ==
  LET end == Applied(tr, UsedBytes(tr), plan.steps) IN
  /\ StepsAre(plan.steps) /\ plan.delta \in Int
  /\ Whole(end) /\ UsedBytes(end.tree) <= UsedBytes(tr) + plan.delta
  /\ Local(tr, end.tree, r) /\ Keeps(tr, end.tree, r)

\* Nothing is taken away, and what is added is added where that is allowed.
LEMMA KeepsIf ==
  ASSUME NEW a, NEW b, NEW r, DOMAIN a \subseteq DOMAIN b,
         \A q \in DOMAIN b \ DOMAIN a : Parent(q) \in DOMAIN a => Can(a, Parent(q), {"w", "x"})
  PROVE  Keeps(a, b, r)
<1>1. ASSUME NEW d \in DOMAIN a, ~Can(a, d, {"w", "x"}) PROVE Children(a, d) = Children(b, d)
  <2>1. ASSUME NEW q \in DOMAIN b, Parent(q) = d PROVE q \in DOMAIN a
    BY <1>1, <2>1
  <2>2. QED
    BY <2>1 DEF Children
<1>2. QED
  BY <1>1 DEF Keeps

\* One path only, and those above it where they are made with it.
LEMMA LocalIf ==
  ASSUME NEW a, NEW b, NEW r, DOMAIN a \subseteq DOMAIN b,
         \A q \in DOMAIN a : q # r.path => b[q] = a[q],
         \A q \in DOMAIN b \ DOMAIN a : q = r.path \/ (r.how = "parents" /\ AtOrBelow(r.path, q))
  PROVE  Local(a, b, r)
<1>1. r.path \in Scope(r)
  BY DEF Scope
<1>2. ASSUME NEW p, ~InScope(p, r)
      PROVE  p # r.path /\ ~(r.how = "parents" /\ AtOrBelow(r.path, p))
  BY <1>1, <1>2, Zenon DEF InScope, AtOrBelow
<1>3. QED
  BY <1>2 DEF Local

\* A run starts from a whole tree.
LEMMA FromStart ==
  ASSUME NEW tr, IsTree(tr)
  PROVE  /\ Whole(Start(tr, UsedBytes(tr))) /\ Start(tr, UsedBytes(tr)).tree = tr
         /\ UsedBytes(tr) \in Nat
  BY TreeIsShelf DEF Start, Whole

\* A plan of one step.
LEMMA OneStepWorks ==
  ASSUME NEW tr, IsTree(tr), NEW r, NEW s, s.op \in Ops, NEW delta \in Int, NEW end,
         end = Stepped(Start(tr, UsedBytes(tr)), s), Whole(end),
         UsedBytes(end.tree) <= UsedBytes(tr) + delta, Local(tr, end.tree, r), Keeps(tr, end.tree, r)
  PROVE  Works(tr, r, Plan(<<s>>, delta)) /\ Plan(<<s>>, delta).ok
<1>1. Plan(<<s>>, delta).steps = <<s>> /\ Plan(<<s>>, delta).delta = delta /\ Plan(<<s>>, delta).ok
  BY DEF Plan
<1>2. Applied(tr, UsedBytes(tr), <<s>>) = end
  BY OneStep
<1>3. StepsAre(<<s>>)
  <2>1. PICK one : one = <<s>>
    OBVIOUS
  <2>2. Len(one) = 1 /\ one[1] = s /\ one = [i \in 1..1 |-> one[i]]
    BY <2>1
  <2>3. \A i \in 1..1 : i = 1
    OBVIOUS
  <2>4. StepsAre(one)
    BY <2>2, <2>3 DEF StepsAre
  <2>5. QED
    BY <2>1, <2>4
<1>4. QED
  BY <1>1, <1>2, <1>3 DEF Works

-----------------------------------------------------------------------------
(* mkdir and write.                                                        *)

\* What #planMkdirp plans makes the way.
LEMMA MkdirpIs ==
  ASSUME NEW tr, IsTree(tr), NEW p \in Paths, NEW mode \in SUBSET rwx,
         NEW origin \in {"seed", "user"}, Mkdirp(tr, p, mode, origin).ok
  PROVE  LET plan == Mkdirp(tr, p, mode, origin)
             end  == Applied(tr, UsedBytes(tr), plan.steps)
         IN  /\ StepsAre(plan.steps) /\ plan.delta = 0
             /\ Whole(end) /\ MadeWay(tr, end.tree, p)
<1>1. PICK top : top = Deepest(tr, p)
  OBVIOUS
<1>2. PICK d \in 0..Len(p) : /\ top = SubSeq(p, 1, d) /\ Len(top) = d
                             /\ \A j \in 0..d : IsDir(tr, SubSeq(p, 1, j))
  BY <1>1, DeepestExisting
<1>3. Len(p) \in Nat
  BY PathIs
<1>4. PICK n : n = Len(p) - d
  OBVIOUS
<1>5. n \in Nat /\ d \in Nat /\ d + n = Len(p)
  BY <1>2, <1>3, <1>4
<1>6. PICK steps : steps = [i \in 1..n |-> Make(SubSeq(p, 1, d + i), mode, origin)]
  OBVIOUS
<1>7. /\ ~(top # p /\ (Has(tr, SubSeq(p, 1, d + 1)) \/ ~Can(tr, top, {"w", "x"})))
      /\ Mkdirp(tr, p, mode, origin) = Plan(steps, 0)
  <2>1. Refused.ok = FALSE
    BY DEF Refused
  <2>2. Mkdirp(tr, p, mode, origin) =
          IF \/ \E i \in 0..(Len(top) - 1) : ~Can(tr, SubSeq(p, 1, i), {"x"})
             \/ top # p /\ (Has(tr, SubSeq(p, 1, Len(top) + 1)) \/ ~Can(tr, top, {"w", "x"}))
          THEN Refused
          ELSE Plan([i \in 1..(Len(p) - Len(top)) |-> Make(SubSeq(p, 1, Len(top) + i), mode, origin)], 0)
    BY <1>1, Zenon DEF Mkdirp
  <2>3. QED
    BY <1>2, <1>4, <1>6, <2>1, <2>2
<1>8. \A i \in 1..n : steps[i] = Make(SubSeq(p, 1, d + i), mode, origin)
  BY <1>6
<1>9. steps = [i \in 1..n |-> steps[i]]
  BY <1>6
<1>10. Len(steps) = n
  BY <1>5, <1>9, LenIs
<1>11. n # 0 => ~Has(tr, SubSeq(p, 1, d + 1)) /\ Can(tr, SubSeq(p, 1, d), {"w", "x"})
  <2>1. n # 0 => top # p
    BY <1>2, <1>3, <1>4
  <2>2. QED
    BY <1>2, <1>7, <2>1
<1>12. Whole(Applied(tr, UsedBytes(tr), steps)) /\ MadeWay(tr, Applied(tr, UsedBytes(tr), steps).tree, p)
  BY <1>2, <1>5, <1>8, <1>10, <1>11, MkdirpRuns
<1>13. StepsAre(steps)
  <2>1. ASSUME NEW i \in 1..n PROVE steps[i].op \in Ops
    <3>1. PICK x : x = SubSeq(p, 1, d + i)
      OBVIOUS
    <3>2. steps[i] = Make(x, mode, origin)
      BY <1>8, <3>1
    <3>3. Make(x, mode, origin).op = "mkdir"
      BY DEF Make
    <3>4. QED
      BY <3>2, <3>3 DEF Ops
  <2>2. QED
    BY <1>5, <1>9, <1>10, <2>1 DEF StepsAre
<1>14. Plan(steps, 0).steps = steps /\ Plan(steps, 0).delta = 0
  BY DEF Plan
<1>15. QED
  BY <1>7, <1>12, <1>13, <1>14

\* Making the way is within the scope of a request that asks for parents.
LEMMA MadeWayIs ==
  ASSUME NEW a, NEW b, NEW p, MadeWay(a, b, p), NEW r, r.path = p, r.how = "parents"
  PROVE  Local(a, b, r) /\ Keeps(a, b, r)
<1>1. /\ DOMAIN a \subseteq DOMAIN b /\ \A q \in DOMAIN a : b[q] = a[q]
      /\ \A q \in DOMAIN b \ DOMAIN a :
           AtOrBelow(p, q) /\ (Has(a, Parent(q)) => Can(a, Parent(q), {"w", "x"}))
  BY DEF MadeWay
<1>2. Local(a, b, r)
  BY <1>1, LocalIf
<1>3. \A q \in DOMAIN b \ DOMAIN a : Parent(q) \in DOMAIN a => Can(a, Parent(q), {"w", "x"})
  BY <1>1 DEF Has
<1>4. Keeps(a, b, r)
  BY <1>1, <1>3, KeepsIf
<1>5. QED
  BY <1>2, <1>4

\* What mkdir plans works.
LEMMA MkdirWorks ==
  ASSUME TreeConstants, NEW tr, IsTree(tr),
         NEW r, r.path \in Inputs, r.how \in {"plain", "parents"}, r.mode \in Modes,
         PlanMkdir(tr, r).ok
  PROVE  Works(tr, r, PlanMkdir(tr, r))
<1>1. r.path \in Paths /\ r.path # <<>> /\ r.mode \in SUBSET rwx /\ UsedBytes(tr) \in Nat
  BY TreeIsShelf DEF TreeConstants
<1>2. CASE r.how = "parents"
  <2>1. PICK plan : plan = Mkdirp(tr, r.path, r.mode, "user")
    OBVIOUS
  <2>2. PlanMkdir(tr, r) = plan /\ plan.ok
    BY <1>2, <2>1 DEF PlanMkdir
  <2>3. LET end == Applied(tr, UsedBytes(tr), plan.steps)
        IN  /\ StepsAre(plan.steps) /\ plan.delta = 0
            /\ Whole(end) /\ MadeWay(tr, end.tree, r.path)
    BY <1>1, <2>1, <2>2, MkdirpIs
  <2>4. PICK end : end = Applied(tr, UsedBytes(tr), plan.steps)
    OBVIOUS
  <2>5. Local(tr, end.tree, r) /\ Keeps(tr, end.tree, r)
    BY <1>2, <2>3, <2>4, MadeWayIs
  <2>6. UsedBytes(end.tree) <= UsedBytes(tr) + plan.delta
    BY <1>1, <2>3, <2>4 DEF MadeWay
  <2>7. QED
    BY <2>2, <2>3, <2>4, <2>5, <2>6 DEF Works
<1>3. CASE r.how # "parents"
  <2>1. Refused.ok = FALSE
    BY DEF Refused
  <2>2. /\ Walk(tr, r.path) # "ok" /\ Enterable(tr, Parent(r.path))
        /\ PlanMkdir(tr, r) = Plan(<<Make(r.path, r.mode, "user")>>, 0)
    BY <1>3, <2>1 DEF PlanMkdir
  <2>3. ~Has(tr, r.path)
    BY <1>1, <2>2, WalkOn
  <2>4. r.path \notin DOMAIN tr
    BY <2>3 DEF Has
  <2>5. IsDir(tr, Parent(r.path)) /\ Can(tr, Parent(r.path), {"w", "x"})
    BY <2>2 DEF Enterable
  <2>6. PICK st : st = Start(tr, UsedBytes(tr))
    OBVIOUS
  <2>7. Whole(st) /\ st.tree = tr
    BY <2>6, FromStart
  <2>8. PICK end : end = Stepped(st, Make(r.path, r.mode, "user"))
    OBVIOUS
  <2>9. Whole(end) /\ PutAt(tr, end.tree, r.path, "dir", <<>>, r.mode)
        /\ UsedBytes(end.tree) = UsedBytes(tr)
    <3>1. PICK p, mode : p = r.path /\ mode = r.mode
      OBVIOUS
    <3>2. /\ Whole(Stepped(st, Make(p, mode, "user")))
          /\ PutAt(st.tree, Stepped(st, Make(p, mode, "user")).tree, p, "dir", <<>>, mode)
          /\ UsedBytes(Stepped(st, Make(p, mode, "user")).tree) = UsedBytes(st.tree)
      BY <1>1, <2>4, <2>5, <2>7, <3>1, MakeStep
    <3>3. QED
      BY <2>7, <2>8, <3>1, <3>2, Zenon
  <2>10. /\ DOMAIN end.tree = DOMAIN tr \cup {r.path}
         /\ \A q \in DOMAIN tr : q # r.path => end.tree[q] = tr[q]
    BY <2>9 DEF PutAt
  <2>11. Local(tr, end.tree, r)
    BY <2>10, LocalIf
  <2>12. Keeps(tr, end.tree, r)
    BY <2>5, <2>10, KeepsIf
  <2>13. Make(r.path, r.mode, "user").op \in Ops /\ UsedBytes(end.tree) <= UsedBytes(tr) + 0
    BY <1>1, <2>9 DEF Make, Ops
  <2>14. Works(tr, r, Plan(<<Make(r.path, r.mode, "user")>>, 0))
    <3>1. PICK s : s = Make(r.path, r.mode, "user")
      OBVIOUS
    <3>2. end = Stepped(Start(tr, UsedBytes(tr)), s) /\ s.op \in Ops
      BY <2>6, <2>8, <2>13, <3>1, Zenon
    <3>3. Works(tr, r, Plan(<<s>>, 0))
      BY <2>9, <2>11, <2>12, <2>13, <3>2, OneStepWorks
    <3>4. QED
      BY <3>1, <3>3, Zenon
  <2>15. QED
    BY <2>2, <2>14
<1>4. QED
  BY <1>2, <1>3

\* A run of one step more.
LEMMA StepsAppend ==
  ASSUME NEW steps, StepsAre(steps), NEW s, s.op \in Ops, NEW tr, NEW bytes
  PROVE  /\ StepsAre(Append(steps, s))
         /\ Applied(tr, bytes, Append(steps, s)) = Stepped(Applied(tr, bytes, steps), s)
<1> DEFINE T == {steps[i] : i \in 1..Len(steps)} \cup {s}
<1>1. Len(steps) \in Nat /\ steps = [i \in 1..Len(steps) |-> steps[i]]
      /\ \A i \in 1..Len(steps) : steps[i].op \in Ops
  BY DEF StepsAre
<1>2. steps \in Seq(T)
  <2>1. steps \in [1..Len(steps) -> T]
    BY <1>1
  <2> HIDE DEF T
  <2>2. QED
    BY <1>1, <2>1, SeqDef
<1>3. s \in T
  OBVIOUS
<1> HIDE DEF T
<1>4. /\ Len(Append(steps, s)) = Len(steps) + 1
      /\ \A i \in 1..Len(steps) : Append(steps, s)[i] = steps[i]
      /\ Append(steps, s)[Len(steps) + 1] = s
      /\ Applied(tr, bytes, Append(steps, s)) = Stepped(Applied(tr, bytes, steps), s)
  BY <1>2, <1>3, AppendRun
<1>5. PICK more : more = Append(steps, s)
  OBVIOUS
<1>6. more \in Seq(T)
  BY <1>2, <1>3, <1>5, AppendProperties
<1>7. more = [i \in 1..Len(more) |-> more[i]] /\ Len(more) \in Nat
  <2>1. more \in [1..Len(more) -> T] /\ Len(more) \in Nat
    BY <1>6, LenProperties
  <2>2. QED
    BY <2>1
<1>8. \A i \in 1..Len(more) : more[i].op \in Ops
  <2>1. ASSUME NEW i \in 1..Len(more) PROVE more[i].op \in Ops
    <3>1. i \in 1..Len(steps) \/ i = Len(steps) + 1
      BY <1>1, <1>4, <1>5
    <3>2. CASE i \in 1..Len(steps)
      BY <1>1, <1>4, <1>5, <3>2
    <3>3. CASE i = Len(steps) + 1
      BY <1>4, <1>5, <3>3
    <3>4. QED
      BY <3>1, <3>2, <3>3
  <2>2. QED
    BY <2>1
<1>9. StepsAre(more)
  BY <1>7, <1>8 DEF StepsAre
<1>10. QED
  BY <1>4, <1>5, <1>9

\* One write step works when its parent is there and the delta is what it adds.
LEMMA PutWorks ==
  ASSUME NEW tr, IsTree(tr), NEW p \in Paths, p # <<>>, IsDir(tr, Parent(p)),
         p \in DOMAIN tr => tr[p].kind = "file",
         p \notin DOMAIN tr => Can(tr, Parent(p), {"w", "x"}),
         NEW data \in Seq(Byte), NEW origin \in {"seed", "user"}, NEW r, r.path = p,
         NEW delta \in Int, delta = Len(data) - (IF p \in DOMAIN tr THEN Len(tr[p].data) ELSE 0)
  PROVE  Works(tr, r, Plan(<<Put(p, data, FileMode, origin)>>, delta))
<1>1. PICK st : st = Start(tr, UsedBytes(tr))
  OBVIOUS
<1>2. Whole(st) /\ st.tree = tr /\ UsedBytes(tr) \in Nat
  BY <1>1, FromStart
<1>3. FileMode \in SUBSET rwx
  BY DEF FileMode, rwx
<1>4. PICK s : s = Put(p, data, FileMode, origin)
  OBVIOUS
<1>5. PICK end : end = Stepped(st, s)
  OBVIOUS
<1>6. /\ Whole(end) /\ PutAt(tr, end.tree, p, "file", data, FileMode)
      /\ UsedBytes(end.tree) = UsedBytes(tr) + Len(data)
                                 - (IF p \in DOMAIN tr THEN Len(tr[p].data) ELSE 0)
  <2>1. /\ Whole(Stepped(st, Put(p, data, FileMode, origin)))
        /\ PutAt(st.tree, Stepped(st, Put(p, data, FileMode, origin)).tree, p, "file", data, FileMode)
        /\ UsedBytes(Stepped(st, Put(p, data, FileMode, origin)).tree) =
              UsedBytes(st.tree) + Len(data)
                - (IF p \in DOMAIN st.tree THEN Len(st.tree[p].data) ELSE 0)
    BY <1>2, <1>3, PutStep
  <2>2. QED
    BY <1>2, <1>4, <1>5, <2>1, Zenon
<1>7. UsedBytes(end.tree) <= UsedBytes(tr) + delta
  <2>1. PICK k : k = IF p \in DOMAIN tr THEN Len(tr[p].data) ELSE 0
    OBVIOUS
  <2>2. k \in Nat
    BY <2>1, NodeIs
  <2>3. PICK l : l = Len(data)
    OBVIOUS
  <2>4. l \in Nat
    BY <2>3
  <2>5. UsedBytes(end.tree) = UsedBytes(tr) + l - k /\ delta = l - k
    BY <1>6, <2>1, <2>3, Zenon
  <2>6. QED
    BY <1>2, <2>2, <2>4, <2>5
<1>8. /\ DOMAIN end.tree = DOMAIN tr \cup {p}
      /\ \A q \in DOMAIN tr : q # p => end.tree[q] = tr[q]
  BY <1>6 DEF PutAt
<1>9. Local(tr, end.tree, r)
  BY <1>8, LocalIf
<1>10. Keeps(tr, end.tree, r)
  BY <1>8, KeepsIf
<1>11. s.op \in Ops
  BY <1>4 DEF Put, Ops
<1>12. end = Stepped(Start(tr, UsedBytes(tr)), s)
  BY <1>1, <1>5
<1>13. Works(tr, r, Plan(<<s>>, delta))
  BY <1>6, <1>7, <1>9, <1>10, <1>11, <1>12, OneStepWorks
<1>14. QED
  BY <1>4, <1>13

\* A file with the directories on the way to it.
LEMMA PutBelowWorks ==
  ASSUME NEW tr, IsTree(tr), NEW p \in Paths, p # <<>>, ~Has(tr, Parent(p)),
         NEW data \in Seq(Byte), NEW origin \in {"seed", "user"},
         NEW r, r.path = p, r.how = "parents",
         NEW made, made = Mkdirp(tr, Parent(p), rwx, origin), made.ok
  PROVE  Works(tr, r, Plan(Append(made.steps, Put(p, data, FileMode, origin)), Len(data)))
<1>1. Parent(p) \in Paths /\ Descends(p, Parent(p)) /\ Parent(p) # p
  BY ParentIs
<1>2. PICK up : up = Parent(p)
  OBVIOUS
<1>3. PICK mid : mid = Applied(tr, UsedBytes(tr), made.steps)
  OBVIOUS
<1>4. StepsAre(made.steps) /\ Whole(mid) /\ MadeWay(tr, mid.tree, up)
  <2>1. rwx \in SUBSET rwx
    OBVIOUS
  <2>2. Mkdirp(tr, up, rwx, origin).ok /\ made = Mkdirp(tr, up, rwx, origin)
    BY <1>2
  <2>3. LET plan == Mkdirp(tr, up, rwx, origin)
            end  == Applied(tr, UsedBytes(tr), plan.steps)
        IN  /\ StepsAre(plan.steps) /\ plan.delta = 0
            /\ Whole(end) /\ MadeWay(tr, end.tree, up)
    BY <1>1, <1>2, <2>1, <2>2, MkdirpIs
  <2>4. QED
    BY <1>3, <2>2, <2>3
<1>5. /\ IsTree(mid.tree) /\ UsedBytes(mid.tree) = UsedBytes(tr) /\ IsDir(mid.tree, up)
      /\ DOMAIN tr \subseteq DOMAIN mid.tree /\ \A q \in DOMAIN tr : mid.tree[q] = tr[q]
      /\ \A q \in DOMAIN mid.tree \ DOMAIN tr :
           /\ q # <<>> /\ AtOrBelow(up, q)
           /\ Has(tr, Parent(q)) => Can(tr, Parent(q), {"w", "x"})
  BY <1>4 DEF MadeWay
<1>6. p \notin DOMAIN tr
  BY NodeIs DEF IsDir
<1>7. p \notin DOMAIN mid.tree
  <2>1. ~AtOrBelow(up, p)
    BY <1>1, <1>2, DescendsNot DEF AtOrBelow
  <2>2. QED
    BY <1>5, <1>6, <2>1
<1>8. PICK s : s = Put(p, data, FileMode, origin)
  OBVIOUS
<1>9. PICK end : end = Stepped(mid, s)
  OBVIOUS
<1>10. /\ Whole(end) /\ PutAt(mid.tree, end.tree, p, "file", data, FileMode)
       /\ UsedBytes(end.tree) = UsedBytes(mid.tree) + Len(data)
                                 - (IF p \in DOMAIN mid.tree THEN Len(mid.tree[p].data) ELSE 0)
  <2>1. FileMode \in SUBSET rwx
    BY DEF FileMode, rwx
  <2>2. /\ Whole(Stepped(mid, Put(p, data, FileMode, origin)))
        /\ PutAt(mid.tree, Stepped(mid, Put(p, data, FileMode, origin)).tree, p, "file", data, FileMode)
        /\ UsedBytes(Stepped(mid, Put(p, data, FileMode, origin)).tree) =
              UsedBytes(mid.tree) + Len(data)
                - (IF p \in DOMAIN mid.tree THEN Len(mid.tree[p].data) ELSE 0)
    BY <1>2, <1>4, <1>5, <1>7, <2>1, PutStep
  <2>3. QED
    BY <1>8, <1>9, <2>2, Zenon
<1>11. UsedBytes(end.tree) <= UsedBytes(tr) + Len(data) /\ Len(data) \in Int
  <2>1. PICK l : l = Len(data)
    OBVIOUS
  <2>2. l \in Nat /\ UsedBytes(tr) \in Nat
    BY <2>1, TreeIsShelf
  <2>3. UsedBytes(end.tree) = UsedBytes(tr) + l - 0
    BY <1>5, <1>7, <1>10, <2>1, Zenon
  <2>4. QED
    BY <2>1, <2>2, <2>3
<1>12. /\ DOMAIN end.tree = DOMAIN mid.tree \cup {p}
       /\ \A q \in DOMAIN mid.tree : q # p => end.tree[q] = mid.tree[q]
  BY <1>10 DEF PutAt
<1>13. DOMAIN tr \subseteq DOMAIN end.tree /\ \A q \in DOMAIN tr : end.tree[q] = tr[q]
  BY <1>5, <1>6, <1>12
<1>14. Local(tr, end.tree, r)
  <2>1. ASSUME NEW q \in DOMAIN end.tree \ DOMAIN tr, q # p PROVE AtOrBelow(p, q)
    <3>1. q \in DOMAIN mid.tree /\ AtOrBelow(up, q)
      BY <1>5, <1>12, <2>1
    <3>2. q \in Paths
      BY <1>5, <3>1, NodeIs
    <3>3. QED
      BY <1>1, <1>2, <3>1, <3>2, DescendsOn DEF AtOrBelow
  <2>2. QED
    BY <1>13, <2>1, LocalIf
<1>15. Keeps(tr, end.tree, r)
  <2>1. ASSUME NEW q \in DOMAIN end.tree \ DOMAIN tr, Parent(q) \in DOMAIN tr
        PROVE  Can(tr, Parent(q), {"w", "x"})
    <3>1. Has(tr, Parent(q))
      BY <2>1 DEF Has
    <3>2. q # p
      BY <3>1
    <3>3. QED
      BY <1>5, <1>12, <3>1, <3>2
  <2>2. QED
    BY <1>13, <2>1, KeepsIf
<1>16. s.op \in Ops
  BY <1>8 DEF Put, Ops
<1>17. /\ StepsAre(Append(made.steps, s))
       /\ Applied(tr, UsedBytes(tr), Append(made.steps, s)) = end
  BY <1>3, <1>4, <1>9, <1>16, StepsAppend
<1>18. PICK plan : plan = Plan(Append(made.steps, s), Len(data))
  OBVIOUS
<1>19. plan.steps = Append(made.steps, s) /\ plan.delta = Len(data)
  BY <1>18 DEF Plan
<1>20. Works(tr, r, plan)
  BY <1>10, <1>11, <1>14, <1>15, <1>17, <1>19 DEF Works
<1>21. QED
  BY <1>8, <1>18, <1>20

\* What a write plans works, append, exclusive and createParents included.
LEMMA WriteWorks ==
  ASSUME TreeConstants, NEW tr, IsTree(tr),
         NEW r, r.path \in Inputs, r.data \in Seq(Byte), r.origin \in {"seed", "user"},
         PlanWrite(tr, r).ok, NEW r2, r2.path = r.path, r2.how = r.how
  PROVE  Works(tr, r2, PlanWrite(tr, r))
<1>1. PICK p, up, made : p = r.path /\ up = Parent(p) /\ made = Mkdirp(tr, up, rwx, r.origin)
  OBVIOUS
<1>2. p \in Paths /\ p # <<>> /\ up \in Paths
  BY <1>1, ParentIs DEF TreeConstants
<1>3. Refused.ok = FALSE
  BY DEF Refused
<1>4. CASE Walk(tr, up) = "missing" /\ r.how = "parents"
  <2>1. /\ made.ok
        /\ PlanWrite(tr, r) = Plan(Append(made.steps, Put(p, r.data, FileMode, r.origin)), Len(r.data))
    BY <1>1, <1>3, <1>4 DEF PlanWrite
  <2>2. ~Has(tr, Parent(p))
    BY <1>1, <1>2, <1>4, WalkIs
  <2>3. made = Mkdirp(tr, Parent(p), rwx, r.origin)
    BY <1>1
  <2>4. PICK data, origin : data = r.data /\ origin = r.origin
    OBVIOUS
  <2>5. r2.path = p /\ r2.how = "parents"
    BY <1>1, <1>4
  <2>6. Works(tr, r2, Plan(Append(made.steps, Put(p, data, FileMode, origin)), Len(data)))
    BY <1>2, <2>1, <2>2, <2>3, <2>4, <2>5, PutBelowWorks
  <2>7. QED
    BY <2>1, <2>4, <2>6, Zenon
<1>5. CASE ~(Walk(tr, up) = "missing" /\ r.how = "parents")
  <2>1. IsDir(tr, Parent(p))
    BY <1>1, <1>3, <1>5 DEF PlanWrite
  <2>2. CASE p \in DOMAIN tr
    <3>1. PICK next : next = IF r.how = "append" THEN tr[p].data \o r.data ELSE r.data
      OBVIOUS
    <3>2. /\ tr[p].kind # "dir"
          /\ PlanWrite(tr, r) =
               Plan(<<Put(p, next, FileMode, r.origin)>>, Len(next) - Len(tr[p].data))
      BY <1>1, <1>3, <1>5, <2>2, <3>1 DEF PlanWrite
    <3>3. tr[p].kind = "file" /\ tr[p].data \in Seq(Byte)
      BY <2>2, <3>2, NodeIs
    <3>4. next \in Seq(Byte)
      BY <3>1, <3>3, ConcatProperties
    <3>5. PICK delta : delta = Len(next) - Len(tr[p].data)
      OBVIOUS
    <3>6. delta \in Int /\ delta = Len(next) - (IF p \in DOMAIN tr THEN Len(tr[p].data) ELSE 0)
      <4>1. Len(next) \in Nat /\ Len(tr[p].data) \in Nat
        BY <3>3, <3>4
      <4>2. QED
        BY <2>2, <3>5, <4>1
    <3>7. PICK origin : origin = r.origin
      OBVIOUS
    <3>8. origin \in {"seed", "user"} /\ r2.path = p
      BY <1>1, <3>7
    <3>9. Works(tr, r2, Plan(<<Put(p, next, FileMode, origin)>>, delta))
      BY <1>2, <2>1, <2>2, <3>3, <3>4, <3>6, <3>8, PutWorks
    <3>10. QED
      BY <3>2, <3>5, <3>7, <3>9, Zenon
  <2>3. CASE p \notin DOMAIN tr
    <3>1. /\ Can(tr, Parent(p), {"w", "x"})
          /\ PlanWrite(tr, r) = Plan(<<Put(p, r.data, FileMode, r.origin)>>, Len(r.data))
      BY <1>1, <1>3, <1>5, <2>3 DEF PlanWrite
    <3>2. PICK data, origin, delta : data = r.data /\ origin = r.origin /\ delta = Len(data)
      OBVIOUS
    <3>3. data \in Seq(Byte) /\ origin \in {"seed", "user"} /\ r2.path = p
      BY <1>1, <3>2
    <3>4. delta \in Int /\ delta = Len(data) - (IF p \in DOMAIN tr THEN Len(tr[p].data) ELSE 0)
      BY <2>3, <3>2, <3>3
    <3>5. Works(tr, r2, Plan(<<Put(p, data, FileMode, origin)>>, delta))
      BY <1>2, <2>1, <2>3, <3>1, <3>3, <3>4, PutWorks
    <3>6. QED
      BY <3>1, <3>2, <3>5, Zenon
  <2>4. QED
    BY <2>2, <2>3
<1>6. QED
  BY <1>4, <1>5

-----------------------------------------------------------------------------
(* chmod and utimes.                                                       *)

\* What chmod plans works.
LEMMA ChmodWorks ==
  ASSUME TreeConstants, NEW tr, IsTree(tr), NEW r, r.path \in Inputs, r.mode \in Modes,
         PlanChmod(tr, r).ok
  PROVE  Works(tr, r, PlanChmod(tr, r))
<1>1. PICK p, mode, s : p = r.path /\ mode = r.mode /\ s = SetMode(p, mode)
  OBVIOUS
<1>2. p \in Paths /\ p # <<>> /\ mode \in SUBSET rwx
  BY <1>1 DEF TreeConstants
<1>3. Refused.ok = FALSE
  BY DEF Refused
<1>4. Walk(tr, p) = "ok" /\ PlanChmod(tr, r) = Plan(<<s>>, 0)
  BY <1>1, <1>3 DEF PlanChmod
<1>5. p \in DOMAIN tr
  BY <1>2, <1>4, WalkIs DEF Has
<1>6. PICK st : st = Start(tr, UsedBytes(tr))
  OBVIOUS
<1>7. Whole(st) /\ st.tree = tr /\ UsedBytes(tr) \in Nat
  BY <1>6, FromStart
<1>8. PICK end : end = Stepped(st, s)
  OBVIOUS
<1>9. /\ Whole(end) /\ DOMAIN end.tree = DOMAIN tr /\ UsedBytes(end.tree) = UsedBytes(tr)
      /\ \A q \in DOMAIN tr : q # p => end.tree[q] = tr[q]
  <2>1. /\ Whole(Stepped(st, SetMode(p, mode)))
        /\ DOMAIN Stepped(st, SetMode(p, mode)).tree = DOMAIN st.tree
        /\ \A q \in DOMAIN st.tree : q # p => Stepped(st, SetMode(p, mode)).tree[q] = st.tree[q]
        /\ UsedBytes(Stepped(st, SetMode(p, mode)).tree) = UsedBytes(st.tree)
    BY <1>2, <1>5, <1>7, ModeStep
  <2>2. QED
    BY <1>1, <1>7, <1>8, <2>1, Zenon
<1>10. Local(tr, end.tree, r)
  BY <1>1, <1>9, LocalIf
<1>11. Keeps(tr, end.tree, r)
  BY <1>9, KeepsIf
<1>12. s.op \in Ops
  BY <1>1 DEF SetMode, Ops
<1>13. end = Stepped(Start(tr, UsedBytes(tr)), s) /\ UsedBytes(end.tree) <= UsedBytes(tr) + 0
  BY <1>6, <1>7, <1>8, <1>9
<1>14. Works(tr, r, Plan(<<s>>, 0))
  BY <1>9, <1>10, <1>11, <1>12, <1>13, OneStepWorks
<1>15. QED
  BY <1>4, <1>14

\* What touch plans works, also when it creates a file.
LEMMA TouchWorks ==
  ASSUME TreeConstants, NEW tr, IsTree(tr), NEW r, r.path \in Inputs, r.how = "plain",
         PlanTouch(tr, r).ok
  PROVE  Works(tr, r, PlanTouch(tr, r))
<1>1. Refused.ok = FALSE
  BY DEF Refused
<1>2. PICK p : p = r.path
  OBVIOUS
<1>3. p \in Paths /\ p # <<>> /\ p \in Inputs
  BY <1>2 DEF TreeConstants
<1>4. CASE Walk(tr, p) = "missing"
  <2>1. PICK w : w = [path |-> r.path, how |-> "plain", data |-> <<>>, origin |-> "user"]
    OBVIOUS
  <2>2. w.path \in Inputs /\ w.data \in Seq(Byte) /\ w.origin \in {"seed", "user"}
        /\ r.path = w.path /\ r.how = w.how
    <3>1. <<>> \in Seq(Byte)
      OBVIOUS
    <3>2. QED
      BY <1>2, <1>3, <2>1, <3>1
  <2>3. PlanTouch(tr, r) = PlanWrite(tr, w)
    BY <1>2, <1>4, <2>1 DEF PlanTouch
  <2>4. QED
    BY <2>2, <2>3, WriteWorks
<1>5. CASE Walk(tr, p) # "missing"
  <2>1. Walk(tr, p) = "ok" /\ PlanTouch(tr, r) = Plan(<<SetTimes(p)>>, 0)
    BY <1>1, <1>2, <1>5 DEF PlanTouch
  <2>2. p \in DOMAIN tr
    BY <1>3, <2>1, WalkIs DEF Has
  <2>3. PICK st, s : st = Start(tr, UsedBytes(tr)) /\ s = SetTimes(p)
    OBVIOUS
  <2>4. Whole(st) /\ st.tree = tr /\ UsedBytes(tr) \in Nat
    BY <2>3, FromStart
  <2>5. Stepped(st, s) = st
    BY <2>2, <2>3, <2>4, TimesStep
  <2>6. Local(tr, st.tree, r)
    BY <2>4, LocalIf
  <2>7. Keeps(tr, st.tree, r)
    BY <2>4, KeepsIf
  <2>8. s.op \in Ops
    BY <2>3 DEF SetTimes, Ops
  <2>9. st = Stepped(Start(tr, UsedBytes(tr)), s) /\ UsedBytes(st.tree) <= UsedBytes(tr) + 0
    BY <2>3, <2>4, <2>5
  <2>10. Works(tr, r, Plan(<<s>>, 0))
    BY <2>4, <2>6, <2>7, <2>8, <2>9, OneStepWorks
  <2>11. QED
    BY <2>1, <2>3, <2>10
<1>6. QED
  BY <1>4, <1>5

-----------------------------------------------------------------------------
(* remove.                                                                 *)

\* Part of a part.
LEMMA PartOfPart ==
  ASSUME NEW tr, NEW U, NEW V \in SUBSET U
  PROVE  Part(Part(tr, U), V) = Part(tr, V)
  BY DEF Part

\* A family has all that is below any of it, and but for its head all the parents.
LEMMA FamilyCloses ==
  ASSUME NEW tr, IsTree(tr), NEW p \in DOMAIN tr
  PROVE  /\ Family(tr, p) \in SUBSET DOMAIN tr /\ Family(tr, p) \in SUBSET Paths
         /\ IsFiniteSet(Family(tr, p)) /\ p \in Family(tr, p)
         /\ \A q \in DOMAIN tr : \A x \in Family(tr, p) : Descends(q, x) => q \in Family(tr, p)
         /\ \A x \in Family(tr, p) : x # p => Descends(x, p) /\ Parent(x) \in Family(tr, p)
         /\ \A x : x \in Family(tr, p) <=> x \in DOMAIN tr /\ AtOrBelow(x, p)
<1>1. p \in Paths
  BY NodeIs
<1>2. \A x : x \in Family(tr, p) <=> x \in DOMAIN tr /\ AtOrBelow(x, p)
  BY FamilyIs
<1>3. Family(tr, p) \in SUBSET DOMAIN tr /\ Family(tr, p) \in SUBSET Paths
  BY <1>2, TreeIsShelf
<1>4. IsFiniteSet(Family(tr, p))
  BY <1>3, FS_Subset DEF IsTree
<1>5. ASSUME NEW q \in DOMAIN tr, NEW x \in Family(tr, p), Descends(q, x) PROVE q \in Family(tr, p)
  <2>1. q \in Paths /\ x \in Paths /\ AtOrBelow(x, p)
    BY <1>2, <1>3, NodeIs
  <2>2. Descends(q, p)
    BY <1>1, <1>5, <2>1, DescendsOn DEF AtOrBelow
  <2>3. QED
    BY <1>2, <2>2 DEF AtOrBelow
<1>6. ASSUME NEW x \in Family(tr, p), x # p PROVE Descends(x, p) /\ Parent(x) \in Family(tr, p)
  <2>1. x \in DOMAIN tr /\ x \in Paths /\ Descends(x, p)
    BY <1>2, <1>3, <1>6 DEF AtOrBelow
  <2>2. Parent(x) \in Paths /\ IsDir(tr, Parent(x)) /\ AtOrBelow(Parent(x), p)
    BY <1>1, <2>1, NodeIs, DescendsNot DEF AtOrBelow
  <2>3. Parent(x) # <<>>
    BY <1>1, <2>2, NodeIs, DescendsNot DEF AtOrBelow
  <2>4. Parent(x) \in DOMAIN tr
    BY <2>2, <2>3, HasIs
  <2>5. QED
    BY <1>2, <2>1, <2>2, <2>4
<1>7. p \in Family(tr, p)
  BY DEF Family
<1>8. QED
  BY <1>2, <1>3, <1>4, <1>5, <1>6, <1>7

\* Removed deepest first, each node has nothing below it when its turn comes.
LEMMA RemoveRuns ==
  ASSUME NEW tr, IsTree(tr), NEW p \in DOMAIN tr, NEW S, S = Family(tr, p),
         NEW steps, Len(steps) = Cardinality(S),
         \A i \in 1..Cardinality(S) : steps[i] = Remove_(DeepestOf(LeftOf(S)[i - 1]))
  PROVE  LET end == Applied(tr, UsedBytes(tr), steps)
         IN  Whole(end) /\ end.tree = Part(tr, DOMAIN tr \ S)
<1> DEFINE n == Cardinality(S)
           left == LeftOf(S)
           A == Run(tr, UsedBytes(tr), steps)
           Stay(i) == (DOMAIN tr \ S) \cup left[i]
           Fine(i) == Whole(A[i]) /\ A[i].tree = Part(tr, Stay(i))
           M == {i \in 0..n : Fine(i)}
<1>1. /\ S \in SUBSET DOMAIN tr /\ S \in SUBSET Paths /\ IsFiniteSet(S)
      /\ \A q \in DOMAIN tr : \A x \in S : Descends(q, x) => q \in S
  BY FamilyCloses
<1>2. n \in Nat /\ left[0] = S /\ left[n] = {}
  BY <1>1, AllGone
<1>3. A[0] = Start(tr, UsedBytes(tr)) /\ \A i \in 1..n : A[i] = Stepped(A[i - 1], steps[i])
  BY <1>2, RunIs
<1>4. ASSUME NEW i \in 1..n
      PROVE  /\ DeepestOf(left[i - 1]) \in left[i - 1] /\ left[i - 1] \in SUBSET S
             /\ left[i] = left[i - 1] \ {DeepestOf(left[i - 1])}
             /\ \A q \in left[i - 1] : Len(q) <= Len(DeepestOf(left[i - 1]))
  BY <1>1, GoingIs
<1>5. \A i \in 1..n : steps[i] = Remove_(DeepestOf(left[i - 1]))
  OBVIOUS
<1> HIDE DEF n, left, A
<1>6. 0 \in M
  <2>1. A[0].ok = TRUE /\ A[0].tree = tr /\ A[0].used = UsedBytes(tr)
    BY <1>3 DEF Start
  <2>2. Stay(0) = DOMAIN tr
    BY <1>1, <1>2
  <2>3. tr = Part(tr, DOMAIN tr)
    BY DEF Part, IsTree
  <2>4. Fine(0)
    BY <2>1, <2>2, <2>3 DEF Whole
  <2>5. 0 \in 0..n
    BY <1>2
  <2>6. QED
    BY <2>4, <2>5
<1>7. ASSUME NEW i \in 1..n, i - 1 \in M PROVE i \in M
  <2>0. i \in 0..n
    BY <1>2
  <2>1. Fine(i - 1)
    BY <1>7, Zenon
  <2>2. PICK st, L, x : st = A[i - 1] /\ L = left[i - 1] /\ x = DeepestOf(left[i - 1])
    OBVIOUS
  <2>3. /\ x \in L /\ L \in SUBSET S /\ left[i] = L \ {x}
        /\ \A q \in L : Len(q) <= Len(x)
    BY <1>4, <2>2
  <2>4. Whole(st) /\ st.tree = Part(tr, (DOMAIN tr \ S) \cup L)
    BY <2>1, <2>2
  <2>5. DOMAIN st.tree = (DOMAIN tr \ S) \cup L
    BY <2>4 DEF Part
  <2>6. x \in DOMAIN st.tree /\ x \in Paths /\ x \in S
    BY <1>1, <2>3, <2>5
  <2>7. ASSUME NEW q \in DOMAIN st.tree PROVE ~Descends(q, x)
    <3>1. CASE q \in L
      <4>1. q \in Paths /\ Len(q) <= Len(x)
        BY <1>1, <2>3, <3>1
      <4>2. Len(q) \in Nat /\ Len(x) \in Nat
        BY <2>6, <4>1, PathIs
      <4>3. QED
        BY <2>6, <4>1, <4>2, DescendsNot
    <3>2. CASE q \notin L
      BY <1>1, <2>5, <2>6, <3>2
    <3>3. QED
      BY <3>1, <3>2
  <2>8. A[i] = Stepped(st, Remove_(x))
    BY <1>3, <1>5, <2>2
  <2>9. Whole(A[i]) /\ A[i].tree = Part(st.tree, DOMAIN st.tree \ {x})
    BY <2>4, <2>6, <2>7, <2>8, RemoveStep
  <2>10. DOMAIN st.tree \ {x} = Stay(i)
    BY <2>3, <2>5, <2>6
  <2>11. Stay(i) \in SUBSET ((DOMAIN tr \ S) \cup L)
    BY <2>3
  <2>12. Part(Part(tr, (DOMAIN tr \ S) \cup L), Stay(i)) = Part(tr, Stay(i))
    BY <2>11, PartOfPart
  <2>13. A[i].tree = Part(tr, Stay(i))
    BY <2>4, <2>9, <2>10, <2>12, Zenon
  <2>14. QED
    BY <2>0, <2>9, <2>13
<1>8. n \in M
  <2>1. \A i \in 0..n : i \in M
    <3> HIDE DEF M
    <3>1. QED
      BY <1>2, <1>6, <1>7, Stair
  <2>2. n \in 0..n
    BY <1>2
  <2>3. QED
    BY <2>1, <2>2, Zenon
<1>9. Fine(n)
  BY <1>8, Zenon
<1>10. Stay(n) = DOMAIN tr \ S
  BY <1>2
<1>11. Applied(tr, UsedBytes(tr), steps) = A[n]
  BY DEF Applied, A, n
<1>12. QED
  BY <1>9, <1>10, <1>11, Zenon

\* What remove plans works: the delta is all the bytes of what goes.
LEMMA RemoveWorks ==
  ASSUME TreeConstants, NEW tr, IsTree(tr), NEW r, r.path \in Inputs, PlanRemove(tr, r).ok
  PROVE  Works(tr, r, PlanRemove(tr, r))
<1>1. PICK p, S : p = r.path /\ S = Family(tr, p)
  OBVIOUS
<1>2. p \in Paths /\ p # <<>>
  BY <1>1 DEF TreeConstants
<1>3. PICK order, steps : /\ order = DeepestFirst(S)
                          /\ steps = [i \in 1..Cardinality(S) |-> Remove_(order[i])]
  OBVIOUS
<1>4. Refused.ok = FALSE
  BY DEF Refused
<1>5. /\ Walk(tr, p) = "ok" /\ Enterable(tr, Parent(p))
      /\ \A q \in S : tr[q].kind = "dir" => Can(tr, q, {"w", "x"})
      /\ PlanRemove(tr, r) = Plan(steps, 0 - UsedBytes(Part(tr, S)))
  BY <1>1, <1>3, <1>4 DEF PlanRemove
<1>6. p \in DOMAIN tr
  BY <1>2, <1>5, WalkIs DEF Has
<1>7. /\ S \in SUBSET DOMAIN tr /\ S \in SUBSET Paths /\ IsFiniteSet(S)
      /\ \A x \in S : x # p => Parent(x) \in S
      /\ \A x : x \in S <=> x \in DOMAIN tr /\ AtOrBelow(x, p)
  BY <1>1, <1>6, FamilyCloses
<1>8. Cardinality(S) \in Nat
  BY <1>7, FS_CardinalityType
<1>9. steps = [i \in 1..Cardinality(S) |-> steps[i]]
  BY <1>3
<1>10. Len(steps) = Cardinality(S)
  BY <1>8, <1>9, LenIs
<1>11. \A i \in 1..Cardinality(S) : steps[i] = Remove_(DeepestOf(LeftOf(S)[i - 1]))
  BY <1>3 DEF DeepestFirst
<1>12. PICK end : end = Applied(tr, UsedBytes(tr), steps)
  OBVIOUS
<1>13. Whole(end) /\ end.tree = Part(tr, DOMAIN tr \ S)
  BY <1>1, <1>6, <1>10, <1>11, <1>12, RemoveRuns
<1>14. /\ DOMAIN end.tree = DOMAIN tr \ S
       /\ \A q \in DOMAIN tr \ S : end.tree[q] = tr[q]
  BY <1>13 DEF Part
<1>15. StepsAre(steps)
  <2>1. ASSUME NEW i \in 1..Cardinality(S) PROVE steps[i].op \in Ops
    <3>1. PICK x : x = DeepestOf(LeftOf(S)[i - 1])
      OBVIOUS
    <3>2. steps[i] = Remove_(x) /\ Remove_(x).op = "remove"
      BY <1>11, <3>1 DEF Remove_
    <3>3. QED
      BY <3>2 DEF Ops
  <2>2. QED
    BY <1>8, <1>9, <1>10, <2>1 DEF StepsAre
<1>16. /\ UsedBytes(end.tree) <= UsedBytes(tr) + (0 - UsedBytes(Part(tr, S)))
       /\ 0 - UsedBytes(Part(tr, S)) \in Int
  <2>1. Shelf(tr) /\ UsedBytes(tr) \in Nat
    BY TreeIsShelf
  <2>2. UsedBytes(Part(tr, S)) \in Nat
    BY <1>7, <2>1, PartIs, BytesAreFinite
  <2>3. UsedBytes(end.tree) \in Nat
    BY <1>13, TreeIsShelf DEF Whole
  <2>4. UsedBytes(tr) = UsedBytes(Part(tr, S)) + UsedBytes(end.tree)
    BY <1>7, <1>13, <2>1, BytesAdd
  <2>5. QED
    BY <2>1, <2>2, <2>3, <2>4
<1>17. Local(tr, end.tree, r)
  <2>1. r.path \in Scope(r)
    BY DEF Scope
  <2>2. ASSUME NEW q, ~InScope(q, r) PROVE q \notin S
    BY <1>1, <1>7, <2>1, <2>2, Zenon DEF InScope, AtOrBelow
  <2>3. QED
    BY <1>14, <2>2 DEF Local
<1>18. Keeps(tr, end.tree, r)
  <2>1. ASSUME NEW d \in DOMAIN tr, tr[d].kind = "dir", ~Can(tr, d, {"w", "x"})
        PROVE  Children(tr, d) = Children(end.tree, d)
    <3>1. d \notin S
      BY <1>5, <2>1
    <3>2. d # Parent(p)
      BY <1>5, <2>1 DEF Enterable
    <3>3. \A q \in S : Parent(q) # d
      BY <1>7, <3>1, <3>2
    <3>4. QED
      BY <1>14, <3>3 DEF Children
  <2>2. QED
    BY <2>1 DEF Keeps
<1>19. PICK plan : plan = Plan(steps, 0 - UsedBytes(Part(tr, S)))
  OBVIOUS
<1>20. plan.steps = steps /\ plan.delta = 0 - UsedBytes(Part(tr, S))
  BY <1>19 DEF Plan
<1>21. Works(tr, r, plan)
  BY <1>12, <1>13, <1>15, <1>16, <1>17, <1>18, <1>20 DEF Works
<1>22. QED
  BY <1>5, <1>19, <1>21

-----------------------------------------------------------------------------
(* rename.                                                                 *)

\* A step alone, and a step after a step.
LEMMA OneAndOne ==
  ASSUME NEW a, NEW b
  PROVE  /\ <<>> \o <<b>> = <<b>> /\ <<a>> \o <<b>> = <<a, b>>
         /\ Len(<<b>>) = 1 /\ <<b>>[1] = b /\ <<b>> = [i \in 1..1 |-> <<b>>[i]]
<1>1. <<a>> \in Seq({a, b}) /\ <<b>> \in Seq({a, b}) /\ <<a, b>> \in Seq({a, b})
  OBVIOUS
<1>2. <<>> \o <<b>> = <<b>>
  OBVIOUS
<1>3. PICK s : s = Append(<<a>>, b)
  OBVIOUS
<1>4. s = <<a>> \o <<b>>
  BY <1>1, <1>3, AppendIsConcat
<1>5. s \in Seq({a, b}) /\ Len(s) = 2 /\ s[1] = a /\ s[2] = b
  <2>1. Len(<<a>>) = 1 /\ <<a>>[1] = a /\ b \in {a, b}
    OBVIOUS
  <2>2. QED
    BY <1>1, <1>3, <2>1, AppendProperties
<1>6. PICK t : t = <<a, b>>
  OBVIOUS
<1>7. t \in Seq({a, b}) /\ Len(t) = 2 /\ t[1] = a /\ t[2] = b
  BY <1>1, <1>6
<1>8. s = t
  <2>1. \A i \in 1..2 : i = 1 \/ i = 2
    OBVIOUS
  <2>2. \A i \in 1..Len(s) : s[i] = t[i]
    BY <1>5, <1>7, <2>1
  <2>3. QED
    BY <1>5, <1>7, <2>2, SeqEqual
<1>9. Len(<<b>>) = 1 /\ <<b>>[1] = b /\ <<b>> = [i \in 1..1 |-> <<b>>[i]]
  OBVIOUS
<1>10. QED
  BY <1>2, <1>4, <1>6, <1>8, <1>9

\* Nothing hangs under what is not there.
LEMMA NotThere ==
  ASSUME NEW tr, IsTree(tr), NEW p \in Paths, p # <<>>, p \notin DOMAIN tr
  PROVE  \A q \in DOMAIN tr : ~Descends(q, p)
<1>1. ~IsDir(tr, p)
  BY DEF IsDir, Has
<1>2. QED
  BY <1>1, NothingBelow

\* What the steps of a rename come to.
RenameDone(tr, from, to, steps) ==
  LET end == Applied(tr, UsedBytes(tr), steps)
  IN  /\ StepsAre(steps) /\ Whole(end) /\ UsedBytes(end.tree) <= UsedBytes(tr)
      /\ DOMAIN end.tree = ((DOMAIN tr \ {to}) \ Family(tr, from))
                              \cup {Rebased(q, from, to) : q \in Family(tr, from)}
      /\ \A q \in (DOMAIN tr \ {to}) \ Family(tr, from) : end.tree[q] = tr[q]

\* What is overwritten goes first, then what is named moves with all below it.
LEMMA RenameRuns ==
  ASSUME NEW tr, IsTree(tr), NEW from \in DOMAIN tr, NEW to \in Paths, to # <<>>, to # from,
         IsDir(tr, Parent(to)), ~Descends(to, from), \A q \in DOMAIN tr : ~Descends(q, to),
         NEW steps,
         steps = (IF to \in DOMAIN tr THEN <<Remove_(to)>> ELSE <<>>) \o <<Move(to, from)>>
  PROVE  RenameDone(tr, from, to, steps)
<1>1. PICK st, gone, moved : /\ st = Start(tr, UsedBytes(tr))
                             /\ gone = Remove_(to) /\ moved = Move(to, from)
  OBVIOUS
<1>2. Whole(st) /\ st.tree = tr /\ UsedBytes(tr) \in Nat
  BY <1>1, FromStart
<1>3. gone.op \in Ops /\ moved.op \in Ops
  BY <1>1 DEF Remove_, Move, Ops
<1>4. CASE to \notin DOMAIN tr
  <2>1. steps = <<moved>>
    <3>1. steps = <<>> \o <<moved>>
      BY <1>1, <1>4
    <3>2. QED
      BY <3>1, OneAndOne, Zenon
  <2>2. PICK end : end = Stepped(st, moved)
    OBVIOUS
  <2>3. Applied(tr, UsedBytes(tr), steps) = end
    BY <1>1, <2>1, <2>2, OneStep
  <2>4. StepsAre(steps)
    <3>1. Len(steps) = 1 /\ steps[1] = moved /\ steps = [i \in 1..1 |-> steps[i]]
      BY <2>1, OneAndOne, Zenon
    <3>2. \A i \in 1..1 : i = 1
      OBVIOUS
    <3>3. QED
      BY <1>3, <3>1, <3>2 DEF StepsAre
  <2>5. /\ Whole(end)
        /\ DOMAIN end.tree = (DOMAIN st.tree \ Family(st.tree, from))
                                \cup {Rebased(q, from, to) : q \in Family(st.tree, from)}
        /\ \A q \in DOMAIN st.tree \ Family(st.tree, from) : end.tree[q] = st.tree[q]
        /\ UsedBytes(end.tree) = UsedBytes(st.tree)
    <3>1. st \in {st} /\ from \in DOMAIN st.tree /\ to \notin DOMAIN st.tree /\ IsDir(st.tree, Parent(to))
      BY <1>2, <1>4
    <3>2. QED
      BY <1>1, <1>2, <2>2, <3>1, MoveStep
  <2>6. DOMAIN tr \ {to} = DOMAIN tr
    BY <1>4
  <2>7. QED
    BY <1>2, <2>3, <2>4, <2>5, <2>6 DEF RenameDone
<1>5. CASE to \in DOMAIN tr
  <2>1. steps = <<gone, moved>>
    <3>1. steps = <<gone>> \o <<moved>>
      BY <1>1, <1>5
    <3>2. QED
      BY <3>1, OneAndOne, Zenon
  <2>2. PICK mid, end : mid = Stepped(st, gone) /\ end = Stepped(mid, moved)
    OBVIOUS
  <2>3. Applied(tr, UsedBytes(tr), steps) = end
    <3>1. Applied(tr, UsedBytes(tr), <<gone, moved>>)
            = Stepped(Stepped(Start(tr, UsedBytes(tr)), gone), moved)
      BY TwoSteps
    <3>2. QED
      BY <1>1, <2>1, <2>2, <3>1, Zenon
  <2>4. StepsAre(steps)
    <3>1. /\ Len(steps) = 2 /\ steps[1] = gone /\ steps[2] = moved
          /\ steps = [i \in 1..2 |-> steps[i]]
      BY <2>1
    <3>2. \A i \in 1..2 : i = 1 \/ i = 2
      OBVIOUS
    <3>3. QED
      BY <1>3, <3>1, <3>2 DEF StepsAre
  <2>5. Whole(mid) /\ mid.tree = Part(tr, DOMAIN tr \ {to})
    <3>1. to \in DOMAIN st.tree /\ \A q \in DOMAIN st.tree : ~Descends(q, to)
      BY <1>2, <1>5
    <3>2. Whole(Stepped(st, Remove_(to)))
          /\ Stepped(st, Remove_(to)).tree = Part(st.tree, DOMAIN st.tree \ {to})
      BY <1>2, <3>1, RemoveStep
    <3>3. QED
      BY <1>1, <1>2, <2>2, <3>2, Zenon
  <2>6. PICK b : b = mid.tree
    OBVIOUS
  <2>7. /\ IsTree(b) /\ DOMAIN b = DOMAIN tr \ {to} /\ \A q \in DOMAIN b : b[q] = tr[q]
    BY <2>5, <2>6 DEF Part, Whole
  <2>8. from \in DOMAIN b /\ to \notin DOMAIN b
    BY <2>7
  <2>9. IsDir(b, Parent(to))
    <3>1. PICK up : up = Parent(to)
      OBVIOUS
    <3>2. up \in Paths /\ up # to
      BY <3>1, ParentIs
    <3>3. CASE up = <<>>
      BY <3>1, <3>3, RootIs
    <3>4. CASE up # <<>>
      <4>1. up \in DOMAIN tr /\ tr[up].kind = "dir"
        BY <3>1, <3>2, <3>4, HasIs
      <4>2. up \in DOMAIN b /\ b[up].kind = "dir"
        BY <2>7, <3>2, <4>1
      <4>3. QED
        BY <2>7, <3>1, <4>2, NodeIs
    <3>5. QED
      BY <3>3, <3>4
  <2>10. Family(b, from) = Family(tr, from)
    <3>1. Family(b, from) = {q \in DOMAIN b : AtOrBelow(q, from)}
      BY <2>7, <2>8, FamilyIs
    <3>2. Family(tr, from) = {q \in DOMAIN tr : AtOrBelow(q, from)}
      BY FamilyIs
    <3>3. ~AtOrBelow(to, from)
      BY DEF AtOrBelow
    <3>4. QED
      BY <2>7, <3>1, <3>2, <3>3
  <2>11. /\ Whole(end)
         /\ DOMAIN end.tree = (DOMAIN b \ Family(b, from))
                                \cup {Rebased(q, from, to) : q \in Family(b, from)}
         /\ \A q \in DOMAIN b \ Family(b, from) : end.tree[q] = b[q]
         /\ UsedBytes(end.tree) = UsedBytes(b)
    <3>1. from \in DOMAIN mid.tree /\ to \notin DOMAIN mid.tree /\ IsDir(mid.tree, Parent(to))
      BY <2>6, <2>8, <2>9
    <3>2. /\ Whole(Stepped(mid, Move(to, from)))
          /\ DOMAIN Stepped(mid, Move(to, from)).tree =
               (DOMAIN mid.tree \ Family(mid.tree, from))
                 \cup {Rebased(q, from, to) : q \in Family(mid.tree, from)}
          /\ \A q \in DOMAIN mid.tree \ Family(mid.tree, from) :
               Stepped(mid, Move(to, from)).tree[q] = mid.tree[q]
          /\ UsedBytes(Stepped(mid, Move(to, from)).tree) = UsedBytes(mid.tree)
      BY <2>5, <3>1, MoveStep
    <3>3. end = Stepped(mid, Move(to, from))
      BY <1>1, <2>2, Zenon
    <3>4. QED
      BY <2>6, <3>2, <3>3, Zenon
  <2>12. UsedBytes(b) <= UsedBytes(tr)
    <3>1. /\ UsedBytes(tr) = UsedBytes(Part(tr, DOMAIN tr \ {to})) + Size(tr[to])
          /\ UsedBytes(Part(tr, DOMAIN tr \ {to})) \in Nat /\ Size(tr[to]) \in Nat
      BY <1>5, BytesRest, TreeIsShelf
    <3>2. QED
      BY <2>5, <2>6, <3>1
  <2>13. UsedBytes(end.tree) <= UsedBytes(tr)
    BY <2>11, <2>12
  <2>14. /\ DOMAIN end.tree = ((DOMAIN tr \ {to}) \ Family(tr, from))
                                  \cup {Rebased(q, from, to) : q \in Family(tr, from)}
         /\ \A q \in (DOMAIN tr \ {to}) \ Family(tr, from) : end.tree[q] = tr[q]
    BY <2>7, <2>10, <2>11
  <2>15. QED
    BY <2>3, <2>4, <2>11, <2>13, <2>14 DEF RenameDone
<1>6. QED
  BY <1>4, <1>5

\* What rename plans works, with what it overwrites.
LEMMA RenameWorks ==
  ASSUME TreeConstants, NEW tr, IsTree(tr),
         NEW r, r.op = "rename", r.path \in Inputs, r.to \in Inputs, PlanRename(tr, r).ok
  PROVE  Works(tr, r, PlanRename(tr, r))
<1>1. PICK from, to : from = r.path /\ to = r.to
  OBVIOUS
<1>2. from \in Paths /\ from # <<>> /\ to \in Paths /\ to # <<>>
  BY <1>1 DEF TreeConstants
<1>3. PICK steps :
        steps = (IF to \in DOMAIN tr THEN <<Remove_(to)>> ELSE <<>>) \o <<Move(to, from)>>
  OBVIOUS
<1>4. Refused.ok = FALSE
  BY DEF Refused
<1>5. /\ from # to /\ Walk(tr, from) = "ok" /\ ~Descends(to, from)
      /\ Enterable(tr, Parent(to)) /\ Enterable(tr, Parent(from))
      /\ to \in DOMAIN tr => Below(tr, to) = {}
      /\ PlanRename(tr, r) = Plan(steps, 0)
  BY <1>1, <1>3, <1>4, Zenon DEF PlanRename
<1>6. from \in DOMAIN tr
  BY <1>2, <1>5, WalkIs DEF Has
<1>7. \A q \in DOMAIN tr : ~Descends(q, to)
  <2>1. CASE to \in DOMAIN tr
    BY <1>5, <2>1 DEF Below
  <2>2. CASE to \notin DOMAIN tr
    BY <1>2, <2>2, NotThere
  <2>3. QED
    BY <2>1, <2>2
<1>8. /\ IsDir(tr, Parent(to)) /\ Can(tr, Parent(to), {"w", "x"})
      /\ Can(tr, Parent(from), {"w", "x"})
  BY <1>5 DEF Enterable
<1>9. PICK end, F : end = Applied(tr, UsedBytes(tr), steps) /\ F = Family(tr, from)
  OBVIOUS
<1>10. /\ StepsAre(steps) /\ Whole(end) /\ UsedBytes(end.tree) <= UsedBytes(tr)
       /\ DOMAIN end.tree = ((DOMAIN tr \ {to}) \ F) \cup {Rebased(q, from, to) : q \in F}
       /\ \A q \in (DOMAIN tr \ {to}) \ F : end.tree[q] = tr[q]
  <2>1. RenameDone(tr, from, to, steps)
    BY <1>2, <1>3, <1>5, <1>6, <1>7, <1>8, RenameRuns
  <2>2. QED
    BY <1>9, <2>1, Zenon DEF RenameDone
<1>11. /\ F \in SUBSET Paths
       /\ \A x \in F : x # from => Descends(x, from) /\ Parent(x) \in F
       /\ \A x : x \in F <=> x \in DOMAIN tr /\ AtOrBelow(x, from)
  BY <1>6, <1>9, FamilyCloses
<1>12. \A x \in F : AtOrBelow(Rebased(x, from, to), to)
  BY <1>2, <1>11, RebasedBelow
<1>13. Local(tr, end.tree, r)
  <2>1. r.path \in Scope(r) /\ r.to \in Scope(r)
    BY DEF Scope
  <2>2. ASSUME NEW q, ~InScope(q, r) PROVE ~AtOrBelow(q, from) /\ ~AtOrBelow(q, to)
    BY <1>1, <2>1, <2>2, Zenon DEF InScope, AtOrBelow
  <2>3. ASSUME NEW q \in DOMAIN tr \cup DOMAIN end.tree, ~InScope(q, r)
        PROVE  q \in (DOMAIN tr \ {to}) \ F
    <3>1. q \notin F /\ q # to
      BY <1>11, <2>2, <2>3 DEF AtOrBelow
    <3>2. q \notin {Rebased(x, from, to) : x \in F}
      BY <1>12, <2>2, <2>3
    <3>3. QED
      BY <1>10, <3>1, <3>2
  <2>4. QED
    BY <1>10, <2>3 DEF Local
<1>14. Keeps(tr, end.tree, r)
  <2>1. ASSUME NEW d \in DOMAIN tr, ~Can(tr, d, {"w", "x"}), d # to, d \notin F
        PROVE  Children(tr, d) = Children(end.tree, d)
    <3>1. d # Parent(to) /\ d # Parent(from)
      BY <1>8, <2>1
    <3>2. ASSUME NEW q \in DOMAIN tr, Parent(q) = d PROVE q \in DOMAIN end.tree
      <4>1. q # to
        BY <3>1, <3>2
      <4>2. q \notin F
        BY <1>11, <2>1, <3>1, <3>2
      <4>3. QED
        BY <1>10, <4>1, <4>2
    <3>3. ASSUME NEW q \in DOMAIN end.tree, Parent(q) = d PROVE q \in DOMAIN tr
      <4>1. SUFFICES ASSUME NEW x \in F, q = Rebased(x, from, to) PROVE FALSE
        BY <1>10
      <4>2. CASE x = from
        BY <1>2, <3>1, <3>3, <4>1, <4>2, RebasedTop
      <4>3. CASE x # from
        <5>1. Descends(x, from) /\ x \in Paths
          BY <1>11, <4>3
        <5>2. d = Rebased(Parent(x), from, to) /\ AtOrBelow(Parent(x), from)
          BY <1>2, <3>3, <4>1, <5>1, RebasedParent
        <5>3. Parent(x) \in Paths
          BY <1>2, <5>1, DescendsNot
        <5>4. AtOrBelow(d, to)
          BY <1>2, <5>2, <5>3, RebasedBelow
        <5>5. QED
          BY <1>7, <2>1, <5>4 DEF AtOrBelow
      <4>4. QED
        BY <4>2, <4>3
    <3>4. QED
      BY <3>2, <3>3 DEF Children
  <2>2. QED
    BY <1>1, <1>9, <2>1 DEF Keeps
<1>15. PICK plan : plan = Plan(steps, 0)
  OBVIOUS
<1>16. plan.steps = steps /\ plan.delta = 0
  BY <1>15 DEF Plan
<1>17. UsedBytes(end.tree) <= UsedBytes(tr) + plan.delta
  BY <1>10, <1>16, FromStart
<1>18. Works(tr, r, plan)
  BY <1>9, <1>10, <1>13, <1>14, <1>16, <1>17 DEF Works
<1>19. QED
  BY <1>5, <1>15, <1>18

-----------------------------------------------------------------------------
(* copy.                                                                   *)

\* What the tree b is once the nodes L of the source have been copied.
CopiedTo(tr, b, L, from, to) ==
  /\ DOMAIN b = DOMAIN tr \cup {Rebased(q, from, to) : q \in L}
  /\ \A q \in DOMAIN tr \ {Rebased(x, from, to) : x \in L} : b[q] = tr[q]
  /\ \A x \in L : /\ b[Rebased(x, from, to)].kind = tr[x].kind
                  /\ b[Rebased(x, from, to)].data = tr[x].data
                  /\ Rebased(x, from, to) \notin DOMAIN tr => b[Rebased(x, from, to)].own = tr[x].own

\* What is there already is of the kind that comes.
Fits(tr, from, to) ==
  \A q \in Family(tr, from) :
    Rebased(q, from, to) \in DOMAIN tr => tr[Rebased(q, from, to)].kind = tr[q].kind

\* No two nodes go to one place.
LEMMA TargetsDiffer ==
  ASSUME NEW tr, IsTree(tr), NEW from \in DOMAIN tr, NEW to \in Paths
  PROVE  /\ \A x \in Family(tr, from) :
              /\ Rebased(x, from, to) \in Paths /\ AtOrBelow(Rebased(x, from, to), to)
              /\ to # <<>> => Rebased(x, from, to) # <<>>
         /\ \A x, y \in Family(tr, from) : Rebased(x, from, to) = Rebased(y, from, to) => x = y
<1>1. from \in Paths /\ \A x \in Family(tr, from) : x \in Paths /\ AtOrBelow(x, from)
  BY FamilyCloses, NodeIs
<1>2. ASSUME NEW x \in Family(tr, from)
      PROVE  /\ Rebased(x, from, to) \in Paths /\ AtOrBelow(Rebased(x, from, to), to)
             /\ Rebased(Rebased(x, from, to), to, from) = x
  BY <1>1, RebasedBelow
<1>3. ASSUME NEW x \in Family(tr, from), to # <<>> PROVE Rebased(x, from, to) # <<>>
  BY <1>2, <1>3, DescendsNot DEF AtOrBelow
<1>4. \A x, y \in Family(tr, from) : Rebased(x, from, to) = Rebased(y, from, to) => x = y
  BY <1>2, Zenon
<1>5. QED
  BY <1>2, <1>3, <1>4

\* One node more.
LEMMA CopyOne ==
  ASSUME NEW tr, IsTree(tr), NEW from \in DOMAIN tr, NEW to \in Paths, to # <<>>,
         IsDir(tr, Parent(to)), Fits(tr, from, to),
         NEW L \in SUBSET Family(tr, from), NEW st, Whole(st), CopiedTo(tr, st.tree, L, from, to),
         NEW x \in Family(tr, from), x \notin L, x # from => Parent(x) \in L,
         NEW s, s = CopyStep(tr, x, Rebased(x, from, to))
  PROVE  Whole(Stepped(st, s)) /\ CopiedTo(tr, Stepped(st, s).tree, L \cup {x}, from, to)
<1>1. PICK t, a, b : t = Rebased(x, from, to) /\ a = st.tree /\ b = Stepped(st, s).tree
  OBVIOUS
<1>2. /\ \A y \in Family(tr, from) : Rebased(y, from, to) \in Paths /\ Rebased(y, from, to) # <<>>
      /\ \A y \in L : Rebased(y, from, to) # t
  BY <1>1, TargetsDiffer
<1>3. t \in Paths /\ t # <<>>
  BY <1>1, <1>2
<1>4. /\ DOMAIN a = DOMAIN tr \cup {Rebased(q, from, to) : q \in L}
      /\ \A q \in DOMAIN tr \ {Rebased(y, from, to) : y \in L} : a[q] = tr[q]
      /\ \A y \in L : /\ a[Rebased(y, from, to)].kind = tr[y].kind
                      /\ a[Rebased(y, from, to)].data = tr[y].data
                      /\ Rebased(y, from, to) \notin DOMAIN tr => a[Rebased(y, from, to)].own = tr[y].own
  BY <1>1, Zenon DEF CopiedTo
<1>5. IsTree(a)
  BY <1>1 DEF Whole
<1>6. /\ x \in DOMAIN tr /\ x \in Paths /\ from \in Paths /\ L \in SUBSET DOMAIN tr
      /\ x # from => Descends(x, from)
  BY FamilyCloses, NodeIs
<1>7. \A q \in DOMAIN tr : a[q].kind = tr[q].kind
  <2>1. ASSUME NEW q \in DOMAIN tr PROVE a[q].kind = tr[q].kind
    <3>1. CASE q \in {Rebased(y, from, to) : y \in L}
      <4>1. PICK y \in L : q = Rebased(y, from, to)
        BY <3>1
      <4>2. a[q].kind = tr[y].kind
        BY <1>4, <4>1
      <4>3. tr[q].kind = tr[y].kind
        BY <4>1 DEF Fits
      <4>4. QED
        BY <4>2, <4>3
    <3>2. CASE q \notin {Rebased(y, from, to) : y \in L}
      BY <1>4, <3>2
    <3>3. QED
      BY <3>1, <3>2
  <2>2. QED
    BY <2>1
<1>8. t \notin {Rebased(y, from, to) : y \in L}
  BY <1>2
<1>9. t \in DOMAIN a => t \in DOMAIN tr /\ a[t] = tr[t] /\ a[t].kind = tr[x].kind
  <2>1. ASSUME t \in DOMAIN a PROVE t \in DOMAIN tr /\ a[t] = tr[t]
    BY <1>4, <1>8, <2>1
  <2>2. t \in DOMAIN tr => tr[t].kind = tr[x].kind
    BY <1>1 DEF Fits
  <2>3. QED
    BY <2>1, <2>2
<1>10. IsDir(a, Parent(t))
  <2>1. CASE x = from
    <3>1. t = to
      BY <1>1, <1>6, <2>1, RebasedTop
    <3>2. DOMAIN tr \subseteq DOMAIN a
      BY <1>4
    <3>3. QED
      BY <1>7, <3>1, <3>2, DirStays
  <2>2. CASE x # from
    <3>1. PICK y : y = Parent(x)
      OBVIOUS
    <3>2. y \in L /\ y \in DOMAIN tr
      BY <1>6, <2>2, <3>1
    <3>3. Parent(t) = Rebased(y, from, to)
      BY <1>1, <1>6, <2>2, <3>1, RebasedParent
    <3>4. IsDir(tr, y)
      BY <1>6, <3>1, NodeIs
    <3>5. tr[y].kind = "dir"
      BY <3>2, <3>4, NodeIs
    <3>6. Parent(t) \in DOMAIN a /\ a[Parent(t)].kind = "dir"
      BY <1>4, <3>2, <3>3, <3>5
    <3>7. QED
      BY <1>5, <3>6, NodeIs
  <2>3. QED
    BY <2>1, <2>2
<1>11. PICK kind, data, mode : kind = tr[x].kind /\ data = tr[x].data /\ mode = tr[x].own
  OBVIOUS
<1>12. /\ kind \in {"file", "dir"} /\ data \in Seq(Byte) /\ mode \in SUBSET rwx
       /\ kind = "dir" => data = <<>>
  BY <1>6, <1>11, NodeIs
<1>13. Whole(Stepped(st, s)) /\ PutAt(a, b, t, kind, data, mode)
  <2>1. /\ st.tree = a /\ "user" \in {"seed", "user"}
        /\ t \in DOMAIN st.tree => st.tree[t].kind = kind
    BY <1>1, <1>9, <1>11
  <2>2. CASE kind = "dir"
    <3>1. s = Make(t, mode, "user")
      BY <1>1, <1>11, <2>2 DEF CopyStep
    <3>2. /\ Whole(Stepped(st, Make(t, mode, "user")))
          /\ PutAt(st.tree, Stepped(st, Make(t, mode, "user")).tree, t, "dir", <<>>, mode)
      <4>1. IsDir(st.tree, Parent(t)) /\ (t \in DOMAIN st.tree => st.tree[t].kind = "dir")
        BY <1>10, <2>1, <2>2
      <4>2. QED
        BY <1>3, <1>12, <2>1, <4>1, MakeStep
    <3>3. data = <<>>
      BY <1>12, <2>2
    <3>4. QED
      BY <1>1, <2>2, <3>1, <3>2, <3>3, Zenon
  <2>3. CASE kind = "file"
    <3>1. s = Put(t, data, mode, "user")
      BY <1>1, <1>11, <2>3 DEF CopyStep
    <3>2. /\ Whole(Stepped(st, Put(t, data, mode, "user")))
          /\ PutAt(st.tree, Stepped(st, Put(t, data, mode, "user")).tree, t, "file", data, mode)
      <4>1. IsDir(st.tree, Parent(t)) /\ (t \in DOMAIN st.tree => st.tree[t].kind = "file")
        BY <1>10, <2>1, <2>3
      <4>2. QED
        BY <1>3, <1>12, <2>1, <4>1, PutStep
    <3>3. QED
      BY <1>1, <2>3, <3>1, <3>2, Zenon
  <2>4. QED
    BY <1>12, <2>2, <2>3
<1>14. /\ DOMAIN b = DOMAIN a \cup {t}
       /\ \A q \in DOMAIN a : q # t => b[q] = a[q]
       /\ b[t].kind = tr[x].kind /\ b[t].data = tr[x].data
       /\ t \notin DOMAIN a => b[t].own = tr[x].own
  BY <1>11, <1>13 DEF PutAt
<1>15. PICK T : T = {Rebased(q, from, to) : q \in L}
  OBVIOUS
<1>16. {Rebased(q, from, to) : q \in L \cup {x}} = T \cup {t}
  BY <1>1, <1>15
<1>17. DOMAIN a = DOMAIN tr \cup T /\ \A q \in DOMAIN tr \ T : a[q] = tr[q]
  BY <1>4, <1>15
<1>18. DOMAIN b = DOMAIN tr \cup (T \cup {t})
  BY <1>14, <1>17
<1>19. \A q \in DOMAIN tr \ (T \cup {t}) : b[q] = tr[q]
  BY <1>14, <1>17
<1>20. ASSUME NEW y \in L \cup {x}
       PROVE  /\ b[Rebased(y, from, to)].kind = tr[y].kind
              /\ b[Rebased(y, from, to)].data = tr[y].data
              /\ Rebased(y, from, to) \notin DOMAIN tr => b[Rebased(y, from, to)].own = tr[y].own
  <2>1. CASE y = x
    <3>1. t \notin DOMAIN tr => t \notin DOMAIN a
      BY <1>8, <1>15, <1>17
    <3>2. QED
      BY <1>1, <1>14, <2>1, <3>1
  <2>2. CASE y # x
    <3>1. y \in L
      BY <1>20, <2>2
    <3>2. PICK u : u = Rebased(y, from, to)
      OBVIOUS
    <3>3. u \in DOMAIN a /\ u # t
      BY <1>2, <1>15, <1>17, <3>1, <3>2
    <3>4. b[u] = a[u]
      BY <1>14, <3>3
    <3>5. a[u].kind = tr[y].kind /\ a[u].data = tr[y].data /\ (u \notin DOMAIN tr => a[u].own = tr[y].own)
      BY <1>4, <3>1, <3>2
    <3>6. QED
      BY <3>2, <3>4, <3>5
  <2>3. QED
    BY <2>1, <2>2
<1>21. CopiedTo(tr, b, L \cup {x}, from, to)
  BY <1>16, <1>18, <1>19, <1>20, Zenon DEF CopiedTo
<1>22. QED
  BY <1>1, <1>13, <1>21, Zenon

\* One after the other, each after the directory it hangs in.
LEMMA CopyRuns ==
  ASSUME NEW tr, IsTree(tr), NEW from \in DOMAIN tr, NEW to \in Paths, to # <<>>,
         IsDir(tr, Parent(to)), Fits(tr, from, to), NEW S, S = Family(tr, from),
         NEW steps, Len(steps) = Cardinality(S),
         \A i \in 1..Cardinality(S) :
           LET x == DeepestOf(LeftOf(S)[Cardinality(S) - i])
           IN  steps[i] = CopyStep(tr, x, Rebased(x, from, to))
  PROVE  LET end == Applied(tr, UsedBytes(tr), steps)
         IN  Whole(end) /\ CopiedTo(tr, end.tree, S, from, to)
<1> DEFINE n == Cardinality(S)
           left == LeftOf(S)
           A == Run(tr, UsedBytes(tr), steps)
           Fine(i) == Whole(A[i]) /\ CopiedTo(tr, A[i].tree, left[n - i], from, to)
           M == {i \in 0..n : Fine(i)}
<1>1. /\ S \in SUBSET DOMAIN tr /\ S \in SUBSET Paths /\ IsFiniteSet(S)
      /\ \A x \in S : x # from => Descends(x, from) /\ Parent(x) \in S
  BY FamilyCloses
<1>2. n \in Nat /\ left[0] = S /\ left[n] = {}
  BY <1>1, AllGone
<1>3. A[0] = Start(tr, UsedBytes(tr)) /\ \A i \in 1..n : A[i] = Stepped(A[i - 1], steps[i])
  BY <1>2, RunIs
<1>4. ASSUME NEW k \in 1..n
      PROVE  /\ DeepestOf(left[k - 1]) \in left[k - 1] /\ left[k - 1] \in SUBSET S
             /\ left[k] = left[k - 1] \ {DeepestOf(left[k - 1])}
             /\ \A x \in S \ left[k - 1] : \A y \in left[k - 1] : Len(y) <= Len(x)
  BY <1>1, GoingIs
<1>5. \A i \in 1..n : LET x == DeepestOf(left[n - i]) IN steps[i] = CopyStep(tr, x, Rebased(x, from, to))
  OBVIOUS
<1> HIDE DEF n, left, A
<1>6. 0 \in M
  <2>1. A[0].ok = TRUE /\ A[0].tree = tr /\ A[0].used = UsedBytes(tr)
    BY <1>3 DEF Start
  <2>2. CopiedTo(tr, tr, {}, from, to)
    BY DEF CopiedTo
  <2>3. left[n - 0] = {}
    <3>1. n - 0 = n
      BY <1>2
    <3>2. QED
      BY <1>2, <3>1
  <2>4. Fine(0)
    BY <2>1, <2>2, <2>3 DEF Whole
  <2>5. 0 \in 0..n
    BY <1>2
  <2>6. QED
    BY <2>4, <2>5
<1>7. ASSUME NEW i \in 1..n, i - 1 \in M PROVE i \in M
  <2>0. i \in 0..n
    BY <1>2
  <2>1. Fine(i - 1)
    BY <1>7, Zenon
  <2>2. PICK k : k = n - (i - 1)
    OBVIOUS
  <2>3. k \in 1..n /\ k - 1 = n - i
    BY <1>2, <2>2
  <2>4. PICK st, L, G, x : /\ st = A[i - 1] /\ L = left[k] /\ G = left[k - 1]
                           /\ x = DeepestOf(G)
    OBVIOUS
  <2>5. /\ x \in G /\ G \in SUBSET S /\ L = G \ {x}
        /\ \A y \in S \ G : \A z \in G : Len(z) <= Len(y)
    BY <1>4, <2>3, <2>4
  <2>6. Whole(st) /\ CopiedTo(tr, st.tree, L, from, to)
    BY <2>1, <2>2, <2>4
  <2>7. x \in S /\ x \notin L /\ L \in SUBSET S
    BY <2>5
  <2>8. ASSUME x # from PROVE Parent(x) \in L
    <3>1. Parent(x) \in S /\ x \in Paths /\ Parent(x) \in Paths /\ x # <<>>
      <4>1. from \in Paths /\ x \in Paths /\ x \in DOMAIN tr
        BY <1>1, <2>7, NodeIs
      <4>2. QED
        BY <1>1, <2>7, <2>8, <4>1, NodeIs
    <3>2. Len(x) \in Nat /\ Len(Parent(x)) = Len(x) - 1
      BY <3>1, ParentIs
    <3>3. ~(Len(x) <= Len(Parent(x)))
      BY <3>2
    <3>4. Parent(x) \in G
      BY <2>5, <3>1, <3>3
    <3>5. Parent(x) # x
      BY <3>1, ParentIs
    <3>6. QED
      BY <2>5, <3>4, <3>5
  <2>9. PICK s : s = CopyStep(tr, x, Rebased(x, from, to))
    OBVIOUS
  <2>10. steps[i] = s
    BY <1>5, <2>3, <2>4, <2>9
  <2>11. Whole(Stepped(st, s)) /\ CopiedTo(tr, Stepped(st, s).tree, L \cup {x}, from, to)
    BY <2>6, <2>7, <2>8, <2>9, CopyOne
  <2>12. L \cup {x} = left[n - i]
    BY <2>3, <2>4, <2>5
  <2>13. A[i] = Stepped(st, s)
    BY <1>3, <2>4, <2>10
  <2>14. Fine(i)
    BY <2>11, <2>12, <2>13
  <2>15. QED
    BY <2>0, <2>14
<1>8. n \in M
  <2>1. \A i \in 0..n : i \in M
    <3> HIDE DEF M
    <3>1. QED
      BY <1>2, <1>6, <1>7, Stair
  <2>2. n \in 0..n
    BY <1>2
  <2>3. QED
    BY <2>1, <2>2, Zenon
<1>9. Fine(n)
  BY <1>8, Zenon
<1>10. left[n - n] = S
  <2>1. n - n = 0
    BY <1>2
  <2>2. QED
    BY <1>2, <2>1
<1>11. Applied(tr, UsedBytes(tr), steps) = A[n]
  BY DEF Applied, A, n
<1>12. QED
  BY <1>9, <1>10, <1>11, Zenon

\* A copy counts what it brings, less what it overwrites.
LEMMA CopyBytes ==
  ASSUME NEW tr, IsTree(tr), NEW from \in DOMAIN tr, NEW to \in Paths,
         NEW S, S = Family(tr, from), NEW b, IsTree(b), CopiedTo(tr, b, S, from, to),
         NEW over, over = {Rebased(q, from, to) : q \in S} \cap DOMAIN tr
  PROVE  /\ UsedBytes(Part(tr, S)) - UsedBytes(Part(tr, over)) \in Int
         /\ UsedBytes(b) = UsedBytes(tr) + (UsedBytes(Part(tr, S)) - UsedBytes(Part(tr, over)))
<1>1. PICK T : T = {Rebased(q, from, to) : q \in S}
  OBVIOUS
<1>2. /\ DOMAIN b = DOMAIN tr \cup T
      /\ \A q \in DOMAIN tr \ T : b[q] = tr[q]
      /\ \A x \in S : /\ b[Rebased(x, from, to)].kind = tr[x].kind
                      /\ b[Rebased(x, from, to)].data = tr[x].data
  BY <1>1 DEF CopiedTo
<1>3. S \in SUBSET DOMAIN tr
  BY FamilyCloses
<1>4. Shelf(tr) /\ Shelf(b)
  BY TreeIsShelf
<1>5. over \in SUBSET DOMAIN tr /\ T \in SUBSET DOMAIN b /\ over = T \cap DOMAIN tr
  BY <1>1, <1>2
<1>6. DOMAIN tr \ over = DOMAIN b \ T
  BY <1>2, <1>5
<1>7. /\ Shelf(Part(tr, S)) /\ DOMAIN Part(tr, S) = S /\ \A p \in S : Part(tr, S)[p] = tr[p]
      /\ Shelf(Part(b, T)) /\ DOMAIN Part(b, T) = T /\ \A p \in T : Part(b, T)[p] = b[p]
  BY <1>3, <1>4, <1>5, PartIs
<1>8. UsedBytes(Part(b, T)) = UsedBytes(Part(tr, S))
  <2>1. PICK f : f = [q \in S |-> Rebased(q, from, to)]
    OBVIOUS
  <2>2. DOMAIN f = S /\ \A q \in S : f[q] = Rebased(q, from, to)
    BY <2>1
  <2>3. f \in [S -> T]
    BY <1>1, <2>1
  <2>4. \A x, y \in S : f[x] = f[y] => x = y
    <3>1. \A x, y \in S : Rebased(x, from, to) = Rebased(y, from, to) => x = y
      BY TargetsDiffer
    <3>2. QED
      BY <2>2, <3>1
  <2>5. \A u \in T : \E x \in S : f[x] = u
    BY <1>1, <2>2
  <2>6. f \in Bijection(S, T)
    BY <2>3, <2>4, <2>5 DEF Bijection, Injection, Surjection, IsInjective
  <2>7. \A p \in S : Size(Part(b, T)[f[p]]) = Size(Part(tr, S)[p])
    <3>1. ASSUME NEW p \in S PROVE Size(Part(b, T)[f[p]]) = Size(Part(tr, S)[p])
      <4>1. PICK u : u = Rebased(p, from, to)
        OBVIOUS
      <4>2. f[p] = u /\ u \in T
        BY <1>1, <2>2, <4>1
      <4>3. Part(b, T)[u] = b[u] /\ Part(tr, S)[p] = tr[p]
        BY <1>7, <4>2
      <4>4. b[u].kind = tr[p].kind /\ b[u].data = tr[p].data
        BY <1>2, <4>1
      <4>5. Size(b[u]) = Size(tr[p])
        BY <4>4 DEF Size
      <4>6. QED
        BY <4>2, <4>3, <4>5
    <3>2. QED
      BY <3>1
  <2>8. QED
    <3>1. PICK u, v : u = Part(tr, S) /\ v = Part(b, T)
      OBVIOUS
    <3>2. Shelf(u) /\ Shelf(v) /\ f \in Bijection(DOMAIN u, DOMAIN v)
          /\ \A p \in DOMAIN u : Size(v[f[p]]) = Size(u[p])
      BY <1>7, <2>6, <2>7, <3>1
    <3>3. UsedBytes(v) = UsedBytes(u)
      BY <3>2, BytesCarried
    <3>4. QED
      BY <3>1, <3>3
<1>9. Part(b, DOMAIN b \ T) = Part(tr, DOMAIN tr \ over)
  <2>1. \A q \in DOMAIN b \ T : b[q] = tr[q]
    BY <1>2
  <2>2. QED
    BY <1>6, <2>1 DEF Part
<1>10. /\ UsedBytes(b) = UsedBytes(Part(b, T)) + UsedBytes(Part(b, DOMAIN b \ T))
       /\ UsedBytes(tr) = UsedBytes(Part(tr, over)) + UsedBytes(Part(tr, DOMAIN tr \ over))
  BY <1>4, <1>5, BytesAdd
<1>11. /\ UsedBytes(Part(tr, over)) \in Nat /\ UsedBytes(Part(tr, S)) \in Nat
       /\ UsedBytes(Part(tr, DOMAIN tr \ over)) \in Nat
  <2>1. DOMAIN tr \ over \in SUBSET DOMAIN tr
    OBVIOUS
  <2>2. \A V \in SUBSET DOMAIN tr : UsedBytes(Part(tr, V)) \in Nat
    BY <1>4, PartIs, BytesAreFinite
  <2>3. QED
    BY <1>3, <1>5, <2>1, <2>2
<1>12. PICK x, y, z : /\ x = UsedBytes(Part(tr, over)) /\ y = UsedBytes(Part(tr, S))
                      /\ z = UsedBytes(Part(tr, DOMAIN tr \ over))
  OBVIOUS
<1>13. x \in Nat /\ y \in Nat /\ z \in Nat /\ UsedBytes(tr) = x + z /\ UsedBytes(b) = y + z
  BY <1>8, <1>9, <1>10, <1>11, <1>12, Zenon
<1>14. y - x \in Int /\ y + z = (x + z) + (y - x)
  BY <1>13
<1>15. QED
  BY <1>12, <1>13, <1>14, Zenon

\* The same, of lengths that have names.
Sits(x, q, from, to, k, g, m) ==
  /\ k \in Nat /\ g \in Nat /\ m \in Nat /\ k = Len(from) /\ g = Len(to) /\ m = Len(q)
  /\ x \in Paths /\ Len(x) = g + (m - k)
  /\ \A i \in 1..g : x[i] = to[i]
  /\ \A i \in 1..(m - k) : x[g + i] = q[k + i]

\* Where a path comes to be when it is given another beginning.
LEMMA RebasedAt ==
  ASSUME NEW q \in Paths, NEW from \in Paths, NEW to \in Paths, Len(from) <= Len(q)
  PROVE  Sits(Rebased(q, from, to), q, from, to, Len(from), Len(to), Len(q))
<1>1. PICK a, b, c \in Nat :
        /\ a = Len(from) /\ b = Len(to) /\ c = Len(q)
        /\ Rebased(q, from, to) \in Paths /\ Len(Rebased(q, from, to)) = b + (c - a)
        /\ \A i \in 1..b : Rebased(q, from, to)[i] = to[i]
        /\ \A i \in 1..(c - a) : Rebased(q, from, to)[b + i] = q[a + i]
  BY RebasedIs, Zenon
<1>2. Sits(Rebased(q, from, to), q, from, to, a, b, c)
  BY <1>1, Zenon DEF Sits
<1>3. QED
  BY <1>1, <1>2, Zenon

\* Going to a place by way of the directory it hangs in.
LEMMA RebasedChild ==
  ASSUME NEW c \in Paths, NEW q \in Paths, NEW from \in Paths, NEW to \in Paths,
         AtOrBelow(q, from), AtOrBelow(c, q)
  PROVE  Rebased(c, q, Rebased(q, from, to)) = Rebased(c, from, to)
<1>1. PICK t : t = Rebased(q, from, to)
  OBVIOUS
<1>2. Len(from) <= Len(q) /\ Len(q) <= Len(c) /\ \A i \in 1..Len(q) : c[i] = q[i]
  BY AtOrBelowIs
<1>3. PICK f \in Nat, g \in Nat, n \in Nat, m \in Nat :
        f = Len(from) /\ g = Len(to) /\ n = Len(q) /\ m = Len(c)
  BY PathIs
<1>4. f <= n /\ n <= m /\ Len(from) <= Len(c)
  BY <1>2, <1>3
<1>5. /\ t \in Paths /\ Len(t) = g + (n - f)
      /\ \A i \in 1..g : t[i] = to[i]
      /\ \A i \in 1..(n - f) : t[g + i] = q[f + i]
  <2>1. Sits(t, q, from, to, f, g, n)
    BY <1>1, <1>2, <1>3, RebasedAt, Zenon
  <2>2. QED
    BY <2>1 DEF Sits
<1>6. PICK u, v : u = Rebased(c, q, t) /\ v = Rebased(c, from, to)
  OBVIOUS
<1>7. PICK l \in Nat : l = g + (n - f)
  BY <1>4
<1>8. /\ u \in Paths /\ Len(u) = l + (m - n)
      /\ \A i \in 1..l : u[i] = t[i]
      /\ \A i \in 1..(m - n) : u[l + i] = c[n + i]
  <2>1. Len(t) = l
    BY <1>5, <1>7
  <2>2. Sits(u, c, q, t, n, l, m)
    BY <1>2, <1>3, <1>5, <1>6, <2>1, RebasedAt, Zenon
  <2>3. QED
    BY <2>2 DEF Sits
<1>9. /\ v \in Paths /\ Len(v) = g + (m - f)
      /\ \A i \in 1..g : v[i] = to[i]
      /\ \A i \in 1..(m - f) : v[g + i] = c[f + i]
  <2>1. Sits(v, c, from, to, f, g, m)
    BY <1>3, <1>4, <1>6, RebasedAt, Zenon
  <2>2. QED
    BY <2>1 DEF Sits
<1>10. Len(u) = Len(v)
  BY <1>4, <1>7, <1>8, <1>9
<1>11. ASSUME NEW i \in 1..Len(u) PROVE u[i] = v[i]
  <2>0. i \in Nat /\ 1 <= i /\ i <= g + (m - f)
    BY <1>9, <1>10
  <2>1. CASE i <= g
    <3>1. i \in 1..g /\ i \in 1..l
      BY <1>4, <1>7, <2>0, <2>1
    <3>2. QED
      BY <1>5, <1>8, <1>9, <3>1
  <2>2. CASE g < i /\ i <= l
    <3>1. PICK j \in Nat : i = g + j
      BY <2>0, <2>2
    <3>2. j \in 1..(n - f) /\ j \in 1..(m - f) /\ i \in 1..l /\ f + j \in 1..n
      BY <1>4, <1>7, <2>0, <2>2, <3>1
    <3>3. u[i] = q[f + j] /\ v[i] = c[f + j]
      BY <1>5, <1>8, <1>9, <3>1, <3>2
    <3>4. c[f + j] = q[f + j]
      BY <1>2, <1>3, <3>2
    <3>5. QED
      BY <3>3, <3>4
  <2>3. CASE l < i
    <3>1. PICK j \in Nat : i = l + j
      BY <2>0, <2>3
    <3>2. j \in 1..(m - n)
      BY <1>4, <1>7, <2>0, <2>3, <3>1
    <3>3. PICK k \in Nat : k = (n - f) + j
      BY <1>4
    <3>4. k \in 1..(m - f) /\ g + k = i /\ f + k = n + j
      BY <1>4, <1>7, <3>1, <3>2, <3>3
    <3>5. u[i] = c[n + j] /\ v[i] = c[f + k]
      BY <1>8, <1>9, <3>1, <3>2, <3>4
    <3>6. QED
      BY <3>4, <3>5
  <2>4. QED
    BY <1>7, <2>0, <2>1, <2>2, <2>3
<1>12. u = v
  BY <1>8, <1>9, <1>10, <1>11, SamePath
<1>13. QED
  BY <1>1, <1>6, <1>12

\* What copy plans works, leaves a copy of each node and reads only what may be read.
LEMMA CopyWorks ==
  ASSUME TreeConstants, NEW tr, IsTree(tr),
         NEW r, r.op = "copy", r.path \in Inputs, r.to \in Inputs, PlanCopy(tr, r).ok
  PROVE  LET plan == PlanCopy(tr, r)
         IN  /\ Works(tr, r, plan)
             /\ CopiedTo(tr, Applied(tr, UsedBytes(tr), plan.steps).tree, Family(tr, r.path), r.path, r.to)
             /\ \A q \in Family(tr, r.path) : tr[q].kind = "file" => "r" \in Allows(tr[q])
<1>1. PICK from, to, S : from = r.path /\ to = r.to /\ S = Family(tr, from)
  OBVIOUS
<1>2. from \in Paths /\ from # <<>> /\ to \in Paths /\ to # <<>>
  BY <1>1 DEF TreeConstants
<1>3. PICK order, over, steps, delta :
        /\ order = ShallowFirst(S)
        /\ over = {Rebased(q, from, to) : q \in S} \cap DOMAIN tr
        /\ steps = [i \in 1..Cardinality(S) |-> CopyStep(tr, order[i], Rebased(order[i], from, to))]
        /\ delta = UsedBytes(Part(tr, S)) - UsedBytes(Part(tr, over))
  OBVIOUS
<1>4. Refused.ok = FALSE
  BY DEF Refused
<1>5. /\ from # to /\ Walk(tr, from) = "ok" /\ ~Descends(to, from)
      /\ Enterable(tr, Parent(to))
      /\ \A q \in S : CopyAllowed(tr, q, Rebased(q, from, to))
      /\ PlanCopy(tr, r) = Plan(steps, delta)
  BY <1>1, <1>3, <1>4, Zenon DEF PlanCopy
<1>6. from \in DOMAIN tr
  BY <1>2, <1>5, WalkIs DEF Has
<1>7. IsDir(tr, Parent(to)) /\ Can(tr, Parent(to), {"w", "x"})
  BY <1>5 DEF Enterable
<1>8. /\ S \in SUBSET DOMAIN tr /\ S \in SUBSET Paths /\ IsFiniteSet(S)
      /\ \A x \in S : x # from => Descends(x, from) /\ Parent(x) \in S
      /\ \A x : x \in S <=> x \in DOMAIN tr /\ AtOrBelow(x, from)
  BY <1>1, <1>6, FamilyCloses
<1>9. \A x \in S : Node(tr, x) = tr[x] /\ tr[x].kind \in {"file", "dir"}
  BY <1>8, NodeIs
<1>10. Fits(tr, from, to)
  <2>1. ASSUME NEW q \in S, Rebased(q, from, to) \in DOMAIN tr
        PROVE  tr[Rebased(q, from, to)].kind = tr[q].kind
    <3>1. CopyAllowed(tr, q, Rebased(q, from, to))
      BY <1>5
    <3>2. QED
      BY <1>9, <2>1, <3>1, Zenon DEF CopyAllowed
  <2>2. QED
    BY <1>1, <2>1 DEF Fits
<1>11. Cardinality(S) \in Nat
  BY <1>8, FS_CardinalityType
<1>12. steps = [i \in 1..Cardinality(S) |-> steps[i]]
  BY <1>3
<1>13. Len(steps) = Cardinality(S)
  BY <1>11, <1>12, LenIs
<1>14. \A i \in 1..Cardinality(S) :
         LET x == DeepestOf(LeftOf(S)[Cardinality(S) - i])
         IN  steps[i] = CopyStep(tr, x, Rebased(x, from, to))
  BY <1>3 DEF ShallowFirst
<1>15. PICK end : end = Applied(tr, UsedBytes(tr), steps)
  OBVIOUS
<1>16. Whole(end) /\ CopiedTo(tr, end.tree, S, from, to)
  BY <1>1, <1>2, <1>6, <1>7, <1>10, <1>13, <1>14, <1>15, CopyRuns
<1>17. DOMAIN end.tree = DOMAIN tr \cup {Rebased(q, from, to) : q \in S}
       /\ \A q \in DOMAIN tr \ {Rebased(x, from, to) : x \in S} : end.tree[q] = tr[q]
  BY <1>16 DEF CopiedTo
<1>18. StepsAre(steps)
  <2>1. ASSUME NEW i \in 1..Cardinality(S) PROVE steps[i].op \in Ops
    <3>1. PICK x : x = DeepestOf(LeftOf(S)[Cardinality(S) - i])
      OBVIOUS
    <3>2. steps[i] = CopyStep(tr, x, Rebased(x, from, to))
      BY <1>14, <3>1
    <3>3. CopyStep(tr, x, Rebased(x, from, to)).op \in {"put", "mkdir"}
      BY DEF CopyStep, Put, Make
    <3>4. QED
      BY <3>2, <3>3 DEF Ops
  <2>2. QED
    BY <1>11, <1>12, <1>13, <2>1 DEF StepsAre
<1>19. delta \in Int /\ UsedBytes(end.tree) <= UsedBytes(tr) + delta
  <2>1. IsTree(end.tree)
    BY <1>16 DEF Whole
  <2>2. /\ UsedBytes(Part(tr, S)) - UsedBytes(Part(tr, over)) \in Int
        /\ UsedBytes(end.tree) = UsedBytes(tr) + (UsedBytes(Part(tr, S)) - UsedBytes(Part(tr, over)))
    BY <1>1, <1>2, <1>3, <1>6, <1>16, <2>1, CopyBytes
  <2>3. delta \in Int /\ UsedBytes(end.tree) = UsedBytes(tr) + delta
    BY <1>3, <2>2, Zenon
  <2>4. UsedBytes(tr) \in Nat
    BY FromStart
  <2>5. QED
    BY <2>3, <2>4
<1>20. \A x \in S : AtOrBelow(Rebased(x, from, to), to)
  BY <1>1, <1>2, <1>6, TargetsDiffer
<1>21. Local(tr, end.tree, r)
  <2>1. r.to \in Scope(r)
    BY DEF Scope
  <2>2. ASSUME NEW q, ~InScope(q, r) PROVE ~AtOrBelow(q, to)
    BY <1>1, <2>1, <2>2, Zenon DEF InScope, AtOrBelow
  <2>3. ASSUME NEW q, ~InScope(q, r) PROVE q \notin {Rebased(x, from, to) : x \in S}
    BY <1>20, <2>2, <2>3
  <2>4. QED
    BY <1>17, <2>3 DEF Local
<1>22. Keeps(tr, end.tree, r)
  <2>1. ASSUME NEW q \in DOMAIN end.tree \ DOMAIN tr, Parent(q) \in DOMAIN tr
        PROVE  Can(tr, Parent(q), {"w", "x"})
    <3>1. PICK x \in S : q = Rebased(x, from, to)
      BY <1>17, <2>1
    <3>2. CASE x = from
      BY <1>2, <1>7, <3>1, <3>2, RebasedTop
    <3>3. CASE x # from
      <4>1. PICK y, d : y = Parent(x) /\ d = Parent(q)
        OBVIOUS
      <4>2. y \in S /\ Descends(x, from) /\ x \in Paths /\ y \in Paths /\ x \in DOMAIN tr
            /\ AtOrBelow(y, from) /\ d \in DOMAIN tr
        BY <1>8, <2>1, <3>3, <4>1
      <4>3. d = Rebased(y, from, to)
        BY <1>2, <3>1, <4>1, <4>2, RebasedParent
      <4>4. IsDir(tr, y)
        BY <4>1, <4>2, NodeIs
      <4>5. tr[y].kind = "dir"
        BY <1>8, <4>2, <4>4, NodeIs
      <4>6. /\ Can(tr, d, {"x"})
            /\ \/ Can(tr, d, {"w"})
               \/ \A c \in Children(tr, y) : Rebased(c, y, d) \in DOMAIN tr
        <5>1. CopyAllowed(tr, y, d)
          BY <1>5, <4>2, <4>3
        <5>2. QED
          BY <4>2, <4>5, <5>1 DEF CopyAllowed
      <4>7. x \in Children(tr, y)
        BY <4>1, <4>2, NodeIs DEF Children
      <4>8. Rebased(x, y, d) = q
        <5>1. x # <<>>
          BY <4>2, NodeIs
        <5>2. AtOrBelow(x, y)
          BY <4>1, <4>2, <5>1, ParentIs DEF AtOrBelow
        <5>3. Rebased(x, y, Rebased(y, from, to)) = Rebased(x, from, to)
          BY <1>2, <4>2, <5>2, RebasedChild
        <5>4. QED
          BY <3>1, <4>3, <5>3, Zenon
      <4>9. Can(tr, d, {"x"}) /\ Can(tr, d, {"w"})
        BY <2>1, <4>6, <4>7, <4>8
      <4>10. Can(tr, d, {"w", "x"})
        BY <4>9 DEF Can
      <4>11. QED
        BY <4>1, <4>10
    <3>4. QED
      BY <3>2, <3>3
  <2>2. DOMAIN tr \subseteq DOMAIN end.tree
    BY <1>17
  <2>3. QED
    BY <2>1, <2>2, KeepsIf
<1>23. \A q \in S : tr[q].kind = "file" => "r" \in Allows(tr[q])
  <2>1. ASSUME NEW q \in S, tr[q].kind = "file" PROVE "r" \in Allows(tr[q])
    <3>1. CopyAllowed(tr, q, Rebased(q, from, to))
      BY <1>5
    <3>2. Can(tr, q, {"r"})
      BY <2>1, <3>1 DEF CopyAllowed
    <3>3. QED
      BY <1>9, <3>2 DEF Can
  <2>2. QED
    BY <2>1
<1>24. PICK plan : plan = Plan(steps, delta)
  OBVIOUS
<1>25. plan.steps = steps /\ plan.delta = delta
  BY <1>24 DEF Plan
<1>26. Works(tr, r, plan)
  BY <1>15, <1>16, <1>18, <1>19, <1>21, <1>22, <1>25 DEF Works
<1>27. CopiedTo(tr, Applied(tr, UsedBytes(tr), plan.steps).tree, S, from, to)
  BY <1>15, <1>16, <1>25, Zenon
<1>28. QED
  BY <1>1, <1>5, <1>23, <1>24, <1>26, <1>27, Zenon

-----------------------------------------------------------------------------
(* Any plan.                                                               *)

\* What is asked for is one of seven things.
LEMMA RequestIs ==
  ASSUME NEW r \in Requests
  PROVE  /\ r.path \in Inputs
         /\ \/ r.op = "mkdir" /\ r.how \in {"plain", "parents"} /\ r.mode \in Modes
            \/ r.op = "write" /\ r.data \in Contents /\ r.origin = "user"
            \/ r.op = "remove"
            \/ r.op = "rename" /\ r.to \in Inputs
            \/ r.op = "copy" /\ r.to \in Inputs
            \/ r.op = "chmod" /\ r.mode \in Modes
            \/ r.op = "touch" /\ r.how = "plain"
  BY DEF Requests

\* A plan that was made runs to its end, leaves a tree that is counted right and
\* within what it announced, and changes and keeps what it should.
LEMMA PlanWorks ==
  ASSUME TreeConstants, NEW tr, IsTree(tr), NEW r \in Requests, Planned(tr, r).ok
  PROVE  Works(tr, r, Planned(tr, r))
<1>1. r.path \in Inputs
  BY RequestIs
<1>2. CASE r.op = "mkdir" /\ r.how \in {"plain", "parents"} /\ r.mode \in Modes
  <2>1. Planned(tr, r) = PlanMkdir(tr, r)
    BY <1>2 DEF Planned
  <2>2. QED
    BY <1>1, <1>2, <2>1, MkdirWorks
<1>3. CASE r.op = "write" /\ r.data \in Contents /\ r.origin = "user"
  <2>1. Planned(tr, r) = PlanWrite(tr, r)
    BY <1>3 DEF Planned
  <2>2. r.data \in Seq(Byte) /\ r.origin \in {"seed", "user"}
    BY <1>3 DEF TreeConstants
  <2>3. QED
    BY <1>1, <2>1, <2>2, WriteWorks
<1>4. CASE r.op = "remove"
  <2>1. Planned(tr, r) = PlanRemove(tr, r)
    BY <1>4 DEF Planned
  <2>2. QED
    BY <1>1, <2>1, RemoveWorks
<1>5. CASE r.op = "rename" /\ r.to \in Inputs
  <2>1. Planned(tr, r) = PlanRename(tr, r)
    BY <1>5 DEF Planned
  <2>2. QED
    BY <1>1, <1>5, <2>1, RenameWorks
<1>6. CASE r.op = "copy" /\ r.to \in Inputs
  <2>1. Planned(tr, r) = PlanCopy(tr, r)
    BY <1>6 DEF Planned
  <2>2. PlanCopy(tr, r).ok
    BY <2>1
  <2>3. Works(tr, r, PlanCopy(tr, r))
    BY <1>1, <1>6, <2>2, CopyWorks
  <2>4. QED
    BY <2>1, <2>3
<1>7. CASE r.op = "chmod" /\ r.mode \in Modes
  <2>1. Planned(tr, r) = PlanChmod(tr, r)
    BY <1>7 DEF Planned
  <2>2. QED
    BY <1>1, <1>7, <2>1, ChmodWorks
<1>8. CASE r.op = "touch" /\ r.how = "plain"
  <2>1. Planned(tr, r) = PlanTouch(tr, r)
    BY <1>8 DEF Planned
  <2>2. QED
    BY <1>1, <1>8, <2>1, TouchWorks
<1>9. QED
  BY <1>2, <1>3, <1>4, <1>5, <1>6, <1>7, <1>8, RequestIs

-----------------------------------------------------------------------------
(* The inductive invariant.                                                *)

\* A plan under way: made of the tree there is, or applied and not yet committed.
Flying(f) ==
  /\ f = [id |-> f.id, at |-> f.at, req |-> f.req, plan |-> f.plan]
  /\ \/ /\ f.at = "planned" /\ f.req \in Requests
        /\ f.plan = Planned(tree, f.req) /\ f.plan.ok
        /\ ~(f.plan.delta > 0 /\ used + f.plan.delta > Capacity)
        /\ ~lost => rebuilt = tree
     \/ f.at = "applied" /\ (~lost => Applied(rebuilt, 0, f.plan.steps).tree = tree)

\* The tree is whole and counted, and at most one plan is under way.
TreeInv ==
  /\ IsTree(tree) /\ used = UsedBytes(tree) /\ used <= Capacity
  /\ plans \in 0..MaxPlans /\ lost \in BOOLEAN
  /\ \/ flying = {} /\ (~lost => rebuilt = tree)
     \/ \E f \in flying : flying = {f} /\ Flying(f)

\* The tree without a node.
LEMMA EmptyTree == IsTree(<<>>) /\ UsedBytes(<<>>) = 0
<1>1. PICK e : e = <<>>
  OBVIOUS
<1>2. DOMAIN e = {} /\ e = [p \in {} |-> e[p]]
  BY <1>1
<1>3. e \in [DOMAIN e -> Nodes] /\ IsFiniteSet(DOMAIN e)
  BY <1>2, FS_EmptySet
<1>4. IsTree(e)
  BY <1>2, <1>3 DEF IsTree
<1>5. Bytes(e) = {}
  BY <1>2 DEF Bytes
<1>6. UsedBytes(e) = 0
  BY <1>5, FS_EmptySet DEF UsedBytes
<1>7. QED
  BY <1>1, <1>4, <1>6

\* What a plan under way comes to when it is applied.
LEMMA FlyingWorks ==
  ASSUME TreeConstants, TreeInv, NEW f \in flying, f.at = "planned",
         NEW end, end = Applied(tree, used, f.plan.steps)
  PROVE  /\ flying = {f} /\ Flying(f) /\ f.req \in Requests
         /\ f.plan = Planned(tree, f.req) /\ f.plan.ok
         /\ ~(f.plan.delta > 0 /\ used + f.plan.delta > Capacity)
         /\ ~lost => rebuilt = tree
         /\ StepsAre(f.plan.steps) /\ f.plan.delta \in Int
         /\ Whole(end) /\ UsedBytes(end.tree) <= used + f.plan.delta
         /\ Local(tree, end.tree, f.req) /\ Keeps(tree, end.tree, f.req)
<1>1. flying = {f} /\ Flying(f)
  BY DEF TreeInv
<1>2. /\ f.req \in Requests /\ f.plan = Planned(tree, f.req) /\ f.plan.ok
      /\ ~(f.plan.delta > 0 /\ used + f.plan.delta > Capacity)
      /\ ~lost => rebuilt = tree
  BY <1>1 DEF Flying
<1>3. IsTree(tree) /\ used = UsedBytes(tree)
  BY DEF TreeInv
<1>4. Works(tree, f.req, f.plan)
  BY <1>2, <1>3, PlanWorks
<1>5. QED
  BY <1>1, <1>2, <1>3, <1>4 DEF Works

\* The inductive invariant holds at first,
LEMMA TreeStart == ASSUME TreeConstants, Init PROVE TreeInv
<1>1. IsTree(tree) /\ used = UsedBytes(tree) /\ used <= Capacity
  BY DEF TreeConstants, Init
<1>2. plans \in 0..MaxPlans /\ lost \in BOOLEAN /\ flying = {} /\ rebuilt = tree
  <2>1. 0 \in 0..MaxPlans
    BY DEF TreeConstants
  <2>2. QED
    BY <2>1 DEF Init
<1>3. QED
  BY <1>1, <1>2 DEF TreeInv

\* when a plan is made,
LEMMA BeginKeeps ==
  ASSUME TreeConstants, TreeInv, NEW r \in Requests, Begin(r) PROVE TreeInv'
<1>1. PICK plan : plan = Planned(tree, r)
  OBVIOUS
<1>2. PICK f : f = [id |-> plans, at |-> "planned", req |-> r, plan |-> plan]
  OBVIOUS
<1>3. /\ plans < MaxPlans /\ flying = {} /\ plan.ok
      /\ ~(plan.delta > 0 /\ used + plan.delta > Capacity)
      /\ plans' = plans + 1 /\ flying' = {f}
      /\ UNCHANGED <<tree, used, rebuilt, lost>>
  BY <1>1, <1>2 DEF Begin
<1>4. /\ f.id = plans /\ f.at = "planned" /\ f.req = r /\ f.plan = plan
  BY <1>2
<1>5. IsTree(tree) /\ used = UsedBytes(tree) /\ used <= Capacity /\ plans \in 0..MaxPlans
      /\ lost \in BOOLEAN /\ (~lost => rebuilt = tree)
  BY <1>3 DEF TreeInv
<1>6. plans' \in 0..MaxPlans
  BY <1>3, <1>5 DEF TreeConstants
<1>7. Flying(f)'
  <2>1. f = [id |-> f.id, at |-> f.at, req |-> f.req, plan |-> f.plan]
    BY <1>2, <1>4, Zenon
  <2>2. f.plan = Planned(tree', f.req)
    BY <1>1, <1>3, <1>4
  <2>3. /\ f.at = "planned" /\ f.req \in Requests /\ f.plan.ok
        /\ ~(f.plan.delta > 0 /\ used' + f.plan.delta > Capacity)
        /\ ~lost' => rebuilt' = tree'
    BY <1>3, <1>4, <1>5
  <2>4. QED
    BY <2>1, <2>2, <2>3, Zenon DEF Flying
<1>8. QED
  BY <1>3, <1>5, <1>6, <1>7 DEF TreeInv

\* when it is applied,
LEMMA ApplyKeeps ==
  ASSUME TreeConstants, TreeInv, NEW f \in flying, Apply(f) PROVE TreeInv'
<1>1. PICK end : end = Applied(tree, used, f.plan.steps)
  OBVIOUS
<1>2. f.at = "planned"
  BY DEF Apply
<1>3. /\ flying = {f} /\ Flying(f)
      /\ ~(f.plan.delta > 0 /\ used + f.plan.delta > Capacity)
      /\ ~lost => rebuilt = tree
      /\ StepsAre(f.plan.steps) /\ f.plan.delta \in Int
      /\ Whole(end) /\ UsedBytes(end.tree) <= used + f.plan.delta
  BY <1>1, <1>2, FlyingWorks
<1>4. PICK g : g = [f EXCEPT !.at = "applied"]
  OBVIOUS
<1>5. /\ end.ok = TRUE /\ IsTree(end.tree) /\ end.used = UsedBytes(end.tree)
  BY <1>3 DEF Whole
<1>6. /\ tree' = end.tree /\ used' = end.used /\ flying' = {g}
      /\ UNCHANGED <<rebuilt, lost, plans>>
  BY <1>1, <1>3, <1>4, <1>5 DEF Apply
<1>7. /\ used = UsedBytes(tree) /\ used <= Capacity /\ plans \in 0..MaxPlans /\ lost \in BOOLEAN
      /\ used \in Nat /\ Capacity \in Nat
  BY FromStart DEF TreeInv, TreeConstants
<1>8. used' <= Capacity
  <2>1. used' = UsedBytes(end.tree) /\ used' \in Nat
    BY <1>5, <1>6, FromStart
  <2>2. QED
    BY <1>3, <1>7, <2>1
<1>9. g = [id |-> f.id, at |-> "applied", req |-> f.req, plan |-> f.plan]
  <2>1. f = [id |-> f.id, at |-> f.at, req |-> f.req, plan |-> f.plan]
    BY <1>3 DEF Flying
  <2>2. QED
    BY <1>4, <2>1
<1>10. g.id = f.id /\ g.at = "applied" /\ g.req = f.req /\ g.plan = f.plan
  BY <1>9
<1>11. ~lost => Applied(rebuilt, 0, g.plan.steps).tree = end.tree
  <2>1. SUFFICES ASSUME ~lost PROVE Applied(rebuilt, 0, g.plan.steps).tree = end.tree
    OBVIOUS
  <2>2. rebuilt = tree
    BY <1>3, <2>1
  <2>3. PICK steps : steps = f.plan.steps
    OBVIOUS
  <2>4. Len(steps) \in Nat /\ \A i \in 1..Len(steps) : steps[i].op \in Ops
    BY <1>3, <2>3 DEF StepsAre
  <2>5. Applied(tree, 0, steps).tree = Applied(tree, used, steps).tree
    BY <2>4, AlikeRun
  <2>6. QED
    BY <1>1, <1>10, <2>2, <2>3, <2>5, Zenon
<1>12. Flying(g)'
  <2>1. g = [id |-> g.id, at |-> g.at, req |-> g.req, plan |-> g.plan]
    BY <1>9, <1>10, Zenon
  <2>2. ~lost' => Applied(rebuilt', 0, g.plan.steps).tree = tree'
    BY <1>6, <1>11
  <2>3. QED
    BY <1>10, <2>1, <2>2, Zenon DEF Flying
<1>13. QED
  BY <1>5, <1>6, <1>7, <1>8, <1>12 DEF TreeInv

\* and at every other step.
LEMMA NextKeeps == ASSUME TreeConstants, TreeInv, [Next]_treeVars PROVE TreeInv'
<1>1. ASSUME NEW r \in Requests, Begin(r) PROVE TreeInv'
  BY <1>1, BeginKeeps
<1>2. ASSUME NEW f \in flying, Apply(f) PROVE TreeInv'
  BY <1>2, ApplyKeeps
<1>3. ASSUME NEW f \in flying, WriteFails(f) PROVE TreeInv'
  <2>1. f.at = "planned" /\ flying' = flying \ {f} /\ UNCHANGED <<tree, used, rebuilt, lost, plans>>
    BY <1>3 DEF WriteFails
  <2>2. flying = {f} /\ (~lost => rebuilt = tree)
    BY <1>3, <2>1, FlyingWorks
  <2>3. flying' = {}
    BY <2>1, <2>2
  <2>4. QED
    BY <2>1, <2>2, <2>3 DEF TreeInv
<1>4. ASSUME NEW f \in flying, f.at = "applied"
      PROVE  flying = {f} /\ (~lost => Applied(rebuilt, 0, f.plan.steps).tree = tree)
  <2>1. flying = {f} /\ Flying(f)
    BY <1>4 DEF TreeInv
  <2>2. QED
    BY <1>4, <2>1 DEF Flying
<1>5. ASSUME NEW f \in flying, Commit(f) PROVE TreeInv'
  <2>1. /\ f.at = "applied" /\ flying' = flying \ {f}
        /\ rebuilt' = Applied(rebuilt, 0, f.plan.steps).tree
        /\ UNCHANGED <<tree, used, lost, plans>>
    BY <1>5 DEF Commit
  <2>2. flying' = {} /\ (~lost' => rebuilt' = tree')
    BY <1>4, <2>1
  <2>3. QED
    BY <2>1, <2>2 DEF TreeInv
<1>6. ASSUME NEW f \in flying, CommitFails(f) PROVE TreeInv'
  <2>1. /\ f.at = "applied" /\ flying' = flying \ {f} /\ lost' = TRUE
        /\ UNCHANGED <<tree, used, rebuilt, plans>>
    BY <1>6 DEF CommitFails
  <2>2. flying' = {}
    BY <1>4, <2>1
  <2>3. QED
    BY <2>1, <2>2 DEF TreeInv
<1>7. ASSUME Reset PROVE TreeInv'
  <2>1. /\ flying' = {} /\ plans < MaxPlans /\ plans' = plans + 1
        /\ tree' = <<>> /\ used' = 0 /\ rebuilt' = <<>> /\ lost' = lost
    BY <1>7 DEF Reset
  <2>2. plans' \in 0..MaxPlans /\ used' <= Capacity /\ lost' \in BOOLEAN
    BY <2>1 DEF TreeInv, TreeConstants
  <2>3. IsTree(tree') /\ used' = UsedBytes(tree') /\ rebuilt' = tree'
    BY <2>1, EmptyTree
  <2>4. QED
    BY <2>1, <2>2, <2>3 DEF TreeInv
<1>8. ASSUME UNCHANGED treeVars PROVE TreeInv'
  BY <1>8 DEF TreeInv, Flying, treeVars
<1>9. QED
  BY <1>1, <1>2, <1>3, <1>5, <1>6, <1>7, <1>8 DEF Next

-----------------------------------------------------------------------------
(* What a step does.                                                       *)

\* The turn in which a plan is over: nothing has changed, or the tree is what the
\* plan makes of it.
LEMMA Landing ==
  ASSUME TreeConstants, TreeInv, Next, NEW f \in flying, f.at = "planned"
  PROVE  \/ Apply(f) /\ tree' = Applied(tree, used, f.plan.steps).tree
         \/ flying' = {} /\ tree' = tree
<1>1. flying = {f}
  BY FlyingWorks
<1>2. ASSUME NEW r \in Requests, Begin(r) PROVE FALSE
  BY <1>1, <1>2 DEF Begin
<1>3. ~Reset
  BY <1>1 DEF Reset
<1>4. ~Commit(f) /\ ~CommitFails(f)
  BY DEF Commit, CommitFails
<1>5. Apply(f) \/ WriteFails(f)
  BY <1>1, <1>2, <1>3, <1>4 DEF Next
<1>6. CASE Apply(f)
  BY <1>6 DEF Apply
<1>7. CASE WriteFails(f)
  BY <1>1, <1>7 DEF WriteFails
<1>8. QED
  BY <1>5, <1>6, <1>7

\* What a step of the tree does, by the plan it applies.
LEMMA TreeNext == ASSUME TreeConstants, TreeInv, Next PROVE TreeSteps
<1>1. EffectIsLocal
  <2>1. ASSUME NEW f \in flying, f.at = "planned",
               NEW p \in DOMAIN tree \cup DOMAIN tree', ~InScope(p, f.req)
        PROVE  p \in DOMAIN tree /\ p \in DOMAIN tree' /\ tree[p] = tree'[p]
    <3>1. PICK end : end = Applied(tree, used, f.plan.steps)
      OBVIOUS
    <3>2. Local(tree, end.tree, f.req)
      BY <2>1, <3>1, FlyingWorks
    <3>3. tree' = end.tree \/ tree' = tree
      BY <2>1, <3>1, Landing
    <3>4. CASE tree' = end.tree
      BY <2>1, <3>2, <3>4 DEF Local
    <3>5. CASE tree' = tree
      BY <2>1, <3>5
    <3>6. QED
      BY <3>3, <3>4, <3>5
  <2>2. QED
    BY <2>1 DEF EffectIsLocal
<1>2. ReadOnlyDirectoryKeepsItsEntries
  <2>1. ASSUME NEW f \in flying, f.at = "planned", NEW d \in DOMAIN tree,
               tree[d].kind = "dir", ~Can(tree, d, {"w", "x"}),
               ~(f.req.op = "rename" /\ d \in {f.req.to} \cup Family(tree, f.req.path))
        PROVE  Children(tree, d) = Children(tree', d)
    <3>1. PICK end : end = Applied(tree, used, f.plan.steps)
      OBVIOUS
    <3>2. Keeps(tree, end.tree, f.req)
      BY <2>1, <3>1, FlyingWorks
    <3>3. Children(tree, d) = Children(end.tree, d)
      BY <2>1, <3>2, Zenon DEF Keeps
    <3>4. tree' = end.tree \/ tree' = tree
      BY <2>1, <3>1, Landing
    <3>5. QED
      BY <3>3, <3>4
  <2>2. QED
    BY <2>1, Zenon DEF ReadOnlyDirectoryKeepsItsEntries
<1>3. ASSUME NEW f \in flying, f.at = "planned", f.req.op = "copy"
      PROVE  LET end == Applied(tree, used, f.plan.steps)
             IN  /\ CopiedTo(tree, end.tree, Family(tree, f.req.path), f.req.path, f.req.to)
                 /\ \A q \in Family(tree, f.req.path) :
                      tree[q].kind = "file" => "r" \in Allows(tree[q])
  <2>1. f.req \in Requests /\ f.plan = Planned(tree, f.req) /\ f.plan.ok
    BY <1>3, FlyingWorks
  <2>2. IsTree(tree) /\ used = UsedBytes(tree)
    BY DEF TreeInv
  <2>3. PICK r : r = f.req
    OBVIOUS
  <2>4. r \in Requests /\ r.op = "copy" /\ f.plan = PlanCopy(tree, r) /\ PlanCopy(tree, r).ok
    BY <1>3, <2>1, <2>3 DEF Planned
  <2>5. r.path \in Inputs /\ r.to \in Inputs
    BY <2>4, RequestIs
  <2>6. LET plan == PlanCopy(tree, r)
        IN  /\ Works(tree, r, plan)
            /\ CopiedTo(tree, Applied(tree, UsedBytes(tree), plan.steps).tree,
                        Family(tree, r.path), r.path, r.to)
            /\ \A q \in Family(tree, r.path) : tree[q].kind = "file" => "r" \in Allows(tree[q])
    BY <2>2, <2>4, <2>5, CopyWorks
  <2>7. QED
    BY <2>2, <2>3, <2>4, <2>6, Zenon
<1>4. UnreadableStaysUnread
  BY <1>3 DEF UnreadableStaysUnread
<1>5. CopyIsFaithful
  <2>1. ASSUME NEW f \in flying, f.at = "planned", [f EXCEPT !.at = "applied"] \in flying',
               f.req.op = "copy", NEW q \in Family(tree, f.req.path),
               NEW t, t = Rebased(q, f.req.path, f.req.to)
        PROVE  /\ t \in DOMAIN tree'
               /\ tree'[t].kind = tree[q].kind /\ tree'[t].data = tree[q].data
               /\ t \notin DOMAIN tree => tree'[t].own = tree[q].own
    <3>1. tree' = Applied(tree, used, f.plan.steps).tree
      BY <2>1, Landing
    <3>2. CopiedTo(tree, tree', Family(tree, f.req.path), f.req.path, f.req.to)
      BY <1>3, <2>1, <3>1
    <3>3. QED
      BY <2>1, <3>2 DEF CopiedTo
  <2>2. QED
    BY <2>1 DEF CopyIsFaithful
<1>6. QED
  BY <1>1, <1>2, <1>4, <1>5 DEF TreeSteps

-----------------------------------------------------------------------------
(* The theorems.                                                           *)

(* Every reachable state of the in-memory tree is one of the inductive
   invariant: a whole tree, counted right and within the quota, and at most one
   plan under way, which was made of the tree there is. *)
THEOREM TreeInvHolds == ASSUME TreeConstants PROVE Spec => []TreeInv
<1>1. Init => TreeInv
  BY TreeStart
<1>2. TreeInv /\ [Next]_treeVars => TreeInv'
  BY NextKeeps
<1>3. QED
  BY <1>1, <1>2, PTL DEF Spec

(* memory.ts keeps every node under directories, counts #used right, stays
   within its quota, never fails to apply a plan it has made, and a boot that
   replays the committed plans gets the tree there was: for any paths, contents,
   modes, quota and trees to start from. *)
THEOREM TreeSoundHolds == ASSUME TreeConstants PROVE Spec => []TreeSound
<1>1. ASSUME TreeInv PROVE TreeSound
  <2>1. TreeIsWhole
    BY <1>1, NodeIs DEF TreeInv, TreeIsWhole
  <2>2. WithinCapacity
    BY <1>1 DEF TreeInv, WithinCapacity
  <2>3. PlansAlwaysApply
    <3>1. ASSUME NEW f \in flying, f.at = "planned" PROVE Applied(tree, used, f.plan.steps).ok
      <4>1. PICK end : end = Applied(tree, used, f.plan.steps)
        OBVIOUS
      <4>2. Whole(end)
        BY <1>1, <3>1, <4>1, FlyingWorks
      <4>3. QED
        BY <4>1, <4>2 DEF Whole
    <3>2. QED
      BY <3>1 DEF PlansAlwaysApply
  <2>4. ReplayRebuilds
    BY <1>1 DEF TreeInv, Flying, ReplayRebuilds
  <2>5. QED
    BY <2>1, <2>2, <2>3, <2>4 DEF TreeSound
<1>2. TreeInv => TreeSound
  BY <1>1
<1>3. QED
  BY <1>2, TreeInvHolds, PTL

(* The variables of the tree have their types. *)
THEOREM TreeTypesHold == ASSUME TreeConstants PROVE Spec => []TypeOK
<1>1. ASSUME TreeInv PROVE TypeOK
  <2>1. \A p \in DOMAIN tree :
          /\ tree[p].kind \in {"file", "dir"} /\ Allows(tree[p]) \subseteq rwx
          /\ tree[p].origin \in {"seed", "user"} /\ tree[p].mine \in BOOLEAN
    BY <1>1, NodeIs DEF TreeInv, Allows
  <2>2. used \in Nat /\ lost \in BOOLEAN /\ plans \in 0..MaxPlans
    BY <1>1, FromStart DEF TreeInv
  <2>3. \A f \in flying : f.at \in {"planned", "applied"}
    BY <1>1 DEF TreeInv, Flying
  <2>4. QED
    BY <2>1, <2>2, <2>3 DEF TypeOK
<1>2. TreeInv => TypeOK
  BY <1>1
<1>3. QED
  BY <1>2, TreeInvHolds, PTL

(* A plan changes nothing outside the scope of its request, a directory that
   cannot be written and searched keeps its entries, bytes that cannot be read are
   not copied, and a copy leaves what it copies, kinds, contents and modes. *)
THEOREM TreeStepsHold == ASSUME TreeConstants PROVE Spec => [][TreeSteps]_treeVars
<1>1. TreeInv /\ [Next]_treeVars => [TreeSteps]_treeVars
  BY TreeNext
<1>2. QED
  BY <1>1, TreeInvHolds, PTL DEF Spec
=============================================================================
