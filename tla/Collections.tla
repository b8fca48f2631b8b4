----------------------------- MODULE Collections -----------------------------
(* Facts about finite sets, lists and recursions that the libraries do not *)
(* have.                                                                   *)
EXTENDS Lists, FiniteSetTheorems, SequenceTheorems, WellFoundedInduction, TLAPS

(* A finite set of integers has a largest element: of the subsets without *)
(* one, a smallest would lose nothing by losing an element.                *)
LEMMA FiniteMax ==
    ASSUME NEW S, IsFiniteSet(S), S \subseteq Int, S # {}
    PROVE  \E m \in S : \A x \in S : x <= m
<1> DEFINE Bare(U) == U # {} /\ ~\E m \in U : \A x \in U : x <= m
           T == {n \in Nat : \E U \in SUBSET S : Bare(U) /\ Cardinality(U) = n}
<1> SUFFICES ASSUME Bare(S) PROVE FALSE
  OBVIOUS
<1>1. T # {}
  <2>1. Cardinality(S) \in T
    BY FS_CardinalityType
  <2>2. QED
    BY <2>1
<1>2. PICK n \in T : \A k \in T : ~(<<k, n>> \in OpToRel(<, Nat))
  BY <1>1, WFMin, NatLessThanWellFounded
<1>3. PICK U \in SUBSET S : Bare(U) /\ Cardinality(U) = n
  BY <1>2
<1>4. PICK x \in U : TRUE
  BY <1>3
<1> DEFINE V == U \ {x}
<1>5. Cardinality(V) = n - 1 /\ Cardinality(V) \in Nat /\ IsFiniteSet(U)
  <2>1. IsFiniteSet(U)
    BY FS_Subset
  <2>2. IsFiniteSet(V) /\ Cardinality(V) = Cardinality(U) - 1
    BY <2>1, <1>4, FS_RemoveElement
  <2>3. QED
    BY <2>1, <2>2, <1>3, FS_CardinalityType
<1>6. Cardinality(V) \notin T
  <2>1. n \in Nat /\ n - 1 \in Nat /\ n - 1 < n
    BY <1>5
  <2>2. <<n - 1, n>> \in OpToRel(<, Nat)
    BY <2>1 DEF OpToRel
  <2>3. QED
    BY <1>2, <1>5, <2>2
<1>7. ~Bare(V)
  BY <1>5, <1>6
<1>8. CASE V = {}
  BY <1>3, <1>4, <1>8
<1>9. CASE V # {}
  <2>1. PICK m \in V : \A y \in V : y <= m
    BY <1>7, <1>9
  <2>2. x \in Int /\ m \in Int /\ \A y \in U : y \in Int /\ (y \in V \/ y = x)
    BY <1>4
  <2>3. \E z \in U : \A y \in U : y <= z
    <3>1. CASE x <= m
      BY <2>1, <2>2, <3>1
    <3>2. CASE ~(x <= m)
      BY <1>4, <2>1, <2>2, <3>2
    <3>3. QED
      BY <3>1, <3>2
  <2>4. QED
    BY <1>3, <2>3
<1>10. QED
  BY <1>8, <1>9

(* The values a function takes on a finite set are finitely many. *)
LEMMA FiniteImage ==
    ASSUME NEW S, IsFiniteSet(S), NEW T, NEW f \in [S -> T]
    PROVE  IsFiniteSet({f[x] : x \in S})
<1> DEFINE U == {f[x] : x \in S}
<1>1. f \in [S -> U]
  OBVIOUS
<1>2. f \in Surjection(S, U)
  BY <1>1 DEF Surjection
<1>3. QED
  BY <1>2, FS_Surjection

(* Induction up to a bound, with the set of the numbers it holds of. *)
LEMMA Induction ==
    ASSUME NEW n \in Nat, NEW I, 0 \in I, \A i \in 1..n : i - 1 \in I => i \in I
    PROVE  \A i \in 0..n : i \in I
<1> DEFINE T == {i \in 0..n : i \notin I}
<1> SUFFICES ASSUME T # {} PROVE FALSE
  OBVIOUS
<1>1. T \subseteq Nat
  OBVIOUS
<1>2. PICK i \in T : \A k \in T : ~(<<k, i>> \in OpToRel(<, Nat))
  BY <1>1, WFMin, NatLessThanWellFounded
<1>3. i \in 1..n /\ i - 1 \in 0..n /\ i - 1 \in Nat /\ i \in Nat /\ i - 1 < i
  OBVIOUS
<1>4. i - 1 \in T
  BY <1>3
<1>5. <<i - 1, i>> \in OpToRel(<, Nat)
  BY <1>3 DEF OpToRel
<1>6. QED
  BY <1>2, <1>4, <1>5

(***************************************************************************)
(* Listed.                                                                  *)
(***************************************************************************)

(* A list has a length, its domain is the indices up to it, and its elements are those at them. *)
LEMMA Listed ==
    ASSUME NEW s, IsList(s)
    PROVE  /\ Len(s) \in Nat /\ DOMAIN s = 1..Len(s)
           /\ \A i \in 1..Len(s) : s[i] \in ToSet(s)
           /\ \A x : x \in ToSet(s) <=> \E i \in 1..Len(s) : s[i] = x
           /\ s = <<>> <=> ToSet(s) = {}
<1>1. s \in Seq(ToSet(s))
  BY DEF IsList
<1>2. Len(s) \in Nat /\ DOMAIN s = 1..Len(s)
  BY <1>1, LenProperties
<1>3. \A i \in 1..Len(s) : s[i] \in ToSet(s)
  BY <1>2 DEF ToSet
<1>4. \A x : x \in ToSet(s) <=> \E i \in 1..Len(s) : s[i] = x
  BY <1>2 DEF ToSet
<1>5. s = <<>> <=> ToSet(s) = {}
  <2>1. s = <<>> <=> Len(s) = 0
    BY <1>1, EmptySeq
  <2>2. Len(s) = 0 <=> 1..Len(s) = {}
    BY <1>2
  <2>3. QED
    BY <2>1, <2>2, <1>3, <1>4
<1>6. QED
  BY <1>2, <1>3, <1>4, <1>5

(* Any sequence is one. *)
LEMMA ListIs ==
    ASSUME NEW S, NEW s \in Seq(S)
    PROVE  IsList(s) /\ ToSet(s) \subseteq S
<1>1. Len(s) \in Nat /\ DOMAIN s = 1..Len(s) /\ \A i \in 1..Len(s) : s[i] \in S
  BY LenProperties, ElementOfSeq
<1>2. s = [i \in 1..Len(s) |-> s[i]]
  BY <1>1
<1>3. \A i \in 1..Len(s) : s[i] \in ToSet(s)
  BY <1>1 DEF ToSet
<1>4. [i \in 1..Len(s) |-> s[i]] \in Seq(ToSet(s))
  BY <1>1, <1>3, IsASeq
<1>5. QED
  BY <1>1, <1>2, <1>4 DEF IsList, ToSet

(* What is listed by its index. *)
LEMMA ListOf ==
    ASSUME NEW n \in Nat, NEW f, DOMAIN f = 1..n, f = [i \in 1..n |-> f[i]]
    PROVE  IsList(f) /\ Len(f) = n /\ ToSet(f) = {f[i] : i \in 1..n}
<1>1. ToSet(f) = {f[i] : i \in 1..n}
  BY DEF ToSet
<1>2. \A i \in 1..n : f[i] \in ToSet(f)
  BY <1>1
<1>3. f \in Seq(ToSet(f)) 
  BY <1>2, IsASeq
<1>4. Len(f) = n
  BY <1>3, LenProperties
<1>5. QED
  BY <1>1, <1>3, <1>4 DEF IsList

(* A list mapped is a list. *)
LEMMA Mapped ==
    ASSUME NEW s, IsList(s), NEW f, DOMAIN f = DOMAIN s, f = [i \in DOMAIN s |-> f[i]]
    PROVE  /\ IsList(f) /\ DOMAIN f = 1..Len(s) /\ Len(f) = Len(s)
           /\ \A x : x \in ToSet(f) <=> \E i \in 1..Len(s) : x = f[i]
<1>1. Len(s) \in Nat /\ DOMAIN s = 1..Len(s)
  BY Listed
<1>2. IsList(f) /\ Len(f) = Len(s) /\ ToSet(f) = {f[i] : i \in 1..Len(s)}
  BY <1>1, ListOf
<1>3. QED
  BY <1>1, <1>2

(* The empty list. *)
LEMMA NoList == IsList(<<>>) /\ ToSet(<<>>) = {} /\ Len(<<>>) = 0
<1>1. ToSet(<<>>) = {}
  BY DEF ToSet
<1>2. QED
  BY <1>1, EmptySeq DEF IsList

(* A list of one. *)
LEMMA OneListed ==
    ASSUME NEW x
    PROVE  IsList(<<x>>) /\ ToSet(<<x>>) = {x}
<1>1. <<x>> \in Seq({x}) /\ Len(<<x>>) = 1 /\ <<x>>[1] = x
  OBVIOUS
<1>2. IsList(<<x>>) /\ ToSet(<<x>>) \subseteq {x}
  BY <1>1, ListIs
<1>3. x \in ToSet(<<x>>)
  BY <1>1, <1>2, Listed
<1>4. QED
  BY <1>2, <1>3

(* A list, and one element after it. *)
LEMMA Appended ==
    ASSUME NEW s, NEW x, IsList(s)
    PROVE  /\ IsList(Append(s, x)) /\ ToSet(Append(s, x)) = ToSet(s) \cup {x}
           /\ Len(Append(s, x)) = Len(s) + 1
           /\ \A i \in 1..Len(s) : Append(s, x)[i] = s[i]
           /\ Append(s, x)[Len(s) + 1] = x
<1> DEFINE S == ToSet(s) \cup {x}
           a == Append(s, x)
<1>1. s \in Seq(S) /\ Len(s) \in Nat
  BY Listed, SeqMonotonic DEF IsList
<1>2. /\ a \in Seq(S) /\ Len(a) = Len(s) + 1
      /\ \A i \in 1..Len(s) : a[i] = s[i]
      /\ a[Len(s) + 1] = x
  BY <1>1, AppendProperties
<1>3. IsList(a) /\ ToSet(a) \subseteq S
  BY <1>2, ListIs
<1>4. S \subseteq ToSet(a)
  <2> HIDE DEF a
  <2>1. Len(s) + 1 \in 1..Len(a) /\ \A i \in 1..Len(s) : i \in 1..Len(a)
    BY <1>1, <1>2
  <2>2. x \in ToSet(a)
    BY <2>1, <1>2, <1>3, Listed
  <2>3. ToSet(s) \subseteq ToSet(a)
    BY <2>1, <1>2, <1>3, Listed
  <2>4. QED
    BY <2>2, <2>3
<1>5. QED
  BY <1>2, <1>3, <1>4

(* Nothing is repeated when a new element is appended. *)
LEMMA AppendedOnce ==
    ASSUME NEW s, NEW x, IsList(s), NoRepeat(s), x \notin ToSet(s)
    PROVE  NoRepeat(Append(s, x))
<1> DEFINE a == Append(s, x)
<1>1. /\ Len(s) \in Nat /\ Len(a) = Len(s) + 1
      /\ \A i \in 1..Len(s) : a[i] = s[i] /\ s[i] # x
      /\ a[Len(s) + 1] = x
  BY Appended, Listed
<1>2. \A i \in 1..Len(a) : i \in 1..Len(s) \/ i = Len(s) + 1
  BY <1>1
<1> HIDE DEF a
<1>3. QED
  BY <1>1, <1>2 DEF NoRepeat, a

(* A recursion over a list has a function that satisfies it: here for the   *)
(* steps that are functions on a set.                                      *)
Follows(f, s, T, base, step) ==
    /\ f \in [0..Len(s) -> T]
    /\ f[0] = base
    /\ \A i \in 1..Len(s) : f[i] = step[<<f[i - 1], s[i]>>]

(* There is one for each such step. *)
LEMMA Recursion ==
    ASSUME NEW S, NEW T, NEW base \in T, NEW s \in Seq(S), NEW step \in [T \X S -> T]
    PROVE  \E f : Follows(f, s, T, base, step)
<1> DEFINE n == Len(s)
<1>0. n \in Nat /\ \A i \in 1..n : s[i] \in S
  BY LenProperties, ElementOfSeq
<1> HIDE DEF n
<1> DEFINE Upto(m) == \E f \in [0..m -> T] :
                         f[0] = base /\ \A i \in 1..m : f[i] = step[<<f[i - 1], s[i]>>]
           I == {m \in Nat : Upto(m)}
<1>1. 0 \in I
  <2> DEFINE f == [i \in 0..0 |-> base]
  <2>1. f \in [0..0 -> T] /\ f[0] = base /\ 1..0 = {}
    OBVIOUS
  <2>2. QED
    BY <2>1
<1>2. ASSUME NEW m \in 1..n, m - 1 \in I PROVE m \in I
  <2>1. PICK f \in [0..(m - 1) -> T] :
               f[0] = base /\ \A i \in 1..(m - 1) : f[i] = step[<<f[i - 1], s[i]>>]
    BY <1>2
  <2> DEFINE g == [i \in 0..m |-> IF i = m THEN step[<<f[m - 1], s[m]>>] ELSE f[i]]
  <2>2. m \in Nat /\ m # 0 /\ m - 1 \in 0..(m - 1) /\ f[m - 1] \in T /\ s[m] \in S
    BY <1>0
  <2>3. \A i \in 0..m : i # m => i \in 0..(m - 1)
    BY <2>2
  <2>4. step[<<f[m - 1], s[m]>>] \in T
    BY <2>2
  <2>5. g \in [0..m -> T]
    BY <2>3, <2>4
  <2>6. \A i \in 0..(m - 1) : g[i] = f[i]
    BY <2>2
  <2>7. g[m] = step[<<g[m - 1], s[m]>>]
    <3>1. g[m - 1] = f[m - 1]
      BY <2>2, <2>6
    <3>2. m \in 0..m
      BY <2>2
    <3>3. QED
      BY <3>1, <3>2
  <2>8. ASSUME NEW i \in 1..(m - 1) PROVE g[i] = step[<<g[i - 1], s[i]>>]
    <3>1. i \in 0..(m - 1) /\ i - 1 \in 0..(m - 1)
      BY <2>2
    <3>2. g[i] = f[i] /\ g[i - 1] = f[i - 1]
      BY <2>6, <3>1
    <3>3. QED
      BY <2>1, <3>2
  <2>9. g[0] = base
    BY <2>1, <2>2, <2>6
  <2> HIDE DEF g
  <2>10. \A i \in 1..m : i = m \/ i \in 1..(m - 1)
    BY <2>2
  <2>11. QED
    BY <2>2, <2>5, <2>7, <2>8, <2>9, <2>10
<1> HIDE DEF I
<1>3. n \in I
  <2>1. \A i \in 0..n : i \in I
    BY <1>0, <1>1, <1>2, Induction
  <2>2. QED
    BY <2>1, <1>0
<1>4. QED
  BY <1>3 DEF I, n, Follows

(* The elements of a list that are in a set. *)
LEMMA AmongIs ==
    ASSUME NEW list, NEW K, IsList(list)
    PROVE  /\ IsList(Among(list, K)) /\ ToSet(Among(list, K)) = ToSet(list) \cap K
           /\ NoRepeat(list) => NoRepeat(Among(list, K))
<1> DEFINE n == Len(list)
           S == ToSet(list)
           T == Seq(S)
           Good(f) == f = [i \in 0..n |-> IF i = 0 THEN <<>>
                                          ELSE IF list[i] \in K THEN Append(f[i - 1], list[i])
                                               ELSE f[i - 1]]
           f0 == CHOOSE f : Good(f)
<1>1. n \in Nat /\ \A i \in 1..n : list[i] \in S
  BY Listed
<1>2. \E f : Good(f)
  <2> DEFINE step == [p \in T \X S |-> IF p[2] \in K THEN Append(p[1], p[2]) ELSE p[1]]
  <2>1. step \in [T \X S -> T]
    BY AppendProperties
  <2>2. <<>> \in T
    BY EmptySeq
  <2>3. \A t \in T, x \in S : step[<<t, x>>] = IF x \in K THEN Append(t, x) ELSE t
    OBVIOUS
  <2> HIDE DEF step, T, S, n
  <2>0. list \in Seq(S)
    BY DEF IsList, S
  <2>9. PICK f : Follows(f, list, T, <<>>, step)
    BY <2>0, <2>1, <2>2, Recursion
  <2>4. f \in [0..n -> T] /\ f[0] = <<>> /\ \A i \in 1..n : f[i] = step[<<f[i - 1], list[i]>>]
    BY <2>9 DEF Follows, n
  <2>5. ASSUME NEW i \in 0..n
        PROVE  f[i] = IF i = 0 THEN <<>>
                      ELSE IF list[i] \in K THEN Append(f[i - 1], list[i]) ELSE f[i - 1]
    <3>2. i # 0 => i - 1 \in 0..n /\ i \in 1..n
      BY <1>1
    <3>1. f[i] = IF i = 0 THEN <<>> ELSE step[<<f[i - 1], list[i]>>]
      BY <2>4, <3>2
    <3>3. i # 0 => f[i - 1] \in T /\ list[i] \in S
      BY <3>2, <1>1, <2>4
    <3>4. QED
      BY <3>1, <3>3, <2>3
  <2>6. Good(f)
    BY <2>4, <2>5
  <2>7. QED
    BY <2>6
<1>3. Good(f0)
  BY <1>2
<1>4. Among(list, K) = f0[n]
  BY DEF Among
<1> DEFINE Upto(i) == {list[j] : j \in 1..i}
           I == {i \in 0..n : /\ IsList(f0[i]) /\ ToSet(f0[i]) = Upto(i) \cap K
                              /\ NoRepeat(list) => NoRepeat(f0[i])}
<1> HIDE DEF f0
<1>5. 0 \in I
  <2>1. f0[0] = <<>>
    BY <1>1, <1>3
  <2>2. NoRepeat(<<>>)
    BY NoList DEF NoRepeat
  <2>3. QED
    BY <2>1, <2>2, <1>1, NoList
<1>6. ASSUME NEW i \in 1..n, i - 1 \in I PROVE i \in I
  <2>1. i \in 0..n /\ i # 0 /\ i - 1 \in 0..n /\ i \in Nat
    BY <1>1
  <2>2. f0[i] = IF list[i] \in K THEN Append(f0[i - 1], list[i]) ELSE f0[i - 1]
    BY <1>3, <2>1
  <2>3. 1..i = 1..(i - 1) \cup {i}
    BY <2>1
  <2>4. Upto(i) = Upto(i - 1) \cup {list[i]}
    BY <2>3
  <2>5. /\ IsList(f0[i - 1]) /\ ToSet(f0[i - 1]) = Upto(i - 1) \cap K
        /\ NoRepeat(list) => NoRepeat(f0[i - 1])
    BY <1>6
  <2>8. NoRepeat(list) => list[i] \notin Upto(i - 1)
    <3>1. \A j \in 1..(i - 1) : j \in 1..n /\ j # i
      BY <2>1, <1>1
    <3>2. QED
      BY <3>1 DEF NoRepeat
  <2> HIDE DEF Upto
  <2>6. /\ IsList(f0[i]) /\ ToSet(f0[i]) = Upto(i) \cap K
        /\ NoRepeat(list) => NoRepeat(f0[i])
    <3>1. CASE list[i] \in K
      <4>1. f0[i] = Append(f0[i - 1], list[i])
        BY <2>2, <3>1
      <4>2. IsList(f0[i]) /\ ToSet(f0[i]) = ToSet(f0[i - 1]) \cup {list[i]}
        BY <4>1, <2>5, Appended
      <4>3. NoRepeat(list) => NoRepeat(f0[i])
        BY <4>1, <2>5, <2>8, AppendedOnce
      <4>4. QED
        BY <4>2, <4>3, <2>4, <2>5, <3>1
    <3>2. CASE list[i] \notin K
      BY <2>2, <2>4, <2>5, <3>2
    <3>3. QED
      BY <3>1, <3>2
  <2>7. QED
    BY <2>1, <2>6
<1>7. n \in I
  <2> HIDE DEF I
  <2>1. \A i \in 0..n : i \in I
    BY <1>1, <1>5, <1>6, Induction
  <2>2. QED
    BY <2>1, <1>1
<1>8. Upto(n) = S
  BY <1>1, Listed
<1>9. QED
  BY <1>4, <1>7, <1>8

(* Those that are not empty. *)
LEMMA NonEmptyIs ==
    ASSUME NEW list, IsList(list)
    PROVE  IsList(NonEmpty(list)) /\ ToSet(NonEmpty(list)) = ToSet(list) \ {""}
<1>1. /\ IsList(Among(list, ToSet(list) \ {""}))
      /\ ToSet(Among(list, ToSet(list) \ {""})) = ToSet(list) \cap (ToSet(list) \ {""})
  BY AmongIs, Zenon
<1>2. QED
  BY <1>1 DEF NonEmpty

(* A list with an element added, if it is not there. *)
LEMMA AppendUniqueIs ==
    ASSUME NEW list, NEW x, IsList(list)
    PROVE  IsList(AppendUnique(list, x)) /\ ToSet(AppendUnique(list, x)) = ToSet(list) \cup {x}
<1>1. CASE Contains(list, x)
  <2>1. x \in ToSet(list)
    BY <1>1, Listed DEF Contains
  <2>2. QED
    BY <2>1, <1>1 DEF AppendUnique
<1>2. CASE ~Contains(list, x)
  BY <1>2, Appended DEF AppendUnique
<1>3. QED
  BY <1>1, <1>2

(* The union of two lists. *)
LEMMA UnionAllIs ==
    ASSUME NEW a, NEW b, IsList(a), IsList(b)
    PROVE  IsList(UnionAll(a, b)) /\ ToSet(UnionAll(a, b)) = ToSet(a) \cup ToSet(b)
<1> DEFINE n == Len(b)
           S == ToSet(b)
           T == {s \in Seq(ToSet(a) \cup S) : TRUE}
           Good(f) == f = [i \in 0..n |-> IF i = 0 THEN a ELSE AppendUnique(f[i - 1], b[i])]
           f0 == CHOOSE f : Good(f)
<1>1. n \in Nat /\ \A i \in 1..n : b[i] \in S
  BY Listed
<1>2. \E f : Good(f)
  <2> DEFINE step == [p \in T \X S |-> AppendUnique(p[1], p[2])]
  <2>1. ASSUME NEW t \in T, NEW x \in S
        PROVE  AppendUnique(t, x) \in T
    BY AppendProperties DEF AppendUnique
  <2>2. step \in [T \X S -> T]
    BY <2>1
  <2>3. a \in T
    BY SeqMonotonic DEF IsList
  <2>4. \A t \in T, x \in S : step[<<t, x>>] = AppendUnique(t, x)
    OBVIOUS
  <2> HIDE DEF step, T, S, n
  <2>0. b \in Seq(S)
    BY DEF IsList, S
  <2>9. PICK f : Follows(f, b, T, a, step)
    BY <2>0, <2>2, <2>3, Recursion
  <2>5. f \in [0..n -> T] /\ f[0] = a /\ \A i \in 1..n : f[i] = step[<<f[i - 1], b[i]>>]
    BY <2>9 DEF Follows, n
  <2>6. ASSUME NEW i \in 0..n
        PROVE  f[i] = IF i = 0 THEN a ELSE AppendUnique(f[i - 1], b[i])
    <3>2. i # 0 => i - 1 \in 0..n /\ i \in 1..n
      BY <1>1
    <3>1. f[i] = IF i = 0 THEN a ELSE step[<<f[i - 1], b[i]>>]
      BY <2>5, <3>2
    <3>3. i # 0 => f[i - 1] \in T /\ b[i] \in S
      BY <3>2, <1>1, <2>5
    <3>4. QED
      BY <3>1, <3>3, <2>4
  <2>7. Good(f)
    BY <2>5, <2>6
  <2>8. QED
    BY <2>7
<1>3. Good(f0)
  BY <1>2
<1>4. UnionAll(a, b) = f0[n]
  BY DEF UnionAll
<1> DEFINE Upto(i) == {b[j] : j \in 1..i}
           I == {i \in 0..n : IsList(f0[i]) /\ ToSet(f0[i]) = ToSet(a) \cup Upto(i)}
<1> HIDE DEF f0
<1>5. 0 \in I
  <2>1. f0[0] = a
    BY <1>1, <1>3
  <2>2. QED
    BY <2>1, <1>1
<1>6. ASSUME NEW i \in 1..n, i - 1 \in I PROVE i \in I
  <2>1. i \in 0..n /\ i # 0 /\ i - 1 \in 0..n /\ i \in Nat
    BY <1>1
  <2>2. f0[i] = AppendUnique(f0[i - 1], b[i])
    BY <1>3, <2>1
  <2>3. 1..i = 1..(i - 1) \cup {i}
    BY <2>1
  <2>4. Upto(i) = Upto(i - 1) \cup {b[i]}
    BY <2>3
  <2>5. IsList(f0[i - 1]) /\ ToSet(f0[i - 1]) = ToSet(a) \cup Upto(i - 1)
    BY <1>6
  <2> HIDE DEF Upto
  <2>6. IsList(f0[i]) /\ ToSet(f0[i]) = ToSet(f0[i - 1]) \cup {b[i]}
    BY <2>2, <2>5, AppendUniqueIs
  <2>7. QED
    BY <2>1, <2>4, <2>5, <2>6
<1>7. n \in I
  <2> HIDE DEF I
  <2>1. \A i \in 0..n : i \in I
    BY <1>1, <1>5, <1>6, Induction
  <2>2. QED
    BY <2>1, <1>1
<1>8. Upto(n) = S
  BY <1>1, Listed
<1>9. QED
  BY <1>4, <1>7, <1>8

(* Two lists, one after the other. *)
LEMMA Concatenated ==
    ASSUME NEW s, NEW t, IsList(s), IsList(t)
    PROVE  IsList(s \o t) /\ ToSet(s \o t) = ToSet(s) \cup ToSet(t)
<1> DEFINE S == ToSet(s) \cup ToSet(t)
           u == s \o t
<1>1. s \in Seq(S) /\ t \in Seq(S) /\ Len(s) \in Nat /\ Len(t) \in Nat
  BY Listed, SeqMonotonic DEF IsList
<1>2. /\ u \in Seq(S) /\ Len(u) = Len(s) + Len(t)
      /\ \A i \in 1..(Len(s) + Len(t)) : u[i] = IF i <= Len(s) THEN s[i] ELSE t[i - Len(s)]
  BY <1>1, ConcatProperties
<1> HIDE DEF u
<1>3. IsList(u) /\ ToSet(u) \subseteq S
  BY <1>2, ListIs
<1>4. ASSUME NEW x \in ToSet(s) PROVE x \in ToSet(u)
  <2>1. PICK i \in 1..Len(s) : s[i] = x
    BY Listed
  <2>2. i \in 1..Len(u) /\ u[i] = x
    BY <1>1, <1>2, <2>1
  <2>3. QED
    BY <2>2, <1>3, Listed
<1>5. ASSUME NEW x \in ToSet(t) PROVE x \in ToSet(u)
  <2>1. PICK i \in 1..Len(t) : t[i] = x
    BY Listed
  <2>2. Len(s) + i \in 1..Len(u) /\ u[Len(s) + i] = x
    BY <1>1, <1>2, <2>1
  <2>3. QED
    BY <2>2, <1>3, Listed
<1>6. QED
  BY <1>3, <1>4, <1>5 DEF u


(* What lists put one after the other list. *)
LEMMA FlatIs ==
    ASSUME NEW s, IsList(s), \A i \in 1..Len(s) : IsList(s[i])
    PROVE  /\ IsList(FlattenSeq(s))
           /\ \A x : x \in ToSet(FlattenSeq(s)) <=> \E i \in 1..Len(s) : x \in ToSet(s[i])
<1> DEFINE n == Len(s)
           S == ToSet(s)
           E == UNION {ToSet(s[i]) : i \in 1..n}
           T == Seq(E)
           Good(f) == f = [i \in 1..n |-> IF i = 1 THEN s[i] ELSE f[i - 1] \o s[i]]
           f0 == CHOOSE f : Good(f)
<1>1. n \in Nat /\ \A i \in 1..n : s[i] \in S
  BY Listed
<1>2. ASSUME NEW i \in 1..n PROVE s[i] \in T
  <2>1. s[i] \in Seq(ToSet(s[i])) /\ ToSet(s[i]) \subseteq E
    BY DEF IsList
  <2>2. QED
    BY <2>1, SeqMonotonic
<1>3. CASE n = 0
  <2>1. s = <<>> /\ 1..n = {}
    BY <1>3, EmptySeq DEF IsList
  <2>2. FlattenSeq(s) = <<>>
    BY <1>3, <2>1 DEF FlattenSeq
  <2>3. QED
    BY <2>1, <2>2, NoList
<1>4. CASE n # 0
  <2>1. \E f : Good(f)
    <3> DEFINE step == [p \in T \X S |-> p[1] \o p[2]]
    <3>1. \A x \in S : x \in T
      BY <1>2, Listed
    <3>2. \A t \in T, x \in S : t \o x \in T
      BY <3>1, ConcatProperties
    <3>3. step \in [T \X S -> T] /\ \A t \in T, x \in S : step[<<t, x>>] = t \o x
      BY <3>2
    <3>4. <<>> \in T
      BY EmptySeq
    <3>5. s \in Seq(S)
      BY DEF IsList
    <3> HIDE DEF step, T, S, n
    <3>6. PICK g : Follows(g, s, T, <<>>, step)
      BY <3>3, <3>4, <3>5, Recursion
    <3>7. g \in [0..n -> T] /\ g[0] = <<>> /\ \A i \in 1..n : g[i] = step[<<g[i - 1], s[i]>>]
      BY <3>6 DEF Follows, n
    <3>8. ASSUME NEW i \in 1..n PROVE g[i] = g[i - 1] \o s[i]
      <4>1. i - 1 \in 0..n
        BY <1>1
      <4>2. g[i - 1] \in T /\ s[i] \in S
        BY <4>1, <3>7, <1>1
      <4>3. QED
        BY <4>2, <3>3, <3>7
    <3> DEFINE f == [i \in 1..n |-> g[i]]
    <3>9. ASSUME NEW i \in 1..n
          PROVE  f[i] = IF i = 1 THEN s[i] ELSE f[i - 1] \o s[i]
      <4>1. CASE i = 1
        <5>1. s[i] \in Seq(E)
          BY <1>2 DEF T
        <5>2. <<>> \o s[i] = s[i]
          BY <5>1, ConcatEmptySeq
        <5>3. g[i] = g[0] \o s[i]
          <6>1. i - 1 = 0 /\ g[i] = g[i - 1] \o s[i]
            <7>1. i - 1 = 0
              BY <4>1
            <7>2. g[i] = g[i - 1] \o s[i]
              BY <3>8
            <7>3. QED
              BY <7>1, <7>2
          <6>2. QED
            BY <6>1
        <5>4. QED
          BY <5>2, <5>3, <3>7, <4>1
      <4>2. CASE i # 1
        <5>1. i - 1 \in 1..n
          BY <1>1, <4>2
        <5>2. QED
          BY <5>1, <3>8, <4>2
      <4>3. QED
        BY <4>1, <4>2
    <3>10. f = [i \in 1..n |-> IF i = 1 THEN s[i] ELSE f[i - 1] \o s[i]]
      BY <3>9
    <3> HIDE DEF f
    <3>11. QED
      BY <3>10
  <2>2. Good(f0)
    BY <2>1
  <2>3. FlattenSeq(s) = f0[n]
    BY <1>4 DEF FlattenSeq
  <2> HIDE DEF f0
  <2> DEFINE Upto(i) == UNION {ToSet(s[j]) : j \in 1..i}
             I == {i \in 0..n : i = 0 \/ (IsList(f0[i]) /\ ToSet(f0[i]) = Upto(i))}
  <2>4. 0 \in I
    <3>1. 0 \in 0..n
      BY <1>1
    <3> HIDE DEF Upto, n
    <3>2. QED
      BY <3>1
  <2>5. ASSUME NEW i \in 1..n, i - 1 \in I PROVE i \in I
    <3>1. i \in 0..n /\ i \in Nat /\ i # 0
      BY <1>1
    <3>2. CASE i = 1
      <4>1. 1 \in 1..n
        BY <3>2
      <4>2. f0[1] = s[1]
        BY <2>2, <4>1
      <4>3. 1..1 = {1}
        OBVIOUS
      <4>4. Upto(1) = ToSet(s[1])
        BY <4>3
      <4>5. IsList(s[1])
        BY <4>1
      <4>6. QED
        BY <3>1, <3>2, <4>2, <4>4, <4>5
    <3>3. CASE i # 1
      <4>1. i - 1 \in 1..n /\ i - 1 # 0
        BY <3>1, <3>3
      <4>2. f0[i] = f0[i - 1] \o s[i]
        BY <2>2, <3>3
      <4>3. IsList(f0[i - 1]) /\ ToSet(f0[i - 1]) = Upto(i - 1)
        BY <2>5, <4>1
      <4>4. 1..i = 1..(i - 1) \cup {i}
        BY <3>1
      <4>5. Upto(i) = Upto(i - 1) \cup ToSet(s[i])
        BY <4>4
      <4>6. IsList(s[i])
        OBVIOUS
      <4> HIDE DEF Upto
      <4>7. IsList(f0[i]) /\ ToSet(f0[i]) = Upto(i)
        BY <4>2, <4>3, <4>5, <4>6, Concatenated
      <4>8. QED
        BY <3>1, <4>7
    <3>4. QED
      BY <3>2, <3>3
  <2>6. n \in I
    <3> HIDE DEF I
    <3>1. \A i \in 0..n : i \in I
      BY <1>1, <2>4, <2>5, Induction
    <3>2. QED
      BY <3>1, <1>1
  <2>7. IsList(f0[n]) /\ ToSet(f0[n]) = Upto(n)
    BY <2>6, <1>4
  <2>8. QED
    BY <2>3, <2>7
<1>5. QED
  BY <1>3, <1>4
=============================================================================
