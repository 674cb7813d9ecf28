--------------------------- MODULE DocumentsProofs --------------------------
(***************************************************************************)
(* What the section functions compute, for texts of any length: that the   *)
(* finders agree on where a section is, that an edit changes the section   *)
(* it names and no other (Documents implements Sections), and that a file  *)
(* packed into a document comes back from it.                              *)
(*                                                                         *)
(* The argument is about texts put together: behind a text that leaves no  *)
(* code block open, what follows has its sections as if it stood alone.    *)
(***************************************************************************)
EXTENDS MemFiles, FiniteSetTheorems, SequenceTheorems, WellFoundedInduction, TLAPS

(***************************************************************************)
(* Numbers and finite sets of them                                         *)
(***************************************************************************)
LEMMA LeastExists ==
    ASSUME NEW S \in SUBSET Nat, S # {} PROVE \E x \in S : \A y \in S : x <= y
<1>1. \E x \in S : \A y \in S : <<y, x>> \notin OpToRel(<, Nat)
    BY NatLessThanWellFounded, WFMin
<1>2. PICK x \in S : \A y \in S : <<y, x>> \notin OpToRel(<, Nat)
    BY <1>1
<1>3. ASSUME NEW y \in S PROVE x <= y
    <2>1. x \in Nat /\ y \in Nat /\ <<y, x>> \in Nat \X Nat
        OBVIOUS
    <2>2. ~(y < x)
        BY <1>2, <2>1 DEF OpToRel
    <2> QED BY <2>1, <2>2
<1> QED BY <1>3

LEMMA MinIs ==
    ASSUME NEW S \in SUBSET Nat, S # {}
    PROVE  Min(S) \in S /\ Min(S) \in Nat /\ \A y \in S : Min(S) <= y
<1>1. \E x \in S : \A y \in S : x <= y
    BY LeastExists
<1>2. Min(S) \in S /\ \A y \in S : Min(S) <= y
    BY <1>1, Zenon DEF Min
<1> QED BY <1>2

LEMMA GreatestExists ==
    ASSUME NEW n \in Nat, NEW S \in SUBSET (0..n), S # {} PROVE \E x \in S : \A y \in S : x >= y
<1> DEFINE T == {n - x : x \in S}
<1>0. \A x \in S : x \in 0..n /\ x \in Nat /\ n - x \in Nat
    OBVIOUS
<1>1. T \in SUBSET Nat /\ T # {}
    BY <1>0
<1>2. PICK z \in T : \A y \in T : z <= y
    BY <1>1, LeastExists
<1>3. PICK x \in S : z = n - x
    BY <1>2
<1>4. \A y \in S : n - y \in T
    OBVIOUS
<1>5. ASSUME NEW y \in S PROVE x >= y
    <2>1. n - x <= n - y
        BY <1>2, <1>3, <1>4
    <2>2. x \in Nat /\ y \in Nat
        BY <1>0
    <2> QED BY <2>1, <2>2
<1> QED BY <1>5

LEMMA MaxIs ==
    ASSUME NEW n \in Nat, NEW S \in SUBSET (0..n), S # {}
    PROVE  Max(S) \in S /\ Max(S) \in Nat /\ \A y \in S : Max(S) >= y
<1>1. \E x \in S : \A y \in S : x >= y
    BY GreatestExists
<1>2. Max(S) \in S /\ \A y \in S : Max(S) >= y
    BY <1>1, Zenon DEF Max
<1>3. \A y \in S : y \in Nat
    OBVIOUS
<1> QED BY <1>2, <1>3

\* A greatest or least element is the one.
LEMMA MaxOf ==
    ASSUME NEW S \in SUBSET Nat, NEW x \in S, \A y \in S : x >= y PROVE Max(S) = x
<1>1. Max(S) \in S /\ \A y \in S : Max(S) >= y
    BY Zenon DEF Max
<1>2. Max(S) \in Nat /\ x \in Nat /\ x >= Max(S) /\ Max(S) >= x
    BY <1>1
<1> QED BY <1>2

LEMMA MinOf ==
    ASSUME NEW S \in SUBSET Nat, NEW x \in S, \A y \in S : x <= y PROVE Min(S) = x
<1>1. Min(S) \in S /\ \A y \in S : Min(S) <= y
    BY Zenon DEF Min
<1>2. Min(S) \in Nat /\ x \in Nat /\ x <= Min(S) /\ Min(S) <= x
    BY <1>1
<1> QED BY <1>2

LEMMA PlacesFinite ==
    ASSUME NEW m \in Int, NEW n \in Int, NEW S \in SUBSET (m..n)
    PROVE  IsFiniteSet(S) /\ Cardinality(S) \in Nat
BY FS_Interval, FS_Subset, FS_CardinalityType

Shift(a, S) == {a + x : x \in S}

LEMMA ShiftCounts ==
    ASSUME NEW a \in Int, NEW S \in SUBSET Int, IsFiniteSet(S)
    PROVE  IsFiniteSet(Shift(a, S)) /\ Cardinality(Shift(a, S)) = Cardinality(S)
<1> DEFINE f == [x \in S |-> a + x]
<1>1. f \in [S -> Shift(a, S)]
    BY DEF Shift
<1>2. \A x, y \in S : f[x] = f[y] => x = y
    OBVIOUS
<1>3. \A z \in Shift(a, S) : \E x \in S : f[x] = z
    BY DEF Shift
<1>4. f \in Bijection(S, Shift(a, S))
    BY <1>1, <1>2, <1>3 DEF Bijection, Injection, Surjection, IsInjective
<1> QED BY <1>4, FS_Bijection DEF ExistsBijection

(***************************************************************************)
(* Places in order                                                         *)
(***************************************************************************)
Rank(S, i) == Cardinality({j \in S : j <= i})

LEMMA RankIs ==
    ASSUME NEW S \in SUBSET Nat, IsFiniteSet(S), NEW i \in S
    PROVE  /\ Rank(S, i) \in 1..Cardinality(S)
           /\ \A j \in S : i < j => Rank(S, i) < Rank(S, j)
           /\ \A j \in S : Rank(S, j) \in Nat
<1>1. \A j : {k \in S : k <= j} \in SUBSET S
    OBVIOUS
<1>2. \A j : IsFiniteSet({k \in S : k <= j}) /\ Rank(S, j) \in Nat /\ Rank(S, j) <= Cardinality(S)
    BY <1>1, FS_Subset, FS_CardinalityType DEF Rank
<1>3. Rank(S, i) # 0
    <2>1. i \in {k \in S : k <= i}
        OBVIOUS
    <2> QED BY <1>2, <2>1, FS_EmptySet DEF Rank
<1>4. ASSUME NEW j \in S, i < j PROVE Rank(S, i) < Rank(S, j)
    <2>1. {k \in S : k <= i} \in SUBSET {k \in S : k <= j}
        <3> SUFFICES ASSUME NEW k \in S, k <= i PROVE k <= j
            OBVIOUS
        <3>1. i \in Nat /\ j \in Nat /\ k \in Nat
            OBVIOUS
        <3> QED BY <1>4, <3>1
    <2>2. j \in {k \in S : k <= j} /\ j \notin {k \in S : k <= i}
        BY <1>4
    <2>3. Rank(S, i) <= Rank(S, j) /\ Rank(S, i) # Rank(S, j)
        <3>1. Cardinality({k \in S : k <= i}) <= Cardinality({k \in S : k <= j})
            BY <1>2, <2>1, FS_Subset
        <3>2. Cardinality({k \in S : k <= i}) # Cardinality({k \in S : k <= j})
            BY <1>2, <2>1, <2>2, FS_Subset
        <3> QED BY <3>1, <3>2 DEF Rank
    <2>4. Rank(S, i) \in Nat /\ Rank(S, j) \in Nat
        BY <1>2
    <2> QED BY <2>3, <2>4
<1>5. Cardinality(S) \in Nat
    BY FS_CardinalityType
<1>6. Rank(S, i) \in Nat /\ Rank(S, i) <= Cardinality(S)
    BY <1>2
<1>7. Rank(S, i) \in 1..Cardinality(S)
    BY <1>3, <1>5, <1>6
<1>8. \A j \in S : Rank(S, j) \in Nat
    BY <1>2
<1> QED BY <1>4, <1>7, <1>8

LEMMA OrderedIs ==
    ASSUME NEW S \in SUBSET Nat, IsFiniteSet(S)
    PROVE  /\ Cardinality(S) \in Nat
           /\ Ordered(S) \in [1..Cardinality(S) -> S]
           /\ \A p \in 1..Cardinality(S) : Rank(S, Ordered(S)[p]) = p
           /\ \A p, q \in 1..Cardinality(S) : p < q => Ordered(S)[p] < Ordered(S)[q]
           /\ \A i \in S : \E p \in 1..Cardinality(S) : Ordered(S)[p] = i
<1> DEFINE n == Cardinality(S)
           f == [i \in S |-> Rank(S, i)]
<1>1. n \in Nat /\ IsFiniteSet(1..n) /\ Cardinality(1..n) = n
    BY FS_CardinalityType, FS_Interval
<1>2. f \in [S -> 1..n]
    BY RankIs
<1>3. \A i, j \in S : f[i] = f[j] => i = j
    <2> SUFFICES ASSUME NEW i \in S, NEW j \in S, i < j PROVE f[i] # f[j]
        OBVIOUS
    <2> QED BY RankIs
<1>4. f \in Injection(S, 1..n)
    BY <1>2, <1>3 DEF Injection, IsInjective
<1>5. f \in Surjection(S, 1..n)
    BY <1>1, <1>4, FS_Injection
<1>6. \A p \in 1..n : \E i \in S : Rank(S, i) = p
    BY <1>5 DEF Surjection
<1>7. \A p \in 1..n : Ordered(S)[p] \in S /\ Rank(S, Ordered(S)[p]) = p
    <2> SUFFICES ASSUME NEW p \in 1..n PROVE Ordered(S)[p] \in S /\ Rank(S, Ordered(S)[p]) = p
        OBVIOUS
    <2>1. Ordered(S)[p] = CHOOSE i \in S : Rank(S, i) = p
        BY DEF Ordered, Rank
    <2> QED BY <1>6, <2>1, Zenon
<1>8. Ordered(S) \in [1..n -> S]
    BY <1>7 DEF Ordered
<1>9. ASSUME NEW p \in 1..n, NEW q \in 1..n, p < q PROVE Ordered(S)[p] < Ordered(S)[q]
    <2>1. /\ Ordered(S)[p] \in S /\ Rank(S, Ordered(S)[p]) = p
          /\ Ordered(S)[q] \in S /\ Rank(S, Ordered(S)[q]) = q
        BY <1>7
    <2>2. ~(Ordered(S)[q] < Ordered(S)[p])
        <3> SUFFICES ASSUME Ordered(S)[q] < Ordered(S)[p] PROVE FALSE
            OBVIOUS
        <3>1. Rank(S, Ordered(S)[q]) < Rank(S, Ordered(S)[p])
            BY <2>1, RankIs
        <3> QED BY <1>9, <2>1, <3>1
    <2>3. Ordered(S)[q] # Ordered(S)[p]
        BY <1>9, <2>1
    <2>4. Ordered(S)[p] \in Nat /\ Ordered(S)[q] \in Nat
        BY <2>1
    <2> QED BY <2>2, <2>3, <2>4
<1>10. ASSUME NEW i \in S PROVE \E p \in 1..n : Ordered(S)[p] = i
    <2>1. Rank(S, i) \in 1..n
        BY RankIs
    <2>2. PICK p \in 1..n : p = Rank(S, i)
        BY <2>1
    <2>3. Ordered(S)[p] \in S /\ Rank(S, Ordered(S)[p]) = Rank(S, i)
        BY <1>7, <2>2
    <2> QED BY <1>3, <2>2, <2>3
<1> QED BY <1>1, <1>7, <1>8, <1>9, <1>10

\* There is one way to put places in order.
LEMMA OrderedUnique ==
    ASSUME NEW S \in SUBSET Nat, NEW m \in Nat, NEW f \in [1..m -> S],
           \A p, q \in 1..m : p < q => f[p] < f[q],
           \A i \in S : \E p \in 1..m : f[p] = i
    PROVE  IsFiniteSet(S) /\ Cardinality(S) = m /\ Ordered(S) = f
<1>1. \A p \in 1..m : f[p] \in Nat
    OBVIOUS
<1>2. ASSUME NEW p \in 1..m, NEW q \in 1..m PROVE f[q] <= f[p] <=> q <= p
    <2>1. CASE q < p
        BY <1>1, <2>1
    <2>2. CASE q = p
        BY <1>1, <2>2
    <2>3. CASE p < q
        BY <1>1, <2>3
    <2> QED BY <2>1, <2>2, <2>3
<1>3. ASSUME NEW k \in 0..m, NEW T, T = {f[q] : q \in 1..k}
      PROVE  IsFiniteSet(T) /\ Cardinality(T) = k
    <2> DEFINE g == [q \in 1..k |-> f[q]]
    <2>1. \A q, r \in 1..k : g[q] = g[r] => q = r
        BY <1>1
    <2>2. g \in Bijection(1..k, T)
        BY <1>3, <2>1 DEF Bijection, Injection, Surjection, IsInjective
    <2>3. IsFiniteSet(1..k) /\ Cardinality(1..k) = k
        BY FS_Interval
    <2> QED BY <2>2, <2>3, FS_Bijection DEF ExistsBijection
<1>4. S = {f[q] : q \in 1..m}
    OBVIOUS
<1>5. IsFiniteSet(S) /\ Cardinality(S) = m
    <2>1. m \in 0..m
        OBVIOUS
    <2> QED BY <1>3, <1>4, <2>1
<1>6. ASSUME NEW p \in 1..m PROVE Rank(S, f[p]) = p
    <2>1. {j \in S : j <= f[p]} = {f[q] : q \in 1..p}
        <3>1. ASSUME NEW j \in S, j <= f[p] PROVE j \in {f[q] : q \in 1..p}
            <4>1. PICK q \in 1..m : f[q] = j
                OBVIOUS
            <4>2. q \in 1..p
                BY <1>2, <3>1, <4>1
            <4> QED BY <4>1, <4>2
        <3>2. ASSUME NEW q \in 1..p PROVE f[q] \in S /\ f[q] <= f[p]
            BY <1>2
        <3> QED BY <3>1, <3>2
    <2> QED BY <1>3, <2>1 DEF Rank
<1>7. ASSUME NEW p \in 1..m PROVE Ordered(S)[p] = f[p]
    <2>1. Ordered(S)[p] \in S /\ Rank(S, Ordered(S)[p]) = p
        BY <1>5, OrderedIs
    <2>2. ASSUME NEW i \in S, NEW j \in S, i < j PROVE Rank(S, i) # Rank(S, j)
        <3>1. Rank(S, i) < Rank(S, j) /\ Rank(S, i) \in Nat /\ Rank(S, j) \in Nat
            BY <1>5, <2>2, RankIs
        <3> QED BY <3>1
    <2>3. f[p] \in S /\ Rank(S, f[p]) = p
        BY <1>6
    <2>4. ~(Ordered(S)[p] < f[p]) /\ ~(f[p] < Ordered(S)[p])
        BY <2>1, <2>2, <2>3
    <2>5. Ordered(S)[p] \in Nat /\ f[p] \in Nat
        BY <2>1, <2>3
    <2> QED BY <2>4, <2>5
<1>8. Ordered(S) \in [1..m -> S]
    BY <1>5, OrderedIs
<1> QED BY <1>5, <1>7, <1>8

(***************************************************************************)
(* Pieces                                                                  *)
(***************************************************************************)
LEMMA PlainIs ==
    ASSUME NEW l \in Plain
    PROVE  /\ l[1] \notin {"cut", "cr"} /\ Parts(l) = <<l>> /\ Parts(l)[1] = l
           /\ IsHead(l) <=> l[1] = "head"
           /\ l[1] = "head" => l[2] \in Name /\ l = Heading(l[2]) /\ NameOf(l) = l[2]
           /\ Toggles(l) <=> l[1] = "fence" /\ l[2] = 0
           /\ IsBlank(l) <=> l \in {Blank, Space}
<1>1. \/ l \in {<<"line">>, <<"hash">>}
      \/ \E n \in Nat : l \in {<<"blank", n>>, <<"space", n>>}
      \/ \E n \in Name : l = <<"head", n>>
      \/ \E k \in Nat, f \in SUBSET Flags : l = <<"fence", k, f>>
    BY DEF Plain, Line, Hash
<1>2. l[1] \notin {"cut", "cr"} /\ (l[1] = "head" => l[2] \in Name /\ l = Heading(l[2]))
    BY <1>1 DEF Heading
<1>3. Parts(l) = <<l>> /\ Parts(l)[1] = l /\ Len(Parts(l)) = 1 /\ DOMAIN Parts(l) = {1}
    BY <1>2 DEF Parts
<1>4. l = Hash => l[1] # "head"
    BY DEF Hash
<1>5. IsHead(l) <=> l[1] = "head"
    BY <1>3, <1>4 DEF IsHead
<1>6. l[1] = "head" => NameOf(l) = l[2]
    BY <1>3 DEF NameOf
<1>7. Toggles(l) <=> l[1] = "fence" /\ l[2] = 0
    BY <1>3 DEF Toggles
<1>8. IsBlank(l) <=> l \in {Blank, Space}
    BY <1>3 DEF IsBlank
<1> QED BY <1>2, <1>3, <1>5, <1>6, <1>7, <1>8

LEMMA PartsIs ==
    ASSUME NEW l \in Piece
    PROVE  /\ Parts(l) \in Seq(Plain) /\ Parts(l) # <<>> /\ Parts(l)[1] \in Plain /\ 1 \in DOMAIN Parts(l)
           /\ l[1] \notin {"cut", "cr"} => l \in Plain
           /\ l[1] \in {"cut", "cr"} => Parts(l) = l[2]
           /\ l[1] # "cr" => l \in Written
           /\ l[1] = "cut" => Len(l[2]) > 1
<1>1. CASE l \in Plain
    <2>1. l[1] \notin {"cut", "cr"} /\ Parts(l) = <<l>> /\ l \in Written
        BY <1>1, PlainIs DEF Written
    <2>2. <<l>> \in Seq(Plain) /\ <<l>> # <<>> /\ <<l>>[1] = l /\ 1 \in DOMAIN <<l>>
        BY <1>1
    <2> QED BY <1>1, <2>1, <2>2
<1>2. CASE l \notin Plain
    <2>1. \/ \E p \in Seq(Plain) : l = <<"cut", p>> /\ Len(p) > 1
          \/ \E p \in Seq(Plain) : l = <<"cr", p>> /\ p # <<>>
        BY <1>2 DEF Piece, Written
    <2>2. l[1] \in {"cut", "cr"} /\ l[2] \in Seq(Plain) /\ l[2] # <<>> /\ (l[1] = "cut" => Len(l[2]) > 1)
        BY <2>1
    <2>3. l[1] # "cr" => l \in Written
        BY <1>2 DEF Piece
    <2>4. Parts(l) = l[2]
        BY <2>2 DEF Parts
    <2> QED BY <2>2, <2>3, <2>4
<1> QED BY <1>1, <1>2

LEMMA PieceIs ==
    /\ Plain \subseteq Written /\ Written \subseteq Piece
    /\ {Blank, Space, Line} \subseteq Plain /\ \A n \in Name : Heading(n) \in Plain
    /\ \A l \in {Blank, Space, Line} : ~IsHead(l) /\ ~Toggles(l)
    /\ \A l \in Piece : IsHead(l) => NameOf(l) \in Name \union {NoName} /\ ~Toggles(l) /\ ~IsBlank(l)
    /\ \A l \in Piece : IsBlank(l) => ~IsHead(l) /\ ~Toggles(l)
    /\ \A n \in Name : IsHead(Heading(n)) /\ NameOf(Heading(n)) = n /\ ~IsBlank(Heading(n))
    /\ IsBlank(Blank) /\ ~IsBlank(Line)
<1>1. Plain \subseteq Written /\ Written \subseteq Piece
    BY DEF Written, Piece
<1>2. {Blank, Space, Line} \subseteq Plain /\ \A n \in Name : Heading(n) \in Plain
    BY DEF Plain, Blank, Space, Line, Heading
<1>3. /\ \A l \in {Blank, Space, Line} : l[1] \notin {"head", "fence"}
      /\ Line \notin {Blank, Space}
    BY DEF Blank, Space, Line
<1>4. \A n \in Name : Heading(n)[1] = "head" /\ Heading(n)[2] = n /\ Heading(n) \notin {Blank, Space}
    BY DEF Blank, Space, Heading
<1>5. \A l \in Plain : /\ IsHead(l) <=> l[1] = "head"
                       /\ l[1] = "head" => NameOf(l) = l[2]
                       /\ Toggles(l) <=> l[1] = "fence" /\ l[2] = 0
                       /\ IsBlank(l) <=> l \in {Blank, Space}
    BY PlainIs
<1>6. ASSUME NEW l \in Piece, IsHead(l)
      PROVE  NameOf(l) \in Name \union {NoName} /\ ~Toggles(l) /\ ~IsBlank(l)
    <2>1. Parts(l) \in Seq(Plain) /\ Parts(l)[1] \in Plain /\ 1 \in DOMAIN Parts(l)
        BY PartsIs
    <2>2. Parts(l)[1][1] = "head" \/ Parts(l)[1] = Hash
        BY <1>6 DEF IsHead
    <2>3. Parts(l)[1] \notin {Blank, Space} /\ Parts(l)[1][1] # "fence"
        BY <2>2, <1>3 DEF Hash, Blank, Space
    <2>4. Parts(l)[1][1] = "head" => Parts(l)[1][2] \in Name
        BY <2>1, PlainIs
    <2>5. NameOf(l) \in Name \union {NoName}
        BY <2>4 DEF NameOf
    <2>6. ~IsBlank(l)
        BY <2>1, <2>3 DEF IsBlank
    <2>7. ASSUME NEW i \in DOMAIN Parts(l), Parts(l)[i][1] = "fence",
                 \A j \in 1..(i - 1) : Parts(l)[j] \in {Blank, Space}
          PROVE  FALSE
        <3>1. i \in Nat /\ i # 1 /\ i >= 1
            BY <2>1, <2>3, <2>7
        <3>2. 1 \in 1..(i - 1)
            BY <3>1
        <3> QED BY <2>3, <2>7, <3>2
    <2>8. ~Toggles(l)
        BY <2>7 DEF Toggles
    <2> QED BY <2>5, <2>6, <2>8
<1>7. ASSUME NEW l \in Piece, IsBlank(l) PROVE ~IsHead(l) /\ ~Toggles(l)
    <2>1. \A i \in DOMAIN Parts(l) : Parts(l)[i] \in {Blank, Space}
        BY <1>7 DEF IsBlank
    <2>2. \A i \in DOMAIN Parts(l) : Parts(l)[i][1] # "fence"
        BY <2>1, <1>3
    <2> QED BY <1>6, <1>7, <2>2 DEF Toggles
<1>8. \A l \in {Blank, Space, Line} : ~IsHead(l) /\ ~Toggles(l)
    BY <1>2, <1>3, <1>5
<1>9. \A n \in Name : IsHead(Heading(n)) /\ NameOf(Heading(n)) = n /\ ~IsBlank(Heading(n))
    BY <1>2, <1>4, <1>5
<1>10. IsBlank(Blank) /\ ~IsBlank(Line)
    BY <1>2, <1>3, <1>5
<1> QED BY <1>1, <1>2, <1>6, <1>7, <1>8, <1>9, <1>10

LEMMA PlainHead == \A l \in Plain : IsHead(l) => NameOf(l) \in Name /\ l = Heading(NameOf(l))
BY PlainIs

LEMMA Regroup == \A p, q, r \in Seq(Piece) : (p \o q) \o r = p \o (q \o r)
BY ConcatAssociative

LEMMA PlainIsPiece == ASSUME NEW s \in Seq(Plain) PROVE s \in Seq(Written) /\ s \in Seq(Piece)
<1>1. Plain \subseteq Written /\ Plain \subseteq Piece
    BY PieceIs
<1> QED BY <1>1, SeqMonotonic

(***************************************************************************)
(* Fences                                                                  *)
(***************************************************************************)
LEMMA Parity ==
    ASSUME NEW a \in Nat, NEW b \in Nat
    PROVE  (a + b) % 2 = 1 <=> ~(a % 2 = 1 <=> b % 2 = 1)
OBVIOUS

Tog(lines, n) == {j \in 1..n : Toggles(lines[j])}

LEMMA TogFinite ==
    ASSUME NEW s, NEW n \in Int
    PROVE  Tog(s, n) \in SUBSET Int /\ IsFiniteSet(Tog(s, n)) /\ Cardinality(Tog(s, n)) \in Nat
<1>1. Tog(s, n) \in SUBSET (1..n) /\ 1 \in Int
    BY DEF Tog
<1>2. 1..n \in SUBSET Int
    OBVIOUS
<1>3. IsFiniteSet(Tog(s, n)) /\ Cardinality(Tog(s, n)) \in Nat
    BY <1>1, PlacesFinite
<1>4. Tog(s, n) \in SUBSET Int
    BY <1>1, <1>2
<1> QED BY <1>3, <1>4

LEMMA FencedIs == \A s, i : Fenced(s, i) <=> Cardinality(Tog(s, i - 1)) % 2 = 1
BY DEF Fenced, Tog

\* A prefix is as fenced as it would be alone.
LEMMA FencedPrefix ==
    ASSUME NEW A \in Seq(Piece), NEW B \in Seq(Piece), NEW i \in 1..(Len(A) + 1)
    PROVE  Fenced(A \o B, i) <=> Fenced(A, i)
<1>1. \A j \in 1..(i - 1) : (A \o B)[j] = A[j]
    BY LenProperties, ConcatProperties
<1> QED BY <1>1 DEF Fenced

\* What follows is fenced as it would be alone, or the other way round.
LEMMA FencedSuffix ==
    ASSUME NEW A \in Seq(Piece), NEW B \in Seq(Piece), NEW k \in 1..(Len(B) + 1)
    PROVE  Fenced(A \o B, Len(A) + k) <=> ~(Fenced(A, Len(A) + 1) <=> Fenced(B, k))
<1> DEFINE a == Len(A)
           TA == Tog(A, a)
           TB == Tog(B, k - 1)
           TS == Shift(a, TB)
<1>1. a \in Nat /\ Len(B) \in Nat /\ k \in Nat /\ k >= 1 /\ k - 1 <= Len(B)
    BY LenProperties
<1>2. \A j \in 1..(a + Len(B)) : (A \o B)[j] = IF j <= a THEN A[j] ELSE B[j - a]
    BY ConcatProperties
<1>3. Tog(A \o B, a + k - 1) = TA \union TS
    <2>1. ASSUME NEW j \in Tog(A \o B, a + k - 1) PROVE j \in TA \union TS
        <3>1. j \in 1..(a + k - 1) /\ Toggles((A \o B)[j])
            BY <2>1 DEF Tog
        <3>2. CASE j <= a
            BY <1>1, <1>2, <3>1, <3>2 DEF Tog
        <3>3. CASE j > a
            <4>1. j - a \in 1..(k - 1) /\ Toggles(B[j - a]) /\ j = a + (j - a)
                BY <1>1, <1>2, <3>1, <3>3
            <4> QED BY <4>1 DEF Tog, Shift
        <3> QED BY <1>1, <3>1, <3>2, <3>3
    <2>2. ASSUME NEW j \in TA PROVE j \in Tog(A \o B, a + k - 1)
        BY <1>1, <1>2, <2>2 DEF Tog
    <2>3. ASSUME NEW x \in TB PROVE a + x \in Tog(A \o B, a + k - 1)
        <3>1. x \in 1..(k - 1) /\ Toggles(B[x])
            BY <2>3 DEF Tog
        <3>2. a + x \in 1..(a + k - 1) /\ a + x \in 1..(a + Len(B)) /\ ~(a + x <= a) /\ (a + x) - a = x
            BY <1>1, <3>1
        <3> QED BY <1>2, <3>1, <3>2 DEF Tog
    <2> QED BY <2>1, <2>2, <2>3 DEF Shift
<1>4. TA \intersect TS = {}
    <2> SUFFICES ASSUME NEW j \in TA, NEW x \in TB, j = a + x PROVE FALSE
        BY DEF Shift
    <2>1. j \in 1..a /\ x \in 1..(k - 1)
        BY DEF Tog
    <2> QED BY <1>1, <2>1
<1>5. /\ IsFiniteSet(TA) /\ IsFiniteSet(TB) /\ TB \in SUBSET Int
      /\ Cardinality(TA) \in Nat /\ Cardinality(TB) \in Nat
    BY <1>1, TogFinite
<1>6. IsFiniteSet(TS) /\ Cardinality(TS) = Cardinality(TB)
    BY <1>1, <1>5, ShiftCounts
<1>7. Cardinality(TA \union TS) = Cardinality(TA) + Cardinality(TB)
    <2>1. Cardinality(TA \union TS) = Cardinality(TA) + Cardinality(TS) - Cardinality(TA \intersect TS)
        BY <1>5, <1>6, FS_Union
    <2>2. Cardinality(TA \intersect TS) = 0
        BY <1>4, FS_EmptySet
    <2> HIDE DEF TA, TB, TS
    <2> QED BY <1>5, <1>6, <2>1, <2>2
<1>8. Fenced(A \o B, a + k) <=> Cardinality(TA \union TS) % 2 = 1
    <2>1. (a + k) - 1 = a + k - 1
        BY <1>1
    <2> QED BY <1>3, <2>1, FencedIs
<1>9. Fenced(A, a + 1) <=> Cardinality(TA) % 2 = 1
    <2>1. (a + 1) - 1 = a
        BY <1>1
    <2> QED BY <2>1, FencedIs
<1>10. Fenced(B, k) <=> Cardinality(TB) % 2 = 1
    BY FencedIs
<1> HIDE DEF TA, TB, TS
<1> QED BY <1>5, <1>7, <1>8, <1>9, <1>10, Parity, SMTT(30)

\* A text that leaves no code block open
Closed(lines) == ~Fenced(lines, Len(lines) + 1)

LEMMA ClosedConcat ==
    ASSUME NEW A \in Seq(Piece), NEW B \in Seq(Piece), Closed(A)
    PROVE  /\ Closed(A \o B) <=> Closed(B)
           /\ \A k \in 1..(Len(B) + 1) : Fenced(A \o B, Len(A) + k) <=> Fenced(B, k)
<1>1. \A k \in 1..(Len(B) + 1) : Fenced(A \o B, Len(A) + k) <=> Fenced(B, k)
    BY FencedSuffix DEF Closed
<1>2. Len(A) \in Nat /\ Len(B) \in Nat /\ Len(A \o B) + 1 = Len(A) + (Len(B) + 1)
    BY LenProperties, ConcatProperties
<1> QED BY <1>1, <1>2 DEF Closed

\* Nothing is open in a text of blanks, nor in an empty one.
AllBlank(lines) == \A i \in DOMAIN lines : IsBlank(lines[i])

LEMMA BlankClosed ==
    ASSUME NEW Z \in Seq(Piece), AllBlank(Z)
    PROVE  /\ Closed(Z) /\ Headers(Z) = {}
           /\ \A i \in 1..(Len(Z) + 1) : ~Fenced(Z, i)
<1>1. Len(Z) \in Nat /\ DOMAIN Z = 1..Len(Z) /\ \A i \in DOMAIN Z : Z[i] \in Piece
    BY LenProperties, ElementOfSeq
<1>2. \A i \in 1..Len(Z) : ~IsHead(Z[i]) /\ ~Toggles(Z[i])
    BY <1>1, PieceIs DEF AllBlank
<1>3. ASSUME NEW i \in 1..(Len(Z) + 1) PROVE ~Fenced(Z, i)
    <2>1. Tog(Z, i - 1) = {}
        BY <1>1, <1>2 DEF Tog
    <2>2. Cardinality(Tog(Z, i - 1)) = 0
        BY <2>1, FS_EmptySet
    <2> QED BY <2>2, FencedIs
<1> QED BY <1>1, <1>2, <1>3 DEF Closed, Headers

(***************************************************************************)
(* Headings                                                                *)
(***************************************************************************)
LEMMA HeadersIs ==
    ASSUME NEW s \in Seq(Piece)
    PROVE  /\ Len(s) \in Nat /\ DOMAIN s = 1..Len(s)
           /\ Headers(s) \in SUBSET (1..Len(s)) /\ Headers(s) \in SUBSET Nat /\ IsFiniteSet(Headers(s))
           /\ Cardinality(Headers(s)) \in Nat
           /\ \A h \in Headers(s) : h \in Nat /\ h >= 1 /\ h <= Len(s) /\ IsHead(s[h]) /\ ~Fenced(s, h)
           /\ \A h \in Headers(s) : s[h] \in Piece
<1>1. Len(s) \in Nat /\ DOMAIN s = 1..Len(s)
    BY LenProperties
<1>2. Headers(s) \in SUBSET (1..Len(s))
    BY <1>1 DEF Headers
<1>3. IsFiniteSet(Headers(s)) /\ Cardinality(Headers(s)) \in Nat
    <2>1. 1 \in Int /\ Len(s) \in Int
        BY <1>1
    <2> QED BY <1>2, <2>1, PlacesFinite
<1>4. \A h \in Headers(s) : h \in 1..Len(s) /\ IsHead(s[h]) /\ ~Fenced(s, h)
    BY <1>1 DEF Headers
<1>5. \A h \in Headers(s) : h \in Nat /\ h >= 1 /\ h <= Len(s) /\ s[h] \in Piece
    BY <1>1, <1>4, ElementOfSeq
<1> QED BY <1>1, <1>2, <1>3, <1>4, <1>5

\* The headings of a prefix
LEMMA HeadersPrefix ==
    ASSUME NEW A \in Seq(Piece), NEW B \in Seq(Piece)
    PROVE  {h \in Headers(A \o B) : h <= Len(A)} = Headers(A)
<1>1. Len(A) \in Nat /\ Len(B) \in Nat /\ DOMAIN A = 1..Len(A) /\ DOMAIN (A \o B) = 1..(Len(A) + Len(B))
    BY LenProperties, ConcatProperties
<1>2. ASSUME NEW i \in 1..Len(A) PROVE (A \o B)[i] = A[i] /\ (Fenced(A \o B, i) <=> Fenced(A, i))
    BY <1>1, FencedPrefix, ConcatProperties
<1> QED BY <1>1, <1>2 DEF Headers

\* Behind a text that leaves nothing open, the headings are those of either.
LEMMA HeadersConcat ==
    ASSUME NEW A \in Seq(Piece), NEW B \in Seq(Piece), Closed(A)
    PROVE  Headers(A \o B) = Headers(A) \union Shift(Len(A), Headers(B))
<1>1. Len(A) \in Nat /\ Len(B) \in Nat /\ DOMAIN B = 1..Len(B) /\ DOMAIN (A \o B) = 1..(Len(A) + Len(B))
    BY LenProperties, ConcatProperties
<1>2. ASSUME NEW k \in 1..Len(B)
      PROVE  /\ (A \o B)[Len(A) + k] = B[k] /\ (Fenced(A \o B, Len(A) + k) <=> Fenced(B, k))
             /\ Len(A) + k \in DOMAIN (A \o B)
    <2>1. Len(A) + k \in 1..(Len(A) + Len(B)) /\ ~(Len(A) + k <= Len(A)) /\ (Len(A) + k) - Len(A) = k
        BY <1>1
    <2>2. k \in 1..(Len(B) + 1)
        BY <1>1
    <2>3. (A \o B)[Len(A) + k] = B[k]
        BY <2>1, ConcatProperties
    <2> QED BY <1>1, <2>1, <2>2, <2>3, ClosedConcat
<1>3. ASSUME NEW h \in Headers(A \o B), ~(h <= Len(A)) PROVE h \in Shift(Len(A), Headers(B))
    <2>1. h \in 1..(Len(A) + Len(B)) /\ IsHead((A \o B)[h]) /\ ~Fenced(A \o B, h)
        BY <1>1, <1>3 DEF Headers
    <2>2. PICK k \in 1..Len(B) : h = Len(A) + k
        <3>1. h - Len(A) \in 1..Len(B) /\ h = Len(A) + (h - Len(A))
            BY <1>1, <1>3, <2>1
        <3> QED BY <3>1
    <2>3. k \in Headers(B)
        BY <1>1, <1>2, <2>1, <2>2 DEF Headers
    <2> QED BY <2>2, <2>3 DEF Shift
<1>4. ASSUME NEW k \in Headers(B) PROVE Len(A) + k \in Headers(A \o B)
    <2>1. k \in 1..Len(B) /\ IsHead(B[k]) /\ ~Fenced(B, k)
        BY <1>1, <1>4 DEF Headers
    <2> QED BY <1>2, <2>1 DEF Headers
<1>5. Headers(A) \subseteq Headers(A \o B)
    BY HeadersPrefix
<1>6. \A h \in Headers(A \o B) : h <= Len(A) => h \in Headers(A)
    BY HeadersPrefix
<1> QED BY <1>3, <1>4, <1>5, <1>6 DEF Shift

(***************************************************************************)
(* Where a section ends                                                    *)
(***************************************************************************)
\* From i on there is no heading up to EndOf, and one behind it or nothing.
LEMMA EndOfIs ==
    ASSUME NEW s \in Seq(Piece), NEW i \in 0..Len(s)
    PROVE  /\ EndOf(s, i) \in i..Len(s) /\ EndOf(s, i) \in Nat
           /\ \A h \in Headers(s) : h > i <=> h > EndOf(s, i)
           /\ EndOf(s, i) = Len(s) \/ EndOf(s, i) + 1 \in Headers(s)
<1> DEFINE M == {h - 1 : h \in {h \in Headers(s) : h > i}} \union {Len(s)}
           e == EndOf(s, i)
<1>1. Len(s) \in Nat /\ i \in Nat /\ i <= Len(s)
    BY LenProperties
<1>2. \A h \in Headers(s) : h \in Nat /\ h >= 1 /\ h <= Len(s)
    BY HeadersIs
<1>3. M \in SUBSET Nat /\ M # {}
    BY <1>1, <1>2
<1>4. e \in M /\ e \in Nat /\ \A y \in M : e <= y
    BY <1>3, MinIs DEF EndOf
<1>5. e <= Len(s)
    BY <1>4
<1>6. i <= e
    BY <1>1, <1>2, <1>4
<1>7. \A h \in Headers(s) : h > i => e <= h - 1
    BY <1>4
<1>8. \A h \in Headers(s) : h > i <=> h > e
    BY <1>1, <1>2, <1>4, <1>6, <1>7
<1>9. e = Len(s) \/ e + 1 \in Headers(s)
    <2>1. CASE e = Len(s)
        BY <2>1
    <2>2. CASE \E h \in Headers(s) : h > i /\ e = h - 1
        <3>1. PICK h \in Headers(s) : h > i /\ e = h - 1
            BY <2>2
        <3>2. e + 1 = h
            BY <1>2, <3>1
        <3> QED BY <3>2
    <2> QED BY <1>4, <2>1, <2>2
<1> QED BY <1>1, <1>4, <1>5, <1>6, <1>8, <1>9

LEMMA EndOfUnique ==
    ASSUME NEW s \in Seq(Piece), NEW i \in 0..Len(s), NEW e \in i..Len(s),
           \A h \in Headers(s) : h > i => h > e,
           e = Len(s) \/ e + 1 \in Headers(s)
    PROVE  EndOf(s, i) = e
<1> DEFINE d == EndOf(s, i)
<1>1. Len(s) \in Nat /\ i \in Nat /\ e \in Nat /\ i <= e /\ e <= Len(s)
    BY LenProperties
<1>2. \A h \in Headers(s) : h \in Nat /\ h >= 1 /\ h <= Len(s)
    BY HeadersIs
<1>3. /\ d \in Nat /\ i <= d /\ d <= Len(s) /\ (d = Len(s) \/ d + 1 \in Headers(s))
      /\ \A h \in Headers(s) : h > i <=> h > d
    BY <1>1, EndOfIs, SMTT(40)
<1>4. ~(d < e)
    <2> SUFFICES ASSUME d < e PROVE FALSE
        OBVIOUS
    <2>1. d + 1 \in Headers(s)
        BY <1>1, <1>3
    <2>2. d + 1 > i
        BY <1>1, <1>3
    <2>3. d + 1 > e
        BY <2>1, <2>2
    <2> QED BY <1>1, <1>3, <2>3
<1>5. ~(e < d)
    <2> SUFFICES ASSUME e < d PROVE FALSE
        OBVIOUS
    <2>1. e + 1 \in Headers(s)
        BY <1>1, <1>3
    <2>2. e + 1 > i
        BY <1>1
    <2>3. e + 1 > d
        BY <1>3, <2>1, <2>2
    <2> QED BY <1>1, <1>3, <2>3
<1> QED BY <1>1, <1>3, <1>4, <1>5

LEMMA UpToIs == ASSUME NEW s \in Seq(Piece) PROVE UpTo(s) = EndOf(s, 0)
<1>1. \A h \in Headers(s) : h \in Nat /\ h >= 1
    BY HeadersIs
<1>2. {h \in Headers(s) : h > 0} = Headers(s)
    BY <1>1
<1> QED BY <1>2 DEF UpTo, EndOf

\* The lines of a section but for trailing blanks
LEMMA TrimmedIs ==
    ASSUME NEW s \in Seq(Piece), NEW i \in 1..Len(s), NEW e \in i..Len(s)
    PROVE  /\ Trimmed(s, i, e) \in i..e
           /\ \A k \in (Trimmed(s, i, e) + 1)..e : IsBlank(s[k])
           /\ Trimmed(s, i, e) = i \/ ~IsBlank(s[Trimmed(s, i, e)])
<1> DEFINE S == {i} \union {k \in (i + 1)..e : ~IsBlank(s[k])}
           m == Max(S)
<1>1. Len(s) \in Nat /\ i \in Nat /\ e \in Nat /\ i <= e /\ e <= Len(s)
    BY LenProperties
<1>2. S \in SUBSET (0..e) /\ S # {}
    BY <1>1
<1>3. m \in S /\ m \in Nat /\ \A y \in S : m >= y
    BY <1>1, <1>2, MaxIs
<1>4. m \in i..e
    BY <1>1, <1>3
<1>5. ASSUME NEW k \in (m + 1)..e PROVE IsBlank(s[k])
    <2>1. k \in (i + 1)..e /\ ~(m >= k)
        BY <1>1, <1>4
    <2> QED BY <1>3, <2>1
<1> QED BY <1>3, <1>4, <1>5 DEF Trimmed

LEMMA TrimmedUnique ==
    ASSUME NEW s \in Seq(Piece), NEW i \in 1..Len(s), NEW e \in i..Len(s), NEW m \in i..e,
           \A k \in (m + 1)..e : IsBlank(s[k]), m = i \/ ~IsBlank(s[m])
    PROVE  Trimmed(s, i, e) = m
<1> DEFINE S == {i} \union {k \in (i + 1)..e : ~IsBlank(s[k])}
<1>1. i \in Nat /\ e \in Nat /\ m \in Nat /\ i <= m /\ m <= e
    BY LenProperties
<1>2. S \in SUBSET Nat /\ m \in S
    BY <1>1
<1>3. ASSUME NEW y \in S PROVE m >= y
    <2>1. y \in Nat
        BY <1>2
    <2>2. ~(y > m)
        BY <1>1
    <2> QED BY <1>1, <2>1, <2>2
<1>4. Max(S) = m
    BY <1>2, <1>3, MaxOf
<1> QED BY <1>4 DEF Trimmed

(***************************************************************************)
(* The finders                                                             *)
(***************************************************************************)
Starts(s) == Ordered(Headers(s))
Count(s) == Cardinality(Headers(s))

LEMMA StartsIs ==
    ASSUME NEW s \in Seq(Piece)
    PROVE  /\ Count(s) \in Nat /\ Len(s) \in Nat
           /\ DOMAIN Starts(s) = 1..Count(s) /\ Len(Starts(s)) = Count(s)
           /\ \A p \in 1..Count(s) : Starts(s)[p] \in Headers(s) /\ Starts(s)[p] \in 1..Len(s)
           /\ \A p, q \in 1..Count(s) : p < q => Starts(s)[p] < Starts(s)[q]
           /\ \A h \in Headers(s) : \E p \in 1..Count(s) : Starts(s)[p] = h
<1>1. /\ Headers(s) \in SUBSET Nat /\ IsFiniteSet(Headers(s)) /\ Headers(s) \in SUBSET (1..Len(s))
      /\ Count(s) \in Nat /\ Len(s) \in Nat
    BY HeadersIs DEF Count
<1>2. /\ Starts(s) \in [1..Count(s) -> Headers(s)]
      /\ \A p, q \in 1..Count(s) : p < q => Starts(s)[p] < Starts(s)[q]
      /\ \A h \in Headers(s) : \E p \in 1..Count(s) : Starts(s)[p] = h
    BY <1>1, OrderedIs DEF Starts, Count
<1>3. Len(Starts(s)) = Count(s)
    <2>1. Starts(s) \in Seq(Headers(s)) /\ DOMAIN Starts(s) = 1..Count(s)
        BY <1>1, <1>2, SeqDef
    <2> QED BY <1>1, <2>1, LenProperties
<1> QED BY <1>1, <1>2, <1>3

\* The end of a section is where the next one starts, or the end of the text.
LEMMA EndIsNext ==
    ASSUME NEW s \in Seq(Piece), NEW p \in 1..Count(s)
    PROVE  EndOf(s, Starts(s)[p]) = IF p < Count(s) THEN Starts(s)[p + 1] - 1 ELSE Len(s)
<1> DEFINE i == Starts(s)[p]
           n == Count(s)
<1>1. /\ n \in Nat /\ Len(s) \in Nat /\ p \in Nat /\ p >= 1 /\ p <= n
      /\ i \in Headers(s) /\ i \in Nat /\ i >= 1 /\ i <= Len(s)
    BY StartsIs
<1>2. \A h \in Headers(s) : h \in Nat /\ h >= 1 /\ h <= Len(s)
    BY HeadersIs
<1>3. CASE p < n
    <2>1. p + 1 \in 1..n /\ p < p + 1
        BY <1>1, <1>3
    <2> DEFINE j == Starts(s)[p + 1]
    <2>2. j \in Headers(s) /\ i < j /\ j \in Nat /\ j <= Len(s)
        BY <1>2, <2>1, StartsIs
    <2>3. ASSUME NEW h \in Headers(s), h > i PROVE h > j - 1
        <3>1. PICK q \in 1..n : Starts(s)[q] = h
            BY StartsIs
        <3>2. ~(q < p) /\ q # p
            <4>1. ASSUME q < p PROVE FALSE
                <5>1. h < i
                    BY <3>1, <4>1, StartsIs
                <5> QED BY <1>1, <1>2, <2>3, <5>1
            <4>2. q # p
                BY <1>1, <1>2, <2>3, <3>1
            <4> QED BY <4>1, <4>2
        <3>3. q = p + 1 \/ p + 1 < q
            BY <1>1, <3>2
        <3>4. h = j \/ j < h
            BY <2>1, <3>1, <3>3, StartsIs
        <3> QED BY <1>2, <2>2, <3>4
    <2>4. j - 1 \in i..Len(s) /\ (j - 1) + 1 = j
        BY <1>1, <2>2, SMTT(40)
    <2>5. i \in 0..Len(s)
        BY <1>1
    <2> HIDE DEF i, j
    <2>6. EndOf(s, i) = j - 1
        BY <2>2, <2>3, <2>4, <2>5, EndOfUnique
    <2> QED BY <1>3, <2>6 DEF i, j
<1>4. CASE ~(p < n)
    <2>1. ASSUME NEW h \in Headers(s), h > i PROVE FALSE
        <3>1. PICK q \in 1..n : Starts(s)[q] = h
            BY StartsIs
        <3>2. q = p \/ q < p
            BY <1>1, <1>4
        <3>3. h = i \/ h < i
            BY <3>1, <3>2, StartsIs
        <3> QED BY <1>1, <1>2, <2>1, <3>3
    <2>2. i \in 0..Len(s) /\ Len(s) \in i..Len(s)
        BY <1>1
    <2> HIDE DEF i
    <2>3. EndOf(s, i) = Len(s)
        BY <2>1, <2>2, EndOfUnique
    <2> QED BY <1>4, <2>3 DEF i
<1> QED BY <1>3, <1>4

\* The last line of the section that begins at h
Stop(s, h) == Trimmed(s, h, EndOf(s, h))

LEMMA SpansIs ==
    ASSUME NEW s \in Seq(Piece)
    PROVE  Spans(s) = [p \in 1..Count(s) |->
                        <<Starts(s)[p], Stop(s, Starts(s)[p]), NameOf(s[Starts(s)[p]])>>]
<1>1. DOMAIN Starts(s) = 1..Count(s) /\ Len(Starts(s)) = Count(s)
    BY StartsIs
<1>2. Spans(s) = [p \in DOMAIN Starts(s) |->
                    <<Starts(s)[p],
                      Trimmed(s, Starts(s)[p],
                              IF p < Len(Starts(s)) THEN Starts(s)[p + 1] - 1 ELSE Len(s)),
                      NameOf(s[Starts(s)[p]])>>]
    BY Zenon DEF Spans, Starts
<1> QED BY <1>1, <1>2, EndIsNext DEF Stop

LEMMA SpanAt ==
    ASSUME NEW s \in Seq(Piece)
    PROVE  /\ DOMAIN Spans(s) = 1..Count(s)
           /\ \A p \in 1..Count(s) : /\ Spans(s)[p][1] = Starts(s)[p]
                                     /\ Spans(s)[p][2] = Stop(s, Starts(s)[p])
                                     /\ Spans(s)[p][3] = NameOf(s[Starts(s)[p]])
<1>1. DOMAIN Spans(s) = 1..Count(s)
    BY SpansIs
<1>2. ASSUME NEW p \in 1..Count(s)
      PROVE  /\ Spans(s)[p][1] = Starts(s)[p] /\ Spans(s)[p][2] = Stop(s, Starts(s)[p])
             /\ Spans(s)[p][3] = NameOf(s[Starts(s)[p]])
    <2>1. Spans(s)[p] = <<Starts(s)[p], Stop(s, Starts(s)[p]), NameOf(s[Starts(s)[p]])>>
        BY SpansIs
    <2> QED BY <2>1
<1> QED BY <1>1, <1>2

LEMMA BoundsAgreeFor ==
    ASSUME NEW s \in Seq(Piece)
    PROVE  LET spans == Spans(s)
           IN  /\ \A p \in DOMAIN spans :
                    /\ \A i \in spans[p][1]..EndOf(s, spans[p][1]) :
                        /\ BoundsAt(s, i) = <<spans[p][1], spans[p][2]>>
                        /\ NameAt(s, i) = spans[p][3]
                    /\ (\A q \in 1..(p - 1) : spans[q][3] # spans[p][3])
                        => Bounds(s, spans[p][3]) = <<spans[p][1], spans[p][2]>>
               /\ \A i \in 1..UpTo(s) : BoundsAt(s, i)[1] = 1 /\ NameAt(s, i) = NoName
<1> DEFINE spans == Spans(s)
           n == Count(s)
<1>1. DOMAIN spans = 1..n /\ n \in Nat
    BY SpanAt, StartsIs
<1>2. \A p \in 1..n : /\ spans[p][1] = Starts(s)[p] /\ spans[p][2] = Stop(s, Starts(s)[p])
                      /\ spans[p][3] = NameOf(s[Starts(s)[p]])
    BY SpanAt
<1>3. \A h \in Headers(s) : h \in Nat /\ h >= 1 /\ h <= Len(s)
    BY HeadersIs
<1> HIDE DEF spans, n
<1>4. ASSUME NEW p \in DOMAIN spans
      PROVE  /\ \A i \in spans[p][1]..EndOf(s, spans[p][1]) :
                    /\ BoundsAt(s, i) = <<spans[p][1], spans[p][2]>>
                    /\ NameAt(s, i) = spans[p][3]
             /\ (\A q \in 1..(p - 1) : spans[q][3] # spans[p][3])
                    => Bounds(s, spans[p][3]) = <<spans[p][1], spans[p][2]>>
    <2>1. PICK h \in Headers(s) : h = Starts(s)[p] /\ h \in 1..Len(s)
        BY <1>1, StartsIs DEF n
    <2>2. /\ spans[p][1] = h /\ spans[p][2] = Stop(s, h) /\ spans[p][3] = NameOf(s[h])
          /\ p \in 1..n
        BY <1>1, <1>2, <2>1
    <2>3. PICK e \in Nat : e = EndOf(s, h)
        BY <2>1, EndOfIs
    <2>4. /\ h \in Nat /\ h >= 1 /\ h <= e /\ e <= Len(s) /\ Len(s) \in Nat
          /\ \A x \in Headers(s) : x > h <=> x > e
          /\ e = Len(s) \/ e + 1 \in Headers(s)
        BY <1>3, <2>1, <2>3, EndOfIs, LenProperties
    <2>5. ASSUME NEW i \in h..e PROVE BoundsAt(s, i) = <<h, Stop(s, h)>> /\ NameAt(s, i) = NameOf(s[h])
        <3> DEFINE upto == {x \in Headers(s) : x <= i}
                   above == {x \in Headers(s) : x > i}
        <3>1. i \in Nat /\ h <= i /\ i <= e
            BY <2>4
        <3>2. \A x \in Headers(s) : x <= i <=> x <= h
            BY <1>3, <2>4, <3>1
        <3>3. Max(upto) = h /\ h \in upto
            <4>1. h \in upto
                BY <3>1
            <4>2. upto \in SUBSET Nat
                BY <1>3
            <4>3. \A y \in upto : h >= y
                BY <1>3, <2>4, <3>2
            <4> QED BY <4>1, <4>2, <4>3, MaxOf
        <3>4. Max({1} \union upto) = h
            <4>1. h \in {1} \union upto
                BY <3>3
            <4>2. {1} \union upto \in SUBSET Nat
                BY <1>3
            <4>3. \A y \in {1} \union upto : h >= y
                BY <1>3, <2>4, <3>2
            <4> QED BY <4>1, <4>2, <4>3, MaxOf
        <3>5. above = {x \in Headers(s) : x > h}
            <4>1. \A x \in Headers(s) : x > i <=> x > h
                BY <1>3, <2>4, <3>1, <3>2
            <4> QED BY <4>1
        <3>6. (IF above = {} THEN Len(s) ELSE Min(above) - 1) = e
            <4>1. CASE above = {}
                <5>1. ~(e + 1 \in Headers(s))
                    BY <2>4, <3>5, <4>1
                <5> QED BY <2>4, <4>1, <5>1
            <4>2. CASE above # {}
                <5>1. PICK x \in above : TRUE
                    BY <4>2
                <5>2. x \in Headers(s) /\ x > e
                    BY <2>4, <3>5, <5>1
                <5>3. e # Len(s)
                    BY <1>3, <2>4, <5>2
                <5>4. e + 1 \in above
                    BY <2>4, <3>5, <5>3
                <5>5. \A y \in above : e + 1 <= y
                    BY <1>3, <2>4, <3>5
                <5>6. above \in SUBSET Nat
                    BY <1>3
                <5>7. Min(above) = e + 1
                    BY <5>4, <5>5, <5>6, MinOf
                <5> QED BY <2>4, <4>2, <5>7
            <4> QED BY <4>1, <4>2
        <3>7. BoundsAt(s, i) = <<Max({1} \union upto),
                                 Trimmed(s, Max({1} \union upto),
                                         IF above = {} THEN Len(s) ELSE Min(above) - 1)>>
            BY Zenon DEF BoundsAt
        <3>8. NameAt(s, i) = NameOf(s[h])
            <4>1. upto # {}
                BY <3>3
            <4>2. NameAt(s, i) = IF upto = {} THEN NoName ELSE NameOf(s[Max(upto)])
                BY Zenon DEF NameAt
            <4> QED BY <3>3, <4>1, <4>2
        <3> HIDE DEF upto, above
        <3> QED BY <2>3, <3>4, <3>6, <3>7, <3>8 DEF Stop
    <2>6. ASSUME \A q \in 1..(p - 1) : spans[q][3] # NameOf(s[h])
          PROVE  Bounds(s, NameOf(s[h])) = <<h, Stop(s, h)>>
        <3>1. h \in Found(s, NameOf(s[h]))
            BY <1>3 DEF Found
        <3>2. ASSUME NEW x \in Found(s, NameOf(s[h])) PROVE h <= x
            <4>1. x \in Headers(s) /\ NameOf(s[x]) = NameOf(s[h])
                BY <3>2 DEF Found
            <4>2. PICK q \in 1..n : Starts(s)[q] = x
                BY <4>1, StartsIs DEF n
            <4>3. NameOf(s[x]) = NameOf(s[h])
                BY <4>1, PieceIs
            <4>4. ~(q < p)
                <5> SUFFICES ASSUME q < p PROVE FALSE
                    OBVIOUS
                <5>1. q \in 1..(p - 1)
                    BY <1>1, <2>2
                <5> QED BY <1>2, <2>6, <4>2, <4>3, <5>1
            <4>5. p = q \/ p < q
                BY <2>2, <4>4
            <4>6. h = x \/ h < x
                BY <2>1, <2>2, <4>2, <4>5, StartsIs DEF n
            <4> QED BY <1>3, <4>1, <4>6
        <3>3. Found(s, NameOf(s[h])) \in SUBSET Nat
            BY <1>3 DEF Found
        <3>4. Min(Found(s, NameOf(s[h]))) = h
            BY <3>1, <3>2, <3>3, MinOf
        <3> QED BY <3>4, Zenon DEF Bounds, Stop
    <2> QED BY <2>2, <2>3, <2>5, <2>6
<1>5. ASSUME NEW i \in 1..UpTo(s) PROVE BoundsAt(s, i)[1] = 1 /\ NameAt(s, i) = NoName
    <2>1. Len(s) \in Nat /\ 0 \in 0..Len(s)
        BY LenProperties
    <2>2. PICK e \in Nat : e = UpTo(s) /\ \A h \in Headers(s) : h > 0 <=> h > e
        BY <2>1, EndOfIs, UpToIs
    <2>3. i \in Nat /\ i <= e
        BY <2>2
    <2>4. {h \in Headers(s) : h <= i} = {}
        BY <1>3, <2>2, <2>3
    <2>5. Max({1} \union {h \in Headers(s) : h <= i}) = 1
        BY <2>4, MaxOf
    <2> QED BY <2>4, <2>5, Zenon DEF BoundsAt, NameAt
<1> QED BY <1>4, <1>5 DEF spans

(***************************************************************************)
(* Texts put together piece by piece                                       *)
(***************************************************************************)
\* Induction up to a bound, on the set of the places where something holds
LEMMA UpwardTo ==
    ASSUME NEW n \in Nat, NEW S, 0 \in S, \A i \in 1..n : i - 1 \in S => i \in S
    PROVE  \A i \in 0..n : i \in S
<1> DEFINE Bad == {i \in 0..n : i \notin S}
<1> SUFFICES ASSUME Bad # {} PROVE FALSE
    OBVIOUS
<1>1. Bad \in SUBSET Nat
    OBVIOUS
<1>2. PICK k \in Bad : \A y \in Bad : k <= y
    BY <1>1, LeastExists
<1>3. k \in Nat /\ k # 0 /\ k <= n
    BY <1>1, <1>2
<1>4. k - 1 \in 0..n /\ ~(k <= k - 1) /\ k \in 1..n
    BY <1>3
<1>5. k - 1 \in S
    BY <1>2, <1>4
<1> QED BY <1>2, <1>4, <1>5

\* FlattenSeq has its beginnings, each from the one before.
LEMMA FlattenIs ==
    ASSUME NEW A, NEW s \in Seq(Seq(A))
    PROVE  \E G \in [0..Len(s) -> Seq(A)] :
              /\ G[0] = <<>> /\ FlattenSeq(s) = G[Len(s)]
              /\ \A i \in 1..Len(s) : G[i] = G[i - 1] \o s[i]
<1> DEFINE n == Len(s)
           Step(g, i) == IF i = 1 THEN s[i] ELSE g[i - 1] \o s[i]
           Made(k, g) == g \in [1..k -> Seq(A)] /\ \A i \in 1..k : g[i] = Step(g, i)
           S == {k \in 0..n : \E g : Made(k, g)}
<1>1. n \in Nat /\ \A i \in 1..n : s[i] \in Seq(A)
    BY LenProperties, ElementOfSeq
<1>2. 0 \in S
    <2>1. Made(0, [i \in 1..0 |-> <<>>])
        OBVIOUS
    <2>2. 0 \in 0..n
        BY <1>1
    <2> HIDE DEF Made
    <2> QED BY <2>1, <2>2
<1>3. ASSUME NEW k \in 1..n, k - 1 \in S PROVE k \in S
    <2>1. PICK g : Made(k - 1, g)
        BY <1>3
    <2> DEFINE h == [i \in 1..k |-> IF i < k THEN g[i] ELSE Step(g, k)]
    <2>2. k \in Nat /\ k >= 1 /\ k <= n
        BY <1>1
    <2>3. Step(g, k) \in Seq(A)
        <3>1. CASE k = 1
            BY <1>1, <3>1
        <3>2. CASE k # 1
            <4>1. k - 1 \in 1..(k - 1) /\ s[k] \in Seq(A)
                BY <1>1, <2>2, <3>2
            <4>2. g[k - 1] \in Seq(A)
                BY <2>1, <4>1
            <4> QED BY <3>2, <4>1, <4>2, ConcatProperties
        <3> QED BY <3>1, <3>2
    <2>4. \A i \in 1..(k - 1) : g[i] \in Seq(A) /\ g[i] = Step(g, i)
        BY <2>1
    <2>5. h \in [1..k -> Seq(A)]
        BY <2>2, <2>3, <2>4
    <2>6. ASSUME NEW i \in 1..k PROVE h[i] = Step(h, i)
        <3>1. CASE i = 1
            <4>1. i < k => h[i] = g[i] /\ g[i] = s[i]
                BY <2>2, <2>4, <3>1
            <4>2. ~(i < k) => k = 1 /\ h[i] = s[i]
                BY <2>2, <3>1
            <4> QED BY <3>1, <4>1, <4>2
        <3>2. CASE i # 1
            <4>1. i - 1 \in 1..k /\ i - 1 < k
                BY <2>2, <3>2
            <4>2. h[i - 1] = g[i - 1]
                BY <4>1
            <4>3. h[i] = g[i - 1] \o s[i]
                <5>1. CASE i < k
                    <6>1. i \in 1..(k - 1) /\ h[i] = g[i]
                        BY <2>2, <5>1
                    <6> QED BY <2>4, <3>2, <6>1
                <5>2. CASE ~(i < k)
                    <6>1. i = k /\ h[i] = Step(g, k)
                        BY <2>2, <5>2
                    <6> QED BY <3>2, <6>1
                <5> QED BY <5>1, <5>2
            <4> QED BY <3>2, <4>2, <4>3
        <3> QED BY <3>1, <3>2
    <2>7. Made(k, h)
        BY <2>5, <2>6
    <2>8. k \in 0..n
        BY <2>2
    <2> QED BY <2>7, <2>8
<1>4. n \in S
    <2> HIDE DEF S, n
    <2>1. \A i \in 0..n : i \in S
        BY <1>1, <1>2, <1>3, UpwardTo
    <2> QED BY <1>1, <2>1
<1>5. CASE n = 0
    <2>1. s = <<>> /\ FlattenSeq(s) = s
        BY <1>5, EmptySeq DEF FlattenSeq
    <2>2. <<>> \in Seq(A)
        BY EmptySeq
    <2> DEFINE G == [i \in 0..n |-> <<>>]
    <2>3. G \in [0..n -> Seq(A)] /\ G[0] = <<>> /\ FlattenSeq(s) = G[n] /\ 1..n = {}
        BY <1>5, <2>1, <2>2
    <2> QED BY <2>3
<1>6. CASE n # 0
    <2> DEFINE F == CHOOSE f : f = [i \in 1..n |-> IF i = 1 THEN s[i] ELSE f[i - 1] \o s[i]]
    <2>1. FlattenSeq(s) = F[n]
        BY <1>6, Zenon DEF FlattenSeq
    <2>2. PICK g : Made(n, g)
        BY <1>4
    <2>3. g = [i \in 1..n |-> IF i = 1 THEN s[i] ELSE g[i - 1] \o s[i]]
        BY <2>2
    <2>4. F = [i \in 1..n |-> IF i = 1 THEN s[i] ELSE F[i - 1] \o s[i]]
        BY <2>3, Zenon
    <2> HIDE DEF F
    <2> DEFINE T == {k \in 0..n : k = 0 \/ F[k] = g[k]}
    <2>5. ASSUME NEW k \in 1..n, k - 1 \in T PROVE k \in T
        <3>1. F[k] = Step(F, k) /\ g[k] = Step(g, k) /\ k \in 0..n /\ k \in Nat
            <4>1. F[k] = Step(F, k)
                BY <2>4
            <4>2. g[k] = Step(g, k)
                BY <2>2
            <4>3. k \in 0..n /\ k \in Nat
                BY <1>1
            <4> QED BY <4>1, <4>2, <4>3
        <3>2. k # 1 => F[k - 1] = g[k - 1]
            BY <1>1, <2>5
        <3> QED BY <3>1, <3>2
    <2>6. 0 \in T
        BY <1>1
    <2>7. \A k \in 0..n : k \in T
        <3> HIDE DEF T, n
        <3> QED BY <1>1, <2>5, <2>6, UpwardTo
    <2>8. F[n] = g[n]
        <3>1. n \in 0..n
            BY <1>1
        <3> QED BY <1>6, <2>7, <3>1
    <2> DEFINE G == [i \in 0..n |-> IF i = 0 THEN <<>> ELSE g[i]]
    <2>9. G \in [0..n -> Seq(A)] /\ G[0] = <<>>
        BY <1>1, <2>2, EmptySeq
    <2>10. FlattenSeq(s) = G[n]
        BY <1>1, <1>6, <2>1, <2>8
    <2>11. ASSUME NEW i \in 1..n PROVE G[i] = G[i - 1] \o s[i]
        <3>1. G[i] = Step(g, i) /\ s[i] \in Seq(A)
            <4>1. i \in 0..n /\ i # 0
                BY <1>1
            <4>2. G[i] = g[i]
                BY <4>1
            <4>3. g[i] = Step(g, i)
                BY <2>2
            <4> QED BY <1>1, <4>2, <4>3
        <3>2. CASE i = 1
            <4>1. G[i - 1] = <<>>
                BY <1>1, <3>2
            <4> QED BY <3>1, <3>2, <4>1, ConcatEmptySeq
        <3>3. CASE i # 1
            <4>1. i - 1 \in 0..n /\ i - 1 # 0
                BY <1>1, <3>3
            <4>2. G[i - 1] = g[i - 1]
                BY <4>1
            <4> QED BY <3>1, <3>3, <4>2
        <3> QED BY <3>2, <3>3
    <2> QED BY <2>9, <2>10, <2>11
<1> QED BY <1>5, <1>6

(***************************************************************************)
(* Headings of texts put together, in order                                *)
(***************************************************************************)
LEMMA OrderedUnion ==
    ASSUME NEW n \in Nat, NEW S \in SUBSET Nat, NEW T \in SUBSET Nat,
           IsFiniteSet(S), IsFiniteSet(T), \A i \in S : i <= n, \A j \in T : j > n
    PROVE  /\ Cardinality(S \union T) = Cardinality(S) + Cardinality(T)
           /\ \A p \in 1..Cardinality(S) : Ordered(S \union T)[p] = Ordered(S)[p]
           /\ \A p \in 1..Cardinality(T) : Ordered(S \union T)[Cardinality(S) + p] = Ordered(T)[p]
<1> DEFINE c == Cardinality(S)
           d == Cardinality(T)
           f == [p \in 1..(c + d) |-> IF p <= c THEN Ordered(S)[p] ELSE Ordered(T)[p - c]]
<1>1. /\ c \in Nat /\ \A p \in 1..c : Ordered(S)[p] \in S
      /\ \A p, q \in 1..c : p < q => Ordered(S)[p] < Ordered(S)[q]
      /\ \A i \in S : \E p \in 1..c : Ordered(S)[p] = i
    BY OrderedIs
<1>2. /\ d \in Nat /\ \A p \in 1..d : Ordered(T)[p] \in T
      /\ \A p, q \in 1..d : p < q => Ordered(T)[p] < Ordered(T)[q]
      /\ \A i \in T : \E p \in 1..d : Ordered(T)[p] = i
    BY OrderedIs
<1> HIDE DEF c, d
<1>3. ASSUME NEW p \in 1..(c + d)
      PROVE  \/ p \in 1..c /\ f[p] = Ordered(S)[p] /\ f[p] \in S
             \/ ~(p <= c) /\ p - c \in 1..d /\ f[p] = Ordered(T)[p - c] /\ f[p] \in T
    <2>1. CASE p <= c
        <3>1. p \in 1..c
            BY <1>1, <1>2, <2>1
        <3> QED BY <1>1, <2>1, <3>1
    <2>2. CASE ~(p <= c)
        <3>1. p - c \in 1..d
            BY <1>1, <1>2, <2>2
        <3> QED BY <1>2, <2>2, <3>1
    <2> QED BY <2>1, <2>2
<1>4. f \in [1..(c + d) -> S \union T]
    BY <1>3
<1>5. ASSUME NEW p \in 1..(c + d), NEW q \in 1..(c + d), p < q PROVE f[p] < f[q]
    <2> HIDE DEF f
    <2>1. CASE q \in 1..c
        <3>1. p \in 1..c
            BY <1>1, <1>2, <1>5, <2>1
        <3>2. p <= c /\ q <= c
            BY <1>1, <2>1, <3>1
        <3>3. f[p] = Ordered(S)[p] /\ f[q] = Ordered(S)[q]
            BY <1>3, <3>2
        <3> QED BY <1>1, <1>5, <2>1, <3>1, <3>3
    <2>2. CASE p \in 1..c /\ ~(q \in 1..c)
        <3>1. f[p] \in S /\ f[q] \in T
            <4>1. p <= c
                BY <1>1, <2>2
            <4> QED BY <1>3, <2>2, <4>1
        <3>2. f[p] <= n /\ f[q] > n /\ f[p] \in Nat /\ f[q] \in Nat
            BY <3>1
        <3> QED BY <3>2
    <2>3. CASE ~(p \in 1..c) /\ ~(q \in 1..c)
        <3>1. p - c \in 1..d /\ f[p] = Ordered(T)[p - c]
            BY <1>3, <2>3
        <3>2. q - c \in 1..d /\ f[q] = Ordered(T)[q - c]
            BY <1>3, <2>3
        <3>3. p - c < q - c
            BY <1>1, <1>2, <1>5
        <3> QED BY <1>2, <3>1, <3>2, <3>3
    <2> QED BY <2>1, <2>2, <2>3
<1>6. ASSUME NEW p \in 1..c PROVE p \in 1..(c + d) /\ f[p] = Ordered(S)[p]
    BY <1>1, <1>2
<1>7. ASSUME NEW p \in 1..d PROVE c + p \in 1..(c + d) /\ f[c + p] = Ordered(T)[p]
    <2>1. c + p \in 1..(c + d) /\ ~(c + p <= c) /\ (c + p) - c = p
        BY <1>1, <1>2
    <2> QED BY <2>1
<1>8. ASSUME NEW i \in S \union T PROVE \E p \in 1..(c + d) : f[p] = i
    <2> HIDE DEF f
    <2>1. CASE i \in S
        BY <1>1, <1>6, <2>1
    <2>2. CASE i \in T
        BY <1>2, <1>7, <2>2
    <2> QED BY <2>1, <2>2
<1>9. c + d \in Nat /\ S \union T \in SUBSET Nat
    BY <1>1, <1>2
<1>10. Cardinality(S \union T) = c + d /\ Ordered(S \union T) = f
    <2> HIDE DEF f
    <2> QED BY <1>4, <1>5, <1>8, <1>9, OrderedUnique
<1> HIDE DEF f
<1>11. \A p \in 1..c : Ordered(S \union T)[p] = Ordered(S)[p]
    BY <1>6, <1>10
<1>12. \A p \in 1..d : Ordered(S \union T)[c + p] = Ordered(T)[p]
    BY <1>7, <1>10
<1> QED BY <1>10, <1>11, <1>12 DEF c, d

LEMMA OrderedShift ==
    ASSUME NEW a \in Nat, NEW S \in SUBSET Nat, IsFiniteSet(S)
    PROVE  /\ IsFiniteSet(Shift(a, S)) /\ Cardinality(Shift(a, S)) = Cardinality(S)
           /\ \A p \in 1..Cardinality(S) : Ordered(Shift(a, S))[p] = a + Ordered(S)[p]
<1> DEFINE c == Cardinality(S)
           f == [p \in 1..c |-> a + Ordered(S)[p]]
<1>1. /\ c \in Nat /\ \A p \in 1..c : Ordered(S)[p] \in S
      /\ \A p, q \in 1..c : p < q => Ordered(S)[p] < Ordered(S)[q]
      /\ \A i \in S : \E p \in 1..c : Ordered(S)[p] = i
    BY OrderedIs
<1> HIDE DEF c
<1>2. \A p \in 1..c : Ordered(S)[p] \in Nat
    BY <1>1
<1>3. f \in [1..c -> Shift(a, S)]
    BY <1>1 DEF Shift
<1>4. \A p, q \in 1..c : p < q => f[p] < f[q]
    BY <1>1, <1>2
<1>5. \A i \in Shift(a, S) : \E p \in 1..c : f[p] = i
    BY <1>1 DEF Shift
<1>6. Shift(a, S) \in SUBSET Nat
    BY DEF Shift
<1>7. IsFiniteSet(Shift(a, S)) /\ Cardinality(Shift(a, S)) = c /\ Ordered(Shift(a, S)) = f
    <2> HIDE DEF f
    <2> QED BY <1>1, <1>3, <1>4, <1>5, <1>6, OrderedUnique
<1> QED BY <1>7 DEF c

\* The sections of a prefix come first.
LEMMA StartsPrefix ==
    ASSUME NEW A \in Seq(Piece), NEW B \in Seq(Piece)
    PROVE  /\ Count(A) <= Count(A \o B)
           /\ \A p \in 1..Count(A) : Starts(A \o B)[p] = Starts(A)[p]
           /\ \A p \in 1..Count(A \o B) : p > Count(A) => Starts(A \o B)[p] > Len(A)
<1> DEFINE T == {h \in Headers(A \o B) : h > Len(A)}
           H == Headers(A)
<1>1. A \o B \in Seq(Piece) /\ Len(A) \in Nat
    BY ConcatProperties, LenProperties
<1>2. /\ Headers(A \o B) \in SUBSET Nat /\ IsFiniteSet(Headers(A \o B))
      /\ H \in SUBSET Nat /\ IsFiniteSet(H) /\ \A h \in H : h <= Len(A)
    BY <1>1, HeadersIs
<1>3. Headers(A \o B) = H \union T
    <2>1. H = {h \in Headers(A \o B) : h <= Len(A)}
        BY HeadersPrefix
    <2>2. \A h \in Headers(A \o B) : h <= Len(A) \/ h > Len(A)
        BY <1>1, <1>2
    <2> QED BY <2>1, <2>2
<1>4. T \in SUBSET Nat /\ IsFiniteSet(T)
    BY <1>2, FS_Subset
<1>5. Cardinality(H) \in Nat /\ Cardinality(T) \in Nat /\ \A p \in 1..Cardinality(T) : Ordered(T)[p] \in T
    BY <1>2, <1>4, OrderedIs, ZenonT(40)
<1>6. \A j \in T : j > Len(A)
    OBVIOUS
<1> HIDE DEF T, H
<1>7. /\ Cardinality(H \union T) = Cardinality(H) + Cardinality(T)
      /\ \A p \in 1..Cardinality(H) : Ordered(H \union T)[p] = Ordered(H)[p]
      /\ \A p \in 1..Cardinality(T) : Ordered(H \union T)[Cardinality(H) + p] = Ordered(T)[p]
    BY <1>1, <1>2, <1>4, <1>6, OrderedUnion
<1>8. ASSUME NEW p \in 1..(Cardinality(H) + Cardinality(T)), p > Cardinality(H)
      PROVE  Ordered(H \union T)[p] > Len(A)
    <2>1. PICK q \in 1..Cardinality(T) : p = Cardinality(H) + q
        <3>1. p - Cardinality(H) \in 1..Cardinality(T) /\ p = Cardinality(H) + (p - Cardinality(H))
            BY <1>5, <1>8
        <3> QED BY <3>1
    <2> QED BY <1>5, <1>6, <1>7, <2>1
<1>9. /\ Count(A \o B) = Cardinality(H \union T) /\ Starts(A \o B) = Ordered(H \union T)
      /\ Count(A) = Cardinality(H) /\ Starts(A) = Ordered(H)
    BY <1>3 DEF Starts, Count, H
<1>10. Count(A) <= Count(A \o B)
    BY <1>5, <1>7, <1>9
<1> QED BY <1>7, <1>8, <1>9, <1>10

\* Behind a text that leaves nothing open, sections are what they are alone.
LEMMA StartsConcat ==
    ASSUME NEW A \in Seq(Piece), NEW B \in Seq(Piece), Closed(A)
    PROVE  /\ Count(A \o B) = Count(A) + Count(B)
           /\ \A p \in 1..Count(B) : Starts(A \o B)[Count(A) + p] = Len(A) + Starts(B)[p]
<1> DEFINE T == Shift(Len(A), Headers(B))
<1>1. /\ Len(A) \in Nat
      /\ Headers(A) \in SUBSET Nat /\ IsFiniteSet(Headers(A)) /\ \A h \in Headers(A) : h <= Len(A)
      /\ Headers(B) \in SUBSET Nat /\ IsFiniteSet(Headers(B)) /\ \A h \in Headers(B) : h >= 1
    BY HeadersIs
<1>2. Headers(A \o B) = Headers(A) \union T
    BY HeadersConcat
<1>3. /\ IsFiniteSet(T) /\ Cardinality(T) = Cardinality(Headers(B))
      /\ \A p \in 1..Cardinality(Headers(B)) : Ordered(T)[p] = Len(A) + Ordered(Headers(B))[p]
    BY <1>1, OrderedShift
<1>4. T \in SUBSET Nat /\ \A j \in T : j > Len(A)
    BY <1>1 DEF Shift
<1> HIDE DEF T
<1>5. /\ Count(A \o B) = Cardinality(Headers(A) \union T)
      /\ Starts(A \o B) = Ordered(Headers(A) \union T)
      /\ Count(A) = Cardinality(Headers(A)) /\ Count(B) = Cardinality(T)
      /\ Starts(B) = Ordered(Headers(B))
    BY <1>2, <1>3 DEF Starts, Count
<1>6. /\ Cardinality(Headers(A) \union T) = Count(A) + Count(B)
      /\ \A p \in 1..Count(B) : Ordered(Headers(A) \union T)[Count(A) + p] = Ordered(T)[p]
    <2> DEFINE H == Headers(A)
    <2>1. H \in SUBSET Nat /\ IsFiniteSet(H) /\ \A i \in H : i <= Len(A)
        BY <1>1
    <2> HIDE DEF H
    <2>2. /\ Cardinality(H \union T) = Cardinality(H) + Cardinality(T)
          /\ \A p \in 1..Cardinality(T) : Ordered(H \union T)[Cardinality(H) + p] = Ordered(T)[p]
        BY <1>1, <1>3, <1>4, <2>1, OrderedUnion, ZenonT(40)
    <2> QED BY <1>5, <2>2 DEF H
<1>7. \A p \in 1..Count(B) : Ordered(T)[p] = Len(A) + Starts(B)[p]
    BY <1>3, <1>5
<1> QED BY <1>5, <1>6, <1>7

(***************************************************************************)
(* One line more                                                           *)
(***************************************************************************)
LEMMA OneIs ==
    ASSUME NEW x \in Piece
    PROVE  /\ <<x>> \in Seq(Piece) /\ Len(<<x>>) = 1 /\ <<x>>[1] = x
           /\ ~Fenced(<<x>>, 1) /\ (Fenced(<<x>>, 2) <=> Toggles(x))
           /\ Headers(<<x>>) = IF IsHead(x) THEN {1} ELSE {}
<1>1. <<x>> \in Seq(Piece) /\ Len(<<x>>) = 1 /\ <<x>>[1] = x /\ DOMAIN <<x>> = 1..1
    OBVIOUS
<1>2. Tog(<<x>>, 1 - 1) = {} /\ Tog(<<x>>, 2 - 1) = IF Toggles(x) THEN {1} ELSE {}
    BY <1>1 DEF Tog
<1>3. Cardinality({}) = 0 /\ Cardinality({1}) = 1 /\ 0 % 2 # 1 /\ 1 % 2 = 1
    BY FS_EmptySet, FS_Singleton
<1>4. ~Fenced(<<x>>, 1) /\ (Fenced(<<x>>, 2) <=> Toggles(x))
    BY <1>2, <1>3, FencedIs
<1>5. Headers(<<x>>) = IF IsHead(x) THEN {1} ELSE {}
    BY <1>1, <1>4 DEF Headers
<1> QED BY <1>1, <1>4, <1>5

LEMMA ClosedOne ==
    ASSUME NEW s \in Seq(Piece), NEW x \in Piece
    PROVE  Closed(s \o <<x>>) <=> (Closed(s) <=> ~Toggles(x))
<1>1. <<x>> \in Seq(Piece) /\ Len(<<x>>) = 1 /\ (Fenced(<<x>>, 2) <=> Toggles(x))
    BY OneIs
<1>2. Len(s) \in Nat /\ Len(s \o <<x>>) + 1 = Len(s) + 2
    BY <1>1, LenProperties, ConcatProperties
<1>3. 2 \in 1..(Len(<<x>>) + 1)
    BY <1>1
<1>4. Fenced(s \o <<x>>, Len(s) + 2) <=> ~(Fenced(s, Len(s) + 1) <=> Fenced(<<x>>, 2))
    BY <1>1, <1>3, FencedSuffix
<1> QED BY <1>1, <1>2, <1>4 DEF Closed

\* The names of the sections, in order
Names(s) == [p \in 1..Count(s) |-> NameOf(s[Starts(s)[p]])]

LEMMA NamesType ==
    ASSUME NEW s \in Seq(Piece) PROVE Names(s) \in Seq(Name \union {NoName}) /\ Len(Names(s)) = Count(s)
<1>1. Count(s) \in Nat /\ \A p \in 1..Count(s) : NameOf(s[Starts(s)[p]]) \in Name \union {NoName}
    BY StartsIs, HeadersIs, PieceIs
<1>2. Names(s) \in [1..Count(s) -> Name \union {NoName}]
    BY <1>1 DEF Names
<1>3. Names(s) \in Seq(Name \union {NoName})
    BY <1>1, <1>2, SeqDef
<1> QED BY <1>1, <1>2, <1>3, LenProperties

LEMMA NamesOne ==
    ASSUME NEW s \in Seq(Piece), NEW x \in Piece
    PROVE  Names(s \o <<x>>) = IF IsHead(x) /\ Closed(s) THEN Names(s) \o <<NameOf(x)>> ELSE Names(s)
<1> DEFINE t == s \o <<x>>
           n == Count(s)
<1>1. /\ <<x>> \in Seq(Piece) /\ Len(<<x>>) = 1 /\ <<x>>[1] = x
      /\ Headers(<<x>>) = IF IsHead(x) THEN {1} ELSE {}
    BY OneIs
<1>2. /\ t \in Seq(Piece) /\ Len(s) \in Nat /\ Len(t) = Len(s) + 1 /\ t[Len(s) + 1] = x
      /\ \A i \in 1..Len(s) : t[i] = s[i]
    BY <1>1, ConcatProperties, LenProperties
<1>3. n \in Nat /\ \A p \in 1..n : Starts(s)[p] \in 1..Len(s)
    BY StartsIs
<1>4. \A p \in 1..n : Starts(t)[p] = Starts(s)[p]
    BY <1>1, StartsPrefix
<1>5. \A p \in 1..n : t[Starts(t)[p]] = s[Starts(s)[p]]
    BY <1>2, <1>3, <1>4
<1>6. Names(t) \in Seq(Name \union {NoName}) /\ Len(Names(t)) = Count(t) /\ Names(s) \in Seq(Name \union {NoName}) /\ Len(Names(s)) = n
    BY <1>2, NamesType
<1> HIDE DEF t, n
<1>7. CASE IsHead(x) /\ Closed(s)
    <2>1. Headers(<<x>>) = {1} /\ Count(<<x>>) = 1
        BY <1>1, <1>7, FS_Singleton DEF Count
    <2>2. 1 \in 1..Count(<<x>>) /\ Starts(<<x>>)[1] \in Headers(<<x>>)
        BY <1>1, <2>1, StartsIs
    <2>3. Count(t) = n + 1 /\ Starts(t)[n + 1] = Len(s) + 1
        BY <1>1, <1>2, <1>7, <2>1, <2>2, StartsConcat, ZenonT(40) DEF t, n
    <2>4. NameOf(x) \in Name \union {NoName}
        BY <1>7, PieceIs
    <2>5. /\ Names(s) \o <<NameOf(x)>> \in Seq(Name \union {NoName}) /\ Len(Names(s) \o <<NameOf(x)>>) = n + 1
          /\ \A p \in 1..n : (Names(s) \o <<NameOf(x)>>)[p] = Names(s)[p]
          /\ (Names(s) \o <<NameOf(x)>>)[n + 1] = NameOf(x)
        BY <1>3, <1>6, <2>4
    <2>6. ASSUME NEW p \in 1..(n + 1) PROVE Names(t)[p] = (Names(s) \o <<NameOf(x)>>)[p]
        <3>1. Names(t)[p] = NameOf(t[Starts(t)[p]])
            BY <2>3 DEF Names
        <3>2. CASE p \in 1..n
            <4>1. Names(s)[p] = NameOf(s[Starts(s)[p]])
                BY <3>2 DEF Names, n
            <4> QED BY <1>5, <2>5, <3>1, <3>2, <4>1
        <3>3. CASE p = n + 1
            BY <1>2, <2>3, <2>5, <3>1, <3>3
        <3>4. p \in 1..n \/ p = n + 1
            BY <1>3
        <3> QED BY <3>2, <3>3, <3>4
    <2>7. Names(t) = Names(s) \o <<NameOf(x)>>
        BY <1>6, <2>3, <2>5, <2>6, SeqEqual
    <2> QED BY <1>7, <2>7 DEF t
<1>8. CASE ~(IsHead(x) /\ Closed(s))
    <2>1. Headers(t) = Headers(s)
        <3>1. CASE Closed(s)
            <4>1. Headers(<<x>>) = {}
                BY <1>1, <1>8, <3>1
            <4>2. Shift(Len(s), {}) = {}
                BY DEF Shift
            <4>3. Headers(s \o <<x>>) = Headers(s) \union Shift(Len(s), Headers(<<x>>))
                BY <1>1, <3>1, HeadersConcat
            <4> QED BY <4>1, <4>2, <4>3 DEF t
        <3>2. CASE ~Closed(s)
            <4>1. Fenced(t, Len(s) + 1)
                <5>1. Len(s) + 1 \in 1..(Len(s) + 1)
                    BY <1>2
                <5> QED BY <1>1, <3>2, <5>1, FencedPrefix DEF Closed, t
            <4>2. \A h \in Headers(t) : h \in Nat /\ h <= Len(s) + 1 /\ h # Len(s) + 1
                BY <1>2, <4>1, HeadersIs
            <4>3. \A h \in Headers(t) : h <= Len(s)
                BY <1>2, <4>2
            <4>4. {h \in Headers(t) : h <= Len(s)} = Headers(s)
                BY <1>1, HeadersPrefix DEF t
            <4> QED BY <4>3, <4>4
        <3> QED BY <3>1, <3>2
    <2>2. Count(t) = n
        BY <2>1 DEF Count, n
    <2>3. Names(t) = Names(s)
        BY <1>5, <2>2 DEF Names, n
    <2> QED BY <1>8, <2>3 DEF t
<1> QED BY <1>7, <1>8

(***************************************************************************)
(* splitlines and normalise_body                                           *)
(***************************************************************************)
\* What a piece becomes when the pieces of a kind are taken apart
One(l, kind) == IF l[1] = kind THEN l[2] ELSE <<l>>

\* G[i] is what the first i pieces of t become.
Built(G, t, kind, A) ==
    /\ G \in [0..Len(t) -> Seq(A)] /\ G[0] = <<>> /\ Split(t, kind) = G[Len(t)]
    /\ \A i \in 1..Len(t) : G[i] = G[i - 1] \o One(t[i], kind)

LEMMA SplitIs ==
    ASSUME NEW A, NEW B, NEW kind, NEW t \in Seq(B), \A l \in B : One(l, kind) \in Seq(A)
    PROVE  \E G : Built(G, t, kind, A)
<1> DEFINE n == Len(t)
           u == [i \in 1..n |-> One(t[i], kind)]
<1>1. n \in Nat /\ DOMAIN t = 1..n /\ \A i \in 1..n : t[i] \in B
    BY LenProperties, ElementOfSeq
<1>2. \A i \in 1..n : One(t[i], kind) \in Seq(A)
    BY <1>1
<1>3. u \in [1..n -> Seq(A)]
    BY <1>2
<1>4. u \in Seq(Seq(A)) /\ Len(u) = n
    <2>1. u \in Seq(Seq(A)) /\ DOMAIN u = 1..n
        BY <1>1, <1>3, SeqDef
    <2> QED BY <1>1, <2>1, LenProperties
<1>5. Split(t, kind) = FlattenSeq(u)
    BY <1>1 DEF Split, One
<1>6. \A i \in 1..n : u[i] = One(t[i], kind)
    OBVIOUS
<1> HIDE DEF u
<1>7. \E G \in [0..Len(u) -> Seq(A)] :
        /\ G[0] = <<>> /\ FlattenSeq(u) = G[Len(u)]
        /\ \A i \in 1..Len(u) : G[i] = G[i - 1] \o u[i]
    BY <1>4, FlattenIs
<1>8. PICK G \in [0..n -> Seq(A)] :
        /\ G[0] = <<>> /\ FlattenSeq(u) = G[n]
        /\ \A i \in 1..n : G[i] = G[i - 1] \o u[i]
    BY <1>4, <1>7
<1>9. \A i \in 1..n : G[i] = G[i - 1] \o One(t[i], kind)
    BY <1>6, <1>8
<1>10. Built(G, t, kind, A)
    BY <1>5, <1>8, <1>9 DEF Built
<1> QED BY <1>10

\* What Split makes, and that something is left of something
LEMMA SplitType ==
    ASSUME NEW A, NEW B, NEW kind, NEW t \in Seq(B),
           \A l \in B : One(l, kind) \in Seq(A) /\ One(l, kind) # <<>>
    PROVE  Split(t, kind) \in Seq(A) /\ (t # <<>> => Split(t, kind) # <<>>)
<1> DEFINE n == Len(t)
<1>1. PICK G \in [0..n -> Seq(A)] :
        /\ G[0] = <<>> /\ Split(t, kind) = G[n]
        /\ \A i \in 1..n : G[i] = G[i - 1] \o One(t[i], kind)
    <2>1. PICK G : Built(G, t, kind, A)
        BY SplitIs
    <2> QED BY <2>1 DEF Built
<1>2. n \in Nat /\ n \in 0..n /\ \A i \in 1..n : t[i] \in B
    BY LenProperties, ElementOfSeq
<1>3. Split(t, kind) \in Seq(A)
    BY <1>1, <1>2
<1>4. ASSUME t # <<>> PROVE Split(t, kind) # <<>>
    <2>1. n \in 1..n /\ n - 1 \in 0..n
        BY <1>2, <1>4, EmptySeq
    <2>2. G[n - 1] \in Seq(A)
        BY <2>1
    <2> DEFINE new == One(t[n], kind)
    <2>3. new \in Seq(A) /\ new # <<>>
        BY <1>2, <2>1
    <2>4. Split(t, kind) = G[n - 1] \o new
        BY <1>1, <2>1
    <2> HIDE DEF new
    <2> QED BY <2>2, <2>3, <2>4, ConcatEqualIffEmpty, ConcatSimplifications
<1> QED BY <1>3, <1>4

\* What the two kinds of pieces become: parts are plain lines.
LEMMA OneParts ==
    /\ \A l \in Written : One(l, "cut") \in Seq(Plain) /\ One(l, "cut") # <<>>
    /\ \A l \in Piece : One(l, "cr") \in Seq(Written) /\ One(l, "cr") # <<>>
<1>1. ASSUME NEW l \in Piece
      PROVE  /\ One(l, "cr") \in Seq(Written) /\ One(l, "cr") # <<>>
             /\ l \in Written => One(l, "cut") \in Seq(Plain) /\ One(l, "cut") # <<>>
    <2>1. /\ Parts(l) \in Seq(Plain) /\ Parts(l) # <<>>
          /\ l[1] \notin {"cut", "cr"} => l \in Plain
          /\ l[1] \in {"cut", "cr"} => Parts(l) = l[2]
          /\ l[1] # "cr" => l \in Written
        BY PartsIs
    <2>2. Parts(l) \in Seq(Written)
        BY <2>1, PlainIsPiece
    <2>3. /\ <<l>> # <<>>
          /\ l \in Plain => <<l>> \in Seq(Plain)
          /\ l \in Written => <<l>> \in Seq(Written)
        OBVIOUS
    <2>4. l \in Written => l[1] # "cr"
        <3> SUFFICES ASSUME l \in Written PROVE l[1] # "cr"
            OBVIOUS
        <3>1. l \in Plain \/ \E p \in Seq(Plain) : l = <<"cut", p>>
            BY DEF Written
        <3> QED BY <3>1, PlainIs
    <2> QED BY <2>1, <2>2, <2>3, <2>4 DEF One
<1>2. Written \subseteq Piece
    BY PieceIs
<1> QED BY <1>1, <1>2

LEMMA SplitTypes ==
    /\ \A t \in Seq(Written) : Split(t, "cut") \in Seq(Plain) /\ (t # <<>> => Split(t, "cut") # <<>>)
    /\ \A t \in Seq(Piece) : Split(t, "cr") \in Seq(Written) /\ (t # <<>> => Split(t, "cr") # <<>>)
BY OneParts, SplitType

\* A text without pieces of a kind is as it was.
LEMMA SplitSame ==
    ASSUME NEW B, NEW kind, NEW t \in Seq(B), \A i \in 1..Len(t) : t[i][1] # kind PROVE Split(t, kind) = t
<1> DEFINE n == Len(t)
           C == {l \in B : l[1] # kind}
<1>1. n \in Nat /\ DOMAIN t = 1..n /\ \A i \in 1..n : t[i] \in C
    BY LenProperties, ElementOfSeq
<1>2. t \in Seq(C) /\ \A l \in C : One(l, kind) = <<l>> /\ <<l>> \in Seq(C)
    <2>1. t = [i \in 1..n |-> t[i]]
        BY <1>1, SeqDef, LenProperties
    <2>2. \A l \in C : One(l, kind) = <<l>>
        BY DEF One
    <2> HIDE DEF C
    <2>3. t \in Seq(C)
        BY <1>1, <2>1, SeqDef
    <2>4. \A l \in C : <<l>> \in Seq(C)
        OBVIOUS
    <2> QED BY <2>2, <2>3, <2>4
<1> HIDE DEF C
<1>3. PICK G \in [0..n -> Seq(C)] :
        /\ G[0] = <<>> /\ Split(t, kind) = G[n]
        /\ \A i \in 1..n : G[i] = G[i - 1] \o <<t[i]>>
    <2>1. PICK G : Built(G, t, kind, C)
        BY <1>2, SplitIs
    <2>2. \A i \in 1..n : One(t[i], kind) = <<t[i]>>
        BY <1>1, <1>2
    <2> QED BY <2>1, <2>2 DEF Built
<1> DEFINE T == {i \in 0..n : G[i] = SubSeq(t, 1, i)}
<1>4. 0 \in T
    BY <1>1, <1>3, SubSeqEmpty
<1>5. ASSUME NEW i \in 1..n, i - 1 \in T PROVE i \in T
    <2>1. G[i] = SubSeq(t, 1, i - 1) \o <<t[i]>>
        BY <1>3, <1>5
    <2>2. 1 \in 1..Len(t) /\ i \in 1..Len(t) /\ i \in 0..n
        BY <1>1
    <2>3. SubSeq(t, 1, i) = SubSeq(t, 1, i - 1) \o <<t[i]>>
        BY <2>2, SubSeqRecursiveSecond
    <2> QED BY <2>1, <2>2, <2>3
<1>6. \A i \in 0..n : i \in T
    <2> HIDE DEF T, n
    <2> QED BY <1>1, <1>4, <1>5, UpwardTo
<1>7. G[n] = SubSeq(t, 1, n)
    <2>1. n \in T
        <3> HIDE DEF T, n
        <3> QED BY <1>1, <1>6
    <2> QED BY <2>1
<1> QED BY <1>3, <1>7, SubSeqFull

\* Each of two texts put together is split by itself.
LEMMA SplitConcat ==
    ASSUME NEW A, NEW B, NEW kind, NEW s \in Seq(B), NEW t \in Seq(B),
           \A l \in B : One(l, kind) \in Seq(A)
    PROVE  Split(s \o t, kind) = Split(s, kind) \o Split(t, kind)
<1> DEFINE a == Len(s)
           b == Len(t)
           u == s \o t
<1>1. u \in Seq(B) /\ a \in Nat /\ b \in Nat /\ Len(u) = a + b
    BY ConcatProperties, LenProperties
<1>2. /\ \A i \in 1..a : u[i] = s[i] /\ s[i] \in B
      /\ \A j \in 1..b : u[a + j] = t[j] /\ t[j] \in B
    <2>1. \A i \in 1..(a + b) : u[i] = IF i <= a THEN s[i] ELSE t[i - a]
        BY ConcatProperties
    <2>2. \A i \in 1..a : i \in 1..(a + b) /\ i <= a
        BY <1>1
    <2>3. \A j \in 1..b : a + j \in 1..(a + b) /\ ~(a + j <= a) /\ a + j - a = j
        BY <1>1
    <2>4. \A i \in 1..a : s[i] \in B
        BY ElementOfSeq
    <2>5. \A j \in 1..b : t[j] \in B
        BY ElementOfSeq
    <2> HIDE DEF u, a, b
    <2>6. \A j \in 1..b : u[a + j] = t[j]
        <3> TAKE j \in 1..b
        <3> DEFINE i == a + j
        <3>1. i \in 1..(a + b) /\ ~(i <= a) /\ i - a = j
            BY <1>1
        <3> HIDE DEF i
        <3>2. u[i] = t[i - a]
            BY <2>1, <3>1
        <3> QED BY <3>1, <3>2 DEF i
    <2> QED BY <2>1, <2>2, <2>4, <2>5, <2>6
<1>3. \A r \in Seq(B) : \E G : Built(G, r, kind, A)
    BY SplitIs
<1>4. PICK U : Built(U, u, kind, A)
    BY <1>1, <1>3
<1>5. PICK S : Built(S, s, kind, A)
    BY <1>3
<1>6. PICK T : Built(T, t, kind, A)
    BY <1>3
<1>7. /\ U \in [0..(a + b) -> Seq(A)] /\ U[0] = <<>> /\ Split(u, kind) = U[a + b]
      /\ \A i \in 1..(a + b) : U[i] = U[i - 1] \o One(u[i], kind)
    BY <1>1, <1>4 DEF Built
<1>8. /\ S \in [0..a -> Seq(A)] /\ S[0] = <<>> /\ Split(s, kind) = S[a]
      /\ \A i \in 1..a : S[i] = S[i - 1] \o One(s[i], kind)
    BY <1>5 DEF Built
<1>9. /\ T \in [0..b -> Seq(A)] /\ T[0] = <<>> /\ Split(t, kind) = T[b]
      /\ \A j \in 1..b : T[j] = T[j - 1] \o One(t[j], kind)
    BY <1>6 DEF Built
<1> HIDE DEF a, b, u
<1> DEFINE M == {i \in 0..a : U[i] = S[i]}
           N == {j \in 0..b : U[a + j] = S[a] \o T[j]}
<1>10. 0 \in M /\ \A i \in 1..a : i - 1 \in M => i \in M
    <2>1. 0 \in M
        BY <1>1, <1>7, <1>8
    <2>2. ASSUME NEW i \in 1..a, i - 1 \in M PROVE i \in M
        <3>1. i \in 1..(a + b) /\ i \in 0..a /\ U[i - 1] = S[i - 1] /\ u[i] = s[i]
            BY <1>1, <1>2, <2>2
        <3>2. U[i] = U[i - 1] \o One(u[i], kind) /\ S[i] = S[i - 1] \o One(s[i], kind)
            BY <1>7, <1>8, <3>1
        <3> QED BY <3>1, <3>2
    <2> QED BY <2>1, <2>2
<1>11. U[a] = S[a]
    <2>1. \A i \in 0..a : i \in M
        <3> HIDE DEF M
        <3> QED BY <1>1, <1>10, UpwardTo
    <2>2. a \in 0..a
        BY <1>1
    <2> QED BY <2>1, <2>2
<1>12. 0 \in N
    <2>1. S[a] \in Seq(A) /\ a + 0 = a /\ 0 \in 0..b
        BY <1>1, <1>8
    <2>2. S[a] \o <<>> = S[a]
        BY <2>1, ConcatSimplifications
    <2> QED BY <1>9, <1>11, <2>1, <2>2
<1>13. ASSUME NEW j \in 1..b, j - 1 \in N PROVE j \in N
    <2>1. /\ j \in 0..b /\ j - 1 \in 0..b /\ a + j \in 1..(a + b) /\ (a + j) - 1 = a + (j - 1)
          /\ u[a + j] = t[j] /\ t[j] \in B /\ a \in 0..a
        BY <1>1, <1>2
    <2>2. U[a + j] = U[a + (j - 1)] \o One(t[j], kind)
        BY <1>7, <2>1
    <2>3. U[a + (j - 1)] = S[a] \o T[j - 1]
        BY <1>13
    <2>4. S[a] \in Seq(A) /\ T[j - 1] \in Seq(A) /\ One(t[j], kind) \in Seq(A)
        BY <1>8, <1>9, <2>1
    <2>5. (S[a] \o T[j - 1]) \o One(t[j], kind) = S[a] \o (T[j - 1] \o One(t[j], kind))
        <3> DEFINE X == S[a]
                   Y == T[j - 1]
                   Z == One(t[j], kind)
        <3>1. X \in Seq(A) /\ Y \in Seq(A) /\ Z \in Seq(A)
            BY <2>4
        <3> HIDE DEF X, Y, Z
        <3>2. (X \o Y) \o Z = X \o (Y \o Z)
            BY <3>1, ConcatAssociative, SMTT(30)
        <3> QED BY <3>2 DEF X, Y, Z
    <2>6. T[j] = T[j - 1] \o One(t[j], kind)
        BY <1>9
    <2> QED BY <2>1, <2>2, <2>3, <2>5, <2>6
<1>14. U[a + b] = S[a] \o T[b]
    <2>1. \A j \in 0..b : j \in N
        <3> HIDE DEF N
        <3> QED BY <1>1, <1>12, <1>13, UpwardTo
    <2>2. b \in 0..b
        BY <1>1
    <2> QED BY <2>1, <2>2
<1> QED BY <1>7, <1>8, <1>9, <1>14 DEF u

\* Lines that are neither headings nor fences change nothing of what is above.
LEMMA QuietTail ==
    ASSUME NEW s \in Seq(Piece), NEW q \in Seq(Piece),
           \A i \in 1..Len(q) : ~IsHead(q[i]) /\ ~Toggles(q[i])
    PROVE  Names(s \o q) = Names(s) /\ (Closed(s \o q) <=> Closed(s))
<1> DEFINE n == Len(q)
           Part(i) == s \o SubSeq(q, 1, i)
           T == {i \in 0..n : Names(Part(i)) = Names(s) /\ (Closed(Part(i)) <=> Closed(s))}
<1>1. n \in Nat /\ \A i \in 1..n : q[i] \in Piece
    BY LenProperties, ElementOfSeq
<1>2. 0 \in T
    <2>1. Part(0) = s
        BY SubSeqEmpty, ConcatSimplifications
    <2>2. 0 \in 0..n
        BY <1>1
    <2>3. Names(Part(0)) = Names(s) /\ (Closed(Part(0)) <=> Closed(s))
        BY <2>1
    <2> HIDE DEF n, Part
    <2> QED BY <2>2, <2>3
<1>3. ASSUME NEW i \in 1..n, i - 1 \in T PROVE i \in T
    <2> DEFINE P == SubSeq(q, 1, i - 1)
    <2>1. 1 \in 1..Len(q) /\ i \in 1..Len(q) /\ i \in 0..n /\ 1 \in Int /\ i - 1 \in Int
        BY <1>1
    <2>2. SubSeq(q, 1, i) = P \o <<q[i]>>
        BY <2>1, SubSeqRecursiveSecond
    <2>3. P \in Seq(Piece)
        <3>1. \A k \in 1..(i - 1) : q[k] \in Piece
            BY <1>1
        <3> QED BY <2>1, <3>1, SubSeqProperties
    <2>4. q[i] \in Piece /\ ~IsHead(q[i]) /\ ~Toggles(q[i])
        BY <1>1
    <2>5. Names(s \o P) = Names(s) /\ (Closed(s \o P) <=> Closed(s))
        BY <1>3
    <2> HIDE DEF P
    <2>6. s \o P \in Seq(Piece) /\ <<q[i]>> \in Seq(Piece)
        BY <2>3, <2>4, ConcatProperties
    <2>7. s \o (P \o <<q[i]>>) = (s \o P) \o <<q[i]>>
        BY <2>3, <2>6, Regroup, ZenonT(40)
    <2>8. /\ Names((s \o P) \o <<q[i]>>) = Names(s \o P)
          /\ Closed((s \o P) \o <<q[i]>>) <=> Closed(s \o P)
        BY <2>4, <2>6, NamesOne, ClosedOne
    <2> QED BY <2>1, <2>2, <2>5, <2>7, <2>8
<1>4. \A i \in 0..n : i \in T
    <2> HIDE DEF T, n
    <2> QED BY <1>1, <1>2, <1>3, UpwardTo
<1>5. n \in T
    <2> HIDE DEF T, n
    <2> QED BY <1>1, <1>4
<1> QED BY <1>5, SubSeqFull

\* A cut that is alike to both is no heading and no fence, and nor are its parts.
Mild(l) == l[1] = "cut" => \A j \in DOMAIN l[2] : l[2][j] # Hash /\ ~IsHead(l[2][j]) /\ ~Toggles(l[2][j])

LEMMA AlikeIs == \A t : Alike(t) <=> \A i \in DOMAIN t : Mild(t[i])
BY DEF Alike, Mild

LEMMA MildIs ==
    ASSUME NEW l \in Written, Mild(l), l[1] = "cut"
    PROVE  /\ ~IsHead(l) /\ ~Toggles(l) /\ l[2] \in Seq(Plain)
           /\ \A j \in 1..Len(l[2]) : ~IsHead(l[2][j]) /\ ~Toggles(l[2][j])
<1>1. Parts(l) = l[2] /\ l[2] \in Seq(Plain) /\ l[2][1] \in Plain /\ 1 \in DOMAIN l[2]
    BY PartsIs, PieceIs
<1>2. DOMAIN l[2] = 1..Len(l[2]) /\ \A j \in 1..Len(l[2]) : l[2][j] \in Plain
    BY <1>1, LenProperties, ElementOfSeq
<1>3. \A j \in 1..Len(l[2]) : l[2][j] # Hash /\ ~IsHead(l[2][j]) /\ ~Toggles(l[2][j])
    BY <1>2 DEF Mild
<1>4. ~IsHead(l)
    <2>1. l[2][1] # Hash /\ l[2][1][1] # "head"
        BY <1>1, <1>2, <1>3, PlainIs
    <2> QED BY <1>1, <2>1 DEF IsHead
<1>5. ~Toggles(l)
    <2>1. \A j \in 1..Len(l[2]) : ~(l[2][j][1] = "fence" /\ l[2][j][2] = 0)
        BY <1>2, <1>3, PlainIs
    <2> QED BY <1>1, <1>2, <2>1 DEF Toggles
<1> QED BY <1>1, <1>3, <1>4, <1>5

\* Taking cuts apart changes neither the names nor what is left open.
LEMMA SplitNames ==
    ASSUME NEW t \in Seq(Written), Alike(t)
    PROVE  Names(Split(t, "cut")) = Names(t) /\ (Closed(Split(t, "cut")) <=> Closed(t))
<1> DEFINE n == Len(t)
<1>1. \A l \in Written : One(l, "cut") \in Seq(Plain) /\ One(l, "cut") # <<>>
    BY OneParts
<1>2. PICK G \in [0..n -> Seq(Plain)] :
        /\ G[0] = <<>> /\ Split(t, "cut") = G[n]
        /\ \A i \in 1..n : G[i] = G[i - 1] \o One(t[i], "cut")
    <2>1. PICK G : Built(G, t, "cut", Plain)
        BY <1>1, SplitIs
    <2> QED BY <2>1 DEF Built
<1>3. n \in Nat /\ DOMAIN t = 1..n /\ \A i \in 1..n : t[i] \in Written /\ t[i] \in Piece
    BY LenProperties, ElementOfSeq, PieceIs
<1>4. \A i \in 1..n : Mild(t[i])
    BY <1>3, AlikeIs
<1> DEFINE Same(i) == /\ Names(G[i]) = Names(SubSeq(t, 1, i))
                      /\ Closed(G[i]) <=> Closed(SubSeq(t, 1, i))
           T == {i \in 0..n : Same(i)}
<1>6. 0 \in T
    <2>1. G[0] = SubSeq(t, 1, 0)
        BY <1>2, SubSeqEmpty
    <2>2. 0 \in 0..n
        BY <1>3
    <2>3. Same(0)
        BY <2>1
    <2> HIDE DEF n, Same
    <2> QED BY <2>2, <2>3
<1>7. ASSUME NEW i \in 1..n, i - 1 \in T PROVE i \in T
    <2> DEFINE P == SubSeq(t, 1, i - 1)
               Q == G[i - 1]
    <2>1. 1 \in 1..Len(t) /\ i \in 1..Len(t) /\ i \in 0..n /\ i - 1 \in 0..n
        BY <1>3
    <2>2. SubSeq(t, 1, i) = P \o <<t[i]>>
        BY <2>1, SubSeqRecursiveSecond
    <2>3. P \in Seq(Piece)
        <3>1. \A k \in 1..(i - 1) : t[k] \in Piece
            BY <1>3
        <3>2. 1 \in Int /\ i - 1 \in Int
            BY <1>3
        <3> QED BY <3>1, <3>2, SubSeqProperties
    <2>4. Q \in Seq(Piece)
        <3>1. Q \in Seq(Plain)
            BY <2>1
        <3> QED BY <3>1, PlainIsPiece
    <2>5. Names(Q) = Names(P) /\ (Closed(Q) <=> Closed(P))
        BY <1>7
    <2>6. t[i] \in Piece /\ t[i] \in Written /\ Mild(t[i])
        BY <1>3, <1>4
    <2>7. CASE t[i][1] # "cut"
        <3>1. G[i] = Q \o <<t[i]>>
            BY <1>2, <2>7 DEF One
        <3> HIDE DEF P, Q
        <3>2. Names(Q \o <<t[i]>>) = Names(P \o <<t[i]>>)
            BY <2>3, <2>4, <2>5, <2>6, NamesOne
        <3>3. Closed(Q \o <<t[i]>>) <=> Closed(P \o <<t[i]>>)
            BY <2>3, <2>4, <2>5, <2>6, ClosedOne
        <3> QED BY <2>1, <2>2, <3>1, <3>2, <3>3
    <2>8. CASE t[i][1] = "cut"
        <3> DEFINE q == t[i][2]
        <3>1. G[i] = Q \o q
            BY <1>2, <2>8 DEF One
        <3>2. /\ ~IsHead(t[i]) /\ ~Toggles(t[i]) /\ q \in Seq(Plain)
              /\ \A j \in 1..Len(q) : ~IsHead(q[j]) /\ ~Toggles(q[j])
            BY <2>6, <2>8, MildIs
        <3>3. q \in Seq(Piece)
            BY <3>2, PlainIsPiece
        <3> HIDE DEF P, Q, q
        <3>4. Names(Q \o q) = Names(Q) /\ (Closed(Q \o q) <=> Closed(Q))
            BY <2>4, <3>2, <3>3, QuietTail
        <3>5. Names(P \o <<t[i]>>) = Names(P) /\ (Closed(P \o <<t[i]>>) <=> Closed(P))
            BY <2>3, <2>6, <3>2, NamesOne, ClosedOne
        <3> QED BY <2>1, <2>2, <2>5, <3>1, <3>4, <3>5
    <2> QED BY <2>7, <2>8
<1>8. \A i \in 0..n : i \in T
    <2> HIDE DEF T, n
    <2> QED BY <1>3, <1>6, <1>7, UpwardTo
<1>9. Same(n)
    BY <1>3, <1>8
<1> QED BY <1>2, <1>9, SubSeqFull

LEMMA SubType ==
    ASSUME NEW A, NEW s \in Seq(A), NEW a \in Nat, a >= 1, NEW b \in Int, b <= Len(s)
    PROVE  /\ SubSeq(s, a, b) \in Seq(A)
           /\ Len(SubSeq(s, a, b)) = IF a <= b THEN b - a + 1 ELSE 0
           /\ \A i \in 1..(b - a + 1) : SubSeq(s, a, b)[i] = s[a + i - 1]
<1>1. \A i \in a..b : s[i] \in A
    BY LenProperties, ElementOfSeq
<1> QED BY <1>1, SubSeqProperties

LEMMA NoEndIs ==
    ASSUME NEW B, NEW t \in Seq(B), t # <<>>, Blank \in B
    PROVE  /\ NoEnd(t) \in Seq(B)
           /\ t[Len(t)] = Blank => t = NoEnd(t) \o <<Blank>>
           /\ t[Len(t)] # Blank => t = NoEnd(t)
           /\ \A i \in 1..Len(NoEnd(t)) : NoEnd(t)[i] = t[i]
<1> DEFINE n == Len(t)
<1>1. n \in Nat /\ n >= 1 /\ \A i \in 1..n : t[i] \in B
    <2>1. n \in Nat /\ n # 0
        BY LenProperties, EmptySeq, SMTT(30)
    <2> QED BY <2>1, ElementOfSeq
<1>2. CASE t[n] = Blank
    <2>1. NoEnd(t) = SubSeq(t, 1, n - 1)
        BY <1>2 DEF NoEnd, Last, Front
    <2>2. n - 1 \in Int /\ n - 1 <= Len(t) /\ 1 \in Nat /\ 1 >= 1
        BY <1>1
    <2>3. /\ NoEnd(t) \in Seq(B) /\ Len(NoEnd(t)) = n - 1
          /\ \A i \in 1..(n - 1) : NoEnd(t)[i] = t[i]
        <3> DEFINE m == n - 1
        <3>1. m \in Nat /\ m - 1 + 1 = m /\ m <= Len(t) /\ m \in Int /\ \A i \in Nat : 1 + i - 1 = i
            BY <1>1
        <3> HIDE DEF m, n
        <3>2. /\ SubSeq(t, 1, m) \in Seq(B)
              /\ Len(SubSeq(t, 1, m)) = IF 1 <= m THEN m - 1 + 1 ELSE 0
              /\ \A i \in 1..(m - 1 + 1) : SubSeq(t, 1, m)[i] = t[1 + i - 1]
            BY <2>2, <3>1, SubType
        <3>3. Len(SubSeq(t, 1, m)) = m
            BY <3>1, <3>2
        <3>4. \A i \in 1..m : SubSeq(t, 1, m)[i] = t[i]
            BY <3>1, <3>2
        <3> QED BY <2>1, <3>2, <3>3, <3>4 DEF m, n
    <2>4. t = SubSeq(t, 1, n - 1) \o <<t[n]>>
        <3>1. 1 \in 1..Len(t) /\ n \in 1..Len(t)
            BY <1>1
        <3>2. SubSeq(t, 1, n) = SubSeq(t, 1, n - 1) \o <<t[n]>>
            BY <3>1, SubSeqRecursiveSecond
        <3> QED BY <3>2, SubSeqFull
    <2>5. t = NoEnd(t) \o <<Blank>> /\ Len(t) = n
        BY <1>2, <2>1, <2>4, Zenon
    <2> HIDE DEF n
    <2> QED BY <1>2, <2>3, <2>5
<1>3. CASE t[n] # Blank
    BY <1>3 DEF NoEnd, Last
<1> QED BY <1>2, <1>3

LEMMA SplitLinesIs ==
    ASSUME NEW t \in Seq(Written), t # <<>>
    PROVE  /\ SplitLines(t) = NoEnd(Split(t, "cut")) /\ SplitLines(t) \in Seq(Plain)
           /\ Split(t, "cut") \in Seq(Plain) /\ Split(t, "cut") # <<>>
<1>1. Split(t, "cut") \in Seq(Plain) /\ Split(t, "cut") # <<>>
    BY SplitTypes
<1>2. SplitLines(t) = NoEnd(Split(t, "cut"))
    BY DEF SplitLines
<1> QED BY <1>1, <1>2, PieceIs, NoEndIs

\* The lines of a text that is alike to both have the names that the pieces have.
LEMMA LinesNames ==
    ASSUME NEW t \in Seq(Written), t # <<>>, Alike(t)
    PROVE  Names(SplitLines(t)) = Names(t) /\ (Closed(SplitLines(t)) <=> Closed(t))
<1> DEFINE u == Split(t, "cut")
           lines == SplitLines(t)
<1>1. Blank \in Plain /\ Blank \in Piece /\ ~IsHead(Blank) /\ ~Toggles(Blank)
    BY PieceIs
<1>2. lines = NoEnd(u) /\ lines \in Seq(Plain) /\ u \in Seq(Plain) /\ u # <<>>
    BY SplitLinesIs
<1>3. lines \in Seq(Piece)
    BY <1>2, PlainIsPiece
<1>4. Names(u) = Names(t) /\ (Closed(u) <=> Closed(t))
    BY SplitNames
<1> HIDE DEF u, lines
<1>5. u = lines \/ u = lines \o <<Blank>>
    BY <1>1, <1>2, NoEndIs
<1>6. Names(lines \o <<Blank>>) = Names(lines) /\ (Closed(lines \o <<Blank>>) <=> Closed(lines))
    BY <1>1, <1>3, NamesOne, ClosedOne
<1> QED BY <1>4, <1>5, <1>6 DEF lines

\* The first section of a name, as the edits find it
LEMMA FoundIs ==
    ASSUME NEW s \in Seq(Piece), NEW n, Found(s, n) # {}
    PROVE  \E p \in 1..Count(s) :
              /\ Bounds(s, n) = <<Starts(s)[p], Stop(s, Starts(s)[p])>>
              /\ NameOf(s[Starts(s)[p]]) = n
              /\ \A q \in 1..(p - 1) : NameOf(s[Starts(s)[q]]) # n
<1> DEFINE F == Found(s, n)
<1>1. F \in SUBSET Nat /\ \A x \in F : x \in Headers(s) /\ NameOf(s[x]) = n
    BY HeadersIs DEF Found
<1>2. PICK h \in F : h = Min(F) /\ \A y \in F : h <= y
    BY <1>1, MinIs
<1>3. PICK p \in 1..Count(s) : Starts(s)[p] = h
    BY <1>1, StartsIs
<1>4. Bounds(s, n) = <<h, Stop(s, h)>>
    BY <1>2, Zenon DEF Bounds, Stop
<1>5. ASSUME NEW q \in 1..(p - 1) PROVE NameOf(s[Starts(s)[q]]) # n
    <2> SUFFICES ASSUME NameOf(s[Starts(s)[q]]) = n PROVE FALSE
        OBVIOUS
    <2>1. Count(s) \in Nat /\ p \in 1..Count(s)
        BY StartsIs
    <2>2. q \in 1..Count(s) /\ q < p
        BY <2>1
    <2>3. Starts(s)[q] \in F /\ Starts(s)[q] < h
        BY <1>3, <2>2, StartsIs DEF Found
    <2>4. h <= Starts(s)[q] /\ h \in Nat /\ Starts(s)[q] \in Nat
        BY <1>1, <1>2, <2>3
    <2> QED BY <2>3, <2>4
<1> QED BY <1>1, <1>3, <1>4, <1>5

LEMMA StopIs ==
    ASSUME NEW s \in Seq(Piece), NEW h \in Headers(s)
    PROVE  /\ h \in Nat /\ h >= 1 /\ h <= Stop(s, h) /\ Stop(s, h) \in Nat
           /\ Stop(s, h) <= EndOf(s, h) /\ EndOf(s, h) \in Nat /\ EndOf(s, h) <= Len(s) /\ Len(s) \in Nat
           /\ \A k \in (Stop(s, h) + 1)..EndOf(s, h) : IsBlank(s[k])
           /\ Stop(s, h) = h \/ ~IsBlank(s[Stop(s, h)])
<1>1. Len(s) \in Nat /\ h \in Nat /\ h >= 1 /\ h <= Len(s)
    BY HeadersIs
<1>2. h \in 0..Len(s) /\ h \in 1..Len(s)
    BY <1>1
<1>3. EndOf(s, h) \in h..Len(s)
    BY <1>2, EndOfIs
<1>4. /\ Stop(s, h) \in h..EndOf(s, h)
      /\ \A k \in (Stop(s, h) + 1)..EndOf(s, h) : IsBlank(s[k])
      /\ Stop(s, h) = h \/ ~IsBlank(s[Stop(s, h)])
    BY <1>2, <1>3, TrimmedIs DEF Stop
<1> QED BY <1>1, <1>3, <1>4

(***************************************************************************)
(* Texts stay texts                                                        *)
(***************************************************************************)
LEMMA JoinedType ==
    ASSUME NEW s \in Seq(Plain)
    PROVE  Joined(s) \in Seq(Plain) /\ Joined(s) # <<>>
<1> DEFINE t == IF s = <<>> THEN <<Blank>> ELSE s
<1>1. Blank \in Plain
    BY PieceIs
<1>2. t \in Seq(Plain) /\ t # <<>>
    BY <1>1
<1>3. Joined(s) = IF Len(t) > 1 /\ Last(t) = Blank THEN t ELSE Append(t, Blank)
    BY Zenon DEF Joined
<1> HIDE DEF t
<1>4. Append(t, Blank) \in Seq(Plain) /\ Append(t, Blank) # <<>>
    BY <1>1, <1>2, AppendProperties
<1> QED BY <1>2, <1>3, <1>4

LEMMA AppendedType ==
    ASSUME NEW s \in Seq(Plain), NEW b \in Seq(Plain) PROVE Appended(s, b) \in Seq(Plain)
<1>1. Blank \in Plain
    BY PieceIs
<1>2. (IF s # <<>> /\ Last(s) # Blank THEN <<Blank>> ELSE <<>>) \in Seq(Plain)
    BY <1>1
<1> QED BY <1>2, ConcatProperties DEF Appended

LEMMA EditTypes ==
    ASSUME NEW s \in Seq(Plain), NEW n, Found(s, n) # {}, NEW b \in Seq(Plain)
    PROVE  Replaced(s, n, b) \in Seq(Plain) /\ Removed(s, n) \in Seq(Plain)
<1>0. s \in Seq(Piece)
    BY PlainIsPiece
<1>1. PICK p \in 1..Count(s) : Bounds(s, n) = <<Starts(s)[p], Stop(s, Starts(s)[p])>>
    BY <1>0, FoundIs
<1>2. PICK h \in Headers(s) : Bounds(s, n) = <<h, Stop(s, h)>>
    BY <1>0, <1>1, StartsIs
<1> DEFINE head == SubSeq(s, 1, h - 1)
           tail == SubSeq(s, Stop(s, h) + 1, Len(s))
<1>3. /\ h \in Nat /\ h >= 1 /\ h <= Stop(s, h) /\ Stop(s, h) \in Nat
      /\ Stop(s, h) <= Len(s) /\ Len(s) \in Nat
    BY <1>0, StopIs
<1>4. Bounds(s, n)[1] = h /\ Bounds(s, n)[2] = Stop(s, h)
    BY <1>2
<1>5. head \in Seq(Plain)
    BY <1>3, SubType
<1>6. tail \in Seq(Plain)
    BY <1>3, SubType
<1>7. Replaced(s, n, b) = (head \o b) \o tail
    BY <1>4, Zenon DEF Replaced
<1>8. Removed(s, n) = head \o (IF head # <<>> /\ tail # <<>> /\ Last(head) = Blank /\ tail[1] = Blank
                               THEN Tail(tail) ELSE tail)
    BY <1>4, Zenon DEF Removed
<1> HIDE DEF head, tail
<1>9. tail # <<>> => Tail(tail) \in Seq(Plain)
    BY <1>6, HeadTailProperties
<1> QED BY <1>5, <1>6, <1>7, <1>8, <1>9, ConcatProperties

LEMMA OneBlank == <<Blank>> \in Seq(Piece) /\ AllBlank(<<Blank>>) /\ Blank \in Piece /\ Blank \in Plain
<1>1. Blank \in Plain /\ Blank \in Piece /\ IsBlank(Blank)
    BY PieceIs
<1>2. DOMAIN <<Blank>> = {1} /\ <<Blank>>[1] = Blank
    OBVIOUS
<1> QED BY <1>1, <1>2 DEF AllBlank

\* Lines that are no delimiter of a code block, and stay none when the pieces of
\* a kind are taken apart
Bare == {l \in Piece : ~Toggles(l)}
Safe(kind) == {l \in Bare : l[1] = kind => \A j \in DOMAIN l[2] : ~Toggles(l[2][j])}

LEMMA BareIs == Bare \subseteq Piece /\ Line \in Bare /\ \A l \in Piece : ~Toggles(l) => l \in Bare
BY PieceIs DEF Bare

\* Backslashes in front of a plain line
LEMMA SlashedPlain ==
    ASSUME NEW l \in Plain, l[1] \in {"fence", "blank", "space"}, NEW k \in Int, l[2] + k \in Nat
    PROVE  LET m == [l EXCEPT ![2] = @ + k]
           IN  /\ m \in Plain /\ m[1] = l[1] /\ m[2] = l[2] + k /\ l[2] \in Nat
               /\ l[2] + k # 0 => ~Toggles(m) /\ m \notin {Blank, Space}
               /\ [m EXCEPT ![2] = l[2]] = l
<1> DEFINE m == [l EXCEPT ![2] = @ + k]
<1>1. \/ \E n \in Nat : l = <<"blank", n>>
      \/ \E n \in Nat : l = <<"space", n>>
      \/ \E n \in Nat, f \in SUBSET Flags : l = <<"fence", n, f>>
    BY DEF Plain, Line, Hash
<1>2. CASE \E n \in Nat : l = <<"blank", n>>
    <2>1. PICK n \in Nat : l = <<"blank", n>>
        BY <1>2
    <2>2. m = <<"blank", n + k>> /\ l[2] = n
        BY <2>1
    <2>3. m \in Plain /\ m[1] = l[1] /\ m[2] = l[2] + k /\ l[2] \in Nat
        BY <2>1, <2>2 DEF Plain
    <2>4. [m EXCEPT ![2] = l[2]] = l
        BY <2>1, <2>2
    <2>5. l[2] + k # 0 => m \notin {Blank, Space}
        BY <2>2 DEF Blank, Space
    <2>6. ~Toggles(m)
        <3>1. m[1] # "fence"
            BY <2>1, <2>2
        <3> HIDE DEF m
        <3> QED BY <2>3, <3>1, PlainIs
    <2> QED BY <2>3, <2>4, <2>5, <2>6
<1>3. CASE \E n \in Nat : l = <<"space", n>>
    <2>1. PICK n \in Nat : l = <<"space", n>>
        BY <1>3
    <2>2. m = <<"space", n + k>> /\ l[2] = n
        BY <2>1
    <2>3. m \in Plain /\ m[1] = l[1] /\ m[2] = l[2] + k /\ l[2] \in Nat
        BY <2>1, <2>2 DEF Plain
    <2>4. [m EXCEPT ![2] = l[2]] = l
        BY <2>1, <2>2
    <2>5. l[2] + k # 0 => m \notin {Blank, Space}
        BY <2>2 DEF Blank, Space
    <2>6. ~Toggles(m)
        <3>1. m[1] # "fence"
            BY <2>1, <2>2
        <3> HIDE DEF m
        <3> QED BY <2>3, <3>1, PlainIs
    <2> QED BY <2>3, <2>4, <2>5, <2>6
<1>4. CASE \E n \in Nat, f \in SUBSET Flags : l = <<"fence", n, f>>
    <2>1. PICK n \in Nat, f \in SUBSET Flags : l = <<"fence", n, f>>
        BY <1>4
    <2>2. m = <<"fence", n + k, f>> /\ l[2] = n
        BY <2>1
    <2>3. m \in Plain /\ m[1] = l[1] /\ m[2] = l[2] + k /\ l[2] \in Nat
        BY <2>1, <2>2 DEF Plain
    <2>4. [m EXCEPT ![2] = l[2]] = l
        BY <2>1, <2>2
    <2>5. m \notin {Blank, Space}
        BY <2>2 DEF Blank, Space
    <2>6. l[2] + k # 0 => ~Toggles(m)
        BY <2>2, <2>3, PlainIs
    <2> QED BY <2>3, <2>4, <2>5, <2>6
<1> QED BY <1>1, <1>2, <1>3, <1>4

\* Escape, of a piece that looks like a fence: a backslash on its first part
LEMMA SlashedIs ==
    ASSUME NEW l \in Piece, Parts(l)[1][1] \in {"fence", "blank", "space"}, NEW k \in Int, Parts(l)[1][2] + k \in Nat
    PROVE  LET e == Slashed(l, k)
               p == Parts(l)
           IN  /\ e \in Piece /\ e[1] = l[1]
               /\ Parts(e) = [p EXCEPT ![1] = [p[1] EXCEPT ![2] = @ + k]]
               /\ DOMAIN Parts(e) = DOMAIN p /\ Len(Parts(e)) = Len(p)
               /\ l[1] \in {"cut", "cr"} => e = <<l[1], Parts(e)>>
               /\ l[1] \notin {"cut", "cr"} => e = Parts(e)[1]
<1> DEFINE e == Slashed(l, k)
           p == Parts(l)
           m == [p[1] EXCEPT ![2] = @ + k]
           r == [p EXCEPT ![1] = m]
<1>1. /\ p \in Seq(Plain) /\ p # <<>> /\ p[1] \in Plain /\ 1 \in DOMAIN p
      /\ l[1] \notin {"cut", "cr"} => l \in Plain
      /\ l[1] \in {"cut", "cr"} => p = l[2]
      /\ l[1] # "cr" => l \in Written
      /\ l[1] = "cut" => Len(l[2]) > 1
    BY PartsIs
<1>2. m \in Plain /\ m[1] = p[1][1]
    BY <1>1, SlashedPlain
<1>3. e = IF l[1] \in {"cut", "cr"} THEN <<l[1], r>> ELSE r[1]
    BY Zenon DEF Slashed
<1> HIDE DEF p, m
<1>4. r \in Seq(Plain) /\ DOMAIN r = DOMAIN p /\ Len(r) = Len(p) /\ r # <<>> /\ r[1] = m
    <2>1. Len(p) \in Nat /\ DOMAIN p = 1..Len(p)
        BY <1>1, LenProperties
    <2>2. p \in [1..Len(p) -> Plain]
        BY <1>1, LenProperties
    <2>3. r \in [1..Len(p) -> Plain] /\ DOMAIN r = 1..Len(p) /\ r[1] = m
        BY <1>1, <1>2, <2>2
    <2> HIDE DEF r
    <2>4. r \in Seq(Plain)
        BY <2>1, <2>3, SeqDef
    <2>5. Len(r) = Len(p)
        BY <2>1, <2>3, <2>4, LenProperties
    <2>6. r # <<>>
        BY <1>1, <2>4, <2>5, EmptySeq
    <2> QED BY <2>1, <2>3, <2>4, <2>5, <2>6
<1> HIDE DEF r
<1>5. CASE l[1] \in {"cut", "cr"}
    <2>1. e = <<l[1], r>> /\ e[1] = l[1] /\ e[2] = r
        BY <1>3, <1>5
    <2> HIDE DEF e
    <2>2. Parts(e) = r
        BY <1>5, <2>1 DEF Parts
    <2>3. l[1] = "cut" => Len(r) > 1
        BY <1>1, <1>4, <1>5
    <2>4. e \in Piece
        BY <1>4, <1>5, <2>1, <2>3 DEF Piece, Written
    <2> QED BY <1>4, <1>5, <2>1, <2>2, <2>3, <2>4 DEF e, p, m, r
<1>6. CASE l[1] \notin {"cut", "cr"}
    <2>1. l \in Plain /\ p = <<l>>
        BY <1>1, <1>6, PlainIs DEF p
    <2>2. e = m /\ m[1] = l[1]
        BY <1>2, <1>3, <1>4, <1>6, <2>1
    <2>3. e \in Plain /\ e \in Piece
        BY <1>2, <2>2, PieceIs
    <2>4. Parts(e) = <<m>>
        BY <2>2, <2>3, PlainIs
    <2>5. r = <<m>>
        BY <2>1 DEF r
    <2> HIDE DEF e
    <2> QED BY <1>4, <1>6, <2>2, <2>3, <2>4, <2>5 DEF e, p, m, r
<1> QED BY <1>5, <1>6

LEMMA FenceFirst ==
    ASSUME NEW l \in Piece
    PROVE  /\ IsFence(l) => Parts(l)[1][1] \in {"fence", "blank", "space"} /\ Parts(l)[1][2] \in Nat
           /\ Toggles(l) => IsFence(l)
<1> DEFINE p == Parts(l)
<1>1. p \in Seq(Plain) /\ p[1] \in Plain /\ 1 \in DOMAIN p /\ DOMAIN p = 1..Len(p) /\ Len(p) \in Nat
    BY PartsIs, LenProperties
<1>2. \A i \in DOMAIN p : p[i] \in Plain
    BY <1>1, ElementOfSeq
<1>3. p[1][1] \in {"fence", "blank", "space"} => p[1][2] \in Nat
    BY <1>1 DEF Plain, Line, Hash
<1>4. IsFence(l) => p[1][1] \in {"fence", "blank", "space"}
    BY DEF IsFence
<1>5. ASSUME Toggles(l) PROVE IsFence(l)
    <2>1. PICK i \in DOMAIN p : p[i][1] = "fence" /\ p[i][2] = 0 /\ \A j \in 1..(i - 1) : p[j] \in {Blank, Space}
        BY <1>5, Zenon DEF Toggles
    <2> HIDE DEF p
    <2>2. CASE i = 1
        BY <2>1, <2>2 DEF IsFence, p
    <2>3. CASE i # 1
        <3>1. i \in 2..Len(p) /\ 1 \in 1..(i - 1) /\ \A j \in 2..(i - 1) : j \in 1..(i - 1) /\ j \in DOMAIN p
            BY <1>1, <2>3
        <3>2. p[1][1] \in {"blank", "space"}
            BY <2>1, <3>1 DEF Blank, Space
        <3>3. Toggles(p[i])
            BY <1>2, <2>1, PlainIs
        <3>4. \A j \in 2..(i - 1) : IsBlank(p[j])
            BY <1>2, <2>1, <3>1, PlainIs
        <3> QED BY <3>1, <3>2, <3>3, <3>4, Zenon DEF IsFence, p
    <2> QED BY <2>2, <2>3
<1> QED BY <1>3, <1>4, <1>5

LEMMA EscapeIs ==
    ASSUME NEW l \in Piece
    PROVE  /\ Escape(l) \in Bare /\ Escape(l)[1] = l[1] /\ Unescape(Escape(l)) = l
           /\ ~IsFence(l) => Escape(l) = l
           /\ (l[1] = "cr" => \A j \in DOMAIN l[2] : ~Toggles(l[2][j]))
                => Escape(l) \in Safe("cr")
<1> DEFINE e == Escape(l)
           p == Parts(l)
           m == [p[1] EXCEPT ![2] = @ + 1]
<1>1. CASE IsFence(l)
    <2>1. p[1][1] \in {"fence", "blank", "space"} /\ p[1][2] \in Nat
        BY <1>1, FenceFirst
    <2>2. p[1][2] + 1 \in Nat /\ 1 \in Int /\ p[1][2] + 1 > 0 /\ p[1][2] + 1 # 0
        BY <2>1
    <2>3. e = Slashed(l, 1)
        BY <1>1 DEF Escape
    <2>4. /\ e \in Piece /\ e[1] = l[1] /\ Parts(e) = [p EXCEPT ![1] = m]
          /\ DOMAIN Parts(e) = DOMAIN p /\ Len(Parts(e)) = Len(p)
          /\ l[1] \in {"cut", "cr"} => e = <<l[1], Parts(e)>>
          /\ l[1] \notin {"cut", "cr"} => e = Parts(e)[1]
        BY <2>1, <2>2, <2>3, SlashedIs
    <2>5. /\ p \in Seq(Plain) /\ p[1] \in Plain /\ 1 \in DOMAIN p /\ DOMAIN p = 1..Len(p) /\ Len(p) \in Nat
          /\ l[1] \in {"cut", "cr"} => p = l[2]
          /\ l[1] \notin {"cut", "cr"} => l \in Plain
        BY PartsIs, LenProperties
    <2>6. /\ m \in Plain /\ m[1] = p[1][1] /\ m[2] = p[1][2] + 1 /\ ~Toggles(m) /\ m \notin {Blank, Space}
          /\ [m EXCEPT ![2] = p[1][2]] = p[1]
        BY <2>1, <2>2, <2>5, SlashedPlain, SMTT(30)
    <2> HIDE DEF e, p, m
    <2>7. Parts(e)[1] = m /\ \A i \in DOMAIN p : i # 1 => Parts(e)[i] = p[i]
        BY <2>4, <2>5
    <2>8. ~Toggles(e)
        <3>1. ~(m[1] = "fence" /\ m[2] = 0)
            BY <2>2, <2>6
        <3>2. ASSUME NEW i \in DOMAIN Parts(e), Parts(e)[i][1] = "fence", Parts(e)[i][2] = 0,
                     \A j \in 1..(i - 1) : Parts(e)[j] \in {Blank, Space}
              PROVE  FALSE
            <4>1. i # 1
                BY <2>7, <3>1, <3>2
            <4>2. 1 \in 1..(i - 1)
                BY <2>4, <2>5, <4>1
            <4> QED BY <2>6, <2>7, <3>2, <4>2
        <3> QED BY <3>2 DEF Toggles
    <2>9. Unescape(e) = l
        <3>1. IsFence(e)
            <4>1. CASE p[1][1] = "fence"
                BY <2>6, <2>7, <4>1 DEF IsFence
            <4>2. CASE p[1][1] # "fence"
                <5>1. PICK i \in 2..Len(p) : Toggles(p[i]) /\ \A j \in 2..(i - 1) : IsBlank(p[j])
                    BY <1>1, <4>2 DEF IsFence, p
                <5>2. /\ i \in DOMAIN p /\ i # 1 /\ i \in 2..Len(Parts(e))
                      /\ \A j \in 2..(i - 1) : j \in DOMAIN p /\ j # 1
                    BY <2>4, <2>5, <5>1
                <5>3. Toggles(Parts(e)[i]) /\ \A j \in 2..(i - 1) : IsBlank(Parts(e)[j])
                    BY <2>7, <5>1, <5>2
                <5>4. Parts(e)[1][1] \in {"blank", "space"}
                    BY <2>1, <2>6, <2>7, <4>2
                <5> QED BY <5>2, <5>3, <5>4, Zenon DEF IsFence
            <4> QED BY <4>1, <4>2
        <3>2. Parts(e)[1][2] > 0
            BY <2>2, <2>6, <2>7
        <3>3. Unescape(e) = Slashed(e, -1)
            BY <3>1, <3>2 DEF Unescape
        <3>4. /\ Parts(e)[1][1] \in {"fence", "blank", "space"} /\ Parts(e)[1][2] = p[1][2] + 1
              /\ -1 \in Int /\ Parts(e)[1][2] + (-1) = p[1][2] /\ Parts(e)[1][2] + (-1) \in Nat
            BY <2>1, <2>6, <2>7
        <3> DEFINE u == Slashed(e, -1)
        <3>5. /\ Parts(u) = [Parts(e) EXCEPT ![1] = [Parts(e)[1] EXCEPT ![2] = @ + (-1)]]
              /\ e[1] \in {"cut", "cr"} => u = <<e[1], Parts(u)>>
              /\ e[1] \notin {"cut", "cr"} => u = Parts(u)[1]
            BY <2>4, <3>4, SlashedIs
        <3>6. [Parts(e)[1] EXCEPT ![2] = @ + (-1)] = p[1]
            <4>1. [m EXCEPT ![2] = @ + (-1)] = [m EXCEPT ![2] = p[1][2]]
                BY <2>7, <3>4
            <4> QED BY <2>6, <2>7, <4>1
        <3> HIDE DEF u
        <3>7. Parts(u) = p
            <4>1. Parts(u) = [Parts(e) EXCEPT ![1] = p[1]]
                BY <3>5, <3>6, Zenon
            <4>2. p \in [1..Len(p) -> Plain]
                BY <2>5, LenProperties
            <4>3. Parts(e) = [p EXCEPT ![1] = m]
                BY <2>4
            <4>4. [[p EXCEPT ![1] = m] EXCEPT ![1] = p[1]] = p
                BY <4>2
            <4> QED BY <4>1, <4>3, <4>4, Zenon
        <3>8. u = l
            <4>1. CASE l[1] \in {"cut", "cr"}
                <5>1. l = <<l[1], l[2]>>
                    <6>1. \/ \E q \in Seq(Plain) : l = <<"cut", q>>
                          \/ \E q \in Seq(Plain) : l = <<"cr", q>>
                        BY <4>1, PlainIs DEF Piece, Written
                    <6> QED BY <6>1
                <5> QED BY <2>4, <2>5, <3>5, <3>7, <4>1, <5>1
            <4>2. CASE l[1] \notin {"cut", "cr"}
                <5>1. p[1] = l
                    BY <2>5, <4>2, PlainIs DEF p
                <5> QED BY <2>4, <3>5, <3>7, <4>2, <5>1
            <4> QED BY <4>1, <4>2
        <3> QED BY <3>3, <3>8 DEF u
    <2>10. e \in Bare
        BY <2>4, <2>8, BareIs
    <2>11. ASSUME l[1] = "cr" => \A j \in DOMAIN l[2] : ~Toggles(l[2][j]), l[1] = "cr"
           PROVE  \A j \in DOMAIN e[2] : ~Toggles(e[2][j])
        <3>1. e[2] = Parts(e) /\ p = l[2]
            BY <2>4, <2>5, <2>11
        <3>2. \A j \in DOMAIN p : ~Toggles(p[j])
            BY <2>11, <3>1
        <3>3. \A j \in DOMAIN Parts(e) : ~Toggles(Parts(e)[j])
            BY <2>4, <2>6, <2>7, <3>2
        <3> QED BY <3>1, <3>3
    <2>12. (l[1] = "cr" => \A j \in DOMAIN l[2] : ~Toggles(l[2][j])) => e \in Safe("cr")
        BY <2>4, <2>10, <2>11 DEF Safe
    <2> QED BY <1>1, <2>4, <2>9, <2>10, <2>12 DEF e
<1>2. CASE ~IsFence(l)
    <2>1. Escape(l) = l /\ Unescape(l) = l
        BY <1>2 DEF Escape, Unescape
    <2>2. ~Toggles(l)
        BY <1>2, FenceFirst
    <2>3. l \in Bare
        BY <2>2, BareIs
    <2>4. (l[1] = "cr" => \A j \in DOMAIN l[2] : ~Toggles(l[2][j])) => l \in Safe("cr")
        BY <2>3 DEF Safe
    <2> QED BY <2>1, <2>3, <2>4
<1> QED BY <1>1, <1>2

\* What _pack_section makes of a file: its last line end, the lines it writes
\* out, what the opening fence says.
LastEnds(c) == Len(c.pieces) > 1 /\ Last(c.pieces) = Blank
Uncut(c) == IF LastEnds(c) THEN Front(c.pieces) ELSE c.pieces
LinesOf(c) == IF Uncut(c) = <<Blank>> THEN <<>> ELSE Uncut(c)
FlagsOf(c) ==
    (IF c.eol \in {"crlf", "mixed"} THEN {"crlf"} ELSE {})
    \union (IF ~LastEnds(c) /\ c.pieces # <<Blank>> THEN {"noeol"} ELSE {})
    \union (IF \E i \in DOMAIN LinesOf(c) : IsFence(LinesOf(c)[i]) THEN {"esc"} ELSE {})
Escaped(s) == [i \in DOMAIN s |-> Escape(s[i])]

LEMMA CodedIs ==
    \A c : Coded(c) = <<Fence(0, FlagsOf(c))>> \o Escaped(LinesOf(c)) \o <<Fence(0, {})>>
BY Zenon DEF Coded, FlagsOf, Escaped, LinesOf, Uncut, LastEnds

LEMMA LinesOfIs ==
    ASSUME NEW c \in Contents
    PROVE  /\ c.pieces \in Seq(Piece) /\ c.pieces # <<>> /\ Len(c.pieces) \in Nat /\ Len(c.pieces) >= 1
           /\ LinesOf(c) \in Seq(Piece)
           /\ \A i \in DOMAIN LinesOf(c) : i \in DOMAIN c.pieces /\ LinesOf(c)[i] = c.pieces[i]
           /\ LastEnds(c) => c.pieces = Front(c.pieces) \o <<Blank>>
<1>1. c.pieces \in Seq(Piece) /\ c.pieces # <<>> /\ Len(c.pieces) \in Nat /\ Len(c.pieces) >= 1
    <2>1. c.pieces \in Seq(Piece) /\ c.pieces # <<>>
        BY ContentsAssumption
    <2>2. Len(c.pieces) \in Nat /\ (Len(c.pieces) = 0 <=> c.pieces = <<>>)
        BY <2>1, LenProperties, EmptySeq
    <2> QED BY <2>1, <2>2
<1> DEFINE k == Len(c.pieces)
<1>2. DOMAIN c.pieces = 1..k
    BY <1>1, LenProperties
<1>3. /\ Front(c.pieces) \in Seq(Piece) /\ Len(Front(c.pieces)) = k - 1
      /\ \A i \in 1..(k - 1) : Front(c.pieces)[i] = c.pieces[i]
    <2>1. 1 \in Nat /\ 1 >= 1 /\ k - 1 \in Int /\ k - 1 <= k
        BY <1>1
    <2>2. /\ SubSeq(c.pieces, 1, k - 1) \in Seq(Piece)
          /\ Len(SubSeq(c.pieces, 1, k - 1)) = IF 1 <= k - 1 THEN (k - 1) - 1 + 1 ELSE 0
          /\ \A i \in 1..((k - 1) - 1 + 1) : SubSeq(c.pieces, 1, k - 1)[i] = c.pieces[1 + i - 1]
        BY <1>1, <2>1, SubType
    <2>3. (IF 1 <= k - 1 THEN (k - 1) - 1 + 1 ELSE 0) = k - 1 /\ (k - 1) - 1 + 1 = k - 1
        BY <1>1
    <2>4. \A i \in 1..(k - 1) : 1 + i - 1 = i
        OBVIOUS
    <2> QED BY <2>2, <2>3, <2>4 DEF Front
<1>4. DOMAIN Front(c.pieces) = 1..(k - 1)
    BY <1>3, LenProperties
<1>5. /\ Uncut(c) \in Seq(Piece) /\ \A i \in DOMAIN Uncut(c) : i \in 1..k /\ Uncut(c)[i] = c.pieces[i]
    <2>1. CASE LastEnds(c)
        BY <1>1, <1>3, <1>4, <2>1 DEF Uncut
    <2>2. CASE ~LastEnds(c)
        BY <1>1, <1>2, <2>2 DEF Uncut
    <2> QED BY <2>1, <2>2
<1>6. LinesOf(c) \in Seq(Piece) /\ \A i \in DOMAIN LinesOf(c) : i \in 1..k /\ LinesOf(c)[i] = c.pieces[i]
    <2>1. CASE Uncut(c) = <<Blank>>
        <3>1. LinesOf(c) = <<>> /\ DOMAIN <<>> = 1..0 /\ <<>> \in Seq(Piece)
            BY <2>1, EmptySeq DEF LinesOf
        <3> QED BY <3>1
    <2>2. CASE Uncut(c) # <<Blank>>
        BY <1>5, <2>2 DEF LinesOf
    <2> QED BY <2>1, <2>2
<1>7. ASSUME LastEnds(c) PROVE c.pieces = Front(c.pieces) \o <<Blank>>
    <2>1. c.pieces[k] = Blank
        BY <1>7 DEF LastEnds, Last
    <2>2. Blank \in Piece /\ <<Blank>> \in Seq(Piece) /\ Len(<<Blank>>) = 1 /\ <<Blank>>[1] = Blank
        BY OneBlank
    <2> DEFINE d == Front(c.pieces) \o <<Blank>>
    <2>3. d \in Seq(Piece) /\ Len(d) = (k - 1) + 1
        BY <1>3, <2>2, ConcatProperties
    <2>4. ASSUME NEW i \in 1..k PROVE d[i] = c.pieces[i]
        <3>0. \A j \in 1..(Len(Front(c.pieces)) + Len(<<Blank>>)) :
                d[j] = IF j <= Len(Front(c.pieces)) THEN Front(c.pieces)[j]
                       ELSE <<Blank>>[j - Len(Front(c.pieces))]
            BY <1>3, <2>2, ConcatProperties
        <3>1. CASE i = k
            <4>1. /\ i \in 1..(Len(Front(c.pieces)) + Len(<<Blank>>)) /\ ~(i <= Len(Front(c.pieces)))
                  /\ i - Len(Front(c.pieces)) = 1
                BY <1>1, <1>3, <2>2, <3>1
            <4>2. d[i] = <<Blank>>[1]
                BY <3>0, <4>1
            <4> QED BY <2>1, <2>2, <3>1, <4>2, Zenon
        <3>2. CASE i # k
            <4>1. i \in 1..(k - 1)
                BY <1>1, <3>2
            <4>2. i \in 1..(Len(Front(c.pieces)) + Len(<<Blank>>)) /\ i <= Len(Front(c.pieces))
                BY <1>1, <1>3, <2>2, <4>1
            <4>3. d[i] = Front(c.pieces)[i]
                BY <3>0, <4>2
            <4>4. Front(c.pieces)[i] = c.pieces[i]
                BY <1>3, <4>1
            <4> QED BY <4>3, <4>4, Zenon
        <3> QED BY <3>1, <3>2
    <2>5. Len(d) = k
        BY <1>1, <2>3
    <2> QED BY <1>1, <2>3, <2>4, <2>5, SeqEqual
<1> QED BY <1>1, <1>2, <1>6, <1>7

LEMMA EscapedIs ==
    ASSUME NEW s \in Seq(Piece)
    PROVE  /\ Escaped(s) \in Seq(Bare) /\ Escaped(s) \in Seq(Piece) /\ Len(Escaped(s)) = Len(s)
           /\ Len(s) \in Nat /\ DOMAIN s = 1..Len(s) /\ \A i \in 1..Len(s) : Escaped(s)[i] = Escape(s[i])
           /\ \A i \in 1..Len(s) : s[i] \in Piece
<1>1. Len(s) \in Nat /\ DOMAIN s = 1..Len(s) /\ \A i \in 1..Len(s) : s[i] \in Piece
    BY LenProperties, ElementOfSeq
<1>2. \A i \in 1..Len(s) : Escape(s[i]) \in Bare
    BY <1>1, EscapeIs
<1>3. Escaped(s) \in [1..Len(s) -> Bare] /\ \A i \in 1..Len(s) : Escaped(s)[i] = Escape(s[i])
    BY <1>1, <1>2 DEF Escaped
<1>4. Escaped(s) \in Seq(Bare) /\ Len(Escaped(s)) = Len(s)
    <2>1. Escaped(s) \in Seq(Bare)
        BY <1>1, <1>3, SeqDef
    <2>2. Len(Escaped(s)) \in Nat /\ DOMAIN Escaped(s) = 1..Len(Escaped(s)) /\ DOMAIN Escaped(s) = 1..Len(s)
        BY <1>3, <2>1, LenProperties
    <2>3. Len(Escaped(s)) <= Len(s) /\ Len(s) <= Len(Escaped(s))
        BY <1>1, <2>2
    <2>4. Len(Escaped(s)) = Len(s)
        <3> DEFINE a == Len(Escaped(s))
                   b == Len(s)
        <3>1. a \in Nat /\ b \in Nat /\ a <= b /\ b <= a
            BY <1>1, <2>2, <2>3
        <3> HIDE DEF a, b
        <3>2. a = b
            BY <3>1
        <3> QED BY <3>2 DEF a, b
    <2> QED BY <2>1, <2>4
<1>5. Escaped(s) \in Seq(Piece)
    <2>1. Bare \subseteq Piece
        BY DEF Bare
    <2>2. Escaped(s) \in [1..Len(s) -> Piece]
        BY <1>3, <2>1
    <2> QED BY <1>1, <2>2, SeqDef
<1> QED BY <1>1, <1>3, <1>4, <1>5

\* A code block: two fences, and no other in between
CodeBlock(L) ==
    \E o \in Plain, M \in Seq(Bare), e \in Plain :
        Toggles(o) /\ Toggles(e) /\ L = <<o>> \o (M \o <<e>>)

LEMMA CodedBlock ==
    ASSUME NEW c \in Contents
    PROVE  /\ Coded(c) = <<Fence(0, FlagsOf(c))>> \o (Escaped(LinesOf(c)) \o <<Fence(0, {})>>)
           /\ Coded(c) \in Seq(Piece) /\ CodeBlock(Coded(c))
<1> DEFINE o == Fence(0, FlagsOf(c))
           e == Fence(0, {})
           M == Escaped(LinesOf(c))
<1>1. M \in Seq(Bare) /\ M \in Seq(Piece)
    BY LinesOfIs, EscapedIs
<1>2. FlagsOf(c) \in SUBSET Flags /\ {} \in SUBSET Flags /\ 0 \in Nat
    BY DEF FlagsOf, Flags
<1>3. o \in Plain /\ e \in Plain /\ Toggles(o) /\ Toggles(e) /\ o \in Piece /\ e \in Piece
    <2>1. o \in Plain /\ e \in Plain
        BY <1>2 DEF Fence, Plain
    <2>2. o[1] = "fence" /\ o[2] = 0 /\ e[1] = "fence" /\ e[2] = 0
        BY DEF Fence
    <2> HIDE DEF o, e
    <2> QED BY <2>1, <2>2, PlainIs, PieceIs
<1>4. Coded(c) = <<o>> \o M \o <<e>>
    BY CodedIs
<1> HIDE DEF o, e, M
<1>5. <<o>> \in Seq(Piece) /\ <<e>> \in Seq(Piece)
    BY <1>3
<1>6. Coded(c) = <<o>> \o (M \o <<e>>)
    BY <1>1, <1>4, <1>5, Regroup, Zenon
<1>7. M \o <<e>> \in Seq(Piece)
    BY <1>1, <1>5, ConcatProperties
<1>8. Coded(c) \in Seq(Piece)
    BY <1>5, <1>6, <1>7, ConcatProperties
<1>9. CodeBlock(Coded(c))
    BY <1>1, <1>3, <1>6 DEF CodeBlock
<1> QED BY <1>6, <1>8, <1>9 DEF o, e, M

\* Taking apart the pieces of a kind, in texts put together
Kinds == {"cut", "cr"}

LEMMA SplitPieces ==
    ASSUME NEW kind \in Kinds
    PROVE  /\ \A p \in Seq(Piece) : Split(p, kind) \in Seq(Piece)
           /\ \A p, q \in Seq(Piece) : Split(p \o q, kind) = Split(p, kind) \o Split(q, kind)
           /\ \A l \in Plain : Split(<<l>>, kind) = <<l>>
<1>1. ASSUME NEW l \in Piece PROVE One(l, kind) \in Seq(Piece) /\ One(l, kind) # <<>>
    <2>1. /\ Parts(l) \in Seq(Plain) /\ Parts(l) # <<>>
          /\ l[1] \in {"cut", "cr"} => Parts(l) = l[2]
        BY PartsIs
    <2>2. Parts(l) \in Seq(Piece)
        BY <2>1, PlainIsPiece
    <2>3. <<l>> # <<>> /\ <<l>> \in Seq(Piece)
        OBVIOUS
    <2> QED BY <2>1, <2>2, <2>3 DEF One, Kinds
<1>2. \A p \in Seq(Piece) : Split(p, kind) \in Seq(Piece)
    BY <1>1, SplitType
<1>3. \A p, q \in Seq(Piece) : Split(p \o q, kind) = Split(p, kind) \o Split(q, kind)
    BY <1>1, SplitConcat
<1>4. ASSUME NEW l \in Plain PROVE Split(<<l>>, kind) = <<l>>
    <2>1. <<l>> \in Seq(Plain) /\ Len(<<l>>) = 1 /\ <<l>>[1] = l
        OBVIOUS
    <2>2. l[1] # kind
        BY PlainIs DEF Kinds
    <2>3. \A i \in 1..Len(<<l>>) : <<l>>[i][1] # kind
        BY <2>1, <2>2
    <2> QED BY <2>1, <2>3, SplitSame
<1> QED BY <1>2, <1>3, <1>4

\* Lines between two others
Between(l, M, k) == <<l>> \o (M \o <<k>>)

LEMMA SplitBetween ==
    ASSUME NEW kind \in Kinds, NEW l \in Plain, NEW k \in Plain, NEW M \in Seq(Piece)
    PROVE  Between(l, M, k) \in Seq(Piece) /\ Split(Between(l, M, k), kind) = Between(l, Split(M, kind), k)
<1>0. l \in Piece /\ k \in Piece
    BY PieceIs
<1>1. <<l>> \in Seq(Piece) /\ <<k>> \in Seq(Piece)
    BY <1>0
<1>2. M \o <<k>> \in Seq(Piece)
    BY <1>1, ConcatProperties
<1>3. <<l>> \o (M \o <<k>>) \in Seq(Piece)
    BY <1>1, <1>2, ConcatProperties
<1>5. Split(<<l>>, kind) = <<l>> /\ Split(<<k>>, kind) = <<k>>
    BY SplitPieces
<1>6. \A p, q \in Seq(Piece) : Split(p \o q, kind) = Split(p, kind) \o Split(q, kind)
    BY SplitPieces
<1>7. Split(<<l>> \o (M \o <<k>>), kind) = Split(<<l>>, kind) \o Split(M \o <<k>>, kind)
    BY <1>1, <1>2, <1>6, Zenon
<1>8. Split(M \o <<k>>, kind) = Split(M, kind) \o Split(<<k>>, kind)
    BY <1>1, <1>6, Zenon
<1>9. Split(<<l>> \o (M \o <<k>>), kind) = <<l>> \o (Split(M, kind) \o <<k>>)
    BY <1>5, <1>7, <1>8, Zenon
<1> QED BY <1>3, <1>9, Zenon DEF Between

\* A code block that is safe stays one when its pieces are taken apart.
SafeBlock(L, kind) ==
    \E o \in Plain, M \in Seq(Safe(kind)), e \in Plain :
        Toggles(o) /\ Toggles(e) /\ L = <<o>> \o (M \o <<e>>)

LEMMA SplitBlock ==
    ASSUME NEW kind \in Kinds, NEW L, SafeBlock(L, kind)
    PROVE  CodeBlock(Split(L, kind)) /\ Split(L, kind) \in Seq(Piece)
<1>1. PICK o \in Plain, M \in Seq(Safe(kind)), e \in Plain :
        Toggles(o) /\ Toggles(e) /\ L = <<o>> \o (M \o <<e>>)
    BY DEF SafeBlock
<1>2. Safe(kind) \subseteq Piece
    BY BareIs DEF Safe
<1>3. M \in Seq(Piece)
    BY <1>1, <1>2, SeqMonotonic
<1>4. /\ Split(L, kind) = <<o>> \o (Split(M, kind) \o <<e>>)
      /\ L \in Seq(Piece)
    <2>1. Split(Between(o, M, e), kind) = Between(o, Split(M, kind), e) /\ Between(o, M, e) \in Seq(Piece)
        BY <1>3, SplitBetween
    <2> QED BY <1>1, <2>1, Zenon DEF Between
<1>5. ASSUME NEW l \in Safe(kind) PROVE One(l, kind) \in Seq(Bare) /\ One(l, kind) # <<>>
    <2>1. l \in Piece /\ l \in Bare /\ (l[1] = kind => \A j \in DOMAIN l[2] : ~Toggles(l[2][j]))
        BY <1>2 DEF Safe
    <2>2. CASE l[1] # kind
        <3>1. One(l, kind) = <<l>>
            BY <2>2 DEF One
        <3> QED BY <2>1, <3>1
    <2>3. CASE l[1] = kind
        <3>1. One(l, kind) = l[2]
            BY <2>3 DEF One
        <3>2. l[2] \in Seq(Plain) /\ l[2] # <<>>
            BY <2>1, <2>3, PartsIs DEF Kinds
        <3> DEFINE p == l[2]
        <3>3. p \in Seq(Plain) /\ p # <<>> /\ \A j \in DOMAIN p : ~Toggles(p[j])
            BY <2>1, <2>3, <3>2
        <3> HIDE DEF p
        <3>4. Len(p) \in Nat /\ DOMAIN p = 1..Len(p) /\ p \in [1..Len(p) -> Plain]
            BY <3>3, LenProperties
        <3>5. \A j \in 1..Len(p) : p[j] \in Bare
            BY <3>3, <3>4, BareIs, PieceIs
        <3>6. p \in Seq(Bare)
            BY <3>4, <3>5, SeqDef
        <3> QED BY <3>1, <3>3, <3>6 DEF p
    <2> QED BY <2>2, <2>3
<1>6. Split(M, kind) \in Seq(Bare)
    BY <1>1, <1>5, SplitType
<1>7. CodeBlock(Split(L, kind))
    BY <1>1, <1>4, <1>6 DEF CodeBlock
<1> QED BY <1>4, <1>7, SplitPieces

\* The code block of a file that is tame
LEMMA TameBlock ==
    ASSUME NEW c \in Contents, Tame(c) PROVE SafeBlock(Coded(c), "cr")
<1> DEFINE s == LinesOf(c)
           M == Escaped(s)
<1>1. s \in Seq(Piece) /\ \A i \in DOMAIN s : i \in DOMAIN c.pieces /\ s[i] = c.pieces[i]
    BY LinesOfIs
<1>2. /\ M \in Seq(Piece) /\ Len(M) = Len(s) /\ Len(s) \in Nat /\ DOMAIN s = 1..Len(s)
      /\ \A i \in 1..Len(s) : M[i] = Escape(s[i]) /\ s[i] \in Piece
    BY <1>1, EscapedIs
<1>3. ASSUME NEW i \in 1..Len(s) PROVE M[i] \in Safe("cr")
    <2>1. s[i][1] = "cr" => \A j \in DOMAIN s[i][2] : ~Toggles(s[i][2][j])
        BY <1>1, <1>2 DEF Tame
    <2> QED BY <1>2, <2>1, EscapeIs
<1>4. M \in Seq(Safe("cr"))
    <2> HIDE DEF M, s
    <2>1. M \in [1..Len(M) -> Piece]
        BY <1>2, LenProperties
    <2> QED BY <1>2, <1>3, <2>1, SeqDef
<1>5. Coded(c) = <<Fence(0, FlagsOf(c))>> \o (M \o <<Fence(0, {})>>)
    BY CodedBlock
<1>6. Fence(0, FlagsOf(c)) \in Plain /\ Fence(0, {}) \in Plain
    BY DEF Fence, Plain, FlagsOf, Flags
<1>7. Fence(0, FlagsOf(c))[1] = "fence" /\ Fence(0, FlagsOf(c))[2] = 0 /\ Fence(0, {})[1] = "fence" /\ Fence(0, {})[2] = 0
    BY DEF Fence
<1>8. Toggles(Fence(0, FlagsOf(c))) /\ Toggles(Fence(0, {}))
    BY <1>6, <1>7, PlainIs
<1> QED BY <1>4, <1>5, <1>6, <1>8 DEF SafeBlock

LEMMA PackSectionType ==
    ASSUME NEW n \in Name, NEW c \in Contents
    PROVE  /\ PackSection(n, c) = <<Heading(n)>> \o (Coded(c) \o <<Blank>>)
           /\ PackSection(n, c) \in Seq(Piece) /\ PackSection(n, c) # <<>>
<1>1. Coded(c) \in Seq(Piece)
    BY CodedBlock
<1>2. <<Heading(n)>> \in Seq(Piece) /\ <<Blank>> \in Seq(Piece)
    BY PieceIs
<1>3. PackSection(n, c) = <<Heading(n)>> \o (Coded(c) \o <<Blank>>)
    BY <1>1, <1>2, Regroup, Zenon DEF PackSection
<1>4. Coded(c) \o <<Blank>> \in Seq(Piece)
    BY <1>1, <1>2, ConcatProperties
<1>5. PackSection(n, c) \in Seq(Piece) /\ PackSection(n, c) # <<>>
    BY <1>2, <1>3, <1>4, ConcatProperties, ConcatEqualIffEmpty, ConcatSimplifications
<1> QED BY <1>3, <1>5

LEMMA NormaliseType ==
    ASSUME NEW t \in Seq(Piece), t # <<>> PROVE Normalise(t) \in Seq(Written) /\ Normalise(t) # <<>>
BY SplitTypes DEF Normalise

\* The sections that Pack writes, and what is above them
Sheets(fs) == [i \in DOMAIN fs |-> PackSection(fs[i].name, fs[i].file)]

LEMMA PackIs ==
    ASSUME NEW pre \in Preambles, NEW fs \in Packs
    PROVE  /\ pre \in Seq(Piece) /\ Above(pre) \in Seq(Piece) /\ fs # <<>> /\ Len(fs) \in Nat /\ Len(fs) >= 1
           /\ DOMAIN fs = 1..Len(fs) /\ \A i \in 1..Len(fs) : fs[i].name \in Name /\ fs[i].file \in Contents
           /\ Sheets(fs) \in Seq(Seq(Piece)) /\ Len(Sheets(fs)) = Len(fs)
           /\ \A i \in 1..Len(fs) : Sheets(fs)[i] = PackSection(fs[i].name, fs[i].file)
<1>1. pre \in Seq(Piece) /\ fs \in Seq([name : Name, file : Contents]) /\ fs # <<>>
    BY PacksAssumption
<1>2. Above(pre) \in Seq(Piece)
    <2>1. Blank \in Piece
        BY PieceIs
    <2> QED BY <1>1, <2>1, AppendProperties DEF Above
<1>3. /\ Len(fs) \in Nat /\ Len(fs) >= 1 /\ DOMAIN fs = 1..Len(fs)
      /\ \A i \in 1..Len(fs) : fs[i] \in [name : Name, file : Contents]
    <2>1. Len(fs) \in Nat /\ Len(fs) # 0 /\ DOMAIN fs = 1..Len(fs)
        BY <1>1, LenProperties, EmptySeq
    <2>2. \A i \in 1..Len(fs) : fs[i] \in [name : Name, file : Contents]
        BY <1>1, ElementOfSeq
    <2> QED BY <2>1, <2>2
<1>4. \A i \in 1..Len(fs) : fs[i].name \in Name /\ fs[i].file \in Contents
    BY <1>3
<1>5. \A i \in 1..Len(fs) : PackSection(fs[i].name, fs[i].file) \in Seq(Piece)
    BY <1>4, PackSectionType
<1>6. Sheets(fs) \in [1..Len(fs) -> Seq(Piece)]
    BY <1>3, <1>5 DEF Sheets
<1>7. \A i \in 1..Len(fs) : Sheets(fs)[i] = PackSection(fs[i].name, fs[i].file)
    BY <1>3 DEF Sheets
<1>8. Sheets(fs) \in Seq(Seq(Piece)) /\ DOMAIN Sheets(fs) = 1..Len(fs)
    BY <1>3, <1>6, SeqDef
<1>9. Len(Sheets(fs)) = Len(fs)
    BY <1>3, <1>8, LenProperties
<1> QED BY <1>1, <1>2, <1>3, <1>4, <1>7, <1>8, <1>9

LEMMA PackedType ==
    ASSUME NEW pre \in Preambles, NEW fs \in Packs
    PROVE  LET t == Above(pre) \o FlattenSeq(Sheets(fs)) IN t \in Seq(Piece) /\ t # <<>>
<1> DEFINE u == Sheets(fs)
           n == Len(fs)
<1>1. /\ u \in Seq(Seq(Piece)) /\ Len(u) = n /\ n \in Nat /\ n >= 1 /\ Above(pre) \in Seq(Piece)
      /\ u[n] = PackSection(fs[n].name, fs[n].file) /\ fs[n].name \in Name /\ fs[n].file \in Contents
    BY PackIs
<1>2. u[n] \in Seq(Piece) /\ u[n] # <<>>
    BY <1>1, PackSectionType
<1> HIDE DEF u
<1>3. PICK G \in [0..n -> Seq(Piece)] :
        /\ G[0] = <<>> /\ FlattenSeq(u) = G[n]
        /\ \A i \in 1..n : G[i] = G[i - 1] \o u[i]
    <2>1. \E G \in [0..Len(u) -> Seq(Piece)] :
            /\ G[0] = <<>> /\ FlattenSeq(u) = G[Len(u)]
            /\ \A i \in 1..Len(u) : G[i] = G[i - 1] \o u[i]
        BY <1>1, FlattenIs
    <2> QED BY <1>1, <2>1
<1>4. G[n - 1] \in Seq(Piece) /\ FlattenSeq(u) = G[n - 1] \o u[n]
    <2>1. n \in 1..n /\ n - 1 \in 0..n
        BY <1>1
    <2> HIDE DEF n
    <2> QED BY <1>3, <2>1
<1> HIDE DEF n
<1> DEFINE g == G[n - 1]
           v == u[n]
           a == Above(pre)
<1>5. g \in Seq(Piece) /\ v \in Seq(Piece) /\ v # <<>> /\ a \in Seq(Piece) /\ FlattenSeq(u) = g \o v
    BY <1>1, <1>2, <1>4
<1> HIDE DEF g, v, a
<1>6. g \o v \in Seq(Piece) /\ g \o v # <<>>
    BY <1>5, ConcatProperties, ConcatEqualIffEmpty, ConcatSimplifications
<1>7. a \o (g \o v) \in Seq(Piece) /\ a \o (g \o v) # <<>>
    BY <1>5, <1>6, ConcatProperties, ConcatEqualIffEmpty, ConcatSimplifications
<1> QED BY <1>5, <1>7 DEF a, u

(***************************************************************************)
(* The document has a line at least, and none but normalised ones.         *)
(***************************************************************************)
TextInv == text \in Seq(Written) /\ text # <<>>

LEMMA LinesType ==
    ASSUME TextInv PROVE SplitLines(text) \in Seq(Plain) /\ SplitLines(text) \in Seq(Piece)
<1>1. SplitLines(text) \in Seq(Plain)
    BY SplitLinesIs DEF TextInv
<1> QED BY <1>1, PlainIsPiece

LEMMA TextInit == FilesInit => TextInv
BY DocumentAssumption DEF FilesInit, Init, TextInv

LEMMA TextStep == TextInv /\ [FilesNext]_files => TextInv'
<1> SUFFICES ASSUME TextInv, [FilesNext]_files PROVE TextInv'
    OBVIOUS
<1> DEFINE L == SplitLines(text)
<1>1. L \in Seq(Plain)
    BY LinesType
<1>2. ASSUME NEW s \in Seq(Plain), text' = Joined(s) PROVE TextInv'
    <2>1. Joined(s) \in Seq(Plain) /\ Joined(s) # <<>>
        BY JoinedType
    <2>2. Joined(s) \in Seq(Written)
        BY <2>1, PlainIsPiece
    <2> QED BY <1>2, <2>1, <2>2 DEF TextInv
<1>3. ASSUME NEW pre \in Preambles, NEW fs \in Packs, Pack(pre, fs) PROVE TextInv'
    <2> DEFINE t == Above(pre) \o FlattenSeq(Sheets(fs))
    <2>1. text' = Normalise(t)
        BY <1>3 DEF Pack, PutWhole, Becomes, Sheets
    <2>2. t \in Seq(Piece) /\ t # <<>>
        BY PackedType
    <2> HIDE DEF t
    <2> QED BY <2>1, <2>2, NormaliseType DEF TextInv
<1>4. ASSUME NEW n \in Name, NEW b \in Blocks, NEW upsert \in BOOLEAN, NEW rename,
             PutSection(n, b, upsert, rename)
      PROVE  TextInv'
    <2> DEFINE done == Fits(b, IF rename = NoName THEN n ELSE rename) /\ (Found(L, n) # {} \/ upsert)
    <2>1. text' = IF ~done THEN text
                  ELSE Joined(IF Found(L, n) = {} THEN Appended(L, b) ELSE Replaced(L, n, b))
        BY <1>4 DEF PutSection, Becomes
    <2>2. b \in Seq(Plain)
        BY DocumentAssumption
    <2> HIDE DEF L, done
    <2>3. CASE ~done
        BY <2>1, <2>3 DEF TextInv
    <2>4. CASE done /\ Found(L, n) = {}
        BY <1>1, <1>2, <2>1, <2>2, <2>4, AppendedType
    <2>5. CASE done /\ Found(L, n) # {}
        BY <1>1, <1>2, <2>1, <2>2, <2>5, EditTypes
    <2> QED BY <2>3, <2>4, <2>5
<1>5. ASSUME NEW n \in Name, DeleteSection(n) PROVE TextInv'
    <2>1. text' = text \/ (Found(L, n) # {} /\ text' = Joined(Removed(L, n)))
        BY <1>5 DEF DeleteSection, Becomes
    <2> HIDE DEF L
    <2>2. CASE text' = text
        BY <2>2 DEF TextInv
    <2>3. CASE Found(L, n) # {} /\ text' = Joined(Removed(L, n))
        BY <1>1, <1>2, <2>3, EditTypes
    <2> QED BY <2>1, <2>2, <2>3
<1>6. CASE UNCHANGED files
    BY <1>6 DEF files, TextInv
<1> QED BY <1>3, <1>4, <1>5, <1>6 DEF FilesNext, SomeEdit, Edit

\* Every edit and every packing leaves a normalised text of a line at least.
THEOREM TextOK == FilesSpec => []TextInv
BY TextInit, TextStep, PTL DEF FilesSpec

\* In every document a section edit or a packing leaves, the server's finders
\* agree where each section ends; and the client names the sections as the server
\* does as long as no heading and no fence is beside a cut.
THEOREM SectionsAgreeAlways == FilesSpec => []SectionsAgree
<1>1. TextInv => SectionsAgree
    <2> SUFFICES ASSUME TextInv PROVE SectionsAgree
        OBVIOUS
    <2> DEFINE L == SplitLines(text)
    <2>1. text \in Seq(Written) /\ text # <<>> /\ L \in Seq(Piece)
        BY LinesType DEF TextInv
    <2>2. text \in Seq(Piece)
        BY <2>1, PieceIs, SeqMonotonic
    <2>3. Alike(text) => Names(L) = Names(text)
        BY <2>1, LinesNames
    <2>4. ClientNames(text) = Names(text)
        <3>1. {i \in DOMAIN text : IsHead(text[i]) /\ ~Fenced(text, i)} = Headers(text)
            BY DEF Headers
        <3>2. ClientStarts(text) = Starts(text)
            BY <3>1 DEF ClientStarts, Starts
        <3>3. DOMAIN Starts(text) = 1..Count(text)
            BY <2>2, StartsIs
        <3> QED BY <3>2, <3>3 DEF ClientNames, Names
    <2> HIDE DEF L
    <2>5. [p \in DOMAIN Spans(L) |-> Spans(L)[p][3]] = Names(L)
        BY <2>1, SpanAt DEF Names
    <2>6. BoundsAgree
        BY <2>1, BoundsAgreeFor, Zenon DEF BoundsAgree, L
    <2> QED BY <2>3, <2>4, <2>5, <2>6, Zenon DEF SectionsAgree, L
<1> QED BY <1>1, TextOK, PTL

(***************************************************************************)
(* What readers get, of lines                                              *)
(***************************************************************************)
Full(lines) == {i \in 1..UpTo(lines) : ~IsBlank(lines[i])}
Preamble(lines) == IF Full(lines) = {} THEN <<>> ELSE SubSeq(lines, 1, Max(Full(lines)))

View(lines) ==
    [preamble |-> Preamble(lines), sections |-> SectionsOf(lines),
     open |-> Fenced(lines, Len(lines) + 1)]

LEMMA SeeIs == \A t : See(t) = View(SplitLines(t))
BY DEF See, View, Preamble, Full

SectionType == [name : Name \union {NoName}, body : Seq(Piece)]
Section(s, h) == [name |-> NameOf(s[h]), body |-> SubSeq(s, h + 1, Stop(s, h))]

LEMMA SectionsAt ==
    ASSUME NEW s \in Seq(Piece)
    PROVE  /\ SectionsOf(s) = [p \in 1..Count(s) |-> Section(s, Starts(s)[p])]
           /\ SectionsOf(s) \in Seq(SectionType) /\ Len(SectionsOf(s)) = Count(s)
<1>1. SectionsOf(s) = [p \in DOMAIN Spans(s) |->
                        [name |-> Spans(s)[p][3], body |-> SubSeq(s, Spans(s)[p][1] + 1, Spans(s)[p][2])]]
    BY Zenon DEF SectionsOf
<1>2. SectionsOf(s) = [p \in 1..Count(s) |-> Section(s, Starts(s)[p])]
    BY <1>1, SpanAt DEF Section
<1>3. Count(s) \in Nat /\ \A p \in 1..Count(s) : Starts(s)[p] \in Headers(s)
    BY StartsIs
<1>4. ASSUME NEW h \in Headers(s) PROVE Section(s, h) \in SectionType
    <2>1. NameOf(s[h]) \in Name \union {NoName}
        BY HeadersIs, PieceIs
    <2>2. h + 1 \in Nat /\ h + 1 >= 1 /\ Stop(s, h) \in Int /\ Stop(s, h) <= Len(s)
        BY StopIs
    <2>3. SubSeq(s, h + 1, Stop(s, h)) \in Seq(Piece)
        BY <2>2, SubType
    <2> QED BY <2>1, <2>3 DEF Section, SectionType
<1>5. SectionsOf(s) \in [1..Count(s) -> SectionType]
    BY <1>2, <1>3, <1>4
<1>6. SectionsOf(s) \in Seq(SectionType) /\ DOMAIN SectionsOf(s) = 1..Count(s)
    BY <1>3, <1>5, SeqDef
<1>7. Len(SectionsOf(s)) = Count(s)
    BY <1>3, <1>6, LenProperties
<1> QED BY <1>2, <1>6, <1>7

(***************************************************************************)
(* Behind a beginning                                                      *)
(***************************************************************************)
Headed(lines) == lines # <<>> /\ IsHead(lines[1])

LEMMA HeadedIs ==
    ASSUME NEW B \in Seq(Piece), Headed(B)
    PROVE  /\ 1 \in Headers(B) /\ Len(B) >= 1 /\ Count(B) >= 1 /\ Starts(B)[1] = 1
<1>1. Len(B) \in Nat /\ Len(B) >= 1 /\ DOMAIN B = 1..Len(B)
    BY LenProperties, EmptySeq DEF Headed
<1>2. ~Fenced(B, 1)
    <2>1. Tog(B, 1 - 1) = {}
        BY DEF Tog
    <2>2. Cardinality(Tog(B, 1 - 1)) = 0 /\ 0 % 2 # 1
        BY <2>1, FS_EmptySet
    <2> QED BY <2>2, FencedIs
<1>3. 1 \in Headers(B)
    BY <1>1, <1>2 DEF Headers, Headed
<1>4. PICK p \in 1..Count(B) : Starts(B)[p] = 1
    BY <1>3, StartsIs
<1>5. Count(B) \in Nat /\ p \in Nat /\ p >= 1 /\ p <= Count(B)
    BY StartsIs
<1>6. p = 1
    <2> SUFFICES ASSUME p > 1 PROVE FALSE
        BY <1>5
    <2>1. 1 \in 1..Count(B) /\ 1 < p
        BY <1>5
    <2>2. Starts(B)[1] < 1 /\ Starts(B)[1] \in 1..Len(B)
        BY <1>4, <2>1, StartsIs
    <2> QED BY <1>1, <2>2
<1> QED BY <1>1, <1>3, <1>4, <1>5, <1>6

\* What begins at i in A ends there in A \o B too, but for blank lines.
Ends(A, B, i) ==
    \/ EndOf(A \o B, i) = EndOf(A, i)
    \/ /\ EndOf(A, i) = Len(A) /\ EndOf(A \o B, i) >= Len(A)
       /\ \A k \in (Len(A) + 1)..EndOf(A \o B, i) : IsBlank((A \o B)[k])

LEMMA EndsIf ==
    ASSUME NEW A \in Seq(Piece), NEW B \in Seq(Piece), NEW i \in 0..Len(A),
           EndOf(A, i) + 1 \in Headers(A) \/ (Headed(B) /\ Closed(A)) \/ AllBlank(B)
    PROVE  Ends(A, B, i)
<1> DEFINE C == A \o B
           e == EndOf(A, i)
<1>1. /\ C \in Seq(Piece) /\ Len(A) \in Nat /\ Len(B) \in Nat /\ Len(C) = Len(A) + Len(B)
      /\ DOMAIN B = 1..Len(B)
      /\ \A k \in 1..(Len(A) + Len(B)) : C[k] = IF k <= Len(A) THEN A[k] ELSE B[k - Len(A)]
    BY ConcatProperties, LenProperties
<1>2. /\ i \in Nat /\ e \in Nat /\ i <= e /\ e <= Len(A) /\ (e = Len(A) \/ e + 1 \in Headers(A))
      /\ \A h \in Headers(A) : h > i => h > e
    <2>1. i \in Nat
        BY <1>1
    <2> QED BY <2>1, EndOfIs
<1>3. \A h \in Headers(C) : h <= Len(A) => h \in Headers(A)
    BY HeadersPrefix
<1>4. Headers(A) \subseteq Headers(C)
    BY HeadersPrefix
<1>5. \A h \in Headers(C) : h \in Nat /\ h >= 1 /\ h <= Len(C) /\ IsHead(C[h])
    BY <1>1, HeadersIs
<1>6. \A h \in Headers(C) : h > i => h > e
    <2> SUFFICES ASSUME NEW h \in Headers(C), h > i PROVE h > e
        OBVIOUS
    <2>1. CASE h <= Len(A)
        BY <1>2, <1>3, <2>1
    <2>2. CASE ~(h <= Len(A))
        BY <1>1, <1>2, <1>5, <2>2
    <2> QED BY <2>1, <2>2
<1>7. i \in 0..Len(C) /\ e \in i..Len(C)
    BY <1>1, <1>2
<1> HIDE DEF C, e
<1>8. CASE e + 1 \in Headers(A)
    <2>1. EndOf(C, i) = e
        BY <1>1, <1>4, <1>6, <1>7, <1>8, EndOfUnique
    <2> QED BY <2>1 DEF Ends, C, e
<1>9. CASE e = Len(A) /\ Headed(B) /\ Closed(A)
    <2>1. 1 \in Headers(B)
        BY <1>9, HeadedIs
    <2>2. Len(A) + 1 \in Headers(C)
        BY <1>9, <2>1, HeadersConcat DEF Shift, C
    <2>3. EndOf(C, i) = e
        BY <1>1, <1>6, <1>7, <1>9, <2>2, EndOfUnique
    <2> QED BY <2>3 DEF Ends, C, e
<1>10. CASE e = Len(A) /\ AllBlank(B)
    <2>1. ASSUME NEW k \in (Len(A) + 1)..Len(C) PROVE IsBlank(C[k]) /\ ~IsHead(C[k])
        <3>1. k - Len(A) \in 1..Len(B) /\ C[k] = B[k - Len(A)]
            BY <1>1
        <3>2. IsBlank(B[k - Len(A)]) /\ B[k - Len(A)] \in Piece
            BY <1>1, <1>10, <3>1, ElementOfSeq DEF AllBlank
        <3> QED BY <3>1, <3>2, PieceIs
    <2>2. \A h \in Headers(C) : h <= Len(A)
        <3> SUFFICES ASSUME NEW h \in Headers(C), ~(h <= Len(A)) PROVE FALSE
            OBVIOUS
        <3>1. h \in (Len(A) + 1)..Len(C)
            BY <1>1, <1>5
        <3> QED BY <1>5, <2>1, <3>1
    <2>3. \A h \in Headers(C) : h > i => h > Len(C)
        BY <1>1, <1>5, <1>6, <1>10, <2>2
    <2>4. Len(C) \in i..Len(C)
        BY <1>1, <1>7
    <2>5. EndOf(C, i) = Len(C)
        BY <1>1, <1>7, <2>3, <2>4, EndOfUnique
    <2>6. EndOf(C, i) >= Len(A)
        BY <1>1, <2>5
    <2> QED BY <1>10, <2>1, <2>5, <2>6 DEF Ends, C, e
<1> QED BY <1>2, <1>8, <1>9, <1>10 DEF e

\* The two halves of a text put together
LEMMA HalvesIs ==
    ASSUME NEW A \in Seq(Piece), NEW B \in Seq(Piece)
    PROVE  /\ A \o B \in Seq(Piece) /\ Len(A) \in Nat /\ Len(B) \in Nat
           /\ Len(A \o B) = Len(A) + Len(B)
           /\ \A k \in 1..Len(A) : (A \o B)[k] = A[k]
           /\ \A k \in 1..Len(B) : (A \o B)[Len(A) + k] = B[k]
           /\ \A a \in Nat, b \in Nat : a >= 1 /\ b <= Len(A) => SubSeq(A \o B, a, b) = SubSeq(A, a, b)
           /\ \A a \in Nat, b \in Nat : a >= 1 /\ b <= Len(B)
                => SubSeq(A \o B, Len(A) + a, Len(A) + b) = SubSeq(B, a, b)
<1>1. /\ A \o B \in Seq(Piece) /\ Len(A) \in Nat /\ Len(B) \in Nat /\ Len(A \o B) = Len(A) + Len(B)
      /\ \A k \in 1..(Len(A) + Len(B)) : (A \o B)[k] = IF k <= Len(A) THEN A[k] ELSE B[k - Len(A)]
    BY ConcatProperties, LenProperties
<1>2. \A k \in 1..Len(A) : (A \o B)[k] = A[k]
    BY <1>1
<1>3. ASSUME NEW k \in 1..Len(B) PROVE (A \o B)[Len(A) + k] = B[k]
    <2>1. Len(A) + k \in 1..(Len(A) + Len(B)) /\ ~(Len(A) + k <= Len(A)) /\ (Len(A) + k) - Len(A) = k
        BY <1>1
    <2> QED BY <1>1, <2>1
<1>4. ASSUME NEW a \in Nat, NEW b \in Nat, a >= 1, b <= Len(A)
      PROVE  SubSeq(A \o B, a, b) = SubSeq(A, a, b)
    <2>1. CASE a <= b
        <3>1. a \in 1..Len(A) /\ b \in 1..Len(A)
            BY <1>1, <1>4, <2>1
        <3> QED BY <3>1, SubSeqOfConcat1
    <2>2. CASE ~(a <= b)
        <3>1. b < a /\ a \in Int /\ b \in Int
            BY <2>2
        <3> QED BY <3>1, SubSeqEmpty
    <2> QED BY <2>1, <2>2
<1>5. ASSUME NEW a \in Nat, NEW b \in Nat, a >= 1, b <= Len(B)
      PROVE  SubSeq(A \o B, Len(A) + a, Len(A) + b) = SubSeq(B, a, b)
    <2>1. CASE a <= b
        <3>1. /\ Len(A) + a \in Len(A) + 1 .. Len(A) + Len(B)
              /\ Len(A) + b \in Len(A) + 1 .. Len(A) + Len(B)
              /\ (Len(A) + a) - Len(A) = a /\ (Len(A) + b) - Len(A) = b
            BY <1>1, <1>5, <2>1
        <3> QED BY <3>1, SubSeqOfConcat2
    <2>2. CASE ~(a <= b)
        <3>1. b < a /\ a \in Int /\ b \in Int
            BY <2>2
        <3>2. Len(A) + b < Len(A) + a /\ Len(A) + a \in Int /\ Len(A) + b \in Int
            BY <1>1, <2>2
        <3> QED BY <3>1, <3>2, SubSeqEmpty
    <2> QED BY <2>1, <2>2
<1> QED BY <1>1, <1>2, <1>3, <1>4, <1>5

LEMMA EndsSection ==
    ASSUME NEW A \in Seq(Piece), NEW B \in Seq(Piece), NEW h \in Headers(A), Ends(A, B, h)
    PROVE  h \in Headers(A \o B) /\ Section(A \o B, h) = Section(A, h)
<1> DEFINE C == A \o B
           m == Stop(A, h)
           e == EndOf(A, h)
           d == EndOf(C, h)
<1>1. /\ C \in Seq(Piece) /\ Len(A) \in Nat /\ Len(B) \in Nat /\ Len(C) = Len(A) + Len(B)
      /\ \A k \in 1..Len(A) : C[k] = A[k]
      /\ \A a \in Nat, b \in Nat : a >= 1 /\ b <= Len(A) => SubSeq(C, a, b) = SubSeq(A, a, b)
    BY HalvesIs
<1>2. h \in Headers(C)
    BY HeadersPrefix
<1>3. /\ h \in Nat /\ h >= 1 /\ h <= m /\ m \in Nat /\ m <= e /\ e \in Nat /\ e <= Len(A)
      /\ \A k \in (m + 1)..e : IsBlank(A[k])
      /\ m = h \/ ~IsBlank(A[m])
    BY StopIs
<1>4. d \in Nat /\ h <= d /\ d <= Len(C)
    <2> HIDE DEF C
    <2>1. h \in Nat /\ h <= Stop(C, h) /\ Stop(C, h) \in Nat /\ Stop(C, h) <= d /\ d \in Nat /\ d <= Len(C)
        BY <1>1, <1>2, StopIs
    <2> QED BY <2>1
<1>5. e <= d /\ \A k \in (e + 1)..d : IsBlank(C[k])
    <2>1. CASE d = e
        BY <1>3, <2>1
    <2>2. CASE e = Len(A) /\ d >= Len(A) /\ \A k \in (Len(A) + 1)..d : IsBlank(C[k])
        BY <1>1, <1>3, <1>4, <2>2
    <2> QED BY <2>1, <2>2 DEF Ends
<1> HIDE DEF C, m, e, d
<1>6. Stop(C, h) = m
    <2>1. h \in 1..Len(C) /\ d \in h..Len(C) /\ m \in h..d
        BY <1>1, <1>3, <1>4, <1>5
    <2>2. ASSUME NEW k \in (m + 1)..d PROVE IsBlank(C[k])
        <3>1. CASE k <= e
            <4>1. k \in (m + 1)..e /\ k \in 1..Len(A)
                BY <1>1, <1>3, <1>4, <3>1
            <4> QED BY <1>1, <1>3, <4>1
        <3>2. CASE ~(k <= e)
            <4>1. k \in (e + 1)..d
                BY <1>3, <1>4, <3>2
            <4> QED BY <1>5, <4>1
        <3> QED BY <3>1, <3>2
    <2>3. m = h \/ ~IsBlank(C[m])
        <3>1. m \in 1..Len(A)
            BY <1>1, <1>3
        <3> QED BY <1>1, <1>3, <3>1
    <2>4. Trimmed(C, h, d) = m
        BY <1>1, <2>1, <2>2, <2>3, TrimmedUnique
    <2> QED BY <2>4 DEF Stop, d
<1>7. C[h] = A[h]
    <2>1. h \in 1..Len(A)
        BY <1>1, <1>3
    <2> QED BY <1>1, <2>1
<1>8. SubSeq(C, h + 1, m) = SubSeq(A, h + 1, m)
    <2>1. h + 1 \in Nat /\ h + 1 >= 1 /\ m <= Len(A)
        BY <1>1, <1>3
    <2> QED BY <1>1, <1>3, <2>1
<1> QED BY <1>2, <1>6, <1>7, <1>8 DEF Section, C, m

LEMMA EndsPreamble ==
    ASSUME NEW A \in Seq(Piece), NEW B \in Seq(Piece), Ends(A, B, 0)
    PROVE  Preamble(A \o B) = Preamble(A)
<1> DEFINE C == A \o B
           e == UpTo(A)
           d == UpTo(C)
<1>1. /\ C \in Seq(Piece) /\ Len(A) \in Nat /\ Len(B) \in Nat /\ Len(C) = Len(A) + Len(B)
      /\ \A k \in 1..Len(A) : C[k] = A[k]
      /\ \A a \in Nat, b \in Nat : a >= 1 /\ b <= Len(A) => SubSeq(C, a, b) = SubSeq(A, a, b)
    BY HalvesIs
<1>2. e = EndOf(A, 0) /\ d = EndOf(C, 0)
    BY <1>1, UpToIs
<1>3. 0 \in 0..Len(A) /\ 0 \in 0..Len(C)
    BY <1>1
<1>4. e \in Nat /\ e <= Len(A) /\ d \in Nat /\ d <= Len(C)
    <2>1. EndOf(A, 0) \in 0..Len(A) /\ EndOf(C, 0) \in 0..Len(C)
        BY <1>1, <1>3, EndOfIs
    <2> QED BY <1>1, <1>2, <2>1
<1>5. e <= d /\ \A k \in (e + 1)..d : IsBlank(C[k])
    <2>1. CASE d = e
        BY <1>4, <2>1
    <2>2. CASE e = Len(A) /\ d >= Len(A) /\ \A k \in (Len(A) + 1)..d : IsBlank(C[k])
        BY <1>1, <1>4, <2>2
    <2> QED BY <1>2, <2>1, <2>2 DEF Ends
<1> HIDE DEF C, e, d
<1>6. {i \in 1..d : ~IsBlank(C[i])} = {i \in 1..e : ~IsBlank(A[i])}
    <2>1. ASSUME NEW i \in 1..d, ~IsBlank(C[i]) PROVE i \in 1..e /\ ~IsBlank(A[i])
        <3>1. i <= e
            <4> SUFFICES ASSUME ~(i <= e) PROVE FALSE
                OBVIOUS
            <4>1. i \in (e + 1)..d
                BY <1>4
            <4> QED BY <1>5, <2>1, <4>1
        <3>2. i \in 1..Len(A) /\ i \in 1..e
            BY <1>1, <1>4, <3>1
        <3> QED BY <1>1, <2>1, <3>2
    <2>2. ASSUME NEW i \in 1..e, ~IsBlank(A[i]) PROVE i \in 1..d /\ ~IsBlank(C[i])
        <3>1. i \in 1..d /\ i \in 1..Len(A)
            BY <1>1, <1>4, <1>5
        <3> QED BY <1>1, <2>2, <3>1
    <2> QED BY <2>1, <2>2
<1>7. Full(C) = Full(A)
    BY <1>6 DEF Full, e, d
<1>8. CASE Full(A) # {}
    <2>1. Full(A) \in SUBSET (0..e)
        BY <1>4 DEF Full, e
    <2>2. PICK m \in Nat : m = Max(Full(A)) /\ m \in Full(A)
        BY <1>4, <1>8, <2>1, MaxIs
    <2>3. m <= Len(A)
        BY <1>1, <1>4, <2>1, <2>2
    <2>4. SubSeq(C, 1, m) = SubSeq(A, 1, m)
        BY <1>1, <2>3
    <2> QED BY <1>7, <2>2, <2>4 DEF Preamble, C
<1>9. CASE Full(A) = {}
    BY <1>7, <1>9 DEF Preamble, C
<1> QED BY <1>8, <1>9

LEMMA FencedBool == \A s, i : Fenced(s, i) \in BOOLEAN
BY DEF Fenced

\* A section with another behind it ends there.
LEMMA NextIs ==
    ASSUME NEW A \in Seq(Piece), NEW i \in 0..Len(A), \E h \in Headers(A) : h > i
    PROVE  EndOf(A, i) + 1 \in Headers(A)
<1>1. PICK h \in Headers(A) : h > i
    OBVIOUS
<1>2. h \in Nat /\ h <= Len(A) /\ Len(A) \in Nat
    BY HeadersIs
<1>3. /\ EndOf(A, i) \in Nat /\ h > EndOf(A, i)
      /\ (EndOf(A, i) = Len(A) \/ EndOf(A, i) + 1 \in Headers(A))
    BY <1>1, EndOfIs
<1> QED BY <1>2, <1>3

LEMMA ShiftedSection ==
    ASSUME NEW A \in Seq(Piece), NEW B \in Seq(Piece), Closed(A), NEW k \in Headers(B)
    PROVE  Section(A \o B, Len(A) + k) = Section(B, k)
<1> DEFINE C == A \o B
           a == Len(A)
           e == EndOf(B, k)
           m == Stop(B, k)
<1>1. /\ C \in Seq(Piece) /\ a \in Nat /\ Len(B) \in Nat /\ Len(C) = a + Len(B)
      /\ \A j \in 1..Len(B) : C[a + j] = B[j]
      /\ \A x \in Nat, y \in Nat : x >= 1 /\ y <= Len(B) => SubSeq(C, a + x, a + y) = SubSeq(B, x, y)
    BY HalvesIs
<1>2. Headers(C) = Headers(A) \union Shift(a, Headers(B))
    BY HeadersConcat
<1>3. /\ k \in Nat /\ k >= 1 /\ k <= m /\ m \in Nat /\ m <= e /\ e \in Nat /\ e <= Len(B)
      /\ \A j \in (m + 1)..e : IsBlank(B[j])
      /\ m = k \/ ~IsBlank(B[m])
    BY StopIs
<1>4. (e = Len(B) \/ e + 1 \in Headers(B)) /\ \A j \in Headers(B) : j > k => j > e
    <2>1. k \in 0..Len(B)
        BY <1>1, <1>3
    <2> QED BY <2>1, EndOfIs
<1>5. \A h \in Headers(A) : h \in Nat /\ h <= a
    BY HeadersIs
<1>6. \A h \in Headers(B) : h \in Nat
    BY HeadersIs
<1> HIDE DEF C, a, e, m
<1>7. EndOf(C, a + k) = a + e
    <2>1. a + k \in 0..Len(C) /\ a + e \in (a + k)..Len(C)
        <3>1. k <= e /\ k <= Len(B) /\ Len(C) \in Nat
            BY <1>1, <1>3
        <3>2. a + k <= a + e /\ a + e <= a + Len(B) /\ a + k <= a + Len(B) /\ a + k \in Nat /\ a + e \in Nat
            BY <1>1, <1>3, <3>1
        <3> QED BY <1>1, <3>1, <3>2
    <2>2. ASSUME NEW h \in Headers(C), h > a + k PROVE h > a + e
        <3>1. h \notin Headers(A)
            BY <1>1, <1>3, <1>5, <2>2
        <3>2. PICK j \in Headers(B) : h = a + j
            BY <1>2, <3>1 DEF Shift
        <3>3. j \in Nat /\ j > k
            BY <1>1, <1>3, <1>6, <2>2, <3>2
        <3>4. j > e
            BY <1>4, <3>3
        <3> QED BY <1>1, <1>3, <3>2, <3>3, <3>4
    <2>3. a + e = Len(C) \/ (a + e) + 1 \in Headers(C)
        <3>1. CASE e = Len(B)
            BY <1>1, <3>1
        <3>2. CASE e + 1 \in Headers(B)
            <4>1. a + (e + 1) \in Headers(C) /\ a + (e + 1) = (a + e) + 1
                BY <1>1, <1>2, <1>3, <3>2 DEF Shift
            <4> QED BY <4>1
        <3> QED BY <1>4, <3>1, <3>2
    <2> QED BY <1>1, <2>1, <2>2, <2>3, EndOfUnique
<1>8. Stop(C, a + k) = a + m
    <2>1. a + k \in 1..Len(C) /\ a + e \in (a + k)..Len(C) /\ a + m \in (a + k)..(a + e)
        BY <1>1, <1>3
    <2>2. ASSUME NEW j \in ((a + m) + 1)..(a + e) PROVE IsBlank(C[j])
        <3>1. j - a \in (m + 1)..e /\ j - a \in 1..Len(B) /\ j = a + (j - a)
            BY <1>1, <1>3
        <3>2. C[j] = B[j - a] /\ IsBlank(B[j - a])
            BY <1>1, <1>3, <3>1
        <3> QED BY <3>2
    <2>3. a + m = a + k \/ ~IsBlank(C[a + m])
        <3>1. m \in 1..Len(B)
            BY <1>1, <1>3
        <3> QED BY <1>1, <1>3, <3>1
    <2>4. Trimmed(C, a + k, a + e) = a + m
        BY <1>1, <2>1, <2>2, <2>3, TrimmedUnique
    <2> QED BY <1>7, <2>4 DEF Stop
<1>9. C[a + k] = B[k]
    <2>1. k \in 1..Len(B)
        BY <1>1, <1>3
    <2> QED BY <1>1, <2>1
<1>10. SubSeq(C, (a + k) + 1, a + m) = SubSeq(B, k + 1, m)
    <2>1. k + 1 \in Nat /\ k + 1 >= 1 /\ m <= Len(B) /\ (a + k) + 1 = a + (k + 1)
        BY <1>1, <1>3
    <2> QED BY <1>1, <1>3, <2>1
<1> QED BY <1>8, <1>9, <1>10 DEF Section, C, a, m

LEMMA ConcatSections ==
    ASSUME NEW A \in Seq(Piece), NEW B \in Seq(Piece), Closed(A), Headed(B)
    PROVE  /\ SectionsOf(A \o B) = SectionsOf(A) \o SectionsOf(B)
           /\ Preamble(A \o B) = Preamble(A)
           /\ Fenced(A \o B, Len(A \o B) + 1) = Fenced(B, Len(B) + 1)
<1> DEFINE C == A \o B
           a == Count(A)
           b == Count(B)
<1>1. C \in Seq(Piece)
    BY HalvesIs
<1>2. a \in Nat /\ b \in Nat /\ Count(C) = a + b
    BY StartsIs, StartsConcat
<1>3. ASSUME NEW p \in 1..a PROVE SectionsOf(C)[p] = SectionsOf(A)[p]
    <2>1. Starts(C)[p] = Starts(A)[p] /\ p \in 1..Count(C) /\ Starts(A)[p] \in Headers(A)
        BY <1>2, StartsPrefix, StartsIs
    <2>2. Starts(A)[p] \in 0..Len(A)
        BY StartsIs
    <2>3. Section(C, Starts(A)[p]) = Section(A, Starts(A)[p])
        BY <2>1, <2>2, EndsIf, EndsSection
    <2>4. SectionsOf(C)[p] = Section(C, Starts(C)[p])
        BY <1>1, <2>1, SectionsAt
    <2>5. SectionsOf(A)[p] = Section(A, Starts(A)[p])
        BY SectionsAt
    <2> QED BY <2>1, <2>3, <2>4, <2>5
<1>4. ASSUME NEW p \in 1..b PROVE SectionsOf(C)[a + p] = SectionsOf(B)[p]
    <2>1. Starts(C)[a + p] = Len(A) + Starts(B)[p] /\ a + p \in 1..Count(C) /\ Starts(B)[p] \in Headers(B)
        BY <1>2, StartsConcat, StartsIs
    <2>2. Section(C, Len(A) + Starts(B)[p]) = Section(B, Starts(B)[p])
        BY <2>1, ShiftedSection
    <2>3. SectionsOf(C)[a + p] = Section(C, Starts(C)[a + p])
        BY <1>1, <2>1, SectionsAt
    <2>4. SectionsOf(B)[p] = Section(B, Starts(B)[p])
        BY SectionsAt
    <2> QED BY <2>1, <2>2, <2>3, <2>4
<1>5. SectionsOf(C) = SectionsOf(A) \o SectionsOf(B)
    <2>1. /\ SectionsOf(A) \in Seq(SectionType) /\ Len(SectionsOf(A)) = a
          /\ SectionsOf(B) \in Seq(SectionType) /\ Len(SectionsOf(B)) = b
          /\ SectionsOf(C) \in Seq(SectionType) /\ Len(SectionsOf(C)) = a + b
        BY <1>1, <1>2, SectionsAt
    <2> DEFINE X == SectionsOf(A)
               Y == SectionsOf(B)
               W == SectionsOf(C)
    <2> HIDE DEF X, Y, W, C, a, b
    <2>2. X \o Y \in Seq(SectionType) /\ Len(X \o Y) = a + b
          /\ \A i \in 1..(a + b) : (X \o Y)[i] = IF i <= a THEN X[i] ELSE Y[i - a]
        BY <2>1, ConcatProperties DEF X, Y
    <2>3. ASSUME NEW i \in 1..(a + b) PROVE W[i] = (X \o Y)[i]
        <3>1. CASE i <= a
            <4>1. i \in 1..a
                BY <1>2, <3>1
            <4> QED BY <1>3, <2>2, <3>1, <4>1 DEF X, W
        <3>2. CASE ~(i <= a)
            <4>1. i - a \in 1..b /\ a + (i - a) = i
                BY <1>2, <3>2
            <4>2. W[a + (i - a)] = Y[i - a]
                BY <1>4, <4>1 DEF Y, W
            <4> QED BY <2>2, <3>2, <4>1, <4>2
        <3> QED BY <3>1, <3>2
    <2>4. W = X \o Y
        BY <2>1, <2>2, <2>3, SeqEqual DEF W
    <2> QED BY <2>4 DEF X, Y, W
<1>6. Preamble(C) = Preamble(A)
    <2>1. 0 \in 0..Len(A)
        BY LenProperties
    <2> QED BY <2>1, EndsIf, EndsPreamble
<1>7. Fenced(C, Len(C) + 1) = Fenced(B, Len(B) + 1)
    <2>1. Closed(C) <=> Closed(B)
        BY ClosedConcat
    <2> QED BY <2>1, FencedBool DEF Closed
<1> QED BY <1>5, <1>6, <1>7

\* Blank lines at the end are nothing.
LEMMA BlankTail ==
    ASSUME NEW A \in Seq(Piece), NEW Z \in Seq(Piece), AllBlank(Z)
    PROVE  View(A \o Z) = View(A) /\ (Closed(A \o Z) <=> Closed(A))
<1> DEFINE C == A \o Z
<1>1. /\ C \in Seq(Piece) /\ Len(A) \in Nat /\ Len(Z) \in Nat /\ Len(C) = Len(A) + Len(Z)
      /\ \A k \in 1..Len(Z) : C[Len(A) + k] = Z[k]
      /\ DOMAIN Z = 1..Len(Z)
    BY HalvesIs, LenProperties
<1>2. Headers(C) = Headers(A)
    <2>1. ASSUME NEW h \in Headers(C) PROVE h <= Len(A)
        <3> SUFFICES ASSUME ~(h <= Len(A)) PROVE FALSE
            OBVIOUS
        <3>1. h \in Nat /\ h <= Len(C) /\ IsHead(C[h])
            BY <1>1, HeadersIs
        <3>2. h - Len(A) \in 1..Len(Z) /\ h = Len(A) + (h - Len(A))
            BY <1>1, <3>1
        <3>3. C[h] = Z[h - Len(A)]
            BY <1>1, <3>2
        <3>4. IsBlank(Z[h - Len(A)]) /\ Z[h - Len(A)] \in Piece
            BY <1>1, <3>2, ElementOfSeq DEF AllBlank
        <3> QED BY <3>1, <3>3, <3>4, PieceIs
    <2> QED BY <2>1, HeadersPrefix
<1>3. Count(C) = Count(A) /\ Starts(C) = Starts(A)
    BY <1>2 DEF Count, Starts
<1>4. ASSUME NEW p \in 1..Count(A) PROVE Section(C, Starts(A)[p]) = Section(A, Starts(A)[p])
    <2>1. Starts(A)[p] \in Headers(A) /\ Starts(A)[p] \in 1..Len(A)
        BY StartsIs
    <2>2. Starts(A)[p] \in 0..Len(A)
        BY <1>1, <2>1
    <2> QED BY <2>1, <2>2, EndsIf, EndsSection
<1>5. SectionsOf(C) = SectionsOf(A)
    <2>1. SectionsOf(C) = [p \in 1..Count(C) |-> Section(C, Starts(C)[p])]
        BY <1>1, SectionsAt
    <2>2. SectionsOf(A) = [p \in 1..Count(A) |-> Section(A, Starts(A)[p])]
        BY SectionsAt
    <2> QED BY <1>3, <1>4, <2>1, <2>2
<1>6. Preamble(C) = Preamble(A)
    <2>1. 0 \in 0..Len(A)
        BY <1>1
    <2> QED BY <2>1, EndsIf, EndsPreamble
<1>7. Fenced(C, Len(C) + 1) = Fenced(A, Len(A) + 1)
    <2>1. Len(Z) + 1 \in 1..(Len(Z) + 1) /\ Len(C) + 1 = Len(A) + (Len(Z) + 1)
        BY <1>1
    <2>2. Fenced(C, Len(A) + (Len(Z) + 1)) <=> ~(Fenced(A, Len(A) + 1) <=> Fenced(Z, Len(Z) + 1))
        BY <2>1, FencedSuffix
    <2>3. ~Fenced(Z, Len(Z) + 1)
        BY BlankClosed DEF Closed
    <2> HIDE DEF C
    <2> QED BY <2>1, <2>2, <2>3, FencedBool
<1> QED BY <1>5, <1>6, <1>7 DEF View, Closed

\* What stands before the last section of a beginning stays, whatever follows.
LEMMA PrefixSections ==
    ASSUME NEW A \in Seq(Piece), NEW B \in Seq(Piece)
    PROVE  /\ Count(A \o B) >= Count(A)
           /\ \A p \in 1..(Count(A) - 1) : SectionsOf(A \o B)[p] = SectionsOf(A)[p]
           /\ Count(A) > 0 => Preamble(A \o B) = Preamble(A)
<1> DEFINE C == A \o B
           n == Count(A)
<1>1. C \in Seq(Piece) /\ Len(A) \in Nat /\ n \in Nat /\ Count(C) \in Nat /\ Count(C) >= n
    BY HalvesIs, StartsIs, StartsPrefix
<1>2. ASSUME NEW p \in 1..(n - 1) PROVE SectionsOf(C)[p] = SectionsOf(A)[p]
    <2>1. p \in 1..n /\ p + 1 \in 1..n /\ p < p + 1 /\ p \in 1..Count(C)
        BY <1>1
    <2>2. /\ Starts(C)[p] = Starts(A)[p] /\ Starts(A)[p] \in Headers(A) /\ Starts(A)[p] \in 1..Len(A)
          /\ Starts(A)[p + 1] \in Headers(A) /\ Starts(A)[p] < Starts(A)[p + 1]
        BY <2>1, StartsPrefix, StartsIs
    <2>3. Starts(A)[p] \in 0..Len(A) /\ Starts(A)[p + 1] > Starts(A)[p]
        BY <1>1, <2>2
    <2>4. EndOf(A, Starts(A)[p]) + 1 \in Headers(A)
        BY <2>2, <2>3, NextIs
    <2>5. Section(C, Starts(A)[p]) = Section(A, Starts(A)[p])
        BY <2>2, <2>3, <2>4, EndsIf, EndsSection
    <2>6. SectionsOf(C)[p] = Section(C, Starts(C)[p])
        BY <1>1, <2>1, SectionsAt
    <2>7. SectionsOf(A)[p] = Section(A, Starts(A)[p])
        BY <2>1, SectionsAt
    <2> QED BY <2>2, <2>5, <2>6, <2>7
<1>3. ASSUME n > 0 PROVE Preamble(C) = Preamble(A)
    <2>1. 1 \in 1..n /\ 0 \in 0..Len(A)
        BY <1>1, <1>3
    <2>2. Starts(A)[1] \in Headers(A) /\ Starts(A)[1] > 0
        BY <2>1, StartsIs, HeadersIs
    <2>3. EndOf(A, 0) + 1 \in Headers(A)
        BY <2>1, <2>2, NextIs
    <2> QED BY <2>1, <2>3, EndsIf, EndsPreamble
<1> QED BY <1>1, <1>2, <1>3

(***************************************************************************)
(* A text is what is before a section, the section, blanks and the rest.   *)
(***************************************************************************)
Open(lines) == Fenced(lines, Len(lines) + 1)

LEMMA NoneIs ==
    ASSUME NEW s \in Seq(Piece), Headers(s) = {} PROVE Count(s) = 0 /\ SectionsOf(s) = <<>>
<1>1. Count(s) = 0
    BY FS_EmptySet DEF Count
<1>2. SectionsOf(s) \in Seq(SectionType) /\ Len(SectionsOf(s)) = 0
    BY <1>1, SectionsAt
<1> HIDE DEF SectionType
<1>3. SectionsOf(s) = <<>>
    BY <1>2, EmptySeq
<1> QED BY <1>1, <1>3

LEMMA EmptyIs ==
    /\ <<>> \in Seq(Piece) /\ AllBlank(<<>>) /\ Closed(<<>>) /\ ~Open(<<>>)
    /\ Headers(<<>>) = {} /\ Count(<<>>) = 0 /\ SectionsOf(<<>>) = <<>>
<1>1. <<>> \in Seq(Piece) /\ AllBlank(<<>>)
    BY EmptySeq DEF AllBlank
<1>2. Closed(<<>>) /\ Headers(<<>>) = {}
    BY <1>1, BlankClosed
<1> QED BY <1>1, <1>2, NoneIs DEF Closed, Open

\* S is a section, Z blanks behind it, and C the sections that follow.
Quarters(A, S, Z, C) ==
    /\ A \in Seq(Piece) /\ S \in Seq(Piece) /\ Z \in Seq(Piece) /\ C \in Seq(Piece)
    /\ Closed(A) /\ Headed(S) /\ AllBlank(Z)
    /\ C = <<>> \/ (Headed(C) /\ Closed(S))

LEMMA PartsView ==
    ASSUME NEW A, NEW S, NEW Z, NEW C, Quarters(A, S, Z, C)
    PROVE  /\ A \o (S \o (Z \o C)) \in Seq(Piece)
           /\ View(A \o (S \o (Z \o C)))
                = [preamble |-> Preamble(A),
                   sections |-> SectionsOf(A) \o (SectionsOf(S) \o SectionsOf(C)),
                   open     |-> IF C = <<>> THEN Open(S) ELSE Open(C)]
<1> USE DEF Quarters
<1> DEFINE R == S \o (Z \o C)
<1>1. Z \o C \in Seq(Piece) /\ S \o Z \in Seq(Piece) /\ R \in Seq(Piece) /\ A \o R \in Seq(Piece)
    BY ConcatProperties
<1>2. Headed(R)
    <2>1. Len(S) >= 1 /\ Len(S) \in Nat
        BY HeadedIs, LenProperties
    <2>2. 1 \in 1..Len(S)
        BY <2>1
    <2>3. R[1] = S[1]
        BY <1>1, <2>2, HalvesIs
    <2>4. R # <<>>
        BY <1>1, ConcatEqualIffEmpty, ConcatSimplifications DEF Headed
    <2> HIDE DEF R
    <2> QED BY <2>3, <2>4 DEF Headed
<1>3. SectionsOf(R) = SectionsOf(S) \o SectionsOf(C) /\ Open(R) = IF C = <<>> THEN Open(S) ELSE Open(C)
    <2>1. View(S \o Z) = View(S) /\ (Closed(S \o Z) <=> Closed(S))
        BY BlankTail
    <2>2. SectionsOf(S \o Z) = SectionsOf(S) /\ Open(S \o Z) = Open(S)
        <3>1. /\ View(S \o Z).sections = SectionsOf(S \o Z) /\ View(S).sections = SectionsOf(S)
              /\ View(S \o Z).open = Open(S \o Z) /\ View(S).open = Open(S)
            BY DEF View, Open
        <3> QED BY <2>1, <3>1
    <2>3. CASE C = <<>>
        <3>1. R = S \o Z
            BY <2>3, ConcatEmptySeq
        <3>2. SectionsOf(C) = <<>> /\ SectionsOf(S) \in Seq(SectionType)
            BY <2>3, EmptyIs, SectionsAt
        <3>3. SectionsOf(S) \o <<>> = SectionsOf(S)
            BY <3>2, ConcatEmptySeq
        <3> QED BY <2>2, <2>3, <3>1, <3>2, <3>3
    <2>4. CASE C # <<>>
        <3>1. R = (S \o Z) \o C
            BY Regroup, Zenon
        <3>2. Headed(C) /\ Closed(S \o Z)
            BY <2>1, <2>4
        <3>3. SectionsOf(R) = SectionsOf(S \o Z) \o SectionsOf(C) /\ Open(R) = Open(C)
            <4> DEFINE D == S \o Z
                       E == D \o C
            <4>1. D \in Seq(Piece) /\ C \in Seq(Piece) /\ Closed(D) /\ Headed(C) /\ R = E
                BY <1>1, <3>1, <3>2
            <4> HIDE DEF D, R
            <4>2. SectionsOf(E) = SectionsOf(D) \o SectionsOf(C) /\ Open(E) = Open(C)
                <5> HIDE DEF Quarters
                <5> QED BY <4>1, ConcatSections DEF Open
            <4> HIDE DEF E
            <4> QED BY <4>1, <4>2, Zenon DEF D
        <3> QED BY <2>2, <2>4, <3>3
    <2> QED BY <2>3, <2>4
<1>4. /\ SectionsOf(A \o R) = SectionsOf(A) \o SectionsOf(R)
      /\ Preamble(A \o R) = Preamble(A) /\ Open(A \o R) = Open(R)
    BY <1>1, <1>2, ConcatSections DEF Open
<1>5. View(A \o R) = [preamble |-> Preamble(A \o R), sections |-> SectionsOf(A \o R), open |-> Open(A \o R)]
    BY DEF View, Open
<1> HIDE DEF R
<1> QED BY <1>1, <1>3, <1>4, <1>5 DEF R

LEMMA PartsOf ==
    ASSUME NEW s \in Seq(Piece), NEW p \in 1..Count(s)
    PROVE  \E A, S, Z, C :
              /\ Quarters(A, S, Z, C) /\ s = A \o (S \o (Z \o C))
              /\ Count(A) = p - 1 /\ Headers(S) = {1}
              /\ A = SubSeq(s, 1, Starts(s)[p] - 1)
              /\ Z \o C = SubSeq(s, Stop(s, Starts(s)[p]) + 1, Len(s))
<1> DEFINE h == Starts(s)[p]
           m == Stop(s, h)
           e == EndOf(s, h)
           n == Len(s)
           A == SubSeq(s, 1, h - 1)
           S == SubSeq(s, h, m)
           Z == SubSeq(s, m + 1, e)
           C == SubSeq(s, e + 1, n)
<1>1. h \in Headers(s)
    BY StartsIs
<1>2. /\ h \in Nat /\ h >= 1 /\ h <= m /\ m \in Nat /\ m <= e /\ e \in Nat /\ e <= n /\ n \in Nat
      /\ \A k \in (m + 1)..e : IsBlank(s[k])
    BY <1>1, StopIs
<1>3. (e = n \/ e + 1 \in Headers(s)) /\ \A x \in Headers(s) : x > h => x > e
    <2>1. h \in 0..n
        BY <1>2
    <2> QED BY <2>1, EndOfIs
<1>4. IsHead(s[h]) /\ ~Fenced(s, h)
    BY <1>1, HeadersIs
<1> HIDE DEF h, m, e, n
<1>5. A \in Seq(Piece) /\ Len(A) = h - 1
    <2>1. 1 \in Nat /\ 1 >= 1 /\ h - 1 \in Int /\ h - 1 <= Len(s)
        BY <1>2 DEF n
    <2>2. A \in Seq(Piece) /\ Len(A) = IF 1 <= h - 1 THEN h - 1 - 1 + 1 ELSE 0
        BY <2>1, SubType
    <2> QED BY <1>2, <2>2
<1>6. S \in Seq(Piece) /\ Len(S) = m - h + 1 /\ S[1] = s[h]
    <2>1. h \in Nat /\ h >= 1 /\ m \in Int /\ m <= Len(s)
        BY <1>2 DEF n
    <2>2. /\ S \in Seq(Piece) /\ Len(S) = IF h <= m THEN m - h + 1 ELSE 0
          /\ \A i \in 1..(m - h + 1) : S[i] = s[h + i - 1]
        BY <2>1, SubType
    <2>3. 1 \in 1..(m - h + 1) /\ h + 1 - 1 = h
        BY <1>2
    <2> QED BY <1>2, <2>2, <2>3
<1>7. Z \in Seq(Piece) /\ Len(Z) = e - m /\ AllBlank(Z)
    <2>1. m + 1 \in Nat /\ m + 1 >= 1 /\ e \in Int /\ e <= Len(s)
        BY <1>2 DEF n
    <2>2. /\ Z \in Seq(Piece) /\ Len(Z) = IF m + 1 <= e THEN e - (m + 1) + 1 ELSE 0
          /\ \A i \in 1..(e - (m + 1) + 1) : Z[i] = s[(m + 1) + i - 1]
        BY <2>1, SubType
    <2>3. Len(Z) = e - m
        BY <1>2, <2>2
    <2>4. ASSUME NEW i \in 1..(e - m) PROVE IsBlank(Z[i])
        <3>1. i \in 1..(e - (m + 1) + 1) /\ (m + 1) + i - 1 \in (m + 1)..e
            BY <1>2
        <3> QED BY <1>2, <2>2, <3>1
    <2>5. DOMAIN Z = 1..(e - m)
        BY <2>2, <2>3, LenProperties
    <2> HIDE DEF Z
    <2> QED BY <2>2, <2>3, <2>4, <2>5 DEF AllBlank
<1>8. C \in Seq(Piece) /\ (e < n => Len(C) >= 1 /\ C[1] = s[e + 1]) /\ (e = n => C = <<>>)
    <2>1. e + 1 \in Nat /\ e + 1 >= 1 /\ n \in Int /\ n <= Len(s)
        BY <1>2 DEF n
    <2>2. /\ C \in Seq(Piece) /\ Len(C) = IF e + 1 <= n THEN n - (e + 1) + 1 ELSE 0
          /\ \A i \in 1..(n - (e + 1) + 1) : C[i] = s[(e + 1) + i - 1]
        BY <2>1, SubType
    <2>3. e < n => 1 \in 1..(n - (e + 1) + 1) /\ (e + 1) + 1 - 1 = e + 1
        BY <1>2
    <2>4. e < n => Len(C) >= 1
        BY <1>2, <2>2
    <2>5. e = n => C = <<>>
        <3>1. e = n => n < e + 1 /\ e + 1 \in Int /\ n \in Int
            BY <1>2
        <3> QED BY <3>1, SubSeqEmpty
    <2> QED BY <2>2, <2>3, <2>4, <2>5
<1>9. Z \o C = SubSeq(s, m + 1, n)
    <2>1. m + 1 \in 1..Len(s) + 1 /\ e \in (m + 1) - 1..Len(s) /\ n \in e..Len(s)
        BY <1>2 DEF n
    <2> QED BY <2>1, ConcatAdjacentSubSeq
<1>10. S \o (Z \o C) = SubSeq(s, h, n)
    <2>1. h \in 1..Len(s) + 1 /\ m \in h - 1..Len(s) /\ n \in m..Len(s)
        BY <1>2 DEF n
    <2> QED BY <1>9, <2>1, ConcatAdjacentSubSeq
<1>11. A \o (S \o (Z \o C)) = s
    <2>1. 1 \in 1..Len(s) + 1 /\ h - 1 \in 1 - 1..Len(s) /\ n \in h - 1..Len(s) /\ (h - 1) + 1 = h
        BY <1>2 DEF n
    <2>2. A \o SubSeq(s, h, n) = SubSeq(s, 1, n)
        BY <2>1, ConcatAdjacentSubSeq
    <2> QED BY <1>10, <2>2, SubSeqFull DEF n
<1> HIDE DEF A, S, Z, C
<1>12. Z \o C \in Seq(Piece) /\ S \o Z \in Seq(Piece) /\ S \o (Z \o C) \in Seq(Piece)
    BY <1>6, <1>7, <1>8, ConcatProperties
<1>13. Closed(A)
    <2>1. h \in 1..(Len(A) + 1) /\ Len(A) + 1 = h
        BY <1>2, <1>5
    <2>2. Fenced(s, h) <=> Fenced(A, h)
        BY <1>5, <1>11, <1>12, <2>1, FencedPrefix
    <2> QED BY <1>4, <2>1, <2>2 DEF Closed
<1>14. Headed(S)
    <2>1. S # <<>>
        <3>1. Len(S) # 0
            BY <1>2, <1>6
        <3> QED BY <3>1, EmptySeq
    <2> QED BY <1>4, <1>6, <2>1 DEF Headed
<1>15. Headers(S) = {1}
    <2>1. 1 \in Headers(S)
        BY <1>6, <1>14, HeadedIs
    <2>2. ASSUME NEW x \in Headers(S) PROVE x = 1
        <3>1. x \in Nat /\ x >= 1 /\ x <= Len(S)
            BY <1>6, HeadersIs
        <3>2. x \in Headers(S \o (Z \o C))
            BY <1>6, <1>12, HeadersPrefix, ZenonT(40)
        <3>3. Len(A) + x \in Headers(s)
            <4>1. Headers(A \o (S \o (Z \o C))) = Headers(A) \union Shift(Len(A), Headers(S \o (Z \o C)))
                BY <1>5, <1>12, <1>13, HeadersConcat
            <4>2. Len(A) + x \in Shift(Len(A), Headers(S \o (Z \o C)))
                BY <3>2 DEF Shift
            <4> QED BY <1>11, <4>1, <4>2
        <3>4. ~(Len(A) + x > e)
            BY <1>2, <1>5, <1>6, <3>1
        <3>5. ~(Len(A) + x > h)
            BY <1>3, <3>3, <3>4
        <3> QED BY <1>2, <1>5, <3>1, <3>5
    <2> QED BY <2>1, <2>2
<1>16. Count(A) = p - 1
    <2> DEFINE X == S \o (Z \o C)
    <2>1. Headed(X)
        <3>1. X[1] = S[1]
            <4>1. 1 \in 1..Len(S)
                BY <1>2, <1>6
            <4> QED BY <1>6, <1>12, <4>1, HalvesIs
        <3>2. X # <<>>
            BY <1>6, <1>12, <1>14, ConcatEqualIffEmpty, ConcatSimplifications DEF Headed
        <3> QED BY <1>14, <3>1, <3>2 DEF Headed
    <2>2. X \in Seq(Piece) /\ A \o X = s
        BY <1>11, <1>12
    <2> HIDE DEF X
    <2>3. Count(X) >= 1 /\ Starts(X)[1] = 1 /\ Count(X) \in Nat /\ Count(A) \in Nat
        BY <1>5, <2>1, <2>2, HeadedIs, StartsIs
    <2>4. 1 \in 1..Count(X)
        BY <2>3
    <2>5. Count(s) = Count(A) + Count(X) /\ Starts(s)[Count(A) + 1] = Len(A) + 1
        <3>1. /\ Count(A \o X) = Count(A) + Count(X)
              /\ \A q \in 1..Count(X) : Starts(A \o X)[Count(A) + q] = Len(A) + Starts(X)[q]
            BY <1>5, <1>13, <2>2, StartsConcat
        <3> QED BY <2>2, <2>3, <2>4, <3>1
    <2>6. Starts(s)[Count(A) + 1] = Starts(s)[p] /\ Count(A) + 1 \in 1..Count(s) /\ p \in Nat
        <3>1. p \in Nat
            OBVIOUS
        <3>2. Len(A) + 1 = Starts(s)[p]
            BY <1>2, <1>5 DEF h
        <3>3. Count(A) + 1 \in 1..Count(s)
            BY <2>3, <2>5
        <3> QED BY <2>5, <3>1, <3>2, <3>3
    <2>7. ~(p < Count(A) + 1) /\ ~(Count(A) + 1 < p)
        <3>1. \A q \in 1..Count(s), r \in 1..Count(s) : q < r => Starts(s)[q] < Starts(s)[r]
            BY StartsIs
        <3>2. ~(Starts(s)[p] < Starts(s)[p])
            BY <1>2 DEF h
        <3> QED BY <2>6, <3>1, <3>2
    <2> QED BY <2>3, <2>6, <2>7
<1>17. C = <<>> \/ (Headed(C) /\ Closed(S))
    <2>1. CASE e = n
        BY <1>8, <2>1
    <2>2. CASE e + 1 \in Headers(s)
        <3>1. e + 1 <= n /\ IsHead(s[e + 1]) /\ ~Fenced(s, e + 1)
            BY <2>2, HeadersIs DEF n
        <3>2. e < n
            BY <1>2, <3>1
        <3>3. Headed(C)
            <4>1. C # <<>>
                BY <1>8, <3>2, EmptySeq
            <4> QED BY <1>8, <3>1, <3>2, <4>1 DEF Headed
        <3> DEFINE D == A \o (S \o Z)
        <3>4. D \in Seq(Piece) /\ Len(D) = e
            <4>1. /\ D \in Seq(Piece) /\ Len(D) = Len(A) + Len(S \o Z)
                  /\ Len(S \o Z) = Len(S) + Len(Z)
                BY <1>5, <1>6, <1>7, <1>12, ConcatProperties
            <4> QED BY <1>2, <1>5, <1>6, <1>7, <4>1
        <3>5. D \o C = s
            <4>1. (S \o Z) \o C = S \o (Z \o C)
                BY <1>6, <1>7, <1>8, Regroup
            <4>2. (A \o (S \o Z)) \o C = A \o ((S \o Z) \o C)
                BY <1>5, <1>8, <1>12, Regroup, ZenonT(40)
            <4> QED BY <1>11, <4>1, <4>2
        <3>6. Closed(D)
            <4> HIDE DEF D
            <4>1. e + 1 \in 1..(Len(D) + 1) /\ Len(D) + 1 = e + 1
                BY <1>2, <3>4
            <4>2. Fenced(s, e + 1) <=> Fenced(D, e + 1)
                BY <1>8, <3>4, <3>5, <4>1, FencedPrefix
            <4> QED BY <3>1, <4>1, <4>2 DEF Closed
        <3>7. Closed(S \o Z)
            BY <1>5, <1>12, <1>13, <3>6, ClosedConcat
        <3>8. Closed(S)
            BY <1>6, <1>7, <3>7, BlankTail
        <3> QED BY <3>3, <3>8
    <2> QED BY <1>3, <2>1, <2>2
<1>18. Quarters(A, S, Z, C)
    BY <1>5, <1>6, <1>7, <1>8, <1>13, <1>14, <1>17 DEF Quarters
<1>19. A = SubSeq(s, 1, Starts(s)[p] - 1) /\ Z \o C = SubSeq(s, Stop(s, Starts(s)[p]) + 1, Len(s))
    BY <1>9 DEF A, h, m, n
<1> QED BY <1>11, <1>15, <1>16, <1>18, <1>19

(***************************************************************************)
(* A line end more or less does not show.                                  *)
(***************************************************************************)
LEMMA LinesSame ==
    ASSUME NEW t \in Seq(Plain), t # <<>>
    PROVE  SplitLines(t) = NoEnd(t) /\ NoEnd(t) \in Seq(Plain)
<1>1. t \in Seq(Written) /\ Blank \in Plain
    BY PlainIsPiece, PieceIs
<1>2. SplitLines(t) = NoEnd(Split(t, "cut")) /\ SplitLines(t) \in Seq(Plain)
    BY <1>1, SplitLinesIs
<1>3. \A i \in 1..Len(t) : t[i][1] # "cut"
    BY ElementOfSeq, PlainIs
<1>4. Split(t, "cut") = t
    BY <1>3, SplitSame
<1> QED BY <1>2, <1>4

LEMMA JoinedView ==
    ASSUME NEW R \in Seq(Plain) PROVE View(SplitLines(Joined(R))) = View(R)
<1> DEFINE t == Joined(R)
           u == NoEnd(t)
<1>1. t \in Seq(Plain) /\ t # <<>> /\ SplitLines(t) = u /\ u \in Seq(Plain)
    BY JoinedType, LinesSame
<1>2. R \in Seq(Piece) /\ u \in Seq(Piece)
    BY <1>1, PlainIsPiece
<1>3. \/ R = <<>> /\ t = <<Blank>> \o <<Blank>>
      \/ R # <<>> /\ t = R /\ t[Len(t)] = Blank
      \/ R # <<>> /\ t = R \o <<Blank>>
    <2>1. CASE R = <<>>
        <3>1. Joined(R) = IF Len(<<Blank>>) > 1 /\ Last(<<Blank>>) = Blank
                          THEN <<Blank>> ELSE Append(<<Blank>>, Blank)
            BY <2>1 DEF Joined
        <3>2. Len(<<Blank>>) = 1 /\ Append(<<Blank>>, Blank) = <<Blank>> \o <<Blank>>
            OBVIOUS
        <3> QED BY <2>1, <3>1, <3>2
    <2>2. CASE R # <<>>
        <3>1. Joined(R) = IF Len(R) > 1 /\ Last(R) = Blank THEN R ELSE Append(R, Blank)
            BY <2>2, Zenon DEF Joined
        <3>2. Append(R, Blank) = R \o <<Blank>>
            BY OneBlank, AppendIsConcat
        <3> QED BY <2>2, <3>1, <3>2 DEF Last
    <2> QED BY <2>1, <2>2
<1>4. t[Len(t)] = Blank => t = u \o <<Blank>>
    BY <1>1, OneBlank, NoEndIs
<1>5. ASSUME NEW s \in Seq(Piece), t = s \o <<Blank>> PROVE u = s
    <2>1. t[Len(t)] = Blank
        <3>1. 1 \in 1..Len(<<Blank>>) /\ Len(<<Blank>>) = 1 /\ <<Blank>>[1] = Blank
            OBVIOUS
        <3> QED BY <1>5, <3>1, OneBlank, HalvesIs
    <2>2. s \o <<Blank>> = u \o <<Blank>>
        BY <1>4, <1>5, <2>1
    <2> HIDE DEF u
    <2> QED BY <1>2, <2>2, OneBlank, ConcatSimplifications
<1> HIDE DEF t, u
<1>6. CASE R = <<>> /\ t = <<Blank>> \o <<Blank>>
    <2>1. u = <<>> \o <<Blank>>
        BY <1>5, <1>6, OneBlank, ConcatEmptySeq
    <2>2. View(<<>> \o <<Blank>>) = View(<<>>)
        BY EmptyIs, OneBlank, BlankTail
    <2> QED BY <1>1, <1>6, <2>1, <2>2 DEF t
<1>7. CASE t = R /\ t[Len(t)] = Blank
    <2>1. View(u \o <<Blank>>) = View(u)
        BY <1>2, OneBlank, BlankTail
    <2> QED BY <1>1, <1>4, <1>7, <2>1 DEF t
<1>8. CASE t = R \o <<Blank>>
    BY <1>1, <1>2, <1>5, <1>8 DEF t
<1> QED BY <1>3, <1>6, <1>7, <1>8

(***************************************************************************)
(* Sequences of sections                                                   *)
(***************************************************************************)
LEMMA BeginningIs ==
    ASSUME NEW T, NEW X \in Seq(T), NEW Y \in Seq(T)
    PROVE  SubSeq(X \o Y, 1, Len(X)) = X
<1>1. Len(X) \in Nat /\ \A i \in 1..Len(X) : (X \o Y)[i] = X[i]
    BY LenProperties, ConcatProperties
<1>2. CASE Len(X) = 0
    <2>1. X = <<>> /\ SubSeq(X \o Y, 1, 0) = <<>>
        BY <1>2, EmptySeq, SubSeqEmpty
    <2> QED BY <1>2, <2>1
<1>3. CASE Len(X) # 0
    <2>1. 1 \in 1..Len(X) /\ Len(X) \in 1..Len(X)
        BY <1>1, <1>3
    <2>2. SubSeq(X \o Y, 1, Len(X)) = SubSeq(X, 1, Len(X))
        BY <2>1, SubSeqOfConcat1
    <2> QED BY <2>2, SubSeqFull
<1> QED BY <1>2, <1>3

LEMMA MiddleIs ==
    ASSUME NEW T, NEW X \in Seq(T), NEW Y \in Seq(T), NEW o \in T
    PROVE  /\ X \o (<<o>> \o Y) \in Seq(T) /\ Len(X) \in Nat /\ Len(Y) \in Nat
           /\ Len(X \o (<<o>> \o Y)) = Len(X) + 1 + Len(Y)
           /\ \A i \in 1..Len(X) : (X \o (<<o>> \o Y))[i] = X[i]
           /\ (X \o (<<o>> \o Y))[Len(X) + 1] = o
           /\ \A i \in 1..Len(Y) : (X \o (<<o>> \o Y))[Len(X) + 1 + i] = Y[i]
<1>1. <<o>> \in Seq(T) /\ Len(<<o>>) = 1 /\ <<o>>[1] = o
    OBVIOUS
<1>2. Len(X) \in Nat /\ Len(Y) \in Nat
    BY LenProperties
<1> DEFINE M == <<o>> \o Y
<1>3. M \in Seq(T) /\ Len(M) = 1 + Len(Y) /\ \A i \in 1..(1 + Len(Y)) : M[i] = IF i <= 1 THEN <<o>>[i] ELSE Y[i - 1]
    BY <1>1, ConcatProperties
<1>4. M[1] = o /\ \A i \in 1..Len(Y) : M[1 + i] = Y[i]
    <2>1. 1 \in 1..(1 + Len(Y))
        BY <1>2
    <2>2. ASSUME NEW i \in 1..Len(Y) PROVE M[1 + i] = Y[i]
        <3>1. 1 + i \in 1..(1 + Len(Y)) /\ ~(1 + i <= 1) /\ (1 + i) - 1 = i
            BY <1>2
        <3> QED BY <1>3, <3>1
    <2> QED BY <1>1, <1>3, <2>1, <2>2
<1> HIDE DEF M
<1>5. /\ X \o M \in Seq(T) /\ Len(X \o M) = Len(X) + Len(M)
      /\ \A i \in 1..(Len(X) + Len(M)) : (X \o M)[i] = IF i <= Len(X) THEN X[i] ELSE M[i - Len(X)]
    BY <1>3, ConcatProperties
<1>6. \A i \in 1..Len(X) : (X \o M)[i] = X[i]
    BY <1>2, <1>3, <1>5
<1>7. ASSUME NEW j \in 1..(1 + Len(Y)) PROVE (X \o M)[Len(X) + j] = M[j]
    <2>1. Len(X) + j \in 1..(Len(X) + Len(M)) /\ ~(Len(X) + j <= Len(X)) /\ (Len(X) + j) - Len(X) = j
        BY <1>2, <1>3
    <2> QED BY <1>5, <2>1
<1>8. (X \o M)[Len(X) + 1] = o
    <2>1. 1 \in 1..(1 + Len(Y))
        BY <1>2
    <2> QED BY <1>4, <1>7, <2>1
<1>9. ASSUME NEW i \in 1..Len(Y) PROVE (X \o M)[Len(X) + 1 + i] = Y[i]
    <2>1. 1 + i \in 1..(1 + Len(Y)) /\ Len(X) + 1 + i = Len(X) + (1 + i)
        BY <1>2
    <2> QED BY <1>4, <1>7, <2>1
<1>10. Len(X \o M) = Len(X) + 1 + Len(Y)
    BY <1>2, <1>3, <1>5
<1> QED BY <1>2, <1>5, <1>6, <1>8, <1>9, <1>10 DEF M

Around(X, o, Y) == X \o (<<o>> \o Y)

LEMMA ReplaceMiddle ==
    ASSUME NEW T, NEW X \in Seq(T), NEW Y \in Seq(T), NEW o \in T, NEW r \in T
    PROVE  ReplaceAt(Around(X, o, Y), Len(X) + 1, r) = Around(X, r, Y)
<1> DEFINE U == X \o (<<o>> \o Y)
           V == X \o (<<r>> \o Y)
           k == Len(X) + 1
           n == Len(X) + 1 + Len(Y)
<1>1. /\ U \in Seq(T) /\ Len(X) \in Nat /\ Len(Y) \in Nat /\ Len(U) = n
      /\ \A i \in 1..Len(X) : U[i] = X[i]
      /\ \A i \in 1..Len(Y) : U[k + i] = Y[i]
    BY MiddleIs
<1>2. /\ V \in Seq(T) /\ Len(V) = n /\ V[k] = r
      /\ \A i \in 1..Len(X) : V[i] = X[i]
      /\ \A i \in 1..Len(Y) : V[k + i] = Y[i]
    BY MiddleIs
<1> HIDE DEF U, V
<1>3. k \in 1..n
    BY <1>1
<1>4. ASSUME NEW i \in 1..n, i # k PROVE U[i] = V[i]
    <2>1. i \in 1..Len(X) \/ (i - k \in 1..Len(Y) /\ i = k + (i - k))
        BY <1>1, <1>4
    <2> QED BY <1>1, <1>2, <2>1
<1>5. /\ [U EXCEPT ![k] = r] \in Seq(T) /\ Len([U EXCEPT ![k] = r]) = n
      /\ \A i \in 1..n : [U EXCEPT ![k] = r][i] = IF i = k THEN r ELSE U[i]
    <2> HIDE DEF k, n
    <2> QED BY <1>1, <1>3, ExceptSeq
<1> HIDE DEF k, n
<1>6. ASSUME NEW i \in 1..n PROVE [U EXCEPT ![k] = r][i] = V[i]
    BY <1>2, <1>4, <1>5
<1>7. [U EXCEPT ![k] = r] = V
    BY <1>2, <1>5, <1>6, SeqEqual
<1> QED BY <1>7 DEF Around, ReplaceAt, U, V, k

LEMMA RemoveMiddle ==
    ASSUME NEW T, NEW X \in Seq(T), NEW Y \in Seq(T), NEW o \in T
    PROVE  RemoveAt(X \o (<<o>> \o Y), Len(X) + 1) = X \o Y
<1> DEFINE U == X \o (<<o>> \o Y)
           n == Len(X)
<1>1. /\ U \in Seq(T) /\ n \in Nat /\ Len(Y) \in Nat /\ Len(U) = n + 1 + Len(Y)
      /\ \A i \in 1..Len(Y) : U[n + 1 + i] = Y[i]
    BY MiddleIs
<1>2. <<o>> \o Y \in Seq(T)
    BY ConcatProperties
<1>3. SubSeq(U, 1, n) = X
    BY <1>2, BeginningIs
<1> HIDE DEF U
<1>4. SubSeq(U, n + 2, Len(U)) = Y
    <2>1. n + 2 \in Nat /\ n + 2 >= 1 /\ Len(U) \in Int /\ Len(U) <= Len(U)
        BY <1>1
    <2>2. /\ SubSeq(U, n + 2, Len(U)) \in Seq(T)
          /\ Len(SubSeq(U, n + 2, Len(U))) = IF n + 2 <= Len(U) THEN Len(U) - (n + 2) + 1 ELSE 0
          /\ \A i \in 1..(Len(U) - (n + 2) + 1) : SubSeq(U, n + 2, Len(U))[i] = U[(n + 2) + i - 1]
        BY <1>1, <2>1, SubType
    <2>3. Len(SubSeq(U, n + 2, Len(U))) = Len(Y)
        BY <1>1, <2>2
    <2>4. ASSUME NEW i \in 1..Len(Y) PROVE SubSeq(U, n + 2, Len(U))[i] = Y[i]
        <3>1. i \in 1..(Len(U) - (n + 2) + 1) /\ (n + 2) + i - 1 = n + 1 + i
            BY <1>1
        <3> QED BY <1>1, <2>2, <3>1
    <2> DEFINE V == SubSeq(U, n + 2, Len(U))
    <2> HIDE DEF V
    <2>5. V \in Seq(T) /\ Len(V) = Len(Y) /\ \A i \in 1..Len(V) : V[i] = Y[i]
        BY <2>2, <2>3, <2>4 DEF V
    <2>6. V = Y
        BY <2>5, SeqEqual
    <2> QED BY <2>6 DEF V
<1>5. (n + 1) - 1 = n /\ (n + 1) + 1 = n + 2
    BY <1>1
<1>6. RemoveAt(U, n + 1) = SubSeq(U, 1, (n + 1) - 1) \o SubSeq(U, (n + 1) + 1, Len(U))
    BY DEF RemoveAt
<1> HIDE DEF n
<1> QED BY <1>3, <1>4, <1>5, <1>6 DEF U, n

(***************************************************************************)
(* Which section an edit finds                                             *)
(***************************************************************************)
LEMMA NamedIs ==
    ASSUME NEW s \in Seq(Piece), NEW n
    PROVE  /\ Promise!Named(SectionsOf(s), n) = {p \in 1..Count(s) : NameOf(s[Starts(s)[p]]) = n}
           /\ Promise!Named(SectionsOf(s), n) = {} <=> Found(s, n) = {}
<1>1. DOMAIN SectionsOf(s) = 1..Count(s)
    BY SectionsAt
<1>2. ASSUME NEW p \in 1..Count(s) PROVE SectionsOf(s)[p].name = n <=> NameOf(s[Starts(s)[p]]) = n
    <2>1. SectionsOf(s)[p] = Section(s, Starts(s)[p])
        BY SectionsAt
    <2>2. SectionsOf(s)[p].name = NameOf(s[Starts(s)[p]])
        BY <2>1 DEF Section
    <2> QED BY <2>2
<1>3. Promise!Named(SectionsOf(s), n) = {p \in 1..Count(s) : NameOf(s[Starts(s)[p]]) = n}
    BY <1>1, <1>2 DEF Promise!Named
<1>4. ASSUME NEW h \in Found(s, n) PROVE \E p \in 1..Count(s) : NameOf(s[Starts(s)[p]]) = n
    <2>1. h \in Headers(s) /\ NameOf(s[h]) = n
        BY DEF Found
    <2>2. PICK p \in 1..Count(s) : Starts(s)[p] = h
        BY <2>1, StartsIs
    <2> QED BY <2>1, <2>2
<1>5. ASSUME NEW p \in 1..Count(s), NameOf(s[Starts(s)[p]]) = n PROVE Starts(s)[p] \in Found(s, n)
    <2>1. Starts(s)[p] \in Headers(s)
        BY StartsIs, SMTT(30)
    <2> QED BY <1>5, <2>1 DEF Found
<1> QED BY <1>3, <1>4, <1>5

\* The text around the section that an edit of n changes
Sited(s, n, A, S, Z, C) ==
    /\ Quarters(A, S, Z, C) /\ s = A \o (S \o (Z \o C)) /\ Headers(S) = {1}
    /\ SubSeq(s, 1, Bounds(s, n)[1] - 1) = A
    /\ SubSeq(s, Bounds(s, n)[2] + 1, Len(s)) = Z \o C
    /\ Promise!First(SectionsOf(s), n) = Count(A) + 1

LEMMA SiteIs ==
    ASSUME NEW s \in Seq(Piece), NEW n, Found(s, n) # {}
    PROVE  \E A, S, Z, C : Sited(s, n, A, S, Z, C)
<1>1. PICK p \in 1..Count(s) :
        /\ Bounds(s, n) = <<Starts(s)[p], Stop(s, Starts(s)[p])>>
        /\ NameOf(s[Starts(s)[p]]) = n
        /\ \A q \in 1..(p - 1) : NameOf(s[Starts(s)[q]]) # n
    BY FoundIs
<1>2. PICK A, S, Z, C :
        /\ Quarters(A, S, Z, C) /\ s = A \o (S \o (Z \o C))
        /\ Count(A) = p - 1 /\ Headers(S) = {1}
        /\ A = SubSeq(s, 1, Starts(s)[p] - 1)
        /\ Z \o C = SubSeq(s, Stop(s, Starts(s)[p]) + 1, Len(s))
    BY PartsOf
<1>3. Bounds(s, n)[1] = Starts(s)[p] /\ Bounds(s, n)[2] = Stop(s, Starts(s)[p])
    BY <1>1
<1>4. Promise!First(SectionsOf(s), n) = p
    <2> DEFINE is == Promise!Named(SectionsOf(s), n)
    <2>1. is = {q \in 1..Count(s) : NameOf(s[Starts(s)[q]]) = n} /\ Count(s) \in Nat
        BY NamedIs, StartsIs
    <2>2. p \in is
        BY <1>1, <2>1
    <2>3. ASSUME NEW q \in is PROVE p <= q
        <3>1. q \in Nat /\ p \in Nat /\ q >= 1
            BY <2>1
        <3>2. ~(q < p)
            BY <1>1, <2>1, <3>1
        <3> QED BY <3>1, <3>2
    <2>4. is \in SUBSET Nat
        BY <2>1
    <2>5. Promise!First(SectionsOf(s), n) = CHOOSE i \in is : \A j \in is : i <= j
        BY DEF Promise!First
    <2> HIDE DEF is
    <2>6. PICK q : q = CHOOSE i \in is : \A j \in is : i <= j
        OBVIOUS
    <2>7. q \in is /\ \A j \in is : q <= j
        BY <2>2, <2>3, <2>6, Zenon
    <2>8. q <= p /\ p <= q /\ q \in Nat /\ p \in Nat
        BY <2>2, <2>3, <2>4, <2>7
    <2> QED BY <2>5, <2>6, <2>8
<1>5. p = Count(A) + 1
    <2>1. p \in Nat
        <3>1. Count(s) \in Nat
            BY StartsIs
        <3> QED BY <3>1
    <2>2. A \in Seq(Piece)
        <3>1. Quarters(A, S, Z, C)
            BY <1>2, ZenonT(40)
        <3> QED BY <3>1 DEF Quarters
    <2>3. Count(A) \in Nat /\ Count(A) = p - 1
        BY <1>2, <2>2, StartsIs
    <2> QED BY <2>1, <2>3
<1>6. Promise!First(SectionsOf(s), n) = Count(A) + 1
    BY <1>4, <1>5
<1> QED BY <1>2, <1>3, <1>6 DEF Sited

LEMMA OneSection ==
    ASSUME NEW t \in Seq(Piece), Headers(t) = {1}
    PROVE  SectionsOf(t)[1] \in SectionType /\ SectionsOf(t) = <<SectionsOf(t)[1]>>
<1>1. Count(t) = 1
    <2>1. Cardinality({1}) = 1
        BY FS_Singleton
    <2> QED BY <2>1 DEF Count
<1>2. SectionsOf(t) \in Seq(SectionType) /\ Len(SectionsOf(t)) = 1
    BY <1>1, SectionsAt
<1> DEFINE U == SectionsOf(t)
<1> HIDE DEF U, SectionType
<1>3. U \in Seq(SectionType) /\ Len(U) = 1
    BY <1>2 DEF U
<1>4. U[1] \in SectionType
    <2>1. 1 \in 1..Len(U)
        BY <1>3
    <2> QED BY <1>3, <2>1, ElementOfSeq
<1>5. U = <<U[1]>>
    BY <1>3, <1>4
<1> QED BY <1>4, <1>5 DEF U

\* The view of a text whose section S is to change
Divided(s, A, S, C) ==
    /\ SectionsOf(A) \in Seq(SectionType) /\ SectionsOf(C) \in Seq(SectionType)
    /\ SectionsOf(S)[1] \in SectionType
    /\ Preamble(s) = Preamble(A)
    /\ SectionsOf(s) = SectionsOf(A) \o (<<SectionsOf(S)[1]>> \o SectionsOf(C))
    /\ Open(s) = IF C = <<>> THEN Open(S) ELSE Open(C)
    /\ C = <<>> <=> Len(SectionsOf(C)) = 0
    /\ Len(SectionsOf(C)) \in Nat

LEMMA SitedView ==
    ASSUME NEW s \in Seq(Piece), NEW n, NEW A, NEW S, NEW Z, NEW C, Sited(s, n, A, S, Z, C)
    PROVE  Divided(s, A, S, C)
<1>0. /\ A \in Seq(Piece) /\ S \in Seq(Piece) /\ Z \in Seq(Piece) /\ C \in Seq(Piece)
      /\ Closed(A) /\ AllBlank(Z) /\ Headers(S) = {1} /\ Quarters(A, S, Z, C)
      /\ (C = <<>> \/ Headed(C)) /\ s = A \o (S \o (Z \o C))
      /\ SubSeq(s, 1, Bounds(s, n)[1] - 1) = A
      /\ SubSeq(s, Bounds(s, n)[2] + 1, Len(s)) = Z \o C
    BY DEF Sited, Quarters
<1>1. View(s) = [preamble |-> Preamble(A),
                 sections |-> SectionsOf(A) \o (SectionsOf(S) \o SectionsOf(C)),
                 open     |-> IF C = <<>> THEN Open(S) ELSE Open(C)]
    BY <1>0, PartsView, SMTT(30)
<1>2. /\ Preamble(s) = Preamble(A) /\ SectionsOf(s) = SectionsOf(A) \o (SectionsOf(S) \o SectionsOf(C))
      /\ Open(s) = IF C = <<>> THEN Open(S) ELSE Open(C)
    <2>1. View(s).preamble = Preamble(s) /\ View(s).sections = SectionsOf(s) /\ View(s).open = Open(s)
        BY DEF View, Open
    <2> QED BY <1>1, <2>1
<1>3. C = <<>> <=> Len(SectionsOf(C)) = 0
    <2>1. Len(SectionsOf(C)) = Count(C) /\ Count(C) \in Nat
        BY <1>0, SectionsAt, StartsIs
    <2>2. C # <<>> => Count(C) >= 1
        BY <1>0, HeadedIs
    <2>3. C = <<>> => Count(C) = 0
        BY EmptyIs
    <2> QED BY <2>1, <2>2, <2>3
<1>4. /\ SectionsOf(C) \in Seq(SectionType) /\ Len(SectionsOf(C)) \in Nat
      /\ SectionsOf(S)[1] \in SectionType
      /\ SectionsOf(s) = SectionsOf(A) \o (<<SectionsOf(S)[1]>> \o SectionsOf(C))
    <2>1. SectionsOf(C) \in Seq(SectionType) /\ Len(SectionsOf(C)) \in Nat
        BY <1>0, SectionsAt, StartsIs
    <2>2. SectionsOf(S)[1] \in SectionType /\ SectionsOf(S) = <<SectionsOf(S)[1]>>
        BY <1>0, OneSection
    <2> QED BY <1>2, <2>1, <2>2
<1> QED BY <1>0, <1>2, <1>3, <1>4, SectionsAt DEF Divided

\* The views before, s, and after, t, the section behind A becomes b
Rewrites(s, t, b, A) ==
    /\ Preamble(t) = Preamble(s)
    /\ \E Y \in Seq(SectionType) :
          SectionsOf(t) = SectionsOf(A) \o Y /\ Len(Y) >= 1 /\ Y[1].name = NameOf(b[1])
    /\ \E Y \in Seq(SectionType), o \in SectionType :
          /\ SectionsOf(s) = SectionsOf(A) \o (<<o>> \o Y)
          /\ Sound(b) => SectionsOf(t) = SectionsOf(A) \o (<<SectionsOf(b)[1]>> \o Y)
          /\ Sound(b) => Open(t) = (Open(s) /\ Len(Y) > 0)

LEMMA ReplacedView ==
    ASSUME NEW s \in Seq(Piece), NEW n, NEW b \in Seq(Piece), Headed(b),
           NEW A, NEW S, NEW Z, NEW C, Sited(s, n, A, S, Z, C)
    PROVE  Rewrites(s, Replaced(s, n, b), b, A)
<1> DEFINE X == b \o (Z \o C)
<1>0. /\ A \in Seq(Piece) /\ S \in Seq(Piece) /\ Z \in Seq(Piece) /\ C \in Seq(Piece)
      /\ Closed(A) /\ AllBlank(Z) /\ Headers(S) = {1} /\ Quarters(A, S, Z, C)
      /\ (C = <<>> \/ Headed(C)) /\ s = A \o (S \o (Z \o C))
      /\ SubSeq(s, 1, Bounds(s, n)[1] - 1) = A
      /\ SubSeq(s, Bounds(s, n)[2] + 1, Len(s)) = Z \o C
    BY DEF Sited, Quarters
<1>1. Z \o C \in Seq(Piece) /\ X \in Seq(Piece)
    BY <1>0, ConcatProperties
<1>2. Replaced(s, n, b) = A \o X
    <2>1. Replaced(s, n, b) = (A \o b) \o (Z \o C)
        BY <1>0, Zenon DEF Replaced
    <2>2. \A W \in Seq(Piece) : (A \o b) \o W = A \o (b \o W)
        BY <1>0, Regroup
    <2>3. (A \o b) \o (Z \o C) = A \o (b \o (Z \o C))
        BY <1>1, <2>2, Zenon
    <2> QED BY <2>1, <2>3
<1>3. Headed(X) /\ X[1] = b[1]
    <2>1. Len(b) >= 1 /\ Len(b) \in Nat
        BY HeadedIs, LenProperties
    <2>2. 1 \in 1..Len(b) /\ 1 \in 1..(Len(b) + Len(Z \o C)) /\ Len(X) = Len(b) + Len(Z \o C) /\ Len(Z \o C) \in Nat
        BY <1>1, <2>1, HalvesIs
    <2>3. X[1] = b[1]
        BY <1>1, <2>2, HalvesIs
    <2>4. Len(X) # 0 /\ X \in Seq(Piece)
        BY <1>1, <2>1, <2>2
    <2> HIDE DEF X
    <2>5. X # <<>>
        BY <2>4, EmptySeq
    <2> QED BY <2>3, <2>5 DEF Headed
<1>4. SectionsOf(A \o X) = SectionsOf(A) \o SectionsOf(X) /\ Preamble(A \o X) = Preamble(A)
    BY <1>0, <1>1, <1>3, ConcatSections
<1>5. /\ SectionsOf(X) \in Seq(SectionType) /\ Len(SectionsOf(X)) >= 1 /\ SectionsOf(X)[1].name = NameOf(b[1])
    <2> HIDE DEF X
    <2>1. Count(X) >= 1 /\ Starts(X)[1] = 1 /\ Count(X) \in Nat
        BY <1>1, <1>3, HeadedIs, StartsIs
    <2>2. SectionsOf(X)[1] = Section(X, 1)
        <3>1. 1 \in 1..Count(X)
            BY <2>1
        <3> QED BY <1>1, <2>1, <3>1, SectionsAt, SMTT(30)
    <2>3. Section(X, 1).name = NameOf(X[1])
        BY DEF Section
    <2> QED BY <1>1, <1>3, <2>1, <2>2, <2>3, SectionsAt
<1>6. /\ SectionsOf(C) \in Seq(SectionType) /\ Len(SectionsOf(C)) \in Nat
      /\ SectionsOf(S)[1] \in SectionType
      /\ SectionsOf(s) = SectionsOf(A) \o (<<SectionsOf(S)[1]>> \o SectionsOf(C))
      /\ Preamble(s) = Preamble(A)
      /\ Open(s) = IF C = <<>> THEN Open(S) ELSE Open(C)
      /\ C = <<>> <=> Len(SectionsOf(C)) = 0
    <2>1. Divided(s, A, S, C)
        BY SitedView
    <2> QED BY <2>1 DEF Divided
<1>7. ASSUME Sound(b)
       PROVE  /\ SectionsOf(A \o X) = SectionsOf(A) \o (<<SectionsOf(b)[1]>> \o SectionsOf(C))
              /\ Open(A \o X) = IF C = <<>> THEN Open(b) ELSE Open(C)
              /\ ~Open(b)
    <2>1. Headers(b) = {1} /\ Closed(b) /\ ~Open(b)
        BY <1>7 DEF Sound, Closed, Open
    <2>2. Quarters(A, b, Z, C)
        BY <1>0, <2>1 DEF Quarters
    <2>3. View(A \o X) = [preamble |-> Preamble(A),
                          sections |-> SectionsOf(A) \o (SectionsOf(b) \o SectionsOf(C)),
                          open     |-> IF C = <<>> THEN Open(b) ELSE Open(C)]
        BY <2>2, PartsView
    <2>4. View(A \o X).sections = SectionsOf(A \o X) /\ View(A \o X).open = Open(A \o X)
        BY DEF View, Open
    <2>5. SectionsOf(b) = <<SectionsOf(b)[1]>>
        BY OneSection, <2>1
    <2> HIDE DEF X
    <2>6. /\ SectionsOf(A \o X) = SectionsOf(A) \o (SectionsOf(b) \o SectionsOf(C))
          /\ Open(A \o X) = IF C = <<>> THEN Open(b) ELSE Open(C)
        BY <2>3, <2>4
    <2> QED BY <2>1, <2>5, <2>6, Zenon
<1>8. Sound(b) => Open(A \o X) = (Open(s) /\ Len(SectionsOf(C)) > 0)
    <2>1. Open(C) \in BOOLEAN /\ Open(A \o X) \in BOOLEAN /\ Open(s) \in BOOLEAN
        BY FencedBool DEF Open
    <2> HIDE DEF X
    <2>2. CASE C = <<>>
        BY <1>6, <1>7, <2>1, <2>2
    <2>3. CASE C # <<>>
        <3>1. Len(SectionsOf(C)) > 0
            BY <1>6, <2>3
        <3> QED BY <1>6, <1>7, <2>1, <2>3, <3>1
    <2> QED BY <2>2, <2>3
<1> HIDE DEF X
<1>9. Rewrites(s, A \o X, b, A)
    BY <1>4, <1>5, <1>6, <1>7, <1>8 DEF Rewrites
<1> QED BY <1>2, <1>9

LEMMA TailConcat ==
    ASSUME NEW T, NEW X \in Seq(T), X # <<>>, NEW Y \in Seq(T)
    PROVE  Tail(X) \in Seq(T) /\ Tail(X \o Y) = Tail(X) \o Y
<1> DEFINE U == X \o Y
           V == Tail(X) \o Y
<1>1. /\ Len(X) \in Nat /\ Len(X) >= 1 /\ Len(Y) \in Nat
      /\ Tail(X) \in Seq(T) /\ Len(Tail(X)) = Len(X) - 1
      /\ \A i \in 1..Len(Tail(X)) : Tail(X)[i] = X[i + 1]
    BY LenProperties, EmptySeq, HeadTailProperties
<1>2. /\ U \in Seq(T) /\ Len(U) = Len(X) + Len(Y)
      /\ \A i \in 1..(Len(X) + Len(Y)) : U[i] = IF i <= Len(X) THEN X[i] ELSE Y[i - Len(X)]
    BY ConcatProperties
<1> DEFINE W == Tail(X)
<1> HIDE DEF W
<1>3. /\ V \in Seq(T) /\ Len(V) = Len(W) + Len(Y)
      /\ \A i \in 1..(Len(W) + Len(Y)) : V[i] = IF i <= Len(W) THEN W[i] ELSE Y[i - Len(W)]
    BY <1>1, ConcatProperties DEF W
<1>4. W \in Seq(T) /\ Len(W) = Len(X) - 1 /\ \A i \in 1..Len(W) : W[i] = X[i + 1]
    BY <1>1 DEF W
<1> HIDE DEF U, V
<1>5. U # <<>>
    <2>1. Len(U) # 0
        BY <1>1, <1>2
    <2> QED BY <2>1, EmptySeq
<1>6. /\ Tail(U) \in Seq(T) /\ Len(Tail(U)) = Len(U) - 1
      /\ \A i \in 1..Len(Tail(U)) : Tail(U)[i] = U[i + 1]
    BY <1>2, <1>5, HeadTailProperties
<1>7. Len(Tail(U)) = Len(V)
    BY <1>1, <1>2, <1>3, <1>4, <1>6
<1>8. ASSUME NEW i \in 1..Len(V) PROVE Tail(U)[i] = V[i]
    <2>1. i \in 1..Len(Tail(U)) /\ i + 1 \in 1..(Len(X) + Len(Y)) /\ i \in 1..(Len(W) + Len(Y)) /\ i \in Nat
        BY <1>1, <1>2, <1>3, <1>4, <1>6
    <2>2. Tail(U)[i] = U[i + 1]
        BY <1>6, <2>1
    <2>3. CASE i <= Len(W)
        <3>1. i + 1 <= Len(X) /\ i \in 1..Len(W)
            BY <1>1, <1>4, <2>1, <2>3
        <3>2. U[i + 1] = X[i + 1] /\ V[i] = W[i] /\ W[i] = X[i + 1]
            BY <1>2, <1>3, <1>4, <2>1, <2>3, <3>1
        <3> QED BY <2>2, <3>2
    <2>4. CASE ~(i <= Len(W))
        <3>1. ~(i + 1 <= Len(X)) /\ (i + 1) - Len(X) = i - Len(W)
            BY <1>1, <1>4, <2>1, <2>4
        <3>2. U[i + 1] = Y[(i + 1) - Len(X)] /\ V[i] = Y[i - Len(W)]
            BY <1>2, <1>3, <2>1, <2>4, <3>1
        <3> QED BY <2>2, <3>1, <3>2
    <2> QED BY <2>3, <2>4
<1> DEFINE R == Tail(U)
<1> HIDE DEF R
<1>9. R \in Seq(T) /\ Len(R) = Len(V) /\ \A i \in 1..Len(R) : R[i] = V[i]
    BY <1>6, <1>7, <1>8 DEF R
<1>10. R = V
    BY <1>3, <1>9, SeqEqual
<1> QED BY <1>1, <1>10 DEF R, U, V, W

\* What is left when there is nothing to read: a text of blank lines
LEMMA HuskIs ==
    ASSUME NEW s \in Seq(Piece)
    PROVE  AllBlank(s) <=> Len(SectionsOf(s)) = 0 /\ Preamble(s) = <<>>
<1>1. /\ Len(s) \in Nat /\ DOMAIN s = 1..Len(s) /\ IsFiniteSet(Headers(s))
      /\ Len(SectionsOf(s)) = Count(s) /\ 0 \in 0..Len(s)
    BY HeadersIs, SectionsAt
<1>2. UpTo(s) \in 0..Len(s) /\ UpTo(s) \in Nat /\ (UpTo(s) = Len(s) \/ UpTo(s) + 1 \in Headers(s))
    BY <1>1, UpToIs, EndOfIs
<1>3. ASSUME AllBlank(s) PROVE Len(SectionsOf(s)) = 0 /\ Preamble(s) = <<>>
    <2>1. Headers(s) = {}
        BY <1>3, BlankClosed
    <2>2. Full(s) = {}
        BY <1>1, <1>2, <1>3 DEF Full, AllBlank
    <2> QED BY <1>1, <2>1, <2>2, NoneIs DEF Preamble
<1>4. ASSUME Len(SectionsOf(s)) = 0, Preamble(s) = <<>> PROVE AllBlank(s)
    <2>1. Headers(s) = {}
        BY <1>1, <1>4, FS_EmptySet DEF Count
    <2>2. UpTo(s) = Len(s)
        BY <1>2, <2>1
    <2>3. Full(s) \in SUBSET (0..Len(s)) /\ Full(s) \in SUBSET (1..Len(s))
        BY <1>1, <2>2 DEF Full
    <2>4. Full(s) = {}
        <3> SUFFICES ASSUME Full(s) # {} PROVE FALSE
            OBVIOUS
        <3>1. Max(Full(s)) \in Full(s)
            BY <1>1, <2>3, MaxIs
        <3> DEFINE m == Max(Full(s))
        <3>2. m \in 1..Len(s)
            BY <2>3, <3>1
        <3>3. Preamble(s) = SubSeq(s, 1, m)
            BY DEF Preamble
        <3> HIDE DEF m
        <3>4. m \in Int /\ m <= Len(s) /\ 1 <= m /\ 1 \in Nat /\ 1 >= 1
            BY <1>1, <3>2
        <3>5. SubSeq(s, 1, m) \in Seq(Piece) /\ Len(SubSeq(s, 1, m)) = IF 1 <= m THEN m - 1 + 1 ELSE 0
            BY <3>4, SubType
        <3>6. Len(SubSeq(s, 1, m)) = m /\ m # 0
            BY <3>4, <3>5
        <3>7. Len(<<>>) = 0
            OBVIOUS
        <3> QED BY <1>4, <3>3, <3>6, <3>7
    <2> QED BY <1>1, <2>2, <2>4 DEF Full, AllBlank
<1> QED BY <1>3, <1>4

\* The views before and after the section goes
LEMMA RemovedIs ==
    ASSUME NEW s \in Seq(Piece), NEW n, NEW A, NEW S, NEW Z, NEW C, Sited(s, n, A, S, Z, C)
    PROVE  \E W \in Seq(Piece) : AllBlank(W) /\ Removed(s, n) = A \o (W \o C)
<1>0. /\ A \in Seq(Piece) /\ Z \in Seq(Piece) /\ C \in Seq(Piece) /\ AllBlank(Z)
      /\ (C = <<>> \/ Headed(C))
      /\ SubSeq(s, 1, Bounds(s, n)[1] - 1) = A
      /\ SubSeq(s, Bounds(s, n)[2] + 1, Len(s)) = Z \o C
    BY DEF Sited, Quarters
<1> DEFINE meet == A # <<>> /\ Z \o C # <<>> /\ Last(A) = Blank /\ (Z \o C)[1] = Blank
<1>1. Removed(s, n) = A \o (IF meet THEN Tail(Z \o C) ELSE Z \o C)
    BY <1>0, Zenon DEF Removed
<1>2. CASE ~meet
    BY <1>0, <1>1, <1>2
<1>3. CASE meet
    <2>1. Z # <<>>
        <3> SUFFICES ASSUME Z = <<>> PROVE FALSE
            OBVIOUS
        <3>1. Z \o C = C
            BY <1>0, ConcatEmptySeq
        <3>2. C # <<>> /\ C[1] = Blank
            BY <1>3, <3>1
        <3>3. IsHead(Blank)
            BY <1>0, <3>2 DEF Headed
        <3> QED BY <3>3, PieceIs
    <2>2. Tail(Z) \in Seq(Piece) /\ Tail(Z \o C) = Tail(Z) \o C
        BY <1>0, <2>1, TailConcat
    <2>3. AllBlank(Tail(Z))
        <3>1. /\ Len(Z) \in Nat /\ Len(Tail(Z)) = Len(Z) - 1 /\ DOMAIN Z = 1..Len(Z)
              /\ \A i \in 1..Len(Tail(Z)) : Tail(Z)[i] = Z[i + 1]
            BY <1>0, <2>1, HeadTailProperties, LenProperties
        <3>2. DOMAIN Tail(Z) = 1..Len(Tail(Z))
            BY <2>2, LenProperties
        <3>3. ASSUME NEW i \in 1..Len(Tail(Z)) PROVE IsBlank(Tail(Z)[i])
            <4>1. i + 1 \in DOMAIN Z /\ Tail(Z)[i] = Z[i + 1]
                BY <3>1
            <4> QED BY <1>0, <4>1 DEF AllBlank
        <3> QED BY <3>2, <3>3 DEF AllBlank
    <2> QED BY <1>1, <1>3, <2>2, <2>3
<1> QED BY <1>2, <1>3

LEMMA RemovedView ==
    ASSUME NEW s \in Seq(Piece), NEW n, NEW A, NEW S, NEW Z, NEW C, Sited(s, n, A, S, Z, C)
    PROVE  /\ Removed(s, n) \in Seq(Piece)
           /\ SectionsOf(Removed(s, n)) = SectionsOf(A) \o SectionsOf(C)
           /\ Preamble(Removed(s, n)) = Preamble(s)
           /\ Open(Removed(s, n)) = (Open(s) /\ Len(SectionsOf(C)) > 0)
<1>0. /\ A \in Seq(Piece) /\ C \in Seq(Piece) /\ Closed(A) /\ (C = <<>> \/ Headed(C))
    BY DEF Sited, Quarters
<1>1. Divided(s, A, S, C)
    BY SitedView
<1>2. PICK W \in Seq(Piece) : AllBlank(W) /\ Removed(s, n) = A \o (W \o C)
    BY RemovedIs, SMTT(30)
<1> DEFINE B == A \o W
           R == B \o C
<1>3. B \in Seq(Piece) /\ W \o C \in Seq(Piece) /\ Removed(s, n) = R
    <2>1. B \in Seq(Piece) /\ W \o C \in Seq(Piece) /\ (A \o W) \o C = A \o (W \o C)
        <3>1. B \in Seq(Piece) /\ W \o C \in Seq(Piece)
            BY <1>0, ConcatProperties
        <3>2. \A p, q, r \in Seq(Piece) : (p \o q) \o r = p \o (q \o r)
            BY Regroup
        <3>3. (A \o W) \o C = A \o (W \o C)
            BY <1>0, <3>2, ZenonT(40)
        <3> QED BY <3>1, <3>3, Zenon
    <2> QED BY <1>2, <2>1
<1>4. View(B) = View(A) /\ Closed(B)
    BY <1>0, <1>2, BlankTail
<1>5. SectionsOf(B) = SectionsOf(A) /\ Preamble(B) = Preamble(A)
    <2>1. /\ View(B).sections = SectionsOf(B) /\ View(A).sections = SectionsOf(A)
          /\ View(B).preamble = Preamble(B) /\ View(A).preamble = Preamble(A)
        BY DEF View
    <2> QED BY <1>4, <2>1
<1> HIDE DEF B
<1>6. /\ Preamble(s) = Preamble(A) /\ SectionsOf(A) \in Seq(SectionType)
      /\ Open(s) = IF C = <<>> THEN Open(S) ELSE Open(C)
      /\ C = <<>> <=> Len(SectionsOf(C)) = 0
      /\ Len(SectionsOf(C)) \in Nat
    BY <1>1 DEF Divided
<1>7. Open(R) \in BOOLEAN /\ Open(s) \in BOOLEAN /\ Open(C) \in BOOLEAN /\ R \in Seq(Piece)
    BY <1>0, <1>3, FencedBool, ConcatProperties DEF Open
<1>8. CASE C = <<>>
    <2>1. R = B
        BY <1>3, <1>8, ConcatEmptySeq
    <2>2. SectionsOf(C) = <<>>
        BY <1>8, EmptyIs
    <2>3. SectionsOf(A) \o <<>> = SectionsOf(A)
        BY <1>6, ConcatEmptySeq
    <2>4. ~Open(B) /\ ~(Len(SectionsOf(C)) > 0)
        BY <1>4, <1>6, <1>8 DEF Closed, Open
    <2> HIDE DEF R
    <2> QED BY <1>3, <1>5, <1>6, <1>7, <2>1, <2>2, <2>3, <2>4
<1>9. CASE C # <<>>
    <2>1. /\ SectionsOf(R) = SectionsOf(B) \o SectionsOf(C) /\ Preamble(R) = Preamble(B)
          /\ Open(R) = Open(C)
        BY <1>0, <1>3, <1>4, <1>9, ConcatSections DEF Open
    <2>2. Len(SectionsOf(C)) > 0
        BY <1>6, <1>9
    <2> HIDE DEF R
    <2> QED BY <1>3, <1>5, <1>6, <1>7, <1>9, <2>1, <2>2
<1> QED BY <1>8, <1>9

\* The views before and after b goes to the end
LEMMA AppendedView ==
    ASSUME NEW s \in Seq(Piece), NEW b \in Seq(Piece), Headed(b)
    PROVE  /\ ~Open(s) => /\ SectionsOf(Appended(s, b)) = SectionsOf(s) \o SectionsOf(b)
                          /\ Preamble(Appended(s, b)) = Preamble(s)
                          /\ Open(Appended(s, b)) = Open(b)
           /\ Count(Appended(s, b)) >= Count(s)
           /\ \A p \in 1..(Count(s) - 1) : SectionsOf(Appended(s, b))[p] = SectionsOf(s)[p]
           /\ Count(s) > 0 => Preamble(Appended(s, b)) = Preamble(s)
<1> DEFINE Y == IF s # <<>> /\ Last(s) # Blank THEN <<Blank>> ELSE <<>>
           B == s \o Y
<1>1. Y \in Seq(Piece) /\ AllBlank(Y)
    BY OneBlank, EmptyIs
<1>2. Appended(s, b) = B \o b
    BY Zenon DEF Appended
<1> HIDE DEF Y
<1>3. B \in Seq(Piece) /\ View(B) = View(s) /\ (Closed(B) <=> Closed(s))
    BY <1>1, BlankTail, ConcatProperties
<1>4. SectionsOf(B) = SectionsOf(s) /\ Preamble(B) = Preamble(s)
    <2>1. /\ View(B).sections = SectionsOf(B) /\ View(s).sections = SectionsOf(s)
          /\ View(B).preamble = Preamble(B) /\ View(s).preamble = Preamble(s)
        BY DEF View
    <2> QED BY <1>3, <2>1
<1>5. Count(B) = Count(s)
    <2>1. Len(SectionsOf(B)) = Count(B) /\ Len(SectionsOf(s)) = Count(s)
        BY <1>3, SectionsAt
    <2> QED BY <1>4, <2>1
<1> HIDE DEF B
<1>6. ASSUME ~Open(s)
      PROVE  /\ SectionsOf(B \o b) = SectionsOf(B) \o SectionsOf(b)
             /\ Preamble(B \o b) = Preamble(B) /\ Open(B \o b) = Open(b)
    <2>1. Closed(B)
        BY <1>3, <1>6 DEF Closed, Open
    <2> QED BY <1>3, <2>1, ConcatSections DEF Open
<1>7. /\ Count(B \o b) >= Count(B)
      /\ \A p \in 1..(Count(B) - 1) : SectionsOf(B \o b)[p] = SectionsOf(B)[p]
      /\ Count(B) > 0 => Preamble(B \o b) = Preamble(B)
    BY <1>3, PrefixSections
<1> QED BY <1>2, <1>4, <1>5, <1>6, <1>7

(***************************************************************************)
(* The edits of sections that are promised                                 *)
(***************************************************************************)
LEMMA KeptIs ==
    ASSUME NEW T, NEW X \in Seq(T), NEW Y \in Seq(T), NEW k \in Nat, k <= Len(X), k <= Len(Y),
           \A i \in 1..k : X[i] = Y[i]
    PROVE  Promise!Kept(X, Y, k)
<1>1. /\ SubSeq(X, 1, k) \in Seq(T) /\ Len(SubSeq(X, 1, k)) = IF 1 <= k THEN k - 1 + 1 ELSE 0
      /\ \A i \in 1..(k - 1 + 1) : SubSeq(X, 1, k)[i] = X[1 + i - 1]
    BY SubType
<1>2. /\ SubSeq(Y, 1, k) \in Seq(T) /\ Len(SubSeq(Y, 1, k)) = IF 1 <= k THEN k - 1 + 1 ELSE 0
      /\ \A i \in 1..(k - 1 + 1) : SubSeq(Y, 1, k)[i] = Y[1 + i - 1]
    BY SubType
<1> DEFINE U == SubSeq(X, 1, k)
           V == SubSeq(Y, 1, k)
<1>3. U \in Seq(T) /\ Len(U) = k /\ \A i \in 1..k : U[i] = X[i]
    BY <1>1
<1>4. V \in Seq(T) /\ Len(V) = k /\ \A i \in 1..k : V[i] = Y[i]
    BY <1>2
<1> HIDE DEF U, V
<1>5. U = V
    BY <1>3, <1>4, SeqEqual
<1>6. Len(Y) >= k
    BY LenProperties
<1> QED BY <1>5, <1>6 DEF U, V, Promise!Kept

LEMMA FirstName ==
    ASSUME NEW b \in Seq(Piece), Headed(b)
    PROVE  /\ SectionsOf(b)[1].name = NameOf(b[1]) /\ SectionsOf(b)[1] \in SectionType
           /\ Len(SectionsOf(b)) >= 1 /\ SectionsOf(b) \in Seq(SectionType)
<1>1. Count(b) >= 1 /\ Starts(b)[1] = 1 /\ Count(b) \in Nat
    BY HeadedIs, StartsIs
<1>2. 1 \in 1..Count(b)
    BY <1>1
<1>3. SectionsOf(b)[1] = Section(b, 1)
    BY <1>1, <1>2, SectionsAt
<1>4. Section(b, 1).name = NameOf(b[1])
    BY DEF Section
<1>5. SectionsOf(b) \in Seq(SectionType) /\ Len(SectionsOf(b)) = Count(b)
    BY SectionsAt
<1>6. SectionsOf(b)[1] \in SectionType
    BY <1>2, <1>5, ElementOfSeq
<1> QED BY <1>1, <1>3, <1>4, <1>5, <1>6

LEMMA WriteSections ==
    ASSUME NEW s \in Seq(Piece), NEW n, Found(s, n) # {}, NEW b \in Seq(Piece), Headed(b),
           NEW i, i = Promise!First(SectionsOf(s), n), NEW t, t = Replaced(s, n, b)
    PROVE  /\ Sound(b) => /\ SectionsOf(t) = ReplaceAt(SectionsOf(s), i, SectionsOf(b)[1])
                          /\ Open(t) = (Open(s) /\ i # Len(SectionsOf(s)))
           /\ Promise!Kept(SectionsOf(s), SectionsOf(t), i - 1) /\ Len(SectionsOf(t)) >= i
           /\ SectionsOf(t)[i].name = SectionsOf(b)[1].name
           /\ Preamble(t) = Preamble(s)
<1>1. PICK A, S, Z, C : Sited(s, n, A, S, Z, C)
    BY SiteIs
<1>2. A \in Seq(Piece) /\ i = Count(A) + 1
    BY <1>1 DEF Sited, Quarters
<1> DEFINE X == SectionsOf(A)
           r == SectionsOf(b)[1]
<1>3. X \in Seq(SectionType) /\ Len(X) = Count(A) /\ Len(X) \in Nat /\ i = Len(X) + 1
    BY <1>2, SectionsAt, StartsIs
<1>4. r \in SectionType /\ r.name = NameOf(b[1])
    BY FirstName
<1>5. Rewrites(s, t, b, A)
    <2>1. Rewrites(s, Replaced(s, n, b), b, A)
        BY <1>1, ReplacedView
    <2> QED BY <2>1
<1>6. PICK Y \in Seq(SectionType) : SectionsOf(t) = X \o Y /\ Len(Y) >= 1 /\ Y[1].name = NameOf(b[1])
    BY <1>5 DEF Rewrites
<1>7. PICK V \in Seq(SectionType), o \in SectionType :
        /\ SectionsOf(s) = X \o (<<o>> \o V)
        /\ Sound(b) => SectionsOf(t) = X \o (<<r>> \o V)
        /\ Sound(b) => Open(t) = (Open(s) /\ Len(V) > 0)
    BY <1>5 DEF Rewrites
<1>13. Preamble(t) = Preamble(s)
    BY <1>5 DEF Rewrites
<1> HIDE DEF X, r, SectionType
<1>14. X \in Seq(SectionType) /\ V \in Seq(SectionType) /\ o \in SectionType /\ r \in SectionType
    BY <1>3, <1>4, <1>7
<1>8. /\ Len(SectionsOf(s)) = Len(X) + 1 + Len(V) /\ Len(V) \in Nat
      /\ SectionsOf(s) \in Seq(SectionType) /\ \A j \in 1..Len(X) : SectionsOf(s)[j] = X[j]
    <2> DEFINE U == X \o (<<o>> \o V)
    <2>1. /\ Len(U) = Len(X) + 1 + Len(V) /\ Len(V) \in Nat
          /\ U \in Seq(SectionType) /\ \A j \in 1..Len(X) : U[j] = X[j]
        BY <1>14, MiddleIs
    <2>2. SectionsOf(s) = U
        BY <1>7
    <2> HIDE DEF U
    <2> QED BY <2>1, <2>2
<1>9. /\ SectionsOf(t) \in Seq(SectionType) /\ Len(SectionsOf(t)) = Len(X) + Len(Y) /\ Len(Y) \in Nat
      /\ \A j \in 1..(Len(X) + Len(Y)) : SectionsOf(t)[j] = IF j <= Len(X) THEN X[j] ELSE Y[j - Len(X)]
    <2> DEFINE U == X \o Y
    <2>1. /\ U \in Seq(SectionType) /\ Len(U) = Len(X) + Len(Y) /\ Len(Y) \in Nat
          /\ \A j \in 1..(Len(X) + Len(Y)) : U[j] = IF j <= Len(X) THEN X[j] ELSE Y[j - Len(X)]
        BY <1>3, <1>6, ConcatProperties, LenProperties
    <2>2. SectionsOf(t) = U
        BY <1>6
    <2> HIDE DEF U
    <2> QED BY <2>1, <2>2
<1>10. ASSUME Sound(b)
       PROVE  /\ SectionsOf(t) = ReplaceAt(SectionsOf(s), i, r)
              /\ Open(t) = (Open(s) /\ i # Len(SectionsOf(s)))
    <2>1. ReplaceAt(Around(X, o, V), Len(X) + 1, r) = Around(X, r, V)
        BY <1>14, ReplaceMiddle
    <2>2. Len(V) > 0 <=> i # Len(SectionsOf(s))
        BY <1>3, <1>8
    <2>3. SectionsOf(s) = Around(X, o, V) /\ SectionsOf(t) = Around(X, r, V)
        BY <1>7, <1>10 DEF Around
    <2>4. SectionsOf(t) = ReplaceAt(SectionsOf(s), i, r)
        BY <1>3, <2>1, <2>3
    <2> QED BY <1>7, <1>10, <2>2, <2>4
<1>11. SectionsOf(t)[i].name = r.name
    <2>1. i \in 1..(Len(X) + Len(Y)) /\ ~(i <= Len(X)) /\ i - Len(X) = 1
        BY <1>3, <1>6, <1>9
    <2>2. SectionsOf(t)[i] = Y[1]
        BY <1>9, <2>1
    <2> QED BY <1>4, <1>6, <2>2
<1>12. Promise!Kept(SectionsOf(s), SectionsOf(t), i - 1) /\ Len(SectionsOf(t)) >= i
    <2>1. i - 1 \in Nat /\ i - 1 = Len(X) /\ i - 1 <= Len(SectionsOf(s)) /\ i - 1 <= Len(SectionsOf(t))
          /\ Len(SectionsOf(t)) >= i
        <3>1. Len(X) \in Nat /\ Len(Y) \in Nat /\ Len(V) \in Nat /\ Len(Y) >= 1 /\ i = Len(X) + 1
            BY <1>3, <1>6, <1>8, <1>9
        <3>2. Len(SectionsOf(s)) = Len(X) + 1 + Len(V) /\ Len(SectionsOf(t)) = Len(X) + Len(Y)
            BY <1>8, <1>9
        <3> QED BY <3>1, <3>2
    <2>2. ASSUME NEW j \in 1..Len(X) PROVE SectionsOf(s)[j] = SectionsOf(t)[j]
        <3>1. j \in 1..(Len(X) + Len(Y)) /\ j <= Len(X)
            BY <1>3, <1>9
        <3> QED BY <1>8, <1>9, <3>1
    <2> QED BY <1>8, <1>9, <2>1, <2>2, KeptIs
<1> QED BY <1>10, <1>11, <1>12, <1>13 DEF r

LEMMA DropSections ==
    ASSUME NEW s \in Seq(Piece), NEW n, Found(s, n) # {},
           NEW i, i = Promise!First(SectionsOf(s), n), NEW t, t = Removed(s, n)
    PROVE  /\ SectionsOf(t) = RemoveAt(SectionsOf(s), i)
           /\ Open(t) = (Open(s) /\ i # Len(SectionsOf(s)))
           /\ Preamble(t) = Preamble(s)
           /\ Len(SectionsOf(s)) \in Nat /\ Len(SectionsOf(s)) >= 1
           /\ AllBlank(t) <=> Len(SectionsOf(s)) = 1 /\ Preamble(s) = <<>>
<1>1. PICK A, S, Z, C : Sited(s, n, A, S, Z, C)
    BY SiteIs
<1>2. A \in Seq(Piece) /\ i = Count(A) + 1
    BY <1>1 DEF Sited, Quarters
<1> DEFINE X == SectionsOf(A)
           V == SectionsOf(C)
           o == SectionsOf(S)[1]
<1>3. X \in Seq(SectionType) /\ Len(X) = Count(A) /\ Len(X) \in Nat /\ i = Len(X) + 1
    BY <1>2, SectionsAt, StartsIs
<1>4. /\ t \in Seq(Piece) /\ SectionsOf(t) = X \o V /\ Preamble(t) = Preamble(s)
      /\ Open(t) = (Open(s) /\ Len(V) > 0)
    BY <1>1, RemovedView
<1>5. Divided(s, A, S, C)
    BY <1>1, SitedView
<1>6. /\ V \in Seq(SectionType) /\ Len(V) \in Nat /\ o \in SectionType
      /\ SectionsOf(s) = X \o (<<o>> \o V)
    BY <1>5 DEF Divided
<1>7. AllBlank(t) <=> Len(SectionsOf(t)) = 0 /\ Preamble(t) = <<>>
    BY <1>4, HuskIs
<1> HIDE DEF X, V, o, SectionType
<1>8. Len(SectionsOf(s)) = Len(X) + 1 + Len(V)
    <2>1. X \in Seq(SectionType) /\ V \in Seq(SectionType) /\ o \in SectionType
        BY <1>3, <1>6
    <2>2. Len(X \o (<<o>> \o V)) = Len(X) + 1 + Len(V)
        BY <2>1, MiddleIs
    <2> QED BY <1>6, <2>2
<1>9. Len(SectionsOf(t)) = Len(X) + Len(V)
    BY <1>3, <1>4, <1>6, ConcatProperties
<1>10. RemoveAt(X \o (<<o>> \o V), Len(X) + 1) = X \o V
    BY <1>3, <1>6, RemoveMiddle
<1>11. Len(V) > 0 <=> i # Len(SectionsOf(s))
    BY <1>3, <1>6, <1>8
<1>12. Len(SectionsOf(t)) = 0 <=> Len(SectionsOf(s)) = 1
    BY <1>3, <1>6, <1>8, <1>9
<1>13. Len(SectionsOf(s)) \in Nat /\ Len(SectionsOf(s)) >= 1
    BY <1>3, <1>6, <1>8
<1> QED BY <1>3, <1>4, <1>6, <1>7, <1>10, <1>11, <1>12, <1>13

LEMMA AddSections ==
    ASSUME NEW s \in Seq(Piece), NEW b \in Seq(Piece), Headed(b), NEW t, t = Appended(s, b), t \in Seq(Piece)
    PROVE  /\ ~Open(s) /\ Sound(b) => SectionsOf(t) = Append(SectionsOf(s), SectionsOf(b)[1]) /\ ~Open(t)
           /\ ~Open(s) => /\ Promise!Kept(SectionsOf(s), SectionsOf(t), Len(SectionsOf(s)))
                          /\ Len(SectionsOf(t)) > Len(SectionsOf(s))
                          /\ SectionsOf(t)[Len(SectionsOf(s)) + 1].name = SectionsOf(b)[1].name
           /\ SectionsOf(s) # <<>> => Promise!Kept(SectionsOf(s), SectionsOf(t), Len(SectionsOf(s)) - 1)
           /\ Preamble(t) = Preamble(s) \/ (Open(s) /\ SectionsOf(s) = <<>>)
<1> DEFINE X == SectionsOf(s)
           Y == SectionsOf(t)
           V == SectionsOf(b)
<1>1. /\ X \in Seq(SectionType) /\ Len(X) = Count(s) /\ Len(X) \in Nat
      /\ Y \in Seq(SectionType) /\ Len(Y) = Count(t) /\ Len(Y) \in Nat
    BY SectionsAt, StartsIs
<1>2. V \in Seq(SectionType) /\ Len(V) >= 1 /\ V[1] \in SectionType /\ Len(V) \in Nat
    BY FirstName, LenProperties
<1>3. /\ Count(t) >= Count(s)
      /\ \A p \in 1..(Count(s) - 1) : Y[p] = X[p]
      /\ Count(s) > 0 => Preamble(t) = Preamble(s)
    BY AppendedView
<1>4. ~Open(s) => Y = X \o V /\ Preamble(t) = Preamble(s) /\ Open(t) = Open(b)
    BY AppendedView
<1>5. Sound(b) => V = <<V[1]>> /\ ~Open(b)
    BY OneSection DEF Sound, Open
<1> HIDE DEF X, Y, V, SectionType
<1>6. X = <<>> <=> Len(X) = 0
    BY <1>1, EmptySeq
<1>7. ASSUME ~Open(s)
      PROVE  Promise!Kept(X, Y, Len(X)) /\ Len(Y) > Len(X) /\ Y[Len(X) + 1].name = V[1].name
    <2>1. /\ Len(Y) = Len(X) + Len(V)
          /\ \A j \in 1..(Len(X) + Len(V)) : Y[j] = IF j <= Len(X) THEN X[j] ELSE V[j - Len(X)]
        <3> DEFINE U == X \o V
        <3>1. /\ Len(U) = Len(X) + Len(V)
              /\ \A j \in 1..(Len(X) + Len(V)) : U[j] = IF j <= Len(X) THEN X[j] ELSE V[j - Len(X)]
            BY <1>1, <1>2, ConcatProperties, ZenonT(40)
        <3>2. Y = U
            BY <1>4, <1>7
        <3> HIDE DEF U
        <3> QED BY <3>1, <3>2
    <2>2. Len(X) + 1 \in 1..(Len(X) + Len(V)) /\ ~(Len(X) + 1 <= Len(X)) /\ (Len(X) + 1) - Len(X) = 1
          /\ Len(Y) > Len(X) /\ Len(X) <= Len(Y) /\ Len(X) <= Len(X)
        BY <1>1, <1>2, <2>1
    <2>3. Y[Len(X) + 1] = V[1]
        BY <2>1, <2>2
    <2>4. ASSUME NEW j \in 1..Len(X) PROVE X[j] = Y[j]
        <3>1. j \in 1..(Len(X) + Len(V)) /\ j <= Len(X)
            BY <1>1, <1>2
        <3> QED BY <2>1, <3>1
    <2>5. Promise!Kept(X, Y, Len(X))
        BY <1>1, <2>2, <2>4, KeptIs
    <2> QED BY <2>2, <2>3, <2>5
<1>8. ASSUME X # <<>> PROVE Promise!Kept(X, Y, Len(X) - 1)
    <2>1. Len(X) - 1 \in Nat /\ Len(X) - 1 <= Len(X) /\ Len(X) - 1 <= Len(Y)
        BY <1>1, <1>3, <1>6, <1>8
    <2>2. \A p \in 1..(Len(X) - 1) : X[p] = Y[p]
        BY <1>1, <1>3
    <2> QED BY <1>1, <2>1, <2>2, KeptIs
<1>9. Preamble(t) = Preamble(s) \/ (Open(s) /\ X = <<>>)
    <2>1. CASE ~Open(s)
        BY <1>4, <2>1
    <2>2. CASE X # <<>>
        <3>1. Count(s) > 0
            BY <1>1, <1>6, <2>2
        <3> QED BY <1>3, <3>1
    <2> QED BY <2>1, <2>2
<1>10. ASSUME ~Open(s), Sound(b) PROVE Y = Append(X, V[1]) /\ ~Open(t)
    <2>1. Append(X, V[1]) = X \o <<V[1]>>
        BY <1>1, <1>2, AppendIsConcat
    <2>2. Y = X \o V /\ V = <<V[1]>> /\ ~Open(t)
        BY <1>4, <1>5, <1>10
    <2> QED BY <2>1, <2>2, Zenon
<1> QED BY <1>7, <1>8, <1>9, <1>10 DEF X, Y, V

(***************************************************************************)
(* Every step keeps the promise.                                           *)
(***************************************************************************)
SeenInv == seen = See(text)

LEMMA SeenInit == FilesInit => SeenInv
BY DEF FilesInit, Init, SeenInv

LEMMA SeenStep == SeenInv /\ [FilesNext]_files => SeenInv'
<1> SUFFICES ASSUME SeenInv, [FilesNext]_files PROVE SeenInv'
    OBVIOUS
<1>1. ASSUME NEW t, Becomes(t) PROVE SeenInv'
    BY <1>1 DEF Becomes, SeenInv
<1>2. ASSUME NEW pre, NEW fs, Pack(pre, fs) PROVE SeenInv'
    BY <1>1, <1>2, Zenon DEF Pack, PutWhole
<1>3. ASSUME NEW n, NEW b, NEW upsert, NEW rename, PutSection(n, b, upsert, rename) PROVE SeenInv'
    BY <1>1, <1>3, Zenon DEF PutSection
<1>4. ASSUME NEW n, DeleteSection(n) PROVE SeenInv'
    BY <1>1, <1>4, Zenon DEF DeleteSection
<1>5. CASE UNCHANGED files
    BY <1>5 DEF files, SeenInv, See
<1> QED BY <1>2, <1>3, <1>4, <1>5 DEF FilesNext, SomeEdit, Edit

LEMMA SeenIs ==
    ASSUME NEW v, NEW s, v = View(s)
    PROVE  v.preamble = Preamble(s) /\ v.sections = SectionsOf(s) /\ v.open = Open(s)
BY DEF View, Open

LEMMA SeenNow ==
    ASSUME SeenInv, NEW s, s = SplitLines(text)
    PROVE  seen.preamble = Preamble(s) /\ seen.sections = SectionsOf(s) /\ seen.open = Open(s)
<1>1. seen = View(s)
    BY SeeIs DEF SeenInv
<1> QED BY <1>1, SeenIs

LEMMA SeenNext ==
    ASSUME NEW t \in Seq(Plain), Becomes(Joined(t))
    PROVE  seen'.preamble = Preamble(t) /\ seen'.sections = SectionsOf(t) /\ seen'.open = Open(t)
<1>1. seen' = View(SplitLines(Joined(t)))
    BY SeeIs DEF Becomes
<1>2. seen' = View(t)
    BY <1>1, JoinedView
<1> QED BY <1>2, SeenIs

LEMMA SeenSame == ASSUME SeenInv, Becomes(text) PROVE seen' = seen
BY DEF SeenInv, Becomes

LEMMA AskIs ==
    ASSUME NEW op, NEW n, NEW b, NEW upsert, NEW expected, NEW done, NEW a,
           a = Ask(op, n, b, upsert, expected, done)
    PROVE  /\ a.op = op /\ a.name = n /\ a.upsert = upsert /\ a.done = done
           /\ a.fits = Fits(b, expected) /\ a.sound = (Fits(b, expected) /\ Sound(b))
           /\ Fits(b, expected) => a.new = SectionsOf(b)[1]
BY DEF Ask

LEMMA FitsHeaded == \A b \in Seq(Plain) : \A expected : Fits(b, expected) => Headed(b) /\ NameOf(b[1]) = expected
<1> SUFFICES ASSUME NEW b \in Seq(Plain), NEW expected, Fits(b, expected)
             PROVE  Headed(b) /\ NameOf(b[1]) = expected
    OBVIOUS
<1>1. b # <<>> /\ b[1] = Heading(expected)
    BY DEF Fits
<1>2. b[1] \in Plain /\ b[1][1] = "head" /\ b[1][2] = expected
    BY <1>1 DEF Heading
<1> QED BY <1>1, <1>2, PlainIs DEF Headed

LEMMA PutKeeps ==
    ASSUME TextInv, SeenInv, NEW n \in Name, NEW b \in Blocks, NEW upsert \in BOOLEAN, NEW rename,
           PutSection(n, b, upsert, rename)
    PROVE  Promise!Next
<1> DEFINE s == SplitLines(text)
           expected == IF rename = NoName THEN n ELSE rename
           absent == Found(s, n) = {}
           done == Fits(b, expected) /\ (~absent \/ upsert)
<1>1. /\ did' = Ask("put", n, b, upsert, expected, done)
      /\ Becomes(IF ~done THEN text ELSE Joined(IF absent THEN Appended(s, b) ELSE Replaced(s, n, b)))
    BY DEF PutSection
<1>2. /\ did'.op = "put" /\ did'.name = n /\ did'.upsert = upsert /\ did'.done = done
      /\ did'.fits = Fits(b, expected) /\ did'.sound = (Fits(b, expected) /\ Sound(b))
      /\ Fits(b, expected) => did'.new = SectionsOf(b)[1]
    BY <1>1, AskIs
<1>3. seen.preamble = Preamble(s) /\ seen.sections = SectionsOf(s) /\ seen.open = Open(s)
    BY SeenNow
<1>4. s \in Seq(Plain) /\ s \in Seq(Piece) /\ b \in Seq(Plain) /\ b \in Seq(Piece)
    BY LinesType, DocumentAssumption, PlainIsPiece
<1>5. Promise!Named(SectionsOf(s), n) = {} <=> absent
    BY <1>4, NamedIs
<1>6. Fits(b, expected) => Headed(b)
    BY <1>4, FitsHeaded
<1> HIDE DEF s, expected, absent, done
<1>7. CASE ~done
    <2>1. seen' = seen
        BY <1>1, <1>7, SeenSame
    <2>2. ~Fits(b, expected) \/ (absent /\ ~upsert)
        BY <1>7 DEF done
    <2>3. ~did'.done /\ (~did'.fits \/ (Promise!Named(seen.sections, did'.name) = {} /\ ~did'.upsert))
        BY <1>2, <1>3, <1>5, <1>7, <2>2
    <2>4. Promise!Refuse
        BY <1>2, <2>1, <2>3 DEF Promise!Refuse
    <2> QED BY <2>4 DEF Promise!Next
<1>8. CASE done /\ ~absent
    <2> DEFINE t == Replaced(s, n, b)
               i == Promise!First(SectionsOf(s), n)
    <2>1. Found(s, n) # {} /\ Fits(b, expected) /\ Headed(b)
        BY <1>6, <1>8 DEF done, absent
    <2>2. t \in Seq(Plain)
        BY <1>4, <2>1, EditTypes
    <2>3. /\ Sound(b) => /\ SectionsOf(t) = ReplaceAt(SectionsOf(s), i, SectionsOf(b)[1])
                         /\ Open(t) = (Open(s) /\ i # Len(SectionsOf(s)))
          /\ Promise!Kept(SectionsOf(s), SectionsOf(t), i - 1) /\ Len(SectionsOf(t)) >= i
          /\ SectionsOf(t)[i].name = SectionsOf(b)[1].name
          /\ Preamble(t) = Preamble(s)
        BY <1>4, <2>1, WriteSections
    <2> HIDE DEF t, i
    <2>4. Becomes(Joined(t))
        BY <1>1, <1>8 DEF t
    <2>5. seen'.preamble = Preamble(t) /\ seen'.sections = SectionsOf(t) /\ seen'.open = Open(t)
        BY <2>2, <2>4, SeenNext
    <2>6. Promise!Write(SectionsOf(s), SectionsOf(t), i, SectionsOf(b)[1])
        <3>1. CASE Sound(b)
            <4>1. did'.sound /\ seen'.open = (seen.open /\ i # Len(SectionsOf(s)))
                BY <1>2, <1>3, <2>1, <2>3, <2>5, <3>1
            <4>2. SectionsOf(t) = Promise!ReplaceAt(SectionsOf(s), i, SectionsOf(b)[1])
                BY <2>3, <3>1 DEF ReplaceAt, Promise!ReplaceAt
            <4> QED BY <4>1, <4>2 DEF Promise!Write
        <3>2. CASE ~Sound(b)
            <4>1. ~did'.sound
                BY <1>2, <3>2
            <4> QED BY <2>3, <4>1 DEF Promise!Write
        <3> QED BY <3>1, <3>2
    <2>7. Promise!Put
        BY <1>2, <1>3, <1>5, <1>8, <2>1, <2>3, <2>5, <2>6 DEF Promise!Put, i
    <2> QED BY <2>7 DEF Promise!Next
<1>9. CASE done /\ absent
    <2> DEFINE t == Appended(s, b)
    <2>1. Fits(b, expected) /\ Headed(b) /\ upsert
        BY <1>6, <1>9 DEF done
    <2>2. t \in Seq(Plain) /\ t \in Seq(Piece)
        BY <1>4, AppendedType, PlainIsPiece
    <2>3. /\ ~Open(s) /\ Sound(b) => SectionsOf(t) = Append(SectionsOf(s), SectionsOf(b)[1]) /\ ~Open(t)
          /\ ~Open(s) => /\ Promise!Kept(SectionsOf(s), SectionsOf(t), Len(SectionsOf(s)))
                         /\ Len(SectionsOf(t)) > Len(SectionsOf(s))
                         /\ SectionsOf(t)[Len(SectionsOf(s)) + 1].name = SectionsOf(b)[1].name
          /\ SectionsOf(s) # <<>> => Promise!Kept(SectionsOf(s), SectionsOf(t), Len(SectionsOf(s)) - 1)
          /\ Preamble(t) = Preamble(s) \/ (Open(s) /\ SectionsOf(s) = <<>>)
        BY <1>4, <2>1, <2>2, AddSections
    <2> HIDE DEF t
    <2>4. Becomes(Joined(t))
        BY <1>1, <1>9 DEF t
    <2>5. seen'.preamble = Preamble(t) /\ seen'.sections = SectionsOf(t) /\ seen'.open = Open(t)
        BY <2>2, <2>4, SeenNext
    <2>6. Promise!Add(SectionsOf(s), SectionsOf(t), SectionsOf(b)[1])
        <3>1. CASE Open(s)
            BY <1>3, <2>3, <3>1 DEF Promise!Add
        <3>2. CASE ~Open(s) /\ Sound(b)
            BY <1>2, <1>3, <2>1, <2>3, <2>5, <3>2 DEF Promise!Add
        <3>3. CASE ~Open(s) /\ ~Sound(b)
            BY <1>2, <1>3, <2>1, <2>3, <2>5, <3>3 DEF Promise!Add
        <3> QED BY <3>1, <3>2, <3>3
    <2>7. Promise!Put
        BY <1>2, <1>3, <1>5, <1>9, <2>1, <2>3, <2>5, <2>6 DEF Promise!Put
    <2> QED BY <2>7 DEF Promise!Next
<1> QED BY <1>7, <1>8, <1>9

LEMMA DeleteKeeps ==
    ASSUME TextInv, SeenInv, NEW n \in Name, DeleteSection(n)
    PROVE  Promise!Next
<1> DEFINE s == SplitLines(text)
           t == Removed(s, n)
           done == Found(s, n) # {} /\ \E i \in DOMAIN t : ~IsBlank(t[i])
           i == Promise!First(SectionsOf(s), n)
<1>1. /\ did' = Ask("delete", n, <<>>, FALSE, NoName, done)
      /\ Becomes(IF done THEN Joined(t) ELSE text)
    BY DEF DeleteSection
<1>3. seen.preamble = Preamble(s) /\ seen.sections = SectionsOf(s) /\ seen.open = Open(s)
    BY SeenNow
<1>4. s \in Seq(Plain) /\ s \in Seq(Piece)
    BY LinesType
<1>5. Promise!Named(SectionsOf(s), n) = {} <=> Found(s, n) = {}
    BY <1>4, NamedIs
<1>6. done <=> Found(s, n) # {} /\ ~AllBlank(t)
    BY DEF AllBlank
<1> HIDE DEF s, done
<1>2. did'.op = "delete" /\ did'.name = n /\ did'.done = done
    BY <1>1 DEF Ask
<1>7. ASSUME Found(s, n) # {}
      PROVE  /\ SectionsOf(t) = RemoveAt(SectionsOf(s), i)
             /\ Open(t) = (Open(s) /\ i # Len(SectionsOf(s)))
             /\ Preamble(t) = Preamble(s)
             /\ Len(SectionsOf(s)) \in Nat /\ Len(SectionsOf(s)) >= 1
             /\ AllBlank(t) <=> Len(SectionsOf(s)) = 1 /\ Preamble(s) = <<>>
    BY <1>4, <1>7, DropSections
<1>8. Found(s, n) # {} => t \in Seq(Plain)
    BY <1>4, EditTypes, EmptyIs, EmptySeq
<1> HIDE DEF t, i
<1>9. CASE ~done
    <2>1. seen' = seen
        BY <1>1, <1>9, SeenSame
    <2>2. Found(s, n) = {} \/ (Len(SectionsOf(s)) = 1 /\ Preamble(s) = <<>>)
        BY <1>6, <1>7, <1>9
    <2>3. Promise!Refuse
        BY <1>2, <1>3, <1>5, <1>9, <2>1, <2>2 DEF Promise!Refuse
    <2> QED BY <2>3 DEF Promise!Next
<1>10. CASE done
    <2>1. Found(s, n) # {} /\ ~AllBlank(t) /\ t \in Seq(Plain) /\ Becomes(Joined(t))
        BY <1>1, <1>6, <1>8, <1>10
    <2>2. seen'.preamble = Preamble(t) /\ seen'.sections = SectionsOf(t) /\ seen'.open = Open(t)
        BY <2>1, SeenNext
    <2>3. /\ Len(SectionsOf(s)) \in Nat /\ Len(SectionsOf(s)) >= 1
          /\ ~(Len(SectionsOf(s)) = 1 /\ Preamble(s) = <<>>)
        BY <1>7, <2>1
    <2>4. Len(SectionsOf(s)) > 1 \/ Preamble(s) # <<>>
        <3> DEFINE k == Len(SectionsOf(s))
        <3> HIDE DEF k
        <3>1. k \in Nat /\ k >= 1 /\ ~(k = 1 /\ Preamble(s) = <<>>)
            BY <2>3 DEF k
        <3>2. k > 1 \/ Preamble(s) # <<>>
            BY <3>1
        <3> QED BY <3>2 DEF k
    <2>5. /\ SectionsOf(t) = RemoveAt(SectionsOf(s), i) /\ Preamble(t) = Preamble(s)
          /\ Open(t) = (Open(s) /\ i # Len(SectionsOf(s)))
        BY <1>7, <2>1
    <2>6. SectionsOf(t) = Promise!RemoveAt(SectionsOf(s), i)
        BY <2>5 DEF RemoveAt, Promise!RemoveAt
    <2>7. Promise!Delete
        BY <1>2, <1>3, <1>5, <1>10, <2>1, <2>2, <2>4, <2>5, <2>6 DEF Promise!Delete, i
    <2> QED BY <2>7 DEF Promise!Next
<1> QED BY <1>9, <1>10

\* A section edit puts, renames, adds or deletes the section it names and
\* leaves the others as their readers had them, or is refused for cause.
THEOREM KeepsPromiseAlways == FilesSpec => KeepsPromise
<1>1. FilesInit => Promise!Init
    BY DEF FilesInit, Init, Unasked, Ask, Promise!Init
<1>2. TextInv /\ SeenInv /\ [FilesNext]_files
        => [Promise!Next]_<<seen.preamble, seen.sections, seen.open, did>>
    <2> SUFFICES ASSUME TextInv, SeenInv, [FilesNext]_files
                 PROVE  [Promise!Next]_<<seen.preamble, seen.sections, seen.open, did>>
        OBVIOUS
    <2>1. ASSUME NEW pre \in Preambles, NEW fs \in Packs, Pack(pre, fs)
          PROVE  Promise!Next
        <3>1. did'.op = "whole"
            BY <2>1 DEF Pack, PutWhole, Unasked, Ask
        <3> QED BY <3>1 DEF Promise!Next, Promise!Whole
    <2>2. ASSUME NEW n \in Name, NEW b \in Blocks, NEW upsert \in BOOLEAN, NEW rename,
                 PutSection(n, b, upsert, rename)
          PROVE  Promise!Next
        BY <2>2, PutKeeps
    <2>3. ASSUME NEW n \in Name, DeleteSection(n) PROVE Promise!Next
        BY <2>3, DeleteKeeps
    <2>4. CASE UNCHANGED files
        BY <2>4 DEF files
    <2> QED BY <2>1, <2>2, <2>3, <2>4 DEF FilesNext, SomeEdit, Edit
<1> QED BY <1>1, <1>2, SeenInit, SeenStep, TextOK, PTL DEF FilesSpec, KeepsPromise, Promise!Spec

(***************************************************************************)
(* Packed files: a section per file, and what becomes of it                *)
(***************************************************************************)
\* A text between two lines
LEMMA BetweenIs ==
    ASSUME NEW o \in Piece, NEW M \in Seq(Piece), NEW e \in Piece, NEW L, L = <<o>> \o (M \o <<e>>)
    PROVE  /\ L \in Seq(Piece) /\ Len(M) \in Nat /\ Len(L) = Len(M) + 2
           /\ L[1] = o /\ L[Len(M) + 2] = e /\ \A i \in 1..Len(M) : L[i + 1] = M[i]
<1> DEFINE m == Len(M)
           P == M \o <<e>>
<1>4. m \in Nat
    BY LenProperties
<1>6. <<o>> \in Seq(Piece) /\ <<e>> \in Seq(Piece)
    OBVIOUS
<1>7. /\ P \in Seq(Piece) /\ Len(P) = m + 1
      /\ \A i \in 1..(m + 1) : P[i] = IF i <= m THEN M[i] ELSE e
    <2>1. /\ P \in Seq(Piece) /\ Len(P) = m + Len(<<e>>)
          /\ \A i \in 1..(m + Len(<<e>>)) : P[i] = IF i <= m THEN M[i] ELSE <<e>>[i - m]
        BY <1>6, ConcatProperties
    <2>2. Len(<<e>>) = 1 /\ <<e>>[1] = e
        OBVIOUS
    <2>3. \A i \in 1..(m + 1) : ~(i <= m) => i - m = 1
        BY <1>4
    <2> HIDE DEF P, m
    <2> QED BY <2>1, <2>2, <2>3
<1> HIDE DEF P
<1>8. /\ L \in Seq(Piece) /\ Len(L) = m + 2
      /\ L[1] = o /\ L[m + 2] = e /\ \A i \in 1..m : L[i + 1] = M[i]
    <2>1. L = <<o>> \o P
        BY DEF P
    <2>2. /\ L \in Seq(Piece) /\ Len(L) = Len(<<o>>) + Len(P)
          /\ \A i \in 1..(Len(<<o>>) + Len(P)) : L[i] = IF i <= Len(<<o>>) THEN <<o>>[i] ELSE P[i - Len(<<o>>)]
        BY <1>6, <1>7, <2>1, ConcatProperties
    <2>3. Len(<<o>>) = 1 /\ <<o>>[1] = o
        OBVIOUS
    <2>4. Len(L) = m + 2 /\ \A i \in 1..(m + 2) : L[i] = IF i <= 1 THEN o ELSE P[i - 1]
        <3>1. 1 + (m + 1) = m + 2 /\ \A i \in 1..(m + 2) : i <= 1 => i = 1
            BY <1>4
        <3> HIDE DEF m
        <3> QED BY <1>7, <2>2, <2>3, <3>1
    <2>5. /\ 1 \in 1..(m + 2) /\ m + 2 \in 1..(m + 2) /\ ~(m + 2 <= 1) /\ (m + 2) - 1 = m + 1
          /\ m + 1 \in 1..(m + 1) /\ ~(m + 1 <= m)
        BY <1>4
    <2>6. \A i \in 1..m : i + 1 \in 1..(m + 2) /\ ~(i + 1 <= 1) /\ (i + 1) - 1 = i /\ i \in 1..(m + 1) /\ i <= m
        BY <1>4
    <2> HIDE DEF m
    <2>7. L[m + 2] = P[m + 1] /\ P[m + 1] = e /\ L[1] = o
        BY <1>7, <2>4, <2>5
    <2>8. ASSUME NEW i \in 1..m PROVE L[i + 1] = M[i]
        <3>1. L[i + 1] = P[(i + 1) - 1]
            BY <2>4, <2>6
        <3> QED BY <1>7, <2>6, <3>1
    <2> QED BY <2>2, <2>4, <2>7, <2>8
<1> QED BY <1>4, <1>8

\* A file's section: its heading, its lines as a code block, a blank line.
LEMMA BlockIs ==
    ASSUME NEW n \in Name, NEW L \in Seq(Piece), CodeBlock(L),
           NEW s, s = <<Heading(n)>> \o (L \o <<Blank>>)
    PROVE  /\ s \in Seq(Piece) /\ s # <<>> /\ s[Len(s)] = Blank
           /\ Headers(s) = {1} /\ Headed(s) /\ Closed(s)
           /\ SectionsOf(s) = <<[name |-> n, body |-> L]>>
<1>0. PICK o \in Plain, M \in Seq(Bare), e \in Plain :
        Toggles(o) /\ Toggles(e) /\ L = <<o>> \o (M \o <<e>>)
    BY DEF CodeBlock
<1>1. o \in Piece /\ e \in Piece /\ M \in Seq(Bare) /\ Toggles(o) /\ Toggles(e) /\ L = <<o>> \o (M \o <<e>>)
    BY <1>0, PieceIs
<1> DEFINE m == Len(M)
           H == Heading(n)
<1>2. H \in Piece /\ Blank \in Piece /\ IsBlank(Blank) /\ ~Toggles(H) /\ ~Toggles(Blank) /\ IsHead(H) /\ NameOf(H) = n
      /\ ~IsHead(Blank)
    <2>1. H \in Plain /\ IsHead(H) /\ NameOf(H) = n
        BY PieceIs
    <2>2. Blank \in Piece /\ IsBlank(Blank)
        BY PieceIs
    <2>3. H \in Piece
        BY <2>1, PieceIs
    <2> QED BY <2>1, <2>2, <2>3, PieceIs
<1>3. ~IsHead(o) /\ ~IsHead(e) /\ ~IsBlank(o) /\ ~IsBlank(e)
    BY <1>1, PieceIs
<1>4. m \in Nat /\ \A i \in 1..m : M[i] \in Bare
    BY LenProperties, ElementOfSeq
<1>5. \A i \in 1..m : ~Toggles(M[i])
    BY <1>4 DEF Bare
<1>6. M \in Seq(Piece) /\ <<o>> \in Seq(Piece) /\ <<e>> \in Seq(Piece) /\ <<H>> \in Seq(Piece) /\ <<Blank>> \in Seq(Piece)
    <2>1. M \in Seq(Piece)
        BY BareIs, SeqDef
    <2> QED BY <1>1, <1>2, <2>1
<1> HIDE DEF H
<1>8. Len(L) = m + 2 /\ L[1] = o /\ L[m + 2] = e /\ \A i \in 1..m : L[i + 1] = M[i]
    BY <1>1, <1>6, BetweenIs, SMTT(30)
<1>10. /\ s \in Seq(Piece) /\ Len(s) = m + 4 /\ s[1] = H /\ s[m + 4] = Blank
       /\ \A i \in 1..(m + 2) : s[i + 1] = L[i]
    <2>1. s = <<H>> \o (L \o <<Blank>>)
        BY DEF H
    <2>2. /\ s \in Seq(Piece) /\ Len(s) = Len(L) + 2 /\ s[1] = H /\ s[Len(L) + 2] = Blank
          /\ \A i \in 1..Len(L) : s[i + 1] = L[i]
        BY <1>2, <2>1, BetweenIs
    <2>3. (m + 2) + 2 = m + 4
        BY <1>4
    <2> HIDE DEF m
    <2> QED BY <1>8, <2>2, <2>3
<1>12. s[2] = o /\ s[m + 3] = e /\ \A i \in 1..m : s[i + 2] = M[i]
    <2>1. /\ 1 \in 1..(m + 2) /\ 1 + 1 = 2 /\ m + 2 \in 1..(m + 2) /\ (m + 2) + 1 = m + 3
        BY <1>4
    <2>2. \A i \in 1..m : i + 1 \in 1..(m + 2) /\ (i + 1) + 1 = i + 2
        BY <1>4
    <2> HIDE DEF m
    <2>3. s[2] = o /\ s[m + 3] = e
        BY <1>8, <1>10, <2>1
    <2>4. ASSUME NEW i \in 1..m PROVE s[i + 2] = M[i]
        <3>1. s[(i + 1) + 1] = L[i + 1]
            BY <1>10, <2>2
        <3> QED BY <1>8, <2>2, <3>1
    <2> QED BY <2>3, <2>4
\* where the fences are, and so what is fenced
<1>13. ASSUME NEW j \in 1..(m + 4) PROVE Toggles(s[j]) <=> j \in {2, m + 3}
    <2>1. CASE j = 1
        <3>1. 1 # 2 /\ 1 # m + 3
            BY <1>4
        <3> QED BY <1>2, <1>10, <2>1, <3>1
    <2>2. CASE j = m + 4
        <3>1. m + 4 # 2 /\ m + 4 # m + 3
            BY <1>4
        <3> QED BY <1>2, <1>10, <2>2, <3>1
    <2>3. CASE j \in {2, m + 3}
        BY <1>1, <1>12, <2>3
    <2>4. CASE j \notin {1, 2, m + 3, m + 4}
        <3> DEFINE i == j - 2
        <3>1. i \in 1..m /\ i + 2 = j
            BY <1>4, <2>4
        <3> HIDE DEF i
        <3>2. s[j] = M[i]
            BY <1>12, <3>1
        <3> QED BY <1>5, <2>4, <3>1, <3>2
    <2> QED BY <2>1, <2>2, <2>3, <2>4
<1>14. ASSUME NEW k \in 0..(m + 4)
       PROVE  /\ k < 2 => Tog(s, k) = {}
              /\ 2 <= k /\ k < m + 3 => Tog(s, k) = {2}
              /\ m + 3 <= k => Tog(s, k) = {2, m + 3}
    <2>1. \A j \in 1..k : j \in 1..(m + 4)
        BY <1>4
    <2>2. Tog(s, k) = {j \in 1..k : j \in {2, m + 3}}
        BY <1>13, <2>1 DEF Tog
    <2>3. \A j : j \in Tog(s, k) <=> j \in 1..k /\ (j = 2 \/ j = m + 3)
        BY <2>2
    <2> HIDE DEF m
    <2>4. ASSUME k < 2 PROVE Tog(s, k) = {}
        <3>1. \A j : j \in 1..k => j # 2 /\ j # m + 3
            BY <1>4, <2>4
        <3>2. \A j : j \notin Tog(s, k)
            BY <2>3, <3>1
        <3> QED BY <3>2
    <2>5. ASSUME 2 <= k, k < m + 3 PROVE Tog(s, k) = {2}
        <3>1. 2 \in 1..k /\ m + 3 \notin 1..k
            BY <1>4, <2>5
        <3>2. \A j : j \in Tog(s, k) <=> j = 2
            BY <2>3, <3>1, Zenon
        <3> QED BY <3>2, Zenon
    <2>6. ASSUME m + 3 <= k PROVE Tog(s, k) = {2, m + 3}
        <3>1. 2 \in 1..k /\ m + 3 \in 1..k
            BY <1>4, <2>6
        <3>2. \A j : j \in Tog(s, k) <=> j = 2 \/ j = m + 3
            BY <2>3, <3>1, Zenon
        <3> QED BY <3>2, Zenon
    <2> QED BY <2>4, <2>5, <2>6
<1>15. ~Fenced(s, 1) /\ Closed(s)
    <2>1. Tog(s, 0) = {} /\ Tog(s, m + 4) = {2, m + 3} /\ 2 # m + 3
        <3>1. 0 \in 0..(m + 4) /\ 0 < 2 /\ m + 4 \in 0..(m + 4) /\ m + 3 <= m + 4 /\ 2 # m + 3
            BY <1>4
        <3> QED BY <1>14, <3>1
    <2>2. Cardinality(Tog(s, 0)) = 0
        BY <2>1, FS_EmptySet
    <2>3. Cardinality(Tog(s, m + 4)) = 2
        <3>1. IsFiniteSet({2}) /\ Cardinality({2}) = 1
            BY FS_Singleton
        <3>2. {2, m + 3} = {2} \union {m + 3} /\ m + 3 \notin {2}
            BY <2>1
        <3>3. Cardinality({2} \union {m + 3}) = Cardinality({2}) + 1
            BY <3>1, <3>2, FS_AddElement
        <3>4. Cardinality(Tog(s, m + 4)) = Cardinality({2}) + 1
            BY <2>1, <3>2, <3>3, Zenon
        <3> QED BY <3>1, <3>4
    <2>4. 1 - 1 = 0 /\ (m + 4) + 1 - 1 = m + 4 /\ 0 % 2 # 1 /\ 2 % 2 # 1
        BY <1>4
    <2>5. Fenced(s, 1) <=> Cardinality(Tog(s, 1 - 1)) % 2 = 1
        BY FencedIs
    <2>6. Fenced(s, (m + 4) + 1) <=> Cardinality(Tog(s, (m + 4) + 1 - 1)) % 2 = 1
        BY FencedIs
    <2>7. ~Fenced(s, 1)
        BY <2>2, <2>4, <2>5
    <2>8. ~Fenced(s, (m + 4) + 1)
        BY <2>3, <2>4, <2>6
    <2> QED BY <1>10, <2>7, <2>8 DEF Closed
<1>16. ASSUME NEW i \in 3..(m + 3) PROVE Fenced(s, i)
    <2>1. i - 1 \in 0..(m + 4) /\ 2 <= i - 1 /\ i - 1 < m + 3 /\ 1 % 2 = 1
        BY <1>4
    <2>2. Tog(s, i - 1) = {2}
        BY <1>14, <2>1
    <2>3. Cardinality({2}) = 1
        BY FS_Singleton
    <2> QED BY <2>1, <2>2, <2>3, FencedIs
<1>17. DOMAIN s = 1..(m + 4) /\ 1 \in 1..(m + 4)
    BY <1>4, <1>10, LenProperties
<1>18. Headers(s) = {1}
    <2>1. 1 \in Headers(s)
        BY <1>2, <1>10, <1>15, <1>17 DEF Headers
    <2>2. ASSUME NEW i \in Headers(s), i # 1 PROVE FALSE
        <3>1. i \in 1..(m + 4) /\ IsHead(s[i]) /\ ~Fenced(s, i)
            BY <1>17 DEF Headers
        <3>2. i # m + 4 /\ i # 2
            BY <1>2, <1>3, <1>10, <1>12, <3>1
        <3>3. i \in 3..(m + 3)
            BY <1>4, <2>2, <3>1, <3>2
        <3> QED BY <1>16, <3>1, <3>3
    <2> QED BY <2>1, <2>2
<1>19. Headed(s)
    <2>1. s # <<>>
        BY <1>4, <1>10, EmptySeq
    <2> QED BY <1>2, <1>10, <2>1 DEF Headed
<1>20. Stop(s, 1) = m + 3
    <2>1. EndOf(s, 1) = m + 4
        <3>1. 1 \in 0..Len(s) /\ m + 4 \in 1..Len(s) /\ m + 4 = Len(s)
            BY <1>4, <1>10
        <3>2. \A h \in Headers(s) : h > 1 => h > m + 4
            BY <1>18
        <3> QED BY <1>10, <3>1, <3>2, EndOfUnique
    <2>2. 1 \in 1..Len(s) /\ m + 4 \in 1..Len(s) /\ m + 3 \in 1..(m + 4)
        BY <1>4, <1>10
    <2>3. \A k \in ((m + 3) + 1)..(m + 4) : IsBlank(s[k])
        <3>1. \A k \in ((m + 3) + 1)..(m + 4) : k = m + 4
            BY <1>4
        <3> QED BY <1>2, <1>10, <3>1
    <2>4. ~IsBlank(s[m + 3])
        BY <1>3, <1>12
    <2>5. Trimmed(s, 1, m + 4) = m + 3
        <3> DEFINE u == m + 4
                   v == m + 3
        <3>1. /\ 1 \in 1..Len(s) /\ u \in 1..Len(s) /\ v \in 1..u
              /\ (\A k \in (v + 1)..u : IsBlank(s[k])) /\ (v = 1 \/ ~IsBlank(s[v]))
            BY <2>2, <2>3, <2>4
        <3> HIDE DEF u, v
        <3>2. Trimmed(s, 1, u) = v
            BY <1>10, <3>1, TrimmedUnique
        <3> QED BY <3>2 DEF u, v
    <2> QED BY <2>1, <2>5 DEF Stop
<1>21. SubSeq(s, 1 + 1, m + 3) = L
    <2>1. 2 \in Nat /\ 2 >= 1 /\ m + 3 \in Int /\ m + 3 <= Len(s) /\ 2 <= m + 3 /\ (m + 3) - 2 + 1 = m + 2 /\ 1 + 1 = 2
        BY <1>4, <1>10
    <2>2. /\ SubSeq(s, 2, m + 3) \in Seq(Piece)
          /\ Len(SubSeq(s, 2, m + 3)) = IF 2 <= m + 3 THEN (m + 3) - 2 + 1 ELSE 0
          /\ \A i \in 1..((m + 3) - 2 + 1) : SubSeq(s, 2, m + 3)[i] = s[2 + i - 1]
        BY <1>10, <2>1, SubType
    <2> DEFINE t == SubSeq(s, 2, m + 3)
    <2>3. t \in Seq(Piece) /\ Len(t) = m + 2 /\ \A i \in 1..(m + 2) : t[i] = s[2 + i - 1]
        BY <2>1, <2>2
    <2> HIDE DEF t
    <2>4. \A i \in 1..(m + 2) : 2 + i - 1 = i + 1
        OBVIOUS
    <2>5. \A i \in 1..(m + 2) : t[i] = L[i]
        BY <1>10, <2>3, <2>4
    <2>6. t = L
        BY <1>8, <2>3, <2>5, SeqEqual
    <2> QED BY <2>1, <2>6 DEF t
<1>22. SectionsOf(s) = <<[name |-> n, body |-> L]>>
    <2>1. SectionsOf(s) = <<SectionsOf(s)[1]>>
        BY <1>10, <1>18, OneSection
    <2>2. Starts(s)[1] = 1 /\ 1 \in 1..Count(s)
        <3>1. Count(s) >= 1 /\ Starts(s)[1] = 1 /\ Count(s) \in Nat
            BY <1>10, <1>19, HeadedIs, HeadersIs DEF Count
        <3> QED BY <3>1, SMTT(30)
    <2>3. SectionsOf(s)[1] = Section(s, 1)
        <3>1. SectionsOf(s) = [p \in 1..Count(s) |-> Section(s, Starts(s)[p])]
            BY <1>10, SectionsAt
        <3>2. SectionsOf(s)[1] = Section(s, Starts(s)[1])
            BY <2>2, <3>1
        <3> QED BY <2>2, <3>2
    <2>4. Section(s, 1) = [name |-> n, body |-> L]
        BY <1>2, <1>10, <1>20, <1>21 DEF Section
    <2> QED BY <2>1, <2>3, <2>4
<1>23. s # <<>> /\ s[Len(s)] = Blank
    BY <1>4, <1>10, EmptySeq
<1> QED BY <1>10, <1>15, <1>18, <1>19, <1>22, <1>23

\* The lines of a section with that body
Sect(n, L) == <<Heading(n)>> \o (L \o <<Blank>>)

LEMMA SectSplit ==
    ASSUME NEW n \in Name, NEW L \in Seq(Piece), NEW kind \in Kinds
    PROVE  Sect(n, L) \in Seq(Piece) /\ Split(Sect(n, L), kind) = Sect(n, Split(L, kind))
<1>1. Heading(n) \in Plain /\ Blank \in Plain
    BY PieceIs
<1>2. Between(Heading(n), L, Blank) \in Seq(Piece)
      /\ Split(Between(Heading(n), L, Blank), kind) = Between(Heading(n), Split(L, kind), Blank)
    BY <1>1, SplitBetween
<1> QED BY <1>2, Zenon DEF Sect, Between

\* A file without pieces of a kind is written without them.
LEMMA CodedClean ==
    ASSUME NEW c \in Contents, NEW kind \in Kinds, ~Has(c, kind) PROVE Split(Coded(c), kind) = Coded(c)
<1> DEFINE o == Fence(0, FlagsOf(c))
           e == Fence(0, {})
           L == LinesOf(c)
           M == Escaped(L)
<1>1. L \in Seq(Piece) /\ \A i \in DOMAIN L : L[i][1] # kind
    BY LinesOfIs DEF Has
<1> HIDE DEF L
<1>2. /\ M \in Seq(Piece) /\ Len(M) = Len(L) /\ DOMAIN L = 1..Len(L)
      /\ \A i \in 1..Len(L) : M[i] = Escape(L[i]) /\ L[i] \in Piece
    BY <1>1, EscapedIs
<1> HIDE DEF M
<1>3. \A i \in 1..Len(M) : M[i][1] # kind
    <2>1. ASSUME NEW i \in 1..Len(L) PROVE M[i][1] # kind
        <3>1. M[i] = Escape(L[i]) /\ L[i] \in Piece /\ L[i][1] # kind
            BY <1>1, <1>2
        <3> QED BY <3>1, EscapeIs
    <2> QED BY <1>2, <2>1
<1>4. Split(M, kind) = M
    BY <1>2, <1>3, SplitSame
<1>5. o \in Plain /\ e \in Plain
    <2>1. FlagsOf(c) \in SUBSET Flags /\ {} \in SUBSET Flags /\ 0 \in Nat
        BY DEF FlagsOf, Flags
    <2> QED BY <2>1 DEF Fence, Plain
<1>6. Coded(c) = <<o>> \o (M \o <<e>>)
    BY CodedBlock DEF M, L
<1> HIDE DEF o, e
<1>7. Split(Between(o, M, e), kind) = Between(o, Split(M, kind), e)
    BY <1>2, <1>5, SplitBetween
<1> QED BY <1>4, <1>6, <1>7, Zenon DEF Between

LEMMA PairIs == ASSUME NEW a, NEW b PROVE <<a>> \o <<b>> = <<a, b>>
<1> DEFINE S == {a, b}
           x == <<a>>
           y == <<b>>
           z == <<a, b>>
<1>1. a \in S /\ b \in S
    OBVIOUS
<1> HIDE DEF S
<1>2. /\ x \in Seq(S) /\ Len(x) = 1 /\ x[1] = a /\ y \in Seq(S) /\ Len(y) = 1 /\ y[1] = b
      /\ z \in Seq(S) /\ Len(z) = 2 /\ z[1] = a /\ z[2] = b
    BY <1>1
<1> HIDE DEF x, y, z
<1> DEFINE w == x \o y
<1>3. w \in Seq(S) /\ Len(w) = 1 + 1 /\ \A i \in 1..(1 + 1) : w[i] = IF i <= 1 THEN x[i] ELSE y[i - 1]
    BY <1>2, ConcatProperties
<1> HIDE DEF w
<1>4. Len(w) = 2 /\ w[1] = a /\ w[2] = b
    BY <1>2, <1>3
<1>5. \A i \in 1..Len(w) : w[i] = z[i]
    BY <1>2, <1>4
<1>6. w = z
    BY <1>2, <1>3, <1>4, <1>5, SeqEqual
<1> QED BY <1>6 DEF w, x, y, z

\* Packed sections below a beginning: X[i] is the text as far as section i.
Piled(X, n, N, K) ==
    /\ X \in [0..n -> Seq(Piece)]
    /\ \A i \in 1..n : N[i] \in Name /\ K[i] \in Seq(Piece) /\ X[i] = X[i - 1] \o Sect(N[i], K[i])

LEMMA SectBlock ==
    ASSUME NEW n \in Name, NEW L \in Seq(Piece), CodeBlock(L)
    PROVE  /\ Sect(n, L) \in Seq(Piece) /\ Headed(Sect(n, L)) /\ Closed(Sect(n, L))
           /\ SectionsOf(Sect(n, L)) = <<[name |-> n, body |-> L]>>
<1> DEFINE s == Sect(n, L)
<1>1. s = <<Heading(n)>> \o (L \o <<Blank>>)
    BY DEF Sect
<1> HIDE DEF s
<1>2. s \in Seq(Piece) /\ Headed(s) /\ Closed(s) /\ SectionsOf(s) = <<[name |-> n, body |-> L]>>
    BY <1>1, BlockIs
<1> QED BY <1>2 DEF s

\* Below a beginning without a section, every file has its own.
LEMMA PiledIs ==
    ASSUME NEW n \in Nat, NEW X, NEW N, NEW K, Piled(X, n, N, K),
           Closed(X[0]), SectionsOf(X[0]) = <<>>, \A i \in 1..n : CodeBlock(K[i])
    PROVE  /\ Closed(X[n]) /\ DOMAIN SectionsOf(X[n]) = 1..n
           /\ \A i \in 1..n : SectionsOf(X[n])[i] = [name |-> N[i], body |-> K[i]]
<1> DEFINE S(i) == SectionsOf(X[i])
           Right(i) == /\ Closed(X[i]) /\ Len(S(i)) = i
                       /\ \A j \in 1..i : S(i)[j] = [name |-> N[j], body |-> K[j]]
           T == {i \in 0..n : Right(i)}
<1>1. /\ \A i \in 0..n : X[i] \in Seq(Piece)
      /\ \A i \in 1..n : N[i] \in Name /\ K[i] \in Seq(Piece) /\ X[i] = X[i - 1] \o Sect(N[i], K[i])
    BY DEF Piled
<1>2. \A i \in 0..n : S(i) \in Seq(SectionType)
    BY <1>1, SectionsAt
<1>3. 0 \in T
    <2>1. Len(S(0)) = 0 /\ 0 \in 0..n
        OBVIOUS
    <2>2. Right(0)
        BY <2>1
    <2> HIDE DEF Right
    <2> QED BY <2>1, <2>2
<1>4. ASSUME NEW i \in 1..n, i - 1 \in T PROVE i \in T
    <2> DEFINE s == Sect(N[i], K[i])
               b == [name |-> N[i], body |-> K[i]]
               A == X[i - 1]
               Q == S(i - 1)
    <2>1. i - 1 \in 0..n /\ i \in 0..n /\ i \in Nat /\ i \in 1..i /\ (i - 1) + 1 = i
        OBVIOUS
    <2>2. A \in Seq(Piece) /\ Closed(A) /\ Q \in Seq(SectionType) /\ Len(Q) = i - 1
          /\ \A j \in 1..(i - 1) : Q[j] = [name |-> N[j], body |-> K[j]]
        BY <1>1, <1>2, <1>4, <2>1
    <2>3. s \in Seq(Piece) /\ Headed(s) /\ Closed(s) /\ SectionsOf(s) = <<b>>
        BY <1>1, SectBlock
    <2>4. b \in SectionType
        BY <1>1 DEF SectionType
    <2>5. X[i] = A \o s /\ Q = SectionsOf(A)
        BY <1>1
    <2> HIDE DEF A, s, b, Q
    <2>6. SectionsOf(A \o s) = Q \o <<b>> /\ Closed(A \o s)
        BY <2>2, <2>3, <2>5, ConcatSections, ClosedConcat
    <2>7. S(i) = Append(Q, b)
        <3>1. Q \o <<b>> = Append(Q, b)
            BY <2>2, <2>4, AppendIsConcat
        <3> QED BY <2>5, <2>6, <3>1
    <2>8. Len(S(i)) = i /\ S(i)[i] = b /\ \A j \in 1..(i - 1) : S(i)[j] = Q[j]
        <3> DEFINE q == Append(Q, b)
        <3>1. Len(q) = (i - 1) + 1 /\ (\A j \in 1..(i - 1) : q[j] = Q[j]) /\ q[(i - 1) + 1] = b
            BY <2>2, <2>4, AppendProperties
        <3> HIDE DEF q
        <3>2. Len(q) = i /\ (\A j \in 1..(i - 1) : q[j] = Q[j]) /\ q[i] = b
            BY <2>1, <3>1
        <3> QED BY <2>7, <3>2 DEF q
    <2>9. \A j \in 1..i : S(i)[j] = [name |-> N[j], body |-> K[j]]
        <3>1. \A j \in 1..i : j = i \/ j \in 1..(i - 1)
            BY <2>1
        <3> HIDE DEF S
        <3> QED BY <2>2, <2>8, <3>1 DEF b
    <2>10. Right(i)
        BY <2>5, <2>6, <2>8, <2>9
    <2> HIDE DEF Right
    <2> QED BY <2>1, <2>10
<1>5. \A i \in 0..n : i \in T
    <2> HIDE DEF T
    <2> QED BY <1>3, <1>4, UpwardTo
<1>6. Right(n) /\ n \in 0..n
    BY <1>5
<1>7. DOMAIN S(n) = 1..n
    BY <1>2, <1>6, LenProperties
<1> QED BY <1>6, <1>7

\* Taking pieces apart, section by section
Taken(X, first, n, kind) == [i \in first..n |-> Split(X[i], kind)]

LEMMA PiledSplit ==
    ASSUME NEW n \in Nat, NEW X, NEW N, NEW K, Piled(X, n, N, K), NEW kind \in Kinds
    PROVE  Piled(Taken(X, 0, n, kind), n, N, Taken(K, 1, n, kind))
<1> DEFINE Y == [i \in 0..n |-> Split(X[i], kind)]
           M == [i \in 1..n |-> Split(K[i], kind)]
<1>1. /\ \A i \in 0..n : X[i] \in Seq(Piece)
      /\ \A i \in 1..n : N[i] \in Name /\ K[i] \in Seq(Piece) /\ X[i] = X[i - 1] \o Sect(N[i], K[i])
    BY DEF Piled
<1>2. /\ \A p \in Seq(Piece) : Split(p, kind) \in Seq(Piece)
      /\ \A p, q \in Seq(Piece) : Split(p \o q, kind) = Split(p, kind) \o Split(q, kind)
    BY SplitPieces
<1>3. Y \in [0..n -> Seq(Piece)]
    BY <1>1, <1>2
<1>4. ASSUME NEW i \in 1..n
      PROVE  N[i] \in Name /\ M[i] \in Seq(Piece) /\ Y[i] = Y[i - 1] \o Sect(N[i], M[i])
    <2>1. i - 1 \in 0..n /\ i \in 0..n
        OBVIOUS
    <2>2. M[i] = Split(K[i], kind) /\ Y[i] = Split(X[i], kind) /\ Y[i - 1] = Split(X[i - 1], kind)
        BY <2>1
    <2>3. N[i] \in Name /\ K[i] \in Seq(Piece) /\ X[i - 1] \in Seq(Piece) /\ X[i] = X[i - 1] \o Sect(N[i], K[i])
        BY <1>1, <2>1
    <2>4. Sect(N[i], K[i]) \in Seq(Piece) /\ Split(Sect(N[i], K[i]), kind) = Sect(N[i], Split(K[i], kind))
        BY <2>3, SectSplit
    <2>5. Split(X[i - 1] \o Sect(N[i], K[i]), kind) = Split(X[i - 1], kind) \o Split(Sect(N[i], K[i]), kind)
        BY <1>2, <2>3, <2>4, Zenon
    <2>6. Split(X[i], kind) = Split(X[i - 1], kind) \o Sect(N[i], Split(K[i], kind))
        BY <2>3, <2>4, <2>5, Zenon
    <2>7. Split(K[i], kind) \in Seq(Piece)
        BY <1>2, <2>3
    <2> HIDE DEF Y, M
    <2> QED BY <2>2, <2>3, <2>6, <2>7, Zenon
<1> HIDE DEF Y, M
<1>5. Piled(Y, n, N, M)
    BY <1>3, <1>4 DEF Piled
<1> QED BY <1>5 DEF Y, M, Taken

\* A text that is alike to both is so in its parts.
LEMMA AlikeConcat ==
    ASSUME NEW p \in Seq(Piece), NEW q \in Seq(Piece), Alike(p \o q) PROVE Alike(p) /\ Alike(q)
<1> DEFINE a == Len(p)
           b == Len(q)
           s == p \o q
<1>1. /\ a \in Nat /\ b \in Nat /\ DOMAIN p = 1..a /\ DOMAIN q = 1..b /\ s \in Seq(Piece) /\ Len(s) = a + b
      /\ \A i \in 1..(a + b) : s[i] = IF i <= a THEN p[i] ELSE q[i - a]
    BY ConcatProperties, LenProperties
<1>2. DOMAIN s = 1..(a + b)
    BY <1>1, LenProperties
<1>3. \A i \in DOMAIN s : Mild(s[i])
    BY AlikeIs
<1> HIDE DEF a, b, s
<1>4. ASSUME NEW i \in DOMAIN p PROVE Mild(p[i])
    <2>1. i \in 1..(a + b) /\ i <= a
        BY <1>1
    <2> QED BY <1>1, <1>2, <1>3, <2>1
<1>5. ASSUME NEW i \in DOMAIN q PROVE Mild(q[i])
    <2> DEFINE j == a + i
    <2>1. j \in 1..(a + b) /\ ~(j <= a) /\ j - a = i
        BY <1>1
    <2> HIDE DEF j
    <2>2. s[j] = q[j - a]
        BY <1>1, <2>1
    <2> QED BY <1>2, <1>3, <2>1, <2>2
<1> QED BY <1>4, <1>5, AlikeIs

LEMMA PiledAlike ==
    ASSUME NEW n \in Nat, NEW X, NEW N, NEW K, Piled(X, n, N, K), Alike(X[n])
    PROVE  Alike(X[0]) /\ \A i \in 1..n : Alike(K[i])
<1> DEFINE T == {i \in 0..n : Alike(X[i]) => Alike(X[0]) /\ \A j \in 1..i : Alike(K[j])}
<1>1. /\ \A i \in 0..n : X[i] \in Seq(Piece)
      /\ \A i \in 1..n : N[i] \in Name /\ K[i] \in Seq(Piece) /\ X[i] = X[i - 1] \o Sect(N[i], K[i])
    BY DEF Piled
<1>2. 0 \in T
    OBVIOUS
<1>3. ASSUME NEW i \in 1..n, i - 1 \in T PROVE i \in T
    <2>1. i - 1 \in 0..n /\ i \in 0..n /\ \A j \in 1..i : j = i \/ j \in 1..(i - 1)
        OBVIOUS
    <2>2. ASSUME Alike(X[i]) PROVE Alike(X[i - 1]) /\ Alike(K[i])
        <3>1. X[i - 1] \in Seq(Piece) /\ K[i] \in Seq(Piece) /\ N[i] \in Name
              /\ X[i] = X[i - 1] \o Sect(N[i], K[i])
            BY <1>1, <2>1
        <3>2. Sect(N[i], K[i]) = <<Heading(N[i])>> \o (K[i] \o <<Blank>>) /\ Sect(N[i], K[i]) \in Seq(Piece)
            BY <3>1, SectSplit DEF Sect, Kinds
        <3>3. <<Heading(N[i])>> \in Seq(Piece) /\ <<Blank>> \in Seq(Piece)
            BY <3>1, PieceIs
        <3>4. K[i] \o <<Blank>> \in Seq(Piece)
            BY <3>1, <3>3, ConcatProperties
        <3>5. Alike(X[i - 1]) /\ Alike(Sect(N[i], K[i]))
            BY <2>2, <3>1, <3>2, AlikeConcat
        <3>6. Alike(K[i] \o <<Blank>>)
            BY <3>2, <3>3, <3>4, <3>5, AlikeConcat
        <3>7. Alike(K[i])
            BY <3>1, <3>3, <3>6, AlikeConcat
        <3> QED BY <3>5, <3>7
    <2>3. Alike(X[i - 1]) => Alike(X[0]) /\ \A j \in 1..(i - 1) : Alike(K[j])
        BY <1>3
    <2>4. Alike(X[i]) => Alike(X[0]) /\ \A j \in 1..i : Alike(K[j])
        BY <2>1, <2>2, <2>3
    <2> QED BY <2>1, <2>4
<1>4. \A i \in 0..n : i \in T
    <2> HIDE DEF T
    <2> QED BY <1>2, <1>3, UpwardTo
<1>5. n \in 0..n
    OBVIOUS
<1> QED BY <1>4, <1>5

\* So a code block that is alike to both stays one when its cuts are taken apart.
LEMMA AlikeBlock ==
    ASSUME NEW L \in Seq(Written), CodeBlock(L), Alike(L) PROVE SafeBlock(L, "cut")
<1>1. PICK o \in Plain, M \in Seq(Bare), e \in Plain :
        Toggles(o) /\ Toggles(e) /\ L = <<o>> \o (M \o <<e>>)
    BY DEF CodeBlock
<1> DEFINE m == Len(M)
<1>2. m \in Nat /\ DOMAIN M = 1..m /\ \A i \in 1..m : M[i] \in Bare
    BY LenProperties, ElementOfSeq
<1>3. M \in Seq(Piece) /\ o \in Piece /\ e \in Piece
    BY BareIs, SeqMonotonic, PieceIs
<1>4. Len(L) = m + 2 /\ \A i \in 1..m : L[i + 1] = M[i]
    BY <1>1, <1>3, BetweenIs, SMTT(30)
<1>5. DOMAIN L = 1..(m + 2)
    BY <1>4, LenProperties
<1>6. ASSUME NEW i \in 1..m PROVE M[i] \in Safe("cut")
    <2>1. i + 1 \in 1..(m + 2)
        BY <1>2
    <2> HIDE DEF m
    <2>2. Mild(M[i]) /\ M[i] \in Bare
        BY <1>2, <1>4, <1>5, <2>1, AlikeIs
    <2> QED BY <2>2 DEF Safe, Mild
<1>7. M \in Seq(Safe("cut"))
    <2>1. M \in [1..m -> Safe("cut")]
        BY <1>2, <1>6
    <2> HIDE DEF m
    <2> QED BY <1>2, <2>1, SeqDef
<1> QED BY <1>1, <1>7 DEF SafeBlock

\* What is packed is a file that the format can hold.
FileInv == \A n \in Name : packed[n] # NoFile => packed[n] \in Contents /\ Held(packed[n])

\* What Pack writes, section by section
LEMMA PackPiled ==
    ASSUME NEW pre \in Preambles, NEW fs \in Packs,
           NEW N, N = [i \in 1..Len(fs) |-> fs[i].name], NEW K, K = [i \in 1..Len(fs) |-> Coded(fs[i].file)]
    PROVE  \E X : /\ Piled(X, Len(fs), N, K) /\ X[0] = Above(pre)
                  /\ X[Len(fs)] = Above(pre) \o FlattenSeq(Sheets(fs))
<1> DEFINE n == Len(fs)
           u == Sheets(fs)
           a == Above(pre)
<1>1. /\ a \in Seq(Piece) /\ n \in Nat /\ u \in Seq(Seq(Piece)) /\ Len(u) = n
      /\ \A i \in 1..n : /\ fs[i].name \in Name /\ fs[i].file \in Contents
                         /\ u[i] = PackSection(fs[i].name, fs[i].file)
    BY PackIs
<1>2. \A i \in 1..n : N[i] \in Name /\ K[i] \in Seq(Piece) /\ u[i] = Sect(N[i], K[i]) /\ u[i] \in Seq(Piece)
    <2> TAKE i \in 1..n
    <2>1. N[i] = fs[i].name /\ K[i] = Coded(fs[i].file)
        OBVIOUS
    <2>2. N[i] \in Name /\ fs[i].file \in Contents /\ u[i] = PackSection(N[i], fs[i].file)
        BY <1>1, <2>1
    <2>3. PackSection(N[i], fs[i].file) = <<Heading(N[i])>> \o (Coded(fs[i].file) \o <<Blank>>)
          /\ PackSection(N[i], fs[i].file) \in Seq(Piece)
        BY <2>2, PackSectionType
    <2>4. Coded(fs[i].file) \in Seq(Piece)
        BY <2>2, CodedBlock
    <2> QED BY <2>1, <2>2, <2>3, <2>4, Zenon DEF Sect
<1> HIDE DEF u, a, n
<1>3. PICK G \in [0..n -> Seq(Piece)] :
        /\ G[0] = <<>> /\ FlattenSeq(u) = G[n]
        /\ \A i \in 1..n : G[i] = G[i - 1] \o u[i]
    <2>1. \E G \in [0..Len(u) -> Seq(Piece)] :
            /\ G[0] = <<>> /\ FlattenSeq(u) = G[Len(u)]
            /\ \A i \in 1..Len(u) : G[i] = G[i - 1] \o u[i]
        BY <1>1, FlattenIs
    <2> QED BY <1>1, <2>1
<1> DEFINE X == [i \in 0..n |-> a \o G[i]]
<1>4. X \in [0..n -> Seq(Piece)]
    <2>1. \A i \in 0..n : G[i] \in Seq(Piece)
        OBVIOUS
    <2>2. \A i \in 0..n : a \o G[i] \in Seq(Piece)
        BY <1>1, <2>1, ConcatProperties
    <2> QED BY <2>2
<1>5. ASSUME NEW i \in 1..n PROVE X[i] = X[i - 1] \o Sect(N[i], K[i])
    <2>1. i - 1 \in 0..n /\ i \in 0..n
        BY <1>1
    <2>2. X[i] = a \o G[i] /\ X[i - 1] = a \o G[i - 1] /\ G[i] = G[i - 1] \o u[i]
        BY <1>3, <2>1
    <2>3. a \in Seq(Piece) /\ G[i - 1] \in Seq(Piece) /\ u[i] \in Seq(Piece) /\ u[i] = Sect(N[i], K[i])
        BY <1>1, <1>2, <2>1
    <2> HIDE DEF X
    <2>4. (a \o G[i - 1]) \o u[i] = a \o (G[i - 1] \o u[i])
        BY <2>3, Regroup, Zenon
    <2> QED BY <2>2, <2>3, <2>4, Zenon
<1>6. X[0] = a
    <2>1. 0 \in 0..n
        BY <1>1
    <2>2. a \o <<>> = a
        BY <1>1, ConcatSimplifications
    <2> QED BY <1>3, <2>1, <2>2
<1>7. X[n] = a \o FlattenSeq(u)
    <2>1. n \in 0..n
        BY <1>1
    <2> QED BY <1>3, <2>1
<1> HIDE DEF X
<1>8. Piled(X, n, N, K)
    BY <1>2, <1>4, <1>5 DEF Piled
<1> QED BY <1>6, <1>7, <1>8 DEF n, a, u

\* The last line end is none of the lines that readers get, and does not show.
LEMMA EndHidden ==
    ASSUME NEW t \in Seq(Written), t # <<>> PROVE View(SplitLines(t)) = View(Split(t, "cut"))
<1> DEFINE u == Split(t, "cut")
           lines == SplitLines(t)
<1>1. lines = NoEnd(u) /\ lines \in Seq(Plain) /\ u \in Seq(Plain) /\ u # <<>>
    BY SplitLinesIs
<1>2. lines \in Seq(Piece)
    BY <1>1, PlainIsPiece
<1> HIDE DEF u, lines
<1>3. u = lines \/ u = lines \o <<Blank>>
    BY <1>1, OneBlank, NoEndIs
<1>4. View(lines \o <<Blank>>) = View(lines)
    BY <1>2, BlankTail, OneBlank
<1> QED BY <1>3, <1>4 DEF u, lines

\* What is above the sections is calm, and stays so when its cuts are taken apart.
Still(t) == Closed(t) /\ SectionsOf(t) = <<>>

LEMMA AboveStill ==
    ASSUME NEW pre \in Preambles, Calm(Normalise(pre))
    PROVE  Split(Above(pre), "cr") \in Seq(Written) /\ Still(Split(Above(pre), "cr"))
<1>1. pre \in Seq(Piece) /\ Above(pre) \in Seq(Piece)
    BY PacksAssumption, PieceIs DEF Above
<1>2. Split(Above(pre), "cr") \in Seq(Written)
    BY <1>1, SplitTypes
<1>3. CASE pre = <<>>
    <2>1. Above(pre) = <<>>
        BY <1>3 DEF Above
    <2>2. Split(<<>>, "cr") = <<>>
        <3>1. \A i \in 1..Len(<<>>) : <<>>[i][1] # "cr"
            OBVIOUS
        <3>2. <<>> \in Seq(Piece)
            BY EmptyIs
        <3> QED BY <3>1, <3>2, SplitSame
    <2> QED BY <1>2, <2>1, <2>2, EmptyIs DEF Still
<1>4. CASE pre # <<>>
    <2> DEFINE P == Split(pre, "cr")
    <2>1. Above(pre) = pre \o <<Blank>>
        BY <1>1, <1>4, AppendIsConcat, OneBlank DEF Above
    <2>2. Split(pre \o <<Blank>>, "cr") = P \o <<Blank>>
        <3>1. "cr" \in Kinds /\ Blank \in Plain /\ <<Blank>> \in Seq(Piece)
            BY OneBlank DEF Kinds
        <3>2. /\ \A p, q \in Seq(Piece) : Split(p \o q, "cr") = Split(p, "cr") \o Split(q, "cr")
              /\ \A l \in Plain : Split(<<l>>, "cr") = <<l>>
            BY <3>1, SplitPieces
        <3> QED BY <1>1, <3>1, <3>2, Zenon
    <2>3. P \in Seq(Piece)
        BY <1>1, SplitPieces DEF Kinds
    <2>4. Closed(P) /\ Headers(P) = {}
        BY DEF Calm, Normalise, Closed
    <2> HIDE DEF P
    <2>5. SectionsOf(P) = <<>>
        BY <2>3, <2>4, NoneIs
    <2>6. View(P \o <<Blank>>) = View(P) /\ (Closed(P \o <<Blank>>) <=> Closed(P))
        BY <2>3, BlankTail, OneBlank
    <2>7. SectionsOf(P \o <<Blank>>) = SectionsOf(P)
        BY <2>6 DEF View
    <2> QED BY <1>2, <2>1, <2>2, <2>4, <2>5, <2>6, <2>7, Zenon DEF Still
<1> QED BY <1>3, <1>4

LEMMA StillSplit ==
    ASSUME NEW t \in Seq(Written), Alike(t), Still(t) PROVE Still(Split(t, "cut"))
<1> DEFINE u == Split(t, "cut")
<1>1. Names(u) = Names(t) /\ (Closed(u) <=> Closed(t))
    BY SplitNames
<1>2. u \in Seq(Piece) /\ t \in Seq(Piece)
    BY SplitTypes, PlainIsPiece, PieceIs, SeqMonotonic
<1> HIDE DEF u
<1>3. Len(Names(u)) = Count(u) /\ Len(Names(t)) = Count(t)
    BY <1>2, NamesType
<1>4. Count(t) = 0
    BY <1>2, SectionsAt DEF Still
<1>5. SectionsOf(u) \in Seq(SectionType) /\ Len(SectionsOf(u)) = 0
    BY <1>1, <1>2, <1>3, <1>4, SectionsAt
<1>6. SectionsOf(u) = <<>>
    <2> HIDE DEF SectionType
    <2> QED BY <1>5, EmptySeq
<1> QED BY <1>1, <1>6 DEF Still, u

LEMMA SitsAt ==
    ASSUME NEW s, NEW k \in Nat, DOMAIN s = 1..k, NEW N, NEW L,
           \A j \in 1..k : s[j] = [name |-> N[j], body |-> L[j]],
           NEW i \in 1..k, \A j \in 1..k : N[j] = N[i] => j = i
    PROVE  Sits(s, N[i], L[i])
<1>1. s[i] = [name |-> N[i], body |-> L[i]] /\ \A q \in DOMAIN s : s[q].name = N[q]
    OBVIOUS
<1>2. \A q \in DOMAIN s : s[q].name = N[i] => q = i
    BY <1>1
<1> QED BY <1>1, <1>2 DEF Sits

\* What is packed in peace is there, as it was written.
LEMMA PackSits ==
    ASSUME NEW pre \in Preambles, NEW fs \in Packs, Pack(pre, fs) PROVE PackInv' /\ FileInv'
<1> DEFINE n == Len(fs)
           N == [i \in 1..n |-> fs[i].name]
           K == [i \in 1..n |-> Coded(fs[i].file)]
           T == Above(pre) \o FlattenSeq(Sheets(fs))
           mine(f) == CHOOSE i \in DOMAIN fs : fs[i].name = f
<1>1. /\ n \in Nat /\ n >= 1 /\ DOMAIN fs = 1..n /\ T \in Seq(Piece) /\ T # <<>>
      /\ \A i \in 1..n : fs[i].name \in Name /\ fs[i].file \in Contents
      /\ \A i, j \in 1..n : fs[i].name = fs[j].name => i = j
    BY PackIs, PackedType, PacksAssumption
<1>2. /\ PutWhole(T)
      /\ packed' = [f \in Name |->
            IF Peaceful(pre, fs) /\ \E i \in DOMAIN fs : fs[i].name = f /\ Held(fs[i].file)
            THEN fs[mine(f)].file ELSE NoFile]
    BY Zenon DEF Pack, Sheets
<1>3. ASSUME NEW f \in Name, packed'[f] # NoFile
      PROVE  /\ Peaceful(pre, fs)
             /\ \E i \in 1..n : N[i] = f /\ fs[i].file = packed'[f] /\ Held(fs[i].file)
    <2>1. Peaceful(pre, fs) /\ packed'[f] = fs[mine(f)].file
          /\ \E i \in DOMAIN fs : fs[i].name = f /\ Held(fs[i].file)
        BY <1>2, <1>3
    <2>2. PICK i \in 1..n : fs[i].name = f /\ Held(fs[i].file)
        BY <1>1, <2>1
    <2>3. mine(f) \in 1..n /\ fs[mine(f)].name = f
        BY <1>1, <2>2
    <2> HIDE DEF mine, n
    <2>4. mine(f) = i
        BY <1>1, <2>2, <2>3
    <2>5. N[i] = f
        BY <2>2
    <2> QED BY <2>1, <2>2, <2>4, <2>5
<1>4. FileInv'
    <2> SUFFICES ASSUME NEW f \in Name, packed'[f] # NoFile
                 PROVE  packed'[f] \in Contents /\ Held(packed'[f])
        BY DEF FileInv, Held, Has
    <2>1. PICK i \in 1..n : fs[i].file = packed'[f] /\ Held(fs[i].file)
        BY <1>3
    <2>2. fs[i].file \in Contents
        BY <1>1
    <2> HIDE DEF N, n
    <2> QED BY <2>1, <2>2
<1>5. PackInv'
    <2> SUFFICES ASSUME NEW f \in Name, packed'[f] # NoFile
                 PROVE  /\ Sits(SectionsOf(text'), f, Coded(packed'[f]))
                        /\ Alike(text') =>
                            /\ ~seen'.open
                            /\ ~Has(packed'[f], "cut") => Sits(seen'.sections, f, Coded(packed'[f]))
        BY DEF PackInv
    <2>1. PICK i \in 1..n : N[i] = f /\ fs[i].file = packed'[f] /\ Held(fs[i].file)
        BY <1>3
    <2> DEFINE c == packed'[f]
    <2>2. c \in Contents /\ ~Has(c, "cr") /\ K[i] = Coded(c)
        <3>1. fs[i].file \in Contents /\ K[i] = Coded(fs[i].file)
            BY <1>1
        <3>2. ~Has(fs[i].file, "cr")
            BY <2>1 DEF Held
        <3> HIDE DEF N, K, n
        <3> QED BY <2>1, <3>1, <3>2
    <2>3. \A j \in 1..n : N[j] = N[i] => j = i
        BY <1>1
    <2>4. Calm(Normalise(pre)) /\ \A j \in 1..n : Tame(fs[j].file)
        <3>1. Peaceful(pre, fs)
            BY <1>3
        <3> QED BY <1>1, <3>1 DEF Peaceful
    <2>5. PICK X : Piled(X, n, N, K) /\ X[0] = Above(pre) /\ X[n] = T
        BY PackPiled
    <2>6. \A j \in 1..n : CodeBlock(K[j]) /\ SafeBlock(K[j], "cr") /\ K[j] \in Seq(Piece)
        <3> TAKE j \in 1..n
        <3>1. fs[j].file \in Contents /\ Tame(fs[j].file) /\ K[j] = Coded(fs[j].file)
            BY <1>1, <2>4
        <3> HIDE DEF K, n
        <3> QED BY <3>1, CodedBlock, TameBlock
    <2> HIDE DEF N, K, T, n, c, mine
\* as the client gets it
    <2> DEFINE Y == Taken(X, 0, n, "cr")
               M == Taken(K, 1, n, "cr")
               U == Split(T, "cr")
    <2>7. Piled(Y, n, N, M) /\ Y[n] = U /\ Y[0] = Split(Above(pre), "cr")
        <3>1. Piled(Y, n, N, M)
            BY <1>1, <2>5, PiledSplit DEF Kinds
        <3>2. n \in 0..n /\ 0 \in 0..n
            BY <1>1
        <3> QED BY <2>5, <3>1, <3>2 DEF Taken
    <2>8. \A j \in 1..n : M[j] = Split(K[j], "cr") /\ CodeBlock(M[j]) /\ M[j] \in Seq(Written)
        <3> TAKE j \in 1..n
        <3>1. CodeBlock(Split(K[j], "cr"))
            BY <2>6, SplitBlock DEF Kinds
        <3>2. Split(K[j], "cr") \in Seq(Written)
            BY <2>6, SplitTypes
        <3> QED BY <3>1, <3>2 DEF Taken
    <2>9. Y[0] \in Seq(Written) /\ Still(Y[0])
        BY <2>4, <2>7, AboveStill
    <2>10. M[i] = Coded(c)
        BY <2>2, <2>8, CodedClean DEF Kinds
    <2>11. U \in Seq(Written) /\ U # <<>>
        BY <1>1, SplitTypes
    <2>12. text' = U /\ seen' = See(U)
        BY <1>2, Zenon DEF PutWhole, Becomes, Normalise
    <2> HIDE DEF Y, M, U
    <2>13. DOMAIN SectionsOf(U) = 1..n /\ \A j \in 1..n : SectionsOf(U)[j] = [name |-> N[j], body |-> M[j]]
        BY <1>1, <2>7, <2>8, <2>9, PiledIs DEF Still
    <2>14. Sits(SectionsOf(U), N[i], M[i])
        BY <1>1, <2>3, <2>13, SitsAt
\* as the server does
    <2>15. ASSUME Alike(U) PROVE ~seen'.open /\ (~Has(c, "cut") => Sits(seen'.sections, N[i], Coded(c)))
        <3> DEFINE Z == Taken(Y, 0, n, "cut")
                   Q == Taken(M, 1, n, "cut")
                   V == Split(U, "cut")
        <3>1. Piled(Z, n, N, Q) /\ Z[n] = V /\ Z[0] = Split(Y[0], "cut")
            <4>1. Piled(Z, n, N, Q)
                BY <1>1, <2>7, PiledSplit DEF Kinds
            <4>2. n \in 0..n /\ 0 \in 0..n
                BY <1>1
            <4> QED BY <2>7, <4>1, <4>2 DEF Taken
        <3>2. Alike(Y[0]) /\ \A j \in 1..n : Alike(M[j])
            BY <1>1, <2>7, <2>15, PiledAlike
        <3>3. \A j \in 1..n : Q[j] = Split(M[j], "cut") /\ CodeBlock(Q[j])
            <4> TAKE j \in 1..n
            <4>1. SafeBlock(M[j], "cut")
                BY <2>8, <3>2, AlikeBlock
            <4>2. CodeBlock(Split(M[j], "cut"))
                BY <4>1, SplitBlock DEF Kinds
            <4> QED BY <4>2 DEF Taken
        <3>4. Still(Z[0])
            BY <2>9, <3>1, <3>2, StillSplit
        <3> HIDE DEF Z, Q, V
        <3>5. /\ Closed(V) /\ DOMAIN SectionsOf(V) = 1..n
              /\ \A j \in 1..n : SectionsOf(V)[j] = [name |-> N[j], body |-> Q[j]]
            BY <1>1, <3>1, <3>3, <3>4, PiledIs DEF Still
        <3>6. Sits(SectionsOf(V), N[i], Q[i])
            BY <1>1, <2>3, <3>5, SitsAt
        <3>7. seen' = View(V)
            <4>1. See(U) = View(SplitLines(U))
                BY SeeIs
            <4>2. View(SplitLines(U)) = View(V)
                BY <2>11, EndHidden DEF V
            <4> QED BY <2>12, <4>1, <4>2
        <3>8. seen'.sections = SectionsOf(V) /\ seen'.open = Open(V)
            BY <3>7, SeenIs
        <3>9. ~Open(V)
            BY <3>5 DEF Closed, Open
        <3>10. ~Has(c, "cut") => Q[i] = Coded(c)
            BY <2>2, <2>10, <3>3, CodedClean DEF Kinds
        <3> QED BY <3>6, <3>8, <3>9, <3>10
    <2> QED BY <2>1, <2>10, <2>12, <2>14, <2>15 DEF c
<1> QED BY <1>4, <1>5

\* The lines that were packed are the file's, but for the last line end.
LEMMA PiecesIs ==
    ASSUME NEW c \in Contents, Held(c), NEW L, L = LinesOf(c)
    PROVE  c.pieces = (IF L = <<>> THEN <<Blank>> ELSE L)
                      \o (IF "noeol" \notin FlagsOf(c) /\ L # <<>> THEN <<Blank>> ELSE <<>>)
<1>1. /\ c.pieces \in Seq(Piece) /\ c.pieces # <<>> /\ Len(c.pieces) \in Nat /\ Len(c.pieces) >= 1
      /\ LastEnds(c) => c.pieces = Front(c.pieces) \o <<Blank>>
    BY LinesOfIs
<1>2. "noeol" \in FlagsOf(c) <=> ~LastEnds(c) /\ c.pieces # <<Blank>>
    BY DEF FlagsOf
<1>3. c.pieces \o <<>> = c.pieces /\ <<Blank>> \o <<>> = <<Blank>>
    <2>1. <<Blank>> \in Seq(Piece)
        BY OneBlank
    <2> QED BY <1>1, <2>1, ConcatSimplifications
<1>4. <<Blank>> # <<>>
    OBVIOUS
<1>5. CASE LastEnds(c)
    <2>1. Front(c.pieces) # <<Blank>>
        <3>1. <<Blank>> \o <<Blank>> = <<Blank, Blank>>
            BY PairIs
        <3>2. c.pieces # <<Blank, Blank>>
            BY DEF Held
        <3> QED BY <1>1, <1>5, <3>1, <3>2
    <2>2. Front(c.pieces) # <<>>
        <3>1. Len(c.pieces) > 1 /\ Front(c.pieces) = SubSeq(c.pieces, 1, Len(c.pieces) - 1)
            BY <1>5 DEF LastEnds, Front
        <3>2. 1 \in Nat /\ 1 >= 1 /\ Len(c.pieces) - 1 \in Int /\ Len(c.pieces) - 1 <= Len(c.pieces) /\ 1 <= Len(c.pieces) - 1
            BY <1>1, <3>1
        <3>3. Len(Front(c.pieces)) = (Len(c.pieces) - 1) - 1 + 1
            BY <1>1, <3>1, <3>2, SubType
        <3>4. Len(Front(c.pieces)) # 0
            BY <1>1, <3>1, <3>3
        <3> QED BY <3>4, EmptySeq
    <2>3. L = Front(c.pieces)
        BY <1>5, <2>1 DEF LinesOf, Uncut
    <2> QED BY <1>1, <1>2, <1>5, <2>2, <2>3
<1>6. CASE ~LastEnds(c) /\ c.pieces = <<Blank>>
    <2>1. L = <<>>
        BY <1>6 DEF LinesOf, Uncut
    <2> QED BY <1>3, <1>6, <2>1
<1>7. CASE ~LastEnds(c) /\ c.pieces # <<Blank>>
    <2>1. L = c.pieces
        BY <1>7 DEF LinesOf, Uncut
    <2> QED BY <1>1, <1>2, <1>3, <1>7, <2>1
<1> QED BY <1>5, <1>6, <1>7

\* What the fences of a packed section say
LEMMA SaysIs == \A f \in SUBSET Flags : Fence(0, f) \in Plain /\ Says(Fence(0, f)) = f
<1> SUFFICES ASSUME NEW f \in SUBSET Flags PROVE Fence(0, f) \in Plain /\ Says(Fence(0, f)) = f
    OBVIOUS
<1> DEFINE l == Fence(0, f)
           p == Parts(l)
           S == {i \in DOMAIN p : p[i][1] = "fence"}
<1>1. l \in Plain /\ l[1] = "fence" /\ l[3] = f
    BY DEF Fence, Plain
<1> HIDE DEF l
<1>2. p = <<l>>
    BY <1>1, PlainIs
<1>3. DOMAIN p = {1} /\ p[1] = l /\ Len(p) = 1
    BY <1>2
<1>4. S = {1}
    BY <1>1, <1>3
<1> HIDE DEF S, p
<1>5. Min(S) = 1
    <2>1. {1} \in SUBSET Nat /\ 1 \in {1} /\ \A y \in {1} : 1 <= y
        OBVIOUS
    <2> QED BY <1>4, <2>1, MinOf
<1>6. \A j \in (1 + 1)..Len(p) : IsBlank(p[j])
    BY <1>3
<1>7. Says(l) = p[Min(S)][3] \union (IF \A j \in (Min(S) + 1)..Len(p) : IsBlank(p[j]) THEN {} ELSE {"word"})
    BY Zenon DEF Says, p, S
<1>8. Says(l) = f \union {}
    BY <1>1, <1>3, <1>5, <1>6, <1>7
<1>9. Says(l) = f
    BY <1>8
<1> QED BY <1>1, <1>9 DEF l

\* Blank lines below a packed section are not part of the file.
LEMMA UnpackIs ==
    ASSUME NEW c \in Contents, Held(c), NEW Z \in Seq(Piece), AllBlank(Z)
    PROVE  Unpack(Coded(c) \o Z) = c
<1> DEFINE F == FlagsOf(c)
           o == Fence(0, F)
           e == Fence(0, {})
           L == LinesOf(c)
           M == Escaped(L)
           m == Len(L)
           C == Coded(c)
           t == C \o Z
<1>1. L \in Seq(Piece) /\ M \in Seq(Piece) /\ Len(M) = m /\ m \in Nat /\ DOMAIN L = 1..m
      /\ \A i \in 1..m : M[i] = Escape(L[i]) /\ L[i] \in Piece
    BY LinesOfIs, EscapedIs
<1>2. C \in Seq(Piece) /\ C = <<o>> \o (M \o <<e>>)
    BY CodedBlock
<1>3. o \in Piece /\ e \in Piece /\ Toggles(o) /\ Toggles(e) /\ Says(o) = F /\ Says(e) = {}
    <2>1. F \in SUBSET Flags /\ {} \in SUBSET Flags
        BY DEF FlagsOf, Flags
    <2>2. o \in Plain /\ e \in Plain /\ Says(o) = F /\ Says(e) = {}
        BY <2>1, SaysIs
    <2>3. o[1] = "fence" /\ o[2] = 0 /\ e[1] = "fence" /\ e[2] = 0
        BY DEF Fence
    <2> QED BY <2>2, <2>3, PlainIs, PieceIs
<1>4. ~IsBlank(o) /\ ~IsBlank(e)
    BY <1>3, PieceIs
<1> HIDE DEF o, e, L, M, m, C
<1>5. Len(C) = m + 2 /\ C[1] = o /\ C[m + 2] = e /\ \A i \in 1..m : C[i + 1] = M[i]
    BY <1>1, <1>2, <1>3, BetweenIs
<1>6. /\ t \in Seq(Piece) /\ Len(Z) \in Nat /\ Len(t) = (m + 2) + Len(Z) /\ DOMAIN t = 1..((m + 2) + Len(Z))
      /\ \A i \in 1..(m + 2) : t[i] = C[i]
      /\ \A i \in 1..((m + 2) + Len(Z)) : i > m + 2 => IsBlank(t[i])
    <2>1. /\ t \in Seq(Piece) /\ Len(t) = Len(C) + Len(Z)
          /\ \A i \in 1..(Len(C) + Len(Z)) : t[i] = IF i <= Len(C) THEN C[i] ELSE Z[i - Len(C)]
        BY <1>2, ConcatProperties
    <2>2. Len(Z) \in Nat /\ DOMAIN Z = 1..Len(Z) /\ \A i \in 1..Len(Z) : IsBlank(Z[i])
        BY LenProperties DEF AllBlank
    <2>3. \A i \in 1..(m + 2) : i \in 1..((m + 2) + Len(Z)) /\ i <= m + 2
        BY <1>1, <2>2
    <2>4. \A i \in 1..((m + 2) + Len(Z)) : i > m + 2 => ~(i <= m + 2) /\ i - (m + 2) \in 1..Len(Z)
        BY <1>1, <2>2
    <2> HIDE DEF t
    <2>5. Len(t) = (m + 2) + Len(Z) /\ DOMAIN t = 1..((m + 2) + Len(Z))
        BY <1>5, <2>1, LenProperties
    <2>6. \A i \in 1..(m + 2) : t[i] = C[i]
        BY <1>5, <2>1, <2>3
    <2>7. ASSUME NEW i \in 1..((m + 2) + Len(Z)), i > m + 2 PROVE IsBlank(t[i])
        <3>1. t[i] = Z[i - (m + 2)]
            BY <1>5, <2>1, <2>4, <2>7
        <3> QED BY <2>2, <2>4, <2>7, <3>1
    <2> QED BY <2>1, <2>2, <2>5, <2>6, <2>7
<1> HIDE DEF t
<1>7. t[1] = o /\ t[m + 2] = e /\ 1 \in DOMAIN t /\ m + 2 \in DOMAIN t
    <2>1. 1 \in 1..(m + 2) /\ m + 2 \in 1..(m + 2) /\ 1 \in 1..((m + 2) + Len(Z)) /\ m + 2 \in 1..((m + 2) + Len(Z))
        BY <1>1, <1>6
    <2> QED BY <1>5, <1>6, <2>1
<1> DEFINE full == {i \in DOMAIN t : ~IsBlank(t[i])}
<1>8. Min(full) = 1 /\ Max(full) = m + 2 /\ full # {} /\ 1 # m + 2
    <2>1. 1 \in full /\ m + 2 \in full
        BY <1>4, <1>7
    <2>2. full \in SUBSET (0..(m + 2)) /\ full \in SUBSET Nat /\ m + 2 \in Nat /\ \A i \in full : i >= 1 /\ i <= m + 2 /\ i \in Nat
        BY <1>1, <1>6
    <2> HIDE DEF full
    <2>3. Min(full) \in full /\ \A y \in full : Min(full) <= y
        BY <2>1, <2>2, MinIs
    <2>4. Max(full) \in full /\ \A y \in full : Max(full) >= y
        BY <2>1, <2>2, MaxIs
    <2>5. Min(full) <= 1 /\ Min(full) >= 1 /\ Min(full) \in Nat
        BY <2>1, <2>2, <2>3
    <2>6. Max(full) >= m + 2 /\ Max(full) <= m + 2 /\ Max(full) \in Nat
        BY <2>1, <2>2, <2>4
    <2>7. Min(full) = 1
        BY <2>5
    <2>8. Max(full) = m + 2
        BY <1>1, <2>6
    <2>9. 1 # m + 2
        BY <1>1
    <2> QED BY <2>1, <2>7, <2>8, <2>9
<1>9. SubSeq(t, 1 + 1, (m + 2) - 1) = M
    <2>1. 2 \in Nat /\ 2 >= 1 /\ (m + 2) - 1 = m + 1 /\ m + 1 \in Int /\ m + 1 <= Len(t) /\ 1 + 1 = 2 /\ (m + 1) - 2 + 1 = m
        BY <1>1, <1>6
    <2> DEFINE k == SubSeq(t, 2, m + 1)
    <2>2. /\ k \in Seq(Piece) /\ Len(k) = IF 2 <= m + 1 THEN (m + 1) - 2 + 1 ELSE 0
          /\ \A i \in 1..((m + 1) - 2 + 1) : k[i] = t[2 + i - 1]
        BY <1>6, <2>1, SubType
    <2> HIDE DEF k
    <2>3. Len(k) = m
        BY <1>1, <2>1, <2>2
    <2>4. ASSUME NEW i \in 1..m PROVE k[i] = M[i]
        <3>1. 2 + i - 1 = i + 1 /\ i + 1 \in 1..(m + 2)
            BY <1>1
        <3>2. k[i] = t[i + 1] /\ t[i + 1] = C[i + 1] /\ C[i + 1] = M[i]
            BY <1>5, <1>6, <2>1, <2>2, <3>1
        <3> QED BY <3>2
    <2>5. k = M
        BY <1>1, <2>2, <2>3, <2>4, SeqEqual
    <2> QED BY <2>1, <2>5 DEF k
<1> DEFINE body == IF "esc" \in F THEN [k \in DOMAIN M |-> Unescape(M[k])] ELSE M
<1>10. body = L
    <2>1. DOMAIN M = 1..m
        BY <1>1, LenProperties
    <2>2. "esc" \in F <=> \E i \in 1..m : IsFence(L[i])
        BY <1>1 DEF FlagsOf, L
    <2>3. CASE "esc" \in F
        <3>1. \A i \in 1..m : Unescape(M[i]) = L[i]
            BY <1>1, EscapeIs
        <3>2. L = [i \in 1..m |-> L[i]]
            BY <1>1
        <3>3. body = [i \in 1..m |-> Unescape(M[i])]
            BY <2>1, <2>3
        <3> QED BY <3>1, <3>2, <3>3
    <2>4. CASE "esc" \notin F
        <3>1. \A i \in 1..m : M[i] = L[i]
            BY <1>1, <2>2, <2>4, EscapeIs
        <3>2. M = L
            BY <1>1, <3>1, SeqEqual
        <3> QED BY <2>4, <3>2
    <2> QED BY <2>3, <2>4
<1> HIDE DEF full, body
<1> DEFINE pieces == (IF body = <<>> THEN <<Blank>> ELSE body)
                     \o (IF "noeol" \notin F /\ body # <<>> THEN <<Blank>> ELSE <<>>)
           eol == IF Len(pieces) = 1 THEN "none" ELSE IF "crlf" \in F THEN "crlf" ELSE "lf"
<1>11. pieces = c.pieces
    BY <1>10, PiecesIs DEF L
<1>12. eol = c.eol
    <2>1. c.eol \in {"none", "lf", "crlf", "mixed"} /\ (c.eol = "none" <=> Len(c.pieces) = 1) /\ c.eol # "mixed"
        BY ContentsAssumption DEF Held
    <2>2. "crlf" \in F <=> c.eol \in {"crlf", "mixed"}
        BY DEF FlagsOf
    <2> HIDE DEF pieces, F
    <2> QED BY <1>11, <2>1, <2>2
<1>13. c = [pieces |-> c.pieces, eol |-> c.eol]
    BY ContentsAssumption
<1>14. Unpack(t) = [pieces |-> pieces, eol |-> eol]
    <2> DEFINE i == Min(full)
               j == Max(full)
               b(f, k) == IF "esc" \in f THEN [x \in DOMAIN k |-> Unescape(k[x])] ELSE k
               p(f, k) == (IF b(f, k) = <<>> THEN <<Blank>> ELSE b(f, k))
                          \o (IF "noeol" \notin f /\ b(f, k) # <<>> THEN <<Blank>> ELSE <<>>)
               g(f, k) == [pieces |-> p(f, k),
                           eol |-> IF Len(p(f, k)) = 1 THEN "none" ELSE IF "crlf" \in f THEN "crlf" ELSE "lf"]
               bad == full = {} \/ i = j \/ ~Toggles(t[i]) \/ ~Toggles(t[j]) \/ Says(t[j]) # {}
    <2>1. Unpack(t) = IF bad THEN NoFile ELSE g(Says(t[i]), SubSeq(t, i + 1, j - 1))
        BY Zenon DEF Unpack, full
    <2>2. g(F, M) = [pieces |-> pieces, eol |-> eol]
        BY Zenon DEF body
    <2> HIDE DEF g, pieces, eol
    <2>3. i = 1 /\ j = m + 2 /\ full # {} /\ i # j
        BY <1>8
    <2> HIDE DEF i, j, F
    <2>4. t[i] = o /\ t[j] = e
        BY <1>7, <2>3
    <2>5. ~bad /\ Says(t[i]) = F
        BY <1>3, <2>3, <2>4
    <2>6. SubSeq(t, i + 1, j - 1) = M
        BY <1>9, <2>3
    <2> QED BY <2>1, <2>2, <2>5, <2>6, Zenon
<1> QED BY <1>11, <1>12, <1>13, <1>14 DEF t, C

\* What Sections promises of the sections that an edit does not name
LEMMA SitsReplaced ==
    ASSUME NEW s, NEW n, NEW L, Sits(s, n, L), NEW i \in DOMAIN s, s[i].name # n, NEW r, r.name # n
    PROVE  Sits(Promise!ReplaceAt(s, i, r), n, L)
<1> DEFINE t == [s EXCEPT ![i] = r]
<1>1. PICK p \in DOMAIN s : s[p] = [name |-> n, body |-> L] /\ \A q \in DOMAIN s : s[q].name = n => q = p
    BY DEF Sits
<1>2. s[p].name = n
    BY <1>1
<1>3. p # i
    BY <1>2
<1>4. DOMAIN t = DOMAIN s /\ t[i] = r /\ \A q \in DOMAIN s : q # i => t[q] = s[q]
    OBVIOUS
<1> HIDE DEF t
<1>5. t[p] = [name |-> n, body |-> L]
    BY <1>1, <1>3, <1>4
<1>6. \A q \in DOMAIN t : t[q].name = n => q = p
    BY <1>1, <1>4
<1>7. Sits(t, n, L)
    BY <1>1, <1>4, <1>5, <1>6 DEF Sits
<1> QED BY <1>7 DEF Promise!ReplaceAt, t

LEMMA SitsAppended ==
    ASSUME NEW T, NEW s \in Seq(T), NEW n, NEW L, Sits(s, n, L), NEW r \in T, r.name # n
    PROVE  Sits(Append(s, r), n, L)
<1> DEFINE t == Append(s, r)
           k == Len(s)
<1>1. PICK p \in DOMAIN s : s[p] = [name |-> n, body |-> L] /\ \A q \in DOMAIN s : s[q].name = n => q = p
    BY DEF Sits
<1>2. /\ k \in Nat /\ DOMAIN s = 1..k /\ DOMAIN t = 1..(k + 1) /\ t[k + 1] = r
      /\ \A q \in 1..k : t[q] = s[q]
    BY AppendProperties, LenProperties
<1> HIDE DEF t, k
<1>3. p \in DOMAIN t /\ t[p] = [name |-> n, body |-> L]
    BY <1>1, <1>2
<1>4. ASSUME NEW q \in DOMAIN t, t[q].name = n PROVE q = p
    <2>1. q # k + 1
        BY <1>2, <1>4
    <2>2. q \in 1..k
        BY <1>2, <2>1
    <2> QED BY <1>1, <1>2, <1>4, <2>2
<1>5. Sits(t, n, L)
    BY <1>3, <1>4 DEF Sits
<1> QED BY <1>5 DEF t

LEMMA SitsRemoved ==
    ASSUME NEW T, NEW s \in Seq(T), NEW n, NEW L, Sits(s, n, L), NEW i \in DOMAIN s, s[i].name # n
    PROVE  Sits(Promise!RemoveAt(s, i), n, L)
<1> DEFINE k == Len(s)
           a == SubSeq(s, 1, i - 1)
           b == SubSeq(s, i + 1, k)
           t == a \o b
<1>1. PICK p \in DOMAIN s : s[p] = [name |-> n, body |-> L] /\ \A q \in DOMAIN s : s[q].name = n => q = p
    BY DEF Sits
<1>2. k \in Nat /\ DOMAIN s = 1..k /\ i \in 1..k /\ p \in 1..k /\ i \in Nat /\ p \in Nat
    <2>1. k \in Nat /\ DOMAIN s = 1..k
        BY LenProperties
    <2> QED BY <1>1, <2>1
<1>3. s[p].name = n
    BY <1>1
<1>4. p # i
    BY <1>3
<1>5. /\ a \in Seq(T) /\ Len(a) = i - 1 /\ \A q \in 1..(i - 1) : a[q] = s[q]
    <2>1. 1 \in Nat /\ 1 >= 1 /\ i - 1 \in Int /\ i - 1 <= Len(s) /\ (i - 1) - 1 + 1 = i - 1
        BY <1>2
    <2>2. /\ a \in Seq(T) /\ Len(a) = IF 1 <= i - 1 THEN (i - 1) - 1 + 1 ELSE 0
          /\ \A q \in 1..((i - 1) - 1 + 1) : a[q] = s[1 + q - 1]
        BY <2>1, SubType
    <2> HIDE DEF a, k
    <2>3. Len(a) = i - 1
        BY <1>2, <2>2
    <2>4. ASSUME NEW q \in 1..(i - 1) PROVE a[q] = s[q]
        <3>1. 1 + q - 1 = q
            BY <1>2
        <3> QED BY <2>1, <2>2, <3>1
    <2> QED BY <2>2, <2>3, <2>4
<1>6. /\ b \in Seq(T) /\ Len(b) = k - i /\ \A q \in 1..(k - i) : b[q] = s[q + i]
    <2>1. i + 1 \in Nat /\ i + 1 >= 1 /\ k \in Int /\ k <= Len(s) /\ k - (i + 1) + 1 = k - i
        BY <1>2
    <2>2. /\ b \in Seq(T) /\ Len(b) = IF i + 1 <= k THEN k - (i + 1) + 1 ELSE 0
          /\ \A q \in 1..(k - (i + 1) + 1) : b[q] = s[(i + 1) + q - 1]
        BY <2>1, SubType
    <2> HIDE DEF b, k
    <2>3. Len(b) = k - i
        BY <1>2, <2>2
    <2>4. ASSUME NEW q \in 1..(k - i) PROVE b[q] = s[q + i]
        <3>1. (i + 1) + q - 1 = q + i
            BY <1>2
        <3> QED BY <2>1, <2>2, <3>1
    <2> QED BY <2>2, <2>3, <2>4
<1> HIDE DEF a, b, k
<1>7. /\ t \in Seq(T) /\ DOMAIN t = 1..(k - 1)
      /\ \A q \in 1..(k - 1) : t[q] = IF q < i THEN s[q] ELSE s[q + 1]
    <2>1. /\ t \in Seq(T) /\ Len(t) = Len(a) + Len(b)
          /\ \A q \in 1..(Len(a) + Len(b)) : t[q] = IF q <= Len(a) THEN a[q] ELSE b[q - Len(a)]
        BY <1>5, <1>6, ConcatProperties
    <2>2. Len(a) + Len(b) = k - 1
        BY <1>2, <1>5, <1>6
    <2> HIDE DEF t
    <2>3. DOMAIN t = 1..(k - 1)
        BY <2>1, <2>2, LenProperties
    <2>4. ASSUME NEW q \in 1..(k - 1) PROVE t[q] = IF q < i THEN s[q] ELSE s[q + 1]
        <3>1. t[q] = IF q <= i - 1 THEN a[q] ELSE b[q - (i - 1)]
            BY <1>5, <2>1, <2>2
        <3>2. CASE q < i
            <4>1. q <= i - 1 /\ q \in 1..(i - 1)
                BY <1>2, <3>2
            <4> QED BY <1>5, <3>1, <3>2, <4>1
        <3>3. CASE ~(q < i)
            <4>1. ~(q <= i - 1) /\ q - (i - 1) \in 1..(k - i) /\ (q - (i - 1)) + i = q + 1
                BY <1>2, <3>3
            <4>2. b[q - (i - 1)] = s[(q - (i - 1)) + i]
                BY <1>6, <4>1
            <4> QED BY <3>1, <3>3, <4>1, <4>2
        <3> QED BY <3>2, <3>3
    <2> QED BY <2>1, <2>3, <2>4
<1> HIDE DEF t
<1> DEFINE P == IF p < i THEN p ELSE p - 1
<1>8. P \in 1..(k - 1) /\ (IF P < i THEN P ELSE P + 1) = p
    BY <1>2, <1>4
<1>9. t[P] = s[p]
    <2> HIDE DEF P
    <2> QED BY <1>7, <1>8
<1>10. ASSUME NEW q \in 1..(k - 1), t[q].name = n PROVE q = P
    <2> DEFINE Q == IF q < i THEN q ELSE q + 1
    <2>1. Q \in 1..k /\ t[q] = s[Q]
        BY <1>2, <1>7
    <2>2. Q = p
        BY <1>1, <1>2, <1>10, <2>1
    <2> QED BY <1>2, <1>4, <2>2
<1>11. Sits(t, n, L)
    <2> HIDE DEF P
    <2> QED BY <1>1, <1>7, <1>8, <1>9, <1>10 DEF Sits
<1> QED BY <1>11 DEF Promise!RemoveAt, t, a, b, k

LEMMA FirstIs ==
    ASSUME NEW s \in Seq(SectionType), NEW n, Promise!Named(s, n) # {}
    PROVE  Promise!First(s, n) \in DOMAIN s /\ s[Promise!First(s, n)].name = n
<1> DEFINE N == Promise!Named(s, n)
           f == Promise!First(s, n)
<1>1. N \in SUBSET Nat /\ N \subseteq {i \in DOMAIN s : s[i].name = n}
    <2>1. DOMAIN s = 1..Len(s) /\ Len(s) \in Nat
        BY LenProperties
    <2> QED BY <2>1 DEF Promise!Named
<1>2. \E i \in N : \A j \in N : i <= j
    <2> HIDE DEF N
    <2> QED BY <1>1, LeastExists DEF N
<1>3. f = CHOOSE i \in N : \A j \in N : i <= j
    BY DEF Promise!First
<1> HIDE DEF f, N
<1>4. f \in N
    BY <1>2, <1>3
<1> QED BY <1>1, <1>4 DEF f

\* A text without cuts has the sections its readers get.
LEMMA PlainSeen ==
    ASSUME NEW t \in Seq(Plain), t # <<>>
    PROVE  See(t) = View(t)
<1> DEFINE u == NoEnd(t)
<1>1. SplitLines(t) = u /\ u \in Seq(Plain) /\ u \in Seq(Piece)
    BY LinesSame, PlainIsPiece
<1>2. (t[Len(t)] = Blank => t = u \o <<Blank>>) /\ (t[Len(t)] # Blank => t = u)
    BY NoEndIs, OneBlank
<1> HIDE DEF u
<1>3. View(u \o <<Blank>>) = View(u)
    BY <1>1, BlankTail, OneBlank
<1>4. View(t) = View(u)
    BY <1>2, <1>3
<1> QED BY <1>1, <1>4, SeeIs

\* What an edit of a section is to those of other names
LEMMA EditIs ==
    ASSUME TextInv, SeenInv, Edit
    PROVE  /\ Promise!Next /\ did'.op \in {"put", "delete"} /\ did'.done \in BOOLEAN
           /\ ~did'.done => text' = text /\ seen' = seen
           /\ did'.done => SectionsOf(text') = seen'.sections
           /\ did'.fits => did'.new \in SectionType /\ did'.new.name = did'.expected
<1> DEFINE s == SplitLines(text)
<1>1. s \in Seq(Plain) /\ s \in Seq(Piece)
    BY LinesType
<1> HIDE DEF s
<1>2. ASSUME NEW t \in Seq(Plain), Becomes(Joined(t)) PROVE SectionsOf(text') = seen'.sections
    <2>1. text' \in Seq(Plain) /\ text' # <<>> /\ seen' = See(text')
        BY <1>2, JoinedType DEF Becomes
    <2>2. seen' = View(text')
        BY <2>1, PlainSeen
    <2> QED BY <2>2, SeenIs
<1>3. ASSUME NEW n \in Name, NEW b \in Blocks, NEW upsert \in BOOLEAN, NEW rename \in Name \union {NoName},
             PutSection(n, b, upsert, rename)
      PROVE  /\ Promise!Next /\ did'.op \in {"put", "delete"} /\ did'.done \in BOOLEAN
             /\ ~did'.done => text' = text /\ seen' = seen
             /\ did'.done => SectionsOf(text') = seen'.sections
             /\ did'.fits => did'.new \in SectionType /\ did'.new.name = did'.expected
    <2> DEFINE expected == IF rename = NoName THEN n ELSE rename
               absent == Found(s, n) = {}
               done == Fits(b, expected) /\ (~absent \/ upsert)
               R == IF absent THEN Appended(s, b) ELSE Replaced(s, n, b)
    <2>1. /\ did' = Ask("put", n, b, upsert, expected, done)
          /\ Becomes(IF ~done THEN text ELSE Joined(R))
        BY <1>3 DEF PutSection, s
    <2>2. did'.op = "put" /\ did'.done = done /\ did'.expected = expected /\ did'.fits = Fits(b, expected)
          /\ (Fits(b, expected) => did'.new = SectionsOf(b)[1])
        BY <2>1 DEF Ask
    <2>3. b \in Seq(Plain) /\ b \in Seq(Piece)
        BY DocumentAssumption, PlainIsPiece
    <2>4. R \in Seq(Plain)
        BY <1>1, <2>3, AppendedType, EditTypes
    <2>5. done \in BOOLEAN /\ Fits(b, expected) \in BOOLEAN
        BY DEF Fits
    <2> HIDE DEF R, done
    <2>6. done => SectionsOf(text') = seen'.sections
        BY <1>2, <2>1, <2>4
    <2>7. ~done => text' = text /\ seen' = seen
        <3>1. ~done => Becomes(text)
            BY <2>1
        <3> QED BY <3>1, SeenSame DEF Becomes
    <2>8. ASSUME Fits(b, expected)
          PROVE  SectionsOf(b)[1] \in SectionType /\ SectionsOf(b)[1].name = expected
        <3>1. Headed(b) /\ NameOf(b[1]) = expected
            BY <2>3, <2>8, FitsHeaded
        <3>2. SectionsOf(b)[1].name = NameOf(b[1]) /\ SectionsOf(b)[1] \in SectionType
            BY <2>3, <3>1, FirstName
        <3> QED BY <3>1, <3>2
    <2>9. Promise!Next
        BY <1>3, PutKeeps
    <2> HIDE DEF expected
    <2> QED BY <2>2, <2>5, <2>6, <2>7, <2>8, <2>9
<1>4. ASSUME NEW n \in Name, DeleteSection(n)
      PROVE  /\ Promise!Next /\ did'.op \in {"put", "delete"} /\ did'.done \in BOOLEAN
             /\ ~did'.done => text' = text /\ seen' = seen
             /\ did'.done => SectionsOf(text') = seen'.sections
             /\ did'.fits => did'.new \in SectionType /\ did'.new.name = did'.expected
    <2> DEFINE R == Removed(s, n)
               done == Found(s, n) # {} /\ \E i \in DOMAIN R : ~IsBlank(R[i])
    <2>1. did' = Ask("delete", n, <<>>, FALSE, NoName, done) /\ Becomes(IF done THEN Joined(R) ELSE text)
        BY <1>4 DEF DeleteSection, s
    <2>2. did'.op = "delete" /\ did'.done = done /\ did'.fits = Fits(<<>>, NoName)
        BY <2>1 DEF Ask
    <2>3. ~Fits(<<>>, NoName)
        BY DEF Fits
    <2>4. done => R \in Seq(Plain)
        BY <1>1, EditTypes, EmptyIs, EmptySeq
    <2>5. done \in BOOLEAN
        OBVIOUS
    <2> HIDE DEF R, done
    <2>6. done => SectionsOf(text') = seen'.sections
        BY <1>2, <2>1, <2>4
    <2>7. ~done => text' = text /\ seen' = seen
        <3>1. ~done => Becomes(text)
            BY <2>1
        <3> QED BY <3>1, SeenSame DEF Becomes
    <2>8. Promise!Next
        BY <1>4, DeleteKeeps
    <2> QED BY <2>2, <2>3, <2>5, <2>6, <2>7, <2>8
<1> QED BY <1>3, <1>4 DEF Edit

\* An edit that is not of a file's section leaves it there: Sections says so.
LEMMA EditSits ==
    ASSUME TextInv, SeenInv, PackInv, SomeEdit PROVE PackInv'
<1> DEFINE S == seen.sections
<1>1. /\ Promise!Next /\ did'.op \in {"put", "delete"} /\ did'.done \in BOOLEAN
      /\ ~did'.done => text' = text /\ seen' = seen
      /\ did'.done => SectionsOf(text') = seen'.sections
      /\ did'.fits => did'.new \in SectionType /\ did'.new.name = did'.expected
    BY EditIs DEF SomeEdit
<1>2. packed' = [f \in Name |-> IF Spares(f) THEN packed[f] ELSE NoFile]
    BY DEF SomeEdit
<1>3. S \in Seq(SectionType)
    BY SeenNow, LinesType, SectionsAt
<1>4. ASSUME NEW f \in Name, packed'[f] # NoFile
      PROVE  /\ packed'[f] = packed[f] /\ packed[f] # NoFile
             /\ did'.done => /\ f # did'.name /\ f # did'.expected /\ (did'.op = "put" => did'.sound)
                             /\ Alike(text) /\ ~Has(packed[f], "cut")
    <2>1. Spares(f) /\ packed'[f] = packed[f]
        BY <1>2, <1>4
    <2> QED BY <1>4, <2>1 DEF Spares
<1>6. CASE ~did'.done
    <2>1. text' = text /\ seen' = seen
        BY <1>1, <1>6
    <2> QED BY <1>4, <2>1 DEF PackInv
<1>7. CASE did'.done
    <2>1. ASSUME NEW f \in Name, packed'[f] # NoFile
          PROVE  ~seen'.open /\ Sits(seen'.sections, f, Coded(packed'[f]))
        <3> DEFINE L == Coded(packed'[f])
        <3>0. Sits(S, f, L) /\ ~seen.open
            BY <1>4, <1>7, <2>1 DEF PackInv
        <3> HIDE DEF L
        <3>1. f # did'.name /\ f # did'.expected /\ (did'.op = "put" => did'.sound) /\ ~seen.open
            BY <1>4, <1>7, <2>1, <3>0
        <3>2. CASE Promise!Put
            <4>1. did'.sound /\ did'.new \in SectionType /\ did'.new.name # f
                BY <1>1, <3>1, <3>2 DEF Promise!Put
            <4>2. CASE Promise!Named(S, did'.name) # {}
                <5>1. Promise!First(S, did'.name) \in DOMAIN S /\ S[Promise!First(S, did'.name)].name = did'.name
                    BY <1>3, <4>2, FirstIs
                <5>2. Promise!Write(S, seen'.sections, Promise!First(S, did'.name), did'.new)
                    BY <3>2, <4>2 DEF Promise!Put
                <5>3. /\ seen'.sections = Promise!ReplaceAt(S, Promise!First(S, did'.name), did'.new)
                      /\ ~seen'.open
                    BY <3>1, <4>1, <5>2 DEF Promise!Write
                <5> QED BY <3>0, <3>1, <4>1, <5>1, <5>3, SitsReplaced DEF L
            <4>3. CASE Promise!Named(S, did'.name) = {}
                <5>1. Promise!Add(S, seen'.sections, did'.new)
                    BY <3>2, <4>3 DEF Promise!Put
                <5>2. seen'.sections = Append(S, did'.new) /\ ~seen'.open
                    BY <3>1, <4>1, <5>1 DEF Promise!Add
                <5> QED BY <1>3, <3>0, <4>1, <5>2, SitsAppended DEF L
            <4> QED BY <4>2, <4>3
        <3>3. CASE Promise!Delete
            <4>1. /\ Promise!Named(S, did'.name) # {}
                  /\ seen'.sections = Promise!RemoveAt(S, Promise!First(S, did'.name))
                  /\ ~seen'.open
                BY <3>1, <3>3 DEF Promise!Delete
            <4>2. Promise!First(S, did'.name) \in DOMAIN S /\ S[Promise!First(S, did'.name)].name = did'.name
                BY <1>3, <4>1, FirstIs
            <4> QED BY <1>3, <3>0, <3>1, <4>1, <4>2, SitsRemoved DEF L
        <3>4. ~Promise!Refuse /\ ~Promise!Whole
            BY <1>1, <1>7 DEF Promise!Refuse, Promise!Whole
        <3> QED BY <1>1, <3>2, <3>3, <3>4 DEF Promise!Next
    <2>2. SectionsOf(text') = seen'.sections
        BY <1>1, <1>7
    <2> QED BY <1>4, <2>1, <2>2 DEF PackInv
<1> QED BY <1>1, <1>6, <1>7

\* The file that is unpacked by a name is that of the section by the name.
LEMMA UnpackedIs ==
    ASSUME TextInv, NEW n \in Name, NEW c \in Contents, Held(c), Sits(SectionsOf(text), n, Coded(c))
    PROVE  Unpacked(n) = c
<1> DEFINE H == Starts(text)
           k == Count(text)
           mine == {p \in DOMAIN H : NameOf(text[H[p]]) = n}
<1>1. text \in Seq(Piece)
    BY PlainIsPiece, PieceIs DEF TextInv
<1>2. /\ k \in Nat /\ DOMAIN H = 1..k /\ Len(H) = k /\ Len(text) \in Nat
      /\ \A q \in 1..k : H[q] \in Headers(text) /\ H[q] \in 1..Len(text)
    BY <1>1, StartsIs
<1>3. ClientStarts(text) = H
    BY Zenon DEF ClientStarts, Starts, Headers
<1>4. /\ SectionsOf(text) = [p \in 1..k |-> Section(text, H[p])]
      /\ DOMAIN SectionsOf(text) = 1..k
    BY <1>1, SectionsAt
<1>5. PICK p \in 1..k : /\ SectionsOf(text)[p] = [name |-> n, body |-> Coded(c)]
                        /\ \A q \in 1..k : SectionsOf(text)[q].name = n => q = p
    BY <1>4, Zenon DEF Sits
<1> DEFINE h == H[p]
           e == EndOf(text, h)
           r == Stop(text, h)
<1>6. \A q \in 1..k : /\ SectionsOf(text)[q].name = NameOf(text[H[q]])
                      /\ SectionsOf(text)[q].body = SubSeq(text, H[q] + 1, Stop(text, H[q]))
    BY <1>4 DEF Section
<1>7. NameOf(text[h]) = n /\ SubSeq(text, h + 1, r) = Coded(c)
    BY <1>5, <1>6
<1>8. mine = {p}
    <2>3. p \in mine
        BY <1>2, <1>7
    <2>4. ASSUME NEW q \in mine PROVE q = p
        <3>1. q \in 1..k /\ NameOf(text[H[q]]) = n
            BY <1>2, <2>4
        <3> QED BY <1>5, <1>6, <3>1
    <2> HIDE DEF mine
    <2> QED BY <2>3, <2>4
<1> HIDE DEF H, k, mine
<1>9. Max({p}) = p
    <2>1. {p} \in SUBSET Nat /\ p \in {p} /\ \A y \in {p} : p >= y
        BY <1>2
    <2> QED BY <2>1, MaxOf
<1>10. e = IF p < k THEN H[p + 1] - 1 ELSE Len(text)
    BY <1>1, EndIsNext DEF H, k
<1>11. Unpacked(n) = Unpack(SubSeq(text, h + 1, e))
    <2>1. Unpacked(n) = IF mine = {} THEN NoFile
                        ELSE Unpack(SubSeq(text, H[Max(mine)] + 1,
                                IF Max(mine) < Len(H) THEN H[Max(mine) + 1] - 1 ELSE Len(text)))
        BY <1>3, Zenon DEF Unpacked, mine
    <2>2. mine # {} /\ Max(mine) = p
        BY <1>8, <1>9
    <2>3. Unpacked(n) = Unpack(SubSeq(text, H[p] + 1, IF p < k THEN H[p + 1] - 1 ELSE Len(text)))
        BY <1>2, <2>1, <2>2
    <2> QED BY <1>10, <2>3
<1>12. h \in Headers(text)
    BY <1>2
<1>13. /\ h \in Nat /\ h >= 1 /\ h <= r /\ r \in Nat /\ r <= e /\ e \in Nat /\ e <= Len(text)
       /\ Len(text) \in Nat /\ \A i \in (r + 1)..e : IsBlank(text[i])
    BY <1>1, <1>12, StopIs
<1> HIDE DEF h, e, r
<1> DEFINE Z == SubSeq(text, r + 1, e)
<1>14. SubSeq(text, h + 1, r) \o Z = SubSeq(text, h + 1, e)
    <2>1. h + 1 \in 1..(Len(text) + 1) /\ r \in ((h + 1) - 1)..Len(text) /\ e \in r..Len(text)
        BY <1>13
    <2> QED BY <1>1, <2>1, ConcatAdjacentSubSeq
<1>15. Z \in Seq(Piece) /\ AllBlank(Z)
    <2>1. r + 1 \in Nat /\ r + 1 >= 1 /\ e \in Int
        BY <1>13
    <2>2. /\ Z \in Seq(Piece) /\ Len(Z) = IF r + 1 <= e THEN e - (r + 1) + 1 ELSE 0
          /\ \A i \in 1..(e - (r + 1) + 1) : Z[i] = text[(r + 1) + i - 1]
        BY <1>1, <1>13, <2>1, SubType
    <2>3. DOMAIN Z = 1..Len(Z)
        BY <2>2, LenProperties
    <2>4. ASSUME NEW i \in DOMAIN Z PROVE IsBlank(Z[i])
        <3>1. i \in 1..Len(Z)
            BY <2>3
        <3> DEFINE z == Len(Z)
        <3>2. z = IF r + 1 <= e THEN e - (r + 1) + 1 ELSE 0
            BY <2>2
        <3> HIDE DEF Z, z
        <3>3. i \in 1..z
            BY <3>1 DEF z
        <3>4. i \in 1..(e - (r + 1) + 1) /\ (r + 1) + i - 1 \in (r + 1)..e
            BY <1>13, <3>2, <3>3
        <3> QED BY <1>13, <2>2, <3>4
    <2> QED BY <2>2, <2>4 DEF AllBlank
<1>16. Unpack(Coded(c) \o Z) = c
    BY <1>15, UnpackIs
<1>17. SubSeq(text, h + 1, e) = Coded(c) \o Z
    BY <1>7, <1>14 DEF h, r
<1> QED BY <1>11, <1>16, <1>17

FilesInv == TextInv /\ SeenInv /\ FileInv /\ PackInv

LEMMA FilesOK == FilesSpec => []FilesInv
<1>1. FilesInit => FilesInv
    <2> SUFFICES ASSUME FilesInit PROVE FilesInv
        OBVIOUS
    <2>1. \A n \in Name : packed[n] = NoFile
        BY DEF FilesInit
    <2> QED BY <2>1, TextInit, SeenInit DEF FilesInv, FileInv, PackInv
<1>2. FilesInv /\ [FilesNext]_files => FilesInv'
    <2> SUFFICES ASSUME FilesInv, [FilesNext]_files PROVE FilesInv'
        OBVIOUS
    <2>1. TextInv' /\ SeenInv'
        BY TextStep, SeenStep DEF FilesInv
    <2>2. ASSUME NEW pre \in Preambles, NEW fs \in Packs, Pack(pre, fs) PROVE FileInv' /\ PackInv'
        BY <2>2, PackSits
    <2>3. CASE SomeEdit
        <3>1. FileInv'
            BY <2>3 DEF SomeEdit, FilesInv, FileInv, Held, Has
        <3>2. PackInv'
            BY <2>3, EditSits DEF FilesInv
        <3> QED BY <2>1, <3>1, <3>2 DEF FilesInv
    <2>4. CASE UNCHANGED files
        <3>1. text' = text /\ seen' = seen /\ packed' = packed
            BY <2>4 DEF files
        <3>2. FileInv' /\ PackInv'
            BY <3>1 DEF FilesInv, FileInv, PackInv
        <3> QED BY <2>1, <3>2 DEF FilesInv
    <2> QED BY <2>1, <2>2, <2>3, <2>4 DEF FilesNext, FilesInv
<1> QED BY <1>1, <1>2, PTL DEF FilesSpec

\* A file that was packed, and has been spared by every edit since, has a section
\* of its own, as it was written.  That is, when the format can hold it (Held), it
\* was packed in peace (Peaceful: the preamble has no heading and no open fence, and
\* no file a fence beside a bare carriage return), and every edit since was of other
\* sections, with a sound body, in a document without a fence or a heading beside a
\* cut, and the file has no cut in it (Spares).
THEOREM PackedSitsAlways == FilesSpec => []PackInv
<1>1. FilesInv => PackInv
    BY DEF FilesInv
<1> QED BY <1>1, FilesOK, PTL

\* Such a file comes back from doc_unpack byte for byte.  What it rests on is what
\* PackedSitsAlways lists; there are no other exceptions, whatever its lines look
\* like, and whatever is packed beside it.
THEOREM PackedComesBackAlways == FilesSpec => []PackedComesBack
<1>1. FilesInv => PackedComesBack
    <2> SUFFICES ASSUME FilesInv, NEW n \in Name, packed[n] # NoFile
                 PROVE  Unpacked(n) = packed[n]
        BY Zenon DEF PackedComesBack
    <2>1. TextInv /\ packed[n] \in Contents /\ Held(packed[n]) /\ Sits(SectionsOf(text), n, Coded(packed[n]))
        BY DEF FilesInv, FileInv, PackInv
    <2> QED BY <2>1, UnpackedIs
<1> QED BY <1>1, FilesOK, PTL

=============================================================================
