----------------------------- MODULE TimerProofs -----------------------------
(***************************************************************************)
(* Proofs about Timer for every size of the wheels and every set of calls: *)
(* a node that is filed in time is always in the list where AddNode would  *)
(* put it, and is dispatched in the very tick in which it is due.          *)
(***************************************************************************)
EXTENDS Timer, FiniteSetTheorems, FunctionTheorems, SequenceTheorems, TLAPS

(***************************************************************************)
(* Division and remainder.                                                 *)
(***************************************************************************)
LEMMA DivUnique ==
  ASSUME NEW a \in Nat, NEW b \in Nat \ {0}, NEW q \in Nat, NEW r \in 0 .. b - 1, a = q * b + r
  PROVE  a \div b = q /\ a % b = r
OBVIOUS

LEMMA DivMod ==
  ASSUME NEW a \in Nat, NEW b \in Nat \ {0}
  PROVE  /\ a \div b \in Nat
         /\ a % b \in 0 .. b - 1
         /\ a = (a \div b) * b + (a % b)
<1> DEFINE q == a \div b
           r == a - q * b
<1>1. q \in Nat
  OBVIOUS
<1>2. q * b <= a /\ a < q * b + b
  OBVIOUS
<1>3. q * b \in Nat
  <2> HIDE DEF q
  <2> QED BY <1>1
<1>4. r \in 0 .. b - 1 /\ a = q * b + r
  <2> HIDE DEF q
  <2> QED BY <1>2, <1>3
<1>5. a % b = r
  <2> HIDE DEF q, r
  <2> QED BY <1>1, <1>4, DivUnique
<1>6. a % b \in 0 .. b - 1 /\ a = q * b + (a % b)
  <2> HIDE DEF q, r
  <2> QED BY <1>4, <1>5
<1> QED BY <1>1, <1>6

LEMMA DivDiv ==
  ASSUME NEW a \in Nat, NEW b \in Nat \ {0}, NEW l \in Nat \ {0}
  PROVE  (a \div b) \div l = a \div (b * l)
OBVIOUS

LEMMA ModSmall ==
  ASSUME NEW b \in Nat \ {0}, NEW a \in 0 .. b - 1
  PROVE  a \div b = 0 /\ a % b = a
OBVIOUS

LEMMA ModAdd ==
  ASSUME NEW a \in Nat, NEW b \in Nat \ {0}
  PROVE  (a + b) % b = a % b /\ (a + b) \div b = a \div b + 1
<1> DEFINE q == a \div b
           r == a % b
<1>1. q \in Nat /\ r \in 0 .. b - 1 /\ a = q * b + r
  BY DivMod
<1> HIDE DEF q, r
<1>2. a + b = (q + 1) * b + r /\ a + b \in Nat /\ q + 1 \in Nat
  BY <1>1
<1>3. (a + b) \div b = q + 1 /\ (a + b) % b = r
  BY <1>1, <1>2, DivUnique
<1> QED BY <1>3 DEF q, r

\* The next number is in the same block, or it is the first of the next block.
LEMMA DivSucc ==
  ASSUME NEW c \in Nat, NEW b \in Nat \ {0}
  PROVE  /\ (c + 1) % b # 0 => (c + 1) \div b = c \div b
         /\ (c + 1) % b = 0 => /\ (c + 1) \div b = c \div b + 1
                               /\ c % b = b - 1
<1> DEFINE q == c \div b
           r == c % b
<1>1. q \in Nat /\ r \in 0 .. b - 1 /\ c = q * b + r
  BY DivMod
<1> HIDE DEF q, r
<1>2. CASE r = b - 1
  <2>1. c + 1 = (q + 1) * b + 0 /\ 0 \in 0 .. b - 1 /\ q + 1 \in Nat /\ c + 1 \in Nat
    BY <1>1, <1>2
  <2>2. (c + 1) \div b = q + 1 /\ (c + 1) % b = 0
    BY <2>1, DivUnique
  <2> QED BY <1>2, <2>2 DEF q, r
<1>3. CASE r # b - 1
  <2>1. c + 1 = q * b + (r + 1) /\ r + 1 \in 0 .. b - 1 /\ c + 1 \in Nat
    BY <1>1, <1>3
  <2>2. (c + 1) \div b = q /\ (c + 1) % b = r + 1
    BY <1>1, <2>1, DivUnique
  <2>3. r + 1 # 0
    BY <1>1
  <2> QED BY <2>2, <2>3 DEF q
<1> QED BY <1>2, <1>3

\* A number is a multiple of b * l if it is one of b and its digit is 0.
LEMMA MultipleOfProduct ==
  ASSUME NEW a \in Nat, NEW b \in Nat \ {0}, NEW l \in Nat \ {0}
  PROVE  a % (b * l) = 0 <=> a % b = 0 /\ (a \div b) % l = 0
<1> DEFINE q == a \div b
           r == a % b
           p == q \div l
           d == q % l
<1>1. q \in Nat /\ r \in 0 .. b - 1 /\ a = q * b + r
  BY DivMod
<1>2. p \in Nat /\ d \in 0 .. l - 1 /\ q = p * l + d
  <2> HIDE DEF q
  <2> QED BY <1>1, DivMod
<1> HIDE DEF q, r, p, d
<1>3. a = p * (b * l) + (d * b + r) /\ b * l \in Nat \ {0} /\ d * b \in Nat
  BY <1>1, <1>2
<1>4. d * b + b <= b * l
  <2>1. d + 1 <= l /\ d \in Nat
    BY <1>2
  <2>2. (d + 1) * b <= l * b
    BY <2>1
  <2> QED BY <2>1, <2>2
<1>5. d * b + r \in 0 .. b * l - 1
  BY <1>1, <1>3, <1>4
<1> DEFINE B == b * l
           x == d * b + r
<1>6. a = p * B + x /\ B \in Nat \ {0} /\ x \in 0 .. B - 1
  BY <1>3, <1>5
<1> HIDE DEF B, x
<1>7. a % B = x
  BY <1>2, <1>6, DivUnique
<1>8. x = 0 <=> d = 0 /\ r = 0
  BY <1>1, <1>2, <1>3 DEF x
<1> QED BY <1>7, <1>8 DEF B, q, r, d

-------------------------------------------------------------------------------
(***************************************************************************)
(* Powers of 2, as numbers of subsets.                                     *)
(***************************************************************************)
LEMMA PowerIsPositive ==
  ASSUME NEW k \in Nat
  PROVE  2^k \in Nat \ {0}
<1> DEFINE S == 1 .. k
<1>1. IsFiniteSet(S) /\ Cardinality(S) = k
  BY FS_Interval
<1>2. IsFiniteSet(SUBSET S) /\ Cardinality(SUBSET S) = 2^k
  BY <1>1, FS_SUBSET
<1>3. SUBSET S # {}
  OBVIOUS
<1> HIDE DEF S
<1>4. 2^k \in Nat /\ 2^k # 0
  BY <1>2, <1>3, FS_CardinalityType, FS_EmptySet
<1> QED BY <1>4

LEMMA PowerSum ==
  ASSUME NEW a \in Nat, NEW b \in Nat
  PROVE  2^(a + b) = 2^a * 2^b
<1> DEFINE S == 1 .. a
           T == a + 1 .. a + b
           P == (SUBSET S) \X (SUBSET T)
           f == [x \in P |-> x[1] \union x[2]]
<1>1. IsFiniteSet(S) /\ Cardinality(S) = a /\ IsFiniteSet(T) /\ Cardinality(T) = b
  <2>1. IsFiniteSet(S) /\ Cardinality(S) = a
    BY FS_Interval
  <2>2. a + 1 \in Int /\ a + b \in Int
    OBVIOUS
  <2>3. IsFiniteSet(T) /\ Cardinality(T) = IF a + 1 > a + b THEN 0 ELSE (a + b) - (a + 1) + 1
    BY <2>2, FS_Interval
  <2>4. (IF a + 1 > a + b THEN 0 ELSE (a + b) - (a + 1) + 1) = b
    OBVIOUS
  <2> QED BY <2>1, <2>3, <2>4
<1>2. S \cap T = {} /\ S \union T = 1 .. a + b
  OBVIOUS
<1>3. IsFiniteSet(S \union T) /\ Cardinality(S \union T) = a + b
  <2>1. a + b \in Nat OBVIOUS
  <2>2. IsFiniteSet(1 .. a + b) /\ Cardinality(1 .. a + b) = a + b
    BY <2>1, FS_Interval
  <2> QED BY <1>2, <2>2
<1> HIDE DEF S, T
<1>4. /\ IsFiniteSet(SUBSET S) /\ Cardinality(SUBSET S) = 2^a
      /\ IsFiniteSet(SUBSET T) /\ Cardinality(SUBSET T) = 2^b
      /\ IsFiniteSet(SUBSET (S \union T)) /\ Cardinality(SUBSET (S \union T)) = 2^(a + b)
  BY <1>1, <1>3, FS_SUBSET
<1>5. IsFiniteSet(P) /\ Cardinality(P) = 2^a * 2^b
  BY <1>4, FS_Product
<1>6. f \in Bijection(P, SUBSET (S \union T))
  <2>1. \A x \in P : x[1] \subseteq S /\ x[2] \subseteq T /\ x = <<x[1], x[2]>>
    OBVIOUS
  <2>2. f \in [P -> SUBSET (S \union T)] /\ \A x \in P : f[x] = x[1] \union x[2]
    BY <2>1
  <2>3. ASSUME NEW x \in P, NEW y \in P, f[x] = f[y] PROVE x = y
    <3>1. x[1] \union x[2] = y[1] \union y[2]
      BY <2>2, <2>3
    <3>2. x[1] = (x[1] \union x[2]) \cap S /\ x[2] = (x[1] \union x[2]) \cap T
      BY <1>2, <2>1
    <3>3. y[1] = (y[1] \union y[2]) \cap S /\ y[2] = (y[1] \union y[2]) \cap T
      BY <1>2, <2>1
    <3>4. x[1] = y[1] /\ x[2] = y[2]
      BY <3>1, <3>2, <3>3
    <3> QED BY <2>1, <3>4
  <2>4. ASSUME NEW z \in SUBSET (S \union T) PROVE \E x \in P : f[x] = z
    <3>1. <<z \cap S, z \cap T>> \in P
      OBVIOUS
    <3>2. f[<<z \cap S, z \cap T>>] = (z \cap S) \union (z \cap T)
      BY <3>1
    <3>3. (z \cap S) \union (z \cap T) = z
      OBVIOUS
    <3> QED BY <3>1, <3>2, <3>3
  <2> HIDE DEF f, P
  <2> QED BY <2>2, <2>3, <2>4, Fun_IsBij
<1> HIDE DEF f, P
<1>7. Cardinality(P) = Cardinality(SUBSET (S \union T))
  BY <1>5, <1>6, FS_Bijection DEF ExistsBijection
<1> QED BY <1>4, <1>5, <1>7

LEMMA TwoToOne == 2^1 = 2
<1>1. SUBSET {1} = {{}, {1}}
  OBVIOUS
<1>2. IsFiniteSet({1}) /\ Cardinality({1}) = 1
  BY FS_Singleton
<1>3. Cardinality(SUBSET {1}) = 2^1
  BY <1>2, FS_SUBSET
<1>4. {{}, {1}} = {{}} \union {{1}} /\ {1} \notin {{}}
  OBVIOUS
<1>5. IsFiniteSet({{}}) /\ Cardinality({{}}) = 1
  BY FS_Singleton
<1>6. Cardinality({{}} \union {{1}}) = Cardinality({{}}) + 1
  BY <1>4, <1>5, FS_AddElement, Zenon
<1>7. Cardinality({{}, {1}}) = 1 + 1
  BY <1>4, <1>5, <1>6
<1> QED BY <1>1, <1>3, <1>7


-------------------------------------------------------------------------------
(***************************************************************************)
(* The blocks of a level: B(i) ticks each, B(0) those of the near wheel    *)
(* and B(4) all of them.                                                   *)
(***************************************************************************)
B(i) == 2^(NearShift + i * LevelShift)
Block(x, i) == x \div B(i)
Time == 0 .. 2^Width - 1
Half == 2^(Width - 1)

LEMMA Bases ==
  /\ \A i \in 0 .. 4 : B(i) \in Nat \ {0}
  /\ \A i \in 0 .. 3 : B(i + 1) = B(i) * Level
  /\ B(0) = Near /\ B(4) = 2^Width
  /\ Near \in Nat \ {0} /\ Level \in Nat \ {0, 1} /\ 2^Width \in Nat \ {0}
<1> USE TimerAssumption
<1>1. \A i \in 0 .. 4 : i * LevelShift \in Nat
  OBVIOUS
<1>2. \A i \in 0 .. 4 : B(i) \in Nat \ {0}
  BY <1>1, PowerIsPositive DEF B
<1>3. ASSUME NEW i \in 0 .. 3 PROVE B(i + 1) = B(i) * Level
  <2> DEFINE a == NearShift + i * LevelShift
  <2>1. a \in Nat /\ NearShift + (i + 1) * LevelShift = a + LevelShift
    BY <1>1
  <2> HIDE DEF a
  <2>2. 2^(a + LevelShift) = 2^a * 2^LevelShift
    BY <2>1, PowerSum
  <2> QED BY <2>1, <2>2 DEF a, B, Level
<1>4. B(0) = Near /\ B(4) = 2^Width
  <2>1. NearShift + 0 * LevelShift = NearShift
    OBVIOUS
  <2> QED BY <2>1 DEF B, Near, Width
<1>5. Near \in Nat \ {0} /\ 2^Width \in Nat \ {0}
  <2>1. Width \in Nat
    BY DEF Width
  <2> QED BY <2>1, PowerIsPositive DEF Near
<1>6. Level \in Nat \ {0, 1}
  <2> DEFINE l == LevelShift - 1
  <2>1. l \in Nat /\ LevelShift = 1 + l
    OBVIOUS
  <2> HIDE DEF l
  <2>2. 2^(1 + l) = 2^1 * 2^l /\ 2^l \in Nat \ {0}
    BY <2>1, PowerSum, PowerIsPositive
  <2>3. Level = 2 * 2^l
    BY <2>1, <2>2, TwoToOne DEF Level
  <2> QED BY <2>2, <2>3
<1> QED BY <1>2, <1>3, <1>4, <1>5, <1>6

\* A block of any level but the last is at most half of all times.
LEMMA Halves ==
  /\ Half \in Nat \ {0} /\ 2^Width = 2 * Half
  /\ \A i \in 0 .. 3 : B(i) <= Half
<1> USE TimerAssumption
<1>1. Half \in Nat \ {0} /\ 2^Width = 2 * Half
  <2> DEFINE v == Width - 1
  <2>1. v \in Nat /\ Width = 1 + v
    BY DEF Width
  <2> HIDE DEF v
  <2>2. 2^(1 + v) = 2^1 * 2^v /\ 2^v \in Nat \ {0}
    BY <2>1, PowerSum, PowerIsPositive
  <2> QED BY <2>1, <2>2, TwoToOne DEF Half, v
<1>2. ASSUME NEW i \in 0 .. 3 PROVE B(i) * 2 <= B(i + 1)
  <2> DEFINE b == B(i)
             l == Level
  <2>1. b \in Nat /\ l \in Nat /\ l >= 2 /\ B(i + 1) = b * l
    BY Bases
  <2> HIDE DEF b, l
  <2>2. b * 2 <= b * l
    BY <2>1
  <2> QED BY <2>1, <2>2 DEF b
<1>3. /\ B(0) * 2 <= B(1) /\ B(1) * 2 <= B(2) /\ B(2) * 2 <= B(3) /\ B(3) * 2 <= B(4)
      /\ B(0) \in Nat /\ B(1) \in Nat /\ B(2) \in Nat /\ B(3) \in Nat /\ B(4) = 2 * Half
  <2>1. B(0) * 2 <= B(0 + 1) /\ B(1) * 2 <= B(1 + 1) /\ B(2) * 2 <= B(2 + 1) /\ B(3) * 2 <= B(3 + 1)
    BY <1>2
  <2> QED BY <1>1, <2>1, Bases
<1>4. B(0) <= Half /\ B(1) <= Half /\ B(2) <= Half /\ B(3) <= Half
  BY <1>1, <1>3
<1>5. \A i \in 0 .. 3 : i = 0 \/ i = 1 \/ i = 2 \/ i = 3
  OBVIOUS
<1> QED BY <1>1, <1>4, <1>5

(***************************************************************************)
(* Blocks are nested, and a digit tells the blocks of a level apart that   *)
(* are in one block of the next.                                           *)
(***************************************************************************)
LEMMA Nested ==
  ASSUME NEW x \in Nat, NEW y \in Nat, NEW i \in 0 .. 3, Block(x, i) = Block(y, i)
  PROVE  Block(x, i + 1) = Block(y, i + 1)
<1>1. B(i) \in Nat \ {0} /\ Level \in Nat \ {0} /\ B(i + 1) = B(i) * Level
  BY Bases
<1>2. Block(x, i) \div Level = Block(x, i + 1) /\ Block(y, i) \div Level = Block(y, i + 1)
  BY <1>1, DivDiv DEF Block
<1> QED BY <1>2

LEMMA NestedBelow ==
  ASSUME NEW x \in Nat, NEW y \in Nat, NEW i \in 0 .. 3, NEW j \in 0 .. i, Block(x, j) = Block(y, j)
  PROVE  Block(x, i) = Block(y, i)
<1>1. \A k \in 0 .. 2 : Block(x, k) = Block(y, k) => Block(x, k + 1) = Block(y, k + 1)
  BY Nested
<1>2. /\ Block(x, 0) = Block(y, 0) => Block(x, 1) = Block(y, 1)
      /\ Block(x, 1) = Block(y, 1) => Block(x, 2) = Block(y, 2)
      /\ Block(x, 2) = Block(y, 2) => Block(x, 3) = Block(y, 3)
  <2>1. 0 + 1 = 1 /\ 1 + 1 = 2 /\ 2 + 1 = 3
    OBVIOUS
  <2> QED BY <1>1, <2>1
<1>3. i \in {0, 1, 2, 3} /\ j \in {0, 1, 2, 3} /\ j <= i
  OBVIOUS
<1> QED BY <1>2, <1>3

LEMMA DigitIs ==
  ASSUME NEW x \in Nat, NEW i \in 0 .. 3
  PROVE  /\ Digit(x, i) = Block(x, i) % Level
         /\ Digit(x, i) \in 0 .. Level - 1
         /\ Block(x, i) \in Nat
         /\ Block(x, i) = Block(x, i + 1) * Level + Digit(x, i)
<1>1. B(i) \in Nat \ {0} /\ Level \in Nat \ {0} /\ B(i + 1) = B(i) * Level
  BY Bases
<1>2. Digit(x, i) = Block(x, i) % Level
  BY DEF Digit, Block, B
<1>3. Block(x, i) \div Level = Block(x, i + 1)
  BY <1>1, DivDiv DEF Block
<1>4. Block(x, i) \in Nat
  BY <1>1, DivMod DEF Block
<1>5. /\ Block(x, i) % Level \in 0 .. Level - 1
      /\ Block(x, i) = (Block(x, i) \div Level) * Level + (Block(x, i) % Level)
  BY <1>1, <1>4, DivMod
<1> QED BY <1>2, <1>3, <1>4, <1>5

(***************************************************************************)
(* Where AddNode puts a node that expires at e when the time is c: list 4  *)
(* stands for the near wheel.                                              *)
(***************************************************************************)
HomeOf(e, c) == IF SameBlock(e, c, NearShift) THEN <<4, e % Near>>
                ELSE <<LevelOf(e, c), Digit(e, LevelOf(e, c))>>

LEMMA HomeInNear ==
  ASSUME NEW e \in Time, NEW c \in Time, Block(e, 0) = Block(c, 0)
  PROVE  HomeOf(e, c) = <<4, e % Near>>
BY Bases DEF HomeOf, SameBlock, Block, Near

LEMMA HomeInLevel ==
  ASSUME NEW e \in Time, NEW c \in Time, NEW i \in 0 .. 3,
         Block(e, i) # Block(c, i), Block(e, i + 1) = Block(c, i + 1)
  PROVE  HomeOf(e, c) = <<i, Digit(e, i)>> /\ LevelOf(e, c) = i /\ ~SameBlock(e, c, NearShift)
<1>0. e \in Nat /\ c \in Nat
  BY Bases DEF Time
<1>1. ~SameBlock(e, c, NearShift)
  <2>1. Block(e, 0) # Block(c, 0)
    BY <1>0, NestedBelow
  <2> QED BY <2>1, Bases DEF SameBlock, Block, Near
<1>2. \A j \in 0 .. 3 : SameBlock(e, c, NearShift + (j + 1) * LevelShift) <=> Block(e, j + 1) = Block(c, j + 1)
  BY DEF SameBlock, Block, B
<1>3. ASSUME NEW j \in 0 .. i - 1 PROVE Block(e, j + 1) # Block(c, j + 1)
  <2>1. j + 1 \in 0 .. i
    BY <1>3
  <2> QED BY <1>0, <2>1, NestedBelow
<1> DEFINE P(k) == /\ k = 3 \/ SameBlock(e, c, NearShift + (k + 1) * LevelShift)
                   /\ \A j \in 0 .. k - 1 : ~SameBlock(e, c, NearShift + (j + 1) * LevelShift)
<1>4. P(i)
  BY <1>2, <1>3
<1>5. ASSUME NEW k \in 0 .. 3, P(k) PROVE k = i
  <2>1. CASE k < i
    BY <1>2, <1>3, <1>5, <2>1
  <2>2. CASE i < k
    <3>1. i \in 0 .. k - 1
      BY <2>2
    <3> QED BY <1>2, <1>5, <3>1
  <2> QED BY <2>1, <2>2
<1>6. LevelOf(e, c) = CHOOSE k \in 0 .. 3 : P(k)
  BY DEF LevelOf
<1> HIDE DEF P
<1>7. LevelOf(e, c) = i
  BY <1>4, <1>5, <1>6
<1> QED BY <1>1, <1>7 DEF HomeOf

\* One of the two is the case.
LEMMA HomeExists ==
  ASSUME NEW e \in Time, NEW c \in Time
  PROVE  \/ Block(e, 0) = Block(c, 0)
         \/ \E i \in 0 .. 3 : Block(e, i) # Block(c, i) /\ Block(e, i + 1) = Block(c, i + 1)
<1>1. Block(e, 4) = 0 /\ Block(c, 4) = 0
  BY Bases, ModSmall DEF Block, Time
<1> DEFINE D(i) == Block(e, i) # Block(c, i)
<1>2. ~D(4)
  BY <1>1
<1> SUFFICES ASSUME D(0) PROVE \E i \in 0 .. 3 : D(i) /\ ~D(i + 1)
  OBVIOUS
<1> HIDE DEF D
<1>3. (D(0) /\ ~D(1)) \/ (D(1) /\ ~D(2)) \/ (D(2) /\ ~D(3)) \/ (D(3) /\ ~D(4))
  BY <1>2
<1>4. (D(0) /\ ~D(0 + 1)) \/ (D(1) /\ ~D(1 + 1)) \/ (D(2) /\ ~D(2 + 1)) \/ (D(3) /\ ~D(3 + 1))
  BY <1>3
<1> QED BY <1>4


(***************************************************************************)
(* A time that is ahead of c by less than half of all times, and in one    *)
(* block with c although c is the last of that block, is c itself.         *)
(***************************************************************************)
LEMMA LastOfBlock ==
  ASSUME NEW c \in Time, NEW d \in 0 .. Half - 1, NEW e, e = (c + d) % 2^Width,
         NEW i \in 0 .. 3, (c + 1) % B(i) = 0, Block(e, i) = Block(c, i)
  PROVE  e = c
<1> DEFINE m == 2^Width
           b == B(i)
           q == c \div b
<1>0. /\ m \in Nat \ {0} /\ b \in Nat \ {0} /\ b <= Half /\ m = 2 * Half /\ Half \in Nat \ {0}
      /\ c \in Nat /\ c < m /\ d \in Nat /\ d < Half
  BY Bases, Halves DEF Time
<1>1. e \in Nat
  <2> HIDE DEF m
  <2>1. c + d \in Nat
    BY <1>0
  <2>2. (c + d) % m \in 0 .. m - 1
    BY <1>0, <2>1, DivMod
  <2> QED BY <1>0, <2>2 DEF m
<1>2. e = c + d \/ e = c + d - m
  <2> HIDE DEF m
  <2>1. CASE c + d < m
    <3>1. c + d \in 0 .. m - 1
      BY <1>0, <2>1
    <3>2. (c + d) % m = c + d
      BY <1>0, <3>1, ModSmall
    <3> QED BY <3>2 DEF m
  <2>2. CASE ~(c + d < m)
    <3> DEFINE x == c + d - m
    <3>1. x \in 0 .. m - 1 /\ x \in Nat /\ c + d = x + m
      BY <1>0, <2>2
    <3> HIDE DEF x
    <3>2. x % m = x
      BY <1>0, <3>1, ModSmall
    <3>3. (x + m) % m = x % m
      BY <1>0, <3>1, ModAdd
    <3>4. e = x
      BY <3>1, <3>2, <3>3 DEF m
    <3> QED BY <3>4 DEF x
  <2> QED BY <2>1, <2>2
<1>3. /\ q \in Nat /\ c = q * b + (b - 1) /\ q * b \in Nat
      /\ q * b <= e /\ e <= q * b + (b - 1)
  <2> HIDE DEF b
  <2>1. c % b = b - 1
    BY <1>0, DivSucc DEF b
  <2>2. q \in Nat /\ c = q * b + (c % b)
    BY <1>0, DivMod
  <2>3. e \div b = q
    BY DEF Block, b
  <2>4. e % b \in 0 .. b - 1 /\ e = (e \div b) * b + (e % b)
    BY <1>0, <1>1, DivMod
  <2> HIDE DEF q
  <2>5. q * b \in Nat
    BY <1>0, <2>2
  <2>6. c = q * b + (b - 1) /\ e = q * b + (e % b)
    BY <2>1, <2>2, <2>3, <2>4
  <2> DEFINE x == q * b
             r == e % b
  <2>7. x \in Nat /\ r \in 0 .. b - 1 /\ c = x + (b - 1) /\ e = x + r
    BY <2>4, <2>5, <2>6
  <2> HIDE DEF x, r
  <2>8. c = x + (b - 1) /\ x <= e /\ e <= x + (b - 1)
    BY <1>0, <2>7
  <2> QED BY <2>2, <2>5, <2>8 DEF x
<1> DEFINE x == q * b
<1>4. x \in Nat /\ c = x + (b - 1) /\ x <= e /\ e <= x + (b - 1)
  BY <1>3
<1> HIDE DEF m, b, q, x
<1> QED BY <1>0, <1>1, <1>2, <1>4

(***************************************************************************)
(* What is ahead of the time stays ahead of it in the next tick.           *)
(***************************************************************************)
LEMMA NextTick ==
  ASSUME NEW m \in Nat \ {0}, NEW c \in 0 .. m - 1, NEW k \in Nat \ {0}
  PROVE  /\ (c + 1) % m \in 0 .. m - 1
         /\ c + 1 < m => (c + 1) % m = c + 1
         /\ c + 1 = m => (c + 1) % m = 0
         /\ (((c + 1) % m) + (k - 1)) % m = (c + k) % m
<1>1. CASE c + 1 < m
  <2>1. (c + 1) % m = c + 1
    BY <1>1, ModSmall
  <2> QED BY <1>1, <2>1
<1>2. CASE c + 1 = m
  <2>1. (0 + m) % m = 0 % m /\ 0 % m = 0
    BY ModAdd, ModSmall
  <2>2. (c + 1) % m = 0
    BY <1>2, <2>1
  <2>3. c + k = (k - 1) + m /\ k - 1 \in Nat
    BY <1>2
  <2>4. ((k - 1) + m) % m = (k - 1) % m
    BY <2>3, ModAdd
  <2> QED BY <1>2, <2>2, <2>3, <2>4
<1> QED BY <1>1, <1>2

\* What (c + 1) % B(i) = 0 says, level by level.
LEMMA Borders ==
  ASSUME NEW a \in Nat
  PROVE  /\ \A i \in 0 .. 3 : a % B(i + 1) = 0 <=> a % B(i) = 0 /\ Digit(a, i) = 0
         /\ \A i \in 0 .. 3 : a % B(i) = 0 => /\ a % Near = 0
                                              /\ \A j \in 0 .. i - 1 : Digit(a, j) = 0
<1>1. ASSUME NEW i \in 0 .. 3 PROVE a % B(i + 1) = 0 <=> a % B(i) = 0 /\ Digit(a, i) = 0
  <2>1. B(i) \in Nat \ {0} /\ Level \in Nat \ {0} /\ B(i + 1) = B(i) * Level
    BY Bases
  <2>2. Digit(a, i) = (a \div B(i)) % Level
    BY DEF Digit, B
  <2> QED BY <2>1, <2>2, MultipleOfProduct
<1> DEFINE Z(i) == a % B(i) = 0
           O(i) == Digit(a, i) = 0
<1>2. \A i \in 0 .. 3 : Z(i + 1) <=> Z(i) /\ O(i)
  BY <1>1
<1>3. Z(0) <=> a % Near = 0
  BY Bases
<1> SUFFICES \A i \in 0 .. 3 : Z(i) => Z(0) /\ \A j \in 0 .. i - 1 : O(j)
  BY <1>1, <1>3
<1> HIDE DEF Z, O
<1>4. (Z(0 + 1) <=> Z(0) /\ O(0)) /\ (Z(1 + 1) <=> Z(1) /\ O(1)) /\ (Z(2 + 1) <=> Z(2) /\ O(2))
  BY <1>2
<1>5. (Z(1) <=> Z(0) /\ O(0)) /\ (Z(2) <=> Z(1) /\ O(1)) /\ (Z(3) <=> Z(2) /\ O(2))
  BY <1>4
<1>6. ASSUME NEW i \in 0 .. 3, Z(i) PROVE Z(0) /\ \A j \in 0 .. i - 1 : O(j)
  <2>1. i \in {0, 1, 2, 3} /\ \A j \in 0 .. i - 1 : j \in {0, 1, 2} /\ j < i
    OBVIOUS
  <2>2. CASE i = 0
    BY <1>6, <2>2
  <2>3. CASE i = 1
    <3>1. \A j \in 0 .. i - 1 : j = 0 BY <2>3
    <3> QED BY <1>5, <1>6, <2>3, <3>1
  <2>4. CASE i = 2
    <3>1. \A j \in 0 .. i - 1 : j = 0 \/ j = 1 BY <2>4
    <3> QED BY <1>5, <1>6, <2>4, <3>1
  <2>5. CASE i = 3
    <3>1. \A j \in 0 .. i - 1 : j = 0 \/ j = 1 \/ j = 2 BY <2>5
    <3> QED BY <1>5, <1>6, <2>5, <3>1
  <2> QED BY <2>1, <2>2, <2>3, <2>4, <2>5
<1> QED BY <1>6

(***************************************************************************)
(* The heart of the timer: when the time moves from c to the next tick,    *)
(* AddNode would put a node that is ahead of the time where it put it      *)
(* before, unless the node's list is the one of the tick that has passed   *)
(* or the one that TimerShift moves.                                       *)
(***************************************************************************)
LEMMA ShiftKeepsHome ==
  ASSUME NEW c \in Time, NEW d \in 0 .. Half - 1, NEW e, e = (c + d) % 2^Width,
         NEW ct, ct = (c + 1) % 2^Width,
         HomeOf(e, c) # <<4, c % Near>>, HomeOf(e, c) \notin Moved(ct)
  PROVE  HomeOf(e, ct) = HomeOf(e, c) /\ e # c /\ d # 0 /\ e \in Time /\ ct \in Time
<1>0. /\ 2^Width \in Nat \ {0} /\ c \in Nat /\ c + 1 \in Nat /\ c + d \in Nat
      /\ Half \in Nat \ {0} /\ 2^Width = 2 * Half
  BY Bases, Halves DEF Time
<1>1. e \in Time /\ ct \in Time
  BY <1>0, DivMod DEF Time
<1>2. e \in Nat /\ ct \in Nat
  BY <1>0, <1>1 DEF Time
<1>3. e # c
  <2>1. Block(c, 0) = Block(c, 0)
    OBVIOUS
  <2> QED BY HomeInNear
<1>4. d # 0
  BY <1>0, <1>3, ModSmall DEF Time
<1>5. \A i \in 0 .. 3 : (c + 1) % B(i) = 0 => Block(e, i) # Block(c, i)
  BY <1>3, LastOfBlock
<1>6. \A i \in 0 .. 4 : /\ B(i) \in Nat \ {0}
                        /\ (c + 1) % B(i) # 0 => Block(c + 1, i) = Block(c, i)
  BY <1>0, Bases, DivSucc DEF Block
<1>7. CASE c + 1 < 2^Width
  <2>1. ct = c + 1
    BY <1>0, <1>7, ModSmall
  <2>2. (c + 1) % B(4) # 0
    BY <1>0, <1>7, Bases, ModSmall
  <2>3. CASE Block(e, 0) = Block(c, 0)
    <3>1. Block(e, 0) = Block(ct, 0)
      BY <1>5, <1>6, <2>1, <2>3
    <3> QED BY <1>1, <1>3, <1>4, <2>3, <3>1, HomeInNear
  <2>4. ASSUME NEW i \in 0 .. 3, Block(e, i) # Block(c, i), Block(e, i + 1) = Block(c, i + 1)
        PROVE  HomeOf(e, ct) = HomeOf(e, c)
    <3>1. HomeOf(e, c) = <<i, Digit(e, i)>>
      BY <1>1, <2>4, HomeInLevel
    <3>2. (c + 1) % B(i + 1) # 0
      <4>1. CASE i = 3 BY <2>2, <4>1
      <4>2. CASE i # 3
        <5>1. i + 1 \in 0 .. 3 BY <4>2
        <5> QED BY <1>5, <2>4, <5>1
      <4> QED BY <4>1, <4>2
    <3>3. Block(e, i + 1) = Block(ct, i + 1)
      <4>1. i + 1 \in 0 .. 4 OBVIOUS
      <4> QED BY <1>6, <2>1, <2>4, <3>2, <4>1
    <3>4. Block(e, i) # Block(ct, i)
      <4>1. CASE (c + 1) % B(i) # 0
        BY <1>6, <2>1, <2>4, <4>1
      <4>2. CASE (c + 1) % B(i) = 0
        <5>1. /\ Digit(ct, i) # 0 /\ ct % Near = 0
              /\ \A j \in 0 .. i - 1 : Digit(ct, j) = 0
          BY <1>2, <2>1, <3>2, <4>2, Borders
        <5>2. <<i, Digit(ct, i)>> \in Moved(ct)
          BY <1>0, <2>1, <5>1 DEF Moved
        <5>3. Digit(e, i) # Digit(ct, i)
          BY <3>1, <5>2
        <5>4. Digit(e, i) = Block(e, i) % Level /\ Digit(ct, i) = Block(ct, i) % Level
          BY <1>2, DigitIs
        <5> QED BY <5>3, <5>4
      <4> QED BY <4>1, <4>2
    <3> QED BY <1>1, <3>1, <3>3, <3>4, HomeInLevel
  <2>5. HomeOf(e, ct) = HomeOf(e, c)
    BY <1>1, <2>3, <2>4, HomeExists
  <2> QED BY <1>1, <1>3, <1>4, <2>5
<1>8. CASE c + 1 = 2^Width
  <2>1. ct = 0
    BY <1>0, <1>8, NextTick DEF Time
  <2>2. \A i \in 0 .. 3 : (c + 1) % B(i) = 0
    <3>1. (c + 1) % B(3 + 1) = 0
      <4> DEFINE b == B(4)
      <4>1. b \in Nat \ {0} /\ c + 1 = b
        BY <1>8, Bases
      <4> HIDE DEF b
      <4>2. 0 % b = 0
        BY <4>1, ModSmall
      <4>3. (0 + b) % b = 0 % b
        BY <4>1, ModAdd
      <4>4. (c + 1) % b = 0
        BY <4>1, <4>2, <4>3
      <4> QED BY <4>4 DEF b
    <3>2. \A i \in 0 .. 3 : (c + 1) % B(i + 1) = 0 => (c + 1) % B(i) = 0
      BY <1>0, Borders
    <3> DEFINE Z(i) == (c + 1) % B(i) = 0
    <3>3. (Z(0 + 1) => Z(0)) /\ (Z(1 + 1) => Z(1)) /\ (Z(2 + 1) => Z(2)) /\ (Z(3 + 1) => Z(3)) /\ Z(3 + 1)
      BY <3>1, <3>2
    <3> SUFFICES \A i \in 0 .. 3 : Z(i)
      OBVIOUS
    <3> HIDE DEF Z
    <3>4. Z(0) /\ Z(1) /\ Z(2) /\ Z(3)
      BY <3>3
    <3>5. \A i \in 0 .. 3 : i \in {0, 1, 2, 3}
      OBVIOUS
    <3> QED BY <3>4, <3>5
  <2>3. \A i \in 0 .. 3 : Block(e, i) # Block(c, i)
    BY <1>5, <2>2
  <2>4. PICK i \in 0 .. 3 : Block(e, i) # Block(c, i) /\ Block(e, i + 1) = Block(c, i + 1)
    BY <1>1, <2>3, HomeExists
  <2>5. i = 3
    <3>1. i # 3 => i + 1 \in 0 .. 3 OBVIOUS
    <3> QED BY <2>3, <2>4, <3>1
  <2>6. HomeOf(e, c) = <<3, Digit(e, 3)>>
    BY <1>1, <2>4, <2>5, HomeInLevel
  <2>7. Digit(e, 3) # 0
    BY <2>1, <2>6 DEF Moved
  <2>8. Block(e, 3) # Block(0, 3)
    <3>1. Block(0, 3) = 0
      BY Bases, ModSmall DEF Block
    <3>2. Digit(e, 3) = Block(e, 3) % Level /\ Level \in Nat \ {0}
      BY <1>2, DigitIs, Bases
    <3>3. 0 % Level = 0
      BY <3>2, ModSmall
    <3> QED BY <2>7, <3>1, <3>2, <3>3
  <2>9. Block(e, 3 + 1) = Block(0, 3 + 1)
    <3>1. 3 + 1 = 4 OBVIOUS
    <3>2. Block(e, 4) = 0 /\ Block(0, 4) = 0
      BY <1>1, Bases, ModSmall DEF Block, Time
    <3> QED BY <3>1, <3>2
  <2>10. HomeOf(e, ct) = <<3, Digit(e, 3)>>
    BY <1>1, <2>1, <2>8, <2>9, HomeInLevel
  <2> QED BY <1>1, <1>3, <1>4, <2>6, <2>10
<1>9. c + 1 < 2^Width \/ c + 1 = 2^Width
  BY <1>0 DEF Time
<1> QED BY <1>7, <1>8, <1>9


-------------------------------------------------------------------------------
(***************************************************************************)
(* The lists of the wheel by their places.                                 *)
(***************************************************************************)
In(n, s) == n \in NodesOf(At(s))

WheelTypes == /\ near \in [0 .. Near - 1 -> Seq(Node)]
              /\ t \in [0 .. 3 -> [0 .. Level - 1 -> Seq(Node)]]

LEMMA SlotCases ==
  ASSUME NEW s \in Slots
  PROVE  \/ /\ s[1] = 4 /\ s[2] \in 0 .. Near - 1 /\ s = <<4, s[2]>>
            /\ At(s) = near[s[2]]
         \/ /\ s[1] \in 0 .. 3 /\ s[2] \in 0 .. Level - 1 /\ s = <<s[1], s[2]>>
            /\ At(s) = t[s[1]][s[2]]
BY DEF Slots, At

LEMMA SlotIsList ==
  ASSUME WheelTypes, NEW s \in Slots
  PROVE  At(s) \in Seq(Node)
<1>1. CASE s[1] = 4 /\ s[2] \in 0 .. Near - 1
  BY <1>1 DEF At, WheelTypes
<1>2. CASE s[1] \in 0 .. 3 /\ s[2] \in 0 .. Level - 1
  <2>1. s[1] # 4 BY <1>2
  <2>2. t[s[1]] \in [0 .. Level - 1 -> Seq(Node)] BY <1>2 DEF WheelTypes
  <2>3. t[s[1]][s[2]] \in Seq(Node) BY <1>2, <2>2
  <2> QED BY <2>1, <2>3 DEF At
<1> QED BY <1>1, <1>2, SlotCases

LEMMA SlotIs ==
  /\ \A k \in 0 .. Near - 1 : <<4, k>> \in Slots /\ At(<<4, k>>) = near[k]
  /\ \A i \in 0 .. 3, k \in 0 .. Level - 1 : <<i, k>> \in Slots /\ At(<<i, k>>) = t[i][k]
<1>1. \A k \in 0 .. Near - 1 : <<4, k>> \in Slots /\ At(<<4, k>>) = near[k]
  BY DEF Slots, At
<1>2. ASSUME NEW i \in 0 .. 3, NEW k \in 0 .. Level - 1
      PROVE  <<i, k>> \in Slots /\ At(<<i, k>>) = t[i][k]
  <2>1. i # 4 OBVIOUS
  <2> QED BY <2>1 DEF Slots, At
<1> QED BY <1>1, <1>2

LEMMA HomeIsSlot ==
  ASSUME NEW e \in Time, NEW c \in Time
  PROVE  /\ HomeOf(e, c) \in Slots
         /\ SameBlock(e, c, NearShift) => e % Near \in 0 .. Near - 1
         /\ ~SameBlock(e, c, NearShift)
              => LevelOf(e, c) \in 0 .. 3 /\ Digit(e, LevelOf(e, c)) \in 0 .. Level - 1
<1>0. e \in Nat /\ c \in Nat /\ Near \in Nat \ {0}
  BY Bases DEF Time
<1>1. CASE SameBlock(e, c, NearShift)
  <2>1. e % Near \in 0 .. Near - 1
    BY <1>0, DivMod
  <2> QED BY <1>1, <2>1, SlotIs DEF HomeOf
<1>2. CASE ~SameBlock(e, c, NearShift)
  <2>1. Block(e, 0) # Block(c, 0)
    BY <1>2, Bases DEF SameBlock, Block, Near
  <2>2. PICK i \in 0 .. 3 : Block(e, i) # Block(c, i) /\ Block(e, i + 1) = Block(c, i + 1)
    BY <2>1, HomeExists
  <2>3. LevelOf(e, c) = i /\ HomeOf(e, c) = <<i, Digit(e, i)>>
    BY <2>2, HomeInLevel
  <2>4. Digit(e, i) \in 0 .. Level - 1
    BY <1>0, DigitIs
  <2> QED BY <1>2, <2>3, <2>4, SlotIs
<1> QED BY <1>1, <1>2

\* The list of the current tick is home to the nodes that are due now.
LEMMA HomeIsNow ==
  ASSUME NEW e \in Time, NEW c \in Time, HomeOf(e, c) = <<4, c % Near>>
  PROVE  e = c
<1>0. e \in Nat /\ c \in Nat /\ Near \in Nat \ {0}
  BY Bases DEF Time
<1>1. SameBlock(e, c, NearShift)
  <2>1. CASE ~SameBlock(e, c, NearShift)
    <3>1. LevelOf(e, c) \in 0 .. 3 /\ LevelOf(e, c) = 4
      BY <2>1, HomeIsSlot DEF HomeOf
    <3> QED BY <3>1
  <2> QED BY <2>1
<1>2. e \div Near = c \div Near /\ e % Near = c % Near
  BY <1>1 DEF SameBlock, HomeOf, Near
<1>3. e = (e \div Near) * Near + (e % Near) /\ c = (c \div Near) * Near + (c % Near)
  BY <1>0, DivMod
<1> QED BY <1>2, <1>3

LEMMA AheadOfNow ==
  ASSUME NEW c \in Time, NEW d \in 0 .. Half - 1, (c + d) % 2^Width = c
  PROVE  d = 0
<1> DEFINE m == 2^Width
<1>0. /\ m \in Nat \ {0} /\ m = 2 * Half /\ Half \in Nat \ {0} /\ c \in Nat /\ c < m
      /\ d \in Nat /\ d < Half /\ (c + d) % m = c
  BY Bases, Halves DEF Time
<1> HIDE DEF m
<1>1. CASE c + d < m
  <2>1. c + d \in 0 .. m - 1 BY <1>0, <1>1
  <2>2. (c + d) % m = c + d BY <1>0, <2>1, ModSmall
  <2> QED BY <1>0, <2>2
<1>2. CASE ~(c + d < m)
  <2> DEFINE x == c + d - m
  <2>1. x \in 0 .. m - 1 /\ x \in Nat /\ c + d = x + m
    BY <1>0, <1>2
  <2>2. x # c
    BY <1>0
  <2> HIDE DEF x
  <2>3. x % m = x /\ (x + m) % m = x % m
    BY <1>0, <2>1, ModSmall, ModAdd
  <2> QED BY <1>0, <2>1, <2>2, <2>3
<1> QED BY <1>1, <1>2

\* TimerShift moves at most one list.
LEMMA MovedIsOne ==
  ASSUME NEW ct \in Time
  PROVE  /\ \A s \in Moved(ct) : /\ s \in Slots /\ s[1] \in 0 .. 3 /\ s[2] \in 0 .. Level - 1
                                 /\ s = <<s[1], s[2]>>
         /\ \A s, r \in Moved(ct) : s = r
<1>0. ct \in Nat /\ Level \in Nat \ {0, 1}
  BY Bases DEF Time
<1>1. CASE ct = 0
  <2>1. Moved(ct) = {<<3, 0>>} /\ 0 \in 0 .. Level - 1 /\ 3 \in 0 .. 3
    BY <1>0, <1>1 DEF Moved
  <2> QED BY <2>1, SlotIs
<1>2. CASE ct # 0
  <2> DEFINE L == {l \in 0 .. 3 : Digit(ct, l) # 0 /\ \A j \in 0 .. l - 1 : Digit(ct, j) = 0}
  <2>1. \A s \in Moved(ct) : \E i \in L : s = <<i, Digit(ct, i)>>
    BY <1>2 DEF Moved
  <2>2. \A i \in L : i \in 0 .. 3 /\ Digit(ct, i) \in 0 .. Level - 1
    BY <1>0, DigitIs
  <2>3. ASSUME NEW i \in L, NEW j \in L PROVE i = j
    <3>1. CASE i < j
      <4>1. i \in 0 .. j - 1 BY <3>1
      <4> QED BY <4>1
    <3>2. CASE j < i
      <4>1. j \in 0 .. i - 1 BY <3>2
      <4> QED BY <4>1
    <3> QED BY <3>1, <3>2
  <2> HIDE DEF L
  <2>4. ASSUME NEW s \in Moved(ct)
        PROVE  s \in Slots /\ s[1] \in 0 .. 3 /\ s[2] \in 0 .. Level - 1 /\ s = <<s[1], s[2]>>
    <3>1. PICK i \in L : s = <<i, Digit(ct, i)>>
      BY <2>1
    <3> QED BY <2>2, <3>1, SlotIs
  <2>5. ASSUME NEW s \in Moved(ct), NEW r \in Moved(ct) PROVE s = r
    BY <2>1, <2>3
  <2> QED BY <2>4, <2>5
<1> QED BY <1>1, <1>2

(***************************************************************************)
(* The nodes of a list.                                                    *)
(***************************************************************************)
Distinct(list) == \A j, k \in DOMAIN list : list[j] = list[k] => j = k

LEMMA NodesOfAppend ==
  ASSUME NEW l \in Seq(Node), NEW n \in Node
  PROVE  /\ Append(l, n) \in Seq(Node)
         /\ NodesOf(Append(l, n)) = NodesOf(l) \union {n}
         /\ Distinct(l) /\ n \notin NodesOf(l) => Distinct(Append(l, n))
<1> DEFINE u == Append(l, n)
<1>1. /\ u \in Seq(Node) /\ Len(u) = Len(l) + 1 /\ u[Len(u)] = n
      /\ \A k \in 1 .. Len(l) : u[k] = l[k]
      /\ DOMAIN u = 1 .. Len(u) /\ DOMAIN l = 1 .. Len(l) /\ Len(l) \in Nat
  BY AppendProperties
<1> HIDE DEF u
<1>2. \A k \in 1 .. Len(u) : k = Len(u) \/ k \in 1 .. Len(l)
  BY <1>1
<1>3. NodesOf(u) = NodesOf(l) \union {n}
  <2>1. NodesOf(u) \subseteq NodesOf(l) \union {n}
    BY <1>1, <1>2 DEF NodesOf
  <2>2. NodesOf(l) \union {n} \subseteq NodesOf(u)
    <3>1. \A k \in 1 .. Len(l) : k \in 1 .. Len(u)
      BY <1>1
    <3>2. Len(u) \in 1 .. Len(u)
      BY <1>1
    <3> QED BY <1>1, <3>1, <3>2 DEF NodesOf
  <2> QED BY <2>1, <2>2
<1>4. ASSUME Distinct(l), n \notin NodesOf(l) PROVE Distinct(u)
  <2> SUFFICES ASSUME NEW j \in 1 .. Len(u), NEW k \in 1 .. Len(u), u[j] = u[k] PROVE j = k
    BY <1>1 DEF Distinct
  <2>1. \A i \in 1 .. Len(l) : u[i] # n
    BY <1>1, <1>4 DEF NodesOf
  <2> QED BY <1>1, <1>2, <1>4, <2>1 DEF Distinct
<1> QED BY <1>1, <1>3, <1>4 DEF u

LEMMA NodesOfTail ==
  ASSUME NEW l \in Seq(Node), l # <<>>, Distinct(l)
  PROVE  /\ Tail(l) \in Seq(Node) /\ Head(l) \in Node /\ Head(l) \in NodesOf(l)
         /\ NodesOf(Tail(l)) \subseteq NodesOf(l) \ {Head(l)}
         /\ Distinct(Tail(l))
<1> DEFINE u == Tail(l)
<1>1. /\ u \in Seq(Node) /\ Len(u) = Len(l) - 1 /\ Head(l) = l[1] /\ l[1] \in Node
      /\ \A k \in 1 .. Len(u) : u[k] = l[k + 1]
      /\ DOMAIN u = 1 .. Len(u) /\ DOMAIN l = 1 .. Len(l) /\ Len(l) \in Nat \ {0}
  BY HeadTailProperties
<1> HIDE DEF u
<1>2. 1 \in 1 .. Len(l) /\ \A k \in 1 .. Len(u) : k + 1 \in 1 .. Len(l) /\ k + 1 # 1
  BY <1>1
<1>3. NodesOf(u) \subseteq NodesOf(l) \ {l[1]} /\ l[1] \in NodesOf(l)
  BY <1>1, <1>2 DEF NodesOf, Distinct
<1>4. Distinct(u)
  <2> SUFFICES ASSUME NEW j \in 1 .. Len(u), NEW k \in 1 .. Len(u), u[j] = u[k] PROVE j = k
    BY <1>1 DEF Distinct
  <2>1. j + 1 = k + 1
    BY <1>1, <1>2 DEF Distinct
  <2> QED BY <1>1, <2>1
<1> QED BY <1>1, <1>3, <1>4 DEF u

LEMMA NodesOfEmpty == NodesOf(<<>>) = {} /\ Distinct(<<>>)
BY DEF NodesOf, Distinct

LEMMA FiledIs ==
  ASSUME WheelTypes, NEW n \in Node
  PROVE  n \in Filed <=> \E s \in Slots : In(n, s)
<1>1. ASSUME NEW s \in Slots, In(n, s) PROVE n \in Filed
  BY <1>1, SlotCases DEF In, Filed, WheelTypes
<1>2. ASSUME n \in Filed PROVE \E s \in Slots : In(n, s)
  <2>1. \/ \E k \in 0 .. Near - 1 : n \in NodesOf(near[k])
        \/ \E i \in 0 .. 3, k \in 0 .. Level - 1 : n \in NodesOf(t[i][k])
    BY <1>2 DEF Filed, WheelTypes
  <2>2. ASSUME NEW k \in 0 .. Near - 1, n \in NodesOf(near[k]) PROVE \E s \in Slots : In(n, s)
    <3>1. <<4, k>> \in Slots /\ In(n, <<4, k>>)
      BY <2>2, SlotIs DEF In
    <3> QED BY <3>1
  <2>3. ASSUME NEW i \in 0 .. 3, NEW k \in 0 .. Level - 1, n \in NodesOf(t[i][k])
        PROVE  \E s \in Slots : In(n, s)
    <3>1. <<i, k>> \in Slots /\ In(n, <<i, k>>)
      BY <2>3, SlotIs DEF In
    <3> QED BY <3>1
  <2> QED BY <2>1, <2>2, <2>3
<1> QED BY <1>1, <1>2


-------------------------------------------------------------------------------
(***************************************************************************)
(* The inductive invariant.                                                *)
(*   Control  the lock is held while the timer thread is in Execute or     *)
(*            spins, and a list is being dispatched only outside of it;    *)
(*   Once     no node is in two lists or twice in one;                     *)
(*   Homes    a node filed in time is in its home and its expiry is ahead  *)
(*            of the time by the ticks it has left;                        *)
(*   Coming   so is the expiry of a node that is not filed yet, unless it  *)
(*            is overdue already.                                          *)
(***************************************************************************)
Control == /\ lock <=> pc \in {"execute", "spin"}
           /\ pc # "idle" => todo > 0
           /\ pc \in {"idle", "execute"} => batch = <<>>

Once == /\ \A s \in Slots : Distinct(At(s))
        /\ Distinct(batch)
        /\ \A s, r \in Slots, n \in Node : In(n, s) /\ In(n, r) => s = r
        /\ \A s \in Slots, n \in Node : In(n, s) => n \notin NodesOf(batch) /\ n \notin adding
        /\ \A n \in adding : n \notin NodesOf(batch)

Expects(n) == expire[n] = (time + left[n]) % 2^Width

Homes == \A s \in Slots, n \in Node :
           In(n, s) /\ n \notin late => left[n] >= 0 /\ Expects(n) /\ HomeOf(expire[n], time) = s

Coming == \A n \in adding : left[n] >= 0 => Expects(n)

TimerInv == TypeOK /\ Control /\ NowIsTime /\ Once /\ Homes /\ Coming /\ FiresOnTime

LEMMA TypesOfWheel == TypeOK => WheelTypes /\ time \in Time /\ \A n \in Node : expire[n] \in Time
BY DEF TypeOK, WheelTypes, Time

\* The ticks a node has left are fewer than half of all times.
LEMMA LeftIsShort ==
  ASSUME TypeOK, NEW n \in Node, left[n] >= 0
  PROVE  left[n] \in 0 .. Half - 1
<1>1. left[n] \in -MaxLag .. MaxDelay /\ MaxLag \in Nat /\ MaxDelay \in Nat /\ MaxDelay < Half
  BY TimerAssumption DEF TypeOK, Half
<1>2. Half \in Nat
  BY Halves
<1> QED BY <1>1, <1>2

(***************************************************************************)
(* What the operations do to the lists.                                    *)
(***************************************************************************)
LEMMA UpdateOfTable ==
  ASSUME NEW S, NEW T, NEW V, NEW f \in [S -> [T -> V]], NEW i \in S, NEW k \in T, NEW v \in V,
         NEW g, g = [f EXCEPT ![i][k] = v]
  PROVE  /\ g \in [S -> [T -> V]]
         /\ \A j \in S, l \in T : g[j][l] = IF j = i /\ l = k THEN v ELSE f[j][l]
<1> DEFINE u == [f[i] EXCEPT ![k] = v]
<1>1. u \in [T -> V] /\ \A l \in T : u[l] = IF l = k THEN v ELSE f[i][l]
  OBVIOUS
<1>2. g = [f EXCEPT ![i] = u]
  OBVIOUS
<1> HIDE DEF u
<1>3. g \in [S -> [T -> V]] /\ \A j \in S : g[j] = IF j = i THEN u ELSE f[j]
  BY <1>1, <1>2
<1>4. \A j \in S, l \in T : g[j][l] = IF j = i /\ l = k THEN v ELSE f[j][l]
  BY <1>1, <1>3
<1> QED BY <1>2, <1>3, <1>4

LEMMA LinkAppends ==
  ASSUME TypeOK, NEW n \in Node, Link(n)
  PROVE  /\ WheelTypes'
         /\ HomeOf(expire[n], time) \in Slots
         /\ \A s \in Slots : At(s)' = IF s = HomeOf(expire[n], time) THEN Append(At(s), n) ELSE At(s)
<1> DEFINE e == expire[n]
           i == LevelOf(e, time)
<1>0. WheelTypes /\ e \in Time /\ time \in Time
  BY TypesOfWheel
<1>1. CASE SameBlock(e, time, NearShift)
  <2> DEFINE k == e % Near
  <2>1. k \in 0 .. Near - 1 /\ HomeOf(e, time) = <<4, k>> /\ HomeOf(e, time) \in Slots
    BY <1>0, <1>1, HomeIsSlot DEF HomeOf
  <2>2. near' = [near EXCEPT ![k] = Append(@, n)] /\ t' = t
    BY <1>1 DEF Link
  <2> HIDE DEF k
  <2>3. WheelTypes'
    BY <1>0, <2>1, <2>2, AppendProperties DEF WheelTypes
  <2>4. ASSUME NEW s \in Slots
        PROVE  At(s)' = IF s = <<4, k>> THEN Append(At(s), n) ELSE At(s)
    <3>1. CASE s[1] = 4 /\ s[2] \in 0 .. Near - 1 /\ s = <<4, s[2]>>
      BY <1>0, <2>1, <2>2, <3>1 DEF At, WheelTypes
    <3>2. CASE s[1] \in 0 .. 3 /\ s[2] \in 0 .. Level - 1 /\ s = <<s[1], s[2]>>
      <4>1. s[1] # 4 /\ s # <<4, k>>
        BY <3>2
      <4> QED BY <2>2, <4>1 DEF At
    <3> QED BY <3>1, <3>2, SlotCases
  <2> QED BY <2>1, <2>3, <2>4
<1>2. CASE ~SameBlock(e, time, NearShift)
  <2> DEFINE k == Digit(e, i)
  <2>1. /\ i \in 0 .. 3 /\ k \in 0 .. Level - 1 /\ HomeOf(e, time) = <<i, k>>
        /\ HomeOf(e, time) \in Slots
    BY <1>0, <1>2, HomeIsSlot DEF HomeOf
  <2>2. t' = [t EXCEPT ![i][k] = Append(@, n)] /\ near' = near
    BY <1>2 DEF Link
  <2> HIDE DEF k, i
  <2>3. /\ WheelTypes'
        /\ \A j \in 0 .. 3, l \in 0 .. Level - 1 :
              t'[j][l] = IF j = i /\ l = k THEN Append(t[j][l], n) ELSE t[j][l]
    <3> DEFINE v == Append(t[i][k], n)
    <3>1. t \in [0 .. 3 -> [0 .. Level - 1 -> Seq(Node)]]
      BY <1>0 DEF WheelTypes
    <3>2. t[i][k] \in Seq(Node)
      BY <2>1, <3>1
    <3>3. v \in Seq(Node)
      BY <3>2, AppendProperties
    <3>4. t' = [t EXCEPT ![i][k] = v]
      BY <2>2
    <3> HIDE DEF v
    <3>5. /\ t' \in [0 .. 3 -> [0 .. Level - 1 -> Seq(Node)]]
          /\ \A j \in 0 .. 3, l \in 0 .. Level - 1 : t'[j][l] = IF j = i /\ l = k THEN v ELSE t[j][l]
      BY <2>1, <3>1, <3>3, <3>4, UpdateOfTable, Zenon
    <3> QED BY <1>0, <2>2, <3>5 DEF WheelTypes, v
  <2>4. ASSUME NEW s \in Slots
        PROVE  At(s)' = IF s = <<i, k>> THEN Append(At(s), n) ELSE At(s)
    <3>1. CASE s[1] = 4 /\ s[2] \in 0 .. Near - 1 /\ s = <<4, s[2]>>
      <4>1. s # <<i, k>>
        BY <2>1, <3>1
      <4> QED BY <2>2, <3>1, <4>1 DEF At
    <3>2. CASE s[1] \in 0 .. 3 /\ s[2] \in 0 .. Level - 1 /\ s = <<s[1], s[2]>>
      <4>1. s[1] # 4 /\ (s = <<i, k>> <=> s[1] = i /\ s[2] = k)
        BY <3>2
      <4> QED BY <2>3, <3>2, <4>1 DEF At
    <3> QED BY <3>1, <3>2, SlotCases
  <2> QED BY <2>1, <2>3, <2>4
<1> QED BY <1>1, <1>2

LEMMA ClearNear ==
  ASSUME TypeOK, NEW k \in 0 .. Near - 1, near' = [near EXCEPT ![k] = <<>>], t' = t
  PROVE  /\ WheelTypes'
         /\ \A s \in Slots : At(s)' = IF s = <<4, k>> THEN <<>> ELSE At(s)
<1>0. WheelTypes
  BY TypesOfWheel
<1>1. WheelTypes'
  BY <1>0 DEF WheelTypes
<1>2. ASSUME NEW s \in Slots PROVE At(s)' = IF s = <<4, k>> THEN <<>> ELSE At(s)
  <2>1. CASE s[1] = 4 /\ s[2] \in 0 .. Near - 1 /\ s = <<4, s[2]>>
    BY <1>0, <2>1 DEF At, WheelTypes
  <2>2. CASE s[1] \in 0 .. 3 /\ s[2] \in 0 .. Level - 1 /\ s = <<s[1], s[2]>>
    <3>1. s[1] # 4 /\ s # <<4, k>>
      BY <2>2
    <3> QED BY <3>1 DEF At
  <2> QED BY <2>1, <2>2, SlotCases
<1> QED BY <1>1, <1>2

LEMMA ClearLevel ==
  ASSUME TypeOK, NEW i \in 0 .. 3, NEW k \in 0 .. Level - 1, t' = [t EXCEPT ![i][k] = <<>>],
         near' = near
  PROVE  /\ WheelTypes'
         /\ \A s \in Slots : At(s)' = IF s = <<i, k>> THEN <<>> ELSE At(s)
<1>0. WheelTypes
  BY TypesOfWheel
<1>1. /\ WheelTypes'
      /\ \A j \in 0 .. 3, l \in 0 .. Level - 1 : t'[j][l] = IF j = i /\ l = k THEN <<>> ELSE t[j][l]
  <2>1. t \in [0 .. 3 -> [0 .. Level - 1 -> Seq(Node)]] /\ <<>> \in Seq(Node)
    BY <1>0 DEF WheelTypes
  <2>2. /\ t' \in [0 .. 3 -> [0 .. Level - 1 -> Seq(Node)]]
        /\ \A j \in 0 .. 3, l \in 0 .. Level - 1 : t'[j][l] = IF j = i /\ l = k THEN <<>> ELSE t[j][l]
    BY <2>1, UpdateOfTable, Zenon
  <2> QED BY <1>0, <2>2 DEF WheelTypes
<1>2. ASSUME NEW s \in Slots PROVE At(s)' = IF s = <<i, k>> THEN <<>> ELSE At(s)
  <2>1. CASE s[1] = 4 /\ s[2] \in 0 .. Near - 1 /\ s = <<4, s[2]>>
    <3>1. s # <<i, k>>
      BY <2>1
    <3> QED BY <2>1, <3>1 DEF At
  <2>2. CASE s[1] \in 0 .. 3 /\ s[2] \in 0 .. Level - 1 /\ s = <<s[1], s[2]>>
    <3>1. s[1] # 4 /\ (s = <<i, k>> <=> s[1] = i /\ s[2] = k)
      BY <2>2
    <3> QED BY <1>1, <2>2, <3>1 DEF At
  <2> QED BY <2>1, <2>2, SlotCases
<1> QED BY <1>1, <1>2


\* A step that touches neither the lists nor the nodes.
LEMMA QuietStep ==
  ASSUME Once, Homes, Coming, UNCHANGED <<wheel, time, batch, adding, expire, ghosts>>
  PROVE  Once' /\ Homes' /\ Coming'
<1>1. \A s \in Slots : At(s)' = At(s)
  BY DEF At, wheel
<1>2. \A s \in Slots, n \in Node : In(n, s)' <=> In(n, s)
  BY <1>1 DEF In
<1>3. Once'
  BY <1>1, <1>2 DEF Once
<1>4. Homes'
  BY <1>2 DEF Homes, Expects, ghosts
<1>5. Coming'
  BY DEF Coming, Expects, ghosts
<1> QED BY <1>3, <1>4, <1>5

LEMMA TimeoutStep ==
  ASSUME TimerInv, NEW n \in Node, NEW d \in 1 .. MaxDelay, Timeout(n, d)
  PROVE  TimerInv'
<1> USE DEF TimerInv
<1>0. /\ WheelTypes /\ time \in Time /\ 2^Width \in Nat \ {0} /\ MaxLag \in Nat /\ MaxDelay \in Nat
      /\ UNCHANGED <<near, t, time, lock, current, todo, pc, pass, batch, late, aborted>>
  BY TypesOfWheel, Bases, TimerAssumption DEF Timeout, wheel, updating
<1>1. /\ n \notin adding /\ n \notin NodesOf(batch)
      /\ \A s \in Slots : ~In(n, s)
  BY <1>0, FiledIs DEF Timeout, Pending
<1> DEFINE x == (time + d) % 2^Width
<1>2. x \in 0 .. 2^Width - 1
  <2>1. time + d \in Nat
    BY <1>0 DEF Time
  <2> QED BY <1>0, <2>1, DivMod
<1>3. adding' = adding \union {n} /\ expire' = [expire EXCEPT ![n] = x] /\ left' = [left EXCEPT ![n] = d]
  BY DEF Timeout
<1>4. /\ expire'[n] = x /\ left'[n] = d
      /\ \A m \in Node \ {n} : expire'[m] = expire[m] /\ left'[m] = left[m]
  BY <1>3 DEF TypeOK
<1>5. TypeOK'
  <2>1. d \in -MaxLag .. MaxDelay
    BY <1>0
  <2> HIDE DEF x
  <2> QED BY <1>0, <1>2, <1>3, <2>1 DEF TypeOK
<1>6. Expects(n)'
  BY <1>0, <1>4 DEF Expects
<1> HIDE DEF x
<1>7. \A s \in Slots : At(s)' = At(s)
  BY <1>0 DEF At
<1>8. \A s \in Slots, m \in Node : In(m, s)' <=> In(m, s)
  BY <1>7 DEF In
<1>9. \A m \in Node \ {n} : Expects(m)' <=> Expects(m)
  BY <1>0, <1>4 DEF Expects
<1>10. Control' /\ NowIsTime'
  BY <1>0 DEF Control, NowIsTime
<1>11. Once'
  BY <1>0, <1>1, <1>3, <1>7, <1>8 DEF Once, TypeOK
<1>12. Homes'
  BY <1>0, <1>1, <1>4, <1>8, <1>9 DEF Homes
<1>13. Coming'
  BY <1>3, <1>4, <1>6, <1>9 DEF Coming, TypeOK
<1>14. FiresOnTime'
  <2>1. \A k \in DOMAIN batch : batch[k] \in Node \ {n}
    BY <1>1 DEF NodesOf, TypeOK
  <2> QED BY <1>0, <1>4, <2>1 DEF FiresOnTime
<1> QED BY <1>5, <1>10, <1>11, <1>12, <1>13, <1>14

LEMMA AddNodeStep ==
  ASSUME TimerInv, NEW n \in Node, AddNode(n)
  PROVE  TimerInv'
<1> USE DEF TimerInv
<1> DEFINE h == HomeOf(expire[n], time)
<1>0. /\ WheelTypes /\ UNCHANGED <<time, lock, current, todo, pc, pass, batch, expire, left, aborted>>
      /\ n \in adding /\ adding' = adding \ {n} /\ ~lock
      /\ late' = IF left[n] < 0 THEN late \union {n} ELSE late
  BY TypesOfWheel DEF AddNode, updating
<1>1. /\ WheelTypes' /\ h \in Slots
      /\ \A s \in Slots : At(s)' = IF s = h THEN Append(At(s), n) ELSE At(s)
  BY LinkAppends DEF AddNode
<1>2. \A s \in Slots : At(s) \in Seq(Node)
  BY <1>0, SlotIsList
<1>3. TypeOK'
  BY <1>0, <1>1 DEF TypeOK, WheelTypes
<1>4. \A s \in Slots : ~In(n, s)
  BY <1>0 DEF Once
<1>5. n \notin NodesOf(batch)
  BY <1>0 DEF Once
<1>6. left[n] >= 0 => Expects(n)
  BY <1>0 DEF Coming
<1>h. PICK g \in Slots : g = h
  BY <1>1
<1> HIDE DEF h
<1>7. \A s \in Slots : /\ s = g => /\ NodesOf(At(s))' = NodesOf(At(s)) \union {n}
                                   /\ Distinct(At(s)) => Distinct(At(s))'
                       /\ s # g => At(s)' = At(s)
  <2> SUFFICES ASSUME NEW s \in Slots
               PROVE  /\ s = g => /\ NodesOf(At(s))' = NodesOf(At(s)) \union {n}
                                  /\ Distinct(At(s)) => Distinct(At(s))'
                      /\ s # g => At(s)' = At(s)
    OBVIOUS
  <2>1. CASE s # g
    BY <1>1, <1>h, <2>1
  <2>2. CASE s = g
    <3> DEFINE l == At(s)
    <3>1. At(s)' = Append(l, n)
      BY <1>1, <1>h, <2>2
    <3>2. l \in Seq(Node) /\ n \notin NodesOf(l)
      BY <1>2, <1>4 DEF In
    <3>3. NodesOf(Append(l, n)) = NodesOf(l) \union {n} /\ (Distinct(l) => Distinct(Append(l, n)))
      <4> HIDE DEF l
      <4> QED BY <3>2, NodesOfAppend
    <3>4. NodesOf(At(s))' = NodesOf(l) \union {n}
      BY <3>1, <3>3 DEF NodesOf
    <3>5. Distinct(l) => Distinct(At(s))'
      BY <3>1, <3>3 DEF Distinct
    <3> QED BY <2>2, <3>4, <3>5
  <2> QED BY <2>1, <2>2
<1>8. \A s \in Slots, m \in Node : In(m, s)' <=> In(m, s) \/ (m = n /\ s = g)
  BY <1>7 DEF In
<1>9. Control' /\ NowIsTime'
  BY <1>0 DEF Control, NowIsTime
<1>10. Once'
  <2>1. \A s \in Slots : Distinct(At(s))'
    BY <1>7 DEF Once
  <2>2. Distinct(batch)' /\ \A m \in adding' : m \notin NodesOf(batch)'
    BY <1>0 DEF Once
  <2>3. \A s, r \in Slots, m \in Node : In(m, s)' /\ In(m, r)' => s = r
    BY <1>4, <1>8 DEF Once
  <2>4. \A s \in Slots, m \in Node : In(m, s)' => m \notin NodesOf(batch)' /\ m \notin adding'
    BY <1>0, <1>5, <1>8 DEF Once
  <2> QED BY <2>1, <2>2, <2>3, <2>4 DEF Once
<1>11. \A m \in Node : Expects(m)' <=> Expects(m)
  BY <1>0 DEF Expects
<1>12. Homes'
  <2> SUFFICES ASSUME NEW s \in Slots, NEW m \in Node, In(m, s)', m \notin late'
               PROVE  left'[m] >= 0 /\ Expects(m)' /\ HomeOf(expire'[m], time') = s
    BY DEF Homes
  <2>1. CASE m = n
    <3>1. s = g
      BY <1>4, <1>8, <2>1
    <3>2. left[n] >= 0
      BY <1>0, <2>1 DEF TypeOK
    <3> QED BY <1>0, <1>6, <1>11, <1>h, <2>1, <3>1, <3>2 DEF h
  <2>2. CASE m # n
    BY <1>0, <1>8, <1>11, <2>2 DEF Homes
  <2> QED BY <2>1, <2>2
<1>13. Coming'
  BY <1>0, <1>11 DEF Coming, TypeOK
<1>14. FiresOnTime'
  BY <1>0 DEF FiresOnTime
<1> QED BY <1>3, <1>9, <1>10, <1>12, <1>13, <1>14


\* The steps of the timer thread that only change where it is.
LEMMA ThreadStep ==
  ASSUME TimerInv, Update \/ Relock \/ UpdateReturns \/ \E d \in 1 .. MaxDiff : Updatetime(d)
  PROVE  TimerInv'
<1> USE DEF TimerInv
<1> DEFINE m == 2^Width
<1>0. /\ m \in Nat \ {0} /\ MaxDiff \in Nat /\ time \in Nat /\ current \in Nat /\ todo \in Nat
      /\ pass \in {1, 2}
  BY Bases, TimerAssumption DEF TypeOK
<1>1. UNCHANGED <<wheel, time, batch, adding, expire, ghosts, aborted>>
  BY DEF Update, Relock, UpdateReturns, Updatetime
<1>2. Once' /\ Homes' /\ Coming'
  BY <1>1, QuietStep
<1>3. CASE Update
  <2>1. TypeOK' /\ Control'
    BY <1>1, <1>3 DEF Update, TypeOK, Control, wheel, ghosts
  <2>2. NowIsTime' /\ FiresOnTime'
    BY <1>1, <1>3 DEF Update, NowIsTime, FiresOnTime
  <2> QED BY <1>2, <2>1, <2>2
<1>4. CASE Relock
  <2>1. TypeOK' /\ Control'
    BY <1>1, <1>4 DEF Relock, TypeOK, Control, wheel, ghosts
  <2>2. NowIsTime' /\ FiresOnTime'
    BY <1>1, <1>4 DEF Relock, NowIsTime, FiresOnTime
  <2> QED BY <1>2, <2>1, <2>2
<1>5. CASE UpdateReturns
  <2>1. todo > 0 /\ todo' = todo - 1 /\ pass = 2 /\ pc = "execute" /\ pc' = "idle" /\ current' = current
        /\ time' = time
    BY <1>5 DEF UpdateReturns, Control
  <2>2. TypeOK'
    <3>1. todo' \in 0 .. MaxDiff
      BY <1>0, <2>1 DEF TypeOK
    <3> QED BY <1>1, <1>5, <3>1 DEF UpdateReturns, TypeOK, wheel, ghosts
  <2>3. Control' /\ FiresOnTime'
    BY <1>1, <1>5 DEF UpdateReturns, Control, FiresOnTime
  <2>4. NowIsTime'
    <3>1. current = (time + todo - 1) % 2^Width
      BY <2>1 DEF NowIsTime
    <3>2. time' + todo' - 0 = time + todo - 1
      BY <1>0, <2>1
    <3> QED BY <2>1, <3>1, <3>2 DEF NowIsTime
  <2> QED BY <1>2, <2>2, <2>3, <2>4
<1>6. CASE \E d \in 1 .. MaxDiff : Updatetime(d)
  <2>0. PICK d \in 1 .. MaxDiff : Updatetime(d)
    BY <1>6
  <2>1. pc = "idle" /\ pc' = "idle" /\ todo = 0 /\ todo' = d /\ time' = time /\ pass' = pass /\ lock' = lock
        /\ current' = (current + d) % m
    BY <2>0 DEF Updatetime
  <2>2. current' \in 0 .. m - 1
    <3>1. current + d \in Nat
      BY <1>0
    <3> HIDE DEF m
    <3> QED BY <1>0, <2>1, <3>1, DivMod
  <2>3. TypeOK'
    BY <1>1, <2>1, <2>2 DEF TypeOK, wheel, ghosts
  <2>4. Control' /\ FiresOnTime'
    BY <1>1, <2>1 DEF Control, FiresOnTime
  <2>5. NowIsTime'
    <3>1. current = (time + todo - 0) % m /\ time + todo - 0 = time
      BY <1>0, <2>1 DEF NowIsTime
    <3>2. time % m = time
      <4>1. time \in 0 .. m - 1
        BY DEF TypeOK
      <4> HIDE DEF m
      <4> QED BY <1>0, <4>1, ModSmall
    <3>3. current' = (time + d) % m /\ time' + todo' - 0 = time + d
      BY <1>0, <2>1, <3>1, <3>2
    <3> QED BY <2>1, <3>3 DEF NowIsTime
  <2> QED BY <1>2, <2>3, <2>4, <2>5
<1> QED BY <1>3, <1>4, <1>5, <1>6

\* Execute takes the list of the current tick: every node in it is due, or was late.
LEMMA ExecuteStep ==
  ASSUME TimerInv, Execute
  PROVE  TimerInv'
<1> USE DEF TimerInv
<1>0. /\ WheelTypes /\ time \in Time /\ (\A n \in Node : expire[n] \in Time)
      /\ pc = "execute" /\ pc' = "dispatch" /\ lock' = FALSE
      /\ UNCHANGED <<t, time, current, todo, pass, adding, expire, left, late, aborted>>
  BY TypesOfWheel DEF Execute, ghosts
<1>1. PICK k \in 0 .. Near - 1 : k = time % Near
  <2>1. time \in Nat /\ Near \in Nat \ {0}
    BY <1>0, Bases DEF Time
  <2> QED BY <2>1, DivMod
<1>2. batch' = near[k] /\ near' = [near EXCEPT ![k] = <<>>]
  BY <1>1 DEF Execute
<1>3. /\ WheelTypes'
      /\ \A s \in Slots : At(s)' = IF s = <<4, k>> THEN <<>> ELSE At(s)
  BY <1>0, <1>2, ClearNear
<1> DEFINE g == <<4, k>>
<1>4. g \in Slots /\ At(g) = near[k]
  BY SlotIs
<1>5. TypeOK'
  BY <1>0, <1>2, <1>3 DEF TypeOK, WheelTypes
<1>6. Control' /\ NowIsTime'
  BY <1>0 DEF Control, NowIsTime
<1> HIDE DEF g
<1>7. \A s \in Slots : At(s)' = IF s = g THEN <<>> ELSE At(s)
  BY <1>3 DEF g
<1>8. \A s \in Slots, n \in Node : In(n, s)' <=> In(n, s) /\ s # g
  BY <1>7, NodesOfEmpty DEF In
<1>9. \A n \in Node : n \in NodesOf(batch)' <=> In(n, g)
  BY <1>2, <1>4 DEF In
<1>10. Once'
  <2>1. \A s \in Slots : Distinct(At(s))'
    BY <1>7, NodesOfEmpty DEF Once
  <2>2. Distinct(batch)'
    BY <1>2, <1>4 DEF Once
  <2>3. \A n \in adding' : n \notin NodesOf(batch)'
    BY <1>0, <1>4, <1>9 DEF Once, TypeOK
  <2>4. \A s, r \in Slots, n \in Node : In(n, s)' /\ In(n, r)' => s = r
    BY <1>8 DEF Once
  <2>5. \A s \in Slots, n \in Node : In(n, s)' => n \notin NodesOf(batch)' /\ n \notin adding'
    BY <1>0, <1>4, <1>8, <1>9 DEF Once
  <2> QED BY <2>1, <2>2, <2>3, <2>4, <2>5 DEF Once
<1>11. \A n \in Node : Expects(n)' <=> Expects(n)
  BY <1>0 DEF Expects
<1>12. Homes'
  BY <1>0, <1>8, <1>11 DEF Homes
<1>13. Coming'
  BY <1>0, <1>11 DEF Coming, TypeOK
<1>14. ASSUME NEW n \in Node, In(n, g), n \notin late PROVE left[n] = 0
  <2>1. left[n] >= 0 /\ expire[n] = (time + left[n]) % 2^Width /\ HomeOf(expire[n], time) = g
    BY <1>4, <1>14 DEF Homes, Expects
  <2>2. HomeOf(expire[n], time) = <<4, time % Near>>
    BY <1>1, <2>1 DEF g
  <2>3. expire[n] = time
    BY <1>0, <2>2, HomeIsNow
  <2>4. left[n] \in 0 .. Half - 1
    BY <2>1, LeftIsShort
  <2> QED BY <1>0, <2>1, <2>3, <2>4, AheadOfNow
<1>15. FiresOnTime'
  <2> SUFFICES ASSUME NEW j \in DOMAIN batch' PROVE batch'[j] \in late' \/ left'[batch'[j]] = 0
    BY DEF FiresOnTime
  <2>1. batch'[j] \in Node
    BY <1>5 DEF TypeOK
  <2>2. batch'[j] \in NodesOf(batch)'
    BY DEF NodesOf
  <2> QED BY <1>0, <1>9, <1>14, <2>1, <2>2
<1> QED BY <1>5, <1>6, <1>10, <1>12, <1>13, <1>15

LEMMA DispatchListStep ==
  ASSUME TimerInv, DispatchList
  PROVE  TimerInv'
<1> USE DEF TimerInv
<1> DEFINE h == Head(batch)
<1>0. /\ pc = "dispatch" /\ batch # <<>> /\ batch' = Tail(batch) /\ batch \in Seq(Node)
      /\ expire' = [expire EXCEPT ![h] = 0] /\ left' = [left EXCEPT ![h] = 0] /\ late' = late \ {h}
      /\ UNCHANGED <<near, t, time, lock, current, todo, pc, pass, adding>>
      /\ MaxLag \in Nat /\ MaxDelay \in Nat /\ 2^Width \in Nat \ {0} /\ Distinct(batch)
      /\ aborted' \in BOOLEAN
  BY TimerAssumption, Bases DEF DispatchList, TypeOK, wheel, updating, Once
<1>1. /\ Tail(batch) \in Seq(Node) /\ h \in Node /\ h \in NodesOf(batch)
      /\ NodesOf(Tail(batch)) \subseteq NodesOf(batch) \ {h} /\ Distinct(Tail(batch))
  BY <1>0, NodesOfTail
<1> HIDE DEF h
<1>2. /\ NodesOf(batch)' \subseteq NodesOf(batch) \ {h} /\ Distinct(batch)'
  BY <1>0, <1>1
<1>3. \A n \in Node \ {h} : expire'[n] = expire[n] /\ left'[n] = left[n]
  BY <1>0 DEF TypeOK
<1>4. TypeOK'
  <2>1. 0 \in -MaxLag .. MaxDelay /\ 0 \in 0 .. 2^Width - 1
    BY <1>0
  <2> QED BY <1>0, <1>1, <2>1 DEF TypeOK
<1>5. Control' /\ NowIsTime'
  BY <1>0 DEF Control, NowIsTime
<1>6. \A s \in Slots : At(s)' = At(s)
  BY <1>0 DEF At
<1>7. \A s \in Slots, n \in Node : In(n, s)' <=> In(n, s)
  BY <1>6 DEF In
<1>8. (\A s \in Slots : ~In(h, s)) /\ h \notin adding
  BY <1>1 DEF Once
<1>9. Once'
  <2>1. \A s \in Slots : Distinct(At(s))'
    BY <1>6 DEF Once
  <2>2. \A n \in adding' : n \notin NodesOf(batch)'
    BY <1>0, <1>2 DEF Once
  <2>3. \A s, r \in Slots, n \in Node : In(n, s)' /\ In(n, r)' => s = r
    BY <1>7 DEF Once
  <2>4. \A s \in Slots, n \in Node : In(n, s)' => n \notin NodesOf(batch)' /\ n \notin adding'
    BY <1>0, <1>2, <1>7 DEF Once
  <2> QED BY <1>2, <2>1, <2>2, <2>3, <2>4 DEF Once
<1>10. \A n \in Node \ {h} : Expects(n)' <=> Expects(n)
  BY <1>0, <1>3 DEF Expects
<1>11. Homes'
  BY <1>0, <1>3, <1>7, <1>8, <1>10 DEF Homes
<1>12. Coming'
  BY <1>0, <1>3, <1>8, <1>10 DEF Coming, TypeOK
<1>13. FiresOnTime'
  <2> SUFFICES ASSUME NEW j \in DOMAIN batch' PROVE batch'[j] \in late' \/ left'[batch'[j]] = 0
    BY DEF FiresOnTime
  <2>1. batch'[j] \in Node
    BY <1>4 DEF TypeOK
  <2>2. batch'[j] \in NodesOf(batch) /\ batch'[j] # h
    BY <1>2 DEF NodesOf
  <2>3. batch'[j] \in late \/ left[batch'[j]] = 0
    BY <1>0, <2>2 DEF NodesOf, FiresOnTime
  <2> QED BY <1>0, <1>3, <2>1, <2>2, <2>3
<1> QED BY <1>4, <1>5, <1>9, <1>11, <1>12, <1>13


(***************************************************************************)
(* TimerShift: the homes of the nodes stay where they are, by              *)
(* ShiftKeepsHome; the one list whose nodes would move is taken out.       *)
(***************************************************************************)
LEMMA TimerShiftStep ==
  ASSUME TimerInv, TimerShift
  PROVE  TimerInv'
<1> USE DEF TimerInv
<1> DEFINE m == 2^Width
           ct == (time + 1) % m
           full == {s \in Moved(ct) : t[s[1]][s[2]] # <<>>}
<1>0. /\ WheelTypes /\ time \in Time /\ (\A n \in Node : expire[n] \in Time /\ left[n] \in -MaxLag .. MaxDelay)
      /\ m \in Nat \ {0} /\ time \in 0 .. m - 1 /\ MaxLag \in Nat \ {0} /\ MaxDelay \in Nat
      /\ pc = "execute" /\ pass = 1 /\ pass' = 2 /\ near[time % Near] = <<>> /\ time' = ct
      /\ UNCHANGED <<near, lock, current, todo, adding, expire, late, aborted>>
      /\ batch = <<>> /\ todo \in Nat \ {0} /\ adding \subseteq Node
  <2>1. WheelTypes /\ time \in Time /\ (\A n \in Node : expire[n] \in Time /\ left[n] \in -MaxLag .. MaxDelay)
    BY TypesOfWheel DEF TypeOK
  <2>2. m \in Nat \ {0} /\ time \in 0 .. m - 1 /\ MaxLag \in Nat \ {0} /\ MaxDelay \in Nat
    BY Bases, TimerAssumption DEF TypeOK
  <2>3. /\ pc = "execute" /\ pass = 1 /\ pass' = 2 /\ near[time % Near] = <<>> /\ time' = ct
        /\ UNCHANGED <<near, lock, current, todo, adding, expire, late, aborted>>
    BY DEF TimerShift
  <2>4. batch = <<>> /\ todo \in Nat \ {0} /\ adding \subseteq Node
    <3>1. todo \in Nat /\ adding \subseteq Node
      BY TimerAssumption DEF TypeOK
    <3> QED BY <2>3, <3>1 DEF Control
  <2> QED BY <2>1, <2>2, <2>3, <2>4
<1>1. ct \in Time /\ ct \in 0 .. m - 1
  <2>1. time + 1 \in Nat
    BY <1>0
  <2>2. (time + 1) % m \in 0 .. m - 1
    <3> HIDE DEF m
    <3> QED BY <1>0, <2>1, DivMod
  <2> QED BY <2>2 DEF Time
<1>2. /\ \A s \in Moved(ct) : /\ s \in Slots /\ s[1] \in 0 .. 3 /\ s[2] \in 0 .. Level - 1
                              /\ s = <<s[1], s[2]>>
      /\ \A s, r \in Moved(ct) : s = r
  BY <1>1, MovedIsOne
<1>3. \A n \in Node : left'[n] = IF n \in Pending /\ left[n] > -MaxLag THEN left[n] - 1 ELSE left[n]
  BY DEF TimerShift
<1>4. \/ full = {} /\ UNCHANGED <<t, batch, pc>>
      \/ \E s \in full : /\ batch' = t[s[1]][s[2]] /\ t' = [t EXCEPT ![s[1]][s[2]] = <<>>]
                         /\ pc' = "spin"
  BY DEF TimerShift
<1>5. PICK k \in 0 .. Near - 1 : k = time % Near
  <2>1. time \in Nat /\ Near \in Nat \ {0}
    BY <1>0, Bases DEF Time
  <2> QED BY <2>1, DivMod
<1>6. <<4, k>> \in Slots /\ At(<<4, k>>) = <<>>
  BY <1>0, <1>5, SlotIs
<1>7. left' \in [Node -> -MaxLag .. MaxDelay]
  <2>1. left' = [n \in Node |-> IF n \in Pending /\ left[n] > -MaxLag THEN left[n] - 1 ELSE left[n]]
    BY DEF TimerShift
  <2>2. ASSUME NEW n \in Node
        PROVE  (IF n \in Pending /\ left[n] > -MaxLag THEN left[n] - 1 ELSE left[n]) \in -MaxLag .. MaxDelay
    BY <1>0
  <2> QED BY <2>1, <2>2
<1>8. NowIsTime' /\ (pc' = "execute" \/ pc' = "spin")
  <2>1. pc' = "execute" \/ pc' = "spin"
    BY <1>0, <1>4
  <2>2. current = (time + todo - 0) % m
    BY <1>0 DEF NowIsTime
  <2>3. (((time + 1) % m) + (todo - 1)) % m = (time + todo) % m
    <3> HIDE DEF m
    <3> QED BY <1>0, NextTick
  <2>4. ct + todo - 1 = ct + (todo - 1) /\ time + todo - 0 = time + todo
    <3>1. ct \in Nat /\ time \in Nat /\ todo \in Nat
      BY <1>0, <1>1
    <3> HIDE DEF ct
    <3> QED BY <3>1
  <2>5. current' = (time' + todo' - 1) % m
    BY <1>0, <2>2, <2>3, <2>4
  <2> QED BY <1>0, <2>1, <2>5 DEF NowIsTime
\* What the step does to the lists, in both cases.
<1>9. /\ WheelTypes' /\ batch' \in Seq(Node) /\ Distinct(batch)' /\ Control'
      /\ \A s \in Slots : At(s)' = At(s) \/ At(s)' = <<>>
      /\ \A s \in Moved(ct) : At(s)' = <<>>
      /\ \A n \in NodesOf(batch)' : \E r \in Slots : In(n, r) /\ At(r)' = <<>>
  <2>1. CASE full = {} /\ UNCHANGED <<t, batch, pc>>
    <3>1. \A s \in Slots : At(s)' = At(s)
      BY <1>0, <2>1 DEF At
    <3>2. \A s \in Moved(ct) : At(s) = <<>>
      <4> SUFFICES ASSUME NEW s \in Moved(ct) PROVE At(s) = <<>>
        OBVIOUS
      <4>1. t[s[1]][s[2]] = <<>>
        BY <2>1
      <4>2. s[1] # 4
        BY <1>2
      <4> QED BY <4>1, <4>2 DEF At
    <3>3. NodesOf(batch)' = {} /\ Distinct(batch)' /\ batch' \in Seq(Node)
      BY <1>0, <2>1, NodesOfEmpty
    <3>4. WheelTypes' /\ Control'
      BY <1>0, <2>1 DEF WheelTypes, Control
    <3> QED BY <1>2, <3>1, <3>2, <3>3, <3>4
  <2>2. CASE ~(full = {} /\ UNCHANGED <<t, batch, pc>>)
    <3>0. PICK g \in full : /\ batch' = t[g[1]][g[2]] /\ t' = [t EXCEPT ![g[1]][g[2]] = <<>>]
                            /\ pc' = "spin"
      BY <1>4, <2>2
    <3> DEFINE i == g[1]
               j == g[2]
    <3>1. g \in Moved(ct) /\ g \in Slots /\ i \in 0 .. 3 /\ j \in 0 .. Level - 1 /\ g = <<i, j>>
      BY <1>2, <3>0
    <3>2. t' = [t EXCEPT ![i][j] = <<>>] /\ near' = near /\ At(g) = t[i][j]
      BY <1>0, <3>0, <3>1, SlotIs
    <3> HIDE DEF i, j, full
    <3>3. WheelTypes' /\ \A s \in Slots : At(s)' = IF s = <<i, j>> THEN <<>> ELSE At(s)
      BY <3>1, <3>2, ClearLevel
    <3>4. At(g)' = <<>> /\ \A s \in Moved(ct) : s = g
      BY <1>2, <3>1, <3>3
    <3>5. batch' = At(g) /\ batch' \in Seq(Node) /\ Distinct(batch)'
      BY <1>0, <3>0, <3>1, <3>2, SlotIsList DEF Once, i, j
    <3>6. \A n \in NodesOf(batch)' : In(n, g)
      BY <3>5 DEF In
    <3>7. Control'
      BY <1>0, <3>0 DEF Control
    <3>8. \A s \in Slots : At(s)' = At(s) \/ At(s)' = <<>>
      BY <3>3
    <3>9. \A n \in NodesOf(batch)' : \E r \in Slots : In(n, r) /\ At(r)' = <<>>
      BY <3>1, <3>4, <3>6
    <3> QED BY <3>3, <3>4, <3>5, <3>7, <3>8, <3>9
  <2> QED BY <2>1, <2>2
<1> HIDE DEF full
<1>10. TypeOK'
  <2>1. time' \in 0 .. m - 1
    BY <1>0, <1>1
  <2> QED BY <1>0, <1>7, <1>8, <1>9, <2>1 DEF TypeOK, WheelTypes
<1>11. \A s \in Slots, n \in Node : In(n, s)' => In(n, s) /\ At(s)' = At(s) /\ s \notin Moved(ct)
  BY <1>9, NodesOfEmpty DEF In
<1>12. \A n \in NodesOf(batch)' : n \in Node /\ n \notin adding /\ \A s \in Slots : ~In(n, s)'
  <2> SUFFICES ASSUME NEW n \in NodesOf(batch)'
               PROVE  n \in Node /\ n \notin adding /\ \A s \in Slots : ~In(n, s)'
    OBVIOUS
  <2>1. PICK r \in Slots : In(n, r) /\ At(r)' = <<>>
    BY <1>9
  <2>2. n \in Node
    BY <1>9 DEF NodesOf
  <2>3. ~In(n, r)'
    BY <2>1, NodesOfEmpty DEF In
  <2>4. \A s \in Slots : In(n, s) => s = r
    BY <2>1, <2>2 DEF Once
  <2> QED BY <1>11, <2>1, <2>2, <2>3, <2>4 DEF Once
<1>13. Once'
  <2>1. \A s \in Slots : Distinct(At(s))'
    <3> SUFFICES ASSUME NEW s \in Slots PROVE Distinct(At(s))'
      OBVIOUS
    <3>1. Distinct(At(s)) /\ Distinct(<<>>)
      BY NodesOfEmpty DEF Once
    <3> QED BY <1>9, <3>1
  <2>2. \A s, r \in Slots, n \in Node : In(n, s)' /\ In(n, r)' => s = r
    BY <1>11 DEF Once
  <2>3. \A s \in Slots, n \in Node : In(n, s)' => n \notin NodesOf(batch)' /\ n \notin adding'
    BY <1>0, <1>11, <1>12 DEF Once
  <2>4. \A n \in adding' : n \notin NodesOf(batch)'
    BY <1>0, <1>12
  <2> QED BY <1>9, <2>1, <2>2, <2>3, <2>4 DEF Once
<1>14. ASSUME NEW n \in Node, n \in Pending, left[n] > 0, Expects(n)
       PROVE  left'[n] = left[n] - 1 /\ Expects(n)'
  <2> DEFINE d == left[n]
  <2>1. d \in Nat \ {0} /\ left'[n] = d - 1
    BY <1>0, <1>3, <1>14
  <2> HIDE DEF d
  <2>2. (((time + 1) % m) + (d - 1)) % m = (time + d) % m
    <3> HIDE DEF m
    <3> QED BY <1>0, <2>1, NextTick
  <2>3. (time' + left'[n]) % m = (time + left[n]) % m
    BY <1>0, <2>1, <2>2 DEF d
  <2> QED BY <1>0, <1>14, <2>1, <2>3 DEF Expects, d
<1>15. Homes'
  <2> SUFFICES ASSUME NEW s \in Slots, NEW n \in Node, In(n, s)', n \notin late'
               PROVE  left'[n] >= 0 /\ Expects(n)' /\ HomeOf(expire'[n], time') = s
    BY DEF Homes
  <2>1. In(n, s) /\ s \notin Moved(ct)
    BY <1>11
  <2>2. left[n] >= 0 /\ Expects(n) /\ HomeOf(expire[n], time) = s
    BY <1>0, <2>1 DEF Homes
  <2>3. s # <<4, time % Near>>
    BY <1>5, <1>6, <2>1, NodesOfEmpty DEF In
  <2>4. left[n] \in 0 .. Half - 1
    BY <2>2, LeftIsShort
  <2>5. HomeOf(expire[n], ct) = s /\ left[n] # 0
    <3> HIDE DEF ct
    <3>1. expire[n] = (time + left[n]) % 2^Width /\ ct = (time + 1) % 2^Width
      BY <2>2 DEF Expects, ct
    <3> QED BY <1>0, <2>1, <2>2, <2>3, <2>4, <3>1, ShiftKeepsHome
  <2>6. n \in Pending
    BY <1>0, <2>1, FiledIs DEF Pending
  <2>7. left[n] > 0
    BY <1>0, <2>4, <2>5
  <2>8. left'[n] = left[n] - 1 /\ Expects(n)'
    BY <1>14, <2>2, <2>6, <2>7
  <2>9. left'[n] >= 0
    BY <1>0, <2>7, <2>8
  <2> QED BY <1>0, <2>5, <2>8, <2>9
<1>16. Coming'
  <2> SUFFICES ASSUME NEW n \in adding, left'[n] >= 0 PROVE Expects(n)'
    BY <1>0 DEF Coming
  <2>1. n \in Node /\ n \in Pending
    BY <1>0 DEF Pending
  <2>2. left[n] > 0
    BY <1>0, <1>3, <2>1
  <2>3. Expects(n)
    BY <1>0, <2>1, <2>2 DEF Coming
  <2> QED BY <1>14, <2>1, <2>2, <2>3
<1>17. FiresOnTime'
  BY <1>8 DEF FiresOnTime
<1> QED BY <1>8, <1>9, <1>10, <1>13, <1>15, <1>16, <1>17

LEMMA StartsRight == Init => TimerInv
<1> SUFFICES ASSUME Init PROVE TimerInv
  OBVIOUS
<1>0. /\ 2^Width \in Nat \ {0} /\ MaxLag \in Nat /\ MaxDelay \in Nat /\ MaxDiff \in Nat
      /\ Near \in Nat \ {0} /\ Level \in Nat \ {0}
  BY Bases, TimerAssumption
<1>1. TypeOK
  BY <1>0 DEF Init, TypeOK
<1>2. Control /\ FiresOnTime
  BY DEF Init, Control, FiresOnTime
<1>3. NowIsTime
  <2>1. 0 % 2^Width = 0
    BY <1>0, ModSmall
  <2> QED BY <2>1 DEF Init, NowIsTime
<1>4. ASSUME NEW s \in Slots PROVE At(s) = <<>>
  <2>1. CASE s[1] = 4 /\ s[2] \in 0 .. Near - 1
    BY <2>1 DEF Init, At
  <2>2. CASE s[1] \in 0 .. 3 /\ s[2] \in 0 .. Level - 1
    <3>1. s[1] # 4 BY <2>2
    <3> QED BY <2>2, <3>1 DEF Init, At
  <2> QED BY <2>1, <2>2, SlotCases
<1>5. \A s \in Slots, n \in Node : ~In(n, s)
  BY <1>4, NodesOfEmpty DEF In
<1>6. Once
  BY <1>4, <1>5, NodesOfEmpty DEF Once, Init
<1>7. Homes /\ Coming
  BY <1>5 DEF Homes, Coming, Init
<1> QED BY <1>1, <1>2, <1>3, <1>6, <1>7 DEF TimerInv

LEMMA TimerInvHolds == Spec => []TimerInv
<1>1. TimerInv /\ [Next]_vars => TimerInv'
  <2> SUFFICES ASSUME TimerInv, [Next]_vars PROVE TimerInv'
    OBVIOUS
  <2>1. CASE TimerStep
    <3>1. \/ Update \/ Relock \/ UpdateReturns \/ \E d \in 1 .. MaxDiff : Updatetime(d)
          \/ Execute \/ DispatchList \/ TimerShift
      BY <2>1 DEF TimerStep
    <3> QED BY <3>1, ThreadStep, ExecuteStep, DispatchListStep, TimerShiftStep
  <2>2. ASSUME NEW n \in Node, CallerStep(n) PROVE TimerInv'
    BY <2>2, AddNodeStep, TimeoutStep DEF CallerStep
  <2>3. CASE UNCHANGED vars
    <3>1. Once' /\ Homes' /\ Coming'
      BY <2>3, QuietStep DEF TimerInv, vars
    <3>2. TypeOK'
      BY <2>3 DEF TimerInv, TypeOK, vars, wheel, updating, ghosts
    <3>3. Control' /\ NowIsTime' /\ FiresOnTime'
      BY <2>3 DEF TimerInv, Control, NowIsTime, FiresOnTime, vars, wheel, updating, ghosts
    <3> QED BY <3>1, <3>2, <3>3 DEF TimerInv
  <2> QED BY <2>1, <2>2, <2>3 DEF Next
<1> QED BY <1>1, StartsRight, PTL DEF Spec


-------------------------------------------------------------------------------
(***************************************************************************)
(* What the invariant gives.                                               *)
(***************************************************************************)
LEMMA OneAtMost ==
  ASSUME NEW S, \A x, y \in S : x = y
  PROVE  Cardinality(S) \in {0, 1} /\ (S = {} => Cardinality(S) = 0)
<1>1. CASE S = {}
  BY <1>1, FS_EmptySet
<1>2. CASE S # {}
  <2>1. PICK x \in S : TRUE BY <1>2
  <2>2. S = {x} BY <2>1
  <2>3. Cardinality({x}) = 1
    BY FS_Singleton
  <2> QED BY <1>2, <2>2, <2>3
<1> QED BY <1>1, <1>2

LEMMA OnceIsLinkedOnce ==
  ASSUME TimerInv
  PROVE  LinkedOnce
<1> USE DEF TimerInv
<1> SUFFICES ASSUME NEW n \in Node, NEW s \in Slots
             PROVE  /\ Copies(n, At(s)) + Copies(n, batch) + (IF n \in adding THEN 1 ELSE 0) <= 1
                    /\ \A r \in Slots : n \in NodesOf(At(s)) /\ n \in NodesOf(At(r)) => s = r
  BY DEF LinkedOnce
<1>1. ASSUME NEW l, Distinct(l)
      PROVE  Copies(n, l) \in {0, 1} /\ (n \notin NodesOf(l) => Copies(n, l) = 0)
  <2> DEFINE S == {k \in DOMAIN l : l[k] = n}
  <2>1. (\A x, y \in S : x = y) /\ (n \notin NodesOf(l) => S = {})
    BY <1>1 DEF Distinct, NodesOf
  <2>2. Copies(n, l) = Cardinality(S)
    BY DEF Copies
  <2> HIDE DEF S
  <2> QED BY <2>1, <2>2, OneAtMost
<1>2. Copies(n, At(s)) \in {0, 1} /\ (n \notin NodesOf(At(s)) => Copies(n, At(s)) = 0)
  BY <1>1 DEF Once
<1>3. Copies(n, batch) \in {0, 1} /\ (n \notin NodesOf(batch) => Copies(n, batch) = 0)
  BY <1>1 DEF Once
<1>4. /\ n \in NodesOf(At(s)) => n \notin NodesOf(batch) /\ n \notin adding
      /\ n \in adding => n \notin NodesOf(batch)
  BY DEF Once, In
<1>5. Copies(n, At(s)) + Copies(n, batch) + (IF n \in adding THEN 1 ELSE 0) <= 1
  BY <1>2, <1>3, <1>4
<1>6. \A r \in Slots : n \in NodesOf(At(s)) /\ n \in NodesOf(At(r)) => s = r
  BY DEF Once, In
<1> QED BY <1>5, <1>6

LEMMA HomesArePlaced ==
  ASSUME TimerInv
  PROVE  Placed
<1> USE DEF TimerInv
<1>0. WheelTypes /\ time \in Time /\ \A n \in Node : expire[n] \in Time
  BY TypesOfWheel
<1>1. Filed \subseteq Node
  <2> SUFFICES ASSUME NEW n \in Filed PROVE n \in Node
    OBVIOUS
  <2>1. \/ \E k \in 0 .. Near - 1 : n \in NodesOf(near[k])
        \/ \E i \in 0 .. 3, k \in 0 .. Level - 1 : n \in NodesOf(t[i][k])
    BY <1>0 DEF Filed, WheelTypes
  <2>2. \A s \in Slots : At(s) \in Seq(Node)
    BY <1>0, SlotIsList
  <2>3. \E l \in Seq(Node) : n \in NodesOf(l)
    BY <2>1, <2>2, SlotIs
  <2> QED BY <2>3 DEF NodesOf
<1> SUFFICES ASSUME NEW n \in Node, n \in Filed, n \notin late
             PROVE  InPlace(n) /\ left[n] >= 0 /\ expire[n] = (time + left[n]) % 2^Width
  BY <1>1 DEF Placed
<1> DEFINE e == expire[n]
           i == LevelOf(e, time)
<1>2. PICK s \in Slots : In(n, s)
  BY <1>0, FiledIs
<1>3. left[n] >= 0 /\ Expects(n) /\ HomeOf(e, time) = s
  BY <1>2 DEF Homes
<1>4. CASE SameBlock(e, time, NearShift)
  <2>1. e % Near \in 0 .. Near - 1 /\ s = <<4, e % Near>>
    BY <1>0, <1>3, <1>4, HomeIsSlot DEF HomeOf
  <2>2. n \in NodesOf(near[e % Near])
    BY <1>2, <2>1, SlotIs DEF In
  <2> QED BY <1>3, <1>4, <2>2 DEF InPlace, Expects
<1>5. CASE ~SameBlock(e, time, NearShift)
  <2>1. i \in 0 .. 3 /\ Digit(e, i) \in 0 .. Level - 1 /\ s = <<i, Digit(e, i)>>
    BY <1>0, <1>3, <1>5, HomeIsSlot DEF HomeOf
  <2>2. n \in NodesOf(t[i][Digit(e, i)])
    BY <1>2, <2>1, SlotIs DEF In
  <2> QED BY <1>3, <1>5, <2>2 DEF InPlace, Expects
<1> QED BY <1>4, <1>5

(***************************************************************************)
(* The theorems.                                                           *)
(***************************************************************************)
\* The variables of the timer keep their types: no expiry and no time is ever outside of the 32
\* (here Width) bits, and the thread has a call of Update left whenever it is in one.
THEOREM TimerTypeCorrect == Spec => []TypeOK
BY TimerInvHolds, PTL DEF TimerInv

\* Now() is the time of the wheel plus the calls of Update that Updatetime has yet to make, at
\* every point of Update: no tick of the clock is lost or counted twice, across every wrap.
THEOREM ClockAgrees == Spec => []NowIsTime
BY TimerInvHolds, PTL DEF TimerInv

\* A node is linked in at most one place of the wheel and at most once in its list, and nowhere
\* in the wheel while it is dispatched or before AddNode: a call of Timeout pushes one message.
THEOREM NodesLinkedOnce == Spec => []LinkedOnce
BY TimerInvHolds, OnceIsLinkedOnce, PTL

\* A node filed in time is always in the list in which AddNode would put it now, whatever the
\* sizes of the wheels: TimerShift passes no border of a block without moving the list behind it.
THEOREM NodesInPlace == Spec => []Placed
BY TimerInvHolds, HomesArePlaced, PTL

\* A node filed in time is dispatched in the very tick in which it is due.
THEOREM NodesFireOnTime == Spec => []FiresOnTime
BY TimerInvHolds, PTL DEF TimerInv


===============================================================================
