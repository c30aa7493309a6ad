---------------------------- MODULE ByteArrayProofs ----------------------------
(***************************************************************************)
(* Proofs about ByteArray, for blocks of any size, varint groups and       *)
(* numbers of any width, and any set of values written.                    *)
(*                                                                         *)
(* ReadsBack is not inductive: it speaks of what a read has returned.  The *)
(* invariant Inv adds that every value written and not overwritten is in   *)
(* the blocks with its code, byte for byte at its place (ItemInv), and     *)
(* that the cursor is right, since all bytes are found from it.  A read    *)
(* then meets the code at the start of what lies ahead, and the codes are  *)
(* inverse to each other: UnvarintVarint, ZigzagBack, FixedBack.           *)
(*                                                                         *)
(* Where a loop of the code is a recursive function, induction goes by the *)
(* least counterexample (LeastNat).                                        *)
(***************************************************************************)
EXTENDS ByteArray, WellFoundedInduction, SequenceTheorems, TLAPS

-----------------------------------------------------------------------------
(* Natural numbers: the least element of a set, which stands for induction, *)
(* and functions defined by recursion.                                      *)

LEMMA LeastNat ==
  ASSUME NEW T, T \subseteq Nat, T # {}
  PROVE  \E x \in T : \A y \in T : x <= y
<1> DEFINE R == OpToRel(<, Nat)
<1>1. IsWellFoundedOn(R, Nat)
  BY NatLessThanWellFounded, Zenon
<1>2. \A x, y \in Nat : y < x => <<y, x>> \in R
  BY DEF OpToRel
<1>3. PICK Q : Q = R
  OBVIOUS
<1>4. PICK x \in T : \A y \in T : ~(<<y, x>> \in Q)
  <2> HIDE DEF R
  <2>. QED  BY <1>1, <1>3, WFMin
<1>5. \A y \in T : ~(y < x)
  BY <1>2, <1>3, <1>4
<1>. QED  BY <1>5

\* The sequence of values that starts with x and goes on by F.
Iterates(g, N, S, x, F) ==
    /\ g \in [0 .. N -> S]
    /\ g[0] = x
    /\ \A n \in 1 .. N : g[n] = F[<<n, g[n - 1]>>]

LEMMA IteratesExist ==
  ASSUME NEW S, NEW x \in S, NEW N \in Nat, NEW F \in [(1 .. N) \X S -> S]
  PROVE  \E g : Iterates(g, N, S, x, F)
<1> DEFINE T == {n \in 0 .. N : ~\E g : Iterates(g, n, S, x, F)}
<1>1. SUFFICES ASSUME T # {} PROVE FALSE
  OBVIOUS
<1>2. PICK m \in T : \A y \in T : m <= y
  <2> HIDE DEF T
  <2>1. T \subseteq Nat
    BY DEF T
  <2>. QED  BY <1>1, <2>1, LeastNat
<1>3. m \in 0 .. N /\ ~\E g : Iterates(g, m, S, x, F)
  OBVIOUS
<1>4. CASE m = 0
  <2>1. Iterates([n \in 0 .. 0 |-> x], 0, S, x, F)
    BY DEF Iterates
  <2>. QED  BY <1>3, <1>4, <2>1
<1>5. CASE m # 0
  <2>1. m - 1 \in 0 .. N /\ m - 1 \notin T
    BY <1>2, <1>3, <1>5
  <2>2. PICK g : Iterates(g, m - 1, S, x, F)
    BY <2>1
  <2>3. PICK v : v = F[<<m, g[m - 1]>>]
    OBVIOUS
  <2>4. v \in S
    BY <1>3, <1>5, <2>2, <2>3 DEF Iterates
  <2> DEFINE h == [n \in 0 .. m |-> IF n = m THEN v ELSE g[n]]
  <2>5. h \in [0 .. m -> S]
    BY <1>3, <2>2, <2>4 DEF Iterates
  <2>6. h[0] = x
    BY <1>3, <1>5, <2>2 DEF Iterates
  <2>7. ASSUME NEW n \in 1 .. m PROVE h[n] = F[<<n, h[n - 1]>>]
    <3>1. h[n - 1] = g[n - 1]
      BY <1>3, <1>5
    <3>2. n # m => h[n] = g[n] /\ n \in 1 .. m - 1
      BY <1>3, <1>5
    <3>3. CASE n = m
      BY <2>3, <3>1, <3>3
    <3>4. CASE n # m
      <4>1. g[n] = F[<<n, g[n - 1]>>]
        BY <2>2, <3>2, <3>4 DEF Iterates
      <4>. QED  BY <3>1, <3>2, <3>4, <4>1
    <3>. QED  BY <3>3, <3>4
  <2>8. Iterates(h, m, S, x, F)
    BY <2>5, <2>6, <2>7 DEF Iterates
  <2>. QED  BY <1>3, <2>8
<1>. QED  BY <1>4, <1>5

LEMMA IteratesUnique ==
  ASSUME NEW S, NEW x, NEW F, NEW M \in Nat, NEW N \in Nat, M <= N,
         NEW g, Iterates(g, M, S, x, F), NEW h, Iterates(h, N, S, x, F)
  PROVE  \A n \in 0 .. M : g[n] = h[n]
<1> DEFINE T == {n \in 0 .. M : g[n] # h[n]}
<1>1. SUFFICES ASSUME T # {} PROVE FALSE
  OBVIOUS
<1>2. PICK m \in T : \A y \in T : m <= y
  <2> HIDE DEF T
  <2>1. T \subseteq Nat
    BY DEF T
  <2>. QED  BY <1>1, <2>1, LeastNat
<1>3. m \in 0 .. M /\ g[m] # h[m]
  OBVIOUS
<1>4. m # 0
  BY <1>3 DEF Iterates
<1>5. m - 1 \in 0 .. M /\ g[m - 1] = h[m - 1]
  BY <1>2, <1>3, <1>4
<1>6. m \in 1 .. M /\ m \in 1 .. N
  BY <1>3, <1>4
<1>. QED  BY <1>3, <1>5, <1>6 DEF Iterates

\* Pow2 is what its definition says.
LEMMA Pow2Def ==
  /\ Pow2 \in [Nat -> Nat]
  /\ Pow2[0] = 1
  /\ \A n \in Nat : Pow2[n + 1] = 2 * Pow2[n]
<1> DEFINE F(n) == [q \in (1 .. n) \X Nat |-> 2 * q[2]]
<1> DEFINE I(n, g) == /\ g \in [0 .. n -> Nat]
                      /\ g[0] = 1
                      /\ \A k \in 1 .. n : g[k] = 2 * g[k - 1]
<1>1. ASSUME NEW n \in Nat PROVE \E g : I(n, g)
  <2>1. F(n) \in [(1 .. n) \X Nat -> Nat]
    OBVIOUS
  <2>2. PICK g : Iterates(g, n, Nat, 1, F(n))
    <3> HIDE DEF F
    <3>. QED  BY <2>1, IteratesExist
  <2>3. \A k \in 1 .. n : F(n)[<<k, g[k - 1]>>] = 2 * g[k - 1]
    BY <2>2 DEF Iterates
  <2>. QED  BY <2>2, <2>3 DEF Iterates
<1>2. ASSUME NEW n \in Nat, NEW g, I(n, g), NEW h, I(n + 1, h)
      PROVE  g[n] = h[n]
  <2>1. \A k \in 1 .. n : F(n)[<<k, g[k - 1]>>] = 2 * g[k - 1]
    <3>1. g \in [0 .. n -> Nat]
      BY <1>2
    <3>2. \A k \in 1 .. n : k - 1 \in 0 .. n
      OBVIOUS
    <3>3. \A k \in 1 .. n : g[k - 1] \in Nat
      BY <3>1, <3>2
    <3>. QED  BY <3>3
  <2>2. PICK e : e = [k \in 0 .. n |-> h[k]]
    OBVIOUS
  <2>3. I(n, e)
    BY <1>2, <2>2
  <2>4. \A k \in 1 .. n : F(n)[<<k, e[k - 1]>>] = 2 * e[k - 1]
    BY <2>3
  <2>5. Iterates(g, n, Nat, 1, F(n)) /\ Iterates(e, n, Nat, 1, F(n))
    BY <1>2, <2>1, <2>3, <2>4 DEF Iterates
  <2>6. g[n] = e[n]
    <3> HIDE DEF F, I
    <3>. QED  BY <2>5, IteratesUnique
  <2>. QED  BY <2>2, <2>6
<1> DEFINE c(n) == CHOOSE g : I(n, g)
<1> DEFINE P == [n \in Nat |-> c(n)[n]]
<1>3. \A n \in Nat : I(n, c(n))
  <2> HIDE DEF I
  <2>. QED  BY <1>1
<1> HIDE DEF c
<1>4. P \in [Nat -> Nat] /\ P[0] = 1
  BY <1>3
<1>5. ASSUME NEW n \in Nat PROVE P[n + 1] = 2 * P[n]
  <2>1. c(n + 1)[n + 1] = 2 * c(n + 1)[n]
    BY <1>3
  <2>2. c(n)[n] = c(n + 1)[n]
    <3> HIDE DEF I
    <3>. QED  BY <1>2, <1>3
  <2>. QED  BY <2>1, <2>2
<1> HIDE DEF P
<1>6. P = [n \in Nat |-> IF n = 0 THEN 1 ELSE 2 * P[n - 1]]
  <2>1. ASSUME NEW n \in Nat PROVE P[n] = IF n = 0 THEN 1 ELSE 2 * P[n - 1]
    <3>1. n # 0 => n - 1 \in Nat /\ (n - 1) + 1 = n
      OBVIOUS
    <3>. QED  BY <1>4, <1>5, <3>1
  <2>. QED  BY <1>4, <2>1
<1>7. Pow2 = [n \in Nat |-> IF n = 0 THEN 1 ELSE 2 * Pow2[n - 1]]
  BY <1>6, Zenon DEF Pow2
<1>8. Pow2[0] = 1 /\ \A n \in Nat : Pow2[n + 1] = 2 * Pow2[n]
  BY <1>7
<1>9. ASSUME NEW n \in Nat PROVE Pow2[n] = P[n]
  <2> DEFINE T == {k \in Nat : Pow2[k] # P[k]}
  <2>1. SUFFICES ASSUME T # {} PROVE FALSE
    OBVIOUS
  <2>2. PICK m \in T : \A y \in T : m <= y
    <3> HIDE DEF T
    <3>1. T \subseteq Nat
      BY DEF T
    <3>. QED  BY <2>1, <3>1, LeastNat
  <2>3. m # 0
    BY <1>4, <1>8
  <2>4. m - 1 \in Nat /\ Pow2[m - 1] = P[m - 1]
    BY <2>2, <2>3
  <2>. QED  BY <1>5, <1>8, <2>4
<1>10. DOMAIN Pow2 = Nat /\ Pow2 = [n \in DOMAIN Pow2 |-> Pow2[n]]
  BY <1>7
<1>. QED  BY <1>4, <1>8, <1>9, <1>10

LEMMA Pow2Positive == \A n \in Nat : Pow2[n] \in Nat \ {0}
<1> DEFINE T == {k \in Nat : Pow2[k] = 0}
<1>1. SUFFICES ASSUME T # {} PROVE FALSE
  BY Pow2Def
<1>2. PICK m \in T : \A y \in T : m <= y
  <2> HIDE DEF T
  <2>1. T \subseteq Nat
    BY DEF T
  <2>. QED  BY <1>1, <2>1, LeastNat
<1>3. m # 0
  BY Pow2Def
<1>4. m - 1 \in Nat /\ Pow2[m - 1] # 0 /\ Pow2[m - 1] \in Nat
  BY <1>2, <1>3, Pow2Def
<1>5. Pow2[m] = 2 * Pow2[m - 1]
  <2>1. (m - 1) + 1 = m
    OBVIOUS
  <2>. QED  BY <1>4, <2>1, Pow2Def
<1>. QED  BY <1>4, <1>5

LEMMA Pow2Sum == \A m, n \in Nat : Pow2[m + n] = Pow2[m] * Pow2[n]
<1> TAKE m \in Nat
<1> DEFINE T == {k \in Nat : Pow2[m + k] # Pow2[m] * Pow2[k]}
<1>1. SUFFICES ASSUME T # {} PROVE FALSE
  OBVIOUS
<1>2. PICK n \in T : \A y \in T : n <= y
  <2> HIDE DEF T
  <2>1. T \subseteq Nat
    BY DEF T
  <2>. QED  BY <1>1, <2>1, LeastNat
<1>3. n # 0
  BY Pow2Def
<1>4. PICK k \in Nat : n = k + 1
  BY <1>3
<1>5. Pow2[m + k] = Pow2[m] * Pow2[k]
  BY <1>2, <1>4
<1>6. Pow2[n] = 2 * Pow2[k] /\ Pow2[m + n] = 2 * Pow2[m + k]
  <2>1. m + n = (m + k) + 1 /\ m + k \in Nat
    BY <1>4
  <2>. QED  BY <1>4, <2>1, Pow2Def
<1>7. Pow2[m] \in Nat /\ Pow2[k] \in Nat
  BY Pow2Def
<1>8. 2 * (Pow2[m] * Pow2[k]) = Pow2[m] * (2 * Pow2[k])
  BY <1>7
<1>. QED  BY <1>5, <1>6, <1>8

LEMMA Pow2Grows == \A m, n \in Nat : m <= n => Pow2[m] <= Pow2[n]
<1> SUFFICES ASSUME NEW m \in Nat, NEW n \in Nat, m <= n PROVE Pow2[m] <= Pow2[n]
  OBVIOUS
<1>1. n - m \in Nat /\ n = m + (n - m)
  OBVIOUS
<1>2. Pow2[n] = Pow2[m] * Pow2[n - m]
  BY <1>1, Pow2Sum
<1>3. Pow2[m] \in Nat \ {0} /\ Pow2[n - m] \in Nat \ {0}
  BY <1>1, Pow2Positive
<1>4. \A a, b \in Nat \ {0} : a <= a * b
  OBVIOUS
<1>. QED  BY <1>2, <1>3, <1>4

LEMMA GroupType == Group \in Nat /\ Group >= 2 /\ Pow2[Width] \in Nat \ {0}
<1>1. GroupBits \in Nat \ {0} /\ Width \in Nat
  BY ByteArrayAssumption
<1>2. GroupBits - 1 \in Nat /\ GroupBits = (GroupBits - 1) + 1
  BY <1>1
<1>3. Pow2[GroupBits] = 2 * Pow2[GroupBits - 1]
  BY <1>2, Pow2Def
<1>4. Pow2[GroupBits - 1] \in Nat \ {0} /\ Pow2[Width] \in Nat \ {0}
  BY <1>1, <1>2, Pow2Positive
<1>. QED  BY <1>3, <1>4 DEF Group

-----------------------------------------------------------------------------
(* Quotients and remainders.                                                *)

LEMMA DivMod ==
  ASSUME NEW a \in Nat, NEW b \in Nat \ {0}
  PROVE  /\ a \div b \in Nat
         /\ a % b \in 0 .. b - 1
         /\ a = b * (a \div b) + (a % b)
  OBVIOUS

LEMMA DivModPick ==
  ASSUME NEW a \in Nat, NEW b \in Nat \ {0}
  PROVE  \E q, r \in Nat : a = b * q + r /\ r < b /\ a \div b = q /\ a % b = r
<1>1. PICK q \in Nat : q = a \div b
  BY DivMod
<1>2. PICK r \in Nat : r = a % b /\ r < b
  BY DivMod
<1>3. a = b * q + r
  BY <1>1, <1>2, DivMod
<1>. QED  BY <1>1, <1>2, <1>3

LEMMA DivModUnique ==
  ASSUME NEW q \in Nat, NEW r \in Nat, NEW b \in Nat \ {0}, r < b
  PROVE  (b * q + r) \div b = q /\ (b * q + r) % b = r
  OBVIOUS

LEMMA ProductMono ==
  ASSUME NEW q \in Int, NEW s \in Int, NEW b \in Nat \ {0}
  PROVE  (q < s => b * q + b <= b * s) /\ (b * q < b * s => q < s)
  OBVIOUS

\* The quotient and the remainder of a sum, from the remainder of one of its parts.
LEMMA DivModShift ==
  ASSUME NEW p \in Nat, NEW n \in Nat, NEW b \in Nat \ {0}
  PROVE  /\ (p + n) \div b = (p \div b) + (((p % b) + n) \div b)
         /\ (p + n) % b = ((p % b) + n) % b
<1>1. PICK q \in Nat, r \in Nat : p = b * q + r /\ r < b /\ p \div b = q /\ p % b = r
  BY DivMod
<1>2. PICK s \in Nat, t \in Nat : r + n = b * s + t /\ t < b /\ (r + n) \div b = s
                                    /\ (r + n) % b = t
  BY DivMod
<1>3. p + n = b * (q + s) + t
  BY <1>1, <1>2
<1>4. (p + n) \div b = q + s /\ (p + n) % b = t
  BY <1>2, <1>3, DivModUnique, q + s \in Nat
<1>. QED  BY <1>1, <1>2, <1>4

-----------------------------------------------------------------------------
(* Varints.                                                                 *)

LEMMA MaxGroupsEnough ==
  /\ MaxGroups \in Nat \ {0}
  /\ MaxGroups - 1 \in 0 .. Width
  /\ GroupBits * MaxGroups >= Width
<1>1. GroupBits \in Nat \ {0} /\ Width \in Nat \ {0}
  BY ByteArrayAssumption
<1>2. PICK w \in Nat : w = Width + GroupBits - 1 /\ w >= GroupBits
  BY <1>1
<1>3. PICK q \in Nat, r \in Nat : w = GroupBits * q + r /\ r < GroupBits /\ w \div GroupBits = q
  BY <1>1, DivMod
<1>4. MaxGroups = q
  BY <1>2, <1>3 DEF MaxGroups
<1>5. q # 0
  BY <1>1, <1>2, <1>3
<1>6. q - 1 <= GroupBits * (q - 1)
  BY <1>1, <1>5
<1>7. GroupBits * (q - 1) = GroupBits * q - GroupBits
  BY <1>1
<1>. QED  BY <1>1, <1>2, <1>3, <1>4, <1>5, <1>6, <1>7

\* Multiples of GroupBits.
LEMMA GroupPowers ==
  ASSUME NEW n \in Nat
  PROVE  /\ GroupBits * n \in Nat /\ GroupBits * (n + 1) \in Nat
         /\ Pow2[GroupBits * n] \in Nat \ {0}
         /\ Pow2[GroupBits * (n + 1)] = Pow2[GroupBits * n] * Group
<1>1. GroupBits \in Nat \ {0}
  BY ByteArrayAssumption
<1>2. GroupBits * n \in Nat /\ GroupBits * (n + 1) = GroupBits * n + GroupBits
  BY <1>1
<1>. QED  BY <1>1, <1>2, Pow2Sum, Pow2Positive DEF Group

LEMMA ShiftedType ==
  ASSUME NEW v \in Nat, NEW n \in Nat
  PROVE  Shifted(v, n) \in Nat
  BY GroupPowers, DivMod DEF Shifted

\* Less than a group is left after n turns if v has no more than n + 1 groups.
LEMMA ShiftedSmall ==
  ASSUME NEW v \in Nat, NEW n \in Nat
  PROVE  v < Pow2[GroupBits * (n + 1)] <=> Shifted(v, n) < Group
<1>1. PICK b \in Nat \ {0} : b = Pow2[GroupBits * n]
  BY GroupPowers
<1>2. PICK q \in Nat, r \in Nat : v = b * q + r /\ r < b /\ v \div b = q
  BY DivMod
<1>3. Group \in Nat /\ Group >= 2
  BY GroupType
<1>4. v < b * Group <=> q < Group
  <2>1. q < Group => b * q + b <= b * Group
    BY <1>3, ProductMono
  <2>2. b * q < b * Group => q < Group
    BY <1>3, ProductMono
  <2>3. b * q \in Nat /\ b * Group \in Nat
    BY <1>3
  <2>. QED  BY <1>2, <1>3, <2>1, <2>2, <2>3
<1>. QED  BY <1>1, <1>2, <1>4, GroupPowers DEF Shifted

LEMMA LastTurnType ==
  ASSUME NEW v \in 0 .. Pow2[Width] - 1
  PROVE  /\ LastTurn(v) \in 0 .. MaxGroups - 1
         /\ Shifted(v, LastTurn(v)) < Group
         /\ \A k \in 0 .. LastTurn(v) - 1 : Shifted(v, k) >= Group
<1> DEFINE Good(n) == Shifted(v, n) < Group /\ \A k \in 0 .. n - 1 : Shifted(v, k) >= Group
<1>1. v \in Nat /\ Width \in Nat /\ Group \in Nat
  BY GroupType, ByteArrayAssumption
<1>2. MaxGroups - 1 \in Nat /\ MaxGroups - 1 \in 0 .. Width /\ Shifted(v, MaxGroups - 1) < Group
  <2>1. PICK m \in Nat : m = MaxGroups - 1 /\ m + 1 = MaxGroups
    BY MaxGroupsEnough
  <2>2. Pow2[Width] <= Pow2[GroupBits * (m + 1)]
    BY <1>1, <2>1, MaxGroupsEnough, GroupPowers, Pow2Grows
  <2>3. v < Pow2[GroupBits * (m + 1)]
    <3>1. GroupBits * (m + 1) \in Nat
      BY GroupPowers
    <3>2. Pow2[GroupBits * (m + 1)] \in Nat /\ Pow2[Width] \in Nat
      BY <1>1, <3>1, Pow2Def
    <3>. QED  BY <1>1, <2>2, <3>2
  <2>4. Shifted(v, m) < Group
    BY <1>1, <2>3, ShiftedSmall
  <2>. QED  BY <2>1, <2>4, MaxGroupsEnough
<1> DEFINE T == {n \in 0 .. Width : Shifted(v, n) < Group}
<1>3. PICK n \in T : \A y \in T : n <= y
  <2>1. MaxGroups - 1 \in T
    BY <1>2
  <2> HIDE DEF T
  <2>2. T \subseteq Nat
    BY DEF T
  <2>. QED  BY <2>1, <2>2, LeastNat
<1>4. \A k \in 0 .. n - 1 : Shifted(v, k) >= Group
  <2> SUFFICES ASSUME NEW k \in 0 .. n - 1 PROVE Shifted(v, k) >= Group
    OBVIOUS
  <2>1. k \in 0 .. Width /\ k \notin T
    BY <1>1, <1>3
  <2>2. k \in Nat
    BY <1>1
  <2>3. Shifted(v, k) \in Nat
    BY <1>1, <2>2, ShiftedType
  <2>. QED  BY <1>1, <2>1, <2>3
<1>5. n \in 0 .. Width /\ Good(n)
  BY <1>4
<1> HIDE DEF Good
<1>6. LastTurn(v) \in 0 .. Width /\ Good(LastTurn(v))
  <2>1. LastTurn(v) = CHOOSE j \in 0 .. Width : Good(j)
    BY Zenon DEF LastTurn, Good
  <2>. QED  BY <1>5, <2>1
<1>7. PICK l \in Nat : l = LastTurn(v)
  BY <1>1, <1>6
<1>8. l <= MaxGroups - 1
  <2> SUFFICES ASSUME MaxGroups - 1 < l PROVE FALSE
    BY <1>2, <1>7
  <2>1. MaxGroups - 1 \in 0 .. l - 1
    BY <1>2, <1>7
  <2>2. Shifted(v, MaxGroups - 1) >= Group
    BY <1>6, <1>7, <2>1 DEF Good
  <2>3. Shifted(v, MaxGroups - 1) \in Nat
    BY <1>1, <1>2, ShiftedType
  <2>. QED  BY <1>1, <1>2, <2>2, <2>3
<1>9. LastTurn(v) \in 0 .. MaxGroups - 1
  BY <1>2, <1>7, <1>8
<1>. QED  BY <1>6, <1>9 DEF Good

\* The code of v: at most MaxGroups bytes, of which only the last ends a number.
LEMMA VarintType ==
  ASSUME NEW v \in 0 .. Pow2[Width] - 1
  PROVE  /\ Varint(v) \in Seq(Byte)
         /\ Len(Varint(v)) = LastTurn(v) + 1
         /\ Len(Varint(v)) \in 1 .. MaxGroups
         /\ \A i \in 1 .. Len(Varint(v)) :
              /\ Varint(v)[i] < Group <=> i = Len(Varint(v))
              /\ Varint(v)[i] % Group = Shifted(v, i - 1) % Group
<1>1. PICK l \in Nat : l = LastTurn(v) /\ l + 1 \in 1 .. MaxGroups
  BY LastTurnType, MaxGroupsEnough
<1>2. v \in Nat /\ Group \in Nat /\ Group >= 2
  BY GroupType
<1>3. ASSUME NEW i \in 1 .. l + 1
      PROVE  /\ Shifted(v, i - 1) % Group \in 0 .. Group - 1
             /\ Varint(v)[i] = (Shifted(v, i - 1) % Group) + (IF i <= l THEN Group ELSE 0)
  <2>1. Shifted(v, i - 1) \in Nat
    BY <1>2, ShiftedType, i - 1 \in Nat
  <2>2. Shifted(v, i - 1) % Group \in 0 .. Group - 1
    <3>1. PICK x \in Nat : x = Shifted(v, i - 1)
      BY <2>1
    <3>2. x % Group \in 0 .. Group - 1
      BY <1>2
    <3>. QED  BY <3>1, <3>2
  <2>3. Varint(v)[i] = (Shifted(v, i - 1) % Group) + (IF i <= l THEN Group ELSE 0)
    BY <1>1 DEF Varint
  <2>. QED  BY <2>2, <2>3
<1>4. \A i \in 1 .. l + 1 : Varint(v)[i] \in Byte
  <2> SUFFICES ASSUME NEW i \in 1 .. l + 1 PROVE Varint(v)[i] \in Byte
    OBVIOUS
  <2>. QED  BY <1>2, <1>3 DEF Byte
<1>5. Varint(v) \in [1 .. l + 1 -> Byte]
  BY <1>1, <1>4 DEF Varint
<1>6. Varint(v) \in Seq(Byte) /\ Len(Varint(v)) = l + 1
  BY <1>5, SeqDef
<1>7. ASSUME NEW i \in 1 .. l + 1
      PROVE  /\ Varint(v)[i] < Group <=> i = l + 1
             /\ Varint(v)[i] % Group = Shifted(v, i - 1) % Group
  <2>1. PICK x \in 0 .. Group - 1 : x = Shifted(v, i - 1) % Group
    BY <1>3
  <2>2. (x + Group) % Group = x /\ x % Group = x
    BY <1>2
  <2>3. Varint(v)[i] = x + (IF i <= l THEN Group ELSE 0)
    BY <1>3, <2>1
  <2>4. CASE i <= l
    BY <1>2, <2>1, <2>2, <2>3, <2>4
  <2>5. CASE i = l + 1
    BY <1>2, <2>1, <2>2, <2>3, <2>5
  <2>. QED  BY <2>4, <2>5
<1>. QED  BY <1>1, <1>6, <1>7

\* The sums of the loop of readUint32 and 64 over the bytes s.
SumsOf(g, s) ==
    /\ g \in [0 .. Len(s) -> Nat]
    /\ g[0] = 0
    /\ \A n \in 1 .. Len(s) : g[n] = g[n - 1] + (s[n] % Group) * Pow2[GroupBits * (n - 1)]

LEMMA UnvarintSums ==
  ASSUME NEW s \in Seq(Byte)
  PROVE  \E g : SumsOf(g, s) /\ Unvarint(s) = g[Len(s)] % Pow2[Width]
<1> DEFINE d(n) == (s[n] % Group) * Pow2[GroupBits * (n - 1)]
<1> DEFINE F == [q \in (1 .. Len(s)) \X Nat |-> q[2] + d(q[1])]
<1>1. Len(s) \in Nat /\ \A n \in 1 .. Len(s) : s[n] \in Byte
  OBVIOUS
<1>2. ASSUME NEW n \in 1 .. Len(s) PROVE d(n) \in Nat
  <2>1. s[n] \in Nat /\ Group \in Nat /\ Group >= 2
    BY <1>1, GroupType DEF Byte
  <2>2. PICK x \in Nat : x = s[n] % Group
    BY <2>1
  <2>3. Pow2[GroupBits * (n - 1)] \in Nat
    BY GroupPowers, n - 1 \in Nat
  <2>. QED  BY <2>2, <2>3
<1>3. \A n \in 1 .. Len(s) : d(n) \in Nat
  BY <1>2
<1>4. F \in [(1 .. Len(s)) \X Nat -> Nat]
  <2> HIDE DEF d
  <2>. QED  BY <1>3
<1>5. PICK g : Iterates(g, Len(s), Nat, 0, F)
  <2> HIDE DEF F
  <2>. QED  BY <1>1, <1>4, IteratesExist
<1>6. g \in [0 .. Len(s) -> Nat] /\ g[0] = 0
  BY <1>5 DEF Iterates
<1>7. ASSUME NEW n \in 1 .. Len(s) PROVE g[n] = g[n - 1] + d(n)
  <2>1. n - 1 \in 0 .. Len(s)
    BY <1>1
  <2>2. g[n - 1] \in Nat
    BY <1>6, <2>1
  <2>3. F[<<n, g[n - 1]>>] = g[n - 1] + d(n)
    <3> HIDE DEF d
    <3>. QED  BY <2>2
  <2>. QED  BY <1>5, <2>3 DEF Iterates
<1> DEFINE Body(f) == [n \in 0 .. Len(s) |-> IF n = 0 THEN 0 ELSE f[n - 1] + d(n)]
<1>8. g = Body(g)
  <2>1. ASSUME NEW n \in 0 .. Len(s) PROVE g[n] = IF n = 0 THEN 0 ELSE g[n - 1] + d(n)
    <3> HIDE DEF d
    <3>1. n # 0 => n \in 1 .. Len(s)
      BY <1>1
    <3>. QED  BY <1>6, <1>7, <3>1
  <2> HIDE DEF d
  <2>. QED  BY <1>6, <2>1
<1> DEFINE D == CHOOSE f : f = Body(f)
<1>9. D = Body(D)
  <2> HIDE DEF Body
  <2>. QED  BY <1>8
<1>10. Unvarint(s) = D[Len(s)] % Pow2[Width]
  BY Zenon DEF Unvarint
<1> HIDE DEF D
<1>11. ASSUME NEW n \in 0 .. Len(s) PROVE D[n] = g[n]
  <2> DEFINE T == {k \in 0 .. Len(s) : D[k] # g[k]}
  <2>1. SUFFICES ASSUME T # {} PROVE FALSE
    OBVIOUS
  <2>2. PICK m \in T : \A y \in T : m <= y
    <3> HIDE DEF T
    <3>1. T \subseteq Nat
      BY <1>1 DEF T
    <3>. QED  BY <2>1, <3>1, LeastNat
  <2>3. m \in 0 .. Len(s) /\ D[m] # g[m]
    OBVIOUS
  <2>4. D[m] = IF m = 0 THEN 0 ELSE D[m - 1] + d(m)
    <3> HIDE DEF d
    <3>. QED  BY <1>9, <2>3
  <2>5. m # 0
    BY <1>6, <2>3, <2>4
  <2>6. m - 1 \in 0 .. Len(s) /\ m \in 1 .. Len(s)
    BY <1>1, <2>3, <2>5
  <2>7. D[m - 1] = g[m - 1]
    BY <1>1, <2>2, <2>6
  <2>8. g[m] = g[m - 1] + d(m)
    BY <1>7, <2>6
  <2>. QED  BY <2>3, <2>4, <2>5, <2>7, <2>8
<1>12. SumsOf(g, s)
  BY <1>6, <1>7 DEF SumsOf
<1>13. D[Len(s)] = g[Len(s)]
  BY <1>1, <1>11
<1>. QED  BY <1>10, <1>12, <1>13

LEMMA UnvarintType ==
  ASSUME NEW s \in Seq(Byte)
  PROVE  Unvarint(s) \in 0 .. Pow2[Width] - 1
<1>1. PICK g : SumsOf(g, s) /\ Unvarint(s) = g[Len(s)] % Pow2[Width]
  BY UnvarintSums
<1>2. g[Len(s)] \in Nat
  BY <1>1 DEF SumsOf
<1>. QED  BY <1>1, <1>2, GroupType

\* The next group of the remainder.
LEMMA NextGroup ==
  ASSUME NEW v \in Nat, NEW b \in Nat \ {0}, NEW c \in Nat \ {0}
  PROVE  v % (b * c) = (v % b) + ((v \div b) % c) * b
<1>1. PICK q \in Nat, r \in Nat : v = b * q + r /\ r < b /\ v \div b = q /\ v % b = r
  BY DivMod
<1>2. PICK s \in Nat, t \in Nat : q = c * s + t /\ t < c /\ q % c = t
  BY DivModPick
<1>3. v = (b * c) * s + (t * b + r)
  <2>1. b * (c * s + t) = (b * c) * s + t * b
    OBVIOUS
  <2>. QED  BY <1>1, <1>2, <2>1
<1>4. t * b + r < b * c
  <2>1. b * t + b <= b * c
    BY <1>2, ProductMono
  <2>2. b * t = t * b /\ b * t \in Nat /\ b * c \in Nat
    OBVIOUS
  <2>. QED  BY <1>1, <2>1, <2>2
<1>5. b * c \in Nat \ {0} /\ t * b + r \in Nat
  OBVIOUS
<1>6. v % (b * c) = t * b + r
  <2>1. PICK d \in Nat \ {0} : d = b * c
    BY <1>5
  <2>2. (d * s + (t * b + r)) % d = t * b + r
    BY <1>4, <1>5, <2>1, DivModUnique
  <2>. QED  BY <1>3, <2>1, <2>2
<1>. QED  BY <1>1, <1>2, <1>6

\* readUint32 and 64 return what writeUint32 and 64 were given.
LEMMA UnvarintVarint ==
  ASSUME NEW v \in 0 .. Pow2[Width] - 1
  PROVE  Unvarint(Varint(v)) = v
<1>1. PICK s \in Seq(Byte) : s = Varint(v)
  BY VarintType
<1>2. PICK g : SumsOf(g, s) /\ Unvarint(s) = g[Len(s)] % Pow2[Width]
  BY UnvarintSums
<1>3. v \in Nat /\ Group \in Nat \ {0}
  BY GroupType
<1>4. Len(s) \in Nat /\ Len(s) = LastTurn(v) + 1 /\ LastTurn(v) \in Nat
  BY <1>1, VarintType, LastTurnType, MaxGroupsEnough
<1>5. ASSUME NEW n \in 0 .. Len(s) PROVE g[n] = v % Pow2[GroupBits * n]
  <2> DEFINE T == {k \in 0 .. Len(s) : g[k] # v % Pow2[GroupBits * k]}
  <2>1. SUFFICES ASSUME T # {} PROVE FALSE
    OBVIOUS
  <2>2. PICK m \in T : \A y \in T : m <= y
    <3> HIDE DEF T
    <3>1. T \subseteq Nat
      BY <1>4 DEF T
    <3>. QED  BY <2>1, <3>1, LeastNat
  <2>3. m \in 0 .. Len(s) /\ g[m] # v % Pow2[GroupBits * m]
    OBVIOUS
  <2>4. m # 0
    <3>1. GroupBits * 0 = 0
      BY ByteArrayAssumption
    <3>2. v % Pow2[GroupBits * 0] = 0
      <4>1. v % 1 = 0
        BY <1>3
      <4>2. Pow2[GroupBits * 0] = 1
        BY <3>1, Pow2Def
      <4>. QED  BY <4>1, <4>2
    <3>. QED  BY <1>2, <2>3, <3>2 DEF SumsOf
  <2>5. PICK k \in Nat : m = k + 1 /\ k \in 0 .. Len(s) /\ m - 1 = k
    BY <1>4, <2>3, <2>4
  <2>6. g[k] = v % Pow2[GroupBits * k]
    BY <1>4, <2>2, <2>5
  <2>7. g[m] = g[k] + (s[m] % Group) * Pow2[GroupBits * k]
    <3>1. m \in 1 .. Len(s)
      BY <1>4, <2>3, <2>4
    <3>2. g[m] = g[m - 1] + (s[m] % Group) * Pow2[GroupBits * (m - 1)]
      BY <1>2, <3>1 DEF SumsOf
    <3>. QED  BY <2>5, <3>2
  <2>8. s[m] % Group = Shifted(v, k) % Group
    <3>1. m \in 1 .. Len(Varint(v))
      BY <1>1, <1>4, <2>3, <2>4
    <3>2. Varint(v)[m] % Group = Shifted(v, m - 1) % Group
      BY <3>1, VarintType
    <3>. QED  BY <1>1, <2>5, <3>2
  <2>9. PICK b \in Nat \ {0} : b = Pow2[GroupBits * k] /\ Pow2[GroupBits * m] = b * Group
    BY <2>5, GroupPowers
  <2>10. v % (b * Group) = (v % b) + ((v \div b) % Group) * b
    BY <1>3, NextGroup
  <2>. QED  BY <2>3, <2>6, <2>7, <2>8, <2>9, <2>10 DEF Shifted
<1>6. v % Pow2[GroupBits * Len(s)] = v
  <2>1. PICK l \in Nat : l = LastTurn(v) /\ Len(s) = l + 1
    BY <1>4
  <2>2. v < Pow2[GroupBits * (l + 1)]
    BY <1>3, <2>1, LastTurnType, ShiftedSmall
  <2>3. Pow2[GroupBits * (l + 1)] \in Nat \ {0}
    BY GroupPowers, l + 1 \in Nat
  <2>4. \A b \in Nat \ {0} : v < b => v % b = v
    BY <1>3
  <2>. QED  BY <2>1, <2>2, <2>3, <2>4
<1>7. g[Len(s)] = v
  BY <1>4, <1>5, <1>6
<1>8. v % Pow2[Width] = v
  BY <1>3, GroupType
<1>. QED  BY <1>1, <1>2, <1>7, <1>8

-----------------------------------------------------------------------------
(* Blocks.                                                                  *)

\* Byte k of a list of blocks.
Cell(list, k) == list[(k - 1) \div m_baseSize + 1][((k - 1) % m_baseSize) + 1]

Block == [1 .. m_baseSize -> Byte]

LEMMA BaseSize == m_baseSize \in Nat \ {0}
  BY ByteArrayAssumption

\* Byte k has its place in a list that is long enough.
LEMMA CellPlace ==
  ASSUME NEW k \in Nat \ {0}, NEW L \in Nat, k <= L * m_baseSize
  PROVE  /\ (k - 1) \div m_baseSize + 1 \in 1 .. L
         /\ ((k - 1) % m_baseSize) + 1 \in 1 .. m_baseSize
<1>1. m_baseSize \in Nat \ {0} /\ k - 1 \in Nat
  BY BaseSize
<1>2. PICK q \in Nat, r \in Nat : k - 1 = m_baseSize * q + r /\ r < m_baseSize
                                    /\ (k - 1) \div m_baseSize = q /\ (k - 1) % m_baseSize = r
  BY <1>1, DivMod
<1>3. m_baseSize * q < m_baseSize * L
  <2>1. L * m_baseSize = m_baseSize * L /\ m_baseSize * q \in Nat /\ m_baseSize * L \in Nat
    BY <1>1
  <2>. QED  BY <1>1, <1>2, <2>1
<1>4. q < L
  BY <1>1, <1>3, ProductMono
<1>. QED  BY <1>1, <1>2, <1>4

LEMMA CellType ==
  ASSUME NEW list \in Seq(Block), NEW k \in Nat \ {0}, k <= Len(list) * m_baseSize
  PROVE  Cell(list, k) \in Byte
<1>1. PICK i \in 1 .. Len(list) : i = (k - 1) \div m_baseSize + 1
  BY CellPlace, Len(list) \in Nat
<1>2. PICK j \in 1 .. m_baseSize : j = ((k - 1) % m_baseSize) + 1
  BY CellPlace, Len(list) \in Nat
<1>3. list[i] \in Block
  OBVIOUS
<1>4. list[i][j] \in Byte
  BY <1>3 DEF Block
<1>. QED  BY <1>1, <1>2, <1>4 DEF Cell

LEMMA PlaceType == \A k \in Nat : k \div m_baseSize \in Nat /\ k % m_baseSize \in Nat
  BY BaseSize, DivMod

\* Two bytes at one place are one.
LEMMA CellInjective ==
  ASSUME NEW j \in Nat, NEW k \in Nat, j \div m_baseSize = k \div m_baseSize,
         j % m_baseSize = k % m_baseSize
  PROVE  j = k
<1>1. j = m_baseSize * (j \div m_baseSize) + (j % m_baseSize)
  BY BaseSize, DivMod
<1>2. k = m_baseSize * (k \div m_baseSize) + (k % m_baseSize)
  BY BaseSize, DivMod
<1>. QED  BY <1>1, <1>2

\* What TypeOK says of the numbers.
LEMMA Sizes ==
  ASSUME TypeOK
  PROVE  /\ blocks \in Seq(Block) /\ Len(blocks) \in Nat
         /\ m_position \in Nat /\ m_size \in Nat /\ m_capacity \in Nat
         /\ m_position <= m_size /\ m_size <= m_capacity
         /\ m_capacity = Len(blocks) * m_baseSize
         /\ m_baseSize \in Nat \ {0}
<1>1. m_baseSize \in Nat \ {0}
  BY BaseSize
<1>2. blocks \in Seq(Block) /\ Len(blocks) \in Nat
  BY DEF TypeOK, Block
<1>3. m_capacity \in Nat
  BY <1>1, <1>2 DEF TypeOK
<1>. QED  BY <1>1, <1>2, <1>3 DEF TypeOK

\* The place of a position: behind the last block, or on the block CursorAt() and
\* CursorRight name.
LEMMA PositionBlock ==
  ASSUME NEW p \in Nat, NEW L \in Nat, p <= L * m_baseSize
  PROVE  /\ p \div m_baseSize \in Nat
         /\ p \div m_baseSize + 1 > L <=> p = L * m_baseSize
         /\ p = L * m_baseSize => p \div m_baseSize = L
<1>1. m_baseSize \in Nat \ {0}
  BY BaseSize
<1>2. PICK q \in Nat, r \in Nat : p = m_baseSize * q + r /\ r < m_baseSize
                                    /\ p \div m_baseSize = q
  BY <1>1, DivMod
<1>3. L * m_baseSize = m_baseSize * L /\ m_baseSize * q \in Nat /\ m_baseSize * L \in Nat
  BY <1>1
<1>4. p = m_baseSize * L => q = L
  <2> SUFFICES ASSUME p = m_baseSize * L PROVE q = L
    OBVIOUS
  <2>1. (m_baseSize * L + 0) \div m_baseSize = L
    BY <1>1, DivModUnique
  <2>. QED  BY <1>2, <1>3, <2>1
<1>5. L < q => m_baseSize * L + m_baseSize <= m_baseSize * q
  BY <1>1, ProductMono
<1>6. q < L => m_baseSize * q + m_baseSize <= m_baseSize * L
  BY <1>1, ProductMono
<1>7. q + 1 > L => p = m_baseSize * L
  BY <1>1, <1>2, <1>3, <1>5
<1>8. p = m_baseSize * L => q + 1 > L
  BY <1>4
<1>. QED  BY <1>2, <1>3, <1>4, <1>7, <1>8

\* CursorRight in the words of the walks.
LEMMA CursorForm ==
  ASSUME NEW list \in Seq(Block), NEW p \in Nat, p <= Len(list) * m_baseSize
  PROVE  CursorAt(p, list) = IF p = Len(list) * m_baseSize THEN Null ELSE p \div m_baseSize + 1
<1>1. Len(list) \in Nat
  OBVIOUS
<1>2. p \div m_baseSize + 1 > Len(list) <=> p = Len(list) * m_baseSize
  BY <1>1, PositionBlock
<1>. QED  BY <1>2 DEF CursorAt

\* addCapacity() makes room for n bytes.
LEMMA GrowthRoom ==
  ASSUME TypeOK, NEW n \in Nat \ {0}
  PROVE  /\ BlocksNeeded(n) \in Nat
         /\ m_position + n <= (Len(blocks) + BlocksNeeded(n)) * m_baseSize
         /\ (Len(blocks) + BlocksNeeded(n)) * m_baseSize = m_capacity + BlocksNeeded(n) * m_baseSize
         /\ BlocksNeeded(n) = 0 => m_position + n <= m_capacity
<1>1. PICK b \in Nat \ {0} : b = m_baseSize
  BY BaseSize
<1>2. PICK L \in Nat, p \in Nat, c \in Nat :
         L = Len(blocks) /\ p = m_position /\ c = m_capacity /\ p <= c /\ c = L * b
  BY <1>1, Sizes
<1>3. CASE n <= c - p
  BY <1>1, <1>2, <1>3 DEF BlocksNeeded
<1>4. CASE n > c - p
  <2>1. PICK x \in Nat \ {0} : x = n - (c - p)
    <3>1. n - (c - p) \in Nat \ {0}
      BY <1>2, <1>4
    <3>. QED  BY <3>1
  <2>2. BlocksNeeded(n) = (x + b - 1) \div b
    <3>1. n - (m_capacity - m_position) + m_baseSize - 1 = x + b - 1
      BY <1>1, <1>2, <2>1
    <3>. QED  BY <1>1, <1>2, <1>4, <3>1 DEF BlocksNeeded
  <2>3. x + b - 1 \in Nat
    BY <1>1, <2>1
  <2>4. PICK q \in Nat, r \in Nat : x + b - 1 = b * q + r /\ r < b /\ (x + b - 1) \div b = q
    BY <1>1, <2>3, DivMod
  <2>5. x <= b * q
    <3>1. b * q \in Nat
      BY <1>1
    <3>. QED  BY <1>1, <2>1, <2>4, <3>1
  <2>6. (L + q) * b = c + q * b /\ b * q = q * b /\ q * b \in Nat
    BY <1>1, <1>2
  <2>7. q # 0
    BY <1>1, <2>1, <2>5
  <2>8. p + n <= c + q * b
    BY <1>2, <2>1, <2>5, <2>6
  <2>. QED  BY <1>1, <1>2, <2>2, <2>4, <2>6, <2>7, <2>8
<1>. QED  BY <1>2, <1>3, <1>4

\* ... and puts the cursor on the block of the position.
LEMMA GrowthCursor ==
  ASSUME TypeOK, CursorRight, NEW n \in Nat \ {0}
  PROVE  CursorAfterGrowth(n) = m_position \div m_baseSize + 1
<1>1. BlocksNeeded(n) \in Nat /\ (BlocksNeeded(n) = 0 => m_position + n <= m_capacity)
  BY GrowthRoom
<1>2. CASE m_position = m_capacity
  <2>1. BlocksNeeded(n) > 0
    BY <1>1, <1>2, Sizes
  <2>2. m_position \div m_baseSize = Len(blocks)
    BY <1>2, Sizes, PositionBlock
  <2>. QED  BY <1>2, <2>1, <2>2 DEF CursorAfterGrowth
<1>3. CASE m_position # m_capacity
  BY <1>3 DEF CursorAfterGrowth, CursorRight
<1>. QED  BY <1>2, <1>3

\* The places write() fills, walking on from the block of the position.
LEMMA CellWalk ==
  ASSUME NEW p \in Nat, NEW k \in Nat \ {0}
  PROVE  /\ (p \div m_baseSize + 1) + ((p % m_baseSize) + k - 1) \div m_baseSize
              = (p + k - 1) \div m_baseSize + 1
         /\ ((p % m_baseSize) + k - 1) % m_baseSize = (p + k - 1) % m_baseSize
<1>1. PICK n \in Nat : n = k - 1
  OBVIOUS
<1>2. PICK r \in Nat, q \in Nat : r = p % m_baseSize /\ q = p \div m_baseSize
  <2>1. p % m_baseSize \in Nat /\ p \div m_baseSize \in Nat
    BY BaseSize, DivMod
  <2>. QED  BY <2>1
<1>3. /\ (p + n) \div m_baseSize = (p \div m_baseSize) + (((p % m_baseSize) + n) \div m_baseSize)
      /\ (p + n) % m_baseSize = ((p % m_baseSize) + n) % m_baseSize
  BY BaseSize, DivModShift
<1>4. PICK t \in Nat : t = (r + n) \div m_baseSize
  BY BaseSize, DivMod, r + n \in Nat
<1>5. (p + n) \div m_baseSize = q + t /\ (p + n) % m_baseSize = (r + n) % m_baseSize
  BY <1>2, <1>3, <1>4
<1>6. p + n = p + k - 1 /\ r + n = r + k - 1
  BY <1>1
<1>7. (p + k - 1) \div m_baseSize = q + t /\ (r + k - 1) \div m_baseSize = t
      /\ (p + k - 1) % m_baseSize = (r + k - 1) % m_baseSize
  BY <1>4, <1>5, <1>6
<1>8. (q + 1) + t = (q + t) + 1
  OBVIOUS
<1>. QED  BY <1>2, <1>7, <1>8

\* The list after a write or a receive: its type, and the bytes in it.
LEMMA FilledType ==
  ASSUME TypeOK, NEW n \in Nat \ {0}, NEW bs \in Seq(Byte), NEW junk \in Byte
  PROVE  /\ Filled(bs, n, junk) \in Seq(Block)
         /\ Len(Filled(bs, n, junk)) = Len(blocks) + BlocksNeeded(n)
<1> DEFINE cur == CursorAfterGrowth(n)
           new == [i \in 1 .. BlocksNeeded(n) |-> NewBlock(junk)]
           grown == blocks \o new
           hits(i, j) == {k \in 1 .. Len(bs) : CellBlock(cur, k) = i /\ CellOffset(k) = j}
<1>1. BlocksNeeded(n) \in Nat
  BY GrowthRoom
<1>2. NewBlock(junk) \in Block
  BY DEF NewBlock, Block
<1>3. new \in Seq(Block) /\ Len(new) = BlocksNeeded(n)
  <2>1. new \in [1 .. BlocksNeeded(n) -> Block]
    BY <1>2
  <2> HIDE DEF new
  <2>. QED  BY <1>1, <2>1, SeqDef
<1>4. grown \in Seq(Block) /\ Len(grown) = Len(blocks) + BlocksNeeded(n)
  <2>1. PICK w \in Seq(Block) : w = new /\ Len(w) = BlocksNeeded(n)
    BY <1>3
  <2>2. PICK l \in Seq(Block) : l = blocks
    BY Sizes
  <2>3. l \o w \in Seq(Block) /\ Len(l \o w) = Len(l) + Len(w)
    OBVIOUS
  <2> HIDE DEF new
  <2>. QED  BY <2>1, <2>2, <2>3
<1>5. Filled(bs, n, junk) =
        [i \in DOMAIN grown |-> [j \in 1 .. m_baseSize |->
            IF hits(i, j) = {} THEN grown[i][j] ELSE bs[CHOOSE k \in hits(i, j) : TRUE]]]
  BY Zenon DEF Filled
<1> HIDE DEF grown
<1>6. ASSUME NEW i \in DOMAIN grown, NEW j \in 1 .. m_baseSize
      PROVE  (IF hits(i, j) = {} THEN grown[i][j] ELSE bs[CHOOSE k \in hits(i, j) : TRUE]) \in Byte
  <2>1. CASE hits(i, j) = {}
    <3>1. grown[i] \in Block
      BY <1>4
    <3>2. grown[i][j] \in Byte
      BY <3>1 DEF Block
    <3> HIDE DEF hits
    <3>. QED  BY <2>1, <3>2
  <2>2. CASE hits(i, j) # {}
    <3>1. PICK k : k = CHOOSE x \in hits(i, j) : TRUE
      OBVIOUS
    <3>2. k \in hits(i, j)
      <4> HIDE DEF hits
      <4>. QED  BY <2>2, <3>1
    <3>3. k \in 1 .. Len(bs)
      BY <3>2
    <3>4. bs[k] \in Byte
      BY <3>3
    <3> HIDE DEF hits
    <3>. QED  BY <2>2, <3>1, <3>4
  <2>. QED  BY <2>1, <2>2
<1> HIDE DEF hits
<1>7. Filled(bs, n, junk) \in [DOMAIN grown -> Block]
  BY <1>5, <1>6 DEF Block
<1>8. DOMAIN grown = 1 .. Len(grown) /\ Len(grown) \in Nat
  BY <1>4
<1>. QED  BY <1>4, <1>7, <1>8, SeqDef

LEMMA FilledCells ==
  ASSUME TypeOK, CursorRight, NEW n \in Nat \ {0}, NEW bs \in Seq(Byte), Len(bs) <= n,
         NEW junk \in Byte, NEW k \in Nat \ {0},
         k <= (Len(blocks) + BlocksNeeded(n)) * m_baseSize
  PROVE  /\ k > m_position /\ k <= m_position + Len(bs)
              => Cell(Filled(bs, n, junk), k) = bs[k - m_position]
         /\ k <= m_capacity /\ (k <= m_position \/ k > m_position + Len(bs))
              => Cell(Filled(bs, n, junk), k) = Cell(blocks, k)
<1> DEFINE cur == CursorAfterGrowth(n)
           new == [i \in 1 .. BlocksNeeded(n) |-> NewBlock(junk)]
           grown == blocks \o new
           hits(i, j) == {h \in 1 .. Len(bs) : CellBlock(cur, h) = i /\ CellOffset(h) = j}
<1>1. BlocksNeeded(n) \in Nat
  BY GrowthRoom
<1>2. NewBlock(junk) \in Block
  BY DEF NewBlock, Block
<1>3. new \in Seq(Block) /\ Len(new) = BlocksNeeded(n)
  <2>1. new \in [1 .. BlocksNeeded(n) -> Block]
    BY <1>2
  <2> HIDE DEF new
  <2>. QED  BY <1>1, <2>1, SeqDef
<1>4. /\ grown \in Seq(Block) /\ Len(grown) = Len(blocks) + BlocksNeeded(n)
      /\ \A i \in 1 .. Len(blocks) : grown[i] = blocks[i]
  <2>1. PICK w \in Seq(Block) : w = new /\ Len(w) = BlocksNeeded(n)
    BY <1>3
  <2>2. PICK l \in Seq(Block) : l = blocks
    BY Sizes
  <2>3. l \o w \in Seq(Block) /\ Len(l \o w) = Len(l) + Len(w)
        /\ \A i \in 1 .. Len(l) : (l \o w)[i] = l[i]
    OBVIOUS
  <2> HIDE DEF new
  <2>. QED  BY <2>1, <2>2, <2>3
<1>5. Filled(bs, n, junk) =
        [i \in DOMAIN grown |-> [j \in 1 .. m_baseSize |->
            IF hits(i, j) = {} THEN grown[i][j] ELSE bs[CHOOSE h \in hits(i, j) : TRUE]]]
  BY Zenon DEF Filled
<1> HIDE DEF grown
<1>6. PICK L \in Nat, p \in Nat : L = Len(blocks) /\ p = m_position
  BY Sizes
<1>7. PICK i \in 1 .. Len(grown), j \in 1 .. m_baseSize :
         i = (k - 1) \div m_baseSize + 1 /\ j = ((k - 1) % m_baseSize) + 1
  BY <1>1, <1>4, <1>6, CellPlace, L + BlocksNeeded(n) \in Nat
<1>8. Cell(Filled(bs, n, junk), k) =
        IF hits(i, j) = {} THEN grown[i][j] ELSE bs[CHOOSE h \in hits(i, j) : TRUE]
  <2> HIDE DEF hits
  <2>1. i \in DOMAIN grown
    BY <1>4
  <2>. QED  BY <1>5, <1>7, <2>1 DEF Cell
<1>9. ASSUME NEW h \in 1 .. Len(bs)
      PROVE  h \in hits(i, j) <=> p + h = k
  <2>1. cur = p \div m_baseSize + 1
    BY <1>6, GrowthCursor
  <2>2. h \in Nat \ {0}
    OBVIOUS
  <2>3. CellBlock(cur, h) = (p + h - 1) \div m_baseSize + 1
    <3> HIDE DEF cur
    <3>. QED  BY <1>6, <2>1, <2>2, CellWalk DEF CellBlock
  <2>4. CellOffset(h) = ((p + h - 1) % m_baseSize) + 1
    BY <1>6, <2>2, CellWalk DEF CellOffset
  <2>5. p + h - 1 \in Nat /\ k - 1 \in Nat
    BY <2>2
  <2>6. PICK x \in Nat, y \in Nat : x = p + h - 1 /\ y = k - 1
    BY <2>5
  <2>7. PICK xd \in Nat, xm \in Nat : xd = x \div m_baseSize /\ xm = x % m_baseSize
    <3>1. x \div m_baseSize \in Nat /\ x % m_baseSize \in Nat
      BY PlaceType
    <3>. QED  BY <3>1
  <2>8. PICK yd \in Nat, ym \in Nat : yd = y \div m_baseSize /\ ym = y % m_baseSize
    <3>1. y \div m_baseSize \in Nat /\ y % m_baseSize \in Nat
      BY PlaceType
    <3>. QED  BY <3>1
  <2>9. h \in hits(i, j) <=> x \div m_baseSize = y \div m_baseSize /\ x % m_baseSize = y % m_baseSize
    <3>1. CellBlock(cur, h) = xd + 1 /\ CellOffset(h) = xm + 1
      BY <2>3, <2>4, <2>6, <2>7
    <3>2. i = yd + 1 /\ j = ym + 1
      BY <1>7, <2>6, <2>8
    <3>3. h \in hits(i, j) <=> CellBlock(cur, h) = i /\ CellOffset(h) = j
      <4> HIDE DEF cur
      <4>. QED  OBVIOUS
    <3> HIDE DEF hits, cur
    <3>4. h \in hits(i, j) <=> xd = yd /\ xm = ym
      BY <3>1, <3>2, <3>3
    <3>. QED  BY <2>7, <2>8, <3>4
  <2>10. h \in hits(i, j) <=> x = y
    <3> HIDE DEF hits
    <3>. QED  BY <2>9, CellInjective
  <2>. QED  BY <2>2, <2>6, <2>10
<1>10. hits(i, j) \subseteq 1 .. Len(bs)
  OBVIOUS
<1> HIDE DEF hits
<1>11. ASSUME k > m_position, k <= m_position + Len(bs)
       PROVE  Cell(Filled(bs, n, junk), k) = bs[k - m_position]
  <2>1. PICK h \in 1 .. Len(bs) : h = k - p
    BY <1>6, <1>11
  <2>2. h \in hits(i, j)
    BY <1>6, <1>9, <2>1
  <2>3. PICK g : g = CHOOSE x \in hits(i, j) : TRUE
    OBVIOUS
  <2>4. g \in hits(i, j)
    BY <2>2, <2>3
  <2>5. g \in 1 .. Len(bs) /\ p + g = k
    BY <1>9, <1>10, <2>4
  <2>6. g = k - m_position
    BY <1>6, <2>5
  <2>. QED  BY <1>8, <2>2, <2>3, <2>6
<1>12. ASSUME k <= m_capacity, k <= m_position \/ k > m_position + Len(bs)
       PROVE  Cell(Filled(bs, n, junk), k) = Cell(blocks, k)
  <2>1. hits(i, j) = {}
    <3> SUFFICES ASSUME NEW h \in hits(i, j) PROVE FALSE
      OBVIOUS
    <3>1. h \in 1 .. Len(bs) /\ p + h = k
      BY <1>9, <1>10
    <3>. QED  BY <1>6, <1>12, <3>1
  <2>2. i \in 1 .. Len(blocks)
    BY <1>6, <1>7, <1>12, Sizes, CellPlace
  <2>3. grown[i] = blocks[i]
    BY <1>4, <2>2
  <2>. QED  BY <1>7, <1>8, <2>1, <2>3 DEF Cell
<1>. QED  BY <1>11, <1>12

\* What read() and getReadBuffers() find is what is in the blocks behind the position.
LEMMA AheadCells ==
  ASSUME TypeOK, CursorRight
  PROVE  /\ Ahead \in Seq(Byte)
         /\ Len(Ahead) = m_size - m_position
         /\ \A k \in 1 .. m_size - m_position : Ahead[k] = Cell(blocks, m_position + k)
<1>1. PICK L \in Nat, p \in Nat, s \in Nat :
         L = Len(blocks) /\ p = m_position /\ s = m_size /\ p <= s /\ s <= L * m_baseSize
  BY Sizes
<1>2. ASSUME NEW k \in 1 .. s - p
      PROVE  Ahead[k] = Cell(blocks, p + k) /\ Ahead[k] \in Byte
  <2>1. m_position # m_capacity
    BY <1>1, Sizes
  <2>2. m_cur = p \div m_baseSize + 1
    BY <1>1, <2>1 DEF CursorRight
  <2>3. k \in Nat \ {0} /\ p + k \in Nat \ {0} /\ p + k <= L * m_baseSize
    BY <1>1, BaseSize
  <2>4. CellBlock(m_cur, k) = (p + k - 1) \div m_baseSize + 1
    BY <1>1, <2>2, <2>3, CellWalk DEF CellBlock
  <2>5. CellOffset(k) = ((p + k - 1) % m_baseSize) + 1
    BY <1>1, <2>3, CellWalk DEF CellOffset
  <2>6. Ahead[k] = Cell(blocks, p + k)
    BY <1>1, <2>4, <2>5 DEF Ahead, Cell
  <2>7. Cell(blocks, p + k) \in Byte
    BY <1>1, <2>3, Sizes, CellType
  <2>. QED  BY <2>6, <2>7
<1>3. Ahead \in [1 .. s - p -> Byte]
  BY <1>1, <1>2 DEF Ahead
<1>4. s - p \in Nat
  BY <1>1
<1>. QED  BY <1>1, <1>2, <1>3, <1>4, SeqDef

-----------------------------------------------------------------------------
(* One lemma for each kind of call: types, the cursor, and the bytes.       *)

\* The walks of write() and read() come to the block setPosition() would find.
LEMMA MovedIsAt ==
  ASSUME TypeOK, NEW n \in Nat, NEW list
  PROVE  CursorMoved(m_position \div m_baseSize + 1, n, list) = CursorAt(m_position + n, list)
<1>1. PICK p \in Nat : p = m_position
  BY Sizes
<1>2. (p + n) \div m_baseSize = (p \div m_baseSize) + (((p % m_baseSize) + n) \div m_baseSize)
  BY BaseSize, DivModShift
<1>3. PICK q \in Nat, r \in Nat : q = p \div m_baseSize /\ r = p % m_baseSize
  BY PlaceType
<1>4. PICK t \in Nat : t = (r + n) \div m_baseSize
  BY PlaceType, r + n \in Nat
<1>5. (q + 1) + t = (q + t) + 1
  OBVIOUS
<1>6. m_position \div m_baseSize + 1 + ((m_position % m_baseSize) + n) \div m_baseSize
        = (m_position + n) \div m_baseSize + 1
  BY <1>1, <1>2, <1>3, <1>4, <1>5
<1>. QED  BY <1>6 DEF CursorMoved, CursorAt

\* A cursor that setPosition() would find is right, in a state with right sizes.
LEMMA Rebuilt ==
  ASSUME NEW list \in Seq(Block), NEW p \in Nat, NEW s \in Nat, p <= s,
         s <= Len(list) * m_baseSize,
         blocks' = list, m_position' = p, m_size' = s,
         m_capacity' = Len(list) * m_baseSize,
         m_cur' = CursorAt(p, list),
         m_endian' \in {"big", "little"}, alive' \in BOOLEAN
  PROVE  TypeOK' /\ CursorRight'
<1>1. Len(list) \in Nat /\ m_baseSize \in Nat \ {0}
  BY BaseSize
<1>2. PICK c \in Nat : c = Len(list) * m_baseSize
  BY <1>1
<1>3. p <= c
  BY <1>2
<1>4. m_cur' = IF p = c THEN Null ELSE p \div m_baseSize + 1
  BY <1>2, <1>3, CursorForm
<1>5. CursorRight'
  BY <1>2, <1>4 DEF CursorRight
<1>6. p # c => p \div m_baseSize + 1 \in 1 .. Len(list)
  <2>1. p \div m_baseSize \in Nat /\ (p \div m_baseSize + 1 > Len(list) <=> p = c)
    BY <1>1, <1>2, <1>3, PositionBlock
  <2>2. PICK x \in Nat : x = p \div m_baseSize
    BY <2>1
  <2>. QED  BY <1>1, <2>1, <2>2
<1>7. m_cur' \in 0 .. Len(list)
  BY <1>1, <1>4, <1>6 DEF Null
<1>8. TypeOK'
  BY <1>2, <1>7 DEF TypeOK, Block
<1>. QED  BY <1>5, <1>8

\* A call that puts bs at the position: what becomes of the bytes.
PutsAt(bs) ==
    /\ m_position' = m_position + Len(bs)
    /\ m_size' = IF m_position' > m_size THEN m_position' ELSE m_size
    /\ Len(blocks') >= Len(blocks)
    /\ \A k \in 1 .. m_size' :
          /\ k > m_position /\ k <= m_position + Len(bs) => Cell(blocks', k) = bs[k - m_position]
          /\ k <= m_size /\ (k <= m_position \/ k > m_position + Len(bs))
                => Cell(blocks', k) = Cell(blocks, k)

LEMMA FilledPuts ==
  ASSUME TypeOK, CursorRight, NEW n \in Nat \ {0}, NEW bs \in Seq(Byte), Len(bs) <= n,
         NEW junk \in Garbage, blocks' = Filled(bs, n, junk),
         m_position' = m_position + Len(bs),
         m_size' = IF m_position' > m_size THEN m_position' ELSE m_size,
         m_capacity' = m_capacity + BlocksNeeded(n) * m_baseSize,
         m_cur' = CursorAt(m_position', blocks'),
         UNCHANGED <<m_endian, alive>>
  PROVE  TypeOK' /\ CursorRight' /\ PutsAt(bs)
<1>1. junk \in Byte
  BY ByteArrayAssumption
<1>2. PICK list \in Seq(Block) : list = Filled(bs, n, junk) /\ Len(list) = Len(blocks) + BlocksNeeded(n)
  BY <1>1, FilledType
<1>3. PICK p \in Nat, s \in Nat, c \in Nat, l \in Nat :
         p = m_position /\ s = m_size /\ c = m_capacity /\ l = Len(bs) /\ p <= s /\ s <= c
  BY Sizes, Len(bs) \in Nat
<1>4. PICK d \in Nat : d = Len(list) * m_baseSize
  BY BaseSize, Len(list) \in Nat
<1>5. d = (Len(blocks) + BlocksNeeded(n)) * m_baseSize /\ d = m_capacity'
  BY <1>2, <1>4, GrowthRoom
<1>6. p + n <= d /\ c <= d
  <2>1. m_position + n <= (Len(blocks) + BlocksNeeded(n)) * m_baseSize
    BY GrowthRoom
  <2>2. PICK x \in Nat : x = BlocksNeeded(n) * m_baseSize
    BY GrowthRoom, BaseSize
  <2>3. c <= d
    BY <1>3, <1>5, <2>2
  <2>. QED  BY <1>3, <1>5, <2>1, <2>3
<1>7. PICK t \in Nat : t = m_size' /\ p + l <= t /\ t <= d
  BY <1>3, <1>6
<1>8. TypeOK' /\ CursorRight'
  <2>1. p + l \in Nat /\ m_position' = p + l /\ blocks' = list
    BY <1>2, <1>3
  <2>2. m_endian' \in {"big", "little"} /\ alive' \in BOOLEAN
    BY DEF TypeOK
  <2>. QED  BY <1>4, <1>5, <1>7, <2>1, <2>2, Rebuilt
<1>9. ASSUME NEW k \in 1 .. m_size'
      PROVE  /\ k > m_position /\ k <= m_position + Len(bs) => Cell(blocks', k) = bs[k - m_position]
             /\ k <= m_size /\ (k <= m_position \/ k > m_position + Len(bs))
                  => Cell(blocks', k) = Cell(blocks, k)
  <2>1. k \in Nat \ {0} /\ k <= d
    BY <1>7
  <2>2. k <= (Len(blocks) + BlocksNeeded(n)) * m_baseSize
    BY <1>5, <2>1
  <2>3. k <= m_size => k <= m_capacity
    BY <1>3, <2>1
  <2>. QED  BY <1>1, <2>1, <2>2, <2>3, FilledCells
<1>10. Len(blocks') >= Len(blocks)
  <2>1. Len(blocks) \in Nat /\ BlocksNeeded(n) \in Nat
    BY Sizes, GrowthRoom
  <2>. QED  BY <1>2, <2>1
<1>. QED  BY <1>8, <1>9, <1>10 DEF PutsAt

LEMMA WriteOK ==
  ASSUME TypeOK, CursorRight, NEW bs \in Seq(Byte), Write(bs)
  PROVE  TypeOK' /\ CursorRight' /\ PutsAt(bs)
<1>1. PICK n \in Nat \ {0} : n = Len(bs)
  BY DEF Write
<1>2. PICK junk \in Garbage : blocks' = Filled(bs, n, junk)
  BY <1>1 DEF Write
<1>3. m_cur' = CursorAt(m_position', blocks')
  <2>1. m_cur' = CursorMoved(CursorAfterGrowth(n), n, blocks')
    BY <1>1 DEF Write
  <2>2. CursorAfterGrowth(n) = m_position \div m_baseSize + 1
    BY GrowthCursor
  <2>3. CursorMoved(m_position \div m_baseSize + 1, n, blocks') = CursorAt(m_position + n, blocks')
    BY MovedIsAt
  <2>4. m_position' = m_position + n
    BY <1>1 DEF Write
  <2>. QED  BY <2>1, <2>2, <2>3, <2>4
<1>4. /\ m_position' = m_position + Len(bs)
      /\ m_size' = IF m_position' > m_size THEN m_position' ELSE m_size
      /\ m_capacity' = m_capacity + BlocksNeeded(n) * m_baseSize
      /\ UNCHANGED <<m_endian, alive>>
  BY <1>1 DEF Write
<1>. QED  BY <1>1, <1>2, <1>3, <1>4, FilledPuts

LEMMA ReceiveOK ==
  ASSUME TypeOK, CursorRight, NEW n \in Nat, NEW bs \in Seq(Byte), Receive(n, bs)
  PROVE  TypeOK' /\ CursorRight' /\ PutsAt(bs)
<1>1. n \in Nat \ {0} /\ Len(bs) <= n
  BY DEF Receive
<1>2. PICK junk \in Garbage : blocks' = Filled(bs, n, junk)
  BY DEF Receive
<1>3. /\ m_position' = m_position + Len(bs)
      /\ m_size' = IF m_position' > m_size THEN m_position' ELSE m_size
      /\ m_capacity' = m_capacity + BlocksNeeded(n) * m_baseSize
      /\ UNCHANGED <<m_endian, alive>>
  BY DEF Receive
<1>4. m_cur' = CursorAt(m_position', blocks')
  <2>1. CASE bs = <<>>
    <3>1. m_cur' = m_position \div m_baseSize + 1
      BY <1>1, <2>1, GrowthCursor DEF Receive
    <3>2. m_position' = m_position /\ m_position \in Nat
      BY <1>3, <2>1, Sizes
    <3>3. Len(blocks') = Len(blocks) + BlocksNeeded(n) /\ blocks' \in Seq(Block)
      BY <1>1, <1>2, FilledType, ByteArrayAssumption
    <3>4. m_position + n <= Len(blocks') * m_baseSize
      BY <1>1, <3>3, GrowthRoom
    <3>5. PICK d \in Nat : d = Len(blocks') * m_baseSize
      BY <3>3, BaseSize
    <3>6. m_position <= d /\ m_position # d
      BY <1>1, <3>2, <3>4, <3>5
    <3>. QED  BY <3>1, <3>2, <3>3, <3>5, <3>6, CursorForm
  <2>2. CASE bs # <<>>
    BY <2>2 DEF Receive
  <2>. QED  BY <2>1, <2>2
<1>. QED  BY <1>1, <1>2, <1>3, <1>4, FilledPuts

\* A call that takes n bytes at the position, as read() and send() do.
TakesAt(n) ==
    /\ n \in 0 .. m_size - m_position
    /\ m_position' = m_position + n
    /\ taken' = SubSeq(Ahead, 1, n)
    /\ UNCHANGED <<blocks, m_size>>

LEMMA MoveOn ==
  ASSUME TypeOK, NEW v \in Nat, NEW s \in Nat, v <= s, s <= m_capacity,
         m_position' = v, m_size' = s, m_cur' = CursorAt(v, blocks),
         UNCHANGED <<blocks, m_capacity>>,
         m_endian' \in {"big", "little"}, alive' \in BOOLEAN
  PROVE  TypeOK' /\ CursorRight'
<1>1. PICK list \in Seq(Block) : list = blocks
  BY Sizes
<1>2. m_capacity' = Len(list) * m_baseSize /\ s <= Len(list) * m_baseSize
  BY <1>1, Sizes
<1>3. blocks' = list /\ m_cur' = CursorAt(v, list)
  BY <1>1
<1>. QED  BY <1>2, <1>3, Rebuilt

LEMMA ConsumeOK ==
  ASSUME TypeOK, CursorRight, NEW n \in 1 .. Len(Ahead), Consume(n)
  PROVE  TypeOK' /\ CursorRight' /\ TakesAt(n)
<1>1. PICK p \in Nat, s \in Nat, c \in Nat :
         p = m_position /\ s = m_size /\ c = m_capacity /\ p <= s /\ s <= c
  BY Sizes
<1>2. Len(Ahead) = s - p
  BY <1>1, AheadCells
<1>3. n \in Nat \ {0} /\ p + n <= s /\ p # c
  BY <1>1, <1>2
<1>4. m_cur = m_position \div m_baseSize + 1
  BY <1>1, <1>3 DEF CursorRight
<1>5. m_cur' = CursorAt(p + n, blocks)
  <2>1. m_cur' = CursorMoved(m_cur, n, blocks)
    BY DEF Consume
  <2>2. CursorMoved(m_position \div m_baseSize + 1, n, blocks) = CursorAt(m_position + n, blocks)
    BY <1>3, MovedIsAt
  <2>. QED  BY <1>1, <1>4, <2>1, <2>2
<1>6. m_position' = p + n /\ m_size' = s /\ UNCHANGED <<blocks, m_capacity>> /\ p + n \in Nat
  BY <1>1, <1>3 DEF Consume
<1>7. m_endian' \in {"big", "little"} /\ alive' \in BOOLEAN
  BY DEF Consume, TypeOK
<1>8. TypeOK' /\ CursorRight'
  BY <1>1, <1>3, <1>5, <1>6, <1>7, MoveOn
<1>9. TakesAt(n)
  BY <1>1, <1>3 DEF TakesAt, Consume
<1>. QED  BY <1>8, <1>9

LEMMA SendOK ==
  ASSUME TypeOK, CursorRight, NEW n \in Nat, Send(n)
  PROVE  TypeOK' /\ CursorRight' /\ TakesAt(n)
<1>1. PICK p \in Nat, s \in Nat, c \in Nat :
         p = m_position /\ s = m_size /\ c = m_capacity /\ p <= s /\ s <= c
  BY Sizes
<1>2. n <= s - p
  BY <1>1, AheadCells DEF Send
<1>3. p + n \in Nat /\ p + n <= s
  BY <1>1, <1>2
<1>4. m_position' = p + n /\ m_size' = s /\ UNCHANGED <<blocks, m_capacity>>
      /\ m_cur' = CursorAt(p + n, blocks)
  BY <1>1 DEF Send
<1>5. m_endian' \in {"big", "little"} /\ alive' \in BOOLEAN
  BY DEF Send, TypeOK
<1>6. TypeOK' /\ CursorRight'
  BY <1>1, <1>3, <1>4, <1>5, MoveOn
<1>7. TakesAt(n)
  BY <1>1, <1>2 DEF TakesAt, Send
<1>. QED  BY <1>6, <1>7

LEMMA SetPositionOK ==
  ASSUME TypeOK, CursorRight, NEW v \in Nat, SetPosition(v)
  PROVE  TypeOK' /\ CursorRight'
<1>1. PICK s \in Nat, c \in Nat : s = m_size /\ c = m_capacity /\ s <= c
  BY Sizes
<1>2. PICK t \in Nat : t = m_size' /\ v <= t /\ t <= c
  BY <1>1 DEF SetPosition
<1>3. m_position' = v /\ UNCHANGED <<blocks, m_capacity>> /\ m_cur' = CursorAt(v, blocks)
  BY DEF SetPosition
<1>4. m_endian' \in {"big", "little"} /\ alive' \in BOOLEAN
  BY DEF SetPosition, TypeOK
<1>. QED  BY <1>1, <1>2, <1>3, <1>4, MoveOn

\* There is always a first block.
LEMMA ClearOK ==
  ASSUME TypeOK, CursorRight, Clear, Len(blocks) >= 1
  PROVE  TypeOK' /\ CursorRight' /\ Len(blocks') >= 1
<1>1. PICK list \in Seq(Block) : list = blocks /\ Len(list) >= 1
  BY Sizes
<1>2. PICK one \in Seq(Block) : one = SubSeq(list, 1, 1) /\ Len(one) = 1
  <2>1. Len(list) >= 1
    BY <1>1
  <2>2. SubSeq(list, 1, 1) \in Seq(Block) /\ Len(SubSeq(list, 1, 1)) = 1
    BY <2>1
  <2>. QED  BY <2>2
<1>3. blocks' = one /\ m_position' = 0 /\ m_size' = 0 /\ m_cur' = 1 /\ m_capacity' = m_baseSize
  BY <1>1, <1>2 DEF Clear
<1>4. Len(one) * m_baseSize = m_baseSize /\ 0 <= m_baseSize
  BY <1>2, BaseSize
<1>5. CursorAt(0, one) = 1
  <2>1. 0 \div m_baseSize = 0
    BY BaseSize
  <2>. QED  BY <1>2, <2>1 DEF CursorAt
<1>6. m_endian' \in {"big", "little"} /\ alive' \in BOOLEAN
  BY DEF Clear, TypeOK
<1>7. TypeOK' /\ CursorRight'
  <2>1. m_cur' = CursorAt(0, one) /\ m_capacity' = Len(one) * m_baseSize
        /\ 0 <= Len(one) * m_baseSize
    BY <1>3, <1>4, <1>5
  <2>. QED  BY <1>3, <1>6, <2>1, Rebuilt
<1>. QED  BY <1>2, <1>3, <1>7

LEMMA InitOK ==
  ASSUME Init
  PROVE  TypeOK /\ CursorRight /\ Len(blocks) >= 1
<1>1. PICK junk \in Garbage : blocks = <<NewBlock(junk)>>
  BY DEF Init
<1>2. NewBlock(junk) \in Block
  BY ByteArrayAssumption DEF NewBlock, Block
<1>3. blocks \in Seq(Block) /\ Len(blocks) = 1
  BY <1>1, <1>2
<1>4. m_baseSize \in Nat \ {0} /\ 1 * m_baseSize = m_baseSize /\ 0 \div m_baseSize = 0
  BY BaseSize
<1>5. TypeOK
  BY <1>3, <1>4 DEF Init, TypeOK, Block
<1>6. CursorRight
  BY <1>4 DEF Init, CursorRight
<1>. QED  BY <1>3, <1>5, <1>6

-----------------------------------------------------------------------------
(* Codes, and reading them back.                                            *)

LEMMA ZigzagBack ==
  ASSUME NEW v \in Ints
  PROVE  EncodeZigzag(v) \in 0 .. Pow2[Width] - 1 /\ DecodeZigzag(EncodeZigzag(v)) = v
<1>1. Width - 1 \in Nat /\ (Width - 1) + 1 = Width
  BY ByteArrayAssumption
<1>2. PICK h \in Nat \ {0} : h = Pow2[Width - 1]
  BY <1>1, Pow2Positive
<1>3. Pow2[Width] = 2 * h
  BY <1>1, <1>2, Pow2Def
<1>4. v \in -h .. h - 1
  BY <1>2, ByteArrayAssumption
<1>5. CASE v < 0
  <2>1. PICK x \in Nat : x = (-v) * 2 - 1 /\ x < 2 * h /\ x % 2 = 1 /\ x \div 2 = -v - 1
    BY <1>4, <1>5
  <2>2. EncodeZigzag(v) = x % (2 * h)
    BY <1>3, <1>5, <2>1 DEF EncodeZigzag
  <2>3. EncodeZigzag(v) = x
    BY <2>1, <2>2
  <2>. QED  BY <1>3, <1>4, <2>1, <2>3 DEF DecodeZigzag
<1>6. CASE ~(v < 0)
  <2>1. PICK x \in Nat : x = v * 2 /\ x < 2 * h /\ x % 2 = 0 /\ x \div 2 = v
    BY <1>4, <1>6
  <2>2. EncodeZigzag(v) = x % (2 * h)
    BY <1>3, <1>6, <2>1 DEF EncodeZigzag
  <2>3. EncodeZigzag(v) = x
    BY <2>1, <2>2
  <2>. QED  BY <1>3, <1>4, <2>1, <2>3 DEF DecodeZigzag
<1>. QED  BY <1>5, <1>6

\* The two bytes of a number, in the byte order e.
FixedCode(v, e) ==
    IF e = "big" THEN <<v \div (2 * Group), v % (2 * Group)>>
    ELSE <<v % (2 * Group), v \div (2 * Group)>>

LEMMA FixedForm ==
  ASSUME NEW v
  PROVE  Fixed(v) = FixedCode(v, m_endian)
<1>1. ASSUME NEW x, NEW y
      PROVE  Reversed(<<x, y>>) = <<y, x>>
  <2>1. DOMAIN <<x, y>> = 1 .. 2 /\ Len(<<x, y>>) = 2
    OBVIOUS
  <2>2. \A i \in 1 .. 2 : <<x, y>>[3 - i] = <<y, x>>[i]
    OBVIOUS
  <2>. QED  BY <2>1, <2>2 DEF Reversed
<1>. QED  BY <1>1 DEF Fixed, FixedCode, Swapped

LEMMA FixedType ==
  ASSUME NEW v \in Fixeds, NEW e
  PROVE  FixedCode(v, e) \in Seq(Byte) /\ Len(FixedCode(v, e)) = 2
<1>1. PICK g \in Nat \ {0} : g = 2 * Group
  BY GroupType
<1>2. v \in 0 .. g * g - 1
  BY <1>1, ByteArrayAssumption
<1>3. v \in Nat /\ v < g * g
  BY <1>1, <1>2
<1>4. PICK q \in Nat, r \in Nat : v = g * q + r /\ r < g /\ v \div g = q /\ v % g = r
  BY <1>1, <1>3, DivModPick
<1>5. g * q < g * g
  BY <1>1, <1>3, <1>4
<1>6. q < g
  BY <1>1, <1>5, ProductMono
<1>7. q \in Byte /\ r \in Byte
  BY <1>1, <1>4, <1>6, GroupType DEF Byte
<1>. QED  BY <1>1, <1>4, <1>7 DEF FixedCode

LEMMA FixedBack ==
  ASSUME NEW v \in Fixeds, NEW s \in Seq(Byte), Len(s) = 2,
         \A k \in 1 .. 2 : s[k] = FixedCode(v, m_endian)[k]
  PROVE  Unfixed(s) = v
<1>1. PICK g \in Nat \ {0} : g = 2 * Group
  BY GroupType
<1>2. v \in Nat
  BY <1>1, ByteArrayAssumption
<1>3. PICK q \in Nat, r \in Nat : v = g * q + r /\ v \div g = q /\ v % g = r
  BY <1>1, <1>2, DivModPick
<1>4. DOMAIN s = 1 .. 2
  OBVIOUS
<1>5. Swapped(s)[1] = r /\ Swapped(s)[2] = q
  <2>1. CASE m_endian = "big"
    <3>1. s[1] = q /\ s[2] = r
      BY <1>1, <1>3, <2>1 DEF FixedCode
    <3>2. Swapped(s) = [i \in 1 .. 2 |-> s[2 + 1 - i]]
      BY <1>4, <2>1 DEF Swapped, Reversed
    <3>. QED  BY <3>1, <3>2
  <2>2. CASE m_endian # "big"
    BY <1>1, <1>3, <2>2 DEF FixedCode, Swapped
  <2>. QED  BY <2>1, <2>2
<1>6. Unfixed(s) = r + q * 2 * Group
  BY <1>5 DEF Unfixed
<1>7. q * 2 * Group = g * q
  BY <1>1, GroupType
<1>8. g * q \in Nat
  BY <1>1
<1>. QED  BY <1>3, <1>6, <1>7, <1>8

LEMMA VarintLenType ==
  ASSUME NEW s \in Seq(Byte), VarintEnds(s) # {}
  PROVE  /\ VarintLen(s) \in VarintEnds(s)
         /\ \A k \in VarintEnds(s) : VarintLen(s) <= k
         /\ VarintLen(s) \in 1 .. Len(s)
<1>1. VarintEnds(s) \subseteq Nat /\ VarintEnds(s) \subseteq 1 .. Len(s)
  BY MaxGroupsEnough, Len(s) \in Nat DEF VarintEnds
<1>2. PICK n \in VarintEnds(s) : \A k \in VarintEnds(s) : n <= k
  BY <1>1, LeastNat
<1>3. VarintLen(s) \in VarintEnds(s) /\ \A k \in VarintEnds(s) : VarintLen(s) <= k
  BY <1>2 DEF VarintLen
<1>. QED  BY <1>1, <1>3

\* Bytes that begin with the code of v are read as v, and no more are taken.
LEMMA VarintHead ==
  ASSUME NEW s \in Seq(Byte), NEW v \in 0 .. Pow2[Width] - 1, Len(Varint(v)) <= Len(s),
         \A k \in 1 .. Len(Varint(v)) : s[k] = Varint(v)[k]
  PROVE  /\ VarintEnds(s) # {}
         /\ VarintLen(s) = Len(Varint(v))
         /\ Unvarint(SubSeq(s, 1, VarintLen(s))) = v
<1>1. PICK c \in Seq(Byte) : c = Varint(v) /\ Len(c) \in 1 .. MaxGroups
  BY VarintType
<1>2. \A i \in 1 .. Len(c) : c[i] < Group <=> i = Len(c)
  BY <1>1, VarintType
<1>3. PICK n \in Nat \ {0} : n = Len(c) /\ n <= Len(s) /\ n \in 1 .. MaxGroups
  BY <1>1
<1>4. s[n] < Group
  BY <1>1, <1>2, <1>3
<1>5. n \in VarintEnds(s)
  BY <1>3, <1>4 DEF VarintEnds
<1>6. PICK l \in Nat : l = VarintLen(s) /\ l \in VarintEnds(s) /\ l <= n /\ l >= 1
  BY <1>5, VarintLenType
<1>7. l = n
  <2> SUFFICES ASSUME l # n PROVE FALSE
    OBVIOUS
  <2>1. l \in 1 .. n - 1 /\ l \in 1 .. Len(c) /\ l # Len(c)
    BY <1>3, <1>6
  <2>2. ~(s[l] < Group)
    BY <1>1, <1>2, <2>1
  <2>3. l # MaxGroups
    BY <1>3, <2>1, MaxGroupsEnough
  <2>. QED  BY <1>6, <2>2, <2>3 DEF VarintEnds
<1>8. SubSeq(s, 1, n) = c
  <2>1. SubSeq(s, 1, n) \in Seq(Byte) /\ Len(SubSeq(s, 1, n)) = n
        /\ \A i \in 1 .. n : SubSeq(s, 1, n)[i] = s[i]
    BY <1>3
  <2>2. \A i \in 1 .. n : SubSeq(s, 1, n)[i] = c[i]
    BY <1>1, <1>3, <2>1
  <2>3. PICK t \in Seq(Byte) : t = SubSeq(s, 1, n)
    BY <2>1
  <2>4. t = c
    BY <1>3, <2>1, <2>2, <2>3, SeqEqual
  <2>. QED  BY <2>3, <2>4
<1>. QED  BY <1>1, <1>3, <1>5, <1>6, <1>7, <1>8, UnvarintVarint

-----------------------------------------------------------------------------
(* The inductive invariant: the cursor is right, and every value written    *)
(* and not overwritten is in the blocks, byte for byte.                     *)

HasCode(item, c) ==
    \/ item.kind = "uint" /\ item.value \in Uints /\ c = Varint(item.value)
    \/ item.kind = "int" /\ item.value \in Ints /\ c = Varint(EncodeZigzag(item.value))
    \/ item.kind = "fixed" /\ item.value \in Fixeds /\ c = FixedCode(item.value, item.endian)
    \/ item.kind = "string" /\ item.value \in Texts /\ c = Varint(Len(item.value)) \o item.value

StoredAs(item, c, list, size) ==
    /\ c \in Seq(Byte) /\ HasCode(item, c)
    /\ item.at \in Nat /\ item.len = Len(c)
    /\ item.at + item.len <= size
    /\ \A k \in 1 .. Len(c) : Cell(list, item.at + k) = c[k]

ItemInv == \A item \in items : \E c : StoredAs(item, c, blocks, m_size)

Inv == TypeOK /\ CursorRight /\ Len(blocks) >= 1 /\ ItemInv /\ ReadsBack

\* What a call does not overwrite stays.
LEMMA KeptStored ==
  ASSUME TypeOK, NEW bs \in Seq(Byte), PutsAt(bs),
         NEW item \in Kept(m_position, Len(bs)), NEW c, StoredAs(item, c, blocks, m_size)
  PROVE  StoredAs(item, c, blocks', m_size')
<1>1. PICK p \in Nat, s \in Nat, n \in Nat : p = m_position /\ s = m_size /\ n = Len(bs)
  BY Sizes, Len(bs) \in Nat
<1>2. PICK a \in Nat, l \in Nat : a = item.at /\ l = item.len /\ l = Len(c) /\ a + l <= s
  BY <1>1 DEF StoredAs
<1>3. PICK t \in Nat : t = m_size' /\ s <= t
  BY <1>1 DEF PutsAt
<1>4. a >= p + n \/ p >= a + l
  <2>1. ~Overlaps(item, m_position, Len(bs))
    BY DEF Kept
  <2>2. ~(a < p + n /\ p < a + l)
    BY <1>1, <1>2, <2>1 DEF Overlaps
  <2>. QED  BY <2>2
<1>5. ASSUME NEW k \in 1 .. l
      PROVE  Cell(blocks', a + k) = c[k]
  <2>1. a + k \in 1 .. t /\ a + k <= s /\ (a + k <= p \/ a + k > p + n)
    BY <1>2, <1>3, <1>4
  <2>2. Cell(blocks', a + k) = Cell(blocks, a + k)
    BY <1>1, <1>3, <2>1 DEF PutsAt
  <2>3. Cell(blocks, a + k) = c[k]
    BY <1>2 DEF StoredAs
  <2>. QED  BY <2>2, <2>3
<1>6. a + l <= t
  BY <1>2, <1>3
<1>. QED  BY <1>2, <1>3, <1>5, <1>6 DEF StoredAs

LEMMA NewStored ==
  ASSUME TypeOK, NEW c \in Seq(Byte), PutsAt(c), NEW item, HasCode(item, c),
         item.at = m_position, item.len = Len(c)
  PROVE  StoredAs(item, c, blocks', m_size')
<1>1. PICK p \in Nat, s \in Nat, n \in Nat : p = m_position /\ s = m_size /\ n = Len(c)
  BY Sizes, Len(c) \in Nat
<1>2. PICK t \in Nat : t = m_size' /\ p + n <= t
  BY <1>1 DEF PutsAt
<1>3. ASSUME NEW k \in 1 .. n
      PROVE  Cell(blocks', p + k) = c[k]
  <2>1. p + k \in 1 .. t /\ p + k > p /\ p + k <= p + n /\ (p + k) - p = k
    BY <1>2
  <2>2. Cell(blocks', p + k) = c[(p + k) - p]
    BY <1>1, <1>2, <2>1 DEF PutsAt
  <2>. QED  BY <2>1, <2>2
<1>. QED  BY <1>1, <1>2, <1>3 DEF StoredAs

\* A call that puts bytes, and records a value or none.
LEMMA PutInv ==
  ASSUME Inv, NEW bs \in Seq(Byte), TypeOK', CursorRight', PutsAt(bs), got' = Nothing,
         \A item \in items' :
            \/ item \in Kept(m_position, Len(bs))
            \/ HasCode(item, bs) /\ item.at = m_position /\ item.len = Len(bs)
  PROVE  Inv'
<1>1. ItemInv'
  <2>1. ASSUME NEW item \in items' PROVE \E c : StoredAs(item, c, blocks', m_size')
    <3>1. CASE item \in Kept(m_position, Len(bs))
      <4>1. PICK c : StoredAs(item, c, blocks, m_size)
        BY <3>1 DEF Inv, ItemInv, Kept
      <4>2. StoredAs(item, c, blocks', m_size')
        BY <3>1, <4>1, KeptStored DEF Inv
      <4>. QED  BY <4>2
    <3>2. CASE HasCode(item, bs) /\ item.at = m_position /\ item.len = Len(bs)
      <4>1. StoredAs(item, bs, blocks', m_size')
        BY <3>2, NewStored DEF Inv
      <4>. QED  BY <4>1
    <3>. QED  BY <3>1, <3>2
  <2>. QED  BY <2>1 DEF ItemInv
<1>2. ReadsBack'
  BY DEF ReadsBack
<1>3. Len(blocks') >= 1
  <2>1. Len(blocks) \in Nat /\ Len(blocks') \in Nat
    BY DEF Inv, TypeOK
  <2>. QED  BY <2>1 DEF Inv, PutsAt
<1>. QED  BY <1>1, <1>2, <1>3 DEF Inv

\* A value whose place is at the position is what lies ahead.
LEMMA ItemAhead ==
  ASSUME TypeOK, CursorRight, NEW item, NEW c, StoredAs(item, c, blocks, m_size),
         item.at = m_position
  PROVE  Len(c) <= Len(Ahead) /\ \A k \in 1 .. Len(c) : Ahead[k] = c[k]
<1>1. PICK p \in Nat, s \in Nat, n \in Nat :
         p = m_position /\ s = m_size /\ n = Len(c) /\ p <= s /\ p + n <= s
  BY Sizes, Len(c) \in Nat DEF StoredAs
<1>2. Len(Ahead) = s - p
  BY <1>1, AheadCells
<1>3. ASSUME NEW k \in 1 .. n
      PROVE  Ahead[k] = c[k]
  <2>1. k \in 1 .. s - p
    BY <1>1
  <2>2. Ahead[k] = Cell(blocks, p + k)
    BY <1>1, <2>1, AheadCells
  <2>3. Cell(blocks, p + k) = c[k]
    BY <1>1 DEF StoredAs
  <2>. QED  BY <2>2, <2>3
<1>. QED  BY <1>1, <1>2, <1>3

\* A call that takes bytes: nothing is lost, and what it returns must be shown.
LEMMA TakeInv ==
  ASSUME Inv, NEW n, TypeOK', CursorRight', TakesAt(n), UNCHANGED items, ReadsBack'
  PROVE  Inv'
<1>1. UNCHANGED <<blocks, m_size, items>>
  BY DEF TakesAt
<1>2. ItemInv'
  BY <1>1 DEF Inv, ItemInv
<1>. QED  BY <1>1, <1>2 DEF Inv

LEMMA ReadVarintInv ==
  ASSUME Inv, NEW kind \in {"uint", "int"}, ReadVarint(kind)
  PROVE  Inv' /\ \E n : TakesAt(n)
<1>1. TypeOK /\ CursorRight
  BY DEF Inv
<1>2. PICK s \in Seq(Byte) : s = Ahead
  BY <1>1, AheadCells
<1>3. CASE VarintEnds(s) # {} /\ Consume(VarintLen(s))
           /\ LET v == Unvarint(SubSeq(s, 1, VarintLen(s)))
              IN  Return(kind, IF kind = "int" THEN DecodeZigzag(v) ELSE v)
  <2>1. VarintLen(s) \in 1 .. Len(s)
    BY <1>3, VarintLenType
  <2>2. TypeOK' /\ CursorRight' /\ TakesAt(VarintLen(s))
    BY <1>1, <1>2, <1>3, <2>1, ConsumeOK
  <2>3. UNCHANGED items
    BY <1>3 DEF Consume
  <2>4. PICK v : v = Unvarint(SubSeq(s, 1, VarintLen(s)))
    OBVIOUS
  <2>5. got' = [kind |-> kind, value |-> IF kind = "int" THEN DecodeZigzag(v) ELSE v,
                at |-> m_position, endian |-> m_endian]
    BY <1>3, <2>4 DEF Return
  <2>6. ASSUME NEW item \in items, m_position = item.at, kind = item.kind
        PROVE  (IF kind = "int" THEN DecodeZigzag(v) ELSE v) = item.value
    <3>1. PICK c : StoredAs(item, c, blocks, m_size)
      BY DEF Inv, ItemInv
    <3>2. Len(c) <= Len(s) /\ \A k \in 1 .. Len(c) : s[k] = c[k]
      BY <1>1, <1>2, <2>6, <3>1, ItemAhead
    <3>3. HasCode(item, c)
      BY <3>1 DEF StoredAs
    <3>4. CASE kind = "uint"
      <4>1. item.value \in Uints /\ c = Varint(item.value)
        BY <2>6, <3>3, <3>4 DEF HasCode
      <4>2. item.value \in 0 .. Pow2[Width] - 1
        BY <4>1, ByteArrayAssumption
      <4>3. v = item.value
        BY <2>4, <3>2, <4>1, <4>2, VarintHead
      <4>. QED  BY <3>4, <4>3
    <3>5. CASE kind = "int"
      <4>1. item.value \in Ints /\ c = Varint(EncodeZigzag(item.value))
        BY <2>6, <3>3, <3>5 DEF HasCode
      <4>2. EncodeZigzag(item.value) \in 0 .. Pow2[Width] - 1
            /\ DecodeZigzag(EncodeZigzag(item.value)) = item.value
        BY <4>1, ZigzagBack
      <4>3. v = EncodeZigzag(item.value)
        BY <2>4, <3>2, <4>1, <4>2, VarintHead
      <4>. QED  BY <3>5, <4>2, <4>3
    <3>. QED  BY <3>4, <3>5
  <2>7. ReadsBack'
    BY <2>3, <2>5, <2>6 DEF ReadsBack
  <2>. QED  BY <2>2, <2>3, <2>7, TakeInv
<1>4. CASE VarintEnds(s) = {} /\ s # <<>> /\ Consume(Len(s)) /\ got' = Nothing
  <2>1. Len(s) \in 1 .. Len(s)
    BY <1>4
  <2>2. TypeOK' /\ CursorRight' /\ TakesAt(Len(s))
    BY <1>1, <1>2, <1>4, <2>1, ConsumeOK
  <2>3. UNCHANGED items
    BY <1>4 DEF Consume
  <2>4. ReadsBack'
    BY <1>4 DEF ReadsBack
  <2>. QED  BY <2>2, <2>3, <2>4, TakeInv
<1>. QED  BY <1>2, <1>3, <1>4 DEF ReadVarint

LEMMA ReadFixedInv ==
  ASSUME Inv, ReadFixed
  PROVE  Inv' /\ \E n : TakesAt(n)
<1>1. TypeOK /\ CursorRight
  BY DEF Inv
<1>2. PICK s \in Seq(Byte) : s = Ahead /\ Len(s) >= 2
  BY <1>1, AheadCells DEF ReadFixed
<1>3. 2 \in 1 .. Len(s)
  BY <1>2
<1>4. TypeOK' /\ CursorRight' /\ TakesAt(2) /\ UNCHANGED items
  BY <1>1, <1>2, <1>3, ConsumeOK DEF ReadFixed, Consume
<1>5. PICK two \in Seq(Byte) : two = SubSeq(s, 1, 2) /\ Len(two) = 2
                                 /\ two[1] = s[1] /\ two[2] = s[2]
  <2>1. SubSeq(s, 1, 2) \in Seq(Byte) /\ Len(SubSeq(s, 1, 2)) = 2
        /\ SubSeq(s, 1, 2)[1] = s[1] /\ SubSeq(s, 1, 2)[2] = s[2]
    BY <1>2
  <2>. QED  BY <2>1
<1>6. got' = [kind |-> "fixed", value |-> Unfixed(two), at |-> m_position, endian |-> m_endian]
  BY <1>2, <1>5 DEF ReadFixed, Return
<1>7. ASSUME NEW item \in items, m_position = item.at, "fixed" = item.kind, m_endian = item.endian
      PROVE  Unfixed(two) = item.value
  <2>1. PICK c : StoredAs(item, c, blocks, m_size)
    BY DEF Inv, ItemInv
  <2>2. Len(c) <= Len(s) /\ \A k \in 1 .. Len(c) : s[k] = c[k]
    BY <1>1, <1>2, <1>7, <2>1, ItemAhead
  <2>3. item.value \in Fixeds /\ c = FixedCode(item.value, m_endian)
    BY <1>7, <2>1 DEF StoredAs, HasCode
  <2>4. Len(c) = 2
    BY <2>3, FixedType
  <2>5. \A k \in 1 .. 2 : two[k] = FixedCode(item.value, m_endian)[k]
    BY <1>5, <2>2, <2>3, <2>4
  <2>. QED  BY <1>5, <2>3, <2>5, FixedBack
<1>8. ReadsBack'
  BY <1>4, <1>6, <1>7 DEF ReadsBack
<1>. QED  BY <1>4, <1>8, TakeInv

LEMMA CrashInv ==
  ASSUME Inv, Crash
  PROVE  Inv'
<1>1. UNCHANGED <<blocks, m_cur, m_position, m_size, m_capacity, m_endian, got, items>>
      /\ alive' = FALSE
  BY DEF Crash, bufVars
<1>2. TypeOK' /\ CursorRight'
  BY <1>1 DEF Inv, TypeOK, CursorRight
<1>3. ItemInv' /\ ReadsBack'
  BY <1>1 DEF Inv, ItemInv, ReadsBack
<1>. QED  BY <1>1, <1>2, <1>3 DEF Inv

LEMMA ReadStringInv ==
  ASSUME Inv, ReadString
  PROVE  Inv' /\ ((\E n : TakesAt(n)) \/ Crash)
<1>1. TypeOK /\ CursorRight
  BY DEF Inv
<1>2. PICK s \in Seq(Byte) : s = Ahead
  BY <1>1, AheadCells
<1>3. VarintEnds(s) # {}
  BY <1>2 DEF ReadString
<1>4. PICK head \in Nat : head = VarintLen(s) /\ head \in 1 .. Len(s)
  BY <1>3, VarintLenType
<1>5. PICK len \in Nat : len = Unvarint(SubSeq(s, 1, head))
  <2>1. SubSeq(s, 1, head) \in Seq(Byte)
    BY <1>4
  <2>2. Unvarint(SubSeq(s, 1, head)) \in 0 .. Pow2[Width] - 1
    BY <2>1, UnvarintType
  <2>. QED  BY <2>2, GroupType
<1>6. \/ /\ head + len > Len(s)
         /\ Consume(head)
         /\ got' = Nothing
      \/ Crash
      \/ /\ head + len <= Len(s)
         /\ Consume(head + len)
         /\ Return("string", SubSeq(s, head + 1, head + len))
  BY <1>2, <1>4, <1>5 DEF ReadString
<1>7. CASE head + len > Len(s) /\ Consume(head) /\ got' = Nothing
  <2>1. TypeOK' /\ CursorRight' /\ TakesAt(head)
    BY <1>1, <1>2, <1>4, <1>7, ConsumeOK
  <2>2. UNCHANGED items
    BY <1>7 DEF Consume
  <2>3. ReadsBack'
    BY <1>7 DEF ReadsBack
  <2>. QED  BY <2>1, <2>2, <2>3, TakeInv
<1>8. CASE Crash
  BY <1>8, CrashInv
<1>9. CASE /\ head + len <= Len(s)
           /\ Consume(head + len)
           /\ Return("string", SubSeq(s, head + 1, head + len))
  <2>1. head + len \in 1 .. Len(s)
    BY <1>4, <1>5, <1>9
  <2>2. TypeOK' /\ CursorRight' /\ TakesAt(head + len)
    BY <1>1, <1>2, <1>9, <2>1, ConsumeOK
  <2>3. UNCHANGED items
    BY <1>9 DEF Consume
  <2>4. PICK text : text = SubSeq(s, head + 1, head + len)
    OBVIOUS
  <2>5. got' = [kind |-> "string", value |-> text, at |-> m_position, endian |-> m_endian]
    BY <1>9, <2>4 DEF Return
  <2>6. ASSUME NEW item \in items, m_position = item.at, "string" = item.kind
        PROVE  text = item.value
    <3>1. PICK c : StoredAs(item, c, blocks, m_size)
      BY DEF Inv, ItemInv
    <3>2. Len(c) <= Len(s) /\ \A k \in 1 .. Len(c) : s[k] = c[k]
      BY <1>1, <1>2, <2>6, <3>1, ItemAhead
    <3>3. item.value \in Texts /\ c = Varint(Len(item.value)) \o item.value
      BY <2>6, <3>1 DEF StoredAs, HasCode
    <3>4. PICK x \in Seq(Byte) : x = item.value /\ Len(x) < Pow2[Width]
      BY <3>3, ByteArrayAssumption
    <3>5. PICK l \in 0 .. Pow2[Width] - 1 : l = Len(x)
      BY <3>4, GroupType, Len(x) \in Nat
    <3>6. PICK h \in Seq(Byte) : h = Varint(l)
      BY VarintType
    <3>7. c = h \o x /\ Len(c) = Len(h) + Len(x)
      BY <3>3, <3>4, <3>5, <3>6
    <3>8. \A k \in 1 .. Len(h) : c[k] = h[k]
      BY <3>7
    <3>9. Len(h) <= Len(s) /\ \A k \in 1 .. Len(h) : s[k] = h[k]
      <4>1. Len(h) \in Nat /\ Len(x) \in Nat /\ Len(s) \in Nat
        OBVIOUS
      <4>2. \A k \in 1 .. Len(h) : k \in 1 .. Len(c)
        BY <3>7, <4>1
      <4>. QED  BY <3>2, <3>7, <3>8, <4>1, <4>2
    <3>10. head = Len(h) /\ len = Len(x)
      BY <1>4, <1>5, <3>5, <3>6, <3>9, VarintHead
    <3>11. PICK t \in Seq(Byte) : t = text /\ Len(t) = len
                                    /\ \A k \in 1 .. len : t[k] = s[head + k]
      <4>1. SubSeq(s, head + 1, head + len) \in Seq(Byte)
            /\ Len(SubSeq(s, head + 1, head + len)) = len
            /\ \A k \in 1 .. len : SubSeq(s, head + 1, head + len)[k] = s[head + k]
        BY <1>4, <1>5, <2>1
      <4>. QED  BY <2>4, <4>1
    <3>12. ASSUME NEW k \in 1 .. len PROVE s[head + k] = x[k]
      <4>1. head + k \in 1 .. Len(c)
        BY <3>7, <3>10
      <4>2. c[head + k] = x[k]
        BY <3>7, <3>10
      <4>. QED  BY <3>2, <4>1, <4>2
    <3>13. t = x
      BY <3>10, <3>11, <3>12, SeqEqual
    <3>. QED  BY <3>4, <3>11, <3>13
  <2>7. ReadsBack'
    BY <2>3, <2>5, <2>6 DEF ReadsBack
  <2>. QED  BY <2>2, <2>3, <2>7, TakeInv
<1>. QED  BY <1>6, <1>7, <1>8, <1>9

-----------------------------------------------------------------------------
(* Every step.                                                              *)

LEMMA WriteItemInv ==
  ASSUME Inv, NEW kind, NEW value, NEW code \in Seq(Byte), WriteItem(kind, value, code),
         \A item : item = [kind |-> kind, value |-> value, at |-> m_position,
                           len |-> Len(code), endian |-> m_endian] => HasCode(item, code)
  PROVE  Inv' /\ PutsAt(code) /\ taken' = <<>>
<1>1. Write(code) /\ got' = Nothing /\ taken' = <<>>
  BY DEF WriteItem, Write
<1>2. TypeOK' /\ CursorRight' /\ PutsAt(code)
  BY <1>1, WriteOK DEF Inv
<1>3. PICK new : new = [kind |-> kind, value |-> value, at |-> m_position,
                        len |-> Len(code), endian |-> m_endian]
  OBVIOUS
<1>4. items' = Kept(m_position, Len(code)) \cup {new}
  BY <1>3 DEF WriteItem
<1>5. HasCode(new, code) /\ new.at = m_position /\ new.len = Len(code)
  BY <1>3
<1>. QED  BY <1>1, <1>2, <1>4, <1>5, PutInv

LEMMA WriteStepInv ==
  ASSUME Inv, WriteStep
  PROVE  Inv' /\ taken' = <<>> /\ \E bs \in Seq(Byte) : PutsAt(bs)
<1>1. CASE \E v \in Uints : WriteUint(v)
  <2>1. PICK v \in Uints : WriteItem("uint", v, Varint(v))
    BY <1>1 DEF WriteUint
  <2>2. Varint(v) \in Seq(Byte)
    BY VarintType, ByteArrayAssumption
  <2>3. PICK code \in Seq(Byte) : code = Varint(v)
    BY <2>2
  <2>4. ASSUME NEW item, item = [kind |-> "uint", value |-> v, at |-> m_position,
                                 len |-> Len(code), endian |-> m_endian]
        PROVE  HasCode(item, code)
    BY <2>3, <2>4 DEF HasCode
  <2>. QED  BY <2>1, <2>3, <2>4, WriteItemInv
<1>2. CASE \E v \in Ints : WriteInt(v)
  <2>1. PICK v \in Ints : WriteItem("int", v, Varint(EncodeZigzag(v)))
    BY <1>2 DEF WriteInt
  <2>2. Varint(EncodeZigzag(v)) \in Seq(Byte)
    BY VarintType, ZigzagBack
  <2>3. PICK code \in Seq(Byte) : code = Varint(EncodeZigzag(v))
    BY <2>2
  <2>4. ASSUME NEW item, item = [kind |-> "int", value |-> v, at |-> m_position,
                                 len |-> Len(code), endian |-> m_endian]
        PROVE  HasCode(item, code)
    BY <2>3, <2>4 DEF HasCode
  <2>. QED  BY <2>1, <2>3, <2>4, WriteItemInv
<1>3. CASE \E v \in Fixeds : WriteFixed(v)
  <2>1. PICK v \in Fixeds : WriteItem("fixed", v, FixedCode(v, m_endian))
    BY <1>3, FixedForm DEF WriteFixed
  <2>2. FixedCode(v, m_endian) \in Seq(Byte)
    BY FixedType
  <2>3. PICK code \in Seq(Byte) : code = FixedCode(v, m_endian)
    BY <2>2
  <2>4. ASSUME NEW item, item = [kind |-> "fixed", value |-> v, at |-> m_position,
                                 len |-> Len(code), endian |-> m_endian]
        PROVE  HasCode(item, code)
    BY <2>3, <2>4 DEF HasCode
  <2>. QED  BY <2>1, <2>3, <2>4, WriteItemInv
<1>4. CASE \E s \in Texts : WriteString(s)
  <2>1. PICK s \in Texts : WriteItem("string", s, Varint(Len(s)) \o s)
    BY <1>4 DEF WriteString
  <2>2. s \in Seq(Byte) /\ Len(s) < Pow2[Width]
    BY ByteArrayAssumption
  <2>3. Len(s) \in 0 .. Pow2[Width] - 1
    BY <2>2, GroupType
  <2>4. Varint(Len(s)) \in Seq(Byte)
    BY <2>3, VarintType
  <2>5. PICK code \in Seq(Byte) : code = Varint(Len(s)) \o s
    <3>1. PICK h \in Seq(Byte) : h = Varint(Len(s))
      BY <2>4
    <3>2. h \o s \in Seq(Byte)
      BY <2>2
    <3>. QED  BY <3>1, <3>2
  <2>6. ASSUME NEW item, item = [kind |-> "string", value |-> s, at |-> m_position,
                                 len |-> Len(code), endian |-> m_endian]
        PROVE  HasCode(item, code)
    BY <2>5, <2>6 DEF HasCode
  <2>. QED  BY <2>1, <2>5, <2>6, WriteItemInv
<1>5. CASE \E s \in Texts : WriteRaw(s)
  <2>1. PICK s \in Texts : Write(s) /\ items' = Kept(m_position, Len(s))
    BY <1>5 DEF WriteRaw
  <2>2. s \in Seq(Byte)
    BY ByteArrayAssumption
  <2>3. TypeOK' /\ CursorRight' /\ PutsAt(s)
    BY <2>1, <2>2, WriteOK DEF Inv
  <2>4. got' = Nothing /\ taken' = <<>>
    BY <2>1 DEF Write
  <2>5. Inv'
    BY <2>1, <2>2, <2>3, <2>4, PutInv
  <2>. QED  BY <2>2, <2>3, <2>4, <2>5
<1>. QED  BY <1>1, <1>2, <1>3, <1>4, <1>5 DEF WriteStep

LEMMA ReadStepInv ==
  ASSUME Inv, ReadStep
  PROVE  Inv' /\ ((\E n : TakesAt(n)) \/ Crash)
  BY ReadVarintInv, ReadFixedInv, ReadStringInv DEF ReadStep, ReadUint, ReadInt

\* setPosition() and setIsLittleEndian() change no byte.
Sought ==
    /\ m_size' = IF m_position' > m_size THEN m_position' ELSE m_size
    /\ taken' = <<>>
    /\ UNCHANGED blocks

LEMMA MoveStepInv ==
  ASSUME Inv, MoveStep
  PROVE  /\ Inv'
         /\ \/ Sought
            \/ Clear
            \/ \E n : TakesAt(n)
            \/ taken' = <<>> /\ \E bs \in Seq(Byte) : PutsAt(bs)
<1>1. TypeOK /\ CursorRight /\ Len(blocks) >= 1 /\ ItemInv
  BY DEF Inv
<1>2. ASSUME NEW v \in 0 .. MaxSize, SetPosition(v)
      PROVE  Inv' /\ Sought
  <2>1. TypeOK' /\ CursorRight'
    BY <1>1, <1>2, SetPositionOK, ByteArrayAssumption
  <2>2. Sought /\ got' = Nothing /\ UNCHANGED items
    BY <1>2 DEF SetPosition, Sought
  <2>3. PICK x \in Nat, t \in Nat : x = m_size /\ t = m_size' /\ x <= t
    <3>1. m_size \in Nat /\ v \in Nat
      BY <1>1, Sizes, ByteArrayAssumption
    <3>2. m_size' = IF v > m_size THEN v ELSE m_size
      BY <1>2 DEF SetPosition
    <3>. QED  BY <3>1, <3>2
  <2>4. ItemInv'
    <3>1. ASSUME NEW item \in items, NEW c, StoredAs(item, c, blocks, m_size)
          PROVE  StoredAs(item, c, blocks', m_size')
      <4>1. c \in Seq(Byte) /\ item.at \in Nat /\ item.len = Len(c) /\ item.at + item.len <= x
        BY <2>3, <3>1 DEF StoredAs
      <4>2. item.at + item.len <= t
        BY <2>3, <4>1, Len(c) \in Nat
      <4>. QED  BY <2>2, <2>3, <3>1, <4>2 DEF StoredAs, Sought
    <3>. QED  BY <1>1, <2>2, <3>1 DEF ItemInv
  <2>5. ReadsBack'
    BY <2>2 DEF ReadsBack
  <2>. QED  BY <1>1, <2>1, <2>2, <2>4, <2>5 DEF Inv, Sought
<1>3. ASSUME Clear
      PROVE  Inv'
  <2>1. TypeOK' /\ CursorRight' /\ Len(blocks') >= 1
    BY <1>1, <1>3, ClearOK
  <2>2. ItemInv' /\ ReadsBack'
    BY <1>3 DEF Clear, ItemInv, ReadsBack
  <2>. QED  BY <2>1, <2>2 DEF Inv
<1>4. ASSUME SetIsLittleEndian
      PROVE  Inv' /\ Sought
  <2>1. UNCHANGED <<blocks, m_cur, m_position, m_size, m_capacity, items, alive>>
        /\ got' = Nothing /\ taken' = <<>> /\ m_endian' \in {"big", "little"}
    BY <1>4 DEF SetIsLittleEndian, bufVars
  <2>2. TypeOK' /\ CursorRight'
    BY <1>1, <2>1 DEF TypeOK, CursorRight
  <2>3. ItemInv' /\ ReadsBack'
    BY <1>1, <2>1 DEF ItemInv, ReadsBack
  <2>4. Sought
    BY <1>1, <2>1, Sizes DEF Sought
  <2>. QED  BY <1>1, <2>1, <2>2, <2>3, <2>4 DEF Inv
<1>5. ASSUME NEW n \in 1 .. MaxSize, Send(n)
      PROVE  Inv' /\ TakesAt(n)
  <2>1. TypeOK' /\ CursorRight' /\ TakesAt(n)
    BY <1>1, <1>5, SendOK, ByteArrayAssumption
  <2>2. got' = Nothing /\ UNCHANGED items
    BY <1>5 DEF Send
  <2>3. ReadsBack'
    BY <2>2 DEF ReadsBack
  <2>. QED  BY <2>1, <2>2, <2>3, TakeInv
<1>6. ASSUME NEW n \in 1 .. MaxSize, NEW bs \in Texts, Receive(n, bs)
      PROVE  Inv' /\ taken' = <<>> /\ bs \in Seq(Byte) /\ PutsAt(bs)
  <2>1. bs \in Seq(Byte) /\ n \in Nat
    BY ByteArrayAssumption
  <2>2. TypeOK' /\ CursorRight' /\ PutsAt(bs)
    BY <1>1, <1>6, <2>1, ReceiveOK
  <2>3. got' = Nothing /\ taken' = <<>> /\ items' = Kept(m_position, Len(bs))
    BY <1>6 DEF Receive
  <2>4. Inv'
    BY <2>1, <2>2, <2>3, PutInv
  <2>. QED  BY <2>1, <2>2, <2>3, <2>4
<1>. QED  BY <1>2, <1>3, <1>4, <1>5, <1>6 DEF MoveStep

LEMMA InvInit == Init => Inv
  BY InitOK DEF Inv, Init, ItemInv, ReadsBack

LEMMA InvNext == Inv /\ [Next]_vars => Inv'
<1> SUFFICES ASSUME Inv, [Next]_vars PROVE Inv'
  OBVIOUS
<1>1. CASE Next
  BY <1>1, WriteStepInv, ReadStepInv, MoveStepInv DEF Next
<1>2. CASE UNCHANGED vars
  BY <1>2 DEF vars, bufVars, Inv, TypeOK, CursorRight, ItemInv, ReadsBack
<1>. QED  BY <1>1, <1>2

\* The sizes, the blocks and the cursor's range are right in every state, for any
\* size of a block and any width of numbers.
THEOREM ByteArrayTypeCorrect == Spec => []TypeOK
<1>1. Inv => TypeOK
  BY DEF Inv
<1>. QED  BY InvInit, InvNext, <1>1, PTL DEF Spec

\* write(), read(), setPosition(), addCapacity(), clear() and the two uses of the
\* iovec calls leave the cursor on the block of the position.
THEOREM ByteArrayCursorRight == Spec => []CursorRight
<1>1. Inv => CursorRight
  BY DEF Inv
<1>. QED  BY InvInit, InvNext, <1>1, PTL DEF Spec

\* A value of any type that was written and not overwritten is read back, wherever
\* the borders of the blocks cut its code: varints, zigzag, fixed numbers in either
\* byte order and strings behind their length.
THEOREM ByteArrayReadsBack == Spec => []ReadsBack
<1>1. Inv => ReadsBack
  BY DEF Inv
<1>. QED  BY InvInit, InvNext, <1>1, PTL DEF Spec

-----------------------------------------------------------------------------
(* The blocks implement one sequence of bytes.                              *)

Content(list, size) == [k \in 1 .. size |-> Cell(list, k)]

LEMMA ContentType ==
  ASSUME NEW list \in Seq(Block), NEW size \in Nat, size <= Len(list) * m_baseSize
  PROVE  /\ Content(list, size) \in Seq(Byte)
         /\ Len(Content(list, size)) = size
         /\ \A k \in 1 .. size : Content(list, size)[k] = Cell(list, k)
<1>1. PICK c \in Nat : c = Len(list) * m_baseSize
  BY BaseSize, Len(list) \in Nat
<1>2. \A k \in 1 .. size : Cell(list, k) \in Byte
  BY <1>1, CellType
<1>3. Content(list, size) \in [1 .. size -> Byte]
  BY <1>2 DEF Content
<1>4. \A k \in 1 .. size : Content(list, size)[k] = Cell(list, k)
  BY DEF Content
<1>. QED  BY <1>3, <1>4, SeqDef

LEMMA SizesNext ==
  ASSUME TypeOK'
  PROVE  /\ blocks' \in Seq(Block) /\ m_size' \in Nat /\ m_position' \in Nat
         /\ m_size' <= Len(blocks') * m_baseSize /\ m_position' <= m_size'
<1>1. m_baseSize \in Nat \ {0}
  BY BaseSize
<1>2. blocks' \in Seq(Block) /\ Len(blocks') \in Nat
  BY DEF TypeOK, Block
<1>3. PICK c \in Nat : c = m_capacity' /\ c = Len(blocks') * m_baseSize
  BY <1>1, <1>2 DEF TypeOK
<1>. QED  BY <1>2, <1>3 DEF TypeOK

LEMMA PutRefines ==
  ASSUME TypeOK, TypeOK', NEW bs \in Seq(Byte), PutsAt(bs), taken' = <<>>
  PROVE  Flat!Put
<1>1. PICK p \in Nat, s \in Nat, n \in Nat : p = m_position /\ s = m_size /\ n = Len(bs) /\ p <= s
  BY Sizes, Len(bs) \in Nat
<1>2. PICK old \in Seq(Byte) : old = Content(blocks, m_size) /\ Len(old) = s
                                 /\ \A k \in 1 .. s : old[k] = Cell(blocks, k)
  BY <1>1, Sizes, ContentType
<1>3. PICK t \in Nat : t = m_size' /\ s <= t /\ t = IF p + n > s THEN p + n ELSE s
  BY <1>1 DEF PutsAt
<1>4. PICK new \in Seq(Byte) : new = Content(blocks', m_size') /\ Len(new) = t
                                 /\ \A k \in 1 .. t : new[k] = Cell(blocks', k)
  BY <1>3, SizesNext, ContentType
<1>5. m_position' = p + n
  BY <1>1 DEF PutsAt
<1>6. ASSUME NEW k \in 1 .. s, k <= p \/ k > p + n
      PROVE  new[k] = old[k]
  <2>1. k \in 1 .. t
    BY <1>3
  <2>2. Cell(blocks', k) = Cell(blocks, k)
    BY <1>1, <1>3, <1>6, <2>1 DEF PutsAt
  <2>. QED  BY <1>2, <1>4, <2>1, <2>2
<1>7. /\ m_position' >= m_position
      /\ new \in Seq(Byte)
      /\ Len(new) = IF m_position' > Len(old) THEN m_position' ELSE Len(old)
      /\ \A k \in 1 .. Len(old) : k <= m_position \/ k > m_position' => new[k] = old[k]
  BY <1>1, <1>2, <1>3, <1>4, <1>5, <1>6
<1>. QED  BY <1>2, <1>4, <1>7 DEF Flat!Put, Content, Cell

LEMMA TakeRefines ==
  ASSUME TypeOK, CursorRight, NEW n, TakesAt(n)
  PROVE  Flat!Take
<1>1. PICK p \in Nat, s \in Nat : p = m_position /\ s = m_size /\ p <= s
  BY Sizes
<1>2. PICK old \in Seq(Byte) : old = Content(blocks, m_size) /\ Len(old) = s
                                 /\ \A k \in 1 .. s : old[k] = Cell(blocks, k)
  BY <1>1, Sizes, ContentType
<1>3. PICK a \in Seq(Byte) : a = Ahead /\ Len(a) = s - p
                               /\ \A k \in 1 .. s - p : a[k] = Cell(blocks, p + k)
  BY <1>1, AheadCells
<1>4. SubSeq(old, p + 1, s) = a
  <2>1. SubSeq(old, p + 1, s) \in Seq(Byte) /\ Len(SubSeq(old, p + 1, s)) = s - p
        /\ \A k \in 1 .. s - p : SubSeq(old, p + 1, s)[k] = old[p + k]
    BY <1>1, <1>2
  <2>2. PICK b \in Seq(Byte) : b = SubSeq(old, p + 1, s)
    BY <2>1
  <2>3. \A k \in 1 .. s - p : p + k \in 1 .. s
    OBVIOUS
  <2>4. \A k \in 1 .. Len(b) : b[k] = a[k]
    BY <1>2, <1>3, <2>1, <2>2, <2>3
  <2>5. b = a
    BY <1>3, <2>1, <2>2, <2>4, SeqEqual
  <2>. QED  BY <2>2, <2>5
<1>5. n \in 0 .. Len(a) /\ m_position' = m_position + n /\ taken' = SubSeq(a, 1, n)
  BY <1>1, <1>3 DEF TakesAt
<1>6. Flat!Ahead = a
  BY <1>1, <1>2, <1>4 DEF Flat!Ahead, Content, Cell
<1>7. UNCHANGED <<blocks, m_size>>
  BY DEF TakesAt
<1>. QED  BY <1>5, <1>6, <1>7 DEF Flat!Take

LEMMA SeekRefines ==
  ASSUME TypeOK, TypeOK', Sought
  PROVE  Flat!Seek
<1>1. PICK s \in Nat : s = m_size
  BY Sizes
<1>2. PICK old \in Seq(Byte) : old = Content(blocks, m_size) /\ Len(old) = s
                                 /\ \A k \in 1 .. s : old[k] = Cell(blocks, k)
  BY <1>1, Sizes, ContentType
<1>3. PICK t \in Nat : t = m_size' /\ s <= t /\ t = IF m_position' > s THEN m_position' ELSE s
  BY <1>1, SizesNext DEF Sought
<1>4. PICK new \in Seq(Byte) : new = Content(blocks', m_size') /\ Len(new) = t
                                 /\ \A k \in 1 .. t : new[k] = Cell(blocks', k)
  BY <1>3, SizesNext, ContentType
<1>5. ASSUME NEW k \in 1 .. s PROVE new[k] = old[k]
  <2>1. k \in 1 .. t
    BY <1>3
  <2>. QED  BY <1>2, <1>4, <2>1 DEF Sought
<1>6. /\ new \in Seq(Byte)
      /\ Len(new) = IF m_position' > Len(old) THEN m_position' ELSE Len(old)
      /\ \A k \in 1 .. Len(old) : new[k] = old[k]
      /\ taken' = <<>>
  BY <1>2, <1>3, <1>4, <1>5 DEF Sought
<1>. QED  BY <1>2, <1>4, <1>6 DEF Flat!Seek, Content, Cell

LEMMA ClearRefines ==
  ASSUME Clear
  PROVE  Flat!Clear
<1>1. m_size' = 0 /\ m_position' = 0 /\ taken' = <<>>
  BY DEF Clear
<1>2. \A list : [k \in 1 .. 0 |->
                  list[(k - 1) \div m_baseSize + 1][((k - 1) % m_baseSize) + 1]] = <<>>
  OBVIOUS
<1>. QED  BY <1>1, <1>2 DEF Flat!Clear

\* ByteArray implements one sequence of bytes with a position: every call is a Put,
\* a Take, a Seek or a Clear of FlatBytes, or changes nothing of it.
THEOREM ByteArrayImplementsFlatBytes == Spec => FlatSpec
<1>1. Init => Flat!Init
  <2>1. \A list : [k \in 1 .. 0 |->
                    list[(k - 1) \div m_baseSize + 1][((k - 1) % m_baseSize) + 1]] = <<>>
    OBVIOUS
  <2>. QED  BY <2>1 DEF Init, Flat!Init
<1>2. ASSUME Inv, [Next]_vars
      PROVE  [Flat!Next]_<<[k \in 1 .. m_size |->
                blocks[(k - 1) \div m_baseSize + 1][((k - 1) % m_baseSize) + 1]],
              m_position, taken>>
  <2>1. Inv'
    BY <1>2, InvNext
  <2>2. TypeOK /\ CursorRight /\ TypeOK'
    BY <1>2, <2>1 DEF Inv
  <2>3. CASE WriteStep
    BY <1>2, <2>2, <2>3, WriteStepInv, PutRefines DEF Flat!Next
  <2>4. CASE ReadStep
    <3>1. CASE \E n : TakesAt(n)
      BY <2>2, <3>1, TakeRefines DEF Flat!Next
    <3>2. CASE Crash
      BY <3>2 DEF Crash, bufVars
    <3>. QED  BY <1>2, <2>4, <3>1, <3>2, ReadStepInv
  <2>5. CASE MoveStep
    BY <1>2, <2>2, <2>5, MoveStepInv, PutRefines, TakeRefines, SeekRefines, ClearRefines
       DEF Flat!Next
  <2>6. CASE UNCHANGED vars
    BY <2>6 DEF vars, bufVars
  <2>. QED  BY <1>2, <2>3, <2>4, <2>5, <2>6 DEF Next
<1>. QED  BY InvInit, InvNext, <1>1, <1>2, PTL DEF Spec, FlatSpec, Flat!Spec

-----------------------------------------------------------------------------
(* writeToFile().                                                           *)

\* The bytes written by n turns of the loop, and the state it is in then, if no
\* turn has gone wrong.
Done(n) ==
    LET full == n * m_baseSize - (m_position % m_baseSize)
    IN  IF n = 0 THEN 0 ELSE IF full < Len(Ahead) THEN full ELSE Len(Ahead)

AfterBytes(e) ==
    [pos |-> m_position + e, left |-> Len(Ahead) - e, bad |-> FALSE, bytes |-> SubSeq(Ahead, 1, e)]

\* Byte x, counted from 0, is at offset diff of block i, counted from 0.
AtPlace(x, i, diff) == x \div m_baseSize = i /\ x % m_baseSize = diff

LEMMA PlaceOf ==
  ASSUME NEW i \in Nat, NEW diff \in Nat, diff < m_baseSize
  PROVE  AtPlace(m_baseSize * i + diff, i, diff)
  BY BaseSize, DivModUnique DEF AtPlace

LEMMA PlaceOn ==
  ASSUME NEW x \in Nat, NEW i \in Nat, NEW diff \in Nat, AtPlace(x, i, diff),
         NEW k \in Nat, diff + k < m_baseSize
  PROVE  AtPlace(x + k, i, diff + k)
<1>1. /\ (x + k) \div m_baseSize = i + ((diff + k) \div m_baseSize)
      /\ (x + k) % m_baseSize = (diff + k) % m_baseSize
  BY BaseSize, DivModShift DEF AtPlace
<1>2. \A y \in Nat : y < m_baseSize => y \div m_baseSize = 0 /\ y % m_baseSize = y
  BY BaseSize
<1>3. (diff + k) \div m_baseSize = 0 /\ (diff + k) % m_baseSize = diff + k
  BY <1>2, diff + k \in Nat
<1>. QED  BY <1>1, <1>3 DEF AtPlace

\* When e bytes are written, the next turn writes len bytes of block i.
TurnAt(e, len, i, diff) ==
    /\ AtPlace(m_position + e, i, diff)
    /\ diff + len <= m_baseSize
    /\ e + len <= Len(Ahead)
    /\ e < Len(Ahead)
    /\ i + 1 \in 1 .. Len(blocks)
    /\ len = (IF Len(Ahead) - e > m_baseSize THEN m_baseSize ELSE Len(Ahead) - e) - diff

\* A piece of a block is a piece of what lies ahead.
LEMMA FilePiece ==
  ASSUME TypeOK, CursorRight, NEW e \in Nat, NEW len \in Nat, NEW i \in Nat, NEW diff \in Nat,
         TurnAt(e, len, i, diff)
  PROVE  SubSeq(Ahead, 1, e) \o SubSeq(blocks[i + 1], diff + 1, diff + len)
            = SubSeq(Ahead, 1, e + len)
<1>1. /\ AtPlace(m_position + e, i, diff) /\ diff + len <= m_baseSize
      /\ e + len <= Len(Ahead) /\ i + 1 \in 1 .. Len(blocks)
  BY DEF TurnAt
<1>2. PICK a \in Seq(Byte) : a = Ahead
  BY AheadCells
<1>3. PICK p \in Nat, s \in Nat : p = m_position /\ s = m_size /\ p <= s /\ Len(a) = s - p
  BY <1>2, Sizes, AheadCells
<1>4. \A k \in 1 .. s - p : a[k] = Cell(blocks, p + k)
  BY <1>2, <1>3, AheadCells
<1>5. PICK u \in Seq(Byte) : u = SubSeq(a, 1, e) /\ Len(u) = e /\ \A k \in 1 .. e : u[k] = a[k]
  <2>1. SubSeq(a, 1, e) \in Seq(Byte) /\ Len(SubSeq(a, 1, e)) = e
        /\ \A k \in 1 .. e : SubSeq(a, 1, e)[k] = a[k]
    BY <1>1, <1>2
  <2>. QED  BY <2>1
<1>6. PICK w \in Seq(Byte) : w = SubSeq(a, 1, e + len) /\ Len(w) = e + len
                               /\ \A k \in 1 .. e + len : w[k] = a[k]
  <2>1. SubSeq(a, 1, e + len) \in Seq(Byte) /\ Len(SubSeq(a, 1, e + len)) = e + len
        /\ \A k \in 1 .. e + len : SubSeq(a, 1, e + len)[k] = a[k]
    BY <1>1, <1>2, e + len \in Nat
  <2>. QED  BY <2>1
<1>7. PICK blk : blk = blocks[i + 1] /\ blk \in Block
  BY <1>1, Sizes, ElementOfSeq
<1>8. blk \in Seq(Byte) /\ Len(blk) = m_baseSize
  BY <1>7, BaseSize, SeqDef DEF Block
<1>9. m_baseSize \in Nat
  BY BaseSize
<1>10. PICK x \in Seq(Byte) : x = SubSeq(blk, diff + 1, diff + len) /\ Len(x) = len
                               /\ \A k \in 1 .. len : x[k] = blk[diff + k]
  <2>1. SubSeq(blk, diff + 1, diff + len) \in Seq(Byte)
        /\ Len(SubSeq(blk, diff + 1, diff + len)) = len
        /\ \A k \in 1 .. len : SubSeq(blk, diff + 1, diff + len)[k] = blk[diff + k]
    BY <1>1, <1>8, <1>9
  <2>. QED  BY <2>1
<1>11. ASSUME NEW k \in 1 .. len PROVE blk[diff + k] = a[e + k]
  <2>1. e + k \in 1 .. s - p
    BY <1>1, <1>2, <1>3
  <2>2. a[e + k] = Cell(blocks, p + (e + k))
    BY <1>4, <2>1
  <2>3. PICK j \in Nat : j = k - 1 /\ diff + j < m_baseSize
    BY <1>1, <1>9
  <2>4. AtPlace((p + e) + j, i, diff + j)
    BY <1>1, <1>3, <2>3, PlaceOn, p + e \in Nat
  <2>5. (p + (e + k)) - 1 = (p + e) + j /\ (diff + j) + 1 = diff + k
    BY <2>3
  <2>. QED  BY <1>7, <2>2, <2>4, <2>5 DEF Cell, AtPlace
<1>12. PICK z \in Seq(Byte) : z = u \o x /\ Len(z) = e + len
                                /\ (\A k \in 1 .. e : z[k] = u[k])
                                /\ (\A k \in 1 .. len : z[e + k] = x[k])
  <2>1. PICK l \in Seq(Byte), r \in Seq(Byte) : l = u /\ r = x
    OBVIOUS
  <2>2. Len(l) = e /\ Len(r) = len
    BY <1>5, <1>10, <2>1
  <2>3. l \o r \in Seq(Byte) /\ Len(l \o r) = Len(l) + Len(r)
        /\ \A k \in 1 .. Len(l) + Len(r) : (l \o r)[k] = IF k <= Len(l) THEN l[k] ELSE r[k - Len(l)]
    BY ConcatProperties
  <2>4. PICK z \in Seq(Byte) : z = l \o r
    BY <2>3
  <2>5. Len(z) = e + len /\ \A k \in 1 .. e + len : z[k] = IF k <= e THEN l[k] ELSE r[k - e]
    BY <2>2, <2>3, <2>4
  <2>6. ASSUME NEW k \in 1 .. e PROVE z[k] = l[k]
    BY <2>5
  <2>7. ASSUME NEW k \in 1 .. len PROVE z[e + k] = r[k]
    <3>1. e + k \in 1 .. e + len /\ ~(e + k <= e) /\ (e + k) - e = k
      OBVIOUS
    <3>. QED  BY <2>5, <3>1
  <2>. QED  BY <2>1, <2>4, <2>5, <2>6, <2>7
<1>13. ASSUME NEW k \in 1 .. e + len PROVE z[k] = w[k]
  <2>1. CASE k <= e
    BY <1>5, <1>6, <1>12, <2>1
  <2>2. CASE k > e
    <3>1. PICK j \in 1 .. len : k = e + j
      BY <2>2
    <3>. QED  BY <1>6, <1>10, <1>11, <1>12, <3>1
  <2>. QED  BY <2>1, <2>2
<1>14. z = w
  BY <1>6, <1>12, <1>13, SeqEqual
<1>. QED  BY <1>2, <1>5, <1>6, <1>7, <1>10, <1>12, <1>14

\* One turn that has something left writes len bytes more.
LEMMA FileTurnOn ==
  ASSUME TypeOK, CursorRight, NEW e \in Nat, NEW len \in Nat, NEW i \in Nat, NEW diff \in Nat,
         TurnAt(e, len, i, diff)
  PROVE  FileTurn(AfterBytes(e), blocks[i + 1]) = AfterBytes(e + len)
<1>1. PICK p \in Nat, A \in Nat : p = m_position /\ A = Len(Ahead)
  BY Sizes, AheadCells
<1>2. AfterBytes(e).pos = p + e /\ AfterBytes(e).left = A - e /\ AfterBytes(e).bad = FALSE
      /\ AfterBytes(e).bytes = SubSeq(Ahead, 1, e)
  BY <1>1 DEF AfterBytes
<1>3. (p + e) % m_baseSize = diff
  BY <1>1 DEF AtPlace, TurnAt
<1>4. ~(A - e <= 0) /\ ~(len < 0)
  BY <1>1 DEF TurnAt
<1>5. (IF A - e > m_baseSize THEN m_baseSize ELSE A - e) - diff = len
  BY <1>1 DEF TurnAt
<1>6. FileTurn(AfterBytes(e), blocks[i + 1]) =
        [pos |-> (p + e) + len, left |-> (A - e) - len, bad |-> FALSE,
         bytes |-> SubSeq(Ahead, 1, e) \o SubSeq(blocks[i + 1], diff + 1, diff + len)]
  BY <1>1, <1>2, <1>3, <1>4, <1>5 DEF FileTurn
<1>7. \A x, y, z \in Nat : (x + y) + z = x + (y + z) /\ (x - y) - z = x - (y + z)
  OBVIOUS
<1>8. (p + e) + len = p + (e + len) /\ (A - e) - len = A - (e + len)
  BY <1>7
<1>9. SubSeq(Ahead, 1, e) \o SubSeq(blocks[i + 1], diff + 1, diff + len) = SubSeq(Ahead, 1, e + len)
  BY FilePiece
<1>. QED  BY <1>1, <1>6, <1>8, <1>9 DEF AfterBytes

LEMMA FileTurnStep ==
  ASSUME TypeOK, CursorRight, m_cur # Null,
         m_position % m_baseSize = 0 \/ Len(Ahead) >= m_baseSize,
         NEW n \in 1 .. Len(blocks) + 1 - m_cur
  PROVE  FileTurn(AfterBytes(Done(n - 1)), blocks[m_cur + n - 1]) = AfterBytes(Done(n))
<1>1. PICK b \in Nat \ {0}, p \in Nat, A \in Nat, L \in Nat :
         b = m_baseSize /\ p = m_position /\ A = Len(Ahead) /\ L = Len(blocks)
  BY BaseSize, Sizes, AheadCells
<1>2. PICK q \in Nat, d \in Nat : p = b * q + d /\ d < b /\ p \div b = q /\ p % b = d
  BY DivModPick
<1>3. m_cur = q + 1
  BY <1>1, <1>2 DEF CursorRight
<1>4. m_cur + n - 1 = (q + n - 1) + 1 /\ q + n - 1 \in Nat /\ (q + n - 1) + 1 \in 1 .. L
  BY <1>1, <1>3
<1>5. d = 0 \/ A >= b
  BY <1>1, <1>2
<1>6. \A m \in Nat : Done(m) = IF m = 0 THEN 0 ELSE IF m * b - d < A THEN m * b - d ELSE A
  BY <1>1, <1>2 DEF Done
<1>7. PICK m \in Nat : m = n - 1 /\ n = m + 1
  OBVIOUS
<1>8. n * b = m * b + b /\ m * b \in Nat /\ b * m = m * b /\ (m # 0 => m * b >= b)
  BY <1>7
<1>9. CASE m = 0 /\ A > 0
  <2>1. PICK len \in Nat : len = (IF A > b THEN b ELSE A) - d
    BY <1>2, <1>5, <1>9
  <2>2. Done(n) = 0 + len /\ Done(m) = 0 /\ d + len <= b /\ 0 + len <= A
    <3>1. n * b - d = b - d
      BY <1>2, <1>8, <1>9
    <3>2. Done(n) = IF b - d < A THEN b - d ELSE A
      BY <1>6, <1>7, <3>1
    <3>3. len = IF b - d < A THEN b - d ELSE A
      BY <1>2, <1>5, <1>9, <2>1
    <3>. QED  BY <1>2, <1>5, <1>6, <1>9, <2>1, <3>2, <3>3
  <2>3. AtPlace(m_position + 0, q, d)
    <3>1. m_position + 0 = p
      BY <1>1
    <3>. QED  BY <1>1, <1>2, <3>1 DEF AtPlace
  <2>4. len = (IF Len(Ahead) - 0 > m_baseSize THEN m_baseSize ELSE Len(Ahead) - 0) - d
    BY <1>1, <2>1
  <2>5. q + 1 \in 1 .. Len(blocks) /\ m_cur + n - 1 = q + 1
    BY <1>1, <1>3, <1>4, <1>7, <1>9
  <2>6. TurnAt(0, len, q, d)
    <3>1. d + len <= m_baseSize /\ 0 + len <= Len(Ahead) /\ 0 < Len(Ahead)
      BY <1>1, <1>9, <2>2
    <3>. QED  BY <2>3, <2>4, <2>5, <3>1 DEF TurnAt
  <2>7. FileTurn(AfterBytes(0), blocks[q + 1]) = AfterBytes(0 + len)
    BY <2>6, FileTurnOn
  <2>. QED  BY <1>7, <2>2, <2>5, <2>7
<1>10. CASE m # 0 /\ m * b - d < A
  <2>1. PICK e \in Nat : e = m * b - d /\ e < A
    BY <1>2, <1>8, <1>10
  <2>2. PICK len \in Nat : len = (IF A - e > b THEN b ELSE A - e) - 0
    <3>1. \A x, y, z \in Nat : x < y => (IF y - x > z THEN z ELSE y - x) - 0 \in Nat
      OBVIOUS
    <3>2. (IF A - e > b THEN b ELSE A - e) - 0 \in Nat
      BY <2>1, <3>1
    <3>. QED  BY <3>2
  <2>3. Done(m) = e /\ Done(n) = e + len /\ 0 + len <= b /\ e + len <= A
    <3>1. n * b - d = e + b
      BY <1>2, <1>8, <2>1
    <3>2. Done(n) = IF e + b < A THEN e + b ELSE A
      <4>1. Done(n) = IF n * b - d < A THEN n * b - d ELSE A
        BY <1>6, n \in Nat, n # 0
      <4>. QED  BY <3>1, <4>1
    <3>. QED  BY <1>6, <1>10, <2>1, <2>2, <3>2
  <2>4. PICK i \in Nat : i = q + m /\ b * i = b * q + b * m
    BY <1>1
  <2>5. AtPlace(m_position + e, i, 0)
    <3>1. b * q \in Nat /\ b * m \in Nat
      OBVIOUS
    <3>2. m_position + e = m_baseSize * i + 0
      BY <1>1, <1>2, <1>8, <2>1, <2>4, <3>1
    <3>3. 0 < m_baseSize
      BY BaseSize
    <3>. QED  BY <3>2, <3>3, PlaceOf
  <2>6. i + 1 \in 1 .. Len(blocks) /\ m_cur + n - 1 = i + 1
    BY <1>1, <1>3, <1>4, <1>7, <2>4
  <2>7. len = (IF Len(Ahead) - e > m_baseSize THEN m_baseSize ELSE Len(Ahead) - e) - 0
    BY <1>1, <2>2
  <2>8. TurnAt(e, len, i, 0)
    <3>1. 0 + len <= m_baseSize /\ e + len <= Len(Ahead) /\ e < Len(Ahead)
      BY <1>1, <2>1, <2>3
    <3>. QED  BY <2>5, <2>6, <2>7, <3>1 DEF TurnAt
  <2>9. FileTurn(AfterBytes(e), blocks[i + 1]) = AfterBytes(e + len)
    BY <2>8, FileTurnOn
  <2>. QED  BY <1>7, <2>3, <2>6, <2>9
<1>11. CASE A = 0 \/ (m # 0 /\ ~(m * b - d < A))
  <2>1. Done(m) = A /\ Done(n) = A
    <3>1. CASE A = 0
      <4>1. \A j \in Nat : j # 0 => j * b - d \in Int /\ j * b - d > 0
        BY <1>2
      <4>. QED  BY <1>6, <1>7, <3>1, <4>1
    <3>2. CASE m # 0 /\ ~(m * b - d < A)
      <4>1. ~(n * b - d < A)
        BY <1>2, <1>8, <3>2
      <4>. QED  BY <1>6, <1>7, <3>2, <4>1
    <3>. QED  BY <1>11, <3>1, <3>2
  <2>2. AfterBytes(A).left = A - A
    BY <1>1 DEF AfterBytes
  <2>3. AfterBytes(A).left <= 0
    BY <2>2
  <2>4. FileTurn(AfterBytes(A), blocks[m_cur + n - 1]) = AfterBytes(A)
    BY <2>3 DEF FileTurn
  <2>. QED  BY <1>7, <2>1, <2>4
<1>12. A > 0 \/ A = 0
  OBVIOUS
<1>. QED  BY <1>9, <1>10, <1>11, <1>12

LEMMA WrittenFileWhole ==
  ASSUME Inv
  PROVE  FileWhole
<1> SUFFICES ASSUME m_position % m_baseSize = 0 \/ Len(Ahead) >= m_baseSize
             PROVE  WrittenFile = Ahead
  BY DEF FileWhole
<1>1. TypeOK /\ CursorRight
  BY DEF Inv
<1>2. PICK a \in Seq(Byte) : a = Ahead
  BY <1>1, AheadCells
<1>3. PICK p \in Nat, s \in Nat, c \in Nat, L \in Nat :
         p = m_position /\ s = m_size /\ c = m_capacity /\ L = Len(blocks) /\ p <= s /\ s <= c
         /\ Len(a) = s - p /\ c = L * m_baseSize
  BY <1>1, <1>2, Sizes, AheadCells
<1>4. CASE m_cur = Null
  <2>1. p = c
    <3> SUFFICES ASSUME p # c PROVE FALSE
      OBVIOUS
    <3>1. m_cur = p \div m_baseSize + 1
      BY <1>1, <1>3 DEF CursorRight
    <3>2. p \div m_baseSize \in Nat
      BY PlaceType
    <3>. QED  BY <1>4, <3>1, <3>2 DEF Null
  <2>2. Len(a) = 0
    BY <1>3, <2>1
  <2>3. a = <<>>
    BY <2>2, EmptySeq
  <2>. QED  BY <1>2, <1>4, <2>3 DEF WrittenFile
<1>5. CASE m_cur # Null
  <2>1. m_cur \in 1 .. L
    BY <1>1, <1>3, <1>5 DEF TypeOK, Null
  <2>2. PICK N \in Nat : N = L + 1 - m_cur /\ N >= 1
    BY <2>1
  <2>3. ASSUME NEW n \in 1 .. N
        PROVE  FileTurn(AfterBytes(Done(n - 1)), blocks[m_cur + n - 1]) = AfterBytes(Done(n))
    <3>1. n \in 1 .. Len(blocks) + 1 - m_cur
      BY <1>3, <2>2
    <3>. QED  BY <1>1, <1>5, <3>1, FileTurnStep
  <2>4. AfterBytes(Done(0)) =
          [pos |-> m_position, left |-> Len(Ahead), bad |-> FALSE, bytes |-> <<>>]
    <3>1. Done(0) = 0
      BY DEF Done
    <3>2. SubSeq(a, 1, 0) = <<>>
      OBVIOUS
    <3>3. m_position + 0 = m_position /\ Len(Ahead) - 0 = Len(Ahead)
      BY <1>2, <1>3
    <3>. QED  BY <1>2, <3>1, <3>2, <3>3 DEF AfterBytes
  <2> DEFINE first == [pos |-> m_position, left |-> Len(Ahead), bad |-> FALSE, bytes |-> <<>>]
  <2> DEFINE Body(f) == [n \in 0 .. Len(blocks) + 1 - m_cur |->
                           IF n = 0 THEN first ELSE FileTurn(f[n - 1], blocks[m_cur + n - 1])]
  <2> DEFINE g == [n \in 0 .. N |-> AfterBytes(Done(n))]
  <2>5. g = Body(g)
    <3>1. 0 .. N = 0 .. Len(blocks) + 1 - m_cur
      BY <1>3, <2>2
    <3>2. ASSUME NEW n \in 0 .. N
          PROVE  AfterBytes(Done(n)) =
                   IF n = 0 THEN first ELSE FileTurn(g[n - 1], blocks[m_cur + n - 1])
      <4>1. CASE n = 0
        BY <2>4, <4>1
      <4>2. CASE n # 0
        <5>1. n \in 1 .. N /\ n - 1 \in 0 .. N
          BY <4>2
        <5>2. g[n - 1] = AfterBytes(Done(n - 1))
          BY <5>1
        <5> HIDE DEF g, first
        <5>. QED  BY <2>3, <4>2, <5>1, <5>2
      <4>. QED  BY <4>1, <4>2
    <3> HIDE DEF first
    <3>. QED  BY <3>1, <3>2
  <2> DEFINE D == CHOOSE f : f = Body(f)
  <2>6. D = Body(D)
    <3> HIDE DEF Body, g
    <3>. QED  BY <2>5
  <2>7. WrittenFile = D[Len(blocks) + 1 - m_cur].bytes
    <3>1. WrittenFile = IF m_cur = Null THEN <<>> ELSE D[Len(blocks) + 1 - m_cur].bytes
      BY Zenon DEF WrittenFile
    <3> HIDE DEF D
    <3>. QED  BY <1>5, <3>1
  <2> HIDE DEF D, first
  <2>8. ASSUME NEW n \in 0 .. N PROVE D[n] = AfterBytes(Done(n))
    <3> DEFINE T == {k \in 0 .. N : D[k] # AfterBytes(Done(k))}
    <3>1. SUFFICES ASSUME T # {} PROVE FALSE
      OBVIOUS
    <3>2. PICK m \in T : \A y \in T : m <= y
      <4> HIDE DEF T
      <4>1. T \subseteq Nat
        BY DEF T
      <4>. QED  BY <3>1, <4>1, LeastNat
    <3>3. m \in 0 .. N /\ D[m] # AfterBytes(Done(m))
      OBVIOUS
    <3>4. D[m] = IF m = 0 THEN first ELSE FileTurn(D[m - 1], blocks[m_cur + m - 1])
      <4>1. m \in 0 .. Len(blocks) + 1 - m_cur
        BY <1>3, <2>2, <3>3
      <4>. QED  BY <2>6, <4>1
    <3>5. m # 0
      BY <2>4, <3>3, <3>4 DEF first
    <3>6. m - 1 \in 0 .. N /\ m \in 1 .. N
      BY <3>3, <3>5
    <3>7. D[m - 1] = AfterBytes(Done(m - 1))
      BY <3>2, <3>6
    <3>. QED  BY <2>3, <3>3, <3>4, <3>5, <3>6, <3>7
  <2>9. D[Len(blocks) + 1 - m_cur] = AfterBytes(Done(N))
    BY <1>3, <2>2, <2>8
  <2>10. Done(N) = Len(a)
    <3>1. PICK b \in Nat \ {0} : b = m_baseSize
      BY BaseSize
    <3>2. PICK q \in Nat, d \in Nat : p = b * q + d /\ d < b /\ p \div b = q /\ p % b = d
      BY DivModPick
    <3>3. p # c
      <4> SUFFICES ASSUME p = c PROVE FALSE
        OBVIOUS
      <4>. QED  BY <1>1, <1>3, <1>5 DEF CursorRight
    <3>4. m_cur = q + 1
      BY <1>1, <1>3, <3>1, <3>2, <3>3 DEF CursorRight
    <3>5. N = L - q
      BY <2>2, <3>4
    <3>6. N * b = L * b - b * q
      BY <3>5
    <3>7. PICK x \in Nat, y \in Nat : x = L * b /\ y = b * q
      OBVIOUS
    <3>8. c = x /\ p = y + d /\ N * b = x - y
      BY <1>3, <3>1, <3>2, <3>6, <3>7
    <3>9. \A u, v, w \in Nat : (u - v) - w = u - (v + w)
      OBVIOUS
    <3>10. N * b - d = c - p
      BY <3>8, <3>9
    <3>11. ~(N * b - d < Len(a))
      BY <1>3, <3>10
    <3>12. Done(N) = IF N * b - d < Len(a) THEN N * b - d ELSE Len(a)
      <4>1. N # 0 /\ m_position % m_baseSize = d
        BY <1>3, <2>2, <3>1, <3>2
      <4>2. Done(N) = IF N * m_baseSize - d < Len(Ahead) THEN N * m_baseSize - d ELSE Len(Ahead)
        BY <4>1 DEF Done
      <4>. QED  BY <1>2, <3>1, <4>2
    <3>. QED  BY <3>11, <3>12
  <2>11. AfterBytes(Done(N)).bytes = SubSeq(a, 1, Len(a))
    BY <1>2, <2>10 DEF AfterBytes
  <2>12. SubSeq(a, 1, Len(a)) = a
    BY SubSeqFull
  <2>. QED  BY <1>2, <2>7, <2>9, <2>11, <2>12
<1>. QED  BY <1>4, <1>5

\* The file writeToFile() makes is what lies ahead, from every position at which its
\* arithmetic can work: the start of a block, or with at least a block unread.
THEOREM ByteArrayFileWhole == Spec => []FileWhole
<1>. QED  BY InvInit, InvNext, WrittenFileWhole, PTL DEF Spec
=============================================================================
