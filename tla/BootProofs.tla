------------------------------ MODULE BootProofs -------------------------------
(***************************************************************************)
(* Proofs about Boot, for every well-formed device tree of every size and  *)
(* for bytes of any number of values: extract_memory_info finds the memory *)
(* that the tree describes.                                                *)
(***************************************************************************)
EXTENDS Boot, WellFoundedInduction, SequenceTheorems, TLAPS

-----------------------------------------------------------------------------
(* The inductive invariant: between two tokens the parser has read the first k *)
(* pieces of the tree.                                                         *)

\* The node that encloses piece k is a memory node, and its properties are being read,
\* or those of a node in it.
InMemory(k) ==
    \E j \in 1 .. k : /\ tree[j].token = FDT_BEGIN_NODE /\ IsMemoryNode(tree[j].name)
                      /\ \A l \in j + 1 .. k : tree[l].token # FDT_END_NODE

Behind(k) ==
    /\ struct_ptr = Len(Parts(tree)[k])
    /\ in_memory_node \in BOOLEAN /\ (in_memory_node <=> InMemory(k))
    /\ MemoryRegs \intersect 1 .. k = {}

NothingYet == memory_base = 0 /\ memory_size = 0

IInv ==
    /\ tree \in Trees /\ block = Encoding(tree)
    /\ pc \in {"dtb_init", "extract"} => NothingYet
    /\ pc = "dtb_init" => struct_ptr = 0 /\ in_memory_node = FALSE
    /\ pc = "extract" => dtb = "ok" /\ \E k \in 0 .. Len(tree) - 1 : Behind(k)
    /\ FindsMemory

-----------------------------------------------------------------------------
(* Bytes and numbers *)

\* Radix and Word are positive.
LEMMA Sizes == Radix \in Nat /\ Radix > 7 /\ Word \in Nat /\ Word > 4095
<1>1. Radix \in Nat /\ Radix > 7
  BY BootAssumption
<1>2. Radix * Radix \in Nat /\ Radix * Radix > 63
  BY <1>1
<1>3. Radix * Radix * Radix \in Nat /\ Radix * Radix * Radix > 511
  BY <1>1, <1>2
<1> QED
  BY <1>1, <1>3 DEF Word

\* A number is its low digit and what is above it.
LEMMA Divided ==
    ASSUME NEW m \in Nat, m > 0, NEW x \in Int
    PROVE  x \div m \in Int /\ x % m \in 0 .. m - 1 /\ x = m * (x \div m) + (x % m)
OBVIOUS

\* Only one pair of numbers is the quotient and the remainder.
LEMMA OnlyDivision ==
    ASSUME NEW m \in Nat, m > 0, NEW q \in Int, NEW d \in 0 .. m - 1
    PROVE  (m * q + d) \div m = q /\ (m * q + d) % m = d
<1> DEFINE x == m * q + d
           p == x \div m
           e == x % m
<1>1. x \in Int /\ m * q \in Int
  OBVIOUS
<1>2. p \in Int /\ e \in 0 .. m - 1 /\ x = m * p + e
  BY <1>1, Divided
<1> HIDE DEF p, e
<1>3. m * (p - q) = d - e
  <2>1. m * (p - q) = m * p - m * q
    BY <1>2
  <2>2. m * p \in Int
    BY <1>2
  <2> QED
    BY <1>1, <1>2, <2>1, <2>2
<1>4. p = q
  <2> DEFINE z == p - q
  <2>1. z \in Int /\ m * z < m /\ m * z > -m
    BY <1>2, <1>3
  <2> HIDE DEF z
  <2>2. ~ (z >= 1)
    <3> SUFFICES ASSUME z >= 1 PROVE FALSE
      OBVIOUS
    <3>1. m * z >= m
      BY <2>1
    <3> QED
      BY <2>1, <3>1
  <2>3. ~ (z <= -1)
    <3> SUFFICES ASSUME z <= -1 PROVE FALSE
      OBVIOUS
    <3>1. m * z <= -m
      BY <2>1
    <3> QED
      BY <2>1, <3>1
  <2>4. z = 0
    BY <2>1, <2>2, <2>3
  <2> QED
    BY <1>2, <2>4 DEF z
<1>5. e = d
  BY <1>2, <1>3, <1>4
<1> QED
  BY <1>4, <1>5 DEF p, e

\* A digit in front.
LEMMA Digits ==
    ASSUME NEW d \in Byte, NEW y \in Nat
    PROVE  Low(d + Radix * y) = d /\ Shift(d + Radix * y) = y /\ d + Radix * y \in Nat
<1>1. Radix \in Nat /\ Radix > 0 /\ d \in 0 .. Radix - 1 /\ y \in Int
  BY Sizes DEF Byte
<1>2. (Radix * y + d) \div Radix = y /\ (Radix * y + d) % Radix = d
  BY <1>1, OnlyDivision
<1>3. Radix * y \in Nat
  BY <1>1
<1>4. d + Radix * y = Radix * y + d
  BY <1>1, <1>3
<1> QED
  BY <1>1, <1>2, <1>3, <1>4 DEF Low, Shift

\* A number below m * n has a quotient below n.
LEMMA Quotient ==
    ASSUME NEW m \in Nat, m > 0, NEW n \in Nat, NEW x \in 0 .. (m * n) - 1
    PROVE  x \div m \in 0 .. n - 1
<1> DEFINE q == x \div m
           d == x % m
<1>1. x \in Int /\ m * n \in Nat
  OBVIOUS
<1>2. q \in Int /\ d \in 0 .. m - 1 /\ x = m * q + d
  BY <1>1, Divided
<1> HIDE DEF q, d
<1>3. q >= 0
  <2> SUFFICES ASSUME q <= -1 PROVE FALSE
    BY <1>2
  <2>1. m * q <= -m
    BY <1>2
  <2> QED
    BY <1>2, <2>1
<1>4. q < n
  <2> SUFFICES ASSUME q >= n PROVE FALSE
    BY <1>2
  <2>1. m * q >= m * n
    BY <1>2
  <2>2. m * q \in Int
    BY <1>2
  <2> QED
    BY <1>1, <1>2, <2>1, <2>2
<1> QED
  BY <1>2, <1>3, <1>4 DEF q

\* The four bytes of a 32-bit number.
FourBytes(b1, b2, b3, b4) == Radix * (Radix * (Radix * b1 + b2) + b3) + b4

LEMMA WordBytes ==
    ASSUME NEW x \in 0 .. Word - 1
    PROVE  /\ Bytes32(x) \in Seq(Byte) /\ Len(Bytes32(x)) = 4
           /\ x = FourBytes(Bytes32(x)[1], Bytes32(x)[2], Bytes32(x)[3], Bytes32(x)[4])
<1> DEFINE x1 == Shift(x)
           x2 == Shift(x1)
           x3 == Shift(x2)
           R2 == Radix * Radix
           R3 == Radix * Radix * Radix
<1>1. Radix \in Nat /\ Radix > 0 /\ Radix - 1 \in Nat
  BY Sizes
<1>2. R2 \in Nat /\ R3 \in Nat /\ R3 = Radix * R2 /\ Word = Radix * R3 /\ R2 = Radix * Radix
  BY <1>1 DEF Word
<1> HIDE DEF R2, R3
<1>3. x1 \in 0 .. R3 - 1
  BY <1>1, <1>2, Quotient DEF Shift
<1>4. x2 \in 0 .. R2 - 1
  BY <1>1, <1>2, <1>3, Quotient DEF Shift
<1>5. x3 \in 0 .. Radix - 1
  BY <1>1, <1>2, <1>4, Quotient DEF Shift
<1>6. x \in Int /\ x1 \in Int /\ x2 \in Int /\ x3 \in Int
  BY <1>1, <1>2, <1>3, <1>4, <1>5, Sizes
<1>7. Low(x) \in Byte /\ x = Radix * x1 + Low(x)
  BY <1>1, <1>6, Divided DEF Low, Shift, Byte
<1>8. Low(x1) \in Byte /\ x1 = Radix * x2 + Low(x1)
  BY <1>1, <1>6, Divided DEF Low, Shift, Byte
<1>9. Low(x2) \in Byte /\ x2 = Radix * x3 + Low(x2)
  BY <1>1, <1>6, Divided DEF Low, Shift, Byte
<1>10. Bytes32(x) = <<x3, Low(x2), Low(x1), Low(x)>>
  BY DEF Bytes32
<1>11. x3 \in Byte
  BY <1>5 DEF Byte
<1> HIDE DEF x1, x2, x3
<1>12. x = FourBytes(x3, Low(x2), Low(x1), Low(x))
  BY <1>7, <1>8, <1>9 DEF FourBytes
<1> QED
  BY <1>7, <1>8, <1>9, <1>10, <1>11, <1>12

\* fdt32_to_cpu turns a little-endian load into the big-endian number of the bytes.
LEMMA LoadedWord ==
    ASSUME NEW p, block[p + 1] \in Byte, block[p + 2] \in Byte,
           block[p + 3] \in Byte, block[p + 4] \in Byte
    PROVE  fdt32_to_cpu(Load32(p)) =
              FourBytes(block[p + 1], block[p + 2], block[p + 3], block[p + 4])
<1> DEFINE b1 == block[p + 1]
           b2 == block[p + 2]
           b3 == block[p + 3]
           b4 == block[p + 4]
           y3 == b3 + Radix * b4
           y2 == b2 + Radix * y3
           y1 == b1 + Radix * y2
<1>1. Load32(p) = y1
  BY DEF Load32
<1>2. b1 \in Byte /\ b2 \in Byte /\ b3 \in Byte /\ b4 \in Byte /\ b4 \in Nat /\ 0 \in Nat
  BY Sizes DEF Byte
<1> HIDE DEF b1, b2, b3, b4
<1>3. Low(y3) = b3 /\ Shift(y3) = b4 /\ y3 \in Nat
  BY <1>2, Digits
<1> HIDE DEF y3
<1>4. Low(y2) = b2 /\ Shift(y2) = y3 /\ y2 \in Nat
  BY <1>2, <1>3, Digits
<1> HIDE DEF y2
<1>5. Low(y1) = b1 /\ Shift(y1) = y2
  BY <1>2, <1>4, Digits
<1> HIDE DEF y1
<1>6. Low(b4) = b4
  <2>1. Low(b4 + Radix * 0) = b4
    BY <1>2, Digits
  <2>2. b4 + Radix * 0 = b4
    BY <1>2, Sizes
  <2> QED
    BY <2>1, <2>2
<1>7. fdt32_to_cpu(y1) = FourBytes(b1, b2, b3, b4)
  BY <1>3, <1>4, <1>5, <1>6 DEF fdt32_to_cpu, FourBytes
<1> QED
  BY <1>1, <1>7 DEF b1, b2, b3, b4

\* A number that the firmware wrote is read back.
LEMMA ReadsWord ==
    ASSUME NEW p, NEW x \in 0 .. Word - 1,
           \A i \in 1 .. 4 : block[p + i] = Bytes32(x)[i]
    PROVE  fdt32_to_cpu(Load32(p)) = x
<1>1. /\ Bytes32(x) \in Seq(Byte) /\ Len(Bytes32(x)) = 4
      /\ x = FourBytes(Bytes32(x)[1], Bytes32(x)[2], Bytes32(x)[3], Bytes32(x)[4])
  BY WordBytes
<1>2. \A i \in 1 .. 4 : Bytes32(x)[i] \in Byte
  BY <1>1, ElementOfSeq
<1>3. /\ block[p + 1] = Bytes32(x)[1] /\ block[p + 2] = Bytes32(x)[2]
      /\ block[p + 3] = Bytes32(x)[3] /\ block[p + 4] = Bytes32(x)[4]
  OBVIOUS
<1>4. /\ Bytes32(x)[1] \in Byte /\ Bytes32(x)[2] \in Byte
      /\ Bytes32(x)[3] \in Byte /\ Bytes32(x)[4] \in Byte
  BY <1>2
<1>5. fdt32_to_cpu(Load32(p)) =
          FourBytes(block[p + 1], block[p + 2], block[p + 3], block[p + 4])
  BY <1>3, <1>4, LoadedWord
<1> QED
  BY <1>1, <1>3, <1>5

-----------------------------------------------------------------------------
(* Recursion on a number *)

Least(T) == CHOOSE x \in T : \A y \in T : x <= y

\* A set of natural numbers that is not empty has a least element.
LEMMA LeastNumber ==
    ASSUME NEW T, T \subseteq Nat, T # {}
    PROVE  Least(T) \in T /\ \A y \in T : Least(T) <= y
<1> DEFINE R == OpToRel(<, Nat)
<1>1. IsWellFoundedOn(R, Nat)
  BY NatLessThanWellFounded
<1>2. \A y, z \in Nat : y < z => <<y, z>> \in R
  BY DEF OpToRel
<1> HIDE DEF R
<1>3. PICK x \in T : \A y \in T : ~ (<<y, x>> \in R)
  BY <1>1, WFMin
<1>4. ASSUME NEW y \in T PROVE x <= y
  <2>1. x \in Nat /\ y \in Nat
    OBVIOUS
  <2>2. ~ (y < x)
    BY <1>2, <1>3, <2>1
  <2> QED
    BY <2>1, <2>2
<1> QED
  BY <1>4 DEF Least

\* f takes the steps g from b, up to the first k.
Follows(f, b, g, k) == f[0] = b /\ \A j \in 1 .. k : f[j] = g[j][f[j - 1]]

\* Steps on a set can be followed from any element of it.
LEMMA Recursion ==
    ASSUME NEW n \in Nat, NEW X, NEW b \in X, NEW g \in [1 .. n -> [X -> X]]
    PROVE  \E f \in [0 .. n -> X] : Follows(f, b, g, n)
<1> DEFINE Has(k) == \E f \in [0 .. k -> X] : Follows(f, b, g, k)
           T == {k \in 0 .. n : ~ Has(k)}
<1> SUFFICES ASSUME T # {} PROVE FALSE
  OBVIOUS
<1>1. PICK k \in T : \A j \in T : k <= j
  <2>1. T \subseteq Nat /\ T # {}
    OBVIOUS
  <2> HIDE DEF T
  <2> QED
    BY <2>1, LeastNumber
<1>2. k \in 0 .. n /\ ~ Has(k)
  OBVIOUS
<1>3. CASE k = 0
  <2>1. Follows([j \in 0 .. 0 |-> b], b, g, 0) /\ [j \in 0 .. 0 |-> b] \in [0 .. 0 -> X]
    BY DEF Follows
  <2> QED
    BY <1>2, <1>3, <2>1
<1>4. CASE k # 0
  <2>1. k - 1 \in 0 .. n /\ ~ (k <= k - 1) /\ k \in 1 .. n
    BY <1>2, <1>4
  <2>2. Has(k - 1)
    BY <1>1, <2>1
  <2>3. PICK f \in [0 .. k - 1 -> X] : Follows(f, b, g, k - 1)
    BY <2>2
  <2> DEFINE h == [j \in 0 .. k |-> IF j = k THEN g[k][f[k - 1]] ELSE f[j]]
  <2>4. f[k - 1] \in X /\ g[k] \in [X -> X]
    BY <2>1
  <2>5. h \in [0 .. k -> X]
    BY <2>1, <2>4
  <2>6. Follows(h, b, g, k)
    BY <2>1, <2>3 DEF Follows
  <2> QED
    BY <1>2, <2>5, <2>6
<1> QED
  BY <1>3, <1>4

-----------------------------------------------------------------------------
(* The number of eight bytes *)

\* Number, one byte after the other.
LEMMA NumberSteps ==
    ASSUME NEW bytes \in Seq(Byte)
    PROVE  \E v : /\ v[0] = 0 /\ v[Len(bytes)] = Number(bytes)
                  /\ \A k \in 1 .. Len(bytes) : v[k] = Radix * v[k - 1] + bytes[k]
<1> DEFINE n == Len(bytes)
           S == 0 .. n
           Eq(v) == v = [k \in S |-> IF k = 0 THEN 0 ELSE Radix * v[k - 1] + bytes[k]]
           g == [k \in 1 .. n |-> [x \in Int |-> Radix * x + bytes[k]]]
           v == CHOOSE w : Eq(w)
<1>1. n \in Nat /\ \A k \in 1 .. n : bytes[k] \in Int
  BY ElementOfSeq, Sizes DEF Byte
<1>2. Radix \in Int
  BY Sizes
<1>3. g \in [1 .. n -> [Int -> Int]]
  BY <1>1, <1>2
<1>4. PICK f \in [S -> Int] : Follows(f, 0, g, n)
  <2> HIDE DEF g, n
  <2>1. 0 \in Int
    OBVIOUS
  <2> QED
    BY <1>1, <1>3, <2>1, Recursion
<1>5. Eq(f)
  <2>1. ASSUME NEW k \in S PROVE f[k] = IF k = 0 THEN 0 ELSE Radix * f[k - 1] + bytes[k]
    <3>1. CASE k = 0
      BY <1>4, <3>1 DEF Follows
    <3>2. CASE k # 0
      <4>1. k \in 1 .. n /\ k - 1 \in S
        BY <1>1, <3>2
      <4>2. f[k] = g[k][f[k - 1]] /\ f[k - 1] \in Int
        BY <1>4, <4>1 DEF Follows
      <4> QED
        BY <3>2, <4>1, <4>2
    <3> QED
      BY <3>1, <3>2
  <2>2. f = [k \in S |-> f[k]]
    OBVIOUS
  <2> QED
    BY <2>1, <2>2
<1>6. Eq(v)
  BY <1>5
<1>7. Number(bytes) = v[n]
  BY DEF Number
<1> HIDE DEF v
<1>8. v[0] = 0
  BY <1>1, <1>6
<1>9. ASSUME NEW k \in 1 .. n PROVE v[k] = Radix * v[k - 1] + bytes[k]
  <2>1. k \in S /\ k # 0
    BY <1>1
  <2> QED
    BY <1>6, <2>1
<1> QED
  BY <1>7, <1>8, <1>9

\* The elements of a sequence of eight bytes.
LEMMA EightBytes ==
    ASSUME NEW bytes \in Seq(Byte), Len(bytes) = 8
    PROVE  /\ bytes[1] \in Byte /\ bytes[2] \in Byte /\ bytes[3] \in Byte /\ bytes[4] \in Byte
           /\ bytes[5] \in Byte /\ bytes[6] \in Byte /\ bytes[7] \in Byte /\ bytes[8] \in Byte
<1>1. \A i \in 1 .. 8 : bytes[i] \in Byte
  BY ElementOfSeq
<1> QED
  BY <1>1

\* Two words of four bytes make the number of eight bytes.
LEMMA NumberOfWords ==
    ASSUME NEW bytes \in Seq(Byte), Len(bytes) = 8
    PROVE  Number(bytes) = FourBytes(bytes[1], bytes[2], bytes[3], bytes[4]) * Word
                           + FourBytes(bytes[5], bytes[6], bytes[7], bytes[8])
<1>1. PICK v : /\ v[0] = 0 /\ v[8] = Number(bytes)
               /\ \A k \in 1 .. 8 : v[k] = Radix * v[k - 1] + bytes[k]
  <2>1. PICK v : /\ v[0] = 0 /\ v[Len(bytes)] = Number(bytes)
                 /\ \A k \in 1 .. Len(bytes) : v[k] = Radix * v[k - 1] + bytes[k]
    BY NumberSteps
  <2> QED
    BY <2>1, Zenon
<1>2. /\ bytes[1] \in Nat /\ bytes[2] \in Nat /\ bytes[3] \in Nat /\ bytes[4] \in Nat
      /\ bytes[5] \in Nat /\ bytes[6] \in Nat /\ bytes[7] \in Nat /\ bytes[8] \in Nat
  BY EightBytes, Sizes DEF Byte
<1>3. Radix \in Nat
  BY Sizes
<1>4. v[4] = FourBytes(bytes[1], bytes[2], bytes[3], bytes[4]) /\ v[4] \in Nat
  <2>1. /\ v[1] = Radix * v[0] + bytes[1] /\ v[2] = Radix * v[1] + bytes[2]
        /\ v[3] = Radix * v[2] + bytes[3] /\ v[4] = Radix * v[3] + bytes[4]
    BY <1>1
  <2>2. v[1] = bytes[1]
    BY <1>1, <1>2, <1>3, <2>1
  <2>3. v[4] = FourBytes(bytes[1], bytes[2], bytes[3], bytes[4])
    BY <2>1, <2>2, Zenon DEF FourBytes
  <2>4. \A x, y \in Nat : Radix * x + y \in Nat
    BY <1>3
  <2>5. v[2] \in Nat
    BY <1>2, <2>1, <2>2, <2>4, Zenon
  <2>6. v[3] \in Nat
    BY <1>2, <2>1, <2>4, <2>5, Zenon
  <2>7. v[4] \in Nat
    BY <1>2, <2>1, <2>4, <2>6, Zenon
  <2> QED
    BY <2>3, <2>7
<1>5. Number(bytes) = Radix * (Radix * (Radix * (Radix * v[4] + bytes[5]) + bytes[6]) + bytes[7]) + bytes[8]
  <2>1. /\ v[5] = Radix * v[4] + bytes[5] /\ v[6] = Radix * v[5] + bytes[6]
        /\ v[7] = Radix * v[6] + bytes[7] /\ v[8] = Radix * v[7] + bytes[8]
    BY <1>1
  <2> QED
    BY <1>1, <2>1
<1> DEFINE w == v[4]
           b5 == bytes[5]
           b6 == bytes[6]
           b7 == bytes[7]
           b8 == bytes[8]
<1> HIDE DEF w, b5, b6, b7, b8
<1>6. /\ w \in Nat /\ b5 \in Nat /\ b6 \in Nat /\ b7 \in Nat /\ b8 \in Nat
  BY <1>2, <1>4 DEF w, b5, b6, b7, b8
<1>7. Radix * (Radix * (Radix * (Radix * w + b5) + b6) + b7) + b8 =
        w * (Radix * Radix * Radix * Radix) + (Radix * (Radix * (Radix * b5 + b6) + b7) + b8)
  BY <1>3, <1>6
<1> QED
  BY <1>4, <1>5, <1>7 DEF FourBytes, Word, w, b5, b6, b7, b8

\* The two numbers of a reg property.
LEMMA Halves ==
    ASSUME NEW data \in Seq(Byte), Len(data) >= 16
    PROVE  /\ SubSeq(data, 1, 8) \in Seq(Byte) /\ Len(SubSeq(data, 1, 8)) = 8
           /\ \A i \in 1 .. 8 : SubSeq(data, 1, 8)[i] = data[i]
           /\ SubSeq(data, 9, 16) \in Seq(Byte) /\ Len(SubSeq(data, 9, 16)) = 8
           /\ \A i \in 1 .. 8 : SubSeq(data, 9, 16)[i] = data[8 + i]
<1>1. SubSeq(data, 1, 8) \in Seq(Byte) /\ Len(SubSeq(data, 1, 8)) = 8
  OBVIOUS
<1>2. SubSeq(data, 9, 16) \in Seq(Byte) /\ Len(SubSeq(data, 9, 16)) = 8
  OBVIOUS
<1>3. ASSUME NEW i \in 1 .. 8 PROVE SubSeq(data, 1, 8)[i] = data[i]
  OBVIOUS
<1>4. ASSUME NEW i \in 1 .. 8 PROVE SubSeq(data, 9, 16)[i] = data[8 + i]
  OBVIOUS
<1> QED
  BY <1>1, <1>2, <1>3, <1>4

\* fdt64_to_cpu reads the number of eight bytes.
LEMMA LoadedNumber ==
    ASSUME NEW p \in Nat, NEW bytes \in Seq(Byte), Len(bytes) = 8,
           \A i \in 1 .. 8 : block[p + i] = bytes[i]
    PROVE  fdt64_to_cpu(p) = Number(bytes)
<1>1. /\ bytes[1] \in Byte /\ bytes[2] \in Byte /\ bytes[3] \in Byte /\ bytes[4] \in Byte
      /\ bytes[5] \in Byte /\ bytes[6] \in Byte /\ bytes[7] \in Byte /\ bytes[8] \in Byte
  BY EightBytes
<1>2. /\ block[p + 1] = bytes[1] /\ block[p + 2] = bytes[2] /\ block[p + 3] = bytes[3]
      /\ block[p + 4] = bytes[4] /\ block[(p + 4) + 1] = bytes[5]
      /\ block[(p + 4) + 2] = bytes[6] /\ block[(p + 4) + 3] = bytes[7]
      /\ block[(p + 4) + 4] = bytes[8]
  <2>1. /\ (p + 4) + 1 = p + 5 /\ (p + 4) + 2 = p + 6 /\ (p + 4) + 3 = p + 7
        /\ (p + 4) + 4 = p + 8
    OBVIOUS
  <2> QED
    BY <2>1
<1>3. fdt32_to_cpu(Load32(p)) = FourBytes(bytes[1], bytes[2], bytes[3], bytes[4])
  BY <1>1, <1>2, LoadedWord
<1>4. fdt32_to_cpu(Load32(p + 4)) = FourBytes(bytes[5], bytes[6], bytes[7], bytes[8])
  BY <1>1, <1>2, LoadedWord
<1> QED
  BY <1>3, <1>4, NumberOfWords DEF fdt64_to_cpu

-----------------------------------------------------------------------------
(* The bytes of a tree *)

\* Padding fills up the last word.
LEMMA PaddedBytes ==
    ASSUME NEW bytes \in Seq(Byte)
    PROVE  /\ Padded(bytes) \in Seq(Byte)
           /\ Len(Padded(bytes)) = Aligned(Len(bytes) + 3)
           /\ Len(Padded(bytes)) \in Nat /\ Len(Padded(bytes)) >= Len(bytes)
           /\ Len(Padded(bytes)) % 4 = 0
           /\ \A i \in 1 .. Len(bytes) : Padded(bytes)[i] = bytes[i]
<1> DEFINE n == Len(bytes)
           m == (- n) % 4
           tail == [k \in 1 .. m |-> 0]
<1>1. n \in Nat
  OBVIOUS
<1>2. m \in 0 .. 3 /\ (n + m) % 4 = 0 /\ n + m = (n + 3) - ((n + 3) % 4)
  BY <1>1
<1>3. Padded(bytes) = bytes \o tail
  BY DEF Padded
<1> HIDE DEF m
<1>4. 0 \in Byte
  BY Sizes DEF Byte
<1>5. tail \in Seq(Byte) /\ Len(tail) = m
  BY <1>2, <1>4
<1> HIDE DEF tail
<1>6. /\ bytes \o tail \in Seq(Byte) /\ Len(bytes \o tail) = n + m
      /\ \A i \in 1 .. n : (bytes \o tail)[i] = bytes[i]
  BY <1>5
<1> QED
  BY <1>1, <1>2, <1>3, <1>6 DEF Aligned

\* The first tokens are numbers of one word.
LEMMA TokenWords ==
    0 \in 0 .. Word - 1 /\ 0 \in Byte /\ \A t \in Tokens : t \in 0 .. Word - 1
BY Sizes DEF Tokens, FDT_BEGIN_NODE, FDT_END_NODE, FDT_PROP, FDT_NOP, Byte

\* What is known of a piece of a tree.
LEMMA PieceOf ==
    ASSUME NEW t, WellFormed(t), NEW k \in 1 .. Len(t)
    PROVE  /\ t[k].token \in 0 .. Word - 1 /\ t[k].prop \in 0 .. Word - 1
           /\ t[k].name \in Seq(Byte) /\ t[k].data \in Seq(Byte)
           /\ \A i \in 1 .. Len(t[k].name) : t[k].name[i] # 0
           /\ Len(t[k].data) \in 0 .. Word - 1
<1>1. t[k] \in Piece /\ Len(t[k].data) < Word
  BY ElementOfSeq DEF WellFormed
<1>2. /\ t[k].token \in 0 .. Word - 1 /\ t[k].prop \in 0 .. Word - 1
      /\ t[k].name \in Seq(Byte \ {0}) /\ t[k].data \in Seq(Byte)
  BY <1>1 DEF Piece
<1>3. Len(t[k].data) \in 0 .. Word - 1
  BY <1>1, <1>2, Sizes
<1>4. t[k].name \in Seq(Byte)
  BY <1>2
<1>5. \A i \in 1 .. Len(t[k].name) : t[k].name[i] \in Byte \ {0}
  BY <1>2, ElementOfSeq
<1> QED
  BY <1>2, <1>3, <1>4, <1>5

\* Two sequences of bytes, one after the other.
LEMMA Joined ==
    \A x, y \in Seq(Byte) :
        /\ x \o y \in Seq(Byte) /\ Len(x \o y) = Len(x) + Len(y)
        /\ \A i \in 1 .. Len(x) : (x \o y)[i] = x[i]
        /\ \A i \in 1 .. Len(y) : (x \o y)[Len(x) + i] = y[i]
OBVIOUS

\* Three words, and what follows.
Consists(z, w1, w2, w3, y) ==
    /\ z \in Seq(Byte) /\ Len(z) = 12 + Len(y)
    /\ \A i \in 1 .. 4 : z[i] = w1[i] /\ z[4 + i] = w2[i] /\ z[8 + i] = w3[i]
    /\ \A i \in 1 .. Len(y) : z[12 + i] = y[i]

LEMMA ThreeWords ==
    ASSUME NEW w1 \in Seq(Byte), Len(w1) = 4, NEW w2 \in Seq(Byte), Len(w2) = 4,
           NEW w3 \in Seq(Byte), Len(w3) = 4, NEW y \in Seq(Byte)
    PROVE  Consists(((w1 \o w2) \o w3) \o y, w1, w2, w3, y)
<1> DEFINE h2 == w1 \o w2
           h3 == h2 \o w3
           z == h3 \o y
<1>1. 4 \in Nat /\ 8 \in Nat /\ 12 \in Nat /\ 4 + 4 = 8 /\ 8 + 4 = 12
  OBVIOUS
<1>2. /\ h2 \in Seq(Byte) /\ Len(h2) = 4 + Len(w2) /\ \A i \in 1 .. 4 : h2[i] = w1[i]
      /\ \A i \in 1 .. Len(w2) : h2[4 + i] = w2[i]
  <2>1. /\ h2 \in Seq(Byte) /\ Len(h2) = Len(w1) + Len(w2)
        /\ \A i \in 1 .. Len(w1) : h2[i] = w1[i]
        /\ \A i \in 1 .. Len(w2) : h2[Len(w1) + i] = w2[i]
    BY Joined, Zenon
  <2> QED
    BY <2>1, Zenon
<1> HIDE DEF h2
<1>3. Len(h2) = 8
  BY <1>1, <1>2, Zenon
<1>4. /\ h3 \in Seq(Byte) /\ Len(h3) = 8 + Len(w3) /\ \A i \in 1 .. 8 : h3[i] = h2[i]
      /\ \A i \in 1 .. Len(w3) : h3[8 + i] = w3[i]
  <2>1. /\ h3 \in Seq(Byte) /\ Len(h3) = Len(h2) + Len(w3)
        /\ \A i \in 1 .. Len(h2) : h3[i] = h2[i]
        /\ \A i \in 1 .. Len(w3) : h3[Len(h2) + i] = w3[i]
    BY <1>2, Joined, Zenon
  <2> QED
    BY <1>3, <2>1, Zenon
<1>5. z = h3 \o y /\ z = ((w1 \o w2) \o w3) \o y
  BY Zenon DEF h2
<1> HIDE DEF h3, z
<1>6. Len(h3) = 12
  BY <1>1, <1>4, Zenon
<1>7. /\ z \in Seq(Byte) /\ Len(z) = 12 + Len(y) /\ \A i \in 1 .. 12 : z[i] = h3[i]
      /\ \A i \in 1 .. Len(y) : z[12 + i] = y[i]
  <2>1. /\ h3 \o y \in Seq(Byte) /\ Len(h3 \o y) = Len(h3) + Len(y)
        /\ \A i \in 1 .. Len(h3) : (h3 \o y)[i] = h3[i]
        /\ \A i \in 1 .. Len(y) : (h3 \o y)[Len(h3) + i] = y[i]
    BY <1>4, Joined, Zenon
  <2> QED
    BY <1>5, <1>6, <2>1, Zenon
<1>8. ASSUME NEW i \in 1 .. 4 PROVE z[i] = w1[i] /\ z[4 + i] = w2[i] /\ z[8 + i] = w3[i]
  <2>1. i \in 1 .. 12 /\ 4 + i \in 1 .. 12 /\ 8 + i \in 1 .. 12 /\ i \in 1 .. 8 /\ 4 + i \in 1 .. 8
    BY <1>8
  <2>2. z[i] = h3[i] /\ z[4 + i] = h3[4 + i] /\ z[8 + i] = h3[8 + i]
    BY <1>7, <2>1, Zenon
  <2>3. h3[i] = h2[i] /\ h3[4 + i] = h2[4 + i] /\ h3[8 + i] = w3[i]
    BY <1>4, <1>8, <2>1, Zenon
  <2>4. h2[i] = w1[i] /\ h2[4 + i] = w2[i]
    BY <1>2, <1>8, Zenon
  <2> QED
    BY <2>2, <2>3, <2>4, Zenon
<1> QED
  BY <1>5, <1>7, <1>8, Zenon DEF Consists

\* Whole words, with one or three more.
LEMMA Whole ==
    ASSUME NEW n \in Nat, n % 4 = 0
    PROVE  /\ 4 + n \in Nat /\ 4 + n >= 4 /\ (4 + n) % 4 = 0
           /\ 12 + n \in Nat /\ 12 + n >= 4 /\ (12 + n) % 4 = 0
OBVIOUS

\* The bytes of a piece: the token, then the name, or the two words of a property and its
\* data.  They fill whole words.
Coded(code, piece) ==
    /\ code \in Seq(Byte) /\ Len(code) \in Nat /\ Len(code) % 4 = 0 /\ Len(code) >= 4
    /\ \A i \in 1 .. 4 : code[i] = Bytes32(piece.token)[i]
    /\ piece.token = FDT_BEGIN_NODE =>
          /\ Len(code) = 4 + Aligned(Len(piece.name) + 4)
          /\ 4 + Len(piece.name) + 1 <= Len(code)
          /\ \A i \in 1 .. Len(piece.name) : code[4 + i] = piece.name[i]
          /\ code[4 + Len(piece.name) + 1] = 0
    /\ piece.token = FDT_PROP =>
          /\ Len(code) = 12 + Aligned(Len(piece.data) + 3)
          /\ Len(piece.data) <= Len(code) - 12
          /\ \A i \in 1 .. 4 : code[4 + i] = Bytes32(Len(piece.data))[i]
          /\ \A i \in 1 .. 4 : code[8 + i] = Bytes32(piece.prop)[i]
          /\ \A i \in 1 .. Len(piece.data) : code[12 + i] = piece.data[i]
    /\ piece.token # FDT_BEGIN_NODE /\ piece.token # FDT_PROP => Len(code) = 4

LEMMA EncodedBytes ==
    ASSUME NEW t, WellFormed(t), NEW k \in 1 .. Len(t)
    PROVE  Coded(Encoded(t[k]), t[k])
<1> DEFINE piece == t[k]
           code == Encoded(t[k])
           w1 == Bytes32(piece.token)
           w2 == Bytes32(Len(piece.data))
           w3 == Bytes32(piece.prop)
           label == piece.name \o <<0>>
           name == Padded(label)
           data == Padded(piece.data)
<1> SUFFICES Coded(code, piece)
  OBVIOUS
<1> HIDE DEF piece, code
<1>1. /\ w1 \in Seq(Byte) /\ Len(w1) = 4 /\ w2 \in Seq(Byte) /\ Len(w2) = 4
      /\ w3 \in Seq(Byte) /\ Len(w3) = 4
  BY PieceOf, WordBytes DEF piece
<1>2. piece.name \in Seq(Byte) /\ piece.data \in Seq(Byte) /\ <<0>> \in Seq(Byte)
  BY PieceOf, TokenWords DEF piece
<1>3. /\ label \in Seq(Byte) /\ Len(label) = Len(piece.name) + 1
      /\ \A i \in 1 .. Len(piece.name) : label[i] = piece.name[i]
      /\ label[Len(piece.name) + 1] = 0
  BY <1>2
<1> HIDE DEF label, w1, w2, w3
<1>4. /\ name \in Seq(Byte) /\ Len(name) \in Nat /\ Len(name) % 4 = 0
      /\ Len(name) = Aligned(Len(piece.name) + 4) /\ Len(name) >= Len(piece.name) + 1
      /\ \A i \in 1 .. Len(piece.name) : name[i] = piece.name[i]
      /\ name[Len(piece.name) + 1] = 0
  <2>1. Len(label) + 3 = Len(piece.name) + 4 /\ Len(piece.name) \in Nat
    BY <1>2, <1>3
  <2>2. /\ name \in Seq(Byte) /\ Len(name) \in Nat /\ Len(name) % 4 = 0
        /\ Len(name) = Aligned(Len(label) + 3) /\ Len(name) >= Len(label)
        /\ \A i \in 1 .. Len(label) : name[i] = label[i]
    BY <1>3, PaddedBytes
  <2> HIDE DEF name
  <2> QED
    BY <1>3, <2>1, <2>2
<1>5. /\ data \in Seq(Byte) /\ Len(data) \in Nat /\ Len(data) % 4 = 0
      /\ Len(data) = Aligned(Len(piece.data) + 3) /\ Len(data) >= Len(piece.data)
      /\ \A i \in 1 .. Len(piece.data) : data[i] = piece.data[i]
  BY <1>2, PaddedBytes
<1> HIDE DEF name, data
<1>6. Len(piece.name) \in Nat /\ Len(piece.data) \in Nat
  BY <1>2
<1>7. CASE piece.token = FDT_BEGIN_NODE
  <2>1. code = w1 \o name
    BY <1>7 DEF Encoded, code, piece, w1, name, label, FDT_BEGIN_NODE, FDT_PROP
  <2>2. /\ code \in Seq(Byte) /\ Len(code) = 4 + Len(name)
        /\ \A i \in 1 .. 4 : code[i] = w1[i]
        /\ \A i \in 1 .. Len(name) : code[4 + i] = name[i]
    <3>1. /\ w1 \o name \in Seq(Byte) /\ Len(w1 \o name) = Len(w1) + Len(name)
          /\ \A i \in 1 .. Len(w1) : (w1 \o name)[i] = w1[i]
          /\ \A i \in 1 .. Len(name) : (w1 \o name)[Len(w1) + i] = name[i]
      BY <1>1, <1>4, Joined, Zenon
    <3> QED
      BY <1>1, <2>1, <3>1, Zenon
  <2>3. Len(code) % 4 = 0 /\ Len(code) >= 4 /\ Len(code) \in Nat
    <3>1. (4 + Len(name)) % 4 = 0 /\ 4 + Len(name) \in Nat /\ 4 + Len(name) >= 4
      BY <1>4, Whole
    <3> QED
      BY <2>2, <3>1, Zenon
  <2>4. ASSUME NEW i \in 1 .. Len(piece.name) PROVE code[4 + i] = piece.name[i]
    <3>1. i \in 1 .. Len(name)
      BY <1>4, <1>6
    <3> QED
      BY <1>4, <2>2, <3>1, Zenon
  <2>5. code[4 + Len(piece.name) + 1] = 0
    <3>1. Len(piece.name) + 1 \in 1 .. Len(name) /\
          4 + (Len(piece.name) + 1) = 4 + Len(piece.name) + 1
      BY <1>4, <1>6
    <3> QED
      BY <1>4, <2>2, <3>1, Zenon
  <2>6. 4 + Len(piece.name) + 1 <= Len(code) /\ Len(code) = 4 + Aligned(Len(piece.name) + 4)
    BY <1>4, <1>6, <2>2
  <2>7. piece.token # FDT_PROP
    BY <1>7 DEF FDT_BEGIN_NODE, FDT_PROP
  <2> QED
    BY <1>7, <2>2, <2>3, <2>4, <2>5, <2>6, <2>7, Zenon DEF Coded, w1
<1>8. CASE piece.token = FDT_PROP
  <2>1. piece.token # FDT_BEGIN_NODE
    BY <1>8 DEF FDT_BEGIN_NODE, FDT_PROP
  <2>2. code = ((w1 \o w2) \o w3) \o data
    BY <1>8, <2>1 DEF Encoded, code, piece, w1, w2, w3, data
  <2>3. /\ code \in Seq(Byte) /\ Len(code) = 12 + Len(data)
        /\ \A i \in 1 .. 4 : code[i] = w1[i] /\ code[4 + i] = w2[i] /\ code[8 + i] = w3[i]
        /\ \A i \in 1 .. Len(data) : code[12 + i] = data[i]
    <3>1. Consists(((w1 \o w2) \o w3) \o data, w1, w2, w3, data)
      BY <1>1, <1>5, ThreeWords
    <3> QED
      BY <2>2, <3>1, Zenon DEF Consists
  <2>4. Len(code) % 4 = 0 /\ Len(code) \in Nat /\ Len(code) >= 4
    <3>1. (12 + Len(data)) % 4 = 0 /\ 12 + Len(data) \in Nat /\ 12 + Len(data) >= 4
      BY <1>5, Whole
    <3> QED
      BY <2>3, <3>1, Zenon
  <2>5. ASSUME NEW i \in 1 .. Len(piece.data) PROVE code[12 + i] = piece.data[i]
    <3>1. i \in 1 .. Len(data)
      BY <1>5, <1>6
    <3> QED
      BY <1>5, <2>3, <3>1, Zenon
  <2>6. Len(piece.data) <= Len(code) - 12 /\ Len(code) = 12 + Aligned(Len(piece.data) + 3)
    <3> HIDE DEF data
    <3>1. Len(code) = 12 + Len(data)
      BY <2>3
    <3> QED
      BY <1>5, <1>6, <3>1
  <2> QED
    BY <1>8, <2>1, <2>3, <2>4, <2>5, <2>6, Zenon DEF Coded, w1, w2, w3
<1>9. CASE piece.token # FDT_BEGIN_NODE /\ piece.token # FDT_PROP
  <2>1. code = w1
    BY <1>9 DEF Encoded, code, piece, w1
  <2>2. Len(code) = 4 /\ 4 % 4 = 0 /\ 4 \in Nat /\ 4 >= 4
    BY <1>1, <2>1
  <2> QED
    BY <1>1, <1>9, <2>1, <2>2, Zenon DEF Coded, w1
<1> QED
  BY <1>7, <1>8, <1>9

\* Parts, one piece after the other.
LEMMA PartSteps ==
    ASSUME NEW t, WellFormed(t)
    PROVE  /\ Parts(t)[0] = <<>>
           /\ \A k \in 1 .. Len(t) : Parts(t)[k] = Parts(t)[k - 1] \o Encoded(t[k])
<1> DEFINE n == Len(t)
           S == 0 .. n
           Eq(e) == e = [k \in S |-> IF k = 0 THEN <<>> ELSE e[k - 1] \o Encoded(t[k])]
           X == Seq(Byte)
           g == [k \in 1 .. n |-> [x \in X |-> x \o Encoded(t[k])]]
           e == CHOOSE w : Eq(w)
<1>1. n \in Nat
  BY DEF WellFormed
<1>2. ASSUME NEW k \in 1 .. n, NEW x \in X PROVE x \o Encoded(t[k]) \in X
  BY EncodedBytes DEF Coded
<1>3. g \in [1 .. n -> [X -> X]]
  BY <1>2
<1>4. PICK f \in [S -> X] : Follows(f, <<>>, g, n)
  <2>1. <<>> \in X
    OBVIOUS
  <2> HIDE DEF g, n, X
  <2> QED
    BY <1>1, <1>3, <2>1, Recursion
<1>5. Eq(f)
  <2>1. ASSUME NEW k \in S PROVE f[k] = IF k = 0 THEN <<>> ELSE f[k - 1] \o Encoded(t[k])
    <3>1. CASE k = 0
      BY <1>4, <3>1 DEF Follows
    <3>2. CASE k # 0
      <4>1. k \in 1 .. n /\ k - 1 \in S
        BY <1>1, <3>2
      <4>2. f[k] = g[k][f[k - 1]] /\ f[k - 1] \in X
        BY <1>4, <4>1 DEF Follows
      <4> HIDE DEF X
      <4> QED
        BY <3>2, <4>1, <4>2
    <3> QED
      BY <3>1, <3>2
  <2>2. f = [k \in S |-> f[k]]
    OBVIOUS
  <2> QED
    BY <2>1, <2>2
<1>6. Eq(e)
  BY <1>5
<1>7. Parts(t) = e
  BY DEF Parts
<1> HIDE DEF e
<1>8. e[0] = <<>>
  BY <1>1, <1>6
<1>9. ASSUME NEW k \in 1 .. n PROVE e[k] = e[k - 1] \o Encoded(t[k])
  <2>1. k \in S /\ k # 0
    BY <1>1
  <2> QED
    BY <1>6, <2>1
<1> QED
  BY <1>7, <1>8, <1>9

\* The first pieces are whole words.
LEMMA PartBytes ==
    ASSUME NEW t, WellFormed(t), NEW k \in 0 .. Len(t)
    PROVE  Parts(t)[k] \in Seq(Byte) /\ Len(Parts(t)[k]) \in Nat /\ Len(Parts(t)[k]) % 4 = 0
<1> DEFINE P == Parts(t)
           Good(j) == P[j] \in Seq(Byte) /\ Len(P[j]) % 4 = 0
           T == {j \in 0 .. Len(t) : ~ Good(j)}
<1>1. Len(t) \in Nat
  BY DEF WellFormed
<1>2. P[0] = <<>> /\ \A j \in 1 .. Len(t) : P[j] = P[j - 1] \o Encoded(t[j])
  BY PartSteps
<1> HIDE DEF P
<1>3. T = {}
  <2> SUFFICES ASSUME T # {} PROVE FALSE
    OBVIOUS
  <2>1. PICK j \in T : \A i \in T : j <= i
    <3>1. 0 .. Len(t) \subseteq Nat /\ T \subseteq 0 .. Len(t)
      <4> HIDE DEF Good
      <4> QED
        BY <1>1
    <3>2. T \subseteq Nat /\ T # {}
      BY <3>1, Zenon
    <3> HIDE DEF T
    <3> QED
      BY <3>2, LeastNumber
  <2>2. j \in 0 .. Len(t) /\ ~ Good(j)
    OBVIOUS
  <2>3. j # 0
    <3>1. Len(<<>>) % 4 = 0 /\ <<>> \in Seq(Byte)
      OBVIOUS
    <3> QED
      BY <1>2, <2>2, <3>1
  <2>4. j - 1 \in 0 .. Len(t) /\ ~ (j <= j - 1) /\ j \in 1 .. Len(t)
    BY <1>1, <2>2, <2>3
  <2>5. Good(j - 1)
    BY <2>1, <2>4
  <2> DEFINE x == P[j - 1]
             y == Encoded(t[j])
  <2>6. /\ y \in Seq(Byte) /\ Len(y) % 4 = 0 /\ Len(y) \in Nat
        /\ x \in Seq(Byte) /\ Len(x) % 4 = 0 /\ Len(x) \in Nat
    <3>1. y \in Seq(Byte) /\ Len(y) % 4 = 0 /\ Len(y) \in Nat
      BY <2>4, EncodedBytes DEF Coded
    <3>2. x \in Seq(Byte) /\ Len(x) % 4 = 0
      BY <2>5, Zenon
    <3> HIDE DEF x, y
    <3>3. Len(x) \in Nat
      BY <3>2
    <3> QED
      BY <3>1, <3>2, <3>3, Zenon
  <2> HIDE DEF x, y
  <2>7. x \o y \in Seq(Byte) /\ Len(x \o y) = Len(x) + Len(y)
    BY <2>6, Joined, Zenon
  <2>8. (Len(x) + Len(y)) % 4 = 0
    BY <2>6
  <2>9. P[j] = x \o y
    BY <1>2, <2>4 DEF x, y
  <2> QED
    BY <2>2, <2>7, <2>8, <2>9, Zenon
<1>4. Good(k)
  BY <1>3
<1>5. Len(P[k]) \in Nat
  BY <1>4
<1> QED
  BY <1>4, <1>5 DEF P

\* The bytes of a later piece are behind those of the ones before.
LEMMA PartPrefix ==
    ASSUME NEW t, WellFormed(t), NEW k \in 0 .. Len(t), NEW m \in k .. Len(t)
    PROVE  /\ Len(Parts(t)[k]) <= Len(Parts(t)[m])
           /\ \A i \in 1 .. Len(Parts(t)[k]) : Parts(t)[m][i] = Parts(t)[k][i]
<1> DEFINE P == Parts(t)
           n == Len(P[k])
           Good(j) == n <= Len(P[j]) /\ \A i \in 1 .. n : P[j][i] = P[k][i]
           T == {j \in k .. Len(t) : ~ Good(j)}
<1>1. Len(t) \in Nat /\ k \in Nat
  BY DEF WellFormed
<1>2. \A j \in 1 .. Len(t) : P[j] = P[j - 1] \o Encoded(t[j])
  BY PartSteps
<1>3. \A j \in 0 .. Len(t) : P[j] \in Seq(Byte) /\ Len(P[j]) \in Nat
  BY PartBytes
<1> HIDE DEF P
<1>4. n \in Nat
  BY <1>3
<1>5. T = {}
  <2> SUFFICES ASSUME T # {} PROVE FALSE
    OBVIOUS
  <2>1. PICK j \in T : \A i \in T : j <= i
    <3>1. T \subseteq Nat /\ T # {}
      BY <1>1
    <3> HIDE DEF T
    <3> QED
      BY <3>1, LeastNumber
  <2>2. j \in k .. Len(t) /\ ~ Good(j)
    OBVIOUS
  <2>3. j # k
    BY <1>4, <2>2
  <2>4. j - 1 \in k .. Len(t) /\ ~ (j <= j - 1) /\ j \in 1 .. Len(t) /\ j - 1 \in 0 .. Len(t)
    BY <1>1, <2>2, <2>3
  <2>5. Good(j - 1)
    BY <2>1, <2>4
  <2> DEFINE x == P[j - 1]
             y == Encoded(t[j])
  <2>6. x \in Seq(Byte) /\ Len(x) \in Nat /\ y \in Seq(Byte) /\ Len(y) \in Nat
    BY <1>3, <2>4, EncodedBytes DEF Coded
  <2>7. n <= Len(x) /\ \A i \in 1 .. n : x[i] = P[k][i]
    BY <2>5
  <2> HIDE DEF x, y, n
  <2>8. Len(x \o y) = Len(x) + Len(y) /\ \A i \in 1 .. Len(x) : (x \o y)[i] = x[i]
    BY <2>6, Joined, Zenon
  <2>9. P[j] = x \o y
    BY <1>2, <2>4 DEF x, y
  <2> DEFINE z == x \o y
  <2> HIDE DEF z
  <2>10. Len(P[j]) = Len(x) + Len(y) /\ \A i \in 1 .. Len(x) : P[j][i] = x[i]
    BY <2>8, <2>9, Zenon
  <2>11. n <= Len(P[j])
    BY <1>4, <2>6, <2>7, <2>10
  <2>12. ASSUME NEW i \in 1 .. n PROVE P[j][i] = P[k][i]
    <3>1. i \in 1 .. Len(x)
      BY <1>4, <2>6, <2>7
    <3> QED
      BY <2>7, <2>10, <3>1, Zenon
  <2> QED
    BY <2>2, <2>11, <2>12, Zenon
<1>6. Good(m)
  BY <1>5
<1> QED
  BY <1>6 DEF P

\* Where the bytes of a piece are in the block.
Placed(t, k, at) ==
    /\ at \in Nat /\ at % 4 = 0
    /\ Len(Parts(t)[k]) = at + Len(Encoded(t[k]))
    /\ Len(Parts(t)[k]) <= Len(Encoding(t)) /\ Len(Encoding(t)) \in Nat
    /\ \A i \in 1 .. Len(Encoded(t[k])) : Encoding(t)[at + i] = Encoded(t[k])[i]

LEMMA PieceAt ==
    ASSUME NEW t, WellFormed(t), NEW k \in 1 .. Len(t)
    PROVE  Placed(t, k, Len(Parts(t)[k - 1]))
<1> DEFINE at == Len(Parts(t)[k - 1])
           P == Parts(t)
           x == P[k - 1]
           y == Encoded(t[k])
           n == Len(t)
<1>1. n \in Nat /\ k - 1 \in 0 .. n /\ k \in 0 .. n /\ n \in 0 .. n /\ n \in k .. n
  BY DEF WellFormed
<1>2. P[k] = x \o y
  BY PartSteps
<1>3. x \in Seq(Byte) /\ Len(x) \in Nat /\ Len(x) % 4 = 0 /\ y \in Seq(Byte) /\ Len(y) \in Nat
  BY <1>1, PartBytes, EncodedBytes DEF Coded
<1>4. Len(P[k]) <= Len(P[n]) /\ \A i \in 1 .. Len(P[k]) : P[n][i] = P[k][i]
  BY <1>1, PartPrefix
<1>5. Len(P[n]) \in Nat
  BY <1>1, PartBytes
<1>6. Encoding(t) = P[n] /\ at = Len(x)
  BY DEF Encoding
<1> HIDE DEF P, x, y, n, at
<1>7. Len(x \o y) = Len(x) + Len(y) /\ \A i \in 1 .. Len(y) : (x \o y)[Len(x) + i] = y[i]
  BY <1>3, Joined, Zenon
<1>8. Len(P[k]) = at + Len(y) /\ \A i \in 1 .. Len(y) : P[k][at + i] = y[i]
  BY <1>2, <1>6, <1>7, Zenon
<1>9. ASSUME NEW i \in 1 .. Len(y) PROVE P[n][at + i] = y[i]
  <2>1. at + i \in 1 .. Len(P[k])
    BY <1>3, <1>6, <1>8
  <2> QED
    BY <1>4, <1>8, <2>1, Zenon
<1> QED
  BY <1>3, <1>4, <1>5, <1>6, <1>8, <1>9 DEF Placed, P, y, at

-----------------------------------------------------------------------------
(* Reading a piece *)

\* The parser is before piece k.
At(k) ==
    /\ tree \in Trees /\ block = Encoding(tree)
    /\ k \in 1 .. Len(tree) /\ struct_ptr = Len(Parts(tree)[k - 1])

\* What the parser sees of the piece.
LEMMA Sees ==
    ASSUME NEW k, At(k), NEW piece, piece = tree[k]
    PROVE  /\ struct_ptr \in Nat /\ struct_ptr % 4 = 0 /\ Len(block) \in Nat
           /\ Len(Parts(tree)[k]) = struct_ptr + Len(Encoded(piece))
           /\ struct_ptr + Len(Encoded(piece)) <= Len(block)
           /\ \A i \in 1 .. Len(Encoded(piece)) : block[struct_ptr + i] = Encoded(piece)[i]
<1>1. WellFormed(tree)
  BY TreesAssumption DEF At
<1> DEFINE at == struct_ptr
<1>2. at = Len(Parts(tree)[k - 1]) /\ k \in 1 .. Len(tree) /\ block = Encoding(tree)
  BY DEF At
<1> HIDE DEF at
<1>3. Placed(tree, k, at)
  BY <1>1, <1>2, PieceAt
<1> QED
  BY <1>2, <1>3 DEF at, Placed

\* The token.
LEMMA ReadsToken == ASSUME NEW k, At(k) PROVE token = tree[k].token
<1> DEFINE code == Encoded(tree[k])
           x == tree[k].token
<1>1. WellFormed(tree) /\ k \in 1 .. Len(tree)
  BY TreesAssumption DEF At
<1>2. x \in 0 .. Word - 1
  BY <1>1, PieceOf
<1>3. Len(code) \in Nat /\ Len(code) >= 4 /\ \A i \in 1 .. 4 : code[i] = Bytes32(x)[i]
  BY <1>1, EncodedBytes DEF Coded
<1>4. \A i \in 1 .. Len(code) : block[struct_ptr + i] = code[i]
  BY Sees
<1> HIDE DEF code, x
<1>5. ASSUME NEW i \in 1 .. 4 PROVE block[struct_ptr + i] = Bytes32(x)[i]
  <2>1. i \in 1 .. Len(code)
    BY <1>3
  <2> QED
    BY <1>3, <1>4, <2>1, Zenon
<1> QED
  BY <1>2, <1>5, ReadsWord DEF token, x

\* The words and the data of a property, and where the next piece begins.
LEMMA ReadsProperty ==
    ASSUME NEW k, At(k), tree[k].token = FDT_PROP
    PROVE  /\ prop_len = Len(tree[k].data) /\ prop_nameoff = tree[k].prop
           /\ prop_data \in Nat
           /\ \A i \in 1 .. Len(tree[k].data) : block[prop_data + i] = tree[k].data[i]
           /\ Aligned(prop_data + prop_len + 3) = Len(Parts(tree)[k])
<1> DEFINE code == Encoded(tree[k])
           data == tree[k].data
           prop == tree[k].prop
           m == Len(data)
<1>1. WellFormed(tree) /\ k \in 1 .. Len(tree)
  BY TreesAssumption DEF At
<1>2. m \in 0 .. Word - 1 /\ prop \in 0 .. Word - 1 /\ m \in Nat
  BY <1>1, PieceOf
<1>3. /\ Len(code) = 12 + Aligned(m + 3)
      /\ m <= Len(code) - 12 /\ Len(code) \in Nat
      /\ \A i \in 1 .. 4 : code[4 + i] = Bytes32(m)[i]
      /\ \A i \in 1 .. 4 : code[8 + i] = Bytes32(prop)[i]
      /\ \A i \in 1 .. m : code[12 + i] = data[i]
  <2>1. Coded(code, tree[k])
    BY <1>1, EncodedBytes
  <2> HIDE DEF code
  <2> QED
    BY <2>1, Zenon DEF Coded
<1>4. /\ struct_ptr \in Nat /\ struct_ptr % 4 = 0
      /\ \A i \in 1 .. Len(code) : block[struct_ptr + i] = code[i]
      /\ Len(Parts(tree)[k]) = struct_ptr + Len(code)
  BY Sees
<1> HIDE DEF code, data, prop, m
<1>5. /\ here = struct_ptr + 4 /\ here + 4 = struct_ptr + 8 /\ prop_data = struct_ptr + 12
      /\ prop_data \in Nat
  BY <1>4 DEF here, prop_data
<1>6. struct_ptr \in Nat /\ Len(code) \in Nat /\ Len(code) >= 12 + m /\ m \in Nat
  BY <1>2, <1>3, <1>4
<1>7. ASSUME NEW i \in 1 .. 4
      PROVE  block[here + i] = Bytes32(m)[i] /\ block[(here + 4) + i] = Bytes32(prop)[i]
  <2>1. /\ 4 + i \in 1 .. Len(code) /\ (struct_ptr + 4) + i = struct_ptr + (4 + i)
        /\ 8 + i \in 1 .. Len(code) /\ (struct_ptr + 8) + i = struct_ptr + (8 + i)
    BY <1>6
  <2>2. block[struct_ptr + (4 + i)] = Bytes32(m)[i]
    BY <1>3, <1>4, <1>7, <2>1, Zenon
  <2>3. block[struct_ptr + (8 + i)] = Bytes32(prop)[i]
    BY <1>3, <1>4, <1>7, <2>1, Zenon
  <2> QED
    BY <1>5, <2>1, <2>2, <2>3, Zenon
<1>8. ASSUME NEW i \in 1 .. m PROVE block[prop_data + i] = data[i]
  <2>1. 12 + i \in 1 .. Len(code) /\ (struct_ptr + 12) + i = struct_ptr + (12 + i)
    BY <1>6
  <2>2. block[struct_ptr + (12 + i)] = data[i]
    BY <1>3, <1>4, <1>8, <2>1, Zenon
  <2> QED
    BY <1>5, <2>1, <2>2, Zenon
<1>9. prop_len = m
  BY <1>2, <1>7, ReadsWord DEF prop_len
<1>10. prop_nameoff = prop
  BY <1>2, <1>7, ReadsWord DEF prop_nameoff
<1>11. Aligned(prop_data + m + 3) = struct_ptr + Len(code)
  <2> DEFINE p == struct_ptr
  <2> HIDE DEF p
  <2>1. p \in Nat /\ p % 4 = 0
    BY <1>4 DEF p
  <2>2. (p + 12 + m + 3) - ((p + 12 + m + 3) % 4) = p + (12 + ((m + 3) - ((m + 3) % 4)))
    BY <1>2, <2>1
  <2>3. Len(code) = 12 + ((m + 3) - ((m + 3) % 4)) /\ prop_data = p + 12
    BY <1>3, <1>5 DEF Aligned, p
  <2> QED
    BY <2>2, <2>3 DEF Aligned, p
<1> QED
  BY <1>4, <1>5, <1>8, <1>9, <1>10, <1>11 DEF data, prop, m

\* The name of a node, and where the next piece begins.
LEMMA ReadsName ==
    ASSUME NEW k, At(k), tree[k].token = FDT_BEGIN_NODE
    PROVE  /\ NameLen(here) = Len(tree[k].name)
           /\ \A i \in 1 .. Len(tree[k].name) : block[here + i] = tree[k].name[i]
           /\ SkipName(here, NameLen(here)) = Len(Parts(tree)[k])
<1> DEFINE code == Encoded(tree[k])
           name == tree[k].name
           n == Len(name)
<1>1. WellFormed(tree) /\ k \in 1 .. Len(tree)
  BY TreesAssumption DEF At
<1>2. n \in Nat /\ \A i \in 1 .. n : name[i] # 0
  BY <1>1, PieceOf
<1>3. /\ Len(code) = 4 + Aligned(n + 4)
      /\ 4 + n + 1 <= Len(code) /\ Len(code) \in Nat
      /\ \A i \in 1 .. n : code[4 + i] = name[i]
      /\ code[4 + n + 1] = 0
  <2>1. Coded(code, tree[k])
    BY <1>1, EncodedBytes
  <2> HIDE DEF code
  <2> QED
    BY <2>1, Zenon DEF Coded
<1>4. /\ struct_ptr \in Nat /\ struct_ptr % 4 = 0 /\ Len(block) \in Nat
      /\ \A i \in 1 .. Len(code) : block[struct_ptr + i] = code[i]
      /\ Len(Parts(tree)[k]) = struct_ptr + Len(code)
      /\ struct_ptr + Len(code) <= Len(block)
  BY Sees
<1> HIDE DEF code, name, n
<1>5. here = struct_ptr + 4
  BY DEF here
<1>6. ASSUME NEW i \in 1 .. n PROVE block[here + i] = name[i]
  <2>1. 4 + i \in 1 .. Len(code) /\ here + i = struct_ptr + (4 + i)
    BY <1>2, <1>3, <1>4, <1>5
  <2> QED
    BY <1>3, <1>4, <2>1, Zenon
<1>7. block[here + n + 1] = 0
  <2>1. 4 + n + 1 \in 1 .. Len(code) /\ here + n + 1 = struct_ptr + (4 + n + 1)
    BY <1>2, <1>3, <1>4, <1>5
  <2> QED
    BY <1>3, <1>4, <2>1, Zenon
<1>8. NameLen(here) = n
  <2> DEFINE Ends0(e) == block[here + e + 1] = 0 /\ \A j \in 1 .. e : block[here + j] # 0
  <2>1. n \in 0 .. Len(block)
    <3>1. n <= Len(code) /\ Len(code) <= Len(block)
      <4>1. n <= Len(code)
        BY <1>2, <1>3
      <4> QED
        BY <1>3, <1>4, <4>1
    <3> QED
      BY <1>2, <1>3, <1>4, <3>1
  <2>2. Ends0(n)
    BY <1>2, <1>6, <1>7, Zenon
  <2>3. ASSUME NEW e \in 0 .. Len(block), Ends0(e) PROVE e = n
    <3>1. ~ (e < n)
      <4> SUFFICES ASSUME e < n PROVE FALSE
        OBVIOUS
      <4>1. e + 1 \in 1 .. n /\ here + (e + 1) = here + e + 1
        BY <1>2, <1>4, <1>5
      <4> QED
        BY <2>2, <2>3, <4>1, Zenon
    <3>2. ~ (n < e)
      <4> SUFFICES ASSUME n < e PROVE FALSE
        OBVIOUS
      <4>1. n + 1 \in 1 .. e /\ here + (n + 1) = here + n + 1
        BY <1>2, <1>4, <1>5
      <4> QED
        BY <1>7, <2>3, <4>1, Zenon
    <3> QED
      BY <1>2, <3>1, <3>2
  <2> DEFINE w == CHOOSE e \in 0 .. Len(block) : Ends0(e)
  <2>4. NameLen(here) = w
    BY DEF NameLen
  <2> HIDE DEF Ends0
  <2>5. w \in 0 .. Len(block) /\ Ends0(w)
    BY <2>1, <2>2, Zenon
  <2> HIDE DEF w
  <2> QED
    BY <2>3, <2>4, <2>5
<1>9. SkipName(here, n) = struct_ptr + Len(code)
  <2> DEFINE p == struct_ptr
  <2> HIDE DEF p
  <2>1. p \in Nat /\ p % 4 = 0
    BY <1>4 DEF p
  <2>2. (p + 4 + n + 4) - ((p + 4 + n + 4) % 4) = p + (4 + ((n + 4) - ((n + 4) % 4)))
    BY <1>2, <2>1
  <2>3. Len(code) = 4 + ((n + 4) - ((n + 4) % 4)) /\ here = p + 4
    BY <1>3, <1>5 DEF Aligned, p
  <2> QED
    BY <2>2, <2>3 DEF SkipName, Aligned, p
<1> QED
  BY <1>4, <1>6, <1>8, <1>9 DEF name, n

-----------------------------------------------------------------------------
(* Nodes and their names *)

\* The tokens differ.
LEMMA FourTokens ==
    /\ FDT_BEGIN_NODE # FDT_END_NODE /\ FDT_BEGIN_NODE # FDT_PROP /\ FDT_BEGIN_NODE # FDT_NOP
    /\ FDT_END_NODE # FDT_PROP /\ FDT_END_NODE # FDT_NOP /\ FDT_PROP # FDT_NOP
BY DEF FDT_BEGIN_NODE, FDT_END_NODE, FDT_PROP, FDT_NOP

\* What one more element leaves as it was.
LEMMA Appended ==
    \A s \in Seq(1 .. 7), e \in 1 .. 7 : \A i \in 1 .. Len(s) : Append(s, e)[i] = s[i]
OBVIOUS

\* The name of a memory node, and no other, begins with memory.
LEMMA MemoryName ==
    ASSUME NEW t, WellFormed(t), NEW k \in 1 .. Len(t)
    PROVE  IsMemoryNode(t[k].name) <=>
                Len(t[k].name) >= 6 /\ \A i \in 1 .. 6 : t[k].name[i] = memory[i]
<1> DEFINE name == t[k].name
<1>1. name \in Seq(Byte) /\ Len(name) \in Nat
  BY PieceOf
<1>2. Len(memory) = 6 /\ memory \in Seq(1 .. 7)
  BY DEF memory, Letter
<1>3. CASE name = memory
  <2>1. Len(name) = 6 /\ 6 >= 6
    BY <1>2, <1>3
  <2> QED
    BY <1>3, <2>1, Zenon DEF IsMemoryNode
<1>4. CASE Len(name) > 6 /\ SubSeq(name, 1, 7) = Append(memory, Letter.at)
  <2>1. Len(name) >= 6
    BY <1>1, <1>4
  <2>2. ASSUME NEW i \in 1 .. 6 PROVE name[i] = memory[i]
    <3>1. i \in 1 .. 7
      OBVIOUS
    <3>2. SubSeq(name, 1, 7)[i] = name[i]
      BY <1>1, <1>4, <3>1
    <3>3. Append(memory, Letter.at)[i] = memory[i]
      <4>1. i \in 1 .. Len(memory) /\ Letter.at \in 1 .. 7
        BY <1>2 DEF Letter
      <4> QED
        BY <1>2, <4>1, Appended, Zenon
    <3> QED
      BY <1>4, <3>2, <3>3
  <2> QED
    BY <1>4, <2>1, <2>2 DEF IsMemoryNode
<1>5. (Len(name) >= 6 /\ \A i \in 1 .. 6 : name[i] = memory[i]) => IsMemoryNode(name)
  BY DEF WellFormed
<1> QED
  BY <1>3, <1>4, <1>5 DEF IsMemoryNode

\* A property belongs to the last node that began before it, and the parser knows
\* whether that one is a memory node.
LEMMA PropertyOf ==
    ASSUME WellFormed(tree), NEW k \in Nat, k + 1 \in 1 .. Len(tree),
           tree[k + 1].token = FDT_PROP
    PROVE  InMemory(k) <=> IsMemoryNode(tree[NodeOf(k + 1)].name)
<1> DEFINE n == k + 1
<1>1. PICK j \in 1 .. n : InFront(tree, j, n)
  BY DEF WellFormed
<1>2. /\ tree[j].token = FDT_BEGIN_NODE /\ j \in Nat /\ j # n /\ j \in 1 .. k
      /\ \A l \in j + 1 .. n :
            tree[l].token # FDT_BEGIN_NODE /\ tree[l].token # FDT_END_NODE
  BY <1>1, FourTokens DEF InFront
<1>3. Opened(n) = Opened(j) /\ Closed(n) = Closed(j) /\ j \in Opened(n)
      /\ \A l \in Opened(n) : l <= j
  <2>1. ASSUME NEW l \in 1 .. n, tree[l].token = FDT_BEGIN_NODE \/ tree[l].token = FDT_END_NODE
        PROVE  l \in 1 .. j
    <3>1. l \notin j + 1 .. n
      BY <1>2, <2>1
    <3> QED
      BY <1>2, <3>1
  <2>2. 1 .. j \subseteq 1 .. n /\ \A l \in 1 .. j : l <= j
    BY <1>2
  <2>3. j \in 1 .. n
    OBVIOUS
  <2> QED
    BY <1>2, <2>1, <2>2, <2>3, Zenon DEF Opened, Closed
<1>4. Depth(j) = Depth(n)
  BY <1>3 DEF Depth
<1> DEFINE Is(x) == Depth(x) = Depth(n) /\ \A l \in Opened(n) : Depth(l) = Depth(n) => l <= x
           w == CHOOSE x \in Opened(n) : Is(x)
<1>5. NodeOf(n) = w
  BY DEF NodeOf
<1>6. j \in Opened(n) /\ Is(j)
  BY <1>3, <1>4
<1>7. w \in Opened(n) /\ Is(w)
  <2> HIDE DEF Is
  <2> QED
    BY <1>6, Zenon
<1> HIDE DEF w
<1>8. j <= w /\ w <= j /\ w \in Nat
  BY <1>3, <1>4, <1>7 DEF Opened
<1>9. NodeOf(n) = j
  BY <1>2, <1>5, <1>8
<1>10. IsMemoryNode(tree[j].name) => InMemory(k)
  <2>1. j + 1 .. k \subseteq j + 1 .. n
    BY <1>2
  <2> QED
    BY <1>2, <2>1, Zenon DEF InMemory
<1>11. InMemory(k) => IsMemoryNode(tree[j].name)
  <2> SUFFICES ASSUME InMemory(k) PROVE IsMemoryNode(tree[j].name)
    OBVIOUS
  <2>1. PICK i \in 1 .. k : /\ tree[i].token = FDT_BEGIN_NODE /\ IsMemoryNode(tree[i].name)
                            /\ \A l \in i + 1 .. k : tree[l].token # FDT_END_NODE
    BY DEF InMemory
  <2>2. i <= j
    <3>1. i \notin j + 1 .. n
      BY <1>2, <2>1
    <3> QED
      BY <1>2, <3>1
  <2>3. ~ (i < j)
    <3> SUFFICES ASSUME i < j PROVE FALSE
      OBVIOUS
    <3>1. i \in 1 .. j - 1 /\ j \in 1 .. Len(tree)
      BY <1>2
    <3>2. PICK l \in i .. j : tree[l].token = FDT_END_NODE
      BY <1>2, <2>1, <3>1 DEF WellFormed
    <3>3. l # i
      BY <2>1, <3>2, FourTokens
    <3>4. l \in i + 1 .. k
      BY <1>2, <3>2, <3>3
    <3> QED
      BY <2>1, <3>2, <3>4
  <2>4. i = j
    BY <1>2, <2>2, <2>3
  <2> QED
    BY <2>1, <2>4
<1> QED
  BY <1>9, <1>10, <1>11

\* What a piece changes about being in a memory node.
LEMMA InMemoryNext ==
    ASSUME NEW k \in Nat
    PROVE  /\ tree[k + 1].token = FDT_BEGIN_NODE =>
                 (InMemory(k + 1) <=> InMemory(k) \/ IsMemoryNode(tree[k + 1].name))
           /\ tree[k + 1].token = FDT_END_NODE => ~ InMemory(k + 1)
           /\ tree[k + 1].token # FDT_BEGIN_NODE /\ tree[k + 1].token # FDT_END_NODE =>
                 (InMemory(k + 1) <=> InMemory(k))
<1> DEFINE n == k + 1
           Opens(j, m) == /\ tree[j].token = FDT_BEGIN_NODE /\ IsMemoryNode(tree[j].name)
                          /\ \A l \in j + 1 .. m : tree[l].token # FDT_END_NODE
<1>1. \A j \in 1 .. k : j \in 1 .. n /\ j + 1 .. n = (j + 1 .. k) \union {n}
  OBVIOUS
<1>2. \A j \in 1 .. n : j \in 1 .. k \/ j = n
  OBVIOUS
<1>3. n + 1 .. n = {} /\ n \in 1 .. n
  OBVIOUS
<1> HIDE DEF n
<1>4. \A j \in 1 .. k : Opens(j, n) <=> Opens(j, k) /\ tree[n].token # FDT_END_NODE
  BY <1>1, Zenon
<1>5. Opens(n, n) <=> tree[n].token = FDT_BEGIN_NODE /\ IsMemoryNode(tree[n].name)
  BY <1>3
<1>6. InMemory(n) <=> (\E j \in 1 .. k : Opens(j, n)) \/ Opens(n, n)
  BY <1>1, <1>2, <1>3, Zenon DEF InMemory
<1>7. InMemory(k) <=> \E j \in 1 .. k : Opens(j, k)
  BY DEF InMemory
<1> HIDE DEF Opens
<1> QED
  BY <1>4, <1>5, <1>6, <1>7, FourTokens, Zenon DEF n

-----------------------------------------------------------------------------
(* Steps *)

\* Whatever is not about a step of the parser stays as it is.
LEMMA SameFindings ==
    ASSUME UNCHANGED <<tree, dtb, memory_base, memory_size>>, FindsMemory,
           pc \in {"page_init", "done", "panic"}
    PROVE  FindsMemory'
<1>1. MemoryRegs' = MemoryRegs
  BY DEF MemoryRegs, NodeOf, Opened, Closed, Depth
<1>2. FirstReg' = FirstReg
  BY <1>1 DEF FirstReg
<1> QED
  BY <1>1, <1>2, Zenon DEF FindsMemory

\* The parser is before the piece behind the ones it has read.
LEMMA Before ==
    ASSUME IInv, NEW k \in 0 .. Len(tree) - 1, Behind(k)
    PROVE  At(k + 1) /\ WellFormed(tree) /\ k \in Nat
<1>1. WellFormed(tree) /\ tree \in Trees /\ block = Encoding(tree)
  BY TreesAssumption DEF IInv
<1>2. Len(tree) \in Nat
  BY <1>1 DEF WellFormed
<1>3. k \in Nat /\ k + 1 \in 1 .. Len(tree) /\ (k + 1) - 1 = k
  BY <1>2
<1> QED
  BY <1>1, <1>3 DEF At, Behind

\* The parser has read one more piece, and found no memory in it.
LEMMA Advance ==
    ASSUME IInv, pc = "extract", NEW k \in 0 .. Len(tree) - 1, Behind(k),
           tree[k + 1].token \in Tokens,
           UNCHANGED <<firmware, pc, memory_base, memory_size>>,
           struct_ptr' = Len(Parts(tree)[k + 1]),
           in_memory_node' \in BOOLEAN, in_memory_node' <=> InMemory(k + 1),
           k + 1 \notin MemoryRegs
    PROVE  IInv'
<1>1. At(k + 1) /\ WellFormed(tree) /\ k \in Nat
  BY Before
<1>2. k + 1 \in 0 .. Len(tree) - 1
  <2>1. k + 1 \in 1 .. Len(tree) /\ Len(tree) \in Nat
    BY <1>1 DEF At, WellFormed
  <2>2. k + 1 # Len(tree)
    BY <1>1, <2>1 DEF WellFormed
  <2> QED
    BY <2>1, <2>2
<1>3. MemoryRegs \intersect 1 .. k + 1 = {}
  <2>1. 1 .. k + 1 = (1 .. k) \union {k + 1}
    BY <1>1
  <2>2. MemoryRegs \intersect 1 .. k = {}
    BY DEF Behind
  <2> QED
    BY <2>1, <2>2
<1>4. tree' = tree /\ block' = block /\ dtb' = dtb /\ pc' = "extract"
  BY DEF firmware
<1>5. Behind(k + 1)'
  <2>1. MemoryRegs' = MemoryRegs /\ InMemory(k + 1)' = InMemory(k + 1)
    BY <1>4 DEF MemoryRegs, NodeOf, Opened, Closed, Depth, InMemory
  <2>2. struct_ptr' = Len(Parts(tree')[k + 1])
    BY <1>4
  <2> QED
    BY <1>3, <2>1, <2>2 DEF Behind
<1>6. (\E j \in 0 .. Len(tree) - 1 : Behind(j))'
  BY <1>2, <1>4, <1>5
<1>7. NothingYet' /\ dtb' = "ok" /\ tree' \in Trees /\ block' = Encoding(tree')
  BY <1>4 DEF IInv, NothingYet
<1>8. FindsMemory'
  BY <1>4 DEF FindsMemory
<1> QED
  BY <1>4, <1>6, <1>7, <1>8 DEF IInv

LEMMA InitInv == Init => IInv
<1> SUFFICES ASSUME Init PROVE IInv
  OBVIOUS
<1> QED
  BY DEF Init, IInv, NothingYet, FindsMemory

LEMMA DtbInitStep == ASSUME IInv, dtb_init PROVE IInv'
<1>1. /\ tree' = tree /\ block' = block /\ dtb' = dtb /\ pc = "dtb_init"
      /\ UNCHANGED <<struct_ptr, in_memory_node, memory_base, memory_size>>
      /\ pc' = IF dtb = "ok" THEN "extract" ELSE "page_init"
  BY DEF dtb_init, firmware
<1>2. tree' \in Trees /\ block' = Encoding(tree') /\ NothingYet'
  BY <1>1 DEF IInv, NothingYet
<1>3. CASE dtb = "ok"
  <2>1. WellFormed(tree)
    BY TreesAssumption DEF IInv
  <2>2. 0 \in 0 .. Len(tree) - 1
    <3>1. Len(tree) \in Nat /\ Len(tree) # 0
      BY <2>1 DEF WellFormed
    <3> QED
      BY <3>1
  <2>3. struct_ptr = 0 /\ in_memory_node = FALSE
    BY <1>1 DEF IInv
  <2>4. Len(Parts(tree)[0]) = 0
    <3>1. Parts(tree)[0] = <<>>
      BY <2>1, PartSteps
    <3> QED
      BY <3>1
  <2>5. ~ InMemory(0) /\ 1 .. 0 = {}
    BY DEF InMemory
  <2>6. Behind(0)
    BY <2>3, <2>4, <2>5 DEF Behind
  <2>7. Behind(0)'
    <3>1. MemoryRegs' = MemoryRegs /\ InMemory(0)' = InMemory(0)
      BY <1>1 DEF MemoryRegs, NodeOf, Opened, Closed, Depth, InMemory
    <3> QED
      BY <1>1, <2>6, <3>1 DEF Behind
  <2>8. (\E j \in 0 .. Len(tree) - 1 : Behind(j))'
    BY <1>1, <2>2, <2>7
  <2>9. pc' = "extract" /\ dtb' = "ok"
    BY <1>1, <1>3
  <2>10. FindsMemory'
    BY <2>9 DEF FindsMemory
  <2> QED
    BY <1>2, <2>8, <2>9, <2>10 DEF IInv
<1>4. CASE dtb # "ok"
  <2>1. pc' = "page_init" /\ dtb' # "ok"
    BY <1>1, <1>4
  <2>2. FindsMemory'
    BY <1>2, <2>1 DEF FindsMemory, NothingYet
  <2> QED
    BY <1>2, <2>1, <2>2 DEF IInv
<1> QED
  BY <1>3, <1>4

LEMMA BeginNodeStep == ASSUME IInv, BeginNode PROVE IInv'
<1>1. PICK k \in 0 .. Len(tree) - 1 : Behind(k)
  BY DEF IInv, BeginNode
<1> DEFINE name == tree[k + 1].name
           n == NameLen(here)
<1>2. At(k + 1) /\ WellFormed(tree) /\ k \in Nat /\ k + 1 \in 1 .. Len(tree)
  BY <1>1, Before DEF At
<1>3. tree[k + 1].token = FDT_BEGIN_NODE
  BY <1>2, ReadsToken DEF BeginNode
<1>4. /\ n = Len(name) /\ \A i \in 1 .. Len(name) : block[here + i] = name[i]
      /\ SkipName(here, n) = Len(Parts(tree)[k + 1])
  BY <1>2, <1>3, ReadsName, Zenon
<1>5. IsMemoryNode(name) <=> Len(name) >= 6 /\ \A i \in 1 .. 6 : name[i] = memory[i]
  BY <1>2, MemoryName
<1>6. Len(name) \in Nat
  BY <1>2, PieceOf
<1> HIDE DEF n, name
<1>7. Len(memory) = 6
  BY DEF memory
<1>8. (n >= 6 /\ StartsWith(here, memory)) <=> IsMemoryNode(name)
  <2>1. StartsWith(here, memory) <=> \A i \in 1 .. 6 : block[here + i] = memory[i]
    BY <1>7, Zenon DEF StartsWith
  <2>2. ASSUME Len(name) >= 6, NEW i \in 1 .. 6 PROVE block[here + i] = name[i]
    <3>1. i \in 1 .. Len(name)
      BY <1>6, <2>2
    <3> QED
      BY <1>4, <3>1, Zenon
  <2> QED
    BY <1>4, <1>5, <2>1, <2>2, Zenon
<1>9. struct_ptr' = Len(Parts(tree)[k + 1])
  BY <1>4 DEF BeginNode, n
<1>10. in_memory_node' \in BOOLEAN /\ (in_memory_node' <=> in_memory_node \/ IsMemoryNode(name))
  <2>1. in_memory_node' = (in_memory_node \/ (n >= 6 /\ StartsWith(here, memory)))
    BY Zenon DEF BeginNode, n
  <2> QED
    BY <1>8, <2>1, Zenon
<1>11. in_memory_node' <=> InMemory(k + 1)
  BY <1>1, <1>2, <1>3, <1>10, InMemoryNext, Zenon DEF Behind, name
<1>12. k + 1 \notin MemoryRegs /\ tree[k + 1].token \in Tokens
  BY <1>3, FourTokens DEF MemoryRegs, Tokens
<1>13. pc = "extract" /\ UNCHANGED <<firmware, pc, memory_base, memory_size>>
  BY DEF BeginNode
<1> QED
  BY <1>1, <1>9, <1>10, <1>11, <1>12, <1>13, Advance

\* A token without a name or data is one word.
LEMMA OneWord ==
    ASSUME NEW k, At(k), tree[k].token # FDT_BEGIN_NODE, tree[k].token # FDT_PROP
    PROVE  here = Len(Parts(tree)[k])
<1>1. WellFormed(tree) /\ k \in 1 .. Len(tree)
  BY TreesAssumption DEF At
<1>2. Len(Encoded(tree[k])) = 4
  BY <1>1, EncodedBytes DEF Coded
<1>3. Len(Parts(tree)[k]) = struct_ptr + Len(Encoded(tree[k]))
  BY Sees
<1> QED
  BY <1>2, <1>3, Zenon DEF here

LEMMA EndNodeStep == ASSUME IInv, EndNode PROVE IInv'
<1>1. PICK k \in 0 .. Len(tree) - 1 : Behind(k)
  BY DEF IInv, EndNode
<1>2. At(k + 1) /\ WellFormed(tree) /\ k \in Nat
  BY <1>1, Before
<1>3. tree[k + 1].token = FDT_END_NODE
  BY <1>2, ReadsToken DEF EndNode
<1>4. struct_ptr' = Len(Parts(tree)[k + 1])
  BY <1>2, <1>3, FourTokens, OneWord DEF EndNode
<1>5. in_memory_node' \in BOOLEAN /\ (in_memory_node' <=> InMemory(k + 1))
  BY <1>2, <1>3, InMemoryNext DEF EndNode
<1>6. k + 1 \notin MemoryRegs /\ tree[k + 1].token \in Tokens
  BY <1>3, FourTokens DEF MemoryRegs, Tokens
<1>7. pc = "extract" /\ UNCHANGED <<firmware, pc, memory_base, memory_size>>
  BY DEF EndNode
<1> QED
  BY <1>1, <1>4, <1>5, <1>6, <1>7, Advance

LEMMA NopStep == ASSUME IInv, Nop PROVE IInv'
<1>1. PICK k \in 0 .. Len(tree) - 1 : Behind(k)
  BY DEF IInv, Nop
<1>2. At(k + 1) /\ WellFormed(tree) /\ k \in Nat
  BY <1>1, Before
<1>3. tree[k + 1].token = FDT_NOP
  BY <1>2, ReadsToken DEF Nop
<1>4. struct_ptr' = Len(Parts(tree)[k + 1])
  BY <1>2, <1>3, FourTokens, OneWord DEF Nop
<1>5. in_memory_node' \in BOOLEAN /\ (in_memory_node' <=> InMemory(k + 1))
  <2>1. InMemory(k + 1) <=> InMemory(k)
    BY <1>2, <1>3, InMemoryNext, FourTokens
  <2>2. in_memory_node' = in_memory_node
    BY DEF Nop
  <2> QED
    BY <1>1, <2>1, <2>2, Zenon DEF Behind
<1>6. k + 1 \notin MemoryRegs /\ tree[k + 1].token \in Tokens
  BY <1>3, FourTokens DEF MemoryRegs, Tokens
<1>7. pc = "extract" /\ UNCHANGED <<firmware, pc, memory_base, memory_size>>
  BY DEF Nop
<1> QED
  BY <1>1, <1>4, <1>5, <1>6, <1>7, Advance

\* The parser stops at a property if and only if it is one that describes memory.
LEMMA KnowsMemory ==
    ASSUME NEW k \in Nat, At(k + 1), Behind(k), tree[k + 1].token = FDT_PROP
    PROVE  IsMemoryReg <=> k + 1 \in MemoryRegs
<1>1. WellFormed(tree) /\ k + 1 \in 1 .. Len(tree)
  BY TreesAssumption DEF At
<1>2. InMemory(k) <=> IsMemoryNode(tree[NodeOf(k + 1)].name)
  BY <1>1, PropertyOf
<1>3. prop_len = Len(tree[k + 1].data) /\ prop_nameoff = tree[k + 1].prop
  BY ReadsProperty
<1>4. in_memory_node <=> InMemory(k)
  BY DEF Behind
<1> QED
  BY <1>1, <1>2, <1>3, <1>4, Zenon DEF IsMemoryReg, MemoryRegs

LEMMA PropSkipStep == ASSUME IInv, PropSkip PROVE IInv'
<1>1. PICK k \in 0 .. Len(tree) - 1 : Behind(k)
  BY DEF IInv, PropSkip
<1>2. At(k + 1) /\ WellFormed(tree) /\ k \in Nat
  BY <1>1, Before
<1>3. tree[k + 1].token = FDT_PROP
  BY <1>2, ReadsToken DEF PropSkip
<1>4. struct_ptr' = Len(Parts(tree)[k + 1])
  BY <1>2, <1>3, ReadsProperty DEF PropSkip
<1>5. in_memory_node' \in BOOLEAN /\ (in_memory_node' <=> InMemory(k + 1))
  <2>1. InMemory(k + 1) <=> InMemory(k)
    BY <1>2, <1>3, InMemoryNext, FourTokens
  <2>2. in_memory_node' = in_memory_node
    BY DEF PropSkip
  <2> QED
    BY <1>1, <2>1, <2>2, Zenon DEF Behind
<1>6. k + 1 \notin MemoryRegs /\ tree[k + 1].token \in Tokens
  BY <1>1, <1>2, <1>3, KnowsMemory DEF PropSkip, Tokens
<1>7. pc = "extract" /\ UNCHANGED <<firmware, pc, memory_base, memory_size>>
  BY DEF PropSkip
<1> QED
  BY <1>1, <1>4, <1>5, <1>6, <1>7, Advance

LEMMA PropFoundStep == ASSUME IInv, PropFound PROVE IInv'
<1>1. PICK k \in 0 .. Len(tree) - 1 : Behind(k)
  BY DEF IInv, PropFound
<1> DEFINE data == tree[k + 1].data
<1>2. At(k + 1) /\ WellFormed(tree) /\ k \in Nat /\ k + 1 \in 1 .. Len(tree)
  BY <1>1, Before DEF At
<1>3. tree[k + 1].token = FDT_PROP
  BY <1>2, ReadsToken DEF PropFound
<1>4. k + 1 \in MemoryRegs /\ Len(data) >= 16
  BY <1>1, <1>2, <1>3, KnowsMemory DEF PropFound, MemoryRegs
<1>5. FirstReg = data
  <2>1. MemoryRegs \intersect 1 .. k = {} /\ \A j \in MemoryRegs : j \in Nat /\ j >= 1
    BY <1>1 DEF Behind, MemoryRegs
  <2>2. \A j \in MemoryRegs : k + 1 <= j
    BY <1>2, <2>1
  <2>3. ASSUME NEW i \in MemoryRegs, \A j \in MemoryRegs : i <= j PROVE i = k + 1
    BY <1>2, <1>4, <2>1, <2>2, <2>3
  <2> DEFINE w == CHOOSE i \in MemoryRegs : \A j \in MemoryRegs : i <= j
  <2>4. w \in MemoryRegs /\ \A j \in MemoryRegs : w <= j
    BY <1>4, <2>2, Zenon
  <2>5. FirstReg = tree[w].data
    BY DEF FirstReg
  <2> HIDE DEF w
  <2> QED
    BY <2>3, <2>4, <2>5, Zenon
<1>6. /\ prop_data \in Nat
      /\ \A i \in 1 .. Len(data) : block[prop_data + i] = data[i]
  BY <1>2, <1>3, ReadsProperty
<1>7. data \in Seq(Byte) /\ Len(data) \in Nat
  BY <1>2, PieceOf
<1> HIDE DEF data
<1> DEFINE base == SubSeq(data, 1, 8)
           size == SubSeq(data, 9, 16)
<1>8. /\ base \in Seq(Byte) /\ Len(base) = 8 /\ \A i \in 1 .. 8 : base[i] = data[i]
      /\ size \in Seq(Byte) /\ Len(size) = 8 /\ \A i \in 1 .. 8 : size[i] = data[8 + i]
  BY <1>4, <1>7, Halves
<1> HIDE DEF base, size
<1>9. fdt64_to_cpu(prop_data) = Number(base)
  <2>1. ASSUME NEW i \in 1 .. 8 PROVE block[prop_data + i] = base[i]
    <3>1. i \in 1 .. Len(data)
      BY <1>4, <1>7
    <3> QED
      BY <1>6, <1>8, <3>1, Zenon
  <2> QED
    BY <1>6, <1>8, <2>1, LoadedNumber
<1>10. fdt64_to_cpu(prop_data + 8) = Number(size)
  <2>1. ASSUME NEW i \in 1 .. 8 PROVE block[(prop_data + 8) + i] = size[i]
    <3>1. 8 + i \in 1 .. Len(data) /\ (prop_data + 8) + i = prop_data + (8 + i)
      BY <1>4, <1>6, <1>7
    <3> QED
      BY <1>6, <1>8, <3>1, Zenon
  <2>2. prop_data + 8 \in Nat
    BY <1>6
  <2> QED
    BY <1>8, <2>1, <2>2, LoadedNumber
<1>11. /\ tree' = tree /\ block' = block /\ dtb' = dtb /\ pc = "extract" /\ pc' = "page_init"
       /\ memory_base' = Number(base) /\ memory_size' = Number(size)
  BY <1>9, <1>10 DEF PropFound, firmware
<1>12. FindsMemory'
  <2>1. MemoryRegs' = MemoryRegs
    BY <1>11 DEF MemoryRegs, NodeOf, Opened, Closed, Depth
  <2>2. FirstReg' = data
    BY <1>5, <1>11, <2>1 DEF FirstReg
  <2>3. dtb' = "ok" /\ MemoryRegs' # {}
    BY <1>4, <1>11, <2>1 DEF IInv
  <2>4. memory_base' = Number(SubSeq(FirstReg', 1, 8)) /\ memory_size' = Number(SubSeq(FirstReg', 9, 16))
    BY <1>11, <2>2 DEF base, size
  <2>5. Number(SubSeq(FirstReg, 1, 8))' = Number(SubSeq(FirstReg', 1, 8))
        /\ Number(SubSeq(FirstReg, 9, 16))' = Number(SubSeq(FirstReg', 9, 16))
    BY DEF Number
  <2> QED
    BY <2>3, <2>4, <2>5, Zenon DEF FindsMemory
<1>13. tree' \in Trees /\ block' = Encoding(tree')
  BY <1>11 DEF IInv
<1> QED
  BY <1>11, <1>12, <1>13 DEF IInv

LEMMA NotFoundStep == ASSUME IInv, NotFound PROVE IInv'
<1>1. PICK k \in 0 .. Len(tree) - 1 : Behind(k)
  BY DEF IInv, NotFound
<1>2. At(k + 1) /\ WellFormed(tree) /\ k \in Nat /\ k + 1 \in 1 .. Len(tree)
  BY <1>1, Before DEF At
<1>3. tree[k + 1].token \notin Tokens
  BY <1>2, ReadsToken DEF NotFound, Tokens
<1>4. k + 1 = Len(tree)
  BY <1>2, <1>3 DEF WellFormed
<1>5. MemoryRegs = {}
  <2>1. k + 1 \notin MemoryRegs
    BY <1>3 DEF MemoryRegs, Tokens
  <2>2. MemoryRegs \subseteq (1 .. k) \union {k + 1}
    <3>1. 1 .. Len(tree) = (1 .. k) \union {k + 1}
      BY <1>2, <1>4
    <3> QED
      BY <3>1, Zenon DEF MemoryRegs
  <2> QED
    BY <1>1, <2>1, <2>2 DEF Behind
<1>6. /\ tree' = tree /\ block' = block /\ dtb' = dtb /\ pc = "extract" /\ pc' = "page_init"
      /\ UNCHANGED <<memory_base, memory_size>>
  BY DEF NotFound, firmware
<1>7. FindsMemory'
  <2>1. MemoryRegs' = {}
    <3>1. MemoryRegs' = MemoryRegs
      BY <1>6 DEF MemoryRegs, NodeOf, Opened, Closed, Depth
    <3> QED
      BY <1>5, <3>1
  <2>2. memory_base' = 0 /\ memory_size' = 0
    BY <1>6 DEF IInv, NothingYet
  <2> QED
    BY <2>1, <2>2 DEF FindsMemory
<1>8. tree' \in Trees /\ block' = Encoding(tree')
  BY <1>6 DEF IInv
<1> QED
  BY <1>6, <1>7, <1>8 DEF IInv

LEMMA PageInitStep == ASSUME IInv, page_init PROVE IInv'
<1>1. /\ UNCHANGED <<tree, block, dtb, memory_base, memory_size>>
      /\ pc = "page_init"
  BY DEF page_init, firmware
<1>2. pc' \in {"done", "panic"}
  BY DEF page_init
<1>3. FindsMemory'
  BY <1>1, SameFindings DEF IInv
<1> QED
  BY <1>1, <1>2, <1>3 DEF IInv

LEMMA NextInv == IInv /\ [Next]_vars => IInv'
<1> SUFFICES ASSUME IInv, [Next]_vars PROVE IInv'
  OBVIOUS
<1>1. CASE UNCHANGED vars
  <2>1. UNCHANGED <<tree, block, dtb, pc, struct_ptr, in_memory_node, memory_base, memory_size>>
    BY <1>1 DEF vars, firmware
  <2>2. FindsMemory'
    <3>1. CASE pc \in {"page_init", "done", "panic"}
      BY <2>1, <3>1, SameFindings DEF IInv
    <3>2. CASE pc \notin {"page_init", "done", "panic"}
      BY <2>1, <3>2 DEF FindsMemory
    <3> QED
      BY <3>1, <3>2
  <2>3. ASSUME NEW k PROVE Behind(k)' <=> Behind(k)
    BY <2>1 DEF Behind, InMemory, MemoryRegs, NodeOf, Opened, Closed, Depth
  <2>4. (\E k \in 0 .. Len(tree) - 1 : Behind(k))' <=> \E k \in 0 .. Len(tree) - 1 : Behind(k)
    BY <2>1, <2>3
  <2> QED
    BY <2>1, <2>2, <2>4 DEF IInv, NothingYet
<1> QED
  BY <1>1, DtbInitStep, BeginNodeStep, EndNodeStep, PropFoundStep, PropSkipStep, NopStep,
     NotFoundStep, PageInitStep DEF Next

\* Whatever nodes, properties and padding come first, extract_memory_info of dtb.c finds
\* the first bank of the first memory node, and reports nothing if there is none.
THEOREM MemoryFound == Spec => []FindsMemory
<1>1. IInv => FindsMemory
  BY DEF IInv
<1> QED
  BY <1>1, InitInv, NextInv, PTL DEF Spec

===============================================================================
