------------------------------ MODULE SlobProofs ------------------------------
(***************************************************************************)
(* Proofs about Slob, for every size of a page, a header and a descriptor, *)
(* every number of pages and every set of sizes.                           *)
(***************************************************************************)
EXTENDS Slob, FiniteSetTheorems, SequenceTheorems, TLAPS

\* The list: each chunk refers to the next higher one, the highest to the arena, and
\* what is not on the list to nothing.
Sorted(C, nx) ==
    /\ C = {arena} \union {nx[x] : x \in Unit}
    /\ \A x \in C : \/ nx[x] = arena /\ \A y \in C : y <= x
                    \/ x < nx[x] /\ \A y \in C : y <= x \/ nx[x] <= y
    /\ \A x \in Unit \ C : nx[x] = arena
ListInv ==
    /\ Sorted(Chunks, next)
    /\ slobfree \in Chunks /\ cur \in Chunks
    /\ \A x, y \in Chunks : x + units[x] # y
    /\ units[arena] = 1

\* The owners tile the heap.
Tiled(O, U) ==
    /\ \A o \in O : o[2] \in Nat /\ o[3] \in Nat \ {0} /\ Span(o[2], o[3]) \subseteq U
    /\ \A o, p \in O : \A u \in U : u \in Span(o[2], o[3]) /\ u \in Span(p[2], p[3]) => o = p
    /\ \A u \in U : \E o \in O : u \in Span(o[2], o[3])

\* Blocks and big blocks.
BlockInv ==
    /\ \A x \in live : IF IsSmall(x.size)
                       THEN /\ x.addr - 1 \in Unit /\ units[x.addr - 1] = Need(x.size)
                            /\ ~ IsBig(x.addr)
                       ELSE IsBig(x.addr)
    /\ \A x, y \in live : x.addr = y.addr => x = y
    /\ \A i \in 1 .. Len(bigblocks) :
         /\ Span(bigblocks[i].pages, 2^(bigblocks[i].order)) \subseteq Page \ freepages
         /\ \A j \in 1 .. Len(bigblocks) : i # j =>
              /\ bigblocks[i].bb # bigblocks[j].bb
              /\ Span(bigblocks[i].pages, 2^(bigblocks[i].order))
                    \intersect Span(bigblocks[j].pages, 2^(bigblocks[j].order)) = {}

\* The chunks that slob_alloc's loop has passed: those behind slobfree and before cur,
\* round the end of the list.
Passed(x) ==
    IF slobfree < cur THEN slobfree < x /\ x < cur
    ELSE slobfree < x \/ x < cur

WantOf(n) == IF IsSmall(n) THEN Need(n) ELSE SLOB_UNITS(BIGBLOCK)

\* Where the call stands, and what it knows there.
CallInv ==
    /\ op = "alloc" \/ then = "grow" => size \in Sizes /\ want = WantOf(size)
    /\ op = "alloc" => /\ prev \in Chunks /\ next[prev] = cur
                       /\ \A x \in Chunks : Passed(x) => units[x] < want
    /\ then = "grow" => op = "free"

\* The inductive invariant.
IInv ==
    /\ TypeOK
    /\ ListInv
    /\ Tiled(Owners, HeapUnits)
    /\ BlockInv
    /\ CallInv

-----------------------------------------------------------------------------
(* Numbers *)

LEMMA Division ==
    ASSUME NEW a \in Nat, NEW d \in Nat \ {0}
    PROVE  /\ a \div d \in Nat /\ a % d \in 0 .. d - 1
           /\ a = (a \div d) * d + (a % d)
           /\ \A q \in Nat : q * d <= a /\ a < q * d + d <=> a \div d = q
<1>1. a \div d \in Nat /\ a % d \in 0 .. d - 1 /\ a = (a \div d) * d + (a % d)
  OBVIOUS
<1>2. ASSUME NEW q \in Nat PROVE q * d <= a /\ a < q * d + d <=> a \div d = q
  OBVIOUS
<1> QED
  BY <1>1, <1>2

LEMMA UnitsOfPage ==
    /\ UPP \in Nat /\ UPP >= 3 /\ PAGE_SIZE = UPP * SLOB_UNIT
    /\ SLOB_UNITS(PAGE_SIZE) = UPP
<1>1. /\ SLOB_UNIT \in Nat \ {0} /\ PAGE_SIZE \in Nat /\ PAGE_SIZE % SLOB_UNIT = 0
      /\ PAGE_SIZE > 2 * SLOB_UNIT
  BY SlobAssumption
<1>2. UPP \in Nat /\ PAGE_SIZE = UPP * SLOB_UNIT
  BY <1>1, Division DEF UPP
<1>3. UPP >= 3
  BY <1>1, <1>2
<1>4. SLOB_UNITS(PAGE_SIZE) = UPP
  <2>1. /\ PAGE_SIZE + SLOB_UNIT - 1 \in Nat
        /\ UPP * SLOB_UNIT <= PAGE_SIZE + SLOB_UNIT - 1
        /\ PAGE_SIZE + SLOB_UNIT - 1 < UPP * SLOB_UNIT + SLOB_UNIT
    BY <1>1, <1>2
  <2> QED
    BY <1>1, <1>2, <2>1, Division DEF SLOB_UNITS
<1> QED
  BY <1>2, <1>3, <1>4

LEMMA PageFacts ==
    /\ NPage \in Nat \ {0} /\ Page \subseteq Nat
    /\ (NPage + 1) * UPP \in Nat /\ (NPage + 1) * UPP >= UPP
    /\ Unit \subseteq Nat /\ arena \in Unit /\ arena = 0
    /\ \A x \in Unit : x # arena => x >= UPP
    /\ \A x : x \in Unit <=> x = arena \/ (x \in Nat /\ x >= UPP /\ x < (NPage + 1) * UPP)
    /\ \A x \in Unit : x < (NPage + 1) * UPP
    /\ \A p \in Page : p * UPP \in Unit /\ Span(p * UPP, UPP) \subseteq Unit \ {arena}
    /\ \A p \in Page, a \in Unit : a \in Span(p * UPP, UPP) <=> a \div UPP = p
<1>1. UPP \in Nat /\ UPP >= 3 /\ NPage \in Nat \ {0}
  BY UnitsOfPage, SlobAssumption
<1>2. (NPage + 1) * UPP \in Nat /\ (NPage + 1) * UPP >= UPP
  BY <1>1
<1>3. /\ Unit \subseteq Nat /\ arena \in Unit /\ arena = 0 /\ Page \subseteq Nat
      /\ \A x \in Unit : x # arena => x >= UPP
      /\ \A x : x \in Unit <=> x = arena \/ (x \in Nat /\ x >= UPP /\ x < (NPage + 1) * UPP)
  BY <1>1, <1>2 DEF Unit, arena, Page
<1>7. \A x \in Unit : x < (NPage + 1) * UPP
  BY <1>1, <1>2, <1>3
<1>4. ASSUME NEW p \in Page
      PROVE  p * UPP \in Nat /\ p * UPP >= UPP /\ p * UPP + UPP <= (NPage + 1) * UPP
  BY <1>1 DEF Page
<1>5. ASSUME NEW p \in Page
      PROVE  p * UPP \in Unit /\ Span(p * UPP, UPP) \subseteq Unit \ {arena}
  BY <1>1, <1>2, <1>3, <1>4 DEF Span
<1>6. ASSUME NEW p \in Page, NEW a \in Unit PROVE a \in Span(p * UPP, UPP) <=> a \div UPP = p
  <2>1. a \in Nat /\ p \in Nat /\ p * UPP \in Nat
    BY <1>3, <1>4
  <2>2. a \in Span(p * UPP, UPP) <=> p * UPP <= a /\ a < p * UPP + UPP
    BY <1>1, <2>1 DEF Span
  <2>3. \A q \in Nat : q * UPP <= a /\ a < q * UPP + UPP <=> a \div UPP = q
    <3>1. UPP \in Nat \ {0} /\ a \in Nat
      BY <1>1, <2>1
    <3> HIDE DEF UPP
    <3> QED
      BY <3>1, Division
  <2> QED
    BY <2>1, <2>2, <2>3
<1> QED
  BY <1>1, <1>2, <1>3, <1>5, <1>6, <1>7

\* A block of n bytes has its header and room for the n bytes.
LEMMA NeedFacts ==
    ASSUME NEW n \in Sizes
    PROVE  /\ n \in Nat \ {0} /\ WantOf(n) \in Nat /\ WantOf(n) >= 2
           /\ Need(n) * SLOB_UNIT - SLOB_UNIT >= n
<1>1. /\ SLOB_UNIT \in Nat \ {0} /\ PAGE_SIZE \in Nat /\ n \in Nat \ {0}
      /\ BIGBLOCK \in Nat /\ BIGBLOCK > SLOB_UNIT
  BY SlobAssumption
<1>2. ASSUME NEW m \in Nat, m > SLOB_UNIT
      PROVE  SLOB_UNITS(m) \in Nat /\ SLOB_UNITS(m) >= 2 /\ SLOB_UNITS(m) * SLOB_UNIT >= m
  <2> DEFINE a == m + SLOB_UNIT - 1
  <2>1. a \in Nat /\ a >= 2 * SLOB_UNIT
    BY <1>1, <1>2
  <2> DEFINE q == a \div SLOB_UNIT
             r == a % SLOB_UNIT
  <2>2. q \in Nat /\ r \in 0 .. SLOB_UNIT - 1 /\ a = q * SLOB_UNIT + r
    <3> HIDE DEF a
    <3> QED
      BY <1>1, <2>1, Division
  <2>3. a = q * SLOB_UNIT + r /\ q \in Nat /\ r \in Nat /\ r <= SLOB_UNIT - 1
    BY <2>2
  <2>4. SLOB_UNITS(m) = q
    BY DEF SLOB_UNITS
  <2> HIDE DEF q, r
  <2>5. q * SLOB_UNIT >= m
    BY <1>1, <1>2, <2>3
  <2>6. q >= 2
    BY <1>1, <2>1, <2>3
  <2> QED
    BY <2>3, <2>4, <2>5, <2>6
<1>3. n + SLOB_UNIT > SLOB_UNIT /\ n + SLOB_UNIT \in Nat
  BY <1>1
<1>4. Need(n) \in Nat /\ Need(n) >= 2 /\ Need(n) * SLOB_UNIT >= n + SLOB_UNIT
  BY <1>2, <1>3 DEF Need
<1>5. Need(n) * SLOB_UNIT - SLOB_UNIT >= n
  BY <1>1, <1>4
<1>6. WantOf(n) \in Nat /\ WantOf(n) >= 2
  BY <1>1, <1>2, <1>4 DEF WantOf
<1> QED
  BY <1>1, <1>5, <1>6

-----------------------------------------------------------------------------
(* The list *)

LEMMA ListFacts ==
    ASSUME NEW nx \in [Unit -> Unit], NEW C, Sorted(C, nx)
    PROVE  /\ C \subseteq Unit /\ arena \in C /\ C \subseteq Nat
           /\ \A x \in Unit : nx[x] \in C
           /\ \A x, y \in Unit : nx[x] = nx[y] /\ nx[x] # arena => x = y
           /\ \A x \in C : nx[x] = x => x = arena
<1>1. C = {arena} \union {nx[x] : x \in Unit}
  BY DEF Sorted
<1>2. C \subseteq Unit /\ arena \in C /\ (\A x \in Unit : nx[x] \in C) /\ C \subseteq Nat
  BY <1>1, PageFacts
<1>3. ASSUME NEW x \in Unit, NEW y \in Unit, nx[x] = nx[y], nx[x] # arena PROVE x = y
  <2>1. x \in C /\ y \in C
    BY <1>3 DEF Sorted
  <2>2. /\ x < nx[x] /\ (y <= x \/ nx[x] <= y)
        /\ y < nx[y] /\ (x <= y \/ nx[y] <= x)
    BY <1>3, <2>1 DEF Sorted
  <2>3. x \in Nat /\ y \in Nat /\ nx[x] \in Nat
    BY <1>2, <2>1
  <2> QED
    BY <1>3, <2>2, <2>3
<1>4. ASSUME NEW x \in C, nx[x] = x PROVE x = arena
  BY <1>2, <1>4 DEF Sorted
<1> QED
  BY <1>2, <1>3, <1>4

\* A chunk is taken out behind p.
LEMMA Unlinked ==
    ASSUME NEW nx \in [Unit -> Unit], NEW C, Sorted(C, nx),
           NEW p \in C, NEW c \in C, nx[p] = c, c # arena
    PROVE  LET m == [nx EXCEPT ![p] = nx[c], ![c] = arena]
           IN m \in [Unit -> Unit] /\ Sorted(C \ {c}, m) /\ p # c
<1> DEFINE m == [nx EXCEPT ![p] = nx[c], ![c] = arena]
           D == C \ {c}
<1>1. C \subseteq Unit /\ arena \in C /\ C \subseteq Nat /\ p # c /\ nx[c] \in C /\ nx[c] \in Unit
  BY ListFacts
<1>2. m \in [Unit -> Unit]
  BY <1>1
<1>3. m[p] = nx[c] /\ m[c] = arena /\ \A x \in Unit : x # p /\ x # c => m[x] = nx[x]
  BY <1>1
<1> HIDE DEF m
<1>4. nx[c] # c
  BY ListFacts
<1>5. \A x \in Unit : x # p => nx[x] # c
  BY <1>1, ListFacts
<1>6. D = {arena} \union {m[x] : x \in Unit}
  <2>1. \A x \in Unit : m[x] \in D
    BY <1>1, <1>3, <1>4, <1>5, ListFacts
  <2>2. ASSUME NEW y \in D, y # arena PROVE \E x \in Unit : m[x] = y
    <3>1. PICK x \in Unit : nx[x] = y
      BY <2>2 DEF Sorted
    <3>2. x # p
      BY <3>1
    <3> QED
      BY <1>1, <1>3, <3>1, <3>2
  <2>3. arena \in D
    BY <1>1
  <2> HIDE DEF D
  <2> QED
    BY <2>1, <2>2, <2>3
<1>7. ASSUME NEW x \in D
      PROVE  \/ m[x] = arena /\ \A y \in D : y <= x
             \/ x < m[x] /\ \A y \in D : y <= x \/ m[x] <= y
  <2>1. CASE x # p
    BY <1>1, <1>3, <2>1 DEF Sorted
  <2>2. CASE x = p
    <3>1. /\ p < c /\ \A y \in C : y <= p \/ c <= y
      BY DEF Sorted
    <3>2. \/ nx[c] = arena /\ \A y \in C : y <= c
          \/ c < nx[c] /\ \A y \in C : y <= c \/ nx[c] <= y
      BY DEF Sorted
    <3>3. /\ \A y \in D : y <= c => y <= p
          /\ m[x] = nx[c] /\ x = p
      BY <1>1, <1>3, <2>2, <3>1
    <3>4. p \in Nat /\ c \in Nat /\ nx[c] \in Nat /\ D \subseteq C
      BY <1>1
    <3> HIDE DEF D
    <3>5. CASE nx[c] = arena /\ \A y \in C : y <= c
      BY <3>3, <3>4, <3>5
    <3>6. CASE c < nx[c] /\ \A y \in C : y <= c \/ nx[c] <= y
      BY <3>1, <3>3, <3>4, <3>6
    <3> QED
      BY <3>2, <3>5, <3>6
  <2> QED
    BY <2>1, <2>2
<1>8. \A x \in Unit \ D : m[x] = arena
  BY <1>1, <1>3 DEF Sorted
<1> HIDE DEF D
<1>9. Sorted(D, m)
  BY <1>6, <1>7, <1>8 DEF Sorted
<1> QED
  BY <1>1, <1>2, <1>9 DEF D, m

\* A chunk is put in behind c.
LEMMA Linked ==
    ASSUME NEW nx \in [Unit -> Unit], NEW C, Sorted(C, nx),
           NEW c \in C, NEW v \in Unit \ C, c < v, nx[c] = arena \/ v < nx[c]
    PROVE  LET m == [nx EXCEPT ![c] = v, ![v] = nx[c]]
           IN m \in [Unit -> Unit] /\ Sorted(C \union {v}, m)
<1> DEFINE m == [nx EXCEPT ![c] = v, ![v] = nx[c]]
           D == C \union {v}
<1>1. C \subseteq Unit /\ arena \in C /\ C \subseteq Nat /\ nx[c] \in C /\ v \in Nat /\ c # v /\ nx[v] = arena
  BY ListFacts, PageFacts DEF Sorted
<1>2. m \in [Unit -> Unit]
  BY <1>1
<1>3. m[c] = v /\ m[v] = nx[c] /\ \A x \in Unit : x # c /\ x # v => m[x] = nx[x]
  BY <1>1
<1> HIDE DEF m
<1>4. D = {arena} \union {m[x] : x \in Unit}
  <2>1. \A x \in Unit : m[x] \in D
    BY <1>1, <1>3, ListFacts
  <2>2. ASSUME NEW y \in D, y # arena PROVE \E x \in Unit : m[x] = y
    <3>1. CASE y = v
      BY <1>1, <1>3, <3>1
    <3>2. CASE y # v
      <4>1. PICK x \in Unit : nx[x] = y
        BY <2>2, <3>2 DEF Sorted
      <4>2. x # v
        BY <1>1, <2>2, <4>1
      <4> QED
        BY <1>1, <1>3, <4>1, <4>2
    <3> QED
      BY <3>1, <3>2
  <2>3. arena \in D
    BY <1>1
  <2> HIDE DEF D
  <2> QED
    BY <2>1, <2>2, <2>3
<1>5. /\ \A y \in C : y <= c \/ v < y
      /\ nx[c] = arena => \A y \in C : y <= c
      /\ nx[c] # arena => \A y \in C : y <= c \/ nx[c] <= y
  BY <1>1, PageFacts DEF Sorted
<1>6. ASSUME NEW x \in D
      PROVE  \/ m[x] = arena /\ \A y \in D : y <= x
             \/ x < m[x] /\ \A y \in D : y <= x \/ m[x] <= y
  <2>1. CASE x = c
    BY <1>1, <1>3, <1>5, <2>1
  <2>2. CASE x = v
    BY <1>1, <1>3, <1>5, <2>2
  <2>3. CASE x # c /\ x # v
    <3>1. \/ nx[x] = arena /\ \A y \in C : y <= x
          \/ x < nx[x] /\ \A y \in C : y <= x \/ nx[x] <= y
      BY <2>3 DEF Sorted
    <3>2. x \in C /\ nx[x] \in C /\ x \in Nat /\ nx[x] \in Nat /\ m[x] = nx[x]
      BY <1>1, <1>3, <2>3, ListFacts
    <3>3. CASE nx[x] = arena /\ \A y \in C : y <= x
      BY <1>1, <1>5, <2>3, <3>2, <3>3
    <3>4. CASE x < nx[x] /\ \A y \in C : y <= x \/ nx[x] <= y
      BY <1>1, <1>5, <2>3, <3>2, <3>4
    <3> QED
      BY <3>1, <3>3, <3>4
  <2> QED
    BY <2>1, <2>2, <2>3
<1>7. \A x \in Unit \ D : m[x] = arena
  BY <1>1, <1>3 DEF Sorted
<1> HIDE DEF D
<1>8. Sorted(D, m)
  BY <1>4, <1>6, <1>7 DEF Sorted
<1> QED
  BY <1>2, <1>8 DEF D, m

-----------------------------------------------------------------------------
(* The tiling *)

LEMMA SpanFacts ==
    \A s, n \in Nat : \A u : u \in Span(s, n) <=> u \in Nat /\ s <= u /\ u < s + n
BY DEF Span

\* Two owners lie one behind the other.
LEMMA Apart ==
    ASSUME NEW O, NEW U, Tiled(O, U), NEW o \in O, NEW p \in O, o # p
    PROVE  o[2] # p[2] /\ (o[2] < p[2] => o[2] + o[3] <= p[2])
<1>1. /\ o[2] \in Nat /\ o[3] \in Nat \ {0} /\ p[2] \in Nat /\ p[3] \in Nat \ {0}
      /\ Span(p[2], p[3]) \subseteq U
  BY DEF Tiled
<1>2. p[2] \in Span(p[2], p[3])
  BY <1>1, SpanFacts
<1>3. p[2] \notin Span(o[2], o[3])
  BY <1>1, <1>2 DEF Tiled
<1>4. o[2] <= p[2] => ~ (p[2] < o[2] + o[3])
  BY <1>1, <1>3, SpanFacts
<1> QED
  BY <1>1, <1>4

\* Some owners give way to others that have the same units.
SameUnits(A, B) ==
    /\ \A o \in B : o[2] \in Nat /\ o[3] \in Nat \ {0}
    /\ \A o, p \in B : \A u : u \in Span(o[2], o[3]) /\ u \in Span(p[2], p[3]) => o = p
    /\ \A o \in B : \A u \in Span(o[2], o[3]) : \E p \in A : u \in Span(p[2], p[3])
    /\ \A p \in A : \A u \in Span(p[2], p[3]) : \E o \in B : u \in Span(o[2], o[3])

LEMMA Retiled ==
    ASSUME NEW O, NEW U, Tiled(O, U), NEW A, A \subseteq O, NEW B, SameUnits(A, B)
    PROVE  Tiled((O \ A) \union B, U)
<1> DEFINE N == (O \ A) \union B
<1> USE DEF SameUnits
<1>1. \A o \in N : o[2] \in Nat /\ o[3] \in Nat \ {0} /\ Span(o[2], o[3]) \subseteq U
  BY DEF Tiled
<1>2. ASSUME NEW o \in N, NEW p \in N, NEW u \in U, u \in Span(o[2], o[3]), u \in Span(p[2], p[3])
      PROVE  o = p
  <2>1. ASSUME NEW x \in O \ A, NEW y \in B, u \in Span(x[2], x[3]), u \in Span(y[2], y[3])
        PROVE  FALSE
    <3>1. PICK z \in A : u \in Span(z[2], z[3])
      BY <2>1
    <3> QED
      BY <2>1, <3>1 DEF Tiled
  <2>2. CASE o \in B /\ p \in B
    BY <1>2, <2>2
  <2>3. CASE o \in O \ A /\ p \in O \ A
    BY <1>2, <2>3 DEF Tiled
  <2> QED
    BY <1>2, <2>1, <2>2, <2>3
<1>3. ASSUME NEW u \in U PROVE \E o \in N : u \in Span(o[2], o[3])
  <2>1. PICK o \in O : u \in Span(o[2], o[3])
    BY DEF Tiled
  <2> QED
    BY <2>1
<1> HIDE DEF N
<1>4. Tiled(N, U)
  BY <1>1, <1>2, <1>3 DEF Tiled
<1> QED
  BY <1>4 DEF N

\* An owner is renamed; gives its tail to another; takes what the one behind it has.
LEMMA Renamed ==
    ASSUME NEW O, NEW U, Tiled(O, U), NEW k, NEW j, NEW s, NEW n, <<k, s, n>> \in O
    PROVE  Tiled((O \ {<<k, s, n>>}) \union {<<j, s, n>>}, U)
<1> DEFINE o == <<k, s, n>>
           p == <<j, s, n>>
<1>1. /\ o \in O /\ o[2] = s /\ o[3] = n /\ p[2] = s /\ p[3] = n
  OBVIOUS
<1>2. s \in Nat /\ n \in Nat \ {0}
  BY <1>1 DEF Tiled
<1> HIDE DEF o, p
<1>3. Tiled((O \ {o}) \union {p}, U)
  <2>1. SameUnits({o}, {p})
    BY <1>1, <1>2 DEF SameUnits
  <2> QED
    BY <1>1, <2>1, Retiled
<1> QED
  BY <1>3 DEF o, p

LEMMA Split ==
    ASSUME NEW O, NEW U, Tiled(O, U), NEW k, NEW s, NEW n, <<k, s, n>> \in O,
           NEW i, NEW j, NEW w \in Nat \ {0}, w < n
    PROVE  Tiled((O \ {<<k, s, n>>}) \union {<<i, s, w>>, <<j, s + w, n - w>>}, U)
<1> DEFINE o == <<k, s, n>>
           p == <<i, s, w>>
           q == <<j, s + w, n - w>>
<1>1. /\ o \in O /\ o[2] = s /\ o[3] = n /\ p[2] = s /\ p[3] = w /\ q[2] = s + w /\ q[3] = n - w
  OBVIOUS
<1>2. s \in Nat /\ n \in Nat \ {0}
  BY <1>1 DEF Tiled
<1>3. s + w \in Nat /\ n - w \in Nat \ {0}
  BY <1>2
<1> HIDE DEF o, p, q
<1>4. \A u : /\ u \in Span(s, n) <=> u \in Span(s, w) \/ u \in Span(s + w, n - w)
             /\ ~ (u \in Span(s, w) /\ u \in Span(s + w, n - w))
  BY <1>2, <1>3, SpanFacts
<1>5. Tiled((O \ {o}) \union {p, q}, U)
  <2> DEFINE A == {o}
             B == {p, q}
  <2>1. A \subseteq O /\ SameUnits(A, B)
    BY <1>1, <1>2, <1>3, <1>4 DEF SameUnits
  <2> HIDE DEF A, B
  <2>2. Tiled((O \ A) \union B, U)
    BY <2>1, Retiled
  <2> QED
    BY <2>2 DEF A, B
<1> QED
  BY <1>5 DEF o, p, q

LEMMA Joined ==
    ASSUME NEW O, NEW U, Tiled(O, U), NEW k, NEW i, NEW s, NEW n, NEW m,
           <<k, s, n>> \in O, <<i, s + n, m>> \in O, NEW j
    PROVE  Tiled((O \ {<<k, s, n>>, <<i, s + n, m>>}) \union {<<j, s, n + m>>}, U)
<1> DEFINE o == <<j, s, n + m>>
           p == <<k, s, n>>
           q == <<i, s + n, m>>
<1>1. /\ p \in O /\ q \in O /\ p[2] = s /\ p[3] = n /\ q[2] = s + n /\ q[3] = m
      /\ o[2] = s /\ o[3] = n + m
  OBVIOUS
<1>2. s \in Nat /\ n \in Nat \ {0} /\ s + n \in Nat /\ m \in Nat \ {0}
  BY <1>1 DEF Tiled
<1>3. n + m \in Nat \ {0}
  BY <1>2
<1> HIDE DEF o, p, q
<1>4. \A u : u \in Span(s, n + m) <=> u \in Span(s, n) \/ u \in Span(s + n, m)
  BY <1>2, <1>3, SpanFacts
<1>5. Tiled((O \ {p, q}) \union {o}, U)
  <2> DEFINE A == {p, q}
             B == {o}
  <2>1. A \subseteq O /\ SameUnits(A, B)
    BY <1>1, <1>2, <1>3, <1>4 DEF SameUnits
  <2> HIDE DEF A, B
  <2>2. Tiled((O \ A) \union B, U)
    BY <2>1, Retiled
  <2> QED
    BY <2>2 DEF A, B
<1> QED
  BY <1>5 DEF o, p, q

\* A new owner brings units of its own.
LEMMA Extended ==
    ASSUME NEW O, NEW U, Tiled(O, U), NEW k, NEW s \in Nat, NEW n \in Nat \ {0},
           Span(s, n) \intersect U = {}
    PROVE  Tiled(O \union {<<k, s, n>>}, U \union Span(s, n))
<1> DEFINE o == <<k, s, n>>
           V == U \union Span(s, n)
<1>1. o[2] = s /\ o[3] = n
  OBVIOUS
<1> HIDE DEF o
<1>2. \A x \in O : /\ x[2] \in Nat /\ x[3] \in Nat \ {0}
                   /\ \A u \in Span(x[2], x[3]) : u \in U /\ u \notin Span(s, n)
  BY DEF Tiled
<1>3. \A x, y \in O \union {o} : \A u \in V : u \in Span(x[2], x[3]) /\ u \in Span(y[2], y[3]) => x = y
  BY <1>1, <1>2 DEF Tiled
<1>4. \A u \in V : \E x \in O \union {o} : u \in Span(x[2], x[3])
  BY <1>1 DEF Tiled
<1>5. \A x \in O \union {o} : x[2] \in Nat /\ x[3] \in Nat \ {0} /\ Span(x[2], x[3]) \subseteq V
  BY <1>1, <1>2
<1> HIDE DEF V
<1>6. Tiled(O \union {o}, V)
  BY <1>3, <1>4, <1>5 DEF Tiled
<1> QED
  BY <1>6 DEF o, V

-----------------------------------------------------------------------------
(* The owners *)

ChunkSet(C, u) == {<<"chunk", x, u[x]>> : x \in C}
SmallBlocks == {x \in live : IsSmall(x.size)}
BlockSet == {<<"block", x.addr - 1, Need(x.size)>> : x \in SmallBlocks}
DescSet == {<<"desc", bigblocks[i].bb, SLOB_UNITS(BIGBLOCK)>> : i \in 1 .. Len(bigblocks)}
FreedSet == IF op = "free" THEN {<<"freed", b, units[b]>>} ELSE {}

LEMMA OwnersAre ==
    BlockInv => Owners = ChunkSet(Chunks, units) \union BlockSet \union DescSet \union FreedSet
<1> SUFFICES ASSUME BlockInv
             PROVE  Owners = ChunkSet(Chunks, units) \union BlockSet \union DescSet \union FreedSet
  OBVIOUS
<1>1. SmallBlocks = {y \in live : ~ IsBig(y.addr)}
  BY DEF BlockInv, SmallBlocks
<1> QED
  BY <1>1 DEF Owners, ChunkSet, BlockSet, DescSet, FreedSet

LEMMA OwnersAreNext ==
    BlockInv' => Owners' = ChunkSet(Chunks', units') \union BlockSet' \union DescSet' \union FreedSet'
<1>1. (BlockInv => Owners = ChunkSet(Chunks, units) \union BlockSet \union DescSet \union FreedSet)'
  BY OwnersAre, PTL
<1> QED
  BY <1>1 DEF ChunkSet

\* An owner is where a unit is.
LEMMA OwnerFacts ==
    ASSUME TypeOK, Tiled(Owners, HeapUnits), NEW o \in Owners
    PROVE  /\ o[2] \in Unit /\ o[2] \in Nat /\ o[3] \in Nat \ {0}
           /\ o[2] \in HeapUnits /\ Span(o[2], o[3]) \subseteq HeapUnits
           /\ o[2] + o[3] <= (NPage + 1) * UPP
           /\ \A w \in 1 .. o[3] - 1 : o[2] + w \in HeapUnits /\ o[2] + w \in Unit
           /\ \A p \in Owners : o # p => o[2] # p[2] /\ (o[2] < p[2] => o[2] + o[3] <= p[2])
<1>1. o[2] \in Nat /\ o[3] \in Nat \ {0} /\ Span(o[2], o[3]) \subseteq HeapUnits
  BY DEF Tiled
<1>2. HeapUnits \subseteq Unit
  BY PageFacts DEF HeapUnits
<1>3. \A u : u \in Span(o[2], o[3]) <=> u \in Nat /\ o[2] <= u /\ u < o[2] + o[3]
  BY <1>1, SpanFacts
<1>4. \A w \in 0 .. o[3] - 1 : o[2] + w \in HeapUnits
  BY <1>1, <1>3
<1>5. o[2] \in HeapUnits /\ o[2] + (o[3] - 1) \in HeapUnits
  BY <1>1, <1>4
<1>6. o[2] + o[3] <= (NPage + 1) * UPP
  <2>1. o[2] + (o[3] - 1) \in Unit
    BY <1>2, <1>5
  <2>2. o[2] + (o[3] - 1) < (NPage + 1) * UPP /\ (NPage + 1) * UPP \in Nat
    BY <2>1, PageFacts
  <2> QED
    BY <1>1, <2>2
<1>7. \A p \in Owners : o # p => o[2] # p[2] /\ (o[2] < p[2] => o[2] + o[3] <= p[2])
  BY Apart
<1> QED
  BY <1>1, <1>2, <1>4, <1>5, <1>6, <1>7

\* Chunks, and what lies between them.
LEMMA ChunkFacts ==
    ASSUME IInv
    PROVE  /\ Chunks \subseteq Unit /\ Chunks \subseteq Nat /\ arena \in Chunks /\ arena = 0
           /\ \A x \in Chunks : /\ <<"chunk", x, units[x]>> \in Owners
                                /\ units[x] \in Nat \ {0}
                                /\ x + units[x] <= (NPage + 1) * UPP
                                /\ \A w \in 1 .. units[x] - 1 : x + w \in Unit
                                /\ next[x] \in Chunks
           /\ \A x, y \in Chunks : x < y => x + units[x] < y
<1>1. Chunks \subseteq Unit /\ Chunks \subseteq Nat /\ arena \in Chunks /\ arena = 0
      /\ \A x \in Unit : next[x] \in Chunks
  BY ListFacts, PageFacts DEF IInv, ListInv, TypeOK
<1>2. ASSUME NEW x \in Chunks
      PROVE  /\ <<"chunk", x, units[x]>> \in Owners
             /\ units[x] \in Nat \ {0}
             /\ x + units[x] <= (NPage + 1) * UPP
             /\ \A w \in 1 .. units[x] - 1 : x + w \in Unit
  <2> DEFINE o == <<"chunk", x, units[x]>>
  <2>1. o \in Owners /\ o[2] = x /\ o[3] = units[x]
    BY DEF Owners
  <2> HIDE DEF o
  <2>2. /\ o[3] \in Nat \ {0} /\ o[2] + o[3] <= (NPage + 1) * UPP
        /\ \A w \in 1 .. o[3] - 1 : o[2] + w \in Unit
    BY <2>1, OwnerFacts DEF IInv
  <2> QED
    BY <2>1, <2>2 DEF o
<1>3. ASSUME NEW x \in Chunks, NEW y \in Chunks, x < y PROVE x + units[x] < y
  <2> DEFINE o == <<"chunk", x, units[x]>>
             p == <<"chunk", y, units[y]>>
  <2>1. o \in Owners /\ p \in Owners /\ o[2] = x /\ o[3] = units[x] /\ p[2] = y
    BY <1>2
  <2>2. x # y
    BY <1>1, <1>3
  <2>3. o # p
    BY <2>2
  <2> HIDE DEF o, p
  <2>4. x + units[x] <= y
    BY <1>3, <2>1, <2>3, OwnerFacts DEF IInv
  <2>5. x + units[x] # y
    BY DEF IInv, ListInv
  <2>6. x \in Nat /\ y \in Nat /\ units[x] \in Nat
    BY <1>1, <1>2
  <2> QED
    BY <2>4, <2>5, <2>6
<1> QED
  BY <1>1, <1>2, <1>3

\* What is held lies between the chunks.
BetweenChunks(h) == h \in Unit /\ h # arena /\ \A y \in Chunks : h # y /\ (y < h => y + units[y] <= h)

LEMMA HeldFacts ==
    ASSUME IInv
    PROVE  /\ \A x \in SmallBlocks : /\ <<"block", x.addr - 1, Need(x.size)>> \in Owners
                                     /\ units[x.addr - 1] = Need(x.size)
                                     /\ BetweenChunks(x.addr - 1)
           /\ \A i \in 1 .. Len(bigblocks) :
                /\ <<"desc", bigblocks[i].bb, SLOB_UNITS(BIGBLOCK)>> \in Owners
                /\ BetweenChunks(bigblocks[i].bb)
           /\ op = "free" => /\ <<"freed", b, units[b]>> \in Owners
                             /\ BetweenChunks(b)
                             /\ units[b] \in Nat \ {0} /\ b + units[b] <= (NPage + 1) * UPP
                             /\ \A y \in Chunks : b < y => b + units[b] <= y
<1>1. Owners = ChunkSet(Chunks, units) \union BlockSet \union DescSet \union FreedSet
  BY OwnersAre DEF IInv
<1>2. ASSUME NEW k, NEW h, NEW n, <<k, h, n>> \in Owners, k # "chunk"
      PROVE  BetweenChunks(h)
  <2> DEFINE o == <<k, h, n>>
  <2>1. o \in Owners /\ o[2] = h
    BY <1>2
  <2> HIDE DEF o
  <2>2. h \in Unit
    BY <2>1, OwnerFacts DEF IInv
  <2>3. ASSUME NEW y \in Chunks PROVE h # y /\ (y < h => y + units[y] <= h)
    <3> DEFINE p == <<"chunk", y, units[y]>>
    <3>1. p \in Owners /\ p[2] = y /\ p[3] = units[y]
      BY ChunkFacts
    <3>2. p # o
      BY <1>2 DEF o
    <3> HIDE DEF p
    <3> QED
      BY <2>1, <3>1, <3>2, OwnerFacts DEF IInv
  <2> QED
    BY <2>2, <2>3, ChunkFacts DEF BetweenChunks
<1>3. ASSUME NEW x \in SmallBlocks
      PROVE  /\ <<"block", x.addr - 1, Need(x.size)>> \in Owners
             /\ units[x.addr - 1] = Need(x.size)
             /\ BetweenChunks(x.addr - 1)
  <2>1. <<"block", x.addr - 1, Need(x.size)>> \in Owners /\ units[x.addr - 1] = Need(x.size)
    BY <1>1 DEF BlockSet, IInv, BlockInv, SmallBlocks
  <2> QED
    BY <1>2, <2>1
<1>4. ASSUME NEW i \in 1 .. Len(bigblocks)
      PROVE  /\ <<"desc", bigblocks[i].bb, SLOB_UNITS(BIGBLOCK)>> \in Owners
             /\ BetweenChunks(bigblocks[i].bb)
  <2>1. <<"desc", bigblocks[i].bb, SLOB_UNITS(BIGBLOCK)>> \in Owners
    BY <1>1 DEF DescSet
  <2> QED
    BY <1>2, <2>1
<1>5. ASSUME op = "free"
      PROVE  /\ <<"freed", b, units[b]>> \in Owners
             /\ BetweenChunks(b)
             /\ units[b] \in Nat \ {0} /\ b + units[b] <= (NPage + 1) * UPP
             /\ \A y \in Chunks : b < y => b + units[b] <= y
  <2> DEFINE o == <<"freed", b, units[b]>>
  <2>1. o \in Owners /\ o[2] = b /\ o[3] = units[b]
    BY <1>1, <1>5 DEF FreedSet
  <2>2. BetweenChunks(b)
    BY <1>2, <2>1
  <2> HIDE DEF o
  <2>3. units[b] \in Nat \ {0} /\ b + units[b] <= (NPage + 1) * UPP
    BY <2>1, OwnerFacts DEF IInv
  <2>4. ASSUME NEW y \in Chunks, b < y PROVE b + units[b] <= y
    <3> DEFINE p == <<"chunk", y, units[y]>>
    <3>1. p \in Owners /\ p[2] = y
      BY ChunkFacts
    <3>2. p # o
      BY DEF o
    <3> HIDE DEF p
    <3> QED
      BY <2>1, <2>4, <3>1, <3>2, OwnerFacts DEF IInv
  <2> QED
    BY <2>1, <2>2, <2>3, <2>4 DEF o
<1> QED
  BY <1>3, <1>4, <1>5

\* The blocks stay what they are while their headers do.
LEMMA BlocksKept ==
    ASSUME BlockInv, UNCHANGED <<live, bigblocks, freepages>>,
           \A x \in SmallBlocks : units'[x.addr - 1] = units[x.addr - 1]
    PROVE  BlockInv' /\ BlockSet' = BlockSet /\ DescSet' = DescSet
<1>1. (\A a : IsBig(a)' = IsBig(a)) /\ SmallBlocks' = SmallBlocks
  BY DEF IsBig, BigAt, SmallBlocks
<1>2. BlockInv'
  BY <1>1 DEF BlockInv, SmallBlocks
<1> QED
  BY <1>1, <1>2 DEF BlockSet, DescSet

LEMMA HeapSame ==
    UNCHANGED <<bigblocks, freepages>> => HeapUnits' = HeapUnits /\ BigPages' = BigPages
BY DEF HeapUnits, BigPages

-----------------------------------------------------------------------------
(* slob_alloc takes a chunk *)

TakenChunks == (Chunks \ {cur}) \union (IF units[cur] = want THEN {} ELSE {cur + want})

LEMMA TakenFacts ==
    ASSUME IInv, op = "alloc", RoomEnough(cur)
    PROVE  /\ cur \in Chunks /\ cur # arena /\ prev \in Chunks /\ prev # cur /\ next[prev] = cur
           /\ want \in Nat /\ want >= 2 /\ units[cur] \in Nat /\ units[cur] >= want
           /\ size \in Sizes /\ want = WantOf(size)
           /\ units[cur] # want => cur + want \in Unit \ Chunks
<1>1. cur \in Chunks /\ prev \in Chunks /\ next[prev] = cur /\ size \in Sizes /\ want = WantOf(size)
  BY DEF IInv, ListInv, CallInv
<1>2. want \in Nat /\ want >= 2 /\ units[cur] \in Nat /\ units[cur] >= want
  BY <1>1, NeedFacts, ChunkFacts DEF RoomEnough
<1>3. cur # arena
  BY <1>2 DEF IInv, ListInv
<1>4. prev # cur
  BY <1>1, <1>3, ListFacts DEF IInv, ListInv, TypeOK
<1>5. ASSUME units[cur] # want PROVE cur + want \in Unit \ Chunks
  <2>1. want \in 1 .. units[cur] - 1
    BY <1>2, <1>5
  <2>2. cur + want \in Unit
    BY <1>1, <2>1, ChunkFacts
  <2>3. cur + want \notin Chunks
    <3> SUFFICES ASSUME cur + want \in Chunks PROVE FALSE
      OBVIOUS
    <3>1. cur < cur + want /\ cur \in Nat
      BY <1>1, <1>2, ChunkFacts
    <3>2. cur + units[cur] < cur + want
      BY <1>1, <3>1, ChunkFacts
    <3> QED
      BY <1>2, <3>1, <3>2
  <2> QED
    BY <2>2, <2>3
<1> QED
  BY <1>1, <1>2, <1>3, <1>4, <1>5

LEMMA TakenList ==
    ASSUME IInv, op = "alloc", RoomEnough(cur)
    PROVE  NextLeft \in [Unit -> Unit] /\ Sorted(TakenChunks, NextLeft)
<1>1. /\ cur \in Chunks /\ cur # arena /\ prev \in Chunks /\ prev # cur /\ next[prev] = cur
      /\ units[cur] # want => cur + want \in Unit \ Chunks
      /\ cur \in Nat /\ want \in Nat /\ want >= 2
  BY TakenFacts, ChunkFacts
<1>2. next \in [Unit -> Unit] /\ Sorted(Chunks, next) /\ Chunks \subseteq Unit /\ Chunks \subseteq Nat
  BY ChunkFacts DEF IInv, TypeOK, ListInv
<1> DEFINE m == [next EXCEPT ![prev] = next[cur], ![cur] = arena]
           D == Chunks \ {cur}
<1>3. m \in [Unit -> Unit] /\ Sorted(D, m)
  BY <1>1, <1>2, Unlinked
<1>4. CASE units[cur] = want
  BY <1>3, <1>4 DEF NextLeft, TakenChunks
<1>5. CASE units[cur] # want
  <2> DEFINE v == cur + want
  <2>1. v \in Unit /\ v # cur /\ v # prev /\ v \notin D /\ v \in Nat /\ prev \in D /\ prev \in Nat
    BY <1>1, <1>2, <1>5
  <2>2. prev < v /\ (next[cur] = arena \/ v < next[cur])
    <3>1. prev < cur /\ (next[cur] = arena \/ cur < next[cur]) /\ next[cur] \in Chunks
      BY <1>1, <1>2, ChunkFacts DEF Sorted
    <3>2. next[cur] # arena => cur + units[cur] < next[cur]
      BY <1>1, <3>1, ChunkFacts
    <3>3. units[cur] \in Nat /\ units[cur] >= want /\ next[cur] \in Nat
      BY <1>2, <3>1, TakenFacts
    <3> QED
      BY <1>1, <1>2, <3>1, <3>2, <3>3
  <2>3. m[prev] = next[cur]
    BY <1>1, <1>2
  <2>4. NextLeft = [m EXCEPT ![prev] = v, ![v] = m[prev]]
    <3>1. NextLeft = [next EXCEPT ![prev] = v, ![v] = next[cur], ![cur] = arena]
      BY <1>5 DEF NextLeft
    <3> HIDE DEF v
    <3>2. [m EXCEPT ![prev] = v, ![v] = next[cur]]
            = [next EXCEPT ![prev] = v, ![v] = next[cur], ![cur] = arena]
      BY <1>1, <1>2, <2>1
    <3> QED
      BY <2>3, <3>1, <3>2
  <2>5. TakenChunks = D \union {v}
    BY <1>5 DEF TakenChunks
  <2> HIDE DEF m, D, v
  <2> QED
    BY <1>3, <2>1, <2>2, <2>3, <2>4, <2>5, Linked
<1> QED
  BY <1>4, <1>5

LEMMA TakenUnits ==
    ASSUME IInv, op = "alloc", RoomEnough(cur)
    PROVE  /\ UnitsLeft \in [Unit -> 0 .. (NPage + 1) * UPP] /\ UnitsLeft[cur] = want
           /\ units[cur] # want => UnitsLeft[cur + want] = units[cur] - want
           /\ \A x \in Chunks \ {cur} : UnitsLeft[x] = units[x]
           /\ \A h \in Unit : BetweenChunks(h) => UnitsLeft[h] = units[h] /\ h # cur
           /\ UnitsLeft[arena] = 1
           /\ \A x, y \in TakenChunks : x + UnitsLeft[x] # y
<1>1. /\ cur \in Chunks /\ cur # arena /\ want \in Nat /\ want >= 2
      /\ units[cur] \in Nat /\ units[cur] >= want
      /\ units[cur] # want => cur + want \in Unit \ Chunks
  BY TakenFacts
<1>2. /\ units \in [Unit -> 0 .. (NPage + 1) * UPP] /\ Chunks \subseteq Unit /\ Chunks \subseteq Nat
      /\ arena \in Chunks /\ units[arena] = 1 /\ Unit \subseteq Nat /\ (NPage + 1) * UPP \in Nat
  BY ChunkFacts, PageFacts DEF IInv, TypeOK, ListInv
<1>3. CASE units[cur] = want
  <2>1. UnitsLeft = units /\ TakenChunks = Chunks \ {cur}
    BY <1>3 DEF UnitsLeft, TakenChunks
  <2>2. \A x, y \in Chunks : x + units[x] # y
    BY DEF IInv, ListInv
  <2> QED
    BY <1>1, <1>2, <1>3, <2>1, <2>2 DEF BetweenChunks
<1>4. CASE units[cur] # want
  <2> DEFINE v == cur + want
  <2>1. v \in Unit /\ v \notin Chunks /\ v # cur /\ v \in Nat /\ cur \in Nat /\ cur < v
    BY <1>1, <1>2, <1>4
  <2>2. UnitsLeft = [units EXCEPT ![cur] = want, ![v] = units[cur] - want]
    BY <1>4 DEF UnitsLeft
  <2>3. want \in 0 .. (NPage + 1) * UPP /\ units[cur] - want \in 0 .. (NPage + 1) * UPP
    <3>1. units[cur] <= (NPage + 1) * UPP
      BY <1>1, <1>2
    <3> QED
      BY <1>1, <1>2, <3>1
  <2>4. TakenChunks = (Chunks \ {cur}) \union {v}
    BY <1>4 DEF TakenChunks
  <2>5. v + (units[cur] - want) = cur + units[cur]
    BY <1>1, <2>1
  <2> HIDE DEF v
  <2>6. /\ UnitsLeft \in [Unit -> 0 .. (NPage + 1) * UPP] /\ UnitsLeft[cur] = want
        /\ UnitsLeft[v] = units[cur] - want
        /\ \A x \in Unit : x # cur /\ x # v => UnitsLeft[x] = units[x]
    BY <1>1, <1>2, <2>1, <2>2, <2>3
  <2>7. ASSUME NEW h \in Unit, BetweenChunks(h) PROVE h # v /\ h # cur
    <3>1. h # cur /\ (cur < h => cur + units[cur] <= h) /\ h \in Nat
      BY <1>1, <1>2, <2>7 DEF BetweenChunks
    <3> QED
      BY <1>1, <1>4, <3>1, <2>1 DEF v
  <2>8. ASSUME NEW x \in TakenChunks, NEW y \in TakenChunks PROVE x + UnitsLeft[x] # y
    <3>1. \A z \in Chunks : /\ cur + units[cur] # z
                            /\ z + units[z] # cur /\ z \in Nat /\ units[z] \in Nat \ {0}
                            /\ z < cur => z + units[z] < cur
                            /\ cur < z => cur + units[cur] < z
      BY <1>1, ChunkFacts DEF IInv, ListInv
    <3>2. CASE x = v
      <4>1. x + UnitsLeft[x] = cur + units[cur]
        BY <2>5, <2>6, <3>2
      <4>2. cur + units[cur] > v
        BY <1>1, <1>4, <2>1 DEF v
      <4> QED
        BY <2>4, <3>1, <4>1, <4>2, <2>1, <1>1
    <3>3. CASE x # v
      <4>1. x \in Chunks /\ x # cur /\ UnitsLeft[x] = units[x]
        BY <1>2, <2>4, <2>6, <3>3
      <4>2. CASE y # v
        BY <2>4, <4>1, <4>2 DEF IInv, ListInv
      <4>3. CASE y = v
        <5>1. x < cur => x + units[x] < v
          BY <2>1, <3>1, <4>1
        <5>2. cur < x => v < x
          BY <1>1, <1>4, <2>1, <3>1, <4>1 DEF v
        <5>3. x \in Nat /\ units[x] \in Nat \ {0}
          BY <3>1, <4>1
        <5> QED
          BY <2>1, <4>1, <4>3, <5>1, <5>2, <5>3
      <4> QED
        BY <4>2, <4>3
    <3> QED
      BY <3>2, <3>3
  <2>9. UnitsLeft[arena] = 1
    BY <1>1, <1>2, <2>1, <2>6
  <2>10. \A x \in Chunks \ {cur} : UnitsLeft[x] = units[x]
    BY <1>2, <2>1, <2>6
  <2> QED
    BY <2>6, <2>7, <2>8, <2>9, <2>10 DEF v
<1> QED
  BY <1>3, <1>4

LEMMA TakenTiled ==
    ASSUME IInv, op = "alloc", RoomEnough(cur), NEW k
    PROVE  Tiled(ChunkSet(TakenChunks, UnitsLeft) \union {<<k, cur, want>>} \union BlockSet \union DescSet,
                 HeapUnits)
<1> DEFINE o == <<"chunk", cur, units[cur]>>
           B == {<<k, cur, want>>} \union (IF units[cur] = want THEN {} ELSE {<<"chunk", cur + want, units[cur] - want>>})
<1>1. o \in Owners /\ cur \in Chunks
  BY TakenFacts, ChunkFacts
<1>2. Tiled((Owners \ {o}) \union B, HeapUnits)
  <2>1. CASE units[cur] = want
    <3>1. B = {<<k, cur, want>>} /\ o = <<"chunk", cur, want>>
      BY <2>1
    <3>2. Tiled((Owners \ {<<"chunk", cur, want>>}) \union {<<k, cur, want>>}, HeapUnits)
      BY <1>1, <3>1, Renamed DEF IInv
    <3> QED
      BY <3>1, <3>2
  <2>2. CASE units[cur] # want
    <3>1. B = {<<k, cur, want>>, <<"chunk", cur + want, units[cur] - want>>}
      BY <2>2
    <3>2. want \in Nat \ {0} /\ want < units[cur]
      BY <2>2, TakenFacts
    <3>3. Tiled((Owners \ {<<"chunk", cur, units[cur]>>})
                  \union {<<k, cur, want>>, <<"chunk", cur + want, units[cur] - want>>}, HeapUnits)
      BY <1>1, <3>2, Split DEF IInv
    <3> QED
      BY <3>1, <3>3
  <2> QED
    BY <2>1, <2>2
<1>3. Owners = ChunkSet(Chunks, units) \union BlockSet \union DescSet
  BY OwnersAre DEF IInv, FreedSet
<1>4. o \notin BlockSet /\ o \notin DescSet
  BY DEF BlockSet, DescSet
<1>5. ChunkSet(TakenChunks, UnitsLeft) \union {<<k, cur, want>>} = (ChunkSet(Chunks, units) \ {o}) \union B
  <2>1. \A x \in Chunks \ {cur} : UnitsLeft[x] = units[x]
    BY TakenUnits
  <2>2. ChunkSet(Chunks, units) \ {o} = ChunkSet(Chunks \ {cur}, UnitsLeft)
    BY <1>1, <2>1 DEF ChunkSet
  <2>3. CASE units[cur] = want
    BY <2>2, <2>3 DEF TakenChunks
  <2>4. CASE units[cur] # want
    <3> DEFINE v == cur + want
    <3>1. TakenChunks = (Chunks \ {cur}) \union {v} /\ UnitsLeft[v] = units[cur] - want
      BY <2>4, TakenUnits DEF TakenChunks
    <3>2. ChunkSet(TakenChunks, UnitsLeft) = ChunkSet(Chunks \ {cur}, UnitsLeft) \union {<<"chunk", v, units[cur] - want>>}
      BY <3>1 DEF ChunkSet
    <3> HIDE DEF v, o
    <3> QED
      BY <2>2, <2>4, <3>2 DEF v
  <2> QED
    BY <2>3, <2>4
<1> HIDE DEF o, B
<1>6. (Owners \ {o}) \union B
        = ChunkSet(TakenChunks, UnitsLeft) \union {<<k, cur, want>>} \union BlockSet \union DescSet
  BY <1>3, <1>4, <1>5
<1> QED
  BY <1>2, <1>6

-----------------------------------------------------------------------------
(* The steps *)

LEMMA ChunksNext ==
    ASSUME NEW C, Sorted(C, next')
    PROVE  Chunks' = C
BY DEF Sorted, Chunks

\* The pages of a big block are no part of the heap.
LEMMA BigFacts ==
    ASSUME TypeOK
    PROVE  /\ \A i \in 1 .. Len(bigblocks) :
                /\ bigblocks[i].bb \in Unit /\ bigblocks[i].pages \in Page
                /\ 2^(bigblocks[i].order) \in Nat \ {0}
                /\ bigblocks[i].pages \in Span(bigblocks[i].pages, 2^(bigblocks[i].order))
                /\ bigblocks[i].pages \in BigPages
           /\ \A a : IsBig(a) => a \notin HeapUnits
           /\ \A a \in HeapUnits : a # arena => a \div UPP \in Page \ (freepages \union BigPages)
<1>1. ASSUME NEW i \in 1 .. Len(bigblocks)
      PROVE  /\ bigblocks[i].bb \in Unit /\ bigblocks[i].pages \in Page
             /\ 2^(bigblocks[i].order) \in Nat \ {0}
             /\ bigblocks[i].pages \in Span(bigblocks[i].pages, 2^(bigblocks[i].order))
  <2>1. bigblocks[i] \in [bb : Unit, order : 0 .. NPage, pages : Page]
    BY ElementOfSeq DEF TypeOK
  <2>2. 2^(bigblocks[i].order) \in Nat \ {0} /\ bigblocks[i].pages \in Nat
    BY <2>1, OrderAssumption, PageFacts
  <2> DEFINE p == bigblocks[i].pages
             n == 2^(bigblocks[i].order)
  <2>3. p \in Nat /\ n \in Nat \ {0}
    BY <2>2
  <2> HIDE DEF p, n
  <2>4. p \in Span(p, n)
    BY <2>3, SpanFacts
  <2> QED
    BY <2>1, <2>2, <2>4 DEF p, n
<1>2. \A i \in 1 .. Len(bigblocks) : bigblocks[i].pages \in BigPages
  BY <1>1 DEF BigPages
<1>3. \A a \in HeapUnits : a # arena => a \div UPP \in Page \ (freepages \union BigPages)
  BY DEF HeapUnits
<1>4. ASSUME NEW a, IsBig(a) PROVE a \notin HeapUnits
  <2>1. PICK i \in 1 .. Len(bigblocks) : bigblocks[i].pages * UPP = a
    BY <1>4 DEF IsBig, BigAt
  <2> DEFINE p == bigblocks[i].pages
  <2>2. p \in Page /\ p \in BigPages
    BY <1>1, <1>2
  <2>3. a \in Unit /\ a \in Span(p * UPP, UPP) /\ a # arena
    <3>1. a = p * UPP /\ p * UPP \in Unit /\ Span(p * UPP, UPP) \subseteq Unit \ {arena}
      BY <2>1, <2>2, PageFacts
    <3>2. UPP \in Nat \ {0} /\ a \in Nat
      BY <3>1, UnitsOfPage, PageFacts
    <3>3. a \in Span(a, UPP)
      BY <3>2, SpanFacts
    <3> QED
      BY <3>1, <3>3
  <2>4. a \div UPP = p
    BY <2>2, <2>3, PageFacts
  <2> QED
    BY <1>3, <2>2, <2>3, <2>4
<1> QED
  BY <1>1, <1>2, <1>3, <1>4

LEMMA AllocSmallInv ==
    ASSUME IInv, AllocSmall
    PROVE  IInv'
<1> DEFINE new == [addr |-> cur + 1, size |-> size]
<1>1. /\ op = "alloc" /\ RoomEnough(cur) /\ IsSmall(size)
      /\ units' = UnitsLeft /\ next' = NextLeft /\ slobfree' = prev
      /\ live' = live \union {new}
      /\ op' = "idle" /\ size' = 0 /\ want' = 0 /\ prev' = arena /\ cur' = arena /\ b' = arena
      /\ then' = "return" /\ bigblocks' = bigblocks /\ freepages' = freepages
  BY DEF AllocSmall, Return, StartNext
<1>2. /\ cur \in Chunks /\ cur # arena /\ prev \in Chunks /\ prev # cur
      /\ want \in Nat /\ want >= 2 /\ size \in Sizes /\ want = Need(size)
      /\ units[cur] \in Nat /\ units[cur] >= want
  BY <1>1, TakenFacts DEF WantOf
<1>3. NextLeft \in [Unit -> Unit] /\ Sorted(TakenChunks, NextLeft)
  BY <1>1, TakenList
<1>4. Chunks' = TakenChunks
  BY <1>1, <1>3, ChunksNext
<1>5. /\ UnitsLeft \in [Unit -> 0 .. (NPage + 1) * UPP] /\ UnitsLeft[cur] = want
      /\ \A h \in Unit : BetweenChunks(h) => UnitsLeft[h] = units[h] /\ h # cur
      /\ UnitsLeft[arena] = 1
      /\ \A x, y \in TakenChunks : x + UnitsLeft[x] # y
  BY <1>1, TakenUnits
<1>6. prev \in TakenChunks /\ arena \in TakenChunks
  BY <1>2, ChunkFacts DEF TakenChunks
<1>7. ListInv'
  BY <1>1, <1>3, <1>4, <1>5, <1>6 DEF ListInv
<1>8. cur + 1 \in Unit /\ cur + 1 \in HeapUnits /\ cur \in Unit /\ cur \in Nat
  <2> DEFINE o == <<"chunk", cur, units[cur]>>
  <2>1. o \in Owners /\ o[2] = cur /\ o[3] = units[cur] /\ 1 \in 1 .. units[cur] - 1 /\ cur \in Unit /\ cur \in Nat
    BY <1>2, ChunkFacts
  <2> HIDE DEF o
  <2> QED
    BY <2>1, OwnerFacts DEF IInv
<1>9. TypeOK'
  <2>1. new \in [addr : Unit, size : Sizes]
    BY <1>2, <1>8
  <2>2. prev \in Unit /\ arena \in Unit /\ 0 \in 0 .. UPP
    BY <1>2, ChunkFacts, UnitsOfPage
  <2> QED
    BY <1>1, <1>3, <1>5, <2>1, <2>2 DEF IInv, TypeOK
<1>10. \A a : IsBig(a)' = IsBig(a)
  BY <1>1 DEF IsBig, BigAt
<1>11. ~ IsBig(cur + 1)
  BY <1>8, BigFacts DEF IInv
<1>12. \A x \in live : IsSmall(x.size) =>
          x.addr - 1 \in Unit /\ units'[x.addr - 1] = units[x.addr - 1] /\ x.addr - 1 # cur
  BY <1>1, <1>5, HeldFacts DEF SmallBlocks, BetweenChunks
<1>13. ASSUME NEW x \in live, x.addr = cur + 1 PROVE FALSE
  <2>1. IsSmall(x.size)
    BY <1>11, <1>13 DEF IInv, BlockInv
  <2>2. x.addr - 1 # cur
    BY <1>12, <2>1
  <2> QED
    BY <1>8, <1>13, <2>2
<1>14. BlockInv'
  <2>1. ASSUME NEW x \in live'
        PROVE  IF IsSmall(x.size)
               THEN /\ x.addr - 1 \in Unit /\ units'[x.addr - 1] = Need(x.size)
                    /\ ~ IsBig(x.addr)
               ELSE IsBig(x.addr)
    <3>1. CASE x \in live
      BY <1>12, <3>1 DEF IInv, BlockInv
    <3>2. CASE x = new
      <4>1. x.addr = cur + 1 /\ x.size = size /\ x.addr - 1 = cur
        BY <1>8, <3>2
      <4> QED
        BY <1>1, <1>2, <1>5, <1>8, <1>11, <4>1
    <3> QED
      BY <1>1, <2>1, <3>1, <3>2
  <2>2. \A x, y \in live' : x.addr = y.addr => x = y
    BY <1>1, <1>13 DEF IInv, BlockInv
  <2> QED
    BY <1>1, <1>10, <2>1, <2>2 DEF IInv, BlockInv
<1>15. Tiled(Owners, HeapUnits)'
  <2>1. BlockSet' = BlockSet \union {<<"block", cur, want>>}
    <3>1. SmallBlocks' = SmallBlocks \union {new}
      BY <1>1 DEF SmallBlocks
    <3>2. new.addr - 1 = cur /\ Need(new.size) = want
      <4>1. new.addr = cur + 1 /\ new.size = size
        OBVIOUS
      <4> HIDE DEF new
      <4> QED
        BY <1>2, <1>8, <4>1
    <3> HIDE DEF new
    <3> QED
      BY <3>1, <3>2 DEF BlockSet
  <2>2. DescSet' = DescSet /\ FreedSet' = {} /\ HeapUnits' = HeapUnits
    BY <1>1, HeapSame DEF DescSet, FreedSet
  <2>3. Owners' = ChunkSet(TakenChunks, UnitsLeft) \union BlockSet' \union DescSet' \union FreedSet'
    BY <1>1, <1>4, <1>14, OwnersAreNext
  <2>4. Owners' = ChunkSet(TakenChunks, UnitsLeft) \union {<<"block", cur, want>>} \union BlockSet \union DescSet
    BY <2>1, <2>2, <2>3
  <2> QED
    BY <1>1, <2>2, <2>4, TakenTiled DEF Tiled
<1>16. CallInv'
  BY <1>1 DEF CallInv
<1> QED
  BY <1>7, <1>9, <1>14, <1>15, <1>16 DEF IInv

\* The list of big blocks gains its first element, or loses one.
LEMMA Prepended ==
    ASSUME NEW S, NEW s \in Seq(S), NEW e \in S
    PROVE  LET t == <<e>> \o s
           IN /\ t \in Seq(S) /\ Len(t) = Len(s) + 1 /\ t[1] = e
              /\ \A i \in 1 .. Len(s) : i + 1 \in 1 .. Len(t) /\ t[i + 1] = s[i]
              /\ \A j \in 1 .. Len(t) : j = 1 \/ (j - 1 \in 1 .. Len(s) /\ t[j] = s[j - 1])
<1> DEFINE t == <<e>> \o s
<1>1. <<e>> \in Seq(S) /\ Len(<<e>>) = 1 /\ <<e>>[1] = e /\ Len(s) \in Nat
  OBVIOUS
<1>2. /\ t \in Seq(S) /\ Len(t) = Len(s) + 1
      /\ \A i \in 1 .. Len(t) : t[i] = IF i <= 1 THEN <<e>>[i] ELSE s[i - 1]
  BY <1>1, ConcatProperties
<1> HIDE DEF t
<1> QED
  BY <1>1, <1>2 DEF t

Without(s, i) == SubSeq(s, 1, i - 1) \o SubSeq(s, i + 1, Len(s))
MovedUp(t, s, i) ==
    /\ \A j \in 1 .. Len(t) :
         /\ j < i => j \in 1 .. Len(s) /\ t[j] = s[j]
         /\ j >= i => j + 1 \in 1 .. Len(s) /\ t[j] = s[j + 1]
    /\ \A k \in 1 .. Len(s) : k # i => \E j \in 1 .. Len(t) : t[j] = s[k]

LEMMA Cut ==
    ASSUME NEW S, NEW s \in Seq(S), NEW i \in 1 .. Len(s), NEW t, t = Without(s, i)
    PROVE  t \in Seq(S) /\ Len(t) = Len(s) - 1 /\ MovedUp(t, s, i)
<1> DEFINE a == SubSeq(s, 1, i - 1)
           c == SubSeq(s, i + 1, Len(s))
<1>1. Len(s) \in Nat /\ i \in Nat /\ i >= 1 /\ i <= Len(s)
  OBVIOUS
<1>2. /\ a \in Seq(S) /\ Len(a) = i - 1 /\ \A j \in 1 .. i - 1 : a[j] = s[j]
  BY <1>1, SubSeqProperties
<1>3. /\ c \in Seq(S) /\ Len(c) = Len(s) - i /\ \A j \in 1 .. Len(s) - i : c[j] = s[i + j]
  BY <1>1, SubSeqProperties
<1> HIDE DEF a, c
<1>4. /\ a \o c \in Seq(S) /\ Len(a \o c) = Len(a) + Len(c)
      /\ \A j \in 1 .. Len(a) + Len(c) : (a \o c)[j] = IF j <= Len(a) THEN a[j] ELSE c[j - Len(a)]
  BY <1>2, <1>3, ConcatProperties
<1>5. t = a \o c
  BY DEF a, c, Without
<1>6. /\ t \in Seq(S) /\ Len(t) = Len(s) - 1
      /\ \A j \in 1 .. Len(t) : t[j] = IF j < i THEN s[j] ELSE c[j - (i - 1)]
  <2> HIDE DEF a
  <2>1. Len(a) + Len(c) = Len(s) - 1
    BY <1>1, <1>2, <1>3
  <2>2. \A j \in 1 .. Len(s) - 1 : t[j] = IF j <= Len(a) THEN a[j] ELSE c[j - Len(a)]
    BY <1>4, <1>5, <2>1
  <2>3. \A j \in 1 .. Len(s) - 1 : t[j] = IF j < i THEN s[j] ELSE c[j - (i - 1)]
    BY <1>1, <1>2, <2>2
  <2> QED
    BY <1>4, <1>5, <2>1, <2>3
<1>7. ASSUME NEW j \in 1 .. Len(t)
      PROVE  /\ j < i => j \in 1 .. Len(s) /\ t[j] = s[j]
             /\ j >= i => j + 1 \in 1 .. Len(s) /\ t[j] = s[j + 1]
  <2>1. CASE j < i
    BY <1>1, <1>6, <2>1
  <2>2. CASE j >= i
    <3>1. j - (i - 1) \in 1 .. Len(s) - i /\ i + (j - (i - 1)) = j + 1 /\ j + 1 \in 1 .. Len(s)
      BY <1>1, <1>6, <2>2
    <3>2. t[j] = c[j - (i - 1)] /\ c[j - (i - 1)] = s[i + (j - (i - 1))]
      BY <1>1, <1>3, <1>6, <2>2, <3>1
    <3> QED
      BY <1>1, <2>2, <3>1, <3>2
  <2> QED
    BY <1>1, <1>6, <2>1, <2>2
<1>8. ASSUME NEW k \in 1 .. Len(s), k # i PROVE \E j \in 1 .. Len(t) : t[j] = s[k]
  <2>1. CASE k < i
    <3>1. k \in 1 .. Len(t) /\ t[k] = s[k]
      BY <1>1, <1>6, <2>1
    <3> QED
      BY <3>1
  <2>2. CASE k > i
    <3>1. k - 1 \in 1 .. Len(t) /\ k - 1 >= i /\ (k - 1) + 1 = k
      BY <1>1, <1>6, <2>2
    <3> QED
      BY <1>7, <3>1
  <2> QED
    BY <1>1, <1>8, <2>1, <2>2
<1> QED
  BY <1>6, <1>7, <1>8 DEF MovedUp

\* The first unit of a page that is free, or in a big block, is none of the heap's.
LEMMA PageStart ==
    ASSUME NEW p \in Page
    PROVE  /\ p * UPP \in Unit /\ (p * UPP) \div UPP = p /\ PageAligned(p * UPP)
           /\ p \in freepages \union BigPages => p * UPP \notin HeapUnits
           /\ \A q \in Page : q * UPP = p * UPP => q = p
<1>1. p * UPP \in Unit /\ p * UPP # arena /\ UPP \in Nat \ {0} /\ p \in Nat
  BY PageFacts, UnitsOfPage
<1>2. \A q \in Page : q * UPP \in Span(q * UPP, UPP)
  BY PageFacts, UnitsOfPage, SpanFacts
<1>3. \A q \in Page : (q * UPP) \div UPP = q
  BY <1>2, PageFacts
<1>4. PageAligned(p * UPP)
  <2> DEFINE a == p * UPP
  <2>1. a \in Nat /\ a = (a \div UPP) * UPP + (a % UPP) /\ a % UPP \in Nat
    <3>1. a \in Nat
      BY <1>1, PageFacts
    <3> HIDE DEF a
    <3> QED
      BY <1>1, <3>1, Division
  <2>2. a \div UPP = p
    BY <1>3
  <2>3. a % UPP = 0
    BY <1>1, <2>1, <2>2
  <2> QED
    BY <2>3 DEF PageAligned
<1>5. p \in freepages \union BigPages => p * UPP \notin HeapUnits
  BY <1>1, <1>3 DEF HeapUnits
<1> QED
  BY <1>1, <1>3, <1>4, <1>5

\* A small block is in the heap.
LEMMA SmallFacts ==
    ASSUME IInv, NEW x \in SmallBlocks
    PROVE  /\ x.addr \in HeapUnits /\ x.addr \in Nat /\ ~ IsBig(x.addr)
           /\ \A p \in Page : p \in freepages => x.addr # p * UPP
<1> DEFINE o == <<"block", x.addr - 1, Need(x.size)>>
<1>1. x.addr \in Nat /\ x.size \in Sizes /\ IsSmall(x.size)
  BY PageFacts DEF IInv, TypeOK, SmallBlocks
<1>2. o \in Owners /\ o[2] = x.addr - 1 /\ o[3] = Need(x.size)
  BY HeldFacts
<1>3. o[3] \in Nat /\ o[3] >= 2
  BY <1>1, <1>2, NeedFacts DEF WantOf
<1> HIDE DEF o
<1>4. o[2] + 1 \in HeapUnits
  BY <1>2, <1>3, OwnerFacts DEF IInv
<1>5. x.addr \in HeapUnits
  BY <1>1, <1>2, <1>4
<1> QED
  BY <1>1, <1>5, PageStart DEF IInv, BlockInv, SmallBlocks

\* The descriptor of a big block is taken, but there are no pages for it.
LEMMA AllocBigFails ==
    ASSUME IInv, op = "alloc", RoomEnough(cur),
           units' = UnitsLeft, next' = NextLeft, slobfree' = prev,
           op' = "free", b' = cur, cur' = prev, then' = "return",
           UNCHANGED <<bigblocks, freepages, live, size, want, prev>>
    PROVE  IInv'
<1>1. /\ cur \in Chunks /\ cur # arena /\ prev \in Chunks /\ prev # cur
      /\ want \in Nat /\ want >= 2 /\ size \in Sizes
      /\ units[cur] \in Nat /\ units[cur] >= want
  BY TakenFacts
<1>2. NextLeft \in [Unit -> Unit] /\ Sorted(TakenChunks, NextLeft)
  BY TakenList
<1>3. Chunks' = TakenChunks
  BY <1>2, ChunksNext
<1>4. /\ UnitsLeft \in [Unit -> 0 .. (NPage + 1) * UPP] /\ UnitsLeft[cur] = want
      /\ \A h \in Unit : BetweenChunks(h) => UnitsLeft[h] = units[h] /\ h # cur
      /\ UnitsLeft[arena] = 1
      /\ \A x, y \in TakenChunks : x + UnitsLeft[x] # y
  BY TakenUnits
<1>5. prev \in TakenChunks
  BY <1>1, ChunkFacts DEF TakenChunks
<1>6. ListInv'
  BY <1>2, <1>3, <1>4, <1>5 DEF ListInv
<1>7. TypeOK'
  <2>1. prev \in Unit /\ cur \in Unit
    BY <1>1, ChunkFacts
  <2> QED
    BY <1>2, <1>4, <2>1 DEF IInv, TypeOK
<1>8. BlockInv' /\ BlockSet' = BlockSet /\ DescSet' = DescSet
  <2>1. \A x \in SmallBlocks : units'[x.addr - 1] = units[x.addr - 1]
    BY <1>4, HeldFacts DEF BetweenChunks
  <2> QED
    BY <2>1, BlocksKept DEF IInv
<1>9. Tiled(Owners, HeapUnits)'
  <2>1. FreedSet' = {<<"freed", cur, want>>} /\ HeapUnits' = HeapUnits
    BY <1>4, HeapSame DEF FreedSet
  <2>2. Owners' = ChunkSet(TakenChunks, UnitsLeft) \union BlockSet' \union DescSet' \union FreedSet'
    BY <1>3, <1>8, OwnersAreNext
  <2>3. Owners' = ChunkSet(TakenChunks, UnitsLeft) \union {<<"freed", cur, want>>} \union BlockSet \union DescSet
    BY <1>8, <2>1, <2>2
  <2> QED
    BY <2>1, <2>3, TakenTiled DEF Tiled
<1>10. CallInv'
  BY DEF CallInv
<1> QED
  BY <1>6, <1>7, <1>8, <1>9, <1>10 DEF IInv

\* It gets its pages.
LEMMA AllocBigDone ==
    ASSUME IInv, op = "alloc", RoomEnough(cur), ~ IsSmall(size), NEW p \in Page, NEW k \in 0 .. NPage,
           IsLowestRun(p, 2^k), freepages' = freepages \ Span(p, 2^k),
           bigblocks' = <<[bb |-> cur, order |-> k, pages |-> p]>> \o bigblocks,
           units' = [UnitsLeft EXCEPT ![cur] = 0], next' = NextLeft, slobfree' = prev,
           live' = live \union {[addr |-> p * UPP, size |-> size]},
           Return
    PROVE  IInv'
<1> DEFINE new == [addr |-> p * UPP, size |-> size]
           e == [bb |-> cur, order |-> k, pages |-> p]
           run == Span(p, 2^k)
<1>1. /\ cur \in Chunks /\ cur # arena /\ prev \in Chunks /\ prev # cur
      /\ want \in Nat /\ want >= 2 /\ size \in Sizes /\ want = SLOB_UNITS(BIGBLOCK)
      /\ units[cur] \in Nat /\ units[cur] >= want
  BY TakenFacts DEF WantOf
<1>2. NextLeft \in [Unit -> Unit] /\ Sorted(TakenChunks, NextLeft)
  BY TakenList
<1>3. Chunks' = TakenChunks
  BY <1>2, ChunksNext
<1>4. /\ UnitsLeft \in [Unit -> 0 .. (NPage + 1) * UPP] /\ UnitsLeft[cur] = want
      /\ \A h \in Unit : BetweenChunks(h) => UnitsLeft[h] = units[h] /\ h # cur
      /\ UnitsLeft[arena] = 1
      /\ \A x, y \in TakenChunks : x + UnitsLeft[x] # y
  BY TakenUnits
<1>5. prev \in TakenChunks /\ arena \in TakenChunks /\ cur \notin TakenChunks /\ cur \in Unit /\ cur \in Nat
  BY <1>1, ChunkFacts DEF TakenChunks
<1>6. /\ units' \in [Unit -> 0 .. (NPage + 1) * UPP]
      /\ \A x \in Unit : x # cur => units'[x] = UnitsLeft[x]
  <2>1. 0 \in 0 .. (NPage + 1) * UPP
    BY PageFacts
  <2> QED
    BY <1>4, <1>5, <2>1
<1>7. TakenChunks \subseteq Unit
  BY <1>2, ListFacts
<1>8. ListInv'
  <2>1. \A x \in TakenChunks : units'[x] = UnitsLeft[x]
    BY <1>5, <1>6, <1>7
  <2> QED
    BY <1>2, <1>3, <1>4, <1>5, <2>1 DEF ListInv, Return
<1>9. /\ bigblocks' \in Seq([bb : Unit, order : 0 .. NPage, pages : Page]) /\ Len(bigblocks') = Len(bigblocks) + 1
      /\ bigblocks'[1] = e
      /\ \A i \in 1 .. Len(bigblocks) : i + 1 \in 1 .. Len(bigblocks') /\ bigblocks'[i + 1] = bigblocks[i]
      /\ \A j \in 1 .. Len(bigblocks') : j = 1 \/ (j - 1 \in 1 .. Len(bigblocks) /\ bigblocks'[j] = bigblocks[j - 1])
  <2>1. e \in [bb : Unit, order : 0 .. NPage, pages : Page]
    BY <1>5
  <2>2. bigblocks \in Seq([bb : Unit, order : 0 .. NPage, pages : Page]) /\ bigblocks' = <<e>> \o bigblocks
    BY DEF IInv, TypeOK
  <2> HIDE DEF e
  <2> QED
    BY <2>1, <2>2, Prepended
<1>10. e.bb = cur /\ e.order = k /\ e.pages = p /\ Len(bigblocks) \in Nat /\ 1 \in 1 .. Len(bigblocks')
  BY <1>9 DEF IInv, TypeOK
<1>11. TypeOK'
  <2>1. prev \in Unit /\ arena \in Unit /\ 0 \in 0 .. UPP
    BY <1>1, ChunkFacts, UnitsOfPage
  <2>2. new \in [addr : Unit, size : Sizes]
    BY <1>1, PageStart
  <2> QED
    BY <1>2, <1>6, <1>9, <2>1, <2>2 DEF IInv, TypeOK, Return
<1>12. p \in run /\ run \subseteq freepages /\ freepages \subseteq Page /\ p \in Nat
  <2> DEFINE n == 2^k
  <2>1. n \in Nat \ {0} /\ p \in Nat /\ run = Span(p, n)
    BY PageFacts, OrderAssumption
  <2>2. run \subseteq freepages /\ freepages \subseteq Page
    BY DEF IsLowestRun, IInv, TypeOK
  <2> HIDE DEF n, run
  <2>3. p \in run
    BY <2>1, SpanFacts
  <2> QED
    BY <2>1, <2>2, <2>3
<1>13. ASSUME NEW i \in 1 .. Len(bigblocks)
       PROVE  /\ Span(bigblocks[i].pages, 2^(bigblocks[i].order)) \subseteq Page \ freepages
              /\ bigblocks[i].bb # cur /\ bigblocks[i].pages # p /\ bigblocks[i].pages \in Page
  <2>1. bigblocks[i].bb # cur
    BY <1>4, HeldFacts DEF BetweenChunks
  <2>2. Span(bigblocks[i].pages, 2^(bigblocks[i].order)) \subseteq Page \ freepages
    BY DEF IInv, BlockInv
  <2>3. /\ bigblocks[i].pages \in Page
        /\ bigblocks[i].pages \in Span(bigblocks[i].pages, 2^(bigblocks[i].order))
    BY BigFacts DEF IInv
  <2> QED
    BY <1>12, <2>1, <2>2, <2>3
<1>14. \A a : IsBig(a)' <=> IsBig(a) \/ a = p * UPP
  <2>1. \A a : BigAt(a)' # {} <=> BigAt(a) # {} \/ p * UPP = a
    <3>1. ASSUME NEW a, NEW i \in BigAt(a) PROVE BigAt(a)' # {}
      BY <1>9, <3>1 DEF BigAt
    <3>2. ASSUME NEW a, p * UPP = a PROVE BigAt(a)' # {}
      BY <1>9, <1>10, <3>2 DEF BigAt
    <3>3. ASSUME NEW a, NEW j \in BigAt(a)' PROVE BigAt(a) # {} \/ p * UPP = a
      BY <1>9, <1>10, <3>3 DEF BigAt
    <3> QED
      BY <3>1, <3>2, <3>3
  <2> QED
    BY <2>1, PageStart DEF IsBig
<1>15. \A x \in live : x.addr # p * UPP
  <2>1. \A x \in SmallBlocks : x.addr # p * UPP
    BY <1>12, SmallFacts
  <2>2. ASSUME NEW x \in live, ~ IsSmall(x.size), x.addr = p * UPP PROVE FALSE
    <3>1. PICK i \in 1 .. Len(bigblocks) : bigblocks[i].pages * UPP = x.addr
      BY <2>2 DEF IInv, BlockInv, IsBig, BigAt
    <3> QED
      BY <1>13, <2>2, <3>1, PageStart
  <2> QED
    BY <2>1, <2>2 DEF SmallBlocks
<1>16. \A x \in SmallBlocks : units'[x.addr - 1] = units[x.addr - 1]
  BY <1>4, <1>6, HeldFacts DEF BetweenChunks
<1>17. BlockInv'
  <2>1. ASSUME NEW x \in live'
        PROVE  IF IsSmall(x.size)
               THEN /\ x.addr - 1 \in Unit /\ units'[x.addr - 1] = Need(x.size)
                    /\ ~ IsBig(x.addr)'
               ELSE IsBig(x.addr)'
    <3>1. CASE x \in live
      BY <1>14, <1>15, <1>16, <3>1 DEF IInv, BlockInv, SmallBlocks
    <3>2. CASE x = new
      <4>1. x.addr = p * UPP /\ x.size = size
        BY <3>2
      <4> QED
        BY <1>14, <4>1
    <3> QED
      BY <2>1, <3>1, <3>2
  <2>2. \A x, y \in live' : x.addr = y.addr => x = y
    BY <1>15 DEF IInv, BlockInv
  <2>3. ASSUME NEW i \in 1 .. Len(bigblocks')
        PROVE  /\ Span(bigblocks'[i].pages, 2^(bigblocks'[i].order)) \subseteq Page \ freepages'
               /\ \A j \in 1 .. Len(bigblocks') : i # j =>
                    /\ bigblocks'[i].bb # bigblocks'[j].bb
                    /\ Span(bigblocks'[i].pages, 2^(bigblocks'[i].order))
                          \intersect Span(bigblocks'[j].pages, 2^(bigblocks'[j].order)) = {}
    <3> DEFINE Run(x) == Span(x.pages, 2^(x.order))
    <3>1. /\ Run(e) = run
          /\ \A m \in 1 .. Len(bigblocks) :
               /\ Run(bigblocks[m]) \subseteq Page \ freepages /\ bigblocks[m].bb # cur
               /\ \A j \in 1 .. Len(bigblocks) : m # j =>
                    bigblocks[m].bb # bigblocks[j].bb /\ Run(bigblocks[m]) \intersect Run(bigblocks[j]) = {}
      BY <1>10, <1>13 DEF IInv, BlockInv
    <3>2. /\ Run(bigblocks'[i]) = Span(bigblocks'[i].pages, 2^(bigblocks'[i].order))
          /\ \A j \in 1 .. Len(bigblocks') :
               Run(bigblocks'[j]) = Span(bigblocks'[j].pages, 2^(bigblocks'[j].order))
      OBVIOUS
    <3> HIDE DEF Run, e, run
    <3>3. Run(bigblocks'[i]) \subseteq Page \ freepages'
      BY <1>9, <1>12, <3>1 DEF run
    <3>4. ASSUME NEW j \in 1 .. Len(bigblocks'), i # j
          PROVE  bigblocks'[i].bb # bigblocks'[j].bb /\ Run(bigblocks'[i]) \intersect Run(bigblocks'[j]) = {}
      <4>1. CASE i = 1
        <5>1. j - 1 \in 1 .. Len(bigblocks) /\ bigblocks'[j] = bigblocks[j - 1] /\ bigblocks'[i] = e
          BY <1>9, <3>4, <4>1
        <5> QED
          BY <1>10, <1>12, <3>1, <5>1
      <4>2. CASE j = 1
        <5>1. i - 1 \in 1 .. Len(bigblocks) /\ bigblocks'[i] = bigblocks[i - 1] /\ bigblocks'[j] = e
          BY <1>9, <3>4, <4>2
        <5> QED
          BY <1>10, <1>12, <3>1, <5>1
      <4>3. CASE i # 1 /\ j # 1
        <5>1. /\ i - 1 \in 1 .. Len(bigblocks) /\ bigblocks'[i] = bigblocks[i - 1]
              /\ j - 1 \in 1 .. Len(bigblocks) /\ bigblocks'[j] = bigblocks[j - 1] /\ i - 1 # j - 1
          BY <1>9, <3>4, <4>3, SMTT(20)
        <5> QED
          BY <3>1, <5>1
      <4> QED
        BY <4>1, <4>2, <4>3
    <3> QED
      BY <3>2, <3>3, <3>4
  <2> QED
    BY <2>1, <2>2, <2>3 DEF BlockInv
<1>18. HeapUnits' = HeapUnits
  <2>1. BigPages' = BigPages \union run
    <3> DEFINE Run(x) == Span(x.pages, 2^(x.order))
    <3>1. BigPages = UNION {Run(bigblocks[i]) : i \in 1 .. Len(bigblocks)}
      BY DEF BigPages
    <3>2. BigPages' = UNION {Run(bigblocks'[i]) : i \in 1 .. Len(bigblocks')}
      BY DEF BigPages
    <3>3. Run(e) = run
      BY <1>10
    <3> HIDE DEF Run, e, run
    <3>4. ASSUME NEW q, q \in BigPages' PROVE q \in BigPages \union run
      <4>1. PICK i \in 1 .. Len(bigblocks') : q \in Run(bigblocks'[i])
        BY <3>2, <3>4
      <4>2. CASE i = 1
        <5>1. bigblocks'[i] = e
          BY <1>9, <4>2
        <5> QED
          BY <3>3, <4>1, <5>1
      <4>3. CASE i # 1
        <5>1. i - 1 \in 1 .. Len(bigblocks) /\ bigblocks'[i] = bigblocks[i - 1]
          BY <1>9, <4>1, <4>3
        <5> QED
          BY <3>1, <4>1, <5>1
      <4> QED
        BY <4>2, <4>3
    <3>5. ASSUME NEW q, q \in BigPages PROVE q \in BigPages'
      <4>1. PICK i \in 1 .. Len(bigblocks) : q \in Run(bigblocks[i])
        BY <3>1, <3>5
      <4>2. i + 1 \in 1 .. Len(bigblocks') /\ q \in Run(bigblocks'[i + 1])
        BY <1>9, <4>1
      <4> QED
        BY <3>2, <4>2
    <3>6. run \subseteq BigPages'
      BY <1>9, <1>10, <3>2, <3>3
    <3> QED
      BY <3>4, <3>5, <3>6
  <2>2. freepages' \union BigPages' = freepages \union BigPages
    BY <1>12, <2>1
  <2> QED
    BY <2>2 DEF HeapUnits
<1>19. Tiled(Owners, HeapUnits)'
  <2>1. BlockSet' = BlockSet
    <3>1. SmallBlocks' = SmallBlocks
      BY DEF SmallBlocks
    <3> QED
      BY <3>1 DEF BlockSet
  <2>2. DescSet' = DescSet \union {<<"desc", cur, want>>}
    <3> DEFINE D(x) == <<"desc", x.bb, SLOB_UNITS(BIGBLOCK)>>
    <3>1. /\ DescSet = {D(bigblocks[i]) : i \in 1 .. Len(bigblocks)}
          /\ DescSet' = {D(bigblocks'[i]) : i \in 1 .. Len(bigblocks')}
          /\ D(e) = <<"desc", cur, want>>
      BY <1>1, <1>10 DEF DescSet
    <3> HIDE DEF D, e
    <3>2. ASSUME NEW d, d \in DescSet' PROVE d \in DescSet \/ d = D(e)
      <4>1. PICK i \in 1 .. Len(bigblocks') : d = D(bigblocks'[i])
        BY <3>1, <3>2
      <4>2. CASE i = 1
        <5>1. bigblocks'[i] = e
          BY <1>9, <4>2
        <5> QED
          BY <4>1, <5>1
      <4>3. CASE i # 1
        <5>1. i - 1 \in 1 .. Len(bigblocks) /\ bigblocks'[i] = bigblocks[i - 1]
          BY <1>9, <4>1, <4>3
        <5> QED
          BY <3>1, <4>1, <5>1
      <4> QED
        BY <4>2, <4>3
    <3>3. ASSUME NEW d, d \in DescSet PROVE d \in DescSet'
      <4>1. PICK i \in 1 .. Len(bigblocks) : d = D(bigblocks[i])
        BY <3>1, <3>3
      <4>2. i + 1 \in 1 .. Len(bigblocks') /\ d = D(bigblocks'[i + 1])
        BY <1>9, <4>1
      <4> QED
        BY <3>1, <4>2
    <3>4. D(e) \in DescSet'
      BY <1>9, <1>10, <3>1
    <3> QED
      BY <3>1, <3>2, <3>3, <3>4
  <2>3. FreedSet' = {}
    BY DEF FreedSet, Return
  <2>4. ChunkSet(TakenChunks, units') = ChunkSet(TakenChunks, UnitsLeft)
    BY <1>5, <1>6, <1>7 DEF ChunkSet
  <2>5. Owners' = ChunkSet(TakenChunks, units') \union BlockSet' \union DescSet' \union FreedSet'
    BY <1>3, <1>17, OwnersAreNext
  <2>6. Owners' = ChunkSet(TakenChunks, UnitsLeft) \union {<<"desc", cur, want>>} \union BlockSet \union DescSet
    BY <2>1, <2>2, <2>3, <2>4, <2>5
  <2> QED
    BY <1>18, <2>6, TakenTiled, SMTT(20) DEF Tiled
<1>20. CallInv'
  BY DEF CallInv, Return
<1> QED
  BY <1>8, <1>11, <1>17, <1>19, <1>20 DEF IInv

LEMMA find_orderFacts ==
    ASSUME NEW n \in Sizes
    PROVE  find_order(n) \in 0 .. NPage
BY OrderAssumption DEF find_order

LEMMA AllocBigInv ==
    ASSUME IInv, AllocBig
    PROVE  IInv'
<1>1. /\ op = "alloc" /\ RoomEnough(cur) /\ ~ IsSmall(size) /\ next' = NextLeft /\ slobfree' = prev
      /\ size \in Sizes
  BY DEF AllocBig, StartNext, IInv, CallInv
<1> DEFINE k == find_order(size)
<1>2. k \in 0 .. NPage
  BY <1>1, find_orderFacts
<1>3. ASSUME NEW p \in Page, IsLowestRun(p, 2^k), freepages' = freepages \ Span(p, 2^k),
             bigblocks' = <<[bb |-> cur, order |-> k, pages |-> p]>> \o bigblocks,
             units' = [UnitsLeft EXCEPT ![cur] = 0],
             live' = live \union {[addr |-> p * UPP, size |-> size]},
             Return
      PROVE  IInv'
  <2> HIDE DEF k
  <2> QED
    BY <1>1, <1>2, <1>3, AllocBigDone
<1>4. ASSUME units' = UnitsLeft, op' = "free", b' = cur, cur' = slobfree', then' = "return",
             UNCHANGED <<bigblocks, freepages, live, size, want, prev>>
      PROVE  IInv'
  BY <1>1, <1>4, AllocBigFails
<1> QED
  BY <1>3, <1>4 DEF AllocBig

\* A step that leaves the heap alone.
LEMMA CallMoves ==
    ASSUME IInv, UNCHANGED <<units, next, slobfree, bigblocks, freepages, live>>,
           op' = "free" <=> op = "free", op = "free" => b' = b,
           cur' \in Chunks, CallInv', TypeOK'
    PROVE  IInv'
<1>1. Chunks' = Chunks
  BY DEF Chunks
<1>2. ListInv'
  BY <1>1 DEF IInv, ListInv
<1>3. BlockInv' /\ BlockSet' = BlockSet /\ DescSet' = DescSet
  BY BlocksKept DEF IInv
<1>4. Owners' = Owners /\ HeapUnits' = HeapUnits
  <2>1. FreedSet' = FreedSet
    BY DEF FreedSet
  <2> QED
    BY <1>1, <1>3, <2>1, OwnersAre, OwnersAreNext, HeapSame DEF IInv
<1>5. Tiled(Owners, HeapUnits)'
  BY <1>4 DEF IInv, Tiled
<1> QED
  BY <1>2, <1>3, <1>5 DEF IInv

LEMMA kmallocInv ==
    ASSUME IInv, NEW n \in Sizes, kmalloc(n)
    PROVE  IInv'
<1>1. /\ op = "idle" /\ op' \in {"alloc", "panic"} /\ size' = n /\ n \in Sizes
      /\ UNCHANGED <<units, next, slobfree, bigblocks, freepages, live, b, then>>
      /\ then # "grow"
  BY DEF kmalloc, heap, IInv, CallInv
<1>2. slobfree \in Chunks /\ cur \in Chunks /\ Chunks \subseteq Unit /\ next[slobfree] \in Chunks
  BY ChunkFacts DEF IInv, ListInv
<1>3. CASE op' = "alloc"
  <2> DEFINE bytes == IF IsSmall(n) THEN n + SLOB_UNIT ELSE BIGBLOCK
  <2>1. /\ want' = SLOB_UNITS(bytes) /\ prev' = slobfree /\ cur' = next[slobfree]
        /\ bytes + SLOB_UNIT < PAGE_SIZE
    BY <1>3 DEF kmalloc
  <2>2. want' = WantOf(n)
    BY <2>1 DEF WantOf, Need
  <2>3. want' \in 0 .. UPP
    <3>1. want' \in Nat
      BY <2>2, NeedFacts
    <3>2. want' <= UPP
      <4> DEFINE a == bytes + SLOB_UNIT - 1
      <4>1. /\ SLOB_UNIT \in Nat \ {0} /\ bytes \in Nat /\ PAGE_SIZE \in Nat
        BY SlobAssumption
      <4>2. a \in Nat /\ a < PAGE_SIZE
        BY <2>1, <4>1
      <4> DEFINE q == a \div SLOB_UNIT
                 r == a % SLOB_UNIT
      <4>3. q \in Nat /\ r \in Nat /\ a = q * SLOB_UNIT + r
        <5> HIDE DEF a
        <5>1. a \in Nat /\ SLOB_UNIT \in Nat \ {0}
          BY <4>1, <4>2
        <5>2. q \in Nat /\ r \in 0 .. SLOB_UNIT - 1 /\ a = q * SLOB_UNIT + r
          BY ONLY <5>1, Division
        <5> QED
          BY <5>2, <4>1
      <4>4. want' = q
        BY <2>1 DEF SLOB_UNITS
      <4> HIDE DEF a, q, r
      <4>5. q * SLOB_UNIT < UPP * SLOB_UNIT /\ UPP \in Nat
        BY <4>1, <4>2, <4>3, UnitsOfPage
      <4>6. q < UPP
        <5> HIDE DEF UPP
        <5> QED
          BY <4>1, <4>3, <4>5
      <4> QED
        BY <4>3, <4>4, <4>5, <4>6
    <3> QED
      BY <3>1, <3>2, UnitsOfPage
  <2>4. CallInv'
    <3>1. Chunks' = Chunks
      BY <1>1 DEF Chunks
    <3>2. ASSUME NEW x \in Chunks, Passed(x)' PROVE FALSE
      <4>1. \/ next[slobfree] = arena /\ \A y \in Chunks : y <= slobfree
            \/ slobfree < next[slobfree] /\ \A y \in Chunks : y <= slobfree \/ next[slobfree] <= y
        BY <1>2 DEF IInv, ListInv, Sorted
      <4>2. /\ IF slobfree < next[slobfree] THEN slobfree < x /\ x < next[slobfree]
               ELSE slobfree < x \/ x < next[slobfree]
            /\ x \in Nat /\ slobfree \in Nat /\ next[slobfree] \in Nat /\ arena = 0
        BY <1>1, <1>2, <2>1, <3>2, ChunkFacts DEF Passed
      <4> QED
        BY <4>1, <4>2
    <3> QED
      BY <1>1, <1>2, <1>3, <2>1, <2>2, <3>1, <3>2 DEF CallInv
  <2>5. TypeOK'
    BY <1>1, <1>2, <1>3, <2>1, <2>3 DEF IInv, TypeOK
  <2> QED
    BY <1>1, <1>2, <1>3, <2>1, <2>4, <2>5, CallMoves
<1>4. CASE op' = "panic"
  <2>1. UNCHANGED <<want, prev, cur, b, then>>
    BY <1>4 DEF kmalloc
  <2>2. CallInv' /\ TypeOK'
    BY <1>1, <1>4, <2>1 DEF CallInv, IInv, TypeOK
  <2> QED
    BY <1>1, <1>2, <1>4, <2>1, <2>2, CallMoves
<1> QED
  BY <1>1, <1>3, <1>4

LEMMA AllocNextInv ==
    ASSUME IInv, AllocNext
    PROVE  IInv'
<1>1. /\ op = "alloc" /\ op' = "alloc" /\ prev' = cur /\ cur' = next[cur] /\ cur # slobfree
      /\ ~ RoomEnough(cur)
      /\ UNCHANGED <<units, next, slobfree, bigblocks, freepages, live, size, want, b, then>>
  BY DEF AllocNext, heap
<1>2. /\ slobfree \in Chunks /\ cur \in Chunks /\ Chunks \subseteq Unit /\ next[cur] \in Chunks
      /\ slobfree \in Nat /\ cur \in Nat /\ next[cur] \in Nat /\ arena = 0
      /\ size \in Sizes /\ want = WantOf(size)
      /\ \A x \in Chunks : x \in Nat /\ (Passed(x) => units[x] < want)
  BY <1>1, ChunkFacts DEF IInv, ListInv, CallInv
<1>3. units[cur] < want
  <2>1. units[cur] \in Nat /\ want \in Nat
    BY <1>2, ChunkFacts, NeedFacts
  <2> QED
    BY <1>1, <2>1 DEF RoomEnough
<1>4. ASSUME NEW x \in Chunks, Passed(x)' PROVE x = cur \/ Passed(x)
  <2>1. \/ next[cur] = arena /\ \A y \in Chunks : y <= cur
        \/ cur < next[cur] /\ \A y \in Chunks : y <= cur \/ next[cur] <= y
    BY <1>2 DEF IInv, ListInv, Sorted
  <2>2. IF slobfree < next[cur] THEN slobfree < x /\ x < next[cur]
        ELSE slobfree < x \/ x < next[cur]
    BY <1>1, <1>4 DEF Passed
  <2>3. x \in Nat /\ (x <= cur \/ next[cur] <= x \/ next[cur] = arena) /\ (slobfree <= cur \/ next[cur] <= slobfree \/ next[cur] = arena)
    BY <1>2, <2>1
  <2>4. CASE next[cur] = arena /\ \A y \in Chunks : y <= cur
    <3>1. x <= cur /\ slobfree < cur /\ slobfree < x
      BY <1>1, <1>2, <2>2, <2>3, <2>4
    <3> QED
      BY <1>2, <2>3, <3>1 DEF Passed
  <2>5. CASE cur < next[cur] /\ \A y \in Chunks : y <= cur \/ next[cur] <= y
    <3>1. slobfree < cur => slobfree < x /\ x <= cur
      BY <1>2, <2>2, <2>3, <2>5
    <3>2. cur < slobfree => slobfree < x \/ x <= cur
      BY <1>2, <2>2, <2>3, <2>5
    <3> QED
      BY <1>1, <1>2, <2>3, <3>1, <3>2 DEF Passed
  <2> QED
    BY <2>1, <2>4, <2>5
<1>5. CallInv'
  <2>1. Chunks' = Chunks
    BY <1>1 DEF Chunks
  <2> QED
    BY <1>1, <1>2, <1>3, <1>4, <2>1 DEF IInv, CallInv
<1>6. TypeOK'
  BY <1>1, <1>2 DEF IInv, TypeOK
<1> QED
  BY <1>1, <1>2, <1>5, <1>6, CallMoves

LEMMA AllocFailInv ==
    ASSUME IInv, AllocFail
    PROVE  IInv'
<1>1. /\ op = "alloc" /\ op' = "idle" /\ prev' = arena /\ cur' = arena /\ size' = 0 /\ want' = 0
      /\ b' = arena /\ then' = "return"
      /\ UNCHANGED <<units, next, slobfree, bigblocks, freepages, live>>
  BY DEF AllocFail, heap, Return
<1>2. arena \in Chunks /\ arena \in Unit /\ 0 \in 0 .. UPP
  BY ChunkFacts, UnitsOfPage
<1>3. CallInv' /\ TypeOK'
  BY <1>1, <1>2 DEF CallInv, IInv, TypeOK
<1> QED
  BY <1>1, <1>2, <1>3, CallMoves

LEMMA FreeNextInv ==
    ASSUME IInv, FreeNext
    PROVE  IInv'
<1>1. /\ op = "free" /\ op' = "free" /\ cur' = next[cur]
      /\ UNCHANGED <<units, next, slobfree, bigblocks, freepages, live, size, want, prev, b, then>>
  BY DEF FreeNext, heap, locals
<1>2. cur' \in Chunks /\ cur' \in Unit
  BY <1>1, ChunkFacts DEF IInv, ListInv
<1>3. CallInv' /\ TypeOK'
  BY <1>1, <1>2 DEF CallInv, IInv, TypeOK
<1> QED
  BY <1>1, <1>2, <1>3, CallMoves

LEMMA AllocGrowInv ==
    ASSUME IInv, AllocGrow
    PROVE  IInv'
<1>1. PICK p \in Page : IsLowestRun(p, 1) /\ freepages' = freepages \ {p} /\ b' = p * UPP
  BY DEF AllocGrow
<1>2. /\ op = "alloc" /\ op' = "free" /\ then' = "grow" /\ cur' = slobfree
      /\ units' = [units EXCEPT ![b'] = UPP]
      /\ UNCHANGED <<next, slobfree, bigblocks, live, size, want, prev>>
  BY UnitsOfPage DEF AllocGrow
<1>3. p \in freepages
  <2>1. p \in Nat /\ Span(p, 1) \subseteq freepages
    BY <1>1, PageFacts DEF IsLowestRun
  <2> QED
    BY <2>1, SpanFacts
<1>4. /\ b' \in Unit /\ b' \in Nat /\ b' # arena /\ b' \notin HeapUnits /\ UPP \in Nat \ {0}
      /\ UPP \in 0 .. (NPage + 1) * UPP
  BY <1>1, <1>3, PageStart, PageFacts, UnitsOfPage DEF HeapUnits
<1>5. /\ Chunks' = Chunks /\ Chunks \subseteq Unit /\ arena \in Chunks /\ slobfree \in Chunks
      /\ slobfree \in Unit
  BY <1>2, ChunkFacts DEF Chunks, IInv, ListInv
<1>6. \A x \in Unit : x # b' => units'[x] = units[x]
  BY <1>2, <1>4 DEF IInv, TypeOK
<1>7. units'[b'] = UPP
  BY <1>2, <1>4 DEF IInv, TypeOK
<1>8. ASSUME NEW k, NEW h, NEW n, <<k, h, n>> \in Owners PROVE h # b' /\ h \in Unit
  <2> DEFINE o == <<k, h, n>>
  <2>1. o \in Owners /\ o[2] = h
    BY <1>8
  <2> HIDE DEF o
  <2> QED
    BY <1>4, <2>1, OwnerFacts DEF IInv
<1>9. \A x \in Chunks : x # b' /\ units'[x] = units[x]
  BY <1>5, <1>6, <1>8, ChunkFacts
<1>10. ListInv'
  BY <1>2, <1>5, <1>9 DEF IInv, ListInv
<1>11. TypeOK'
  BY <1>1, <1>2, <1>4, <1>5 DEF IInv, TypeOK
<1>12. \A x \in SmallBlocks : x.addr - 1 \in Unit /\ units'[x.addr - 1] = units[x.addr - 1]
  BY <1>6, <1>8, HeldFacts
<1>13. SmallBlocks' = SmallBlocks /\ (\A a : IsBig(a)' = IsBig(a))
  BY <1>2 DEF SmallBlocks, IsBig, BigAt
<1>14. BlockInv'
  <2>1. \A x \in live : IF IsSmall(x.size)
                       THEN /\ x.addr - 1 \in Unit /\ units'[x.addr - 1] = Need(x.size)
                            /\ ~ IsBig(x.addr)
                       ELSE IsBig(x.addr)
    BY <1>12 DEF IInv, BlockInv, SmallBlocks
  <2>2. freepages' \subseteq freepages
    BY <1>1
  <2> QED
    BY <1>2, <1>13, <2>1, <2>2 DEF IInv, BlockInv
<1>15. HeapUnits' = HeapUnits \union Span(b', UPP)
  <2>1. BigPages' = BigPages
    BY <1>2 DEF BigPages
  <2>2. p \notin BigPages
    BY <1>3 DEF BigPages, IInv, BlockInv
  <2>3. \A a \in Unit : a \in Span(b', UPP) <=> a \div UPP = p
    BY <1>1, PageFacts
  <2>4. Span(b', UPP) \subseteq Unit
    BY <1>1, PageFacts
  <2>5. \A a : a \in HeapUnits' <=> a \in HeapUnits \/ a \in Span(b', UPP)
    <3>1. \A q : q \in Page \ (freepages' \union BigPages') <=> q \in Page \ (freepages \union BigPages) \/ q = p
      BY <1>1, <2>1, <2>2
    <3> QED
      BY <2>3, <2>4, <3>1 DEF HeapUnits
  <2> QED
    BY <2>5
<1>16. Span(b', UPP) \intersect HeapUnits = {}
  <2>1. \A a \in Span(b', UPP) : a # arena /\ a \div UPP = p
    BY <1>1, PageFacts
  <2> QED
    BY <1>3, <2>1, BigFacts DEF IInv
<1>17. Tiled(Owners, HeapUnits)'
  <2>1. BlockSet' = BlockSet /\ DescSet' = DescSet /\ FreedSet' = {<<"freed", b', UPP>>}
    BY <1>2, <1>7, <1>13 DEF BlockSet, DescSet, FreedSet
  <2>2. ChunkSet(Chunks, units') = ChunkSet(Chunks, units)
    BY <1>9 DEF ChunkSet
  <2>3. Owners = ChunkSet(Chunks, units) \union BlockSet \union DescSet
    BY <1>2, OwnersAre DEF IInv, FreedSet
  <2>4. Owners' = ChunkSet(Chunks', units') \union BlockSet' \union DescSet' \union FreedSet'
    BY <1>14, OwnersAreNext
  <2>5. Owners' = Owners \union {<<"freed", b', UPP>>}
    BY <1>5, <2>1, <2>2, <2>3, <2>4
  <2>6. Tiled(Owners \union {<<"freed", b', UPP>>}, HeapUnits \union Span(b', UPP))
    BY <1>4, <1>16, Extended DEF IInv
  <2> QED
    BY <1>15, <2>5, <2>6 DEF Tiled
<1>18. CallInv'
  BY <1>2 DEF IInv, CallInv
<1> QED
  BY <1>10, <1>11, <1>14, <1>17, <1>18 DEF IInv

\* A small block is freed: the owner changes its name.
LEMMA FreeSmallInv ==
    ASSUME IInv, op = "idle", NEW blk \in live, ~ IsBig(blk.addr), live' = live \ {blk},
           b' = blk.addr - 1, op' = "free", cur' = slobfree, then' = "return",
           UNCHANGED <<units, next, slobfree, bigblocks, freepages, size, want, prev>>
    PROVE  IInv'
<1>1. blk \in SmallBlocks /\ IsSmall(blk.size)
  BY DEF IInv, BlockInv, SmallBlocks
<1>2. /\ <<"block", blk.addr - 1, Need(blk.size)>> \in Owners
      /\ units[blk.addr - 1] = Need(blk.size) /\ b' \in Unit
  BY <1>1, HeldFacts DEF BetweenChunks
<1>3. Chunks' = Chunks /\ slobfree \in Chunks /\ slobfree \in Unit
  BY ChunkFacts DEF Chunks, IInv, ListInv
<1>4. ListInv' /\ TypeOK'
  BY <1>2, <1>3 DEF IInv, ListInv, TypeOK
<1>5. (\A a : IsBig(a)' = IsBig(a)) /\ SmallBlocks' = SmallBlocks \ {blk}
  BY DEF IsBig, BigAt, SmallBlocks
<1>6. BlockInv'
  BY <1>5 DEF IInv, BlockInv
<1>7. Tiled(Owners, HeapUnits)'
  <2> DEFINE o == <<"block", blk.addr - 1, Need(blk.size)>>
             f == <<"freed", blk.addr - 1, Need(blk.size)>>
  <2>1. BlockSet' = BlockSet \ {o}
    <3>1. ASSUME NEW x \in SmallBlocks, x # blk PROVE x.addr - 1 # blk.addr - 1
      <4>1. x.addr \in Nat /\ blk.addr \in Nat
        BY <1>1, SmallFacts
      <4>2. x.addr # blk.addr
        BY <3>1 DEF IInv, BlockInv, SmallBlocks
      <4> QED
        BY <4>1, <4>2
    <3>2. BlockSet' = {<<"block", x.addr - 1, Need(x.size)>> : x \in SmallBlocks \ {blk}}
      BY <1>5 DEF BlockSet
    <3> QED
      BY <1>1, <3>1, <3>2 DEF BlockSet
  <2>2. DescSet' = DescSet /\ FreedSet' = {f} /\ HeapUnits' = HeapUnits
    BY <1>2, HeapSame DEF DescSet, FreedSet
  <2>3. Owners = ChunkSet(Chunks, units) \union BlockSet \union DescSet
    BY OwnersAre DEF IInv, FreedSet
  <2>4. Owners' = ChunkSet(Chunks', units') \union BlockSet' \union DescSet' \union FreedSet'
    BY <1>6, OwnersAreNext
  <2>5. o \notin ChunkSet(Chunks, units) /\ o \notin DescSet
    BY DEF ChunkSet, DescSet
  <2>6. Tiled((Owners \ {o}) \union {f}, HeapUnits)
    BY <1>2, Renamed DEF IInv
  <2> HIDE DEF o, f
  <2>7. Owners' = (Owners \ {o}) \union {f}
    <3>1. ChunkSet(Chunks', units') = ChunkSet(Chunks, units)
      BY <1>3 DEF ChunkSet
    <3> QED
      BY <2>1, <2>2, <2>3, <2>4, <2>5, <3>1
  <2> QED
    BY <2>2, <2>6, <2>7 DEF Tiled
<1>8. CallInv'
  BY DEF CallInv
<1> QED
  BY <1>4, <1>6, <1>7, <1>8 DEF IInv

\* A big block is freed: its pages go back, and its descriptor is freed into the heap.
LEMMA FreeBigInv ==
    ASSUME IInv, op = "idle", NEW blk \in live, IsBig(blk.addr), live' = live \ {blk},
           NEW i \in BigAt(blk.addr),
           bigblocks' = Without(bigblocks, i),
           freepages' = freepages \union Span(bigblocks[i].pages, 2^(bigblocks[i].order)),
           units' = [units EXCEPT ![bigblocks[i].bb] = SLOB_UNITS(BIGBLOCK)],
           b' = bigblocks[i].bb, op' = "free", cur' = slobfree, then' = "return",
           UNCHANGED <<next, slobfree, size, want, prev>>
    PROVE  IInv'
<1> DEFINE Run(x) == Span(x.pages, 2^(x.order))
           w == SLOB_UNITS(BIGBLOCK)
           d == bigblocks[i]
<1>1. i \in 1 .. Len(bigblocks) /\ d.pages * UPP = blk.addr
  BY DEF BigAt
<1>2. /\ <<"desc", d.bb, w>> \in Owners /\ BetweenChunks(d.bb) /\ d.bb \in Unit
  BY <1>1, HeldFacts DEF BetweenChunks
<1>3. w \in Nat \ {0} /\ w \in 0 .. (NPage + 1) * UPP
  <2> DEFINE o == <<"desc", d.bb, w>>
  <2>1. o \in Owners /\ o[2] = d.bb /\ o[3] = w
    BY <1>2
  <2> HIDE DEF o, w
  <2>2. w \in Nat \ {0} /\ d.bb \in Nat /\ d.bb + w <= (NPage + 1) * UPP /\ (NPage + 1) * UPP \in Nat
    BY <2>1, OwnerFacts, PageFacts DEF IInv
  <2> QED
    BY <2>2
<1>4. /\ bigblocks' \in Seq([bb : Unit, order : 0 .. NPage, pages : Page])
      /\ \A j \in 1 .. Len(bigblocks') :
           /\ j < i => j \in 1 .. Len(bigblocks) /\ bigblocks'[j] = bigblocks[j]
           /\ j >= i => j + 1 \in 1 .. Len(bigblocks) /\ bigblocks'[j] = bigblocks[j + 1]
      /\ \A k \in 1 .. Len(bigblocks) : k # i => \E j \in 1 .. Len(bigblocks') : bigblocks'[j] = bigblocks[k]
  <2> DEFINE S == [bb : Unit, order : 0 .. NPage, pages : Page]
  <2>1. bigblocks \in Seq(S) /\ i \in 1 .. Len(bigblocks)
    BY <1>1 DEF IInv, TypeOK
  <2> HIDE DEF S
  <2>2. bigblocks' \in Seq(S)
    BY <2>1, Cut
  <2>3. MovedUp(bigblocks', bigblocks, i)
    BY <2>1, Cut
  <2> QED
    BY <2>2, <2>3 DEF S, MovedUp
<1>0. \A j \in 1 .. Len(bigblocks') : \E k \in 1 .. Len(bigblocks) : k # i /\ bigblocks'[j] = bigblocks[k]
  <2>1. \A j \in 1 .. Len(bigblocks') : j \in Nat /\ i \in Nat /\ (j < i \/ j >= i) /\ (j >= i => j + 1 # i) /\ (j < i => j # i)
    BY <1>1
  <2> QED
    BY <1>4, <2>1
<1>5. ASSUME NEW k \in 1 .. Len(bigblocks)
      PROVE  /\ Run(bigblocks[k]) \subseteq Page \ freepages
             /\ bigblocks[k].pages \in Run(bigblocks[k]) /\ bigblocks[k].pages \in Page
             /\ \A j \in 1 .. Len(bigblocks) : k # j =>
                    bigblocks[k].bb # bigblocks[j].bb /\ Run(bigblocks[k]) \intersect Run(bigblocks[j]) = {}
  BY BigFacts DEF IInv, BlockInv
<1>6. Chunks' = Chunks /\ slobfree \in Chunks /\ slobfree \in Unit /\ Chunks \subseteq Unit /\ arena \in Chunks
  BY ChunkFacts DEF Chunks, IInv, ListInv
<1>7. (\A x \in Unit : x # d.bb => units'[x] = units[x]) /\ units'[d.bb] = w
  BY <1>2 DEF IInv, TypeOK
<1>8. \A x \in Chunks : units'[x] = units[x]
  BY <1>2, <1>6, <1>7 DEF BetweenChunks
<1>9. ListInv'
  BY <1>6, <1>8 DEF IInv, ListInv
<1>10. TypeOK'
  <2>1. Run(d) \subseteq Page
    BY <1>1, <1>5
  <2>2. freepages' \subseteq Page
    BY <2>1 DEF IInv, TypeOK
  <2>3. units' \in [Unit -> 0 .. (NPage + 1) * UPP]
    BY <1>3 DEF IInv, TypeOK
  <2> QED
    BY <1>2, <1>4, <1>6, <2>2, <2>3 DEF IInv, TypeOK
<1> HIDE DEF Run, w
<1>11. ASSUME NEW x \in SmallBlocks PROVE x.addr - 1 \in Unit /\ x.addr - 1 # d.bb
  <2> DEFINE o == <<"block", x.addr - 1, Need(x.size)>>
             p == <<"desc", d.bb, w>>
  <2>1. o \in Owners /\ p \in Owners /\ o[2] = x.addr - 1 /\ p[2] = d.bb /\ o # p
    BY <1>2, HeldFacts
  <2> HIDE DEF o, p
  <2> QED
    BY <2>1, OwnerFacts DEF IInv
<1>12. ASSUME NEW a PROVE IsBig(a)' <=> IsBig(a) /\ a # blk.addr
  <2>1. ASSUME NEW j \in BigAt(a)' PROVE BigAt(a) # {} /\ a # blk.addr
    <3>1. j \in 1 .. Len(bigblocks') /\ bigblocks'[j].pages * UPP = a
      BY <2>1 DEF BigAt
    <3>2. PICK k \in 1 .. Len(bigblocks) : k # i /\ bigblocks'[j] = bigblocks[k]
      BY <1>0, <3>1
    <3>3. k \in BigAt(a)
      BY <3>1, <3>2 DEF BigAt
    <3>4. bigblocks[k].pages # d.pages
      BY <1>1, <1>5, <3>2
    <3>5. bigblocks[k].pages \in Page /\ d.pages \in Page
      BY <1>1, <1>5
    <3>6. a # blk.addr
      BY <1>1, <3>1, <3>2, <3>4, <3>5, PageStart
    <3> QED
      BY <3>3, <3>6
  <2>2. ASSUME NEW k \in BigAt(a), a # blk.addr PROVE BigAt(a)' # {}
    <3>1. k \in 1 .. Len(bigblocks) /\ k # i /\ bigblocks[k].pages * UPP = a
      BY <1>1, <2>2 DEF BigAt
    <3>2. PICK j \in 1 .. Len(bigblocks') : bigblocks'[j] = bigblocks[k]
      BY <1>4, <3>1
    <3> QED
      BY <3>1, <3>2 DEF BigAt
  <2> QED
    BY <2>1, <2>2 DEF IsBig
<1>13. ~ IsSmall(blk.size) /\ SmallBlocks' = SmallBlocks
  BY DEF IInv, BlockInv, SmallBlocks
<1>14. BlockInv'
  <2>1. ASSUME NEW x \in live'
        PROVE  IF IsSmall(x.size)
               THEN /\ x.addr - 1 \in Unit /\ units'[x.addr - 1] = Need(x.size)
                    /\ ~ IsBig(x.addr)'
               ELSE IsBig(x.addr)'
    <3>1. x \in live /\ x # blk /\ x.addr # blk.addr
      BY <2>1 DEF IInv, BlockInv
    <3>2. CASE IsSmall(x.size)
      <4>1. x \in SmallBlocks /\ units[x.addr - 1] = Need(x.size) /\ ~ IsBig(x.addr)
        BY <3>1, <3>2 DEF SmallBlocks, IInv, BlockInv
      <4> QED
        BY <1>7, <1>11, <1>12, <3>2, <4>1
    <3>3. CASE ~ IsSmall(x.size)
      <4>1. IsBig(x.addr)
        BY <3>1, <3>3 DEF IInv, BlockInv
      <4> QED
        BY <1>12, <3>1, <3>3, <4>1
    <3> QED
      BY <3>2, <3>3
  <2>2. \A x, y \in live' : x.addr = y.addr => x = y
    BY DEF IInv, BlockInv
  <2>3. ASSUME NEW j \in 1 .. Len(bigblocks')
        PROVE  /\ Run(bigblocks'[j]) \subseteq Page \ freepages'
               /\ \A m \in 1 .. Len(bigblocks') : j # m =>
                    /\ bigblocks'[j].bb # bigblocks'[m].bb
                    /\ Run(bigblocks'[j]) \intersect Run(bigblocks'[m]) = {}
    <3>1. freepages' = freepages \union Run(d)
      BY DEF Run
    <3> DEFINE k(m) == IF m < i THEN m ELSE m + 1
    <3>2. \A m \in 1 .. Len(bigblocks') : k(m) \in 1 .. Len(bigblocks) /\ k(m) # i /\ bigblocks'[m] = bigblocks[k(m)]
      <4>1. ASSUME NEW m \in 1 .. Len(bigblocks'), m < i
            PROVE  k(m) \in 1 .. Len(bigblocks) /\ k(m) # i /\ bigblocks'[m] = bigblocks[k(m)]
        <5>1. m \in 1 .. Len(bigblocks) /\ bigblocks'[m] = bigblocks[m]
          BY <1>4, <4>1
        <5> QED
          BY <1>1, <4>1, <5>1
      <4>2. ASSUME NEW m \in 1 .. Len(bigblocks'), m >= i
            PROVE  k(m) \in 1 .. Len(bigblocks) /\ k(m) # i /\ bigblocks'[m] = bigblocks[k(m)]
        <5>1. m + 1 \in 1 .. Len(bigblocks) /\ bigblocks'[m] = bigblocks[m + 1]
          BY <1>4, <4>2
        <5> QED
          BY <1>1, <4>2, <5>1
      <4> HIDE DEF k
      <4> QED
        BY <1>1, <4>1, <4>2
    <3>3. \A m \in 1 .. Len(bigblocks') : j # m => k(j) # k(m)
      BY <1>1
    <3> HIDE DEF k, d
    <3>4. Run(bigblocks[k(j)]) \subseteq Page \ freepages /\ Run(bigblocks[k(j)]) \intersect Run(d) = {}
      BY <1>1, <1>5, <3>2 DEF d
    <3>5. Run(bigblocks'[j]) \subseteq Page \ freepages'
      BY <3>1, <3>2, <3>4
    <3>6. ASSUME NEW m \in 1 .. Len(bigblocks'), j # m
          PROVE  /\ bigblocks'[j].bb # bigblocks'[m].bb
                 /\ Run(bigblocks'[j]) \intersect Run(bigblocks'[m]) = {}
      <4>1. /\ k(j) \in 1 .. Len(bigblocks) /\ k(m) \in 1 .. Len(bigblocks) /\ k(j) # k(m)
            /\ bigblocks'[j] = bigblocks[k(j)] /\ bigblocks'[m] = bigblocks[k(m)]
        BY <3>2, <3>3, <3>6
      <4> QED
        BY <1>5, <4>1
    <3> QED
      BY <3>5, <3>6
  <2> QED
    BY <2>1, <2>2, <2>3 DEF BlockInv, Run
<1>15. HeapUnits' = HeapUnits
  <2>1. BigPages = UNION {Run(bigblocks[k]) : k \in 1 .. Len(bigblocks)}
    BY DEF BigPages, Run
  <2>2. BigPages' = UNION {Run(bigblocks'[j]) : j \in 1 .. Len(bigblocks')}
    BY DEF BigPages, Run
  <2>3. freepages' = freepages \union Run(d)
    BY DEF Run
  <2>4. ASSUME NEW q \in BigPages' PROVE q \in BigPages
    BY <1>0, <2>1, <2>2, <2>4
  <2>5. ASSUME NEW q \in BigPages PROVE q \in BigPages' \/ q \in Run(d)
    <3>1. PICK k \in 1 .. Len(bigblocks) : q \in Run(bigblocks[k])
      BY <2>1, <2>5
    <3>2. CASE k = i
      BY <3>1, <3>2
    <3>3. CASE k # i
      <4>1. PICK j \in 1 .. Len(bigblocks') : bigblocks'[j] = bigblocks[k]
        BY <1>4, <3>3
      <4> QED
        BY <2>2, <3>1, <4>1
    <3> QED
      BY <3>2, <3>3
  <2>6. Run(d) \subseteq BigPages
    BY <1>1, <2>1
  <2>7. freepages' \union BigPages' = freepages \union BigPages
    BY <2>3, <2>4, <2>5, <2>6
  <2> QED
    BY <2>7 DEF HeapUnits
<1>16. Tiled(Owners, HeapUnits)'
  <2> DEFINE o == <<"desc", d.bb, w>>
             f == <<"freed", d.bb, w>>
             D(x) == <<"desc", x.bb, w>>
  <2>1. DescSet' = DescSet \ {o}
    <3>1. /\ DescSet = {D(bigblocks[k]) : k \in 1 .. Len(bigblocks)}
          /\ DescSet' = {D(bigblocks'[j]) : j \in 1 .. Len(bigblocks')}
      BY DEF DescSet, w
    <3>2. \A k \in 1 .. Len(bigblocks) : D(bigblocks[k]) = o <=> k = i
      BY <1>1, <1>5
    <3> HIDE DEF D, o
    <3>3. ASSUME NEW z \in DescSet' PROVE z \in DescSet /\ z # o
      <4>1. PICK j \in 1 .. Len(bigblocks') : z = D(bigblocks'[j])
        BY <3>1
      <4>2. PICK k \in 1 .. Len(bigblocks) : k # i /\ bigblocks'[j] = bigblocks[k]
        BY <1>0
      <4> QED
        BY <3>1, <3>2, <4>1, <4>2
    <3>4. ASSUME NEW z \in DescSet, z # o PROVE z \in DescSet'
      <4>1. PICK k \in 1 .. Len(bigblocks) : z = D(bigblocks[k])
        BY <3>1, <3>4
      <4>2. PICK j \in 1 .. Len(bigblocks') : bigblocks'[j] = bigblocks[k]
        BY <1>1, <1>4, <3>2, <3>4, <4>1
      <4> QED
        BY <3>1, <4>1, <4>2
    <3> QED
      BY <3>3, <3>4
  <2>2. BlockSet' = BlockSet /\ FreedSet' = {f}
    BY <1>7, <1>13 DEF BlockSet, FreedSet
  <2>3. Owners = ChunkSet(Chunks, units) \union BlockSet \union DescSet
    BY OwnersAre DEF IInv, FreedSet
  <2>4. Owners' = ChunkSet(Chunks', units') \union BlockSet' \union DescSet' \union FreedSet'
    BY <1>14, OwnersAreNext
  <2>5. o \notin ChunkSet(Chunks, units) /\ o \notin BlockSet
    BY DEF ChunkSet, BlockSet
  <2>6. Tiled((Owners \ {o}) \union {f}, HeapUnits)
    BY <1>2, Renamed DEF IInv
  <2> HIDE DEF o, f, D
  <2>7. Owners' = (Owners \ {o}) \union {f}
    <3>1. ChunkSet(Chunks', units') = ChunkSet(Chunks, units)
      BY <1>6, <1>8 DEF ChunkSet
    <3> QED
      BY <2>1, <2>2, <2>3, <2>4, <2>5, <3>1
  <2> QED
    BY <1>15, <2>6, <2>7 DEF Tiled
<1>17. CallInv'
  BY DEF CallInv
<1> QED
  BY <1>9, <1>10, <1>14, <1>16, <1>17 DEF IInv

LEMMA kfreeInv ==
    ASSUME IInv, NEW blk \in live, kfree(blk)
    PROVE  IInv'
<1>1. /\ op = "idle" /\ live' = live \ {blk} /\ op' = "free" /\ cur' = slobfree /\ then' = "return"
      /\ UNCHANGED <<next, slobfree, size, want, prev>>
  BY DEF kfree
<1>2. CASE IsBig(blk.addr)
  BY <1>1, <1>2, FreeBigInv DEF kfree, Without
<1>3. CASE ~ IsBig(blk.addr)
  BY <1>1, <1>3, FreeSmallInv DEF kfree
<1> QED
  BY <1>2, <1>3

-----------------------------------------------------------------------------
(* slob_free links the block in *)

\* What b is joined with above, and then below.
JoinsAbove == Touches(b, next[cur])
JoinsBelow == Touches(cur, b)
FreedUnits == IF JoinsAbove THEN units[b] + units[next[cur]] ELSE units[b]
RestChunks == IF JoinsAbove THEN Chunks \ {next[cur]} ELSE Chunks
RestNext == IF JoinsAbove THEN [next EXCEPT ![cur] = next[next[cur]], ![next[cur]] = arena] ELSE next
LinkedChunks == IF JoinsBelow THEN RestChunks ELSE RestChunks \union {b}

\* b is behind cur, and before whatever follows cur.
LEMMA LinkFacts ==
    ASSUME IInv, op = "free", Placed
    PROVE  /\ cur \in RestChunks /\ cur \in Nat /\ b \in Unit \ Chunks /\ b \in Nat /\ b # arena /\ cur < b
           /\ next[cur] \in Chunks /\ (next[cur] = arena \/ b < next[cur])
           /\ JoinsAbove => next[cur] # arena /\ next[cur] # cur
           /\ JoinsBelow => cur # arena
           /\ units[b] \in Nat \ {0} /\ units[cur] \in Nat \ {0} /\ units[next[cur]] \in Nat \ {0}
           /\ cur + units[cur] <= b
           /\ FreedUnits \in Nat \ {0} /\ b + FreedUnits <= (NPage + 1) * UPP
           /\ \A y \in RestChunks : y \in Nat /\ (y <= cur \/ b + FreedUnits < y)
<1> DEFINE n == next[cur]
<1>1. /\ cur \in Chunks /\ n \in Chunks /\ Chunks \subseteq Nat /\ Chunks \subseteq Unit /\ arena = 0
      /\ units[cur] \in Nat \ {0} /\ units[n] \in Nat \ {0} /\ units[arena] = 1
      /\ n + units[n] <= (NPage + 1) * UPP /\ cur \in Nat /\ n \in Nat
  BY ChunkFacts DEF IInv, ListInv
<1>2. /\ b \in Unit /\ b # arena /\ b \notin Chunks /\ units[b] \in Nat \ {0} /\ b \in Nat
      /\ b + units[b] <= (NPage + 1) * UPP
      /\ \A y \in Chunks : (y < b => y + units[y] <= b) /\ (b < y => b + units[b] <= y)
  <2>1. /\ BetweenChunks(b) /\ units[b] \in Nat \ {0} /\ b + units[b] <= (NPage + 1) * UPP
        /\ \A y \in Chunks : b < y => b + units[b] <= y
    BY HeldFacts
  <2>2. b \in Unit /\ b # arena /\ b \notin Chunks /\ \A y \in Chunks : y < b => y + units[y] <= b
    BY <1>1, <2>1, ChunkFacts DEF BetweenChunks
  <2> QED
    BY <2>1, <2>2, PageFacts
<1>3. \/ n = arena /\ \A y \in Chunks : y <= cur
      \/ cur < n /\ \A y \in Chunks : y <= cur \/ n <= y
  BY <1>1 DEF IInv, ListInv, Sorted
<1>4. cur < b /\ (n = arena \/ b < n)
  <2>1. \/ b > cur /\ b < n
        \/ cur >= n /\ (b > cur \/ b < n)
    BY DEF Placed, Between
  <2> HIDE DEF n
  <2> QED
    BY <1>1, <1>2, <1>3, <2>1
<1>5. JoinsAbove => b + units[b] = n /\ n # arena /\ n # cur
  <2>1. JoinsAbove => b + units[b] = n
    BY DEF JoinsAbove, Touches
  <2> HIDE DEF n
  <2> QED
    BY <1>1, <1>2, <1>4, <2>1
<1>6. JoinsBelow => cur # arena
  <2>1. b >= 3
    BY <1>2, PageFacts, UnitsOfPage
  <2> QED
    BY <1>1, <2>1 DEF JoinsBelow, Touches
<1>7. cur \in RestChunks
  BY <1>1, <1>5 DEF RestChunks
<1>8. FreedUnits \in Nat \ {0} /\ b + FreedUnits <= (NPage + 1) * UPP
  <2>1. CASE JoinsAbove
    <3>1. FreedUnits = units[b] + units[n] /\ b + units[b] = n
      BY <1>5, <2>1 DEF FreedUnits
    <3> HIDE DEF n
    <3> QED
      BY <1>1, <1>2, <3>1
  <2>2. CASE ~ JoinsAbove
    BY <1>2, <2>2 DEF FreedUnits
  <2> QED
    BY <2>1, <2>2
<1>9. ASSUME NEW y \in RestChunks PROVE y \in Nat /\ (y <= cur \/ b + FreedUnits < y)
  <2>1. y \in Chunks /\ y \in Nat /\ (JoinsAbove => y # n)
    BY <1>1, <1>9 DEF RestChunks
  <2>2. SUFFICES ASSUME cur < y PROVE b + FreedUnits < y
    BY <1>1, <2>1
  <2>3. n # arena /\ cur < n /\ n <= y /\ b < n /\ b + units[b] <= n
    BY <1>1, <1>2, <1>3, <1>4, <2>1, <2>2
  <2>4. y # n => n + units[n] < y
    BY <1>1, <2>1, <2>3, ChunkFacts
  <2>5. CASE JoinsAbove
    <3>1. FreedUnits = units[b] + units[n] /\ b + units[b] = n
      BY <1>5, <2>5 DEF FreedUnits
    <3> HIDE DEF n
    <3> QED
      BY <1>1, <1>2, <2>1, <2>4, <2>5, <3>1
  <2>6. CASE ~ JoinsAbove
    <3>1. FreedUnits = units[b] /\ b + units[b] # n
      BY <2>6 DEF FreedUnits, JoinsAbove, Touches
    <3> HIDE DEF n
    <3> QED
      BY <1>1, <1>2, <2>1, <2>3, <2>4, <3>1
  <2> QED
    BY <2>5, <2>6
<1>10. cur + units[cur] <= b
  BY <1>1, <1>2, <1>4
<1> QED
  BY <1>1, <1>2, <1>4, <1>5, <1>6, <1>7, <1>8, <1>9, <1>10

\* The four branches in terms of these.
LEMMA LinkStep ==
    ASSUME IInv, FreeLink
    PROVE  /\ next' = IF JoinsBelow THEN RestNext ELSE [RestNext EXCEPT ![cur] = b, ![b] = RestNext[cur]]
           /\ units' \in [Unit -> 0 .. (NPage + 1) * UPP]
           /\ units'[b] = IF JoinsBelow THEN 0 ELSE FreedUnits
           /\ units'[cur] = IF JoinsBelow THEN units[cur] + FreedUnits ELSE units[cur]
           /\ \A x \in Unit : x # b /\ x # cur /\ (JoinsAbove => x # next[cur]) => units'[x] = units[x]
<1> DEFINE n == next[cur]
           U == 0 .. (NPage + 1) * UPP
<1>1. op = "free" /\ Placed
  BY DEF FreeLink
<1>2. /\ cur \in Unit /\ b \in Unit /\ n \in Unit /\ cur # b /\ b # n /\ next[b] = arena
      /\ JoinsAbove => n # cur
  BY <1>1, LinkFacts, ChunkFacts DEF RestChunks, IInv, ListInv, Sorted
<1>3. next \in [Unit -> Unit] /\ units \in [Unit -> U] /\ arena \in Unit
  BY PageFacts DEF IInv, TypeOK
<1>4. FreedUnits \in U /\ units[cur] + FreedUnits \in (IF JoinsBelow THEN U ELSE Nat) /\ 0 \in U
  <2>1. /\ FreedUnits \in Nat /\ b + FreedUnits <= (NPage + 1) * UPP /\ b \in Nat /\ cur \in Nat
        /\ units[cur] \in Nat /\ (NPage + 1) * UPP \in Nat
    BY <1>1, LinkFacts, PageFacts
  <2>2. JoinsBelow => cur + units[cur] = b
    BY DEF JoinsBelow, Touches
  <2> QED
    BY <2>1, <2>2
<1> HIDE DEF U
<1>5. CASE JoinsAbove /\ JoinsBelow
  <2>1. units' = [[x \in Unit |-> IF x \in {n} THEN 0 ELSE units[x]] EXCEPT ![cur] = @ + FreedUnits, ![b] = 0]
    BY <1>5 DEF FreeLink, JoinsAbove, JoinsBelow, FreedUnits
  <2>2. next' = [[x \in Unit |-> IF x \in {n} THEN arena ELSE next[x]] EXCEPT ![cur] = next[n], ![b] = arena]
    BY <1>5 DEF FreeLink, JoinsAbove, JoinsBelow
  <2> HIDE DEF n
  <2>3. next' = [next EXCEPT ![cur] = next[n], ![n] = arena]
    BY <1>2, <1>3, <1>5, <2>2
  <2>4. next' = RestNext
    BY <1>5, <2>3 DEF RestNext, n
  <2>5. /\ units' \in [Unit -> U] /\ units'[b] = 0 /\ units'[cur] = units[cur] + FreedUnits
        /\ \A x \in Unit : x # b /\ x # cur /\ x # n => units'[x] = units[x]
    BY <1>2, <1>3, <1>4, <1>5, <2>1
  <2> QED
    BY <1>5, <2>4, <2>5 DEF U, n
<1>6. CASE JoinsAbove /\ ~ JoinsBelow
  <2>1. units' = [[x \in Unit |-> IF x \in {n} THEN 0 ELSE units[x]] EXCEPT ![b] = FreedUnits]
    BY <1>6 DEF FreeLink, JoinsAbove, JoinsBelow, FreedUnits
  <2>2. next' = [[x \in Unit |-> IF x \in {n} THEN arena ELSE next[x]] EXCEPT ![cur] = b, ![b] = next[n]]
    BY <1>6 DEF FreeLink, JoinsAbove, JoinsBelow
  <2> HIDE DEF n
  <2>3. RestNext = [next EXCEPT ![cur] = next[n], ![n] = arena]
    BY <1>6 DEF RestNext, n
  <2>4. next' = [RestNext EXCEPT ![cur] = b, ![b] = RestNext[cur]]
    BY <1>2, <1>3, <1>6, <2>2, <2>3
  <2>5. /\ units' \in [Unit -> U] /\ units'[b] = FreedUnits /\ units'[cur] = units[cur]
        /\ \A x \in Unit : x # b /\ x # cur /\ x # n => units'[x] = units[x]
    BY <1>2, <1>3, <1>4, <1>6, <2>1
  <2> QED
    BY <1>6, <2>4, <2>5 DEF U, n
<1>7. CASE ~ JoinsAbove /\ JoinsBelow
  <2>1. units' = [[x \in Unit |-> IF x \in {} THEN 0 ELSE units[x]] EXCEPT ![cur] = @ + FreedUnits, ![b] = 0]
    BY <1>7 DEF FreeLink, JoinsAbove, JoinsBelow, FreedUnits
  <2>2. next' = [[x \in Unit |-> IF x \in {} THEN arena ELSE next[x]] EXCEPT ![cur] = n, ![b] = arena]
    BY <1>7 DEF FreeLink, JoinsAbove, JoinsBelow
  <2>3. n = next[cur]
    OBVIOUS
  <2> HIDE DEF n
  <2>4. next' = next
    BY <1>2, <1>3, <2>2, <2>3
  <2>5. /\ units' \in [Unit -> U] /\ units'[b] = 0 /\ units'[cur] = units[cur] + FreedUnits
        /\ \A x \in Unit : x # b /\ x # cur => units'[x] = units[x]
    BY <1>2, <1>3, <1>4, <1>7, <2>1
  <2> QED
    BY <1>7, <2>4, <2>5 DEF U, RestNext
<1>8. CASE ~ JoinsAbove /\ ~ JoinsBelow
  <2>1. units' = [[x \in Unit |-> IF x \in {} THEN 0 ELSE units[x]] EXCEPT ![b] = FreedUnits]
    BY <1>8 DEF FreeLink, JoinsAbove, JoinsBelow, FreedUnits
  <2>2. next' = [[x \in Unit |-> IF x \in {} THEN arena ELSE next[x]] EXCEPT ![cur] = b, ![b] = n]
    BY <1>8 DEF FreeLink, JoinsAbove, JoinsBelow
  <2>3. n = next[cur]
    OBVIOUS
  <2> HIDE DEF n
  <2>4. next' = [next EXCEPT ![cur] = b, ![b] = next[cur]]
    BY <1>2, <1>3, <2>2, <2>3
  <2>5. /\ units' \in [Unit -> U] /\ units'[b] = FreedUnits /\ units'[cur] = units[cur]
        /\ \A x \in Unit : x # b /\ x # cur => units'[x] = units[x]
    BY <1>2, <1>3, <1>4, <1>8, <2>1
  <2> QED
    BY <1>8, <2>4, <2>5 DEF U, RestNext
<1> QED
  BY <1>5, <1>6, <1>7, <1>8

LEMMA LinkList ==
    ASSUME IInv, FreeLink
    PROVE  next' \in [Unit -> Unit] /\ Sorted(LinkedChunks, next')
<1>1. /\ cur \in RestChunks /\ cur \in Chunks /\ b \in Unit \ Chunks /\ cur < b
      /\ next[cur] \in Chunks /\ (next[cur] = arena \/ b < next[cur])
      /\ JoinsAbove => next[cur] # arena /\ next[cur] # cur
  BY LinkFacts DEF FreeLink, RestChunks
<1>2. next \in [Unit -> Unit] /\ Sorted(Chunks, next) /\ Chunks \subseteq Unit /\ Chunks \subseteq Nat
  BY ChunkFacts DEF IInv, TypeOK, ListInv
<1>3. /\ RestNext \in [Unit -> Unit] /\ Sorted(RestChunks, RestNext)
      /\ RestNext[cur] = arena \/ b < RestNext[cur]
  <2>1. CASE JoinsAbove
    <3> DEFINE n == next[cur]
    <3>1. n \in Chunks /\ n # arena /\ n # cur /\ b < n /\ n \in Unit /\ n \in Nat /\ b \in Nat
      BY <1>1, <1>2, <2>1, PageFacts
    <3>2. LET m == [next EXCEPT ![cur] = next[n], ![n] = arena]
          IN m \in [Unit -> Unit] /\ Sorted(Chunks \ {n}, m)
      BY <1>1, <1>2, <3>1, Unlinked
    <3>3. next[n] = arena \/ n < next[n]
      BY <1>2, <3>1 DEF Sorted
    <3>4. next[n] \in Nat
      BY <1>2, <3>1, PageFacts
    <3> HIDE DEF n
    <3>5. RestNext = [next EXCEPT ![cur] = next[n], ![n] = arena] /\ RestChunks = Chunks \ {n}
      BY <2>1 DEF RestNext, RestChunks, n
    <3>6. RestNext[cur] = next[n]
      BY <1>1, <1>2, <3>1, <3>5
    <3> QED
      BY <3>1, <3>2, <3>3, <3>4, <3>5, <3>6
  <2>2. CASE ~ JoinsAbove
    BY <1>1, <1>2, <2>2 DEF RestNext, RestChunks
  <2> QED
    BY <2>1, <2>2
<1>4. CASE JoinsBelow
  BY <1>3, <1>4, LinkStep DEF LinkedChunks
<1>5. CASE ~ JoinsBelow
  <2>1. next' = [RestNext EXCEPT ![cur] = b, ![b] = RestNext[cur]]
    BY <1>5, LinkStep
  <2>2. LinkedChunks = RestChunks \union {b} /\ b \in Unit \ RestChunks
    BY <1>1, <1>5 DEF LinkedChunks, RestChunks
  <2> QED
    BY <1>1, <1>3, <2>1, <2>2, Linked
<1> QED
  BY <1>4, <1>5

LEMMA LinkUnits ==
    ASSUME IInv, FreeLink
    PROVE  /\ \A h \in Unit : BetweenChunks(h) /\ h # b => units'[h] = units[h]
           /\ \A x \in RestChunks \ {cur} : units'[x] = units[x]
           /\ units'[arena] = 1
           /\ \A x, y \in LinkedChunks : x + units'[x] # y
<1>1. /\ cur \in RestChunks /\ cur \in Nat /\ b \in Unit \ Chunks /\ b \in Nat /\ b # arena /\ cur < b
      /\ JoinsAbove => next[cur] # arena /\ next[cur] # cur
      /\ JoinsBelow => cur # arena
      /\ units[cur] \in Nat \ {0} /\ cur + units[cur] <= b /\ FreedUnits \in Nat \ {0}
      /\ \A y \in RestChunks : y \in Nat /\ (y <= cur \/ b + FreedUnits < y)
  BY LinkFacts DEF FreeLink
<1>2. /\ units'[b] = IF JoinsBelow THEN 0 ELSE FreedUnits
      /\ units'[cur] = IF JoinsBelow THEN units[cur] + FreedUnits ELSE units[cur]
      /\ \A x \in Unit : x # b /\ x # cur /\ (JoinsAbove => x # next[cur]) => units'[x] = units[x]
  BY LinkStep
<1>3. /\ RestChunks \subseteq Chunks /\ Chunks \subseteq Unit /\ arena \in Chunks /\ next[cur] \in Chunks
      /\ JoinsAbove => next[cur] \notin RestChunks
      /\ units[arena] = 1 /\ cur \in Chunks
      /\ \A x \in Chunks : units[x] \in Nat \ {0}
      /\ \A x, y \in Chunks : x < y => x + units[x] < y
      /\ \A x, y \in Chunks : x + units[x] # y
  BY <1>1, ChunkFacts DEF RestChunks, IInv, ListInv
<1>4. ASSUME NEW h \in Unit, BetweenChunks(h), h # b PROVE units'[h] = units[h]
  BY <1>2, <1>3, <1>4 DEF BetweenChunks
<1>5. \A x \in RestChunks \ {cur} : x \in Chunks /\ x # b /\ units'[x] = units[x]
  BY <1>1, <1>2, <1>3
<1>6. units'[arena] = 1
  BY <1>1, <1>2, <1>3
<1>7. ASSUME NEW x \in LinkedChunks, NEW y \in LinkedChunks PROVE x + units'[x] # y
  <2>1. CASE JoinsBelow
    <3>1. x \in RestChunks /\ y \in RestChunks
      BY <1>7, <2>1 DEF LinkedChunks
    <3>2. CASE x = cur
      <4>1. cur + units[cur] = b /\ units'[x] = units[cur] + FreedUnits
        BY <1>2, <2>1, <3>2 DEF JoinsBelow, Touches
      <4> QED
        BY <1>1, <3>1, <3>2, <4>1
    <3>3. CASE x # cur
      BY <1>3, <1>5, <3>1, <3>3
    <3> QED
      BY <3>2, <3>3
  <2>2. CASE ~ JoinsBelow
    <3>1. (x \in RestChunks \/ x = b) /\ (y \in RestChunks \/ y = b)
      BY <1>7, <2>2 DEF LinkedChunks
    <3>2. cur + units[cur] # b
      BY <2>2 DEF JoinsBelow, Touches
    <3>3. CASE x = b
      BY <1>1, <1>2, <2>2, <3>1, <3>3
    <3>4. CASE x \in RestChunks
      <4>1. units'[x] = units[x] /\ x \in Nat /\ units[x] \in Nat \ {0} /\ x \in Chunks
        BY <1>1, <1>2, <1>3, <1>5, <2>2, <3>4
      <4>2. x + units[x] # b
        <5>1. x < cur => x + units[x] < cur
          BY <1>3, <4>1
        <5>2. x <= cur \/ b + FreedUnits < x
          BY <1>1, <3>4
        <5> QED
          BY <1>1, <3>2, <4>1, <5>1, <5>2
      <4> QED
        BY <1>3, <3>1, <4>1, <4>2
    <3> QED
      BY <3>1, <3>3, <3>4
  <2> QED
    BY <2>1, <2>2
<1> QED
  BY <1>4, <1>5, <1>6, <1>7

LEMMA LinkTiled ==
    ASSUME IInv, FreeLink
    PROVE  Tiled(ChunkSet(LinkedChunks, units') \union BlockSet \union DescSet, HeapUnits)
<1> DEFINE n == next[cur]
           f == <<"freed", b, units[b]>>
           g == <<"freed", b, FreedUnits>>
           above == <<"chunk", n, units[n]>>
           c == <<"chunk", cur, units[cur]>>
           Others == BlockSet \union DescSet
           O == ChunkSet(RestChunks, units) \union Others \union {g}
<1>0. op = "free"
  BY DEF FreeLink
<1>1. /\ Owners = ChunkSet(Chunks, units) \union Others \union {f}
  BY <1>0, OwnersAre DEF IInv, FreedSet
<1>2. cur \in RestChunks /\ cur \in Chunks /\ n \in Chunks /\ (JoinsAbove => n # cur)
  BY <1>0, LinkFacts DEF FreeLink, RestChunks
<1>3. \A k, s, m : <<k, s, m>> \in Others => k # "chunk" /\ k # "freed"
  BY DEF BlockSet, DescSet
<1>4. Tiled(O, HeapUnits)
  <2>1. CASE JoinsAbove
    <3>1. f \in Owners /\ above \in Owners /\ b + units[b] = n /\ FreedUnits = units[b] + units[n]
      BY <1>1, <1>2, <2>1 DEF ChunkSet, JoinsAbove, Touches, FreedUnits
    <3>2. Tiled((Owners \ {f, <<"chunk", b + units[b], units[n]>>})
                  \union {<<"freed", b, units[b] + units[n]>>}, HeapUnits)
      <4>1. <<"freed", b, units[b]>> \in Owners /\ <<"chunk", b + units[b], units[n]>> \in Owners
        BY <3>1
      <4> HIDE DEF n
      <4> QED
        BY <4>1, Joined DEF IInv
    <3>3. (Owners \ {f, above}) \union {g} = O
      <4>1. ChunkSet(Chunks, units) \ {f, above} = ChunkSet(RestChunks, units)
        BY <1>2, <2>1 DEF ChunkSet, RestChunks
      <4>2. f \notin Others /\ above \notin Others
        BY <1>3
      <4> HIDE DEF f, g, above, Others
      <4> QED
        BY <1>1, <4>1, <4>2
    <3>4. above = <<"chunk", b + units[b], units[n]>> /\ g = <<"freed", b, units[b] + units[n]>>
      BY <3>1
    <3> HIDE DEF O, f, g, above
    <3> QED
      BY <3>2, <3>3, <3>4
  <2>2. CASE ~ JoinsAbove
    <3>1. RestChunks = Chunks /\ g = f
      BY <2>2 DEF RestChunks, FreedUnits
    <3> QED
      BY <1>1, <3>1 DEF IInv
  <2> QED
    BY <2>1, <2>2
<1>5. /\ \A x \in RestChunks \ {cur} : units'[x] = units[x]
      /\ units'[b] = IF JoinsBelow THEN 0 ELSE FreedUnits
      /\ units'[cur] = IF JoinsBelow THEN units[cur] + FreedUnits ELSE units[cur]
  BY LinkUnits, LinkStep
<1>6. c \in O /\ g \in O
  BY <1>2 DEF ChunkSet
<1>7. g \notin ChunkSet(RestChunks, units) /\ g \notin Others /\ c \notin Others
  BY <1>3 DEF ChunkSet
<1>8. CASE JoinsBelow
  <2> DEFINE j == <<"chunk", cur, units[cur] + FreedUnits>>
  <2>1. cur + units[cur] = b
    BY <1>8 DEF JoinsBelow, Touches
  <2>2. Tiled((O \ {c, g}) \union {j}, HeapUnits)
    <3>1. <<"chunk", cur, units[cur]>> \in O /\ <<"freed", cur + units[cur], FreedUnits>> \in O
      BY <1>6, <2>1
    <3> HIDE DEF O
    <3>2. Tiled((O \ {<<"chunk", cur, units[cur]>>, <<"freed", cur + units[cur], FreedUnits>>})
                  \union {<<"chunk", cur, units[cur] + FreedUnits>>}, HeapUnits)
      BY <1>4, <3>1, Joined
    <3> QED
      BY <2>1, <3>2
  <2>3. (ChunkSet(RestChunks, units) \ {c}) \union {j} = ChunkSet(LinkedChunks, units')
    <3>1. ChunkSet(RestChunks, units) \ {c} = ChunkSet(RestChunks \ {cur}, units')
      BY <1>2, <1>5 DEF ChunkSet
    <3>2. ChunkSet(LinkedChunks, units') = ChunkSet(RestChunks \ {cur}, units') \union {<<"chunk", cur, units'[cur]>>}
      BY <1>2, <1>8 DEF LinkedChunks, ChunkSet
    <3>3. <<"chunk", cur, units'[cur]>> = j
      BY <1>5, <1>8
    <3> HIDE DEF j, c
    <3> QED
      BY <3>1, <3>2, <3>3
  <2> HIDE DEF c, g, j, Others
  <2>4. (O \ {c, g}) \union {j} = ChunkSet(LinkedChunks, units') \union Others
    BY <1>7, <2>3
  <2> QED
    BY <2>2, <2>4 DEF Others
<1>9. CASE ~ JoinsBelow
  <2> DEFINE j == <<"chunk", b, FreedUnits>>
  <2>1. Tiled((O \ {g}) \union {j}, HeapUnits)
    <3> HIDE DEF O
    <3> QED
      BY <1>4, <1>6, Renamed
  <2>2. ChunkSet(RestChunks, units) \union {j} = ChunkSet(LinkedChunks, units')
    <3>1. ChunkSet(RestChunks, units) = ChunkSet(RestChunks, units')
      BY <1>2, <1>5, <1>9 DEF ChunkSet
    <3>2. ChunkSet(LinkedChunks, units') = ChunkSet(RestChunks, units') \union {<<"chunk", b, units'[b]>>}
      BY <1>9 DEF LinkedChunks, ChunkSet
    <3>3. <<"chunk", b, units'[b]>> = j
      BY <1>5, <1>9
    <3> HIDE DEF j
    <3> QED
      BY <3>1, <3>2, <3>3
  <2> HIDE DEF g, j, Others
  <2>3. (O \ {g}) \union {j} = ChunkSet(LinkedChunks, units') \union Others
    BY <1>7, <2>2
  <2> QED
    BY <2>1, <2>3 DEF Others
<1> QED
  BY <1>8, <1>9

LEMMA FreeLinkInv ==
    ASSUME IInv, FreeLink
    PROVE  IInv'
<1>1. /\ op = "free" /\ slobfree' = cur /\ UNCHANGED <<bigblocks, freepages, live>>
      /\ \/ /\ then = "grow" /\ op' = "alloc" /\ prev' = cur /\ cur' = next'[cur]
            /\ b' = arena /\ then' = "return" /\ UNCHANGED <<size, want>>
         \/ Return
  BY DEF FreeLink
<1>2. next' \in [Unit -> Unit] /\ Sorted(LinkedChunks, next')
  BY LinkList
<1>3. Chunks' = LinkedChunks
  BY <1>2, ChunksNext
<1>4. /\ cur \in LinkedChunks /\ cur \in Unit /\ arena \in LinkedChunks /\ arena \in Unit
      /\ next'[cur] \in LinkedChunks /\ next'[cur] \in Unit /\ LinkedChunks \subseteq Nat
  BY <1>2, LinkFacts, ListFacts DEF FreeLink, LinkedChunks, RestChunks
<1>5. /\ \A h \in Unit : BetweenChunks(h) /\ h # b => units'[h] = units[h]
      /\ units'[arena] = 1
      /\ \A x, y \in LinkedChunks : x + units'[x] # y
      /\ units' \in [Unit -> 0 .. (NPage + 1) * UPP]
  BY LinkUnits, LinkStep
<1>6. cur' \in LinkedChunks /\ cur' \in Unit
  BY <1>1, <1>4 DEF Return
<1>7. ListInv'
  BY <1>1, <1>2, <1>3, <1>4, <1>5, <1>6 DEF ListInv
<1>8. TypeOK'
  <2>1. 0 \in 0 .. UPP
    BY UnitsOfPage
  <2> QED
    BY <1>1, <1>2, <1>4, <1>5, <2>1 DEF IInv, TypeOK, Return
<1>9. BlockInv' /\ BlockSet' = BlockSet /\ DescSet' = DescSet
  <2>1. ASSUME NEW x \in SmallBlocks PROVE units'[x.addr - 1] = units[x.addr - 1]
    <3> DEFINE o == <<"block", x.addr - 1, Need(x.size)>>
               f == <<"freed", b, units[b]>>
    <3>1. o \in Owners /\ f \in Owners /\ o[2] = x.addr - 1 /\ f[2] = b /\ o # f
      BY <1>1, HeldFacts
    <3> HIDE DEF o, f
    <3>2. x.addr - 1 # b
      BY <3>1, OwnerFacts DEF IInv
    <3> QED
      BY <1>5, <3>2, HeldFacts DEF BetweenChunks
  <2> QED
    BY <1>1, <2>1, BlocksKept DEF IInv
<1>10. Tiled(Owners, HeapUnits)'
  <2>1. FreedSet' = {} /\ HeapUnits' = HeapUnits
    BY <1>1, HeapSame DEF FreedSet, Return
  <2>2. Owners' = ChunkSet(LinkedChunks, units') \union BlockSet' \union DescSet' \union FreedSet'
    BY <1>3, <1>9, OwnersAreNext
  <2>3. Owners' = ChunkSet(LinkedChunks, units') \union BlockSet \union DescSet
    BY <1>9, <2>1, <2>2
  <2> QED
    BY <2>1, <2>3, LinkTiled DEF Tiled
<1>11. CallInv'
  <2>1. CASE Return
    BY <2>1 DEF Return, CallInv
  <2>2. CASE /\ then = "grow" /\ op' = "alloc" /\ prev' = cur /\ cur' = next'[cur]
             /\ b' = arena /\ then' = "return" /\ UNCHANGED <<size, want>>
    <3>1. ASSUME NEW x \in LinkedChunks, Passed(x)' PROVE FALSE
      <4>1. \/ next'[cur] = arena /\ \A y \in LinkedChunks : y <= cur
            \/ cur < next'[cur] /\ \A y \in LinkedChunks : y <= cur \/ next'[cur] <= y
        BY <1>2, <1>4 DEF Sorted
      <4>2. /\ IF cur < next'[cur] THEN cur < x /\ x < next'[cur]
               ELSE cur < x \/ x < next'[cur]
            /\ x \in Nat /\ cur \in Nat /\ next'[cur] \in Nat /\ arena = 0
        BY <1>1, <1>4, <2>2, <3>1, PageFacts DEF Passed
      <4> QED
        BY <4>1, <4>2
    <3> QED
      BY <1>3, <1>4, <2>2, <3>1 DEF IInv, CallInv
  <2> QED
    BY <1>1, <2>1, <2>2
<1> QED
  BY <1>7, <1>8, <1>9, <1>10, <1>11 DEF IInv

-----------------------------------------------------------------------------
(* The specification *)

\* Only the arena is in the heap.
LEMMA InitInv ==
    Init => IInv
<1> SUFFICES ASSUME Init PROVE IInv
  OBVIOUS
<1>1. /\ \A a \in Unit : units[a] = (IF a = arena THEN 1 ELSE 0) /\ next[a] = arena
      /\ next \in [Unit -> Unit] /\ arena \in Unit /\ arena = 0
      /\ slobfree = arena /\ cur = arena /\ op = "idle" /\ then = "return" /\ live = {}
      /\ bigblocks = <<>> /\ Len(bigblocks) = 0 /\ freepages = Page
  BY PageFacts DEF Init
<1>2. Chunks = {arena}
  BY <1>1 DEF Chunks
<1>3. TypeOK
  <2>1. 0 \in 0 .. UPP /\ 0 \in 0 .. (NPage + 1) * UPP /\ 1 \in 0 .. (NPage + 1) * UPP
    BY UnitsOfPage, PageFacts
  <2>2. units \in [Unit -> 0 .. (NPage + 1) * UPP]
    BY <2>1 DEF Init
  <2>3. bigblocks \in Seq([bb : Unit, order : 0 .. NPage, pages : Page])
    BY <1>1
  <2> QED
    BY <1>1, <2>1, <2>2, <2>3 DEF Init, TypeOK
<1>4. ListInv
  BY <1>1, <1>2 DEF ListInv, Sorted, Chunks
<1>5. BlockInv
  BY <1>1 DEF BlockInv
<1>6. Tiled(Owners, HeapUnits)
  <2>1. BlockSet = {} /\ DescSet = {} /\ FreedSet = {}
    BY <1>1 DEF BlockSet, SmallBlocks, DescSet, FreedSet
  <2>2. ChunkSet(Chunks, units) = {<<"chunk", 0, 1>>}
    BY <1>1, <1>2 DEF ChunkSet
  <2>3. Owners = {<<"chunk", 0, 1>>}
    BY <1>5, <2>1, <2>2, OwnersAre
  <2>4. HeapUnits = {0}
    BY <1>1 DEF HeapUnits
  <2>5. Span(0, 1) = {0}
    BY SpanFacts
  <2> QED
    BY <2>3, <2>4, <2>5 DEF Tiled
<1>7. CallInv
  BY <1>1 DEF CallInv
<1> QED
  BY <1>3, <1>4, <1>5, <1>6, <1>7 DEF IInv

LEMMA UnchangedInv ==
    IInv /\ UNCHANGED vars => IInv'
<1> SUFFICES ASSUME IInv, UNCHANGED vars PROVE IInv'
  OBVIOUS
<1>1. UNCHANGED <<units, next, slobfree, bigblocks, freepages, live, op, size, want, prev, cur, b, then>>
  BY DEF vars
<1>2. Chunks' = Chunks /\ cur' \in Chunks
  BY <1>1 DEF Chunks, IInv, ListInv
<1>3. TypeOK'
  BY <1>1 DEF IInv, TypeOK
<1>4. CallInv'
  BY <1>1, <1>2 DEF IInv, CallInv, Passed
<1> QED
  BY <1>1, <1>2, <1>3, <1>4, CallMoves

LEMMA NextInv ==
    IInv /\ [Next]_vars => IInv'
<1> SUFFICES ASSUME IInv, [Next]_vars PROVE IInv'
  OBVIOUS
<1>1. CASE \E n \in Sizes : kmalloc(n)
  BY <1>1, kmallocInv
<1>2. CASE AllocNext
  BY <1>2, AllocNextInv
<1>3. CASE AllocGrow
  BY <1>3, AllocGrowInv
<1>4. CASE AllocFail
  BY <1>4, AllocFailInv
<1>5. CASE AllocSmall
  BY <1>5, AllocSmallInv
<1>6. CASE AllocBig
  BY <1>6, AllocBigInv
<1>7. CASE FreeNext
  BY <1>7, FreeNextInv
<1>8. CASE FreeLink
  BY <1>8, FreeLinkInv
<1>9. CASE \E blk \in live : kfree(blk)
  BY <1>9, kfreeInv
<1>10. CASE Panicked \/ UNCHANGED vars
  BY <1>10, UnchangedInv DEF Panicked
<1> QED
  BY <1>1, <1>2, <1>3, <1>4, <1>5, <1>6, <1>7, <1>8, <1>9, <1>10 DEF Next, Loop

THEOREM Invariance == Spec => []IInv
BY InitInv, NextInv, PTL DEF Spec

\* The heap is one sorted circle of chunks that do not touch, and both slobfree and the
\* loops of slob_alloc and slob_free are on it (kmalloc.c, slob_alloc and slob_free).
THEOREM HeapIsSorted == Spec => []FreeListSorted
<1>1. IInv => FreeListSorted
  BY DEF IInv, ListInv, CallInv, Sorted, FreeListSorted
<1> QED
  BY <1>1, Invariance, PTL

\* slob_alloc, slob_free, __kmalloc and kfree lose no unit of the heap and give none to two
\* owners; a block has its header, which says so, and room for what was asked.
THEOREM NoUnitLost == Spec => []UnitsConserved
<1>1. IInv => UnitsConserved
  <2> SUFFICES ASSUME IInv PROVE UnitsConserved
    OBVIOUS
  <2>1. \A o, p \in Owners : o # p => Span(o[2], o[3]) \intersect Span(p[2], p[3]) = {}
    BY DEF IInv, Tiled
  <2>2. UNION {Span(o[2], o[3]) : o \in Owners} = HeapUnits
    BY DEF IInv, Tiled
  <2>3. BigPages \intersect freepages = {}
    BY DEF IInv, BlockInv, BigPages
  <2>4. ASSUME NEW x \in live, ~ IsBig(x.addr)
        PROVE  units[x.addr - 1] = Need(x.size) /\ ksize(x.addr) - SLOB_UNIT >= x.size
    <3>1. units[x.addr - 1] = Need(x.size) /\ x.size \in Sizes
      BY <2>4 DEF IInv, BlockInv, TypeOK
    <3>2. ksize(x.addr) = Need(x.size) * SLOB_UNIT
      BY <2>4, <3>1 DEF ksize
    <3> QED
      BY <3>1, <3>2, NeedFacts
  <2> QED
    BY <2>1, <2>2, <2>3, <2>4 DEF UnitsConserved
<1> QED
  BY <1>1, Invariance, PTL

\* slob_alloc returns 0 only after it has been round the whole list: no chunk has room
\* and the page allocator has no page.
THEOREM FailsHonestly == Spec => FailsOnlyIfFull
<1> DEFINE A == op = "alloc" /\ op' = "idle" /\ live' = live =>
                   freepages = {} /\ \A x \in Chunks : units[x] < want
<1>1. IInv /\ [Next]_vars => [A]_vars
  <2> SUFFICES ASSUME IInv, Next, op = "alloc", op' = "idle", live' = live
               PROVE  freepages = {} /\ \A x \in Chunks : units[x] < want
    OBVIOUS
  <2>1. AllocFail \/ AllocSmall \/ AllocBig
    BY DEF Next, Loop, kmalloc, AllocNext, AllocGrow, FreeNext, FreeLink, kfree, Panicked
  <2>2. CASE AllocFail
    <3>1. freepages = {} /\ cur = slobfree /\ ~ RoomEnough(cur) /\ cur \in Chunks /\ Chunks \subseteq Nat
      BY <2>2, ChunkFacts DEF AllocFail, IInv, ListInv
    <3>2. units[cur] < want
      <4>1. units[cur] \in Nat /\ want \in Nat
        BY <3>1, ChunkFacts, NeedFacts DEF IInv, CallInv
      <4> QED
        BY <3>1, <4>1 DEF RoomEnough
    <3>3. \A x \in Chunks : x # cur => Passed(x)
      BY <3>1 DEF Passed
    <3> QED
      BY <3>1, <3>2, <3>3 DEF IInv, CallInv
  <2>3. ASSUME AllocSmall PROVE FALSE
    <3> DEFINE new == [addr |-> cur + 1, size |-> size]
    <3>1. new \in SmallBlocks /\ cur \in Chunks
      BY <2>3 DEF AllocSmall, SmallBlocks, IInv, ListInv
    <3>2. new.addr - 1 = cur
      <4>1. cur \in Nat /\ new.addr = cur + 1
        BY <3>1, ChunkFacts
      <4> HIDE DEF new
      <4> QED
        BY <4>1
    <3> HIDE DEF new
    <3> QED
      BY <3>1, <3>2, HeldFacts DEF BetweenChunks
  <2>4. ASSUME AllocBig PROVE FALSE
    <3> DEFINE k == find_order(size)
    <3>1. /\ ~ IsSmall(size)
          /\ \E p \in Page : IsLowestRun(p, 2^k) /\ live' = live \union {[addr |-> p * UPP, size |-> size]}
      BY <2>4 DEF AllocBig
    <3>2. PICK p \in Page : /\ IsLowestRun(p, 2^k)
                           /\ live' = live \union {[addr |-> p * UPP, size |-> size]}
      BY <3>1
    <3>3. IsBig(p * UPP)
      <4> DEFINE new == [addr |-> p * UPP, size |-> size]
      <4>1. new \in live /\ new.addr = p * UPP /\ new.size = size
        BY <3>2
      <4> HIDE DEF new
      <4> QED
        BY <3>1, <4>1 DEF IInv, BlockInv
    <3>4. p \in freepages
      <4> DEFINE n == 2^k
      <4>1. n \in Nat \ {0} /\ p \in Nat /\ Span(p, n) \subseteq freepages
        <5>1. k \in 0 .. NPage
          BY find_orderFacts DEF IInv, CallInv
        <5> HIDE DEF k
        <5> QED
          BY <3>2, <5>1, OrderAssumption, PageFacts DEF IsLowestRun
      <4> HIDE DEF n
      <4>2. p \in Span(p, n)
        BY <4>1, SpanFacts
      <4> QED
        BY <4>1, <4>2
    <3>5. PICK i \in 1 .. Len(bigblocks) : bigblocks[i].pages * UPP = p * UPP
      BY <3>3 DEF IsBig, BigAt
    <3>6. bigblocks[i].pages \notin freepages /\ bigblocks[i].pages \in Page
      BY BigFacts DEF IInv, BlockInv
    <3> QED
      BY <3>4, <3>5, <3>6, PageStart
  <2> QED
    BY <2>1, <2>2, <2>3, <2>4
<1> QED
  BY <1>1, Invariance, PTL DEF Spec, FailsOnlyIfFull

===============================================================================
