--------------------------------- MODULE Boot ----------------------------------
(***************************************************************************)
(* How the kernel learns which pages it may hand out: dtb_init and         *)
(* extract_memory_info of kern/driver/dtb.c walk the flattened device tree *)
(* that the firmware left in memory, and page_init of kern/mm/pmm.c turns  *)
(* what they found into the range of pages for init_memmap.                *)
(*                                                                         *)
(* The structure block is a sequence of bytes.  A byte has Radix values,   *)
(* few enough for the 64-bit numbers of the code to be integers of TLC;    *)
(* the letters of names are bytes too.  One token of the block is a step.  *)
(***************************************************************************)
EXTENDS Integers, Sequences, FiniteSets

CONSTANTS
    Radix,          \* the values of a byte (256)
    PGSIZE,
    DRAM_BASE,      \* where physical memory begins, page aligned
    KERNTOP,
    Offset,         \* PHYSICAL_MEMORY_OFFSET, page aligned
    SizeofPage,     \* sizeof(struct Page)
    Trees,          \* the device trees, as sequences of the pieces below
    Ends            \* the addresses end that the linker gives the kernel

ASSUME BootAssumption ==
    /\ Radix \in Nat /\ Radix > 7 /\ PGSIZE \in Nat \ {0} /\ SizeofPage \in Nat \ {0}
    /\ DRAM_BASE % PGSIZE = 0 /\ Offset % PGSIZE = 0
    /\ \A e \in Ends : e >= DRAM_BASE + Offset

VARIABLES
    tree,           \* the device tree (not in the code)
    block,          \* the structure block, which encodes it
    dtb,            \* "none", "bad magic" or "ok": what boot_dtb points to
    end,
    pc,             \* where the kernel is
    struct_ptr,     \* offset into the block
    in_memory_node,
    memory_base, memory_size,
    npage,
    given           \* the page frames passed to init_memmap

firmware == <<tree, block, dtb, end>>
vars == <<firmware, pc, struct_ptr, in_memory_node, memory_base, memory_size, npage, given>>

-----------------------------------------------------------------------------
(* What the firmware writes (external).                                    *)

FDT_BEGIN_NODE == 1
FDT_END_NODE == 2
FDT_PROP == 3
FDT_NOP == 4
FDT_END == 9

\* Big-endian, as the device tree is.
Byte == 0 .. Radix - 1
Word == Radix * Radix * Radix * Radix               \* the values of 32 bits
Low(x) == x % Radix                                 \* x & 0xff
Shift(x) == x \div Radix                            \* x >> 8
Bytes32(x) == << Shift(Shift(Shift(x))), Low(Shift(Shift(x))), Low(Shift(x)), Low(x) >>
Bytes64(x) == Bytes32(x \div Word) \o Bytes32(x % Word)
Padded(bytes) == bytes \o [k \in 1 .. (- Len(bytes)) % 4 |-> 0]

\* The pieces of a tree: tokens, with a name or a property.  Names of properties are
\* numbers of strings in the strings block.
Node(name) == [token |-> FDT_BEGIN_NODE, name |-> name, prop |-> 0, data |-> <<>>]
Prop(prop, data) == [token |-> FDT_PROP, name |-> <<>>, prop |-> prop, data |-> data]
Token(token) == [token |-> token, name |-> <<>>, prop |-> 0, data |-> <<>>]

Encoded(piece) ==
    CASE piece.token = FDT_BEGIN_NODE -> Bytes32(piece.token) \o Padded(piece.name \o <<0>>)
      [] piece.token = FDT_PROP -> Bytes32(piece.token) \o Bytes32(Len(piece.data))
                                        \o Bytes32(piece.prop) \o Padded(piece.data)
      [] OTHER -> Bytes32(piece.token)

\* The bytes of the first k pieces, for every k.
Parts(t) ==
    LET e[k \in 0 .. Len(t)] == IF k = 0 THEN <<>> ELSE e[k - 1] \o Encoded(t[k]) IN e
Encoding(t) == Parts(t)[Len(t)]

Letter == [m |-> 1, e |-> 2, o |-> 3, r |-> 4, y |-> 5, at |-> 6, g |-> 7]
memory == <<Letter.m, Letter.e, Letter.m, Letter.o, Letter.r, Letter.y>>
reg == 1            \* the string "reg"

\* A memory node is called memory, with or without a unit address.
IsMemoryNode(name) ==
    name = memory \/ (Len(name) > 6 /\ SubSeq(name, 1, 7) = Append(memory, Letter.at))

\* The trees of the device tree specification: nodes and properties, then a token that
\* ends them (or damage); the properties of a node come before the nodes in it; no node
\* but a memory node has a name that begins like one, and it contains no nodes.
Tokens == {FDT_BEGIN_NODE, FDT_END_NODE, FDT_PROP, FDT_NOP}
Piece == [token : 0 .. Word - 1, name : Seq(Byte \ {0}), prop : 0 .. Word - 1, data : Seq(Byte)]
InFront(t, j, k) ==
    /\ t[j].token = FDT_BEGIN_NODE
    /\ \A l \in j + 1 .. k : t[l].token \notin {FDT_BEGIN_NODE, FDT_END_NODE}
WellFormed(t) ==
    /\ t \in Seq(Piece) /\ t # <<>>
    /\ \A k \in 1 .. Len(t) :
        /\ Len(t[k].data) < Word
        /\ t[k].token \in Tokens <=> k # Len(t)
        /\ t[k].token = FDT_PROP => \E j \in 1 .. k : InFront(t, j, k)
        /\ (Len(t[k].name) >= 6 /\ \A i \in 1 .. 6 : t[k].name[i] = memory[i])
                => IsMemoryNode(t[k].name)
        /\ t[k].token = FDT_BEGIN_NODE =>
            \A j \in 1 .. k - 1 :
                t[j].token = FDT_BEGIN_NODE /\ IsMemoryNode(t[j].name)
                    => \E l \in j .. k : t[l].token = FDT_END_NODE
ASSUME TreesAssumption == \A t \in Trees : WellFormed(t)

-----------------------------------------------------------------------------
(* extract_memory_info                                                     *)

\* A little-endian load, and the swap of its bytes.
Load32(p) == block[p + 1] + Radix * (block[p + 2] + Radix * (block[p + 3] + Radix * block[p + 4]))
fdt32_to_cpu(x) ==
    Radix * (Radix * (Radix * Low(x) + Low(Shift(x))) + Low(Shift(Shift(x))))
        + Low(Shift(Shift(Shift(x))))

\* A 64-bit load is two words, the second the high one; its halves are swapped too.
fdt64_to_cpu(p) == fdt32_to_cpu(Load32(p)) * Word + fdt32_to_cpu(Load32(p + 4))

NameLen(p) == CHOOSE k \in 0 .. Len(block) :
                block[p + k + 1] = 0 /\ \A j \in 1 .. k : block[p + j] # 0
StartsWith(p, str) == \A k \in 1 .. Len(str) : block[p + k] = str[k]
Aligned(p) == p - (p % 4)                           \* & ~3

token == fdt32_to_cpu(Load32(struct_ptr))
here == struct_ptr + 4                              \* behind the token
prop_len == fdt32_to_cpu(Load32(here))
prop_nameoff == fdt32_to_cpu(Load32(here + 4))
prop_data == here + 8

SkipWithoutNul(p, name_len) == Aligned(p + name_len + 3)
SkipName(p, name_len) == Aligned(p + name_len + 4)

BeginNode ==
    /\ pc = "extract" /\ token = FDT_BEGIN_NODE
    /\ LET name_len == NameLen(here) IN
        /\ in_memory_node' = (in_memory_node \/ (name_len >= 6 /\ StartsWith(here, memory)))
        /\ struct_ptr' = SkipName(here, name_len)
    /\ UNCHANGED <<firmware, pc, memory_base, memory_size, npage, given>>

EndNode ==
    /\ pc = "extract" /\ token = FDT_END_NODE
    /\ in_memory_node' = FALSE
    /\ struct_ptr' = here
    /\ UNCHANGED <<firmware, pc, memory_base, memory_size, npage, given>>

IsMemoryReg == in_memory_node /\ prop_nameoff = reg /\ prop_len >= 16

\* Found: dtb_init keeps the base and the size.
PropFound ==
    /\ pc = "extract" /\ token = FDT_PROP /\ IsMemoryReg
    /\ memory_base' = fdt64_to_cpu(prop_data)
    /\ memory_size' = fdt64_to_cpu(prop_data + 8)
    /\ pc' = "page_init"
    /\ UNCHANGED <<firmware, struct_ptr, in_memory_node, npage, given>>

PropSkip ==
    /\ pc = "extract" /\ token = FDT_PROP /\ ~ IsMemoryReg
    /\ struct_ptr' = Aligned(prop_data + prop_len + 3)
    /\ UNCHANGED <<firmware, pc, in_memory_node, memory_base, memory_size, npage, given>>

Nop ==
    /\ pc = "extract" /\ token = FDT_NOP
    /\ struct_ptr' = here
    /\ UNCHANGED <<firmware, pc, in_memory_node, memory_base, memory_size, npage, given>>

\* FDT_END, or no token at all: nothing was found.
NotFound ==
    /\ pc = "extract"
    /\ token \notin {FDT_BEGIN_NODE, FDT_END_NODE, FDT_PROP, FDT_NOP}
    /\ pc' = "page_init"
    /\ UNCHANGED <<firmware, struct_ptr, in_memory_node, memory_base, memory_size, npage, given>>

dtb_init ==
    /\ pc = "dtb_init"
    /\ pc' = IF dtb = "ok" THEN "extract" ELSE "page_init"
    /\ UNCHANGED <<firmware, struct_ptr, in_memory_node, memory_base, memory_size, npage, given>>

-----------------------------------------------------------------------------
(* page_init                                                               *)

ROUNDDOWN(a) == a - (a % PGSIZE)
ROUNDUP(a) == ROUNDDOWN(a + PGSIZE - 1)
PPN(pa) == pa \div PGSIZE
nbase == DRAM_BASE \div PGSIZE

\* The array of struct Page begins behind the kernel; free memory behind the array.
pages == ROUNDUP(end)
PADDR(kva) == kva - Offset
freemem(np) == PADDR(pages + SizeofPage * (np - nbase))

RoundedDown(np) == ROUNDDOWN(freemem(np))
mem_begin(np) == ROUNDUP(freemem(np))

page_init ==
    /\ pc = "page_init"
    /\ \/ /\ memory_size = 0
          /\ pc' = "panic"
          /\ UNCHANGED <<npage, given>>
       \/ /\ memory_size # 0
          /\ LET maxpa == memory_base + memory_size
                 np == PPN(IF maxpa > KERNTOP THEN KERNTOP ELSE maxpa)
                 mem_end == ROUNDDOWN(maxpa)
             IN /\ npage' = np
                /\ \/ /\ freemem(np) >= mem_end         \* nothing to hand out
                      /\ pc' = "done"
                      /\ UNCHANGED given
                   \/ /\ freemem(np) < mem_end
                      /\ PPN(mem_begin(np)) >= np       \* pa2page
                      /\ pc' = "panic"
                      /\ UNCHANGED given
                   \/ /\ freemem(np) < mem_end
                      /\ PPN(mem_begin(np)) < np
                      /\ given' = PPN(mem_begin(np)) .. PPN(mem_end) - 1
                      /\ pc' = "done"
    /\ UNCHANGED <<firmware, struct_ptr, in_memory_node, memory_base, memory_size>>

-----------------------------------------------------------------------------

Init ==
    /\ tree \in Trees /\ block = Encoding(tree)
    /\ dtb \in {"none", "bad magic", "ok"} /\ end \in Ends
    /\ pc = "dtb_init"
    /\ struct_ptr = 0 /\ in_memory_node = FALSE
    /\ memory_base = 0 /\ memory_size = 0 /\ npage = 0 /\ given = {}

Next ==
    \/ dtb_init
    \/ BeginNode \/ EndNode \/ PropFound \/ PropSkip \/ Nop \/ NotFound
    \/ page_init

Spec == Init /\ [][Next]_vars /\ WF_vars(Next)

-----------------------------------------------------------------------------

\* The nesting of piece k, and the node that it is a property of.
Opened(k) == {j \in 1 .. k : tree[j].token = FDT_BEGIN_NODE}
Closed(k) == {j \in 1 .. k : tree[j].token = FDT_END_NODE}
Depth(k) == Cardinality(Opened(k)) - Cardinality(Closed(k))
NodeOf(k) == CHOOSE j \in Opened(k) :
                Depth(j) = Depth(k) /\ \A l \in Opened(k) : Depth(l) = Depth(k) => l <= j

\* The properties that describe memory: reg of a memory node, with 64-bit cells.
MemoryRegs == {k \in 1 .. Len(tree) : /\ tree[k].token = FDT_PROP /\ tree[k].prop = reg
                                      /\ Len(tree[k].data) >= 16
                                      /\ IsMemoryNode(tree[NodeOf(k)].name)}
FirstReg == tree[CHOOSE k \in MemoryRegs : \A j \in MemoryRegs : k <= j].data

Number(bytes) ==
    LET v[k \in 0 .. Len(bytes)] == IF k = 0 THEN 0 ELSE Radix * v[k - 1] + bytes[k] IN v[Len(bytes)]

\* Whatever nodes, properties and padding come first, extract_memory_info finds the
\* first bank of the first memory node, and reports nothing if there is none.
FindsMemory ==
    pc \in {"page_init", "done", "panic"} =>
        IF dtb = "ok" /\ MemoryRegs # {}
        THEN /\ memory_base = Number(SubSeq(FirstReg, 1, 8))
             /\ memory_size = Number(SubSeq(FirstReg, 9, 16))
        ELSE memory_base = 0 /\ memory_size = 0

\* The frames that are in memory as a whole, above the kernel, and touch no entry of
\* the array that page_init puts there, one entry for every frame of memory.
Usable ==
    LET frames == PPN(memory_base + memory_size)
        top == PADDR(pages) + SizeofPage * (frames - nbase)
    IN {f \in nbase .. frames : f * PGSIZE >= top /\ (f + 1) * PGSIZE <= memory_base + memory_size}

\* The boot ends: page_init hands over exactly the usable frames, each with an entry in
\* the array, or it panics, and then there was no memory or no usable frame.
HandsOverMemory ==
    <>(\/ pc = "done" /\ given = Usable /\ given \subseteq nbase .. npage - 1
       \/ pc = "panic" /\ (memory_size = 0 \/ Usable = {}))

==============================================================================
