-------------------------------- MODULE MCBoot ---------------------------------
(* The instance of Boot that TLC checks. *)
EXTENDS Boot

E == Letter.e
Filler(k) == [j \in 1 .. k |-> E]

\* Nodes that come before the memory node: names and properties of every length
\* modulo 4, data that looks like a token, nested nodes, and a reg that is not memory's.
Others ==
    { <<>>,
      <<Token(FDT_NOP)>>,
      <<Node(<<E, Letter.g>>), Prop(reg, Bytes64(24) \o Bytes64(40)), Token(FDT_END_NODE)>> }
    \union {<<Node(Filler(k)), Prop(2, Bytes32(FDT_END) \o Filler(j)), Token(FDT_END_NODE)>> :
                k \in 0 .. 7, j \in 0 .. 3}
    \union {<<Node(Filler(k)), Node(Filler(5)), Token(FDT_END_NODE), Token(FDT_END_NODE)>> :
                k \in 1 .. 4}

\* Sizes from nothing to less than a page after the array, exactly one page, and more;
\* one bank, two banks, and a reg with 32-bit cells, which is too short.
Banks(size) == {Bytes64(DRAM_BASE) \o Bytes64(size),
                Bytes64(DRAM_BASE) \o Bytes64(size) \o Bytes64(600) \o Bytes64(7),
                Bytes32(DRAM_BASE) \o Bytes32(size)}
MemoryNodes(sizes) ==
    UNION {{<<Node(name), Prop(2, Filler(k)), Prop(reg, data), Token(FDT_END_NODE)>> :
                name \in {memory, memory \o <<Letter.at, E>>}, k \in {0, 3},
                data \in Banks(size)} : size \in sizes}

\* A root node with other nodes, then memory, then the end of the tree or damage.
Tree(o, m, last) == <<Node(<<>>)>> \o o \o m \o <<Token(FDT_END_NODE), Token(last)>>
MCTrees ==
    {Tree(o, m, last) : o \in Others, m \in MemoryNodes({20}) \union {<<>>}, last \in {FDT_END, 5}}
    \union {Tree(<<>>, m, FDT_END) : m \in MemoryNodes(0 .. 36)}

MCEnds == {Offset + DRAM_BASE + k : k \in {3, 8}}
==============================================================================
