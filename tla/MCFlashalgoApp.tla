--------------------------- MODULE MCFlashalgoApp ---------------------------
(* FlashalgoApp with a few .FLM files.                                      *)
EXTENDS FlashalgoApp

MCFileSizes == {0, 2, 3, 6}

MCCode(n)   == [type |-> "code", filesz |-> n, page |-> 0]
MCDevice(n) == [type |-> "device", filesz |-> 0, page |-> n]
MCRest      == [type |-> "other", filesz |-> 0, page |-> 0]
MCSyms(l, ys) == [type |-> "symtab", link |-> l, strs |-> <<>>, syms |-> ys]
MCStrs(ns)  == [type |-> "strtab", link |-> 0, strs |-> ns, syms |-> <<>>]
MCOther     == [type |-> "other", link |-> 0, strs |-> <<>>, syms |-> <<>>]
MCY(n, v)   == [name |-> n, value |-> v]
MCFile(p, s) == [elf |-> TRUE, phdrs |-> p, shdrs |-> s]

T == StrFunNameTable
\* Strings in two orders, the second with names that share characters.
MCNames  == <<T["init"], T["uninit"], T["erase_chip"], T["erase_sector"], T["program_page"]>>
MCNames2 == <<N(6, "Veri", "fy"), T["program_page"], T["init"], T["erase_sector"],
              N(9, "Flas", "hDev.c"), T["erase_chip"], T["uninit"], N(10, "Init", "System")>>
MCSyms1 == <<MCY(5, "program_page"), MCY(1, "init"), MCY(2, "uninit"), MCY(3, "erase_chip"), MCY(4, "erase_sector")>>
MCSyms2 == <<MCY(0, "none"), MCY(1, "none"), MCY(3, "init"), MCY(8, "none"), MCY(5, "none"), MCY(7, "uninit"),
             MCY(6, "erase_chip"), MCY(4, "erase_sector"), MCY(2, "program_page")>>

MCGood(n, p) == MCFile(<<MCCode(n), MCDevice(p)>>, <<MCSyms(2, MCSyms1), MCStrs(MCNames)>>)
\* The device first, other segments and sections, other strings and symbols.
MCShuffled == MCFile(<<MCDevice(1), MCRest, MCCode(368)>>,
                     <<MCOther, MCStrs(MCNames), MCSyms(4, MCSyms2), MCStrs(MCNames2)>>)
MCNoDevice == MCFile(<<MCCode(100)>>, <<MCSyms(2, MCSyms1), MCStrs(MCNames)>>)
\* "EraseBank" comes after "EraseChip", of the same length and head.
MCCollides == MCFile(<<MCCode(100), MCDevice(1)>>,
                     <<MCSyms(2, MCSyms1 \o <<MCY(6, "none")>>), MCStrs(MCNames \o <<N(9, "Eras", "eBank")>>)>>)
MCNotElf   == [elf |-> FALSE, phdrs |-> <<>>, shdrs |-> <<>>]

\* 368 bytes with their header end where the page buffer begins.
MCFiles == {MCGood(368, 2), MCGood(369, 1), MCShuffled, MCNoDevice, MCCollides, MCNotElf}
=============================================================================
