----------------------------- MODULE FlashAlgo -----------------------------
(***************************************************************************)
(* The parser of flash algorithms, pack/flashalgo/flashalgo.c: an .FLM     *)
(* file is an ELF image whose writable segment is the code of the          *)
(* algorithm, whose other segment describes the device, and whose symbol   *)
(* table says where the functions are.                                     *)
(*                                                                         *)
(* A step is one call of ReadDataFromFile and what is done with what it    *)
(* read.  No caller looks at its result: after a failed read the parser    *)
(* goes on with what its buffer held before, which on the stack is nothing *)
(* that means anything.                                                    *)
(***************************************************************************)
EXTENDS Integers, Sequences

CONSTANTS
  Files,         \* the .FLM files
  Pages,         \* what memory that was never written may hold as a page size
  MaxMisreads    \* bound: number of failed reads

\* A file: is it an ELF image; its program headers, section headers, and the
\* strings and symbols in the sections.  An offset in a string table counts its
\* strings (from 1); 0 is the empty string, or an offset within a string.
Entry == {"init", "uninit", "erase_chip", "erase_sector", "program_page"}
Place     == Entry \cup {"none"}
Name     == [len : Nat, head : STRING, tail : STRING]
N(l, h, t) == [len |-> l, head |-> h, tail |-> t]
Symbol   == [name : Nat, value : Place]
Phdr     == [type : {"code", "device", "other"}, filesz : Nat, page : Nat]
Shdr     == [type : {"symtab", "strtab", "other"}, link : Nat, strs : Seq(Name), syms : Seq(Symbol)]
ElfFile  == [elf : BOOLEAN, phdrs : Seq(Phdr), shdrs : Seq(Shdr)]

\* A symbol table names a section of the file.
ASSUME FilesAssumption ==
  \A f \in Files :
    /\ f \in ElfFile
    /\ \A i \in DOMAIN f.shdrs : f.shdrs[i].type = "symtab" => f.shdrs[i].link \in DOMAIN f.shdrs
ASSUME PagesAssumption == Pages \subseteq Nat /\ MaxMisreads \in Nat

VARIABLES
  flm,     \* the file, where the parser is, its loop counters and its buffers
  parsed   \* program_target_t and chip_information as far as they are filled in

ARM_IRQ_HALT_LEN == 8
\* StrFunNameTable, and the field each name is for.
StrFunNameTable ==
  [init |-> N(4, "Init", ""), uninit |-> N(6, "UnIn", "it"), erase_chip |-> N(9, "Eras", "eChip"),
   erase_sector |-> N(11, "Eras", "eSector"), program_page |-> N(11, "Prog", "ramPage")]

NoPhdr == [type |-> "other", filesz |-> 0, page |-> 0]
NoShdr == [type |-> "other", link |-> 0, strs |-> <<>>, syms |-> <<>>]
NoSym  == [name |-> -1, value |-> "none"]

NoTarget == [entry |-> [f \in Entry |-> "none"], algo_size |-> 0, blob |-> FALSE,
             program_buffer_size |-> 0]

FlmInit ==
  /\ flm \in [file : Files, at : {"ehdr"}, i : {1}, s : {1}, phdr : {NoPhdr}, shdr : {NoShdr},
              symtab : {NoShdr}, sym : {NoSym}, page : Pages, good : {TRUE}, misreads : {0}, ret : {0}]
  /\ parsed = NoTarget

-----------------------------------------------------------------------------
Failed(f) == f.misreads < MaxMisreads
Misread(f) == [f EXCEPT !.good = FALSE, !.misreads = @ + 1]

Goto(f, p, i) == [f EXCEPT !.at = p, !.i = i]

\* Mutant: only the characters are compared.
SameName_NoLength(n, m) == n.head = m.head

\* strlen, then strncmp of sizeof(char *) characters.
SameName(n, m) == n.len = m.len /\ n.head = m.head

\* The name of the table that fits: no two of them agree in length and head.
Fits(n)  == {e \in Entry : SameName(StrFunNameTable[e], n)}
Field(n) == CHOOSE e \in Fits(n) : TRUE

\* Where the scan of the string table goes from string s: to the next string
\* that is the name of a function, if there is a symbol to look at, or the end.
Hits(f, s) == {k \in s .. Len(f.shdr.strs) : Fits(f.shdr.strs[k]) # {} /\ f.symtab.syms # <<>>}
Scan(f, s) ==
  IF Hits(f, s) = {} THEN [f EXCEPT !.at = "layout"]
  ELSE [f EXCEPT !.at = "sym", !.i = 1, !.s = CHOOSE k \in Hits(f, s) : \A l \in Hits(f, s) : k <= l]

AfterPhdr(f) ==
  IF f.i < Len(f.file.phdrs) THEN Goto(f, "phdr", f.i + 1)
  ELSE IF f.file.shdrs # <<>> THEN Goto(f, "shdr", 1) ELSE Goto(f, "strtab", 1)
AfterShdr(f) == IF f.i < Len(f.file.shdrs) THEN Goto(f, "shdr", f.i + 1) ELSE Goto(f, "strtab", 1)

\* FLM_Prase: a file that is not ELF is refused.  After a failed read what the
\* stack holds is looked at: no ELF header, or by chance that of this file.
ReadEhdr ==
  /\ flm.at = "ehdr"
  /\ \/ flm.file.elf /\ flm' = AfterPhdr(Goto(flm, "phdr", 0))
     \/ ~flm.file.elf /\ flm' = [flm EXCEPT !.at = "end", !.ret = -1]
     \/ Failed(flm) /\ flm' = [Misread(flm) EXCEPT !.at = "end", !.ret = -1]
     \/ Failed(flm) /\ flm.file.elf /\ flm' = AfterPhdr(Goto(Misread(flm), "phdr", 0))
  /\ UNCHANGED parsed

\* FLM_Program_Header: the segment a header is about is read next.
WithPhdr(f, h) ==
  LET g == [f EXCEPT !.phdr = h]
  IN IF h.type = "other" THEN AfterPhdr(g) ELSE [g EXCEPT !.at = h.type]
ReadPhdr ==
  /\ flm.at = "phdr"
  /\ \/ flm' = WithPhdr(flm, flm.file.phdrs[flm.i])
     \/ Failed(flm) /\ flm' = WithPhdr(Misread(flm), flm.phdr)
  /\ UNCHANGED parsed

ReadBlob ==
  /\ flm.at = "code"
  /\ \/ flm' = AfterPhdr(flm) /\ parsed' = [parsed EXCEPT !.blob = TRUE,
                                              !.algo_size = flm.phdr.filesz + 4 * ARM_IRQ_HALT_LEN]
     \/ /\ Failed(flm) /\ flm' = AfterPhdr(Misread(flm))
        /\ parsed' = [parsed EXCEPT !.blob = FALSE, !.algo_size = flm.phdr.filesz + 4 * ARM_IRQ_HALT_LEN]

ReadDevice ==
  /\ flm.at = "device"
  /\ \/ flm' = AfterPhdr([flm EXCEPT !.page = flm.phdr.page])
     \/ Failed(flm) /\ \E p \in Pages : flm' = AfterPhdr([Misread(flm) EXCEPT !.page = p])
  /\ UNCHANGED parsed

\* FLM_Sections_Header: the loop ends at a symbol table whose link is a string
\* table, and otherwise with the last section it read.
WithShdr(f, h) ==
  LET g == [f EXCEPT !.shdr = h]
  IN IF h.type = "symtab" THEN [g EXCEPT !.symtab = h, !.at = "link"] ELSE AfterShdr(g)
ReadShdr ==
  /\ flm.at = "shdr"
  /\ \/ flm' = WithShdr(flm, flm.file.shdrs[flm.i])
     \/ Failed(flm) /\ flm' = WithShdr(Misread(flm), flm.shdr)
  /\ UNCHANGED parsed

WithLink(f, h) ==
  LET g == [f EXCEPT !.shdr = h]
  IN IF h.type = "strtab" THEN Goto(g, "strtab", 1) ELSE AfterShdr(g)
ReadLink ==
  /\ flm.at = "link"
  /\ \/ flm' = WithLink(flm, flm.file.shdrs[flm.symtab.link])
     \/ Failed(flm) /\ flm' = WithLink(Misread(flm), flm.shdr)
  /\ UNCHANGED parsed

\* The strings.  What malloc returns is taken to hold none of the names.
ReadStrings ==
  /\ flm.at = "strtab"
  /\ \/ flm' = Scan(flm, 1)
     \/ Failed(flm) /\ flm' = [Misread(flm) EXCEPT !.at = "layout"]
  /\ UNCHANGED parsed

\* FLM_Sections_Value: every symbol with that name.
WithSym(f, y) ==
  LET g == [f EXCEPT !.sym = y]
  IN IF f.i < Len(f.symtab.syms) THEN Goto(g, "sym", f.i + 1) ELSE Scan(g, f.s + 1)
Entered(y) ==
  IF y.name = flm.s THEN [parsed EXCEPT !.entry[Field(flm.shdr.strs[flm.s])] = y.value] ELSE parsed
ReadSym ==
  /\ flm.at = "sym"
  /\ \/ LET y == flm.symtab.syms[flm.i] IN flm' = WithSym(flm, y) /\ parsed' = Entered(y)
     \/ Failed(flm) /\ flm' = WithSym(Misread(flm), flm.sym) /\ parsed' = Entered(flm.sym)

\* The end of FLM_Prase.  The page size is what the caller's uninitialised info
\* holds when no segment has set it.
Layout ==
  /\ flm.at = "layout" /\ flm' = [flm EXCEPT !.at = "end"]
  /\ parsed' = [parsed EXCEPT !.program_buffer_size = flm.page]

FlmNext ==
  \/ ReadEhdr \/ ReadPhdr \/ ReadBlob \/ ReadDevice \/ ReadShdr \/ ReadLink
  \/ ReadStrings \/ ReadSym \/ Layout

-----------------------------------------------------------------------------
\* What an .FLM file must be for the parser: one code and one device segment,
\* one symbol table, whose strings hold each function's name once, under which
\* there is one symbol, and no other name that the parser takes for it.
Only(S, P(_)) == \E x \in S : P(x) /\ \A y \in S : P(y) => y = x
WellFormed(f) ==
  /\ f.elf
  /\ Only(DOMAIN f.phdrs, LAMBDA i : f.phdrs[i].type = "code")
  /\ Only(DOMAIN f.phdrs, LAMBDA i : f.phdrs[i].type = "device")
  /\ Only(DOMAIN f.shdrs, LAMBDA i : f.shdrs[i].type = "symtab")
  /\ \A i \in DOMAIN f.shdrs : f.shdrs[i].type = "symtab" =>
       /\ f.shdrs[i].link \in DOMAIN f.shdrs /\ f.shdrs[f.shdrs[i].link].type = "strtab"
       /\ LET strs == f.shdrs[f.shdrs[i].link].strs
              syms == f.shdrs[i].syms
          IN \A n \in Entry :
               \E s \in DOMAIN strs :
                 /\ strs[s] = StrFunNameTable[n]
                 /\ \A t \in DOMAIN strs : strs[t].len = strs[s].len /\ strs[t].head = strs[s].head => t = s
                 /\ Only(DOMAIN syms, LAMBDA y : syms[y].name = s)
                 /\ \A y \in DOMAIN syms : syms[y].name = s => syms[y].value = n

\* From a well-formed file that could be read, the parser takes the right
\* entries, the page size and the whole blob, whatever the order of segments,
\* sections, strings and symbols, and whatever else they hold.
ParsedRight ==
  flm.at = "end" /\ flm.good /\ WellFormed(flm.file) =>
    /\ flm.ret = 0 /\ parsed.blob
    /\ \A f \in Entry : parsed.entry[f] = f
    /\ \A i \in DOMAIN flm.file.phdrs :
         LET h == flm.file.phdrs[i]
         IN /\ h.type = "device" => parsed.program_buffer_size = h.page
            /\ h.type = "code" => parsed.algo_size = h.filesz + 32
=============================================================================
