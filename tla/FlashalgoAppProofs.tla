------------------------- MODULE FlashalgoAppProofs -------------------------
(***************************************************************************)
(* What FlashProgProofs and FlashDownloadProofs show of the download holds *)
(* of FlashalgoApp_Init as a whole, with whatever the parser makes of any  *)
(* .FLM file.                                                              *)
(***************************************************************************)
EXTENDS FlashalgoApp, FlashDownloadProofs, WellFoundedInduction

\* The state of the parser f.
Spot == {"ehdr", "phdr", "code", "device", "shdr", "link", "strtab", "sym", "layout", "end", "returned"}
Sym == [name : Int, value : Place]
FlmField == {"file", "at", "i", "s", "phdr", "shdr", "symtab", "sym", "page", "good", "misreads", "ret"}
Parser(f) ==
  /\ f = [x \in FlmField |-> f[x]]
  /\ f.file \in Files /\ f.at \in Spot /\ f.i \in Nat /\ f.phdr \in Phdr /\ f.shdr \in Shdr
  /\ f.symtab \in Shdr /\ f.sym \in Sym /\ f.page \in Nat

\* Its loop counters are inside what they count.
Inside(f) ==
  /\ f.at = "phdr" => f.i \in DOMAIN f.file.phdrs
  /\ f.at = "shdr" => f.i \in DOMAIN f.file.shdrs
  /\ f.at = "link" => f.symtab.link \in DOMAIN f.file.shdrs
  /\ f.at = "sym" => f.i \in DOMAIN f.symtab.syms
  \* A section header is one of the file, if it is a symbol table.
  /\ f.shdr.type = "symtab" => f.shdr.link \in DOMAIN f.file.shdrs

ParserInv == Parser(flm) /\ Inside(flm) /\ parsed \in Algo

-----------------------------------------------------------------------------
LEMMA FileFacts ==
  ASSUME NEW f \in Files
  PROVE  /\ f.phdrs \in Seq(Phdr) /\ f.shdrs \in Seq(Shdr)
         /\ \A i \in DOMAIN f.phdrs : f.phdrs[i] \in Phdr
         /\ \A i \in DOMAIN f.shdrs : f.shdrs[i] \in Shdr
         /\ \A i \in DOMAIN f.shdrs : f.shdrs[i].type = "symtab" => f.shdrs[i].link \in DOMAIN f.shdrs
BY FilesAssumption DEF ElfFile

LEMMA Places == \A p \in {"phdr", "shdr", "strtab", "sym"} : p \in Spot
BY DEF Spot

\* Writing one part of the parser's state.
LEMMA Goes ==
  ASSUME NEW f, Parser(f), NEW p \in Spot, NEW n \in Nat
  PROVE  /\ Parser(Goto(f, p, n)) /\ Goto(f, p, n).at = p /\ Goto(f, p, n).i = n /\ Goto(f, p, n).file = f.file
         /\ Goto(f, p, n).shdr = f.shdr /\ Goto(f, p, n).symtab = f.symtab
BY DEF Parser, Goto, FlmField

LEMMA Misses ==
  ASSUME NEW f, Parser(f)
  PROVE  /\ Parser(Misread(f)) /\ Misread(f).at = f.at /\ Misread(f).i = f.i /\ Misread(f).file = f.file
         /\ Misread(f).shdr = f.shdr /\ Misread(f).symtab = f.symtab
BY DEF Parser, Misread, FlmField

\* The section header in the buffer, as Inside asks it to be.
Held(f) == f.shdr.type = "symtab" => f.shdr.link \in DOMAIN f.file.shdrs

LEMMA AfterPhdrInv == ASSUME NEW f, Parser(f), Held(f) PROVE Parser(AfterPhdr(f)) /\ Inside(AfterPhdr(f))
<1>1. f.i \in Nat /\ f.file \in Files
  BY DEF Parser, FlmField, Spot
<1>2. f.file.phdrs \in Seq(Phdr) /\ f.file.shdrs \in Seq(Shdr)
  BY <1>1, FileFacts
<1>3. CASE f.i < Len(f.file.phdrs)
  <2>1. AfterPhdr(f) = Goto(f, "phdr", f.i + 1) /\ f.i + 1 \in Nat /\ f.i + 1 \in DOMAIN f.file.phdrs
    BY <1>1, <1>2, <1>3 DEF AfterPhdr
  <2> DEFINE n == f.i + 1
  <2>2. n \in Nat /\ "phdr" \in Spot
    BY <2>1, Places
  <2>3. AfterPhdr(f) = Goto(f, "phdr", n) /\ n \in DOMAIN f.file.phdrs
    BY <2>1
  <2> HIDE DEF n
  <2>4. /\ Parser(Goto(f, "phdr", n)) /\ Goto(f, "phdr", n).at = "phdr"
        /\ Goto(f, "phdr", n).i = n /\ Goto(f, "phdr", n).file = f.file
        /\ Goto(f, "phdr", n).shdr = f.shdr
    BY <2>2, Goes
  <2> QED
    BY <2>3, <2>4 DEF Inside, Held
<1>4. CASE ~(f.i < Len(f.file.phdrs)) /\ f.file.shdrs # <<>>
  <2>1. AfterPhdr(f) = Goto(f, "shdr", 1) /\ 1 \in DOMAIN f.file.shdrs
    BY <1>2, <1>4 DEF AfterPhdr
  <2> QED
    BY <2>1, Goes, Places DEF Inside, Held
<1>5. CASE ~(f.i < Len(f.file.phdrs)) /\ f.file.shdrs = <<>>
  <2>1. AfterPhdr(f) = Goto(f, "strtab", 1)
    BY <1>5 DEF AfterPhdr
  <2> QED
    BY <2>1, Goes, Places DEF Inside, Held
<1> QED
  BY <1>3, <1>4, <1>5

LEMMA AfterShdrInv == ASSUME NEW f, Parser(f), Held(f) PROVE Parser(AfterShdr(f)) /\ Inside(AfterShdr(f))
<1>1. f.i \in Nat /\ f.file \in Files
  BY DEF Parser, FlmField, Spot
<1>2. f.file.shdrs \in Seq(Shdr)
  BY <1>1, FileFacts
<1>3. CASE f.i < Len(f.file.shdrs)
  <2>1. AfterShdr(f) = Goto(f, "shdr", f.i + 1) /\ f.i + 1 \in Nat /\ f.i + 1 \in DOMAIN f.file.shdrs
    BY <1>1, <1>2, <1>3 DEF AfterShdr
  <2> DEFINE n == f.i + 1
  <2>2. n \in Nat /\ "shdr" \in Spot
    BY <2>1, Places
  <2>3. AfterShdr(f) = Goto(f, "shdr", n) /\ n \in DOMAIN f.file.shdrs
    BY <2>1
  <2> HIDE DEF n
  <2>4. /\ Parser(Goto(f, "shdr", n)) /\ Goto(f, "shdr", n).at = "shdr"
        /\ Goto(f, "shdr", n).i = n /\ Goto(f, "shdr", n).file = f.file
        /\ Goto(f, "shdr", n).shdr = f.shdr
    BY <2>2, Goes
  <2> QED
    BY <2>3, <2>4 DEF Inside, Held
<1>4. CASE ~(f.i < Len(f.file.shdrs))
  <2>1. AfterShdr(f) = Goto(f, "strtab", 1)
    BY <1>4 DEF AfterShdr
  <2> QED
    BY <2>1, Goes, Places DEF Inside, Held
<1> QED
  BY <1>3, <1>4

\* The string scan goes to a symbol, if there is one, or to the end.
LEMMA ScanInv == ASSUME NEW f, Parser(f), Held(f), NEW k PROVE Parser(Scan(f, k)) /\ Inside(Scan(f, k))
<1>1. CASE Hits(f, k) = {}
  <2> DEFINE g == [f EXCEPT !.at = "layout"]
  <2>1. Parser(g) /\ g.at = "layout" /\ g.file = f.file /\ g.shdr = f.shdr
    BY DEF Parser, FlmField, Spot
  <2>2. Scan(f, k) = g
    BY <1>1 DEF Scan
  <2> HIDE DEF g
  <2> QED
    BY <2>1, <2>2 DEF Inside, Held
<1>2. CASE Hits(f, k) # {}
  <2> DEFINE m == CHOOSE j \in Hits(f, k) : \A l \in Hits(f, k) : j <= l
             g == [f EXCEPT !.at = "sym", !.i = 1, !.s = m]
  <2>1. Scan(f, k) = g
    BY <1>2 DEF Scan
  <2>2. f.symtab.syms # <<>> /\ f.symtab.syms \in Seq(Symbol)
    BY <1>2 DEF Hits, Parser, Shdr
  <2>3. 1 \in DOMAIN f.symtab.syms
    BY <2>2
  <2> HIDE DEF m
  <2>4. Parser(g) /\ g.at = "sym" /\ g.i = 1 /\ g.file = f.file /\ g.shdr = f.shdr /\ g.symtab = f.symtab
    BY DEF Parser, FlmField, Spot
  <2> HIDE DEF g
  <2> QED
    BY <2>1, <2>3, <2>4 DEF Inside, Held
<1> QED
  BY <1>1, <1>2

-----------------------------------------------------------------------------
(* The reads.                                                              *)

LEMMA NowFacts ==
  ASSUME ParserInv
  PROVE  /\ Parser(flm) /\ Inside(flm) /\ Held(flm) /\ parsed \in Algo
         /\ flm.file \in Files /\ flm.i \in Nat /\ flm.phdr \in Phdr /\ flm.shdr \in Shdr /\ flm.symtab \in Shdr
         /\ flm.sym \in Sym /\ flm.page \in Nat
         /\ Parser(Misread(flm)) /\ Held(Misread(flm)) /\ Misread(flm).file = flm.file
         /\ Misread(flm).symtab = flm.symtab
<1>1. Parser(flm) /\ Inside(flm) /\ parsed \in Algo /\ Held(flm)
  BY DEF ParserInv, Inside, Held
<1>2. /\ Parser(Misread(flm)) /\ Misread(flm).file = flm.file /\ Misread(flm).shdr = flm.shdr
      /\ Misread(flm).symtab = flm.symtab
  BY <1>1, Misses
<1> QED
  BY <1>1, <1>2 DEF Parser, Held

LEMMA EhdrInv == ASSUME ParserInv, ReadEhdr PROVE ParserInv'
<1>0. Parser(flm) /\ Held(flm) /\ parsed' = parsed /\ parsed \in Algo
  BY NowFacts DEF ReadEhdr
<1>1. ASSUME NEW f \in {flm, Misread(flm)}, flm' = AfterPhdr(Goto(f, "phdr", 0)) PROVE ParserInv'
  <2> DEFINE g == Goto(f, "phdr", 0)
  <2>0. Parser(f) /\ Held(f)
    BY <1>0, <1>1, NowFacts
  <2>1. Parser(g) /\ Held(g)
    BY <2>0, Goes, Places DEF Held
  <2> HIDE DEF g
  <2> QED
    BY <1>0, <1>1, <2>1, AfterPhdrInv DEF ParserInv, g
<1>2. ASSUME NEW f \in {flm, Misread(flm)}, flm' = [f EXCEPT !.at = "end", !.ret = -1] PROVE ParserInv'
  <2>1. Parser(f) /\ Held(f)
    BY <1>0, <1>2, NowFacts
  <2> DEFINE g == [f EXCEPT !.at = "end", !.ret = -1]
  <2>2. Parser(g) /\ g.at = "end" /\ g.file = f.file /\ g.shdr = f.shdr
    BY <2>1 DEF Parser, FlmField, Spot
  <2>3. flm' = g
    BY <1>2
  <2> HIDE DEF g
  <2> QED
    BY <1>0, <2>1, <2>2, <2>3 DEF ParserInv, Inside, Held
<1> QED
  BY <1>1, <1>2 DEF ReadEhdr

LEMMA PhdrInv == ASSUME ParserInv, ReadPhdr PROVE ParserInv'
<1>0. parsed' = parsed /\ parsed \in Algo
  BY NowFacts DEF ReadPhdr
<1>1. ASSUME NEW f, Parser(f), Held(f), NEW h \in Phdr, flm' = WithPhdr(f, h) PROVE ParserInv'
  <2> DEFINE g == [f EXCEPT !.phdr = h]
             e == [g EXCEPT !.at = h.type]
  <2>1. Parser(g) /\ g.file = f.file /\ g.shdr = f.shdr
    BY <1>1 DEF Parser, FlmField, Spot
  <2>2. h.type \in {"code", "device", "other"} /\ (h.type # "other" => h.type \in {"code", "device"})
    BY DEF Phdr
  <2>3. flm' = IF h.type = "other" THEN AfterPhdr(g) ELSE e
    BY <1>1 DEF WithPhdr
  <2> HIDE DEF g
  <2>4. Held(g)
    BY <1>1, <2>1 DEF Held
  <2>5. CASE h.type = "other"
    BY <1>0, <2>1, <2>3, <2>4, <2>5, AfterPhdrInv DEF ParserInv
  <2>6. CASE h.type # "other"
    <3>1. Parser(e) /\ e.at = h.type /\ e.file = g.file /\ e.shdr = g.shdr
      BY <2>1, <2>2, <2>6 DEF Parser, FlmField, Spot
    <3> HIDE DEF e
    <3> QED
      BY <1>0, <2>2, <2>3, <2>4, <2>6, <3>1 DEF ParserInv, Inside, Held
  <2> QED
    BY <2>5, <2>6
<1>2. flm.file.phdrs[flm.i] \in Phdr
  BY NowFacts, FileFacts DEF Inside, ReadPhdr
<1> QED
  BY <1>1, <1>2, NowFacts DEF ReadPhdr

LEMMA BlobInv == ASSUME ParserInv, ReadBlob PROVE ParserInv'
<1>1. flm' \in {AfterPhdr(flm), AfterPhdr(Misread(flm))}
  BY DEF ReadBlob
<1>2. Parser(flm') /\ Inside(flm')
  BY <1>1, NowFacts, AfterPhdrInv
<1>3. parsed' \in Algo
  <2> DEFINE n == flm.phdr.filesz + 4 * ARM_IRQ_HALT_LEN
  <2>1. n \in Nat
    BY NowFacts DEF Phdr, ARM_IRQ_HALT_LEN
  <2>2. \E b \in BOOLEAN : parsed' = [parsed EXCEPT !.blob = b, !.algo_size = n]
    BY DEF ReadBlob
  <2> HIDE DEF n
  <2> QED
    BY <2>1, <2>2, NowFacts DEF Algo
<1> QED
  BY <1>2, <1>3 DEF ParserInv

LEMMA DeviceInv == ASSUME ParserInv, ReadDevice PROVE ParserInv'
<1>1. ASSUME NEW f, Parser(f), Held(f), NEW p \in Nat PROVE Parser([f EXCEPT !.page = p]) /\ Held([f EXCEPT !.page = p])
  BY <1>1 DEF Parser, Held
<1>2. flm.phdr.page \in Nat /\ Pages \subseteq Nat
  BY NowFacts, PagesAssumption DEF Phdr
<1> QED
  BY <1>1, <1>2, NowFacts, AfterPhdrInv DEF ReadDevice, ParserInv

LEMMA ShdrInv == ASSUME ParserInv, ReadShdr PROVE ParserInv'
<1>0. parsed' = parsed /\ parsed \in Algo
  BY NowFacts DEF ReadShdr
<1>1. ASSUME NEW f, Parser(f), NEW h \in Shdr, h.type = "symtab" => h.link \in DOMAIN f.file.shdrs,
             flm' = WithShdr(f, h)
      PROVE  ParserInv'
  <2> DEFINE g == [f EXCEPT !.shdr = h]
             e == [g EXCEPT !.symtab = h, !.at = "link"]
  <2>1. Parser(g) /\ g.file = f.file /\ g.shdr = h
    BY <1>1 DEF Parser, FlmField, Spot
  <2>2. flm' = IF h.type = "symtab" THEN e ELSE AfterShdr(g)
    BY <1>1 DEF WithShdr
  <2> HIDE DEF g
  <2>3. Held(g)
    BY <1>1, <2>1 DEF Held
  <2>4. CASE h.type # "symtab"
    BY <1>0, <2>1, <2>2, <2>3, <2>4, AfterShdrInv DEF ParserInv
  <2>5. CASE h.type = "symtab"
    <3>1. Parser(e) /\ e.at = "link" /\ e.file = g.file /\ e.shdr = g.shdr /\ e.symtab = h
      BY <2>1 DEF Parser, FlmField, Spot
    <3> HIDE DEF e
    <3> QED
      BY <1>0, <1>1, <2>1, <2>2, <2>3, <2>5, <3>1 DEF ParserInv, Inside, Held
  <2> QED
    BY <2>4, <2>5
<1>2. /\ flm.file.shdrs[flm.i] \in Shdr
      /\ flm.file.shdrs[flm.i].type = "symtab" => flm.file.shdrs[flm.i].link \in DOMAIN flm.file.shdrs
  BY NowFacts, FileFacts DEF Inside, ReadShdr
<1> QED
  BY <1>1, <1>2, NowFacts DEF ReadShdr, Held

LEMMA LinkInv == ASSUME ParserInv, ReadLink PROVE ParserInv'
<1>0. parsed' = parsed /\ parsed \in Algo
  BY NowFacts DEF ReadLink
<1>1. ASSUME NEW f, Parser(f), NEW h \in Shdr, h.type = "symtab" => h.link \in DOMAIN f.file.shdrs,
             flm' = WithLink(f, h)
      PROVE  ParserInv'
  <2> DEFINE g == [f EXCEPT !.shdr = h]
  <2>1. Parser(g) /\ g.file = f.file /\ g.shdr = h
    BY <1>1 DEF Parser, FlmField, Spot
  <2>2. flm' = IF h.type = "strtab" THEN Goto(g, "strtab", 1) ELSE AfterShdr(g)
    BY <1>1 DEF WithLink
  <2> HIDE DEF g
  <2>3. Held(g)
    BY <1>1, <2>1 DEF Held
  <2>4. CASE h.type # "strtab"
    BY <1>0, <2>1, <2>2, <2>3, <2>4, AfterShdrInv DEF ParserInv
  <2>5. CASE h.type = "strtab"
    BY <1>0, <2>1, <2>2, <2>3, <2>5, Goes, Places DEF ParserInv, Inside, Held
  <2> QED
    BY <2>4, <2>5
<1>2. /\ flm.file.shdrs[flm.symtab.link] \in Shdr
      /\ flm.file.shdrs[flm.symtab.link].type = "symtab" =>
           flm.file.shdrs[flm.symtab.link].link \in DOMAIN flm.file.shdrs
  BY NowFacts, FileFacts DEF Inside, ReadLink
<1> QED
  BY <1>1, <1>2, NowFacts DEF ReadLink, Held

LEMMA StringsInv == ASSUME ParserInv, ReadStrings PROVE ParserInv'
<1>0. parsed' = parsed /\ parsed \in Algo
  BY NowFacts DEF ReadStrings
<1>1. CASE flm' = Scan(flm, 1)
  BY <1>0, <1>1, NowFacts, ScanInv DEF ParserInv
<1>2. CASE flm' = [Misread(flm) EXCEPT !.at = "layout"]
  <2> DEFINE f == Misread(flm)
             g == [f EXCEPT !.at = "layout"]
  <2>1. Parser(f) /\ Held(f) /\ flm' = g
    BY <1>2, NowFacts
  <2> HIDE DEF f
  <2>2. Parser(g) /\ g.at = "layout" /\ g.file = f.file /\ g.shdr = f.shdr
    BY <2>1 DEF Parser, FlmField, Spot
  <2> HIDE DEF g
  <2> QED
    BY <1>0, <2>1, <2>2 DEF ParserInv, Inside, Held
<1> QED
  BY <1>1, <1>2 DEF ReadStrings

LEMMA SymInv == ASSUME ParserInv, ReadSym PROVE ParserInv'
<1>1. ASSUME NEW f, Parser(f), Held(f), NEW y \in Sym, f.symtab = flm.symtab, flm' = WithSym(f, y)
      PROVE  Parser(flm') /\ Inside(flm')
  <2> DEFINE g == [f EXCEPT !.sym = y]
  <2>1. Parser(g) /\ g.file = f.file /\ g.shdr = f.shdr /\ g.symtab = f.symtab
    BY <1>1 DEF Parser, FlmField, Spot
  <2>2. flm' = IF f.i < Len(f.symtab.syms) THEN Goto(g, "sym", f.i + 1) ELSE Scan(g, f.s + 1)
    BY <1>1 DEF WithSym
  <2> HIDE DEF g
  <2>3. Held(g)
    BY <1>1, <2>1 DEF Held
  <2>4. CASE f.i < Len(f.symtab.syms)
    <3>1. f.i \in Nat /\ f.symtab.syms \in Seq(Symbol)
      BY <1>1 DEF Parser, Shdr
    <3>2. f.i + 1 \in DOMAIN f.symtab.syms /\ f.i + 1 \in Nat
      BY <2>4, <3>1
    <3> DEFINE n == f.i + 1
    <3>3. flm' = Goto(g, "sym", n) /\ n \in DOMAIN g.symtab.syms /\ n \in Nat /\ "sym" \in Spot
      BY <2>1, <2>2, <2>4, <3>2, Places
    <3> HIDE DEF n
    <3>4. /\ Parser(Goto(g, "sym", n)) /\ Goto(g, "sym", n).at = "sym" /\ Goto(g, "sym", n).i = n
          /\ Goto(g, "sym", n).file = g.file /\ Goto(g, "sym", n).shdr = g.shdr
          /\ Goto(g, "sym", n).symtab = g.symtab
      BY <2>1, <3>3, Goes
    <3> QED
      BY <2>3, <3>3, <3>4 DEF Inside, Held
  <2>5. CASE ~(f.i < Len(f.symtab.syms))
    BY <2>1, <2>2, <2>3, <2>5, ScanInv
  <2> QED
    BY <2>4, <2>5
<1>2. flm.symtab.syms[flm.i] \in Sym
  <2>1. flm.symtab.syms \in Seq(Symbol) /\ flm.i \in DOMAIN flm.symtab.syms
    BY NowFacts DEF Inside, ReadSym, Shdr
  <2>2. flm.symtab.syms[flm.i] \in Symbol
    BY <2>1
  <2> QED
    BY <2>2 DEF Symbol, Sym
<1>3. \A y \in Sym : Entered(y) \in Algo
  <2> SUFFICES ASSUME NEW y \in Sym PROVE Entered(y) \in Algo
    OBVIOUS
  <2> DEFINE e == Field(flm.shdr.strs[flm.s])
             w == [parsed.entry EXCEPT ![e] = y.value]
  <2>1. parsed \in Algo /\ parsed.entry \in [Function -> Code] /\ y.value \in Code
    BY NowFacts DEF Algo, Sym, Place, Entry, Code, Function
  <2>2. w \in [Function -> Code]
    BY <2>1
  <2>3. Entered(y) = IF y.name = flm.s THEN [parsed EXCEPT !.entry = w] ELSE parsed
    BY DEF Entered
  <2> HIDE DEF w
  <2> QED
    BY <2>1, <2>2, <2>3 DEF Algo
<1> QED
  BY <1>1, <1>2, <1>3, NowFacts DEF ReadSym, ParserInv

LEMMA LayoutInv == ASSUME ParserInv, Layout PROVE ParserInv'
<1> DEFINE g == [flm EXCEPT !.at = "end"]
<1>1. Parser(g) /\ g.at = "end" /\ g.file = flm.file /\ g.shdr = flm.shdr
  BY NowFacts DEF Parser, FlmField, Spot
<1>2. flm' = g
  BY DEF Layout
<1>3. parsed' \in Algo
  BY NowFacts DEF Layout, Algo
<1> HIDE DEF g
<1> QED
  BY <1>1, <1>2, <1>3, NowFacts DEF ParserInv, Inside, Held

-----------------------------------------------------------------------------
(* The whole.                                                              *)

LEMMA FlmInitInv == ASSUME FlmInit PROVE ParserInv
<1>1. flm.file \in Files /\ flm.at = "ehdr" /\ flm.i = 1 /\ flm.phdr = NoPhdr /\ flm.shdr = NoShdr
      /\ flm.symtab = NoShdr /\ flm.sym = NoSym /\ flm.page \in Pages /\ flm = [x \in FlmField |-> flm[x]]
  <2> DEFINE a == {NoPhdr}
             b == {NoShdr}
             c == {NoSym}
  <2>1. flm \in [file : Files, at : {"ehdr"}, i : {1}, s : {1}, phdr : a, shdr : b,
                 symtab : b, sym : c, page : Pages, good : {TRUE}, misreads : {0}, ret : {0}]
    BY DEF FlmInit
  <2> HIDE DEF a, b, c
  <2>2. /\ flm.file \in Files /\ flm.at = "ehdr" /\ flm.i = 1 /\ flm.phdr \in a /\ flm.shdr \in b
        /\ flm.symtab \in b /\ flm.sym \in c /\ flm.page \in Pages
    BY <2>1
  <2>3. flm = [x \in FlmField |-> flm[x]]
    BY <2>1 DEF FlmField
  <2> QED
    BY <2>2, <2>3 DEF a, b, c
<1>2. NoPhdr \in Phdr /\ NoShdr \in Shdr /\ NoSym \in Sym /\ NoShdr.type = "other"
  BY DEF NoPhdr, Phdr, NoShdr, Shdr, NoSym, Sym, Place
<1>3. Parser(flm)
  BY <1>1, <1>2, PagesAssumption DEF Parser, Spot
<1>4. NoTarget \in Algo
  BY DEF NoTarget, Algo, Function, Entry, Code
<1> QED
  BY <1>1, <1>2, <1>3, <1>4 DEF ParserInv, Inside, FlmInit

LEMMA FlmInv == ASSUME ParserInv, FlmNext PROVE ParserInv'
BY EhdrInv, PhdrInv, BlobInv, DeviceInv, ShdrInv, LinkInv, StringsInv, SymInv, LayoutInv DEF FlmNext

LEMMA ReturnInvs == ASSUME ParserInv, flashalgo_test PROVE ParserInv'
<1> DEFINE h == CHOOSE f \in Files : TRUE
           g == [flm EXCEPT !.file = h, !.at = "returned", !.i = 1, !.s = 1,
                            !.phdr = NoPhdr, !.shdr = NoShdr, !.symtab = NoShdr, !.sym = NoSym,
                            !.page = 0, !.good = TRUE, !.misreads = 0, !.ret = 0]
<1>1. h \in Files
  BY NowFacts
<1>2. flm' = g /\ parsed' = NoTarget
  BY DEF flashalgo_test, Forget
<1>3. NoPhdr \in Phdr /\ NoShdr \in Shdr /\ NoSym \in Sym /\ NoShdr.type = "other"
  BY DEF NoPhdr, Phdr, NoShdr, Shdr, NoSym, Sym, Place
<1>4. NoTarget \in Algo
  BY DEF NoTarget, Algo, Function, Entry, Code
<1> HIDE DEF h
<1>5. /\ g.file = h /\ g.at = "returned" /\ g.i = 1 /\ g.phdr = NoPhdr /\ g.shdr = NoShdr /\ g.symtab = NoShdr
      /\ g.sym = NoSym /\ g.page = 0 /\ g = [x \in FlmField |-> g[x]]
  BY NowFacts DEF Parser, FlmField
<1> HIDE DEF g
<1>6. Parser(g)
  BY <1>1, <1>3, <1>5 DEF Parser, Spot
<1> QED
  BY <1>2, <1>3, <1>4, <1>5, <1>6 DEF ParserInv, Inside

LEMMA AppStep == ASSUME ParserInv, [AppNext]_avars PROVE ParserInv' /\ Step
<1>1. CASE Parsing
  BY <1>1, FlmInv DEF Parsing, Step
<1>2. CASE flashalgo_test
  BY <1>2, ReturnInvs DEF flashalgo_test, Step, ParserInv
<1>3. CASE FLASH_SWD \/ Target \/ (Stopped /\ UNCHANGED <<flm, parsed>>) \/ UNCHANGED avars
  <2>1. Step /\ UNCHANGED <<flm, parsed>>
    BY <1>3 DEF FLASH_SWD, Target, Stopped, Step, avars
  <2> QED
    BY <2>1 DEF ParserInv, Parser, Inside
<1> QED
  BY <1>1, <1>2, <1>3 DEF AppNext

\* FlashalgoApp_Init (FlashalgoApp.c:98) as a whole: whatever .FLM file the
\* parser reads, well-formed or not, and whatever reads and accesses fail, the
\* download keeps its type and the target only ever runs whole calls of a
\* sound algorithm, and success means that the file is in the flash.
THEOREM AppCorrect == AppSpec => [](TypeOK /\ Programmed /\ Bounded /\ RightCall)
<1>1. AppInit => IInv /\ ParserInv
  BY InitInv, FlmInitInv DEF AppInit
<1>2. IInv /\ ParserInv /\ [AppNext]_avars => IInv' /\ ParserInv'
  BY AppStep, Inductive
<1>3. IInv => TypeOK /\ Programmed /\ Bounded /\ RightCall
  BY Results DEF IInv
<1> QED
  BY <1>1, <1>2, <1>3, PTL DEF AppSpec

\* FlashalgoApp_Init writes the RAM of the target only while its core is
\* halted, whatever the parser made of the file.
THEOREM AppQuiet == AppSpec => QuietRam
<1>1. AppInit => IInv /\ ParserInv
  BY InitInv, FlmInitInv DEF AppInit
<1>2. IInv /\ ParserInv /\ [AppNext]_avars => IInv' /\ ParserInv'
  BY AppStep, Inductive
<1>3. IInv /\ ParserInv /\ [AppNext]_avars =>
        [target'.algo # target.algo \/ target'.buffer # target.buffer => target.core = "halted"]_vars
  BY AppStep, QuietStep
<1> QED
  BY <1>1, <1>2, <1>3, PTL DEF AppSpec, QuietRam

\* FlashalgoApp_Init does what Download promises, with whatever algorithm the
\* parser left in flash_algo.
THEOREM AppImplements == AppSpec => ImplementsDownload
<1>1. AppInit => JInv /\ ParserInv /\ D!Init
  BY OrderInit, FlmInitInv, InitRefines DEF AppInit
<1>2. JInv /\ ParserInv /\ [AppNext]_avars => JInv' /\ ParserInv'
  BY AppStep, OrderStep
<1>3. JInv /\ ParserInv /\ [AppNext]_avars => [D!Next]_(D!dvars)
  BY AppStep, StepRefines
<1> QED
  BY <1>1, <1>2, <1>3, PTL DEF AppSpec, ImplementsDownload, D!Spec

-----------------------------------------------------------------------------
(* What the parser takes from a well-formed file.                          *)

\* The headers before number n have been looked at.
Looked(f, p, n) ==
  \A j \in DOMAIN f.file.phdrs : j < n =>
    LET h == f.file.phdrs[j]
    IN /\ h.type = "code" => p.blob /\ p.algo_size = h.filesz + 32
       /\ h.type = "device" => f.page = h.page
Segments(f, p) == \A n \in DOMAIN f.file.phdrs : Looked(f, p, n + 1)

\* The symbol table of the file is in the buffers, with its strings.
Table(f) ==
  \E y \in DOMAIN f.file.shdrs :
    /\ f.file.shdrs[y].type = "symtab" /\ f.symtab = f.file.shdrs[y]
    /\ f.shdr = f.file.shdrs[f.symtab.link]

\* The functions whose string and symbol come before string s and symbol i have
\* been entered.
Upto(f, p, s, i) ==
  \A n \in Entry, t \in DOMAIN f.shdr.strs, y \in DOMAIN f.symtab.syms :
    /\ f.shdr.strs[t] = StrFunNameTable[n] /\ f.symtab.syms[y].name = t
    /\ t < s \/ (t = s /\ y < i)
    => p.entry[n] = n

RightAt(f, p) ==
  /\ f.ret = 0
  /\ f.at \in {"phdr", "code", "device"} => Looked(f, p, f.i)
  /\ f.at \in {"code", "device"} =>
       f.i \in DOMAIN f.file.phdrs /\ f.phdr = f.file.phdrs[f.i] /\ f.phdr.type = f.at
  /\ f.at \in {"shdr", "link", "strtab", "sym", "layout"} => Segments(f, p)
  /\ f.at = "shdr" => \A j \in DOMAIN f.file.shdrs : j < f.i => f.file.shdrs[j].type # "symtab"
  /\ f.at = "link" =>
       \E y \in DOMAIN f.file.shdrs : f.file.shdrs[y].type = "symtab" /\ f.symtab = f.file.shdrs[y]
  /\ f.at \in {"strtab", "sym", "layout"} => Table(f)
  /\ f.at = "sym" => f.s \in DOMAIN f.shdr.strs /\ Fits(f.shdr.strs[f.s]) # {} /\ Upto(f, p, f.s, f.i)
  /\ f.at = "layout" => Upto(f, p, Len(f.shdr.strs) + 1, 1)
  /\ f.at = "end" =>
       /\ Segments(f, p) /\ f.page = p.program_buffer_size
       /\ Table(f) /\ Upto(f, p, Len(f.shdr.strs) + 1, 1)

\* While every read has been good and the file is well-formed.
Right(f, p) == f.good /\ WellFormed(f.file) /\ f.at # "returned" => RightAt(f, p)

\* Every nonempty set of natural numbers has a least element.
LEMMA Least == ASSUME NEW S, S \subseteq Nat, S # {} PROVE \E m \in S : \A k \in S : m <= k
<1> DEFINE R == OpToRel(<, Nat)
<1>1. IsWellFoundedOn(R, Nat)
  BY NatLessThanWellFounded
<1>2. \A k, m \in Nat : k < m => <<k, m>> \in R
  BY DEF OpToRel
<1> HIDE DEF R
<1>3. PICK m \in S : \A k \in S : ~ (<<k, m>> \in R)
  BY <1>1, WFMin
<1>4. \A k \in S : ~(k < m)
  BY <1>2, <1>3
<1> QED
  BY <1>3, <1>4

\* Each function has one string and one symbol.
Named(strs, syms) ==
  \A n \in Entry :
    \E s \in DOMAIN strs :
      /\ strs[s] = StrFunNameTable[n]
      /\ \A t \in DOMAIN strs : strs[t].len = strs[s].len /\ strs[t].head = strs[s].head => t = s
      /\ \E u \in DOMAIN syms : syms[u].name = s
      /\ \A u \in DOMAIN syms : syms[u].name = s => syms[u].value = n

\* What a well-formed file is.
LEMMA FormedFacts ==
  ASSUME NEW f \in Files, WellFormed(f)
  PROVE  /\ f.elf /\ f.phdrs # <<>>
         /\ \A i, j \in DOMAIN f.phdrs :
              f.phdrs[i].type = f.phdrs[j].type /\ f.phdrs[i].type \in {"code", "device"} => i = j
         /\ \E i \in DOMAIN f.phdrs : f.phdrs[i].type = "code"
         /\ \E y \in DOMAIN f.shdrs : f.shdrs[y].type = "symtab"
         /\ \A y \in DOMAIN f.shdrs : f.shdrs[y].type = "symtab" =>
              /\ f.shdrs[y].link \in DOMAIN f.shdrs /\ f.shdrs[f.shdrs[y].link].type = "strtab"
              /\ Named(f.shdrs[f.shdrs[y].link].strs, f.shdrs[y].syms)
<1>1. \E i \in DOMAIN f.phdrs : f.phdrs[i].type = "code" /\ \A j \in DOMAIN f.phdrs : f.phdrs[j].type = "code" => j = i
  BY DEF WellFormed, Only
<1>2. \E i \in DOMAIN f.phdrs : f.phdrs[i].type = "device" /\ \A j \in DOMAIN f.phdrs : f.phdrs[j].type = "device" => j = i
  BY DEF WellFormed, Only
<1>3. \E i \in DOMAIN f.shdrs : f.shdrs[i].type = "symtab"
  BY DEF WellFormed, Only
<1>4. f.elf
  BY DEF WellFormed
<1>5. ASSUME NEW y \in DOMAIN f.shdrs, f.shdrs[y].type = "symtab"
      PROVE  /\ f.shdrs[y].link \in DOMAIN f.shdrs /\ f.shdrs[f.shdrs[y].link].type = "strtab"
             /\ Named(f.shdrs[f.shdrs[y].link].strs, f.shdrs[y].syms)
  <2> DEFINE strs == f.shdrs[f.shdrs[y].link].strs
             syms == f.shdrs[y].syms
  <2>1. /\ f.shdrs[y].link \in DOMAIN f.shdrs /\ f.shdrs[f.shdrs[y].link].type = "strtab"
        /\ \A n \in Entry :
             \E s \in DOMAIN strs :
               /\ strs[s] = StrFunNameTable[n]
               /\ \A t \in DOMAIN strs : strs[t].len = strs[s].len /\ strs[t].head = strs[s].head => t = s
               /\ Only(DOMAIN syms, LAMBDA u : syms[u].name = s)
               /\ \A u \in DOMAIN syms : syms[u].name = s => syms[u].value = n
    BY <1>5 DEF WellFormed
  <2> HIDE DEF strs, syms
  <2>2. Named(strs, syms)
    BY <2>1 DEF Named, Only
  <2> QED
    BY <2>1, <2>2 DEF strs, syms
<1>6. f.phdrs # <<>>
  BY <1>1
<1>7. ASSUME NEW i \in DOMAIN f.phdrs, NEW j \in DOMAIN f.phdrs,
             f.phdrs[i].type = f.phdrs[j].type, f.phdrs[i].type \in {"code", "device"}
      PROVE  i = j
  BY <1>1, <1>2, <1>7
<1> QED
  BY <1>1, <1>3, <1>4, <1>5, <1>6, <1>7

\* The table of names has none twice, by length and head.
LEMMA NamesApart ==
  \A n, m \in Entry : SameName(StrFunNameTable[n], StrFunNameTable[m]) => n = m
<1>1. /\ StrFunNameTable.init.len = 4 /\ StrFunNameTable.uninit.len = 6 /\ StrFunNameTable.erase_chip.len = 9
      /\ StrFunNameTable.erase_sector.len = 11 /\ StrFunNameTable.program_page.len = 11
      /\ StrFunNameTable.erase_sector.head = "Eras" /\ StrFunNameTable.program_page.head = "Prog"
  BY DEF StrFunNameTable, N
<1>2. \A n, m \in Entry : /\ StrFunNameTable[n].len = StrFunNameTable[m].len
                          /\ StrFunNameTable[n].head = StrFunNameTable[m].head
                          => n = m
  BY <1>1 DEF Entry
<1> QED
  BY <1>2 DEF SameName

LEMMA Keeps ==
  ASSUME NEW f, Parser(f), NEW p, NEW n
  PROVE  LET g == Goto(f, p, n)
         IN /\ g.at = p /\ g.i = n /\ g.file = f.file /\ g.shdr = f.shdr /\ g.symtab = f.symtab
            /\ g.page = f.page /\ g.good = f.good /\ g.ret = f.ret /\ g.s = f.s
BY DEF Parser, FlmField, Goto

LEMMA Missed == ASSUME NEW f, Parser(f) PROVE Misread(f).good = FALSE /\ Misread(f).file = f.file
BY DEF Parser, FlmField, Misread

\* The file and the verdict on the reads do not change on the way.
LEMMA Carries ==
  ASSUME NEW f, Parser(f)
  PROVE  /\ AfterPhdr(f).file = f.file /\ AfterPhdr(f).good = f.good
         /\ AfterShdr(f).file = f.file /\ AfterShdr(f).good = f.good
         /\ \A k : Scan(f, k).file = f.file /\ Scan(f, k).good = f.good
<1>1. \A k : Scan(f, k).file = f.file /\ Scan(f, k).good = f.good
  BY DEF Scan, Parser, FlmField
<1>2. \A p, n : Goto(f, p, n).file = f.file /\ Goto(f, p, n).good = f.good
  BY DEF Goto, Parser, FlmField
<1> QED
  BY <1>1, <1>2 DEF AfterPhdr, AfterShdr

\* What the invariant says depends on some fields only.
LEMMA SegmentsSame ==
  ASSUME NEW f, NEW g, NEW p, NEW q, g.file = f.file, g.page = f.page,
         q.blob = p.blob, q.algo_size = p.algo_size, Segments(f, p)
  PROVE  Segments(g, q)
BY DEF Segments, Looked

LEMMA TableSame ==
  ASSUME NEW f, NEW g, g.file = f.file, g.symtab = f.symtab, g.shdr = f.shdr, Table(f) PROVE Table(g)
BY DEF Table

LEMMA UptoSame ==
  ASSUME NEW f, NEW g, NEW p, NEW q, g.symtab = f.symtab, g.shdr = f.shdr, q.entry = p.entry,
         NEW s, NEW i, Upto(f, p, s, i)
  PROVE  Upto(g, q, s, i)
BY DEF Upto

\* The next program header, or the sections.
LEMMA AfterPhdrRight ==
  ASSUME NEW f, Parser(f), NEW p, WellFormed(f.file), f.ret = 0, Looked(f, p, f.i + 1)
  PROVE  RightAt(AfterPhdr(f), p)
<1>1. f.i \in Nat /\ f.file \in Files
  BY DEF Parser, FlmField, Spot
<1>2. f.file.phdrs \in Seq(Phdr) /\ f.file.shdrs \in Seq(Shdr)
  BY <1>1, FileFacts
<1>3. CASE f.i < Len(f.file.phdrs)
  <2> DEFINE n == f.i + 1
             g == Goto(f, "phdr", n)
  <2>1. g.at = "phdr" /\ g.i = n /\ g.file = f.file /\ g.page = f.page /\ g.ret = 0
    BY Keeps
  <2>2. AfterPhdr(f) = g
    BY <1>3 DEF AfterPhdr
  <2> HIDE DEF g
  <2>3. Looked(g, p, g.i)
    BY <2>1 DEF Looked
  <2> QED
    BY <2>1, <2>2, <2>3 DEF RightAt
<1>4. CASE ~(f.i < Len(f.file.phdrs))
  <2> DEFINE g == Goto(f, "shdr", 1)
  <2>1. g.at = "shdr" /\ g.i = 1 /\ g.file = f.file /\ g.page = f.page /\ g.ret = 0
    BY Keeps
  <2>2. f.file.shdrs # <<>>
    BY <1>1, FormedFacts
  <2>3. AfterPhdr(f) = g
    BY <1>4, <2>2 DEF AfterPhdr
  <2> HIDE DEF g
  <2>4. \A n \in Nat, j \in DOMAIN f.file.phdrs : j < f.i + 1
    BY <1>1, <1>2, <1>4
  <2>5. \A n \in DOMAIN f.file.phdrs : Looked(g, p, n + 1)
    BY <2>1, <2>4 DEF Looked
  <2>6. \A j \in DOMAIN g.file.shdrs : ~(j < 1)
    BY <1>2, <2>1
  <2> QED
    BY <2>1, <2>3, <2>5, <2>6 DEF RightAt, Segments
<1> QED
  BY <1>3, <1>4


\* The steps of a parser whose reads have all been good.  A misread shows.
LEMMA EhdrRight ==
  ASSUME ParserInv, ReadEhdr, flm.good => RightAt(flm, parsed), WellFormed(flm.file), flm'.good
  PROVE  RightAt(flm', parsed')
<1>1. Parser(flm) /\ flm.file \in Files /\ flm.at = "ehdr" /\ parsed' = parsed
  BY NowFacts DEF ReadEhdr
<1> DEFINE f == Goto(flm, "phdr", 0)
<1>2. Parser(f) /\ f.file = flm.file /\ f.good = flm.good /\ f.ret = flm.ret /\ f.i = 0
  BY <1>1, Goes, Keeps, Places
<1>3. flm' = AfterPhdr(f)
  <2>1. flm.file.elf
    BY <1>1, FormedFacts
  <2>2. flm' # [Misread(flm) EXCEPT !.at = "end", !.ret = -1]
    BY <1>1 DEF Misread, Parser, FlmField
  <2>3. flm' # AfterPhdr(Goto(Misread(flm), "phdr", 0))
    <3> DEFINE m == Misread(flm)
    <3>1. Parser(m) /\ m.good = FALSE
      BY <1>1, Misses, Missed
    <3> HIDE DEF m
    <3>2. Parser(Goto(m, "phdr", 0)) /\ Goto(m, "phdr", 0).good = FALSE
      BY <3>1, Goes, Keeps, Places
    <3>3. AfterPhdr(Goto(m, "phdr", 0)).good = FALSE
      BY <3>2, Carries
    <3> QED
      BY <3>3 DEF m
  <2> QED
    BY <2>1, <2>2, <2>3 DEF ReadEhdr
<1> HIDE DEF f
<1>4. flm.good /\ flm'.file = flm.file
  BY <1>2, <1>3, Carries
<1>5. f.ret = 0
  BY <1>2, <1>4 DEF RightAt
<1>6. \A j \in DOMAIN f.file.phdrs : ~(j < f.i + 1)
  BY <1>1, <1>2, FileFacts
<1>7. Looked(f, parsed, f.i + 1)
  BY <1>6 DEF Looked
<1> QED
  BY <1>1, <1>2, <1>3, <1>4, <1>5, <1>7, AfterPhdrRight

LEMMA PhdrRight ==
  ASSUME ParserInv, ReadPhdr, flm.good => RightAt(flm, parsed), WellFormed(flm.file), flm'.good
  PROVE  RightAt(flm', parsed')
<1> DEFINE h == flm.file.phdrs[flm.i]
           g == [flm EXCEPT !.phdr = h]
           e == [g EXCEPT !.at = h.type]
<1>1. Parser(flm) /\ flm.file \in Files /\ flm.at = "phdr" /\ parsed' = parsed /\ flm.i \in DOMAIN flm.file.phdrs
      /\ flm.i \in Nat
  BY NowFacts DEF ReadPhdr, Inside
<1>2. h \in Phdr
  BY <1>1, FileFacts
<1>3. flm' = WithPhdr(flm, h)
  <2>1. ASSUME flm' = WithPhdr(Misread(flm), flm.phdr) PROVE FALSE
    <3> DEFINE f == Misread(flm)
               x == [f EXCEPT !.phdr = flm.phdr]
               y == [x EXCEPT !.at = flm.phdr.type]
    <3>1. Parser(f) /\ f.good = FALSE /\ flm.phdr \in Phdr
      BY NowFacts, Missed
    <3> HIDE DEF f
    <3>2. Parser(x) /\ x.good = FALSE /\ y.good = FALSE
      BY <3>1 DEF Parser, FlmField
    <3>3. flm' \in {AfterPhdr(x), y}
      BY <2>1 DEF WithPhdr, f
    <3> HIDE DEF x, y
    <3> QED
      BY <3>2, <3>3, Carries
  <2> QED
    BY <2>1 DEF ReadPhdr
<1> HIDE DEF h
<1>4. flm' = IF h.type = "other" THEN AfterPhdr(g) ELSE e
  BY <1>3 DEF WithPhdr
<1>5. Parser(g) /\ g.phdr = h /\ g.i = flm.i /\ g.file = flm.file /\ g.page = flm.page /\ g.ret = flm.ret
      /\ g.good = flm.good
  BY <1>1, <1>2 DEF Parser, FlmField
<1> HIDE DEF g
<1>6. e.at = h.type /\ e.phdr = h /\ e.i = flm.i /\ e.file = flm.file /\ e.page = flm.page /\ e.ret = flm.ret
      /\ e.good = flm.good
  BY <1>5 DEF Parser, FlmField
<1> HIDE DEF e
<1>7. flm.good /\ flm'.file = flm.file
  BY <1>4, <1>5, <1>6, Carries
<1>8. Looked(flm, parsed, flm.i) /\ flm.ret = 0
  BY <1>1, <1>7 DEF RightAt
<1>9. CASE h.type = "other"
  <2>1. \A j \in DOMAIN flm.file.phdrs : j < flm.i + 1 => j < flm.i \/ j = flm.i
    BY <1>1, FileFacts
  <2>2. Looked(g, parsed, g.i + 1)
    BY <1>5, <1>8, <1>9, <2>1 DEF Looked, h
  <2> QED
    BY <1>1, <1>4, <1>5, <1>7, <1>8, <1>9, <2>2, AfterPhdrRight
<1>10. CASE h.type # "other"
  <2>1. h.type \in {"code", "device"}
    BY <1>2, <1>10 DEF Phdr
  <2>2. Looked(e, parsed, e.i)
    BY <1>6, <1>8 DEF Looked
  <2> QED
    BY <1>1, <1>4, <1>6, <1>7, <1>8, <1>10, <2>1, <2>2 DEF RightAt, h
<1> QED
  BY <1>9, <1>10

\* The headers up to and with number i, once its segment has been read.
LEMMA SegmentRead ==
  ASSUME NEW f, Parser(f), NEW p, NEW g, NEW q, WellFormed(f.file), Looked(f, p, f.i),
         f.i \in DOMAIN f.file.phdrs, f.phdr = f.file.phdrs[f.i], f.phdr.type \in {"code", "device"},
         g.file = f.file, g.i = f.i,
         f.phdr.type = "code" => q.blob /\ q.algo_size = f.phdr.filesz + 32 /\ g.page = f.page,
         f.phdr.type = "device" => q = p /\ g.page = f.phdr.page
  PROVE  Looked(g, q, g.i + 1)
<1>1. f.file \in Files /\ f.file.phdrs \in Seq(Phdr)
  BY FileFacts DEF Parser, FlmField
<1>2. \A j \in DOMAIN f.file.phdrs : j < f.i + 1 => j < f.i \/ j = f.i
  BY <1>1
<1>3. \A j \in DOMAIN f.file.phdrs : f.file.phdrs[j].type = f.phdr.type => j = f.i
  BY <1>1, FormedFacts
<1> QED
  BY <1>2, <1>3 DEF Looked

LEMMA BlobRight ==
  ASSUME ParserInv, ReadBlob, flm.good => RightAt(flm, parsed), WellFormed(flm.file), flm'.good
  PROVE  RightAt(flm', parsed')
<1>1. Parser(flm) /\ flm.at = "code" /\ parsed \in Algo /\ Parser(Misread(flm)) /\ flm.phdr \in Phdr
  BY NowFacts DEF ReadBlob
<1>2. flm' # AfterPhdr(Misread(flm))
  BY <1>1, Missed, Carries
<1>3. flm' = AfterPhdr(flm)
      /\ parsed' = [parsed EXCEPT !.blob = TRUE, !.algo_size = flm.phdr.filesz + 4 * ARM_IRQ_HALT_LEN]
  BY <1>2 DEF ReadBlob
<1>4. parsed'.blob /\ parsed'.algo_size = flm.phdr.filesz + 32
  <2>1. 4 * ARM_IRQ_HALT_LEN = 32
    BY DEF ARM_IRQ_HALT_LEN
  <2> QED
    BY <1>1, <1>3, <2>1 DEF Algo
<1>5. flm.good /\ flm'.file = flm.file
  BY <1>1, <1>3, Carries
<1>6. Looked(flm, parsed, flm.i) /\ flm.ret = 0 /\ flm.i \in DOMAIN flm.file.phdrs
      /\ flm.phdr = flm.file.phdrs[flm.i] /\ flm.phdr.type = "code"
  BY <1>1, <1>5 DEF RightAt
<1>7. Looked(flm, parsed', flm.i + 1)
  BY <1>1, <1>4, <1>6, SegmentRead
<1> QED
  BY <1>1, <1>3, <1>5, <1>6, <1>7, AfterPhdrRight

LEMMA DeviceRight ==
  ASSUME ParserInv, ReadDevice, flm.good => RightAt(flm, parsed), WellFormed(flm.file), flm'.good
  PROVE  RightAt(flm', parsed')
<1> DEFINE g == [flm EXCEPT !.page = flm.phdr.page]
<1>1. Parser(flm) /\ flm.at = "device" /\ parsed' = parsed /\ Parser(Misread(flm)) /\ flm.phdr \in Phdr
  BY NowFacts DEF ReadDevice
<1>2. \A p \in Pages : flm' # AfterPhdr([Misread(flm) EXCEPT !.page = p])
  <2> SUFFICES ASSUME NEW p \in Pages PROVE flm' # AfterPhdr([Misread(flm) EXCEPT !.page = p])
    OBVIOUS
  <2> DEFINE f == Misread(flm)
             x == [f EXCEPT !.page = p]
  <2>1. Parser(f) /\ f.good = FALSE /\ p \in Nat
    BY <1>1, Missed, PagesAssumption
  <2> HIDE DEF f
  <2>2. Parser(x) /\ x.good = FALSE
    BY <2>1 DEF Parser, FlmField
  <2> HIDE DEF x
  <2>3. flm' # AfterPhdr(x)
    BY <2>2, Carries
  <2> QED
    BY <2>3 DEF x, f
<1>3. flm' = AfterPhdr(g)
  BY <1>2 DEF ReadDevice
<1>4. Parser(g) /\ g.i = flm.i /\ g.file = flm.file /\ g.page = flm.phdr.page /\ g.ret = flm.ret
      /\ g.good = flm.good
  BY <1>1 DEF Parser, FlmField, Phdr
<1> HIDE DEF g
<1>5. flm.good /\ flm'.file = flm.file
  BY <1>3, <1>4, Carries
<1>6. Looked(flm, parsed, flm.i) /\ flm.ret = 0 /\ flm.i \in DOMAIN flm.file.phdrs
      /\ flm.phdr = flm.file.phdrs[flm.i] /\ flm.phdr.type = "device"
  BY <1>1, <1>5 DEF RightAt
<1>7. Looked(g, parsed, g.i + 1)
  BY <1>1, <1>4, <1>6, SegmentRead
<1> QED
  BY <1>1, <1>3, <1>4, <1>5, <1>6, <1>7, AfterPhdrRight

\* There is a symbol table to come, until it has been found.
LEMMA AfterShdrRight ==
  ASSUME NEW f, Parser(f), NEW p, WellFormed(f.file), f.ret = 0, Segments(f, p),
         \A j \in DOMAIN f.file.shdrs : j < f.i + 1 => f.file.shdrs[j].type # "symtab"
  PROVE  RightAt(AfterShdr(f), p)
<1>1. f.i \in Nat /\ f.file \in Files /\ f.file.shdrs \in Seq(Shdr)
  BY FileFacts DEF Parser, FlmField, Spot
<1>2. f.i < Len(f.file.shdrs)
  <2>1. \E y \in DOMAIN f.file.shdrs : f.file.shdrs[y].type = "symtab"
    BY <1>1, FormedFacts
  <2> QED
    BY <1>1, <2>1
<1> DEFINE n == f.i + 1
           g == Goto(f, "shdr", n)
<1>3. g.at = "shdr" /\ g.i = n /\ g.file = f.file /\ g.page = f.page /\ g.ret = 0
  BY Keeps
<1>4. AfterShdr(f) = g
  BY <1>2 DEF AfterShdr
<1> HIDE DEF g
<1>5. Segments(g, p)
  BY <1>3 DEF Segments, Looked
<1> QED
  BY <1>3, <1>4, <1>5 DEF RightAt

LEMMA ShdrRight ==
  ASSUME ParserInv, ReadShdr, flm.good => RightAt(flm, parsed), WellFormed(flm.file), flm'.good
  PROVE  RightAt(flm', parsed')
<1> DEFINE h == flm.file.shdrs[flm.i]
           g == [flm EXCEPT !.shdr = h]
           e == [g EXCEPT !.symtab = h, !.at = "link"]
<1>1. Parser(flm) /\ flm.file \in Files /\ flm.at = "shdr" /\ parsed' = parsed /\ flm.i \in DOMAIN flm.file.shdrs
      /\ flm.i \in Nat
  BY NowFacts DEF ReadShdr, Inside
<1>2. h \in Shdr
  BY <1>1, FileFacts
<1>3. flm' = WithShdr(flm, h)
  <2>1. ASSUME flm' = WithShdr(Misread(flm), flm.shdr) PROVE FALSE
    <3> DEFINE f == Misread(flm)
               x == [f EXCEPT !.shdr = flm.shdr]
               y == [x EXCEPT !.symtab = flm.shdr, !.at = "link"]
    <3>1. Parser(f) /\ f.good = FALSE /\ flm.shdr \in Shdr
      BY NowFacts, Missed
    <3> HIDE DEF f
    <3>2. Parser(x) /\ x.good = FALSE /\ y.good = FALSE
      BY <3>1 DEF Parser, FlmField
    <3>3. flm' \in {AfterShdr(x), y}
      BY <2>1 DEF WithShdr, f
    <3> HIDE DEF x, y
    <3> QED
      BY <3>2, <3>3, Carries
  <2> QED
    BY <2>1 DEF ReadShdr
<1> HIDE DEF h
<1>4. flm' = IF h.type = "symtab" THEN e ELSE AfterShdr(g)
  BY <1>3 DEF WithShdr
<1>5. Parser(g) /\ g.i = flm.i /\ g.file = flm.file /\ g.page = flm.page /\ g.ret = flm.ret /\ g.good = flm.good
  BY <1>1, <1>2 DEF Parser, FlmField
<1> HIDE DEF g
<1>6. e.at = "link" /\ e.symtab = h /\ e.file = flm.file /\ e.page = flm.page /\ e.ret = flm.ret
      /\ e.good = flm.good
  BY <1>5 DEF Parser, FlmField
<1> HIDE DEF e
<1>7. flm.good /\ flm'.file = flm.file
  BY <1>4, <1>5, <1>6, Carries
<1>8. flm.ret = 0 /\ Segments(flm, parsed) /\ \A j \in DOMAIN flm.file.shdrs : j < flm.i => flm.file.shdrs[j].type # "symtab"
  BY <1>1, <1>7 DEF RightAt
<1>9. CASE h.type # "symtab"
  <2>1. \A j \in DOMAIN flm.file.shdrs : j < flm.i + 1 => j < flm.i \/ j = flm.i
    BY <1>1, FileFacts
  <2>2. \A j \in DOMAIN g.file.shdrs : j < g.i + 1 => g.file.shdrs[j].type # "symtab"
    BY <1>5, <1>8, <1>9, <2>1 DEF h
  <2>3. Segments(g, parsed)
    BY <1>5, <1>8 DEF Segments, Looked
  <2> QED
    BY <1>1, <1>4, <1>5, <1>7, <1>8, <1>9, <2>2, <2>3, AfterShdrRight
<1>10. CASE h.type = "symtab"
  <2>1. Segments(e, parsed)
    BY <1>6, <1>8 DEF Segments, Looked
  <2> QED
    BY <1>1, <1>4, <1>6, <1>7, <1>8, <1>10, <2>1 DEF RightAt, h
<1> QED
  BY <1>9, <1>10

LEMMA LinkRight ==
  ASSUME ParserInv, ReadLink, flm.good => RightAt(flm, parsed), WellFormed(flm.file), flm'.good
  PROVE  RightAt(flm', parsed')
<1> DEFINE h == flm.file.shdrs[flm.symtab.link]
           g == [flm EXCEPT !.shdr = h]
           e == Goto(g, "strtab", 1)
<1>1. Parser(flm) /\ flm.file \in Files /\ flm.at = "link" /\ parsed' = parsed
      /\ flm.symtab.link \in DOMAIN flm.file.shdrs
  BY NowFacts DEF ReadLink, Inside
<1>2. h \in Shdr
  BY <1>1, FileFacts
<1>3. flm' = WithLink(flm, h)
  <2>1. ASSUME flm' = WithLink(Misread(flm), flm.shdr) PROVE FALSE
    <3> DEFINE f == Misread(flm)
               x == [f EXCEPT !.shdr = flm.shdr]
    <3>1. Parser(f) /\ f.good = FALSE /\ flm.shdr \in Shdr
      BY NowFacts, Missed
    <3> HIDE DEF f
    <3>2. Parser(x) /\ x.good = FALSE
      BY <3>1 DEF Parser, FlmField
    <3>3. flm' \in {AfterShdr(x), Goto(x, "strtab", 1)}
      BY <2>1 DEF WithLink, f
    <3> HIDE DEF x
    <3>4. Goto(x, "strtab", 1).good = FALSE
      BY <3>2, Keeps
    <3> QED
      BY <3>2, <3>3, <3>4, Carries
  <2> QED
    BY <2>1 DEF ReadLink
<1> HIDE DEF h
<1>4. flm' = IF h.type = "strtab" THEN e ELSE AfterShdr(g)
  BY <1>3 DEF WithLink
<1>5. Parser(g) /\ g.file = flm.file /\ g.page = flm.page /\ g.ret = flm.ret /\ g.good = flm.good
      /\ g.symtab = flm.symtab /\ g.shdr = h
  BY <1>1, <1>2 DEF Parser, FlmField
<1> HIDE DEF g
<1>6. e.at = "strtab" /\ e.symtab = flm.symtab /\ e.shdr = h /\ e.file = flm.file /\ e.page = flm.page
      /\ e.ret = flm.ret /\ e.good = flm.good
  BY <1>5, Keeps
<1> HIDE DEF e
<1>7. flm.good /\ flm'.file = flm.file
  BY <1>4, <1>5, <1>6, Carries
<1>8. PICK y \in DOMAIN flm.file.shdrs : flm.file.shdrs[y].type = "symtab" /\ flm.symtab = flm.file.shdrs[y]
  BY <1>1, <1>7 DEF RightAt
<1>9. flm.ret = 0 /\ Segments(flm, parsed)
  BY <1>1, <1>7 DEF RightAt
<1>10. h.type = "strtab"
  BY <1>1, <1>8, FormedFacts DEF h
<1>11. Segments(e, parsed)
  BY <1>6, <1>9 DEF Segments, Looked
<1>12. Table(e)
  BY <1>6, <1>8 DEF Table, h
<1> QED
  BY <1>1, <1>4, <1>6, <1>7, <1>9, <1>10, <1>11, <1>12 DEF RightAt

\* The scan stops at the next name of a function: no function is passed by.
LEMMA ScanRight ==
  ASSUME NEW f, Parser(f), NEW p, f.ret = 0, Segments(f, p), Table(f), NEW k \in Nat \ {0}, Upto(f, p, k, 1)
  PROVE  RightAt(Scan(f, k), p)
<1> DEFINE strs == f.shdr.strs
           syms == f.symtab.syms
<1>1. strs \in Seq(Name) /\ syms \in Seq(Symbol)
  BY DEF Parser, FlmField, Shdr
<1>2. \A t \in DOMAIN strs, n \in Entry, y \in DOMAIN syms :
        strs[t] = StrFunNameTable[n] /\ ~(t < k) => t \in Hits(f, k)
  <2> SUFFICES ASSUME NEW t \in DOMAIN strs, NEW n \in Entry, NEW y \in DOMAIN syms,
                      strs[t] = StrFunNameTable[n], ~(t < k)
               PROVE  t \in Hits(f, k)
    OBVIOUS
  <2>1. n \in Fits(strs[t])
    BY DEF Fits, SameName
  <2>2. t \in k .. Len(strs) /\ syms # <<>>
    BY <1>1
  <2> QED
    BY <2>1, <2>2 DEF Hits
<1>3. \A y \in DOMAIN syms : ~(y < 1)
  BY <1>1
<1>4. CASE Hits(f, k) = {}
  <2> DEFINE g == [f EXCEPT !.at = "layout"]
  <2>1. g.at = "layout" /\ g.file = f.file /\ g.shdr = f.shdr /\ g.symtab = f.symtab /\ g.page = f.page /\ g.ret = 0
    BY DEF Parser, FlmField
  <2>2. Scan(f, k) = g
    BY <1>4 DEF Scan
  <2> HIDE DEF g
  <2>3. Segments(g, p) /\ Table(g)
    BY <2>1 DEF Segments, Looked, Table
  <2>4. \A n \in Entry, t \in DOMAIN strs, y \in DOMAIN syms :
          strs[t] = StrFunNameTable[n] /\ syms[y].name = t => p.entry[n] = n
    BY <1>2, <1>4 DEF Upto
  <2>5. Upto(g, p, Len(g.shdr.strs) + 1, 1)
    BY <2>1, <2>4 DEF Upto
  <2> QED
    BY <2>1, <2>2, <2>3, <2>5 DEF RightAt
<1>5. CASE Hits(f, k) # {}
  <2> DEFINE m == CHOOSE j \in Hits(f, k) : \A l \in Hits(f, k) : j <= l
             g == [f EXCEPT !.at = "sym", !.i = 1, !.s = m]
  <2>1. Hits(f, k) \subseteq DOMAIN strs /\ Hits(f, k) \subseteq Nat
    BY <1>1 DEF Hits
  <2>2. m \in Hits(f, k) /\ \A l \in Hits(f, k) : m <= l
    BY <1>5, <2>1, Least
  <2>3. Scan(f, k) = g
    BY <1>5 DEF Scan
  <2> HIDE DEF m
  <2>4. g.at = "sym" /\ g.i = 1 /\ g.s = m /\ g.file = f.file /\ g.shdr = f.shdr /\ g.symtab = f.symtab
        /\ g.page = f.page /\ g.ret = 0
    BY DEF Parser, FlmField
  <2> HIDE DEF g
  <2>5. Segments(g, p) /\ Table(g)
    BY <2>4 DEF Segments, Looked, Table
  <2>6. m \in DOMAIN strs /\ Fits(strs[m]) # {}
    BY <2>1, <2>2 DEF Hits
  <2>7. \A t \in DOMAIN strs : t < m /\ t \in Hits(f, k) => FALSE
    BY <1>1, <2>1, <2>2, <2>6
  <2>8. Upto(g, p, m, 1)
    BY <1>2, <1>3, <2>4, <2>7 DEF Upto
  <2> QED
    BY <2>3, <2>4, <2>5, <2>6, <2>8 DEF RightAt
<1> QED
  BY <1>4, <1>5

LEMMA StringsRight ==
  ASSUME ParserInv, ReadStrings, flm.good => RightAt(flm, parsed), WellFormed(flm.file), flm'.good
  PROVE  RightAt(flm', parsed')
<1>1. Parser(flm) /\ flm.at = "strtab" /\ parsed' = parsed
  BY NowFacts DEF ReadStrings
<1>2. flm' = Scan(flm, 1)
  <2>1. ASSUME flm' = [Misread(flm) EXCEPT !.at = "layout"] PROVE FALSE
    BY <1>1, <2>1 DEF Misread, Parser, FlmField
  <2> QED
    BY <2>1 DEF ReadStrings
<1>3. flm.good /\ flm'.file = flm.file
  BY <1>1, <1>2, Carries
<1>4. flm.ret = 0 /\ Segments(flm, parsed) /\ Table(flm)
  BY <1>1, <1>3 DEF RightAt
<1>5. Upto(flm, parsed, 1, 1)
  <2>1. flm.shdr.strs \in Seq(Name) /\ flm.symtab.syms \in Seq(Symbol)
    BY <1>1 DEF Parser, FlmField, Shdr
  <2>2. (\A t \in DOMAIN flm.shdr.strs : ~(t < 1)) /\ (\A y \in DOMAIN flm.symtab.syms : ~(y < 1))
    BY <2>1
  <2> QED
    BY <2>2 DEF Upto
<1> QED
  BY <1>1, <1>2, <1>3, <1>4, <1>5, ScanRight

\* The table that was found belongs to a well-formed file.
LEMMA TableFacts ==
  ASSUME NEW f, Parser(f), WellFormed(f.file), Table(f)
  PROVE  Named(f.shdr.strs, f.symtab.syms)
<1>1. f.file \in Files
  BY DEF Parser
<1>2. PICK y \in DOMAIN f.file.shdrs :
        /\ f.file.shdrs[y].type = "symtab" /\ f.symtab = f.file.shdrs[y]
        /\ f.shdr = f.file.shdrs[f.symtab.link]
  BY DEF Table
<1> QED
  BY <1>1, <1>2, FormedFacts

\* A symbol: the function its name is for, if it is the name of one, gets it.
LEMMA SymRight ==
  ASSUME ParserInv, ReadSym, flm.good => RightAt(flm, parsed), WellFormed(flm.file), flm'.good
  PROVE  RightAt(flm', parsed')
<1> DEFINE strs == flm.shdr.strs
           syms == flm.symtab.syms
           y == syms[flm.i]
           g == [flm EXCEPT !.sym = y]
           e == Field(strs[flm.s])
<1>1. Parser(flm) /\ flm.at = "sym" /\ flm.i \in DOMAIN syms /\ flm.i \in Nat /\ parsed \in Algo
      /\ strs \in Seq(Name) /\ syms \in Seq(Symbol)
  BY NowFacts DEF ReadSym, Inside, Shdr
<1>2. flm' = WithSym(flm, y) /\ parsed' = Entered(y)
  <2>1. ASSUME flm' = WithSym(Misread(flm), flm.sym) PROVE FALSE
    <3> DEFINE f == Misread(flm)
               x == [f EXCEPT !.sym = flm.sym]
    <3>1. Parser(f) /\ f.good = FALSE /\ flm.sym \in Sym
      BY NowFacts, Missed
    <3> HIDE DEF f
    <3>2. Parser(x) /\ x.good = FALSE
      BY <3>1 DEF Parser, FlmField
    <3>3. flm' = Goto(x, "sym", f.i + 1) \/ flm' = Scan(x, f.s + 1)
      BY <2>1 DEF WithSym, f
    <3> HIDE DEF x
    <3>4. Goto(x, "sym", f.i + 1).good = FALSE
      BY <3>2, Keeps
    <3> QED
      BY <3>2, <3>3, <3>4, Carries
  <2> QED
    BY <2>1 DEF ReadSym
<1>3. flm' = IF flm.i < Len(syms) THEN Goto(g, "sym", flm.i + 1) ELSE Scan(g, flm.s + 1)
  BY <1>2 DEF WithSym
<1>4. y \in Sym
  <2>1. y \in Symbol
    BY <1>1
  <2> QED
    BY <2>1 DEF Symbol, Sym
<1>5. Parser(g) /\ g.file = flm.file /\ g.page = flm.page /\ g.ret = flm.ret /\ g.good = flm.good
      /\ g.symtab = flm.symtab /\ g.shdr = flm.shdr /\ g.s = flm.s /\ g.i = flm.i
  <2> HIDE DEF y
  <2> QED
    BY <1>1, <1>4 DEF Parser, FlmField
<1> HIDE DEF g
<1>6. flm.good /\ flm'.file = flm.file
  BY <1>3, <1>5, Carries, Keeps
<1>7. /\ flm.ret = 0 /\ Segments(flm, parsed) /\ Table(flm) /\ flm.s \in DOMAIN strs
      /\ Fits(strs[flm.s]) # {} /\ Upto(flm, parsed, flm.s, flm.i)
  BY <1>1, <1>6 DEF RightAt
<1>8. /\ e \in Entry /\ strs[flm.s] = StrFunNameTable[e]
      /\ \A u \in DOMAIN syms : syms[u].name = flm.s => syms[u].value = e
  <2>1. e \in Fits(strs[flm.s])
    BY <1>7 DEF Field
  <2>2. e \in Entry /\ strs[flm.s].len = StrFunNameTable[e].len /\ strs[flm.s].head = StrFunNameTable[e].head
    BY <2>1 DEF Fits, SameName
  <2> HIDE DEF e
  <2>3. PICK s \in DOMAIN strs :
          /\ strs[s] = StrFunNameTable[e]
          /\ \A t \in DOMAIN strs : strs[t].len = strs[s].len /\ strs[t].head = strs[s].head => t = s
          /\ \A u \in DOMAIN syms : syms[u].name = s => syms[u].value = e
    BY <1>1, <1>7, <2>2, TableFacts DEF Named
  <2>4. flm.s = s
    BY <1>7, <2>2, <2>3
  <2> QED
    BY <2>2, <2>3, <2>4
<1>9. /\ parsed'.blob = parsed.blob /\ parsed'.algo_size = parsed.algo_size
      /\ y.name = flm.s => parsed'.entry[e] = e /\ \A n \in Entry : n # e => parsed'.entry[n] = parsed.entry[n]
      /\ y.name # flm.s => parsed' = parsed
  <2> DEFINE w == [parsed.entry EXCEPT ![e] = y.value]
  <2>1. parsed' = IF y.name = flm.s THEN [parsed EXCEPT !.entry = w] ELSE parsed
    BY <1>2 DEF Entered
  <2>2. parsed.entry \in [Entry -> Code]
    BY <1>1 DEF Algo, Function, Entry
  <2>3. w[e] = y.value /\ \A n \in Entry : n # e => w[n] = parsed.entry[n]
    BY <1>8, <2>2
  <2>4. y.name = flm.s => y.value = e
    BY <1>1, <1>8
  <2> HIDE DEF w, e, y
  <2> QED
    BY <1>1, <2>1, <2>3, <2>4 DEF Algo
<1>10. Upto(flm, parsed', flm.s, flm.i + 1)
  <2> SUFFICES ASSUME NEW n \in Entry, NEW t \in DOMAIN strs, NEW u \in DOMAIN syms,
                      strs[t] = StrFunNameTable[n], syms[u].name = t,
                      t < flm.s \/ (t = flm.s /\ u < flm.i + 1)
               PROVE  parsed'.entry[n] = n
    BY DEF Upto
  <2>1. CASE t < flm.s \/ (t = flm.s /\ u < flm.i)
    <3>1. parsed.entry[n] = n
      BY <1>7, <2>1 DEF Upto
    <3> HIDE DEF e, y
    <3> QED
      BY <1>9, <3>1
  <2>2. CASE t = flm.s /\ u = flm.i
    <3>1. n = e
      <4>1. SameName(StrFunNameTable[n], StrFunNameTable[e])
        BY <1>8, <2>2 DEF SameName
      <4> QED
        BY <1>8, <4>1, NamesApart
    <3>2. y.name = flm.s
      BY <2>2
    <3> HIDE DEF e, y
    <3> QED
      BY <1>9, <3>1, <3>2
  <2> QED
    BY <1>1, <2>1, <2>2
<1> HIDE DEF y, e
<1>11. Segments(g, parsed') /\ Table(g) /\ Upto(g, parsed', flm.s, flm.i + 1)
  BY <1>5, <1>7, <1>9, <1>10, SegmentsSame, TableSame, UptoSame
<1>12. CASE flm.i < Len(syms)
  <2> DEFINE i == flm.i + 1
             x == Goto(g, "sym", i)
  <2>1. x.at = "sym" /\ x.i = i /\ x.s = flm.s /\ x.file = g.file /\ x.page = g.page /\ x.ret = 0
        /\ x.shdr = g.shdr /\ x.symtab = g.symtab
    BY <1>5, <1>7, Keeps
  <2>2. flm' = x
    BY <1>3, <1>12
  <2> HIDE DEF x
  <2>3. Segments(x, parsed') /\ Table(x) /\ Upto(x, parsed', x.s, x.i)
    BY <1>11, <2>1, SegmentsSame, TableSame, UptoSame
  <2> QED
    BY <1>5, <1>6, <1>7, <2>1, <2>2, <2>3 DEF RightAt
<1>13. CASE ~(flm.i < Len(syms))
  <2>1. flm' = Scan(g, flm.s + 1)
    BY <1>3, <1>13
  <2>2. flm.s + 1 \in Nat \ {0}
    BY <1>1, <1>7
  <2>3. \A t \in DOMAIN strs, u \in DOMAIN syms :
          t < flm.s + 1 => t < flm.s \/ (t = flm.s /\ u < flm.i + 1)
    BY <1>1, <1>7, <1>13
  <2>4. \A u \in DOMAIN syms : ~(u < 1)
    BY <1>1
  <2>5. Upto(g, parsed', flm.s + 1, 1)
    BY <1>5, <1>11, <2>3, <2>4 DEF Upto
  <2> QED
    BY <1>5, <1>6, <1>7, <1>11, <2>1, <2>2, <2>5, ScanRight
<1> QED
  BY <1>12, <1>13

LEMMA LayoutRight ==
  ASSUME ParserInv, Layout, flm.good => RightAt(flm, parsed), WellFormed(flm.file), flm'.good
  PROVE  RightAt(flm', parsed')
<1>1. Parser(flm) /\ flm.at = "layout" /\ parsed \in Algo
  BY NowFacts DEF Layout
<1>2. flm'.at = "end" /\ flm'.file = flm.file /\ flm'.page = flm.page /\ flm'.ret = flm.ret
      /\ flm'.shdr = flm.shdr /\ flm'.symtab = flm.symtab /\ flm'.good = flm.good
  BY <1>1 DEF Layout, Parser, FlmField
<1>3. parsed'.blob = parsed.blob /\ parsed'.algo_size = parsed.algo_size /\ parsed'.entry = parsed.entry
      /\ parsed'.program_buffer_size = flm.page
  BY <1>1 DEF Layout, Algo
<1>4. flm.ret = 0 /\ Segments(flm, parsed) /\ Table(flm) /\ Upto(flm, parsed, Len(flm.shdr.strs) + 1, 1)
  BY <1>1, <1>2 DEF RightAt
<1>5. Segments(flm', parsed') /\ Table(flm') /\ Upto(flm', parsed', Len(flm'.shdr.strs) + 1, 1)
  BY <1>2, <1>3, <1>4, SegmentsSame, TableSame, UptoSame
<1> QED
  BY <1>2, <1>3, <1>4, <1>5 DEF RightAt

\* The parser reads one file.
LEMMA WithKeeps ==
  ASSUME NEW f, Parser(f), NEW h \in Phdr, NEW x \in Shdr, NEW y \in Sym
  PROVE  /\ WithPhdr(f, h).file = f.file /\ WithShdr(f, x).file = f.file /\ WithLink(f, x).file = f.file
         /\ WithSym(f, y).file = f.file
<1>1. WithPhdr(f, h).file = f.file
  <2> DEFINE g == [f EXCEPT !.phdr = h]
             e == [g EXCEPT !.at = h.type]
  <2>1. Parser(g) /\ g.file = f.file /\ e.file = f.file
    BY DEF Parser, FlmField
  <2>2. WithPhdr(f, h) = IF h.type = "other" THEN AfterPhdr(g) ELSE e
    BY DEF WithPhdr
  <2> HIDE DEF g, e
  <2> QED
    BY <2>1, <2>2, Carries
<1>2. WithShdr(f, x).file = f.file
  <2> DEFINE g == [f EXCEPT !.shdr = x]
             e == [g EXCEPT !.symtab = x, !.at = "link"]
  <2>1. Parser(g) /\ g.file = f.file /\ e.file = f.file
    BY DEF Parser, FlmField
  <2>2. WithShdr(f, x) = IF x.type = "symtab" THEN e ELSE AfterShdr(g)
    BY DEF WithShdr
  <2> HIDE DEF g, e
  <2> QED
    BY <2>1, <2>2, Carries
<1>3. WithLink(f, x).file = f.file
  <2> DEFINE g == [f EXCEPT !.shdr = x]
  <2>1. Parser(g) /\ g.file = f.file
    BY DEF Parser, FlmField
  <2>2. WithLink(f, x) = IF x.type = "strtab" THEN Goto(g, "strtab", 1) ELSE AfterShdr(g)
    BY DEF WithLink
  <2> HIDE DEF g
  <2> QED
    BY <2>1, <2>2, Carries, Keeps
<1>4. WithSym(f, y).file = f.file
  <2> DEFINE g == [f EXCEPT !.sym = y]
  <2>1. Parser(g) /\ g.file = f.file
    BY DEF Parser, FlmField
  <2>2. WithSym(f, y) = IF f.i < Len(f.symtab.syms) THEN Goto(g, "sym", f.i + 1) ELSE Scan(g, f.s + 1)
    BY DEF WithSym
  <2> HIDE DEF g
  <2> QED
    BY <2>1, <2>2, Carries, Keeps
<1> QED
  BY <1>1, <1>2, <1>3, <1>4

LEMMA FileKept == ASSUME ParserInv, FlmNext PROVE flm'.file = flm.file
<1> DEFINE m == Misread(flm)
<1>1. /\ Parser(flm) /\ Inside(flm) /\ flm.file \in Files /\ flm.phdr \in Phdr /\ flm.shdr \in Shdr /\ flm.sym \in Sym
      /\ flm.symtab \in Shdr /\ Parser(m) /\ m.file = flm.file
  BY NowFacts
<1>2. CASE ReadEhdr
  <2> DEFINE f == Goto(flm, "phdr", 0)
             g == Goto(m, "phdr", 0)
  <2>1. Parser(f) /\ f.file = flm.file /\ Parser(g) /\ g.file = flm.file
    BY <1>1, Goes, Places
  <2>2. [flm EXCEPT !.at = "end", !.ret = -1].file = flm.file /\ [m EXCEPT !.at = "end", !.ret = -1].file = flm.file
    BY <1>1 DEF Parser, FlmField
  <2>3. \/ flm' = AfterPhdr(f) \/ flm' = [flm EXCEPT !.at = "end", !.ret = -1]
        \/ flm' = [m EXCEPT !.at = "end", !.ret = -1] \/ flm' = AfterPhdr(g)
    BY <1>2 DEF ReadEhdr
  <2> HIDE DEF f, g
  <2> QED
    BY <2>1, <2>2, <2>3, Carries
<1>3. CASE ReadPhdr
  <2>1. flm.file.phdrs[flm.i] \in Phdr
    BY <1>1, <1>3, FileFacts DEF Inside, ReadPhdr
  <2> QED
    BY <1>1, <1>3, <2>1, WithKeeps DEF ReadPhdr
<1>4. CASE ReadBlob
  BY <1>1, <1>4, Carries DEF ReadBlob
<1>5. CASE ReadDevice
  <2>1. ASSUME NEW f, Parser(f), NEW p \in Nat
        PROVE  AfterPhdr([f EXCEPT !.page = p]).file = f.file
    <3> DEFINE g == [f EXCEPT !.page = p]
    <3>1. Parser(g) /\ g.file = f.file
      BY <2>1 DEF Parser, FlmField
    <3> HIDE DEF g
    <3>2. AfterPhdr(g).file = f.file
      BY <3>1, Carries
    <3> QED
      BY <3>2 DEF g
  <2>2. flm.phdr.page \in Nat /\ Pages \subseteq Nat
    BY <1>1, PagesAssumption DEF Phdr
  <2> QED
    BY <1>1, <1>5, <2>1, <2>2 DEF ReadDevice
<1>6. CASE ReadShdr
  <2>1. flm.file.shdrs[flm.i] \in Shdr
    BY <1>1, <1>6, FileFacts DEF Inside, ReadShdr
  <2> QED
    BY <1>1, <1>6, <2>1, WithKeeps DEF ReadShdr
<1>7. CASE ReadLink
  <2>1. flm.file.shdrs[flm.symtab.link] \in Shdr
    BY <1>1, <1>7, FileFacts DEF Inside, ReadLink
  <2> QED
    BY <1>1, <1>7, <2>1, WithKeeps DEF ReadLink
<1>8. CASE ReadStrings
  <2>1. [m EXCEPT !.at = "layout"].file = flm.file
    BY <1>1 DEF Parser, FlmField
  <2>2. Scan(flm, 1).file = flm.file
    BY <1>1, Carries
  <2>3. flm' = Scan(flm, 1) \/ flm' = [m EXCEPT !.at = "layout"]
    BY <1>8 DEF ReadStrings
  <2> QED
    BY <2>1, <2>2, <2>3
<1>9. CASE ReadSym
  <2>1. flm.symtab.syms[flm.i] \in Sym
    <3>1. flm.symtab.syms[flm.i] \in Symbol
      BY <1>1, <1>9 DEF Inside, ReadSym, Shdr
    <3> QED
      BY <3>1 DEF Symbol, Sym
  <2> QED
    BY <1>1, <1>9, <2>1, WithKeeps DEF ReadSym
<1>10. CASE Layout
  BY <1>1, <1>10 DEF Layout, Parser, FlmField
<1> QED
  BY <1>2, <1>3, <1>4, <1>5, <1>6, <1>7, <1>8, <1>9, <1>10 DEF FlmNext

LEMMA RightStep == ASSUME ParserInv, FlmNext, Right(flm, parsed) PROVE Right(flm', parsed')
<1> SUFFICES ASSUME flm'.good, WellFormed(flm'.file) PROVE RightAt(flm', parsed')
  BY DEF Right
<1>1. WellFormed(flm.file)
  BY FileKept
<1>2. flm.at # "returned"
  BY DEF FlmNext, ReadEhdr, ReadPhdr, ReadBlob, ReadDevice, ReadShdr, ReadLink, ReadStrings, ReadSym, Layout
<1>3. flm.good => RightAt(flm, parsed)
  BY <1>1, <1>2 DEF Right
<1> QED
  BY <1>1, <1>3, EhdrRight, PhdrRight, BlobRight, DeviceRight, ShdrRight, LinkRight, StringsRight, SymRight,
     LayoutRight DEF FlmNext

LEMMA RightInit == ASSUME FlmInit PROVE Right(flm, parsed)
<1>1. flm.at = "ehdr" /\ flm.ret = 0
  BY DEF FlmInit
<1> QED
  BY <1>1 DEF Right, RightAt

LEMMA RightAppStep == ASSUME ParserInv, [AppNext]_avars, Right(flm, parsed) PROVE Right(flm', parsed')
<1>1. CASE Parsing
  BY <1>1, RightStep DEF Parsing
<1>2. CASE flashalgo_test
  <2>1. flm'.at = "returned"
    BY <1>2, NowFacts DEF flashalgo_test, Forget, Parser, FlmField
  <2> QED
    BY <2>1 DEF Right
<1>3. CASE UNCHANGED <<flm, parsed>>
  BY <1>3
<1> QED
  BY <1>1, <1>2, <1>3 DEF AppNext, FLASH_SWD, Target, avars

\* At the end every header has been looked at and every string and symbol.
LEMMA RightEnd == ASSUME ParserInv, Right(flm, parsed) PROVE ParsedRight
<1> SUFFICES ASSUME flm.at = "end", flm.good, WellFormed(flm.file)
             PROVE  /\ flm.ret = 0 /\ parsed.blob
                    /\ \A f \in Entry : parsed.entry[f] = f
                    /\ \A i \in DOMAIN flm.file.phdrs :
                         LET h == flm.file.phdrs[i]
                         IN /\ h.type = "device" => parsed.program_buffer_size = h.page
                            /\ h.type = "code" => parsed.algo_size = h.filesz + 32
  BY DEF ParsedRight
<1>1. /\ flm.ret = 0 /\ Segments(flm, parsed) /\ flm.page = parsed.program_buffer_size
      /\ Table(flm) /\ Upto(flm, parsed, Len(flm.shdr.strs) + 1, 1)
  BY DEF Right, RightAt
<1>2. Parser(flm) /\ flm.file \in Files /\ flm.shdr.strs \in Seq(Name)
  BY NowFacts DEF Shdr
<1>3. ASSUME NEW i \in DOMAIN flm.file.phdrs
      PROVE  LET h == flm.file.phdrs[i]
             IN /\ h.type = "code" => parsed.blob /\ parsed.algo_size = h.filesz + 32
                /\ h.type = "device" => parsed.program_buffer_size = h.page
  <2>1. i < i + 1
    BY <1>2, FileFacts
  <2> QED
    BY <1>1, <2>1 DEF Segments, Looked
<1>4. parsed.blob
  BY <1>2, <1>3, FormedFacts
<1>5. ASSUME NEW n \in Entry PROVE parsed.entry[n] = n
  <2>1. PICK s \in DOMAIN flm.shdr.strs :
          /\ flm.shdr.strs[s] = StrFunNameTable[n]
          /\ \E u \in DOMAIN flm.symtab.syms : flm.symtab.syms[u].name = s
    BY <1>1, <1>2, TableFacts DEF Named
  <2>2. s < Len(flm.shdr.strs) + 1
    BY <1>2
  <2> QED
    BY <1>1, <2>1, <2>2 DEF Upto
<1> QED
  BY <1>1, <1>3, <1>4, <1>5

\* From a well-formed .FLM file whose reads all succeed, FLM_Prase
\* (flashalgo.c) takes the entry of every function, the page size and the whole
\* code, for any number and order of headers, sections, strings and symbols.
THEOREM ParserCorrect == AppSpec => []ParsedRight
<1>1. AppInit => ParserInv /\ Right(flm, parsed)
  BY FlmInitInv, RightInit DEF AppInit
<1>2. ParserInv /\ Right(flm, parsed) /\ [AppNext]_avars => ParserInv' /\ Right(flm, parsed)'
  BY AppStep, RightAppStep
<1>3. ParserInv /\ Right(flm, parsed) => ParsedRight
  BY RightEnd
<1> QED
  BY <1>1, <1>2, <1>3, PTL DEF AppSpec
=============================================================================
