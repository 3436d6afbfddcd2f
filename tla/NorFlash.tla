----------------------------- MODULE NorFlash ------------------------------
(***************************************************************************)
(* The writes of the NOR flash driver devices/storage/25qxx.c.  A step is  *)
(* one command to the chip: read, sector erase, or page program with its   *)
(* write enable and its wait.  Power may fail between two commands.        *)
(* _25qxx_Flash_Write_NoCheck is what the USB disk writes with, and        *)
(* _25qxx_Flash_Write_Data what FatFs writes with (disk_write).            *)
(***************************************************************************)
EXTENDS Integers

CONSTANTS
  SPI_FLASH_PageSize,
  SPI_FLASH_SectorSize,
  Sectors,       \* number of sectors
  Ranges         \* [addr, len] pairs that callers write

ASSUME SizeAssumption ==
  /\ SPI_FLASH_PageSize \in Nat \ {0} /\ SPI_FLASH_SectorSize \in Nat \ {0} /\ Sectors \in Nat \ {0}
  /\ SPI_FLASH_SectorSize % SPI_FLASH_PageSize = 0
ASSUME RangesAssumption ==
  Ranges \subseteq {r \in [addr : Nat, len : Nat] :
                      r.len > 0 /\ r.addr + r.len <= Sectors * SPI_FLASH_SectorSize}

VARIABLES
  mem,    \* the chip
  was,    \* the chip when the last call began
  op,     \* the call: its function, range and the locals of its loop
  prog,   \* the loop of Write_NoCheck: addr, len, pageremain, and where its data is
  buff,   \* dev.buff
  data,   \* the caller's buffer, by the address each byte is meant for
  pc      \* the next command of the call

vars == <<mem, was, op, prog, buff, data, pc>>

Size   == Sectors * SPI_FLASH_SectorSize
Cell   == 0 .. Size - 1
InSec  == 0 .. SPI_FLASH_SectorSize - 1

\* Contents: erased, what was at address a when the call began, what the call
\* means for address a, and what programming over something else leaves.
FF     == -1
Junk   == -2
Old(a) == a
New(a) == Size + a
Value  == -2 .. 2 * Size - 1
Fresh  == [c \in Cell |-> New(c)]

Min2(a, b)   == IF a <= b THEN a ELSE b
SectorOf(a)  == a - (a % SPI_FLASH_SectorSize)

-----------------------------------------------------------------------------
(* The chip.                                                               *)

\* Programming clears bits, and wraps within the page.
PageProgram(m, a, bytes, n) ==
  LET page == a - (a % SPI_FLASH_PageSize)
      at(i) == page + ((a + i) % SPI_FLASH_PageSize)
  IN [c \in Cell |->
        IF \E i \in 0 .. n - 1 : at(i) = c
        THEN LET i == CHOOSE i \in 0 .. n - 1 : at(i) = c
             IN IF m[c] = FF THEN bytes[i] ELSE IF bytes[i] = FF THEN m[c] ELSE Junk
        ELSE m[c]]

\* The chip erases the sector that holds the byte address.
SectorErase(m, a) == [c \in Cell |-> IF SectorOf(c) = SectorOf(a) THEN FF ELSE m[c]]

-----------------------------------------------------------------------------
NoProg == [addr |-> 0, len |-> 0, pageremain |-> 0, from |-> "data"]
NoOp   == [fn |-> "none", addr |-> 0, len |-> 0, start |-> 0, size |-> 0,
           secpos |-> 0, secoff |-> 0, secremain |-> 0]

Init ==
  /\ mem \in {[c \in Cell |-> FF], [c \in Cell |-> Old(c)]}
  /\ was = mem /\ op = NoOp /\ prog = NoProg
  /\ buff = [i \in InSec |-> FF]
  /\ data = Fresh
  /\ pc = "idle"

\* What is in the chip when a call begins is old.
Aged == [c \in Cell |-> IF mem[c] = FF THEN FF ELSE Old(c)]
Begin == pc = "idle" /\ mem' = Aged /\ was' = Aged /\ data' = Fresh

\* Mutant: the first page is not cut at its end.
WriteNoCheck_WholePage(a, n, from) ==
  prog' = [addr |-> a, len |-> n, from |-> from, pageremain |-> Min2(n, SPI_FLASH_PageSize)]

\* The start of the loop of Write_NoCheck.
WriteNoCheck(a, n, from) ==
  prog' = [addr |-> a, len |-> n, from |-> from,
           pageremain |-> Min2(n, SPI_FLASH_PageSize - (a % SPI_FLASH_PageSize))]

CallEraseSector ==
  /\ Begin
  /\ \E s \in 0 .. Sectors - 1 :
       op' = [NoOp EXCEPT !.fn = "Erase_Sector", !.addr = s * SPI_FLASH_SectorSize,
                          !.start = s * SPI_FLASH_SectorSize, !.size = SPI_FLASH_SectorSize]
  /\ pc' = "erase_sector"
  /\ UNCHANGED <<prog, buff>>

EraseSector ==
  /\ pc = "erase_sector"
  /\ mem' = SectorErase(mem, op.addr)
  /\ pc' = "idle"
  /\ UNCHANGED <<was, op, prog, buff, data>>

Erased(r) == \A c \in r.addr .. r.addr + r.len - 1 : mem[c] = FF

\* The caller of Write_NoCheck has erased the range.
CallWriteNoCheck ==
  /\ Begin
  /\ \E r \in Ranges :
       /\ Erased(r)
       /\ op' = [NoOp EXCEPT !.fn = "Write_NoCheck", !.start = r.addr, !.size = r.len]
       /\ WriteNoCheck(r.addr, r.len, "data")
  /\ pc' = "program"
  /\ UNCHANGED buff

\* The head of Write_Data.
CallWriteData ==
  /\ Begin
  /\ \E r \in Ranges :
       LET off == r.addr % SPI_FLASH_SectorSize
       IN op' = [fn |-> "Write_Data", addr |-> r.addr, len |-> r.len, start |-> r.addr, size |-> r.len,
                 secpos |-> r.addr \div SPI_FLASH_SectorSize, secoff |-> off,
                 secremain |-> Min2(r.len, SPI_FLASH_SectorSize - off)]
  /\ pc' = "read"
  /\ UNCHANGED <<prog, buff>>

\* The sector is read, and looked at where it will be written.
ReadSector ==
  /\ pc = "read"
  /\ LET base == op.secpos * SPI_FLASH_SectorSize
     IN buff' = [i \in InSec |-> mem[base + i]]
  /\ IF \E i \in 0 .. op.secremain - 1 : buff'[op.secoff + i] # FF
     THEN pc' = "erase" /\ UNCHANGED prog
     ELSE pc' = "program" /\ WriteNoCheck(op.addr, op.secremain, "data")
  /\ UNCHANGED <<mem, was, op, data>>

\* Erase_Sector(secpos): a sector index where a byte address is asked for.
EraseInWrite ==
  /\ pc = "erase"
  /\ mem' = SectorErase(mem, op.secpos)
  /\ buff' = [i \in InSec |-> IF i \in op.secoff .. op.secoff + op.secremain - 1
                              THEN data[op.addr + i - op.secoff] ELSE buff[i]]
  /\ WriteNoCheck(op.secpos * SPI_FLASH_SectorSize, SPI_FLASH_SectorSize, "buff")
  /\ pc' = "program"
  /\ UNCHANGED <<was, op, data>>

\* Mutant: secoff is not cleared for the next sector.
NextSector_KeepsOffset ==
  [op EXCEPT !.secpos = @ + 1, !.addr = @ + op.secremain, !.len = @ - op.secremain,
             !.secremain = Min2(op.len - op.secremain, SPI_FLASH_SectorSize)]

NextSector ==
  [op EXCEPT !.secpos = @ + 1, !.secoff = 0, !.addr = @ + op.secremain, !.len = @ - op.secremain,
             !.secremain = Min2(op.len - op.secremain, SPI_FLASH_SectorSize)]

Source(a) == IF prog.from = "buff" THEN buff[a % SPI_FLASH_SectorSize] ELSE data[a]

\* _25qxx_spi_rw sends the bytes and stores what the chip shifts out meanwhile
\* in their place, whatever that is while it programs.
Overwrite(n) ==
  LET sent == prog.addr .. prog.addr + n - 1
      in_sec == {a % SPI_FLASH_SectorSize : a \in sent}
  IN IF prog.from = "buff"
     THEN buff' = [i \in InSec |-> IF i \in in_sec THEN Junk ELSE buff[i]] /\ UNCHANGED data
     ELSE data' = [c \in Cell |-> IF c \in sent THEN Junk ELSE data[c]] /\ UNCHANGED buff

\* Mutant: the address is not advanced to the next page.
NextPage_SameAddr(n) ==
  [prog EXCEPT !.len = @ - n, !.pageremain = Min2(prog.len - n, SPI_FLASH_PageSize)]

NextPage(n) ==
  [prog EXCEPT !.addr = @ + n, !.len = @ - n, !.pageremain = Min2(prog.len - n, SPI_FLASH_PageSize)]

\* One page, and what follows it: the next page, the next sector or the end.
WritePage ==
  /\ pc = "program"
  /\ LET n == prog.pageremain
     IN /\ mem' = PageProgram(mem, prog.addr, [i \in 0 .. n - 1 |-> Source(prog.addr + i)], n)
        /\ \/ prog.len # n /\ prog' = NextPage(n) /\ UNCHANGED <<op, pc>>
           \/ /\ prog.len = n /\ prog' = NoProg
              /\ IF op.fn = "Write_Data" /\ op.len # op.secremain
                 THEN op' = NextSector /\ pc' = "read"
                 ELSE pc' = "idle" /\ UNCHANGED op
        /\ Overwrite(n)
  /\ UNCHANGED was

\* The power fails: RAM is lost, and the call with it.
PowerFail ==
  /\ pc # "idle"
  /\ pc' = "idle" /\ op' = NoOp /\ prog' = NoProg /\ buff' = [i \in InSec |-> FF]
  /\ mem' = Aged /\ was' = Aged /\ data' = Fresh

Next ==
  \/ CallEraseSector \/ CallWriteNoCheck \/ CallWriteData
  \/ EraseSector \/ ReadSector \/ EraseInWrite \/ WritePage \/ PowerFail

Spec == Init /\ [][Next]_vars

-----------------------------------------------------------------------------
Span == op.start .. op.start + op.size - 1

\* The type of the state; the loops stay within the range.
TypeOK ==
  /\ mem \in [Cell -> Value] /\ was \in [Cell -> Value] /\ buff \in [InSec -> Value]
  /\ data \in [Cell -> Value]
  /\ op.fn \in {"none", "Erase_Sector", "Write_NoCheck", "Write_Data"}
  /\ op.secoff + op.secremain <= SPI_FLASH_SectorSize
  /\ prog.addr \in 0 .. Size /\ prog.len \in 0 .. Size /\ prog.pageremain \in 0 .. SPI_FLASH_PageSize
  /\ prog.from \in {"data", "buff"}
  /\ pc \in {"idle", "erase_sector", "read", "erase", "program"}

Landed == mem = [c \in Cell |-> IF c \in Span THEN New(c) ELSE was[c]]
Ended  == pc = "idle" /\ op.fn \in {"Write_NoCheck", "Write_Data"}
Blank  == \A c \in Span : was[c] = FF

\* A write to an erased range that ends has put every byte where it belongs
\* and has left every other byte as it was: over pages and sectors, from both
\* functions.
WriteLands == Ended /\ Blank => Landed

\* The same of a write to any range, which Write_Data promises and Write_NoCheck
\* is never asked for.
RewriteLands == Ended => Landed

\* Whenever the power fails in a write to an erased range, only that range has
\* changed, and each byte of it is still erased or written.
Confined ==
  [][PowerFail /\ op.fn \in {"Write_NoCheck", "Write_Data"} /\ Blank =>
       \A c \in Cell : mem[c] = was[c] \/ (c \in Span /\ mem[c] = New(c))]_vars
=============================================================================
