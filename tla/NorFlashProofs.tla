--------------------------- MODULE NorFlashProofs ---------------------------
(***************************************************************************)
(* The writes of 25qxx.c land, and stay within their range when the power  *)
(* fails, for every page, sector and chip size and every set of ranges.    *)
(***************************************************************************)
EXTENDS NorFlash, TLAPS

P == SPI_FLASH_PageSize
S == SPI_FLASH_SectorSize
Writes == {"Write_NoCheck", "Write_Data"}

\* The types that hold by themselves.
OpType   == [fn : {"none", "Erase_Sector"} \cup Writes, addr : Nat, len : Nat, start : Nat, size : Nat,
             secpos : Nat, secoff : Nat, secremain : Nat]
ProgType == [addr : Nat, len : Nat, pageremain : Nat, from : {"data", "buff"}]
Types ==
  /\ mem \in [Cell -> Value] /\ was \in [Cell -> Value] /\ buff \in [InSec -> Value] /\ data \in [Cell -> Value]
  /\ op \in OpType /\ prog \in ProgType
  /\ pc \in {"idle", "erase_sector", "read", "erase", "program"}

\* The loop of Write_Data: it is at a sector of its range, and what it writes
\* next ends with the sector or with the range.
InSectors ==
  /\ op.addr = S * op.secpos + op.secoff
  /\ op.start <= op.addr /\ op.addr + op.len = op.start + op.size
  /\ op.secremain > 0 /\ op.secremain <= op.len
  /\ op.secremain = op.len \/ op.secoff + op.secremain = S

\* The loop of Write_NoCheck: what it programs next ends with the page or with
\* its range, and this is what its caller gave it.
InPages ==
  /\ prog.addr + prog.len <= Size
  /\ prog.pageremain > 0 /\ prog.pageremain <= prog.len
  /\ (prog.addr % P) + prog.pageremain <= P
  /\ prog.pageremain = prog.len \/ (prog.addr % P) + prog.pageremain = P
  /\ prog.from = "data" =>
       /\ op.start <= prog.addr
       /\ prog.addr + prog.len = IF op.fn = "Write_Data" THEN op.addr + op.secremain ELSE op.start + op.size

Loops ==
  /\ op.start + op.size <= Size /\ op.secoff + op.secremain <= S
  /\ pc = "erase_sector" => op.fn = "Erase_Sector"
  /\ pc \in {"read", "erase"} => op.fn = "Write_Data"
  /\ pc # "idle" /\ op.fn = "Write_Data" => InSectors
  /\ IF pc = "program" THEN op.fn \in Writes /\ InPages ELSE prog = NoProg
  /\ pc = "program" /\ prog.from = "buff" => op.fn = "Write_Data"

\* How far the write is: what is below is written, and the rest is as it was,
\* on the chip and in the caller's buffer.
Done == IF pc = "idle" THEN op.start + op.size ELSE IF pc = "program" THEN prog.addr ELSE op.addr
Reached ==
  op.fn \in Writes /\ Blank =>
    /\ pc # "erase" /\ (pc = "program" => prog.from = "data")
    /\ \A c \in Cell : mem[c] = IF op.start <= c /\ c < Done THEN New(c) ELSE was[c]
    /\ pc # "idle" => \A c \in Cell : Done <= c => data[c] = New(c)

IInv == Types /\ Loops /\ Reached

-----------------------------------------------------------------------------
(* Quotients and remainders.                                               *)

LEMMA DivMod ==
  ASSUME NEW a \in Nat, NEW n \in Nat \ {0}
  PROVE  a \div n \in Nat /\ a % n \in 0 .. n - 1 /\ a = n * (a \div n) + (a % n)
OBVIOUS

LEMMA Mult ==
  ASSUME NEW n \in Nat \ {0}, NEW q \in Int, NEW p \in Int, q < p
  PROVE  n * q + n <= n * p /\ n * q \in Int /\ n * p \in Int
OBVIOUS

\* Division is unique.
LEMMA Unique ==
  ASSUME NEW n \in Nat \ {0}, NEW q \in Nat, NEW p \in Nat, NEW r \in 0 .. n - 1, NEW s \in 0 .. n - 1,
         n * q + r = n * p + s
  PROVE  q = p /\ r = s
<1>1. ~(q < p)
  <2> SUFFICES ASSUME q < p PROVE FALSE
    OBVIOUS
  <2>1. n * q + n <= n * p /\ n * q \in Int /\ n * p \in Int
    BY Mult
  <2> QED
    BY <2>1
<1>2. ~(p < q)
  <2> SUFFICES ASSUME p < q PROVE FALSE
    OBVIOUS
  <2>1. n * p + n <= n * q /\ n * q \in Int /\ n * p \in Int
    BY Mult
  <2> QED
    BY <2>1
<1>3. q = p
  BY <1>1, <1>2
<1>4. n * q \in Int
  OBVIOUS
<1> QED
  BY <1>3, <1>4

\* Within a page or a sector, and at its end.
LEMMA ModAdd ==
  ASSUME NEW n \in Nat \ {0}, NEW a \in Nat, NEW i \in Nat, (a % n) + i < n
  PROVE  (a + i) % n = (a % n) + i
<1> DEFINE q == a \div n
           r == a % n
           p == (a + i) \div n
           s == (a + i) % n
<1>1. q \in Nat /\ r \in 0 .. n - 1 /\ a = n * q + r
  BY DivMod
<1>2. p \in Nat /\ s \in 0 .. n - 1 /\ a + i = n * p + s
  <2>1. a + i \in Nat
    OBVIOUS
  <2> QED
    BY <2>1, DivMod
<1>3. r + i < n
  OBVIOUS
<1> HIDE DEF q, r, p, s
<1>4. n * q \in Nat /\ n * p \in Nat
  BY <1>1, <1>2
<1>5. r + i \in 0 .. n - 1 /\ n * q + (r + i) = n * p + s
  BY <1>1, <1>2, <1>3, <1>4
<1>6. q = p /\ r + i = s
  BY <1>1, <1>2, <1>5, Unique
<1> QED
  BY <1>6 DEF q, r, p, s

LEMMA ModEnd ==
  ASSUME NEW n \in Nat \ {0}, NEW a \in Nat, NEW i \in Nat, (a % n) + i = n
  PROVE  (a + i) % n = 0
<1> DEFINE q == a \div n
           r == a % n
           p == (a + i) \div n
           s == (a + i) % n
<1>1. q \in Nat /\ r \in 0 .. n - 1 /\ a = n * q + r
  BY DivMod
<1>2. p \in Nat /\ s \in 0 .. n - 1 /\ a + i = n * p + s
  <2>1. a + i \in Nat
    OBVIOUS
  <2> QED
    BY <2>1, DivMod
<1>3. r + i = n
  OBVIOUS
<1> HIDE DEF q, r, p, s
<1>4. n * q \in Nat /\ n * p \in Nat /\ n * (q + 1) = n * q + n
  BY <1>1, <1>2
<1>5. 0 \in 0 .. n - 1 /\ n * (q + 1) + 0 = n * p + s /\ q + 1 \in Nat
  BY <1>1, <1>2, <1>3, <1>4
<1>6. q + 1 = p /\ 0 = s
  BY <1>1, <1>2, <1>5, Unique
<1> QED
  BY <1>6 DEF q, r, p, s

LEMMA Commutes == ASSUME NEW a \in Nat, NEW b \in Nat PROVE a * b = b * a
OBVIOUS

LEMMA Consts ==
  /\ P \in Nat \ {0} /\ S \in Nat \ {0} /\ Sectors \in Nat \ {0}
  /\ Size \in Nat /\ Size = S * Sectors
  /\ Cell = 0 .. Size - 1 /\ InSec = 0 .. S - 1
  /\ \A r \in Ranges : r.addr \in Nat /\ r.len \in Nat /\ r.len > 0 /\ r.addr + r.len <= Size
BY SizeAssumption, RangesAssumption DEF P, S, Size, Cell, InSec

LEMMA Values ==
  /\ FF \in Value /\ Junk \in Value
  /\ \A c \in Cell : Old(c) \in Value /\ New(c) \in Value
BY Consts DEF FF, Junk, Old, New, Value

LEMMA InPage == ASSUME NEW a \in Nat PROVE a % P \in Nat /\ a % P < P
BY Consts, DivMod

\* A sector that holds a byte of the chip is of the chip.
LEMMA SectorInside ==
  ASSUME NEW k \in Nat, S * k < Size
  PROVE  S * k \in Nat /\ S * k + S <= Size
<1>1. k < Sectors
  <2> SUFFICES ASSUME Sectors <= k PROVE FALSE
    BY Consts
  <2>1. CASE Sectors = k
    BY <2>1, Consts
  <2>2. CASE Sectors < k
    BY <2>2, Consts, Mult
  <2> QED
    BY <2>1, <2>2, Consts
<1>2. S * k + S <= S * Sectors /\ S * k \in Int
  BY <1>1, Consts, Mult
<1> QED
  BY <1>2, Consts

-----------------------------------------------------------------------------
(* The chip.                                                               *)

\* A page program that stays in its page.
LEMMA ProgramPage ==
  ASSUME NEW m, NEW a \in Nat, NEW n \in Nat, NEW bytes, (a % P) + n <= P, NEW c \in Cell
  PROVE  PageProgram(m, a, bytes, n)[c] =
           IF a <= c /\ c < a + n
           THEN IF m[c] = FF THEN bytes[c - a] ELSE IF bytes[c - a] = FF THEN m[c] ELSE Junk
           ELSE m[c]
<1> DEFINE page == a - (a % P)
           at(i) == page + ((a + i) % P)
           hit == \E i \in 0 .. n - 1 : at(i) = c
           pick == CHOOSE i \in 0 .. n - 1 : at(i) = c
<1>1. a % P \in Nat /\ c \in Nat
  BY Consts, DivMod
<1>2. \A i \in 0 .. n - 1 : at(i) = a + i
  <2> SUFFICES ASSUME NEW i \in 0 .. n - 1 PROVE at(i) = a + i
    OBVIOUS
  <2>1. i \in Nat /\ (a % P) + i < P
    BY <1>1, Consts
  <2>2. (a + i) % P = (a % P) + i
    BY <2>1, Consts, ModAdd
  <2> QED
    BY <1>1, <2>1, <2>2
<1>3. PageProgram(m, a, bytes, n)[c] =
        IF hit THEN IF m[c] = FF THEN bytes[pick] ELSE IF bytes[pick] = FF THEN m[c] ELSE Junk ELSE m[c]
  BY DEF PageProgram, P
<1> HIDE DEF page, at
<1>4. hit <=> a <= c /\ c < a + n
  <2>1. ASSUME a <= c, c < a + n PROVE hit
    <3>1. c - a \in 0 .. n - 1
      BY <1>1, <2>1
    <3> QED
      BY <1>1, <1>2, <3>1
  <2>2. ASSUME hit PROVE a <= c /\ c < a + n
    BY <1>1, <1>2, <2>2
  <2> QED
    BY <2>1, <2>2
<1>5. hit => pick = c - a
  <2> SUFFICES ASSUME hit PROVE pick = c - a
    OBVIOUS
  <2>1. pick \in 0 .. n - 1 /\ at(pick) = c
    OBVIOUS
  <2> HIDE DEF pick
  <2> QED
    BY <1>1, <1>2, <2>1
<1> HIDE DEF hit, pick
<1> QED
  BY <1>3, <1>4, <1>5

LEMMA ProgramType ==
  ASSUME NEW m \in [Cell -> Value], NEW a \in Nat, NEW n \in Nat, NEW bytes, (a % P) + n <= P,
         \A i \in 0 .. n - 1 : bytes[i] \in Value
  PROVE  PageProgram(m, a, bytes, n) \in [Cell -> Value]
<1>1. \A c \in Cell : PageProgram(m, a, bytes, n)[c] \in Value
  <2> SUFFICES ASSUME NEW c \in Cell PROVE PageProgram(m, a, bytes, n)[c] \in Value
    OBVIOUS
  <2>1. a <= c /\ c < a + n => c - a \in 0 .. n - 1
    BY Consts
  <2> QED
    BY <2>1, ProgramPage, Values
<1>2. \E f : PageProgram(m, a, bytes, n) = [c \in Cell |-> f[c]]
  <2> DEFINE f == PageProgram(m, a, bytes, n)
  <2>1. f = [c \in Cell |-> f[c]]
    BY DEF PageProgram
  <2> QED
    BY <2>1
<1> QED
  BY <1>1, <1>2

LEMMA EraseType == ASSUME NEW m \in [Cell -> Value], NEW a PROVE SectorErase(m, a) \in [Cell -> Value]
BY Values DEF SectorErase

-----------------------------------------------------------------------------
(* The calls and their ends.                                               *)

LEMMA AgedType == ASSUME Types PROVE Aged \in [Cell -> Value]
BY Values DEF Types, Aged

LEMMA FreshType == Fresh \in [Cell -> Value] /\ \A c \in Cell : Fresh[c] = New(c)
BY Values DEF Fresh

LEMMA Nothing == NoOp \in OpType /\ NoProg \in ProgType /\ NoOp.fn = "none" /\ NoOp.start = 0 /\ NoOp.size = 0
                 /\ NoOp.secoff = 0 /\ NoOp.secremain = 0
BY DEF NoOp, NoProg, OpType, ProgType

LEMMA InitInv == ASSUME Init PROVE IInv
<1>1. mem \in [Cell -> Value] /\ buff \in [InSec -> Value]
  BY Values DEF Init
<1>2. Types
  BY <1>1, Nothing, FreshType DEF Init, Types
<1>3. Loops
  BY Nothing, Consts DEF Init, Loops
<1>4. Reached
  BY Nothing DEF Init, Reached, Writes
<1> QED
  BY <1>2, <1>3, <1>4 DEF IInv

\* The first page of a range.
LEMMA FirstPage ==
  ASSUME NEW a \in Nat, NEW n \in Nat, n > 0, NEW from \in {"data", "buff"}, WriteNoCheck(a, n, from)
  PROVE  /\ prog' \in ProgType /\ prog'.addr = a /\ prog'.len = n /\ prog'.from = from
         /\ prog'.pageremain > 0 /\ prog'.pageremain <= n
         /\ (a % P) + prog'.pageremain <= P
         /\ prog'.pageremain = n \/ (a % P) + prog'.pageremain = P
<1>1. a % P \in 0 .. P - 1 /\ P \in Nat
  BY Consts, DivMod
<1> DEFINE q == Min2(n, P - (a % P))
<1>2. q \in Nat /\ q > 0 /\ q <= n /\ (a % P) + q <= P /\ (q = n \/ (a % P) + q = P)
  BY <1>1 DEF Min2
<1>3. prog' = [addr |-> a, len |-> n, from |-> from, pageremain |-> q]
  BY DEF WriteNoCheck, P
<1> HIDE DEF q
<1> QED
  BY <1>2, <1>3 DEF ProgType

LEMMA CallEraseInv == ASSUME IInv, CallEraseSector PROVE IInv'
<1>0. PICK s \in 0 .. Sectors - 1 :
      op' = [NoOp EXCEPT !.fn = "Erase_Sector", !.addr = s * SPI_FLASH_SectorSize,
                         !.start = s * SPI_FLASH_SectorSize, !.size = SPI_FLASH_SectorSize]
  BY DEF CallEraseSector
<1> DEFINE k == s * SPI_FLASH_SectorSize
<1>1. k = S * s /\ k \in Nat /\ k + S <= Size
  <2>1. s \in Nat /\ S * s < S * Sectors
    BY Consts, Mult
  <2> QED
    BY <2>1, SectorInside, Consts DEF S
<1>2. op' = [fn |-> "Erase_Sector", addr |-> k, len |-> 0, start |-> k, size |-> S,
             secpos |-> 0, secoff |-> 0, secremain |-> 0]
  BY <1>0 DEF NoOp, S
<1> HIDE DEF k
<1>3. op' \in OpType
  BY <1>1, <1>2, Consts DEF OpType
<1>4. Types'
  BY <1>3, AgedType, FreshType DEF IInv, Types, CallEraseSector, Begin
<1>5. Loops'
  <2>1. op'.fn = "Erase_Sector" /\ op'.start = k /\ op'.size = S /\ op'.secoff = 0 /\ op'.secremain = 0
    BY <1>2
  <2>2. pc' = "erase_sector" /\ prog' = NoProg
    BY DEF IInv, Loops, CallEraseSector, Begin
  <2> QED
    BY <1>1, <2>1, <2>2, Consts DEF Loops
<1>6. Reached'
  BY <1>2 DEF Reached, Writes
<1> QED
  BY <1>4, <1>5, <1>6 DEF IInv

LEMMA EraseInv == ASSUME IInv, EraseSector PROVE IInv'
<1>1. Types'
  BY EraseType DEF IInv, Types, EraseSector
<1>2. Loops'
  BY DEF IInv, Loops, EraseSector
<1>3. op'.fn \notin Writes
  <2>1. op' = op /\ pc = "erase_sector"
    BY DEF EraseSector
  <2>2. op.fn = "Erase_Sector"
    BY <2>1 DEF IInv, Loops
  <2> QED
    BY <2>1, <2>2 DEF Writes
<1>4. Reached'
  BY <1>3 DEF Reached
<1> QED
  BY <1>1, <1>2, <1>4 DEF IInv

LEMMA PowerInv == ASSUME IInv, PowerFail PROVE IInv'
<1>1. Types'
  BY AgedType, FreshType, Nothing, Values DEF IInv, Types, PowerFail
<1>2. Loops'
  BY Nothing, Consts DEF Loops, PowerFail
<1>3. op'.fn \notin Writes
  BY Nothing DEF PowerFail, Writes
<1>4. Reached'
  BY <1>3 DEF Reached
<1> QED
  BY <1>1, <1>2, <1>4 DEF IInv

LEMMA CallNoCheckInv == ASSUME IInv, CallWriteNoCheck PROVE IInv'
<1>0. PICK r \in Ranges :
      /\ op' = [NoOp EXCEPT !.fn = "Write_NoCheck", !.start = r.addr, !.size = r.len]
      /\ WriteNoCheck(r.addr, r.len, "data")
  BY DEF CallWriteNoCheck
<1> DEFINE a == r.addr
           n == r.len
<1>1. a \in Nat /\ n \in Nat /\ n > 0 /\ a + n <= Size
  BY Consts
<1>2. op' = [fn |-> "Write_NoCheck", addr |-> 0, len |-> 0, start |-> a, size |-> n,
             secpos |-> 0, secoff |-> 0, secremain |-> 0]
  BY <1>0 DEF NoOp
<1> HIDE DEF a, n
<1>3. op' \in OpType /\ op'.fn = "Write_NoCheck" /\ op'.start = a /\ op'.size = n
      /\ op'.secoff = 0 /\ op'.secremain = 0
  <2>1. op' \in OpType
    BY <1>1, <1>2 DEF OpType, Writes
  <2> QED
    BY <1>2, <2>1
<1>4. /\ prog' \in ProgType /\ prog'.addr = a /\ prog'.len = n /\ prog'.from = "data"
      /\ prog'.pageremain > 0 /\ prog'.pageremain <= n /\ (a % P) + prog'.pageremain <= P
      /\ prog'.pageremain = n \/ (a % P) + prog'.pageremain = P
  BY <1>0, <1>1, FirstPage DEF a, n
<1>5. pc' = "program" /\ mem' = Aged /\ was' = Aged /\ data' = Fresh /\ buff' = buff
  BY DEF CallWriteNoCheck, Begin
<1>6. Types'
  BY <1>3, <1>4, <1>5, AgedType, FreshType DEF IInv, Types
<1>7. Loops'
  BY <1>1, <1>3, <1>4, <1>5, Consts DEF Loops, InPages, Writes
<1>8. Reached'
  BY <1>1, <1>3, <1>4, <1>5, Consts, FreshType DEF Reached, Done
<1> QED
  BY <1>6, <1>7, <1>8 DEF IInv

LEMMA CallWriteInv == ASSUME IInv, CallWriteData PROVE IInv'
<1>0. PICK r \in Ranges :
      op' = [fn |-> "Write_Data", addr |-> r.addr, len |-> r.len, start |-> r.addr, size |-> r.len,
             secpos |-> r.addr \div SPI_FLASH_SectorSize, secoff |-> r.addr % SPI_FLASH_SectorSize,
             secremain |-> Min2(r.len, SPI_FLASH_SectorSize - (r.addr % SPI_FLASH_SectorSize))]
  BY DEF CallWriteData
<1>1. r.addr \in Nat /\ r.len \in Nat /\ r.len > 0 /\ r.addr + r.len <= Size
  BY Consts
<1> DEFINE k == r.addr \div S
           o == r.addr % S
           m == Min2(r.len, S - o)
<1>2. k \in Nat /\ o \in 0 .. S - 1 /\ r.addr = S * k + o
  BY <1>1, Consts, DivMod
<1>3. op' = [fn |-> "Write_Data", addr |-> r.addr, len |-> r.len, start |-> r.addr, size |-> r.len,
             secpos |-> k, secoff |-> o, secremain |-> m]
  BY <1>0 DEF S
<1> HIDE DEF k, o
<1>4. m \in Nat /\ m > 0 /\ m <= r.len /\ o + m <= S /\ (m = r.len \/ o + m = S) /\ o \in Nat
  BY <1>1, <1>2, Consts DEF Min2
<1> HIDE DEF m
<1>5. /\ op' \in OpType /\ op'.fn = "Write_Data" /\ op'.start = r.addr /\ op'.size = r.len
      /\ op'.addr = r.addr /\ op'.len = r.len /\ op'.secpos = k /\ op'.secoff = o /\ op'.secremain = m
  BY <1>1, <1>2, <1>3, <1>4 DEF OpType, Writes
<1>6. pc' = "read" /\ mem' = Aged /\ was' = Aged /\ data' = Fresh /\ buff' = buff /\ prog' = prog
      /\ prog = NoProg
  BY DEF CallWriteData, Begin, IInv, Loops
<1>7. Types'
  BY <1>5, <1>6, AgedType, FreshType DEF IInv, Types
<1>8. Loops'
  BY <1>1, <1>2, <1>4, <1>5, <1>6, Consts DEF Loops, InSectors
<1>9. Reached'
  BY <1>1, <1>5, <1>6, Consts, FreshType DEF Reached, Done
<1> QED
  BY <1>7, <1>8, <1>9 DEF IInv

-----------------------------------------------------------------------------
(* The loops.                                                              *)

\* The sector of Write_Data is one of the chip.
LEMMA InChip ==
  ASSUME IInv, op.fn = "Write_Data", pc # "idle"
  PROVE  /\ op.addr \in Nat /\ op.len \in Nat /\ op.start \in Nat /\ op.size \in Nat
         /\ op.secpos \in Nat /\ op.secoff \in Nat /\ op.secremain \in Nat
         /\ S * op.secpos \in Nat /\ S * op.secpos + S <= Size
         /\ op.addr + op.secremain <= Size
<1>1. /\ op.addr \in Nat /\ op.len \in Nat /\ op.start \in Nat /\ op.size \in Nat
      /\ op.secpos \in Nat /\ op.secoff \in Nat /\ op.secremain \in Nat
  BY DEF IInv, Types, OpType
<1>2. InSectors /\ op.start + op.size <= Size
  BY DEF IInv, Loops
<1> DEFINE k == op.secpos
<1>3. S * k \in Nat /\ op.addr = S * k + op.secoff
  <2>1. S * k \in Nat
    BY <1>1, Consts
  <2> QED
    BY <1>2, <2>1 DEF InSectors
<1>4. op.addr + op.secremain <= Size /\ op.addr < Size
  BY <1>1, <1>2, Consts DEF InSectors
<1>5. S * k < Size
  <2> DEFINE x == S * k
  <2> HIDE DEF x
  <2>1. x \in Nat /\ op.addr = x + op.secoff
    BY <1>3 DEF x
  <2>2. x < Size
    BY <1>1, <1>4, <2>1, Consts
  <2> QED
    BY <2>2 DEF x
<1> QED
  BY <1>1, <1>3, <1>4, <1>5, SectorInside

\* The sector is found blank where it is written, if it was.
LEMMA ReadInv == ASSUME IInv, ReadSector PROVE IInv'
<1> DEFINE base == op.secpos * SPI_FLASH_SectorSize
<1>1. op.fn = "Write_Data" /\ pc = "read" /\ InSectors
  BY DEF IInv, Loops, ReadSector
<1>2. /\ op.addr \in Nat /\ op.len \in Nat /\ op.start \in Nat /\ op.size \in Nat
      /\ op.secpos \in Nat /\ op.secoff \in Nat /\ op.secremain \in Nat
      /\ op.addr + op.secremain <= Size /\ op.start + op.size <= Size
  BY <1>1, InChip DEF IInv, Loops
<1>3. base \in Nat /\ base + S <= Size /\ op.addr = base + op.secoff /\ op.secoff + op.secremain <= S
  <2>1. base = S * op.secpos
    BY <1>2, Consts, Commutes DEF S
  <2>2. op.addr = S * op.secpos + op.secoff /\ op.secoff + op.secremain <= S
    BY <1>1 DEF InSectors, IInv, Loops
  <2> HIDE DEF base
  <2> QED
    BY <1>1, <2>1, <2>2, InChip
<1>4. buff' = [i \in InSec |-> mem[base + i]] /\ mem' = mem /\ was' = was /\ op' = op /\ data' = data
  BY DEF ReadSector
<1>5. \/ pc' = "erase" /\ prog' = prog /\ \E i \in 0 .. op.secremain - 1 : buff'[op.secoff + i] # FF
      \/ pc' = "program" /\ WriteNoCheck(op.addr, op.secremain, "data")
  BY DEF ReadSector
<1> HIDE DEF base
<1>6. pc' = "program" =>
        /\ prog' \in ProgType /\ prog'.addr = op.addr /\ prog'.len = op.secremain /\ prog'.from = "data"
        /\ prog'.pageremain > 0 /\ prog'.pageremain <= op.secremain
        /\ (op.addr % P) + prog'.pageremain <= P
        /\ prog'.pageremain = op.secremain \/ (op.addr % P) + prog'.pageremain = P
  BY <1>1, <1>2, <1>5, FirstPage DEF InSectors
<1>7. \A i \in InSec : base + i \in Cell
  BY <1>3, Consts
<1>8. prog = NoProg
  BY <1>1 DEF IInv, Loops
<1>9. Types'
  <2>1. buff' \in [InSec -> Value]
    BY <1>4, <1>7 DEF IInv, Types
  <2> QED
    BY <1>4, <1>5, <1>6, <1>8, <2>1, Nothing DEF IInv, Types
<1>10. InSectors'
  BY <1>1, <1>4 DEF InSectors
<1>11. Loops'
  <2>1. pc' = "program" => InPages'
    BY <1>1, <1>2, <1>4, <1>6, Consts DEF InPages, InSectors
  <2> QED
    BY <1>1, <1>3, <1>4, <1>5, <1>6, <1>8, <1>10, <2>1 DEF IInv, Loops, Writes
<1>12. Reached'
  <2> SUFFICES ASSUME Blank
               PROVE  Reached'
    BY <1>4 DEF Reached, Blank, Span
  <2>1. \A c \in Cell : mem[c] = IF op.start <= c /\ c < op.addr THEN New(c) ELSE was[c]
    BY <1>1 DEF IInv, Reached, Done, Writes
  <2>2. \A c \in Cell : op.addr <= c => data[c] = New(c)
    BY <1>1 DEF IInv, Reached, Done, Writes
  <2>3. pc' # "erase"
    <3> SUFFICES ASSUME NEW i \in 0 .. op.secremain - 1 PROVE buff'[op.secoff + i] = FF
      BY <1>5
    <3>0. i \in Nat /\ i < op.secremain
      BY <1>2
    <3>1. op.secoff + i \in InSec /\ base + (op.secoff + i) = op.addr + i /\ op.addr + i \in Cell /\ i \in Nat
      <4>1. op.secoff + i \in InSec
        <5>1. S \in Nat /\ InSec = 0 .. S - 1
          BY Consts
        <5>2. op.secoff + i \in Nat /\ op.secoff + i < S
          <6>1. op.secoff \in Nat /\ op.secremain \in Nat /\ op.secoff + op.secremain <= S
            BY <1>2, <1>3
          <6> QED
            BY <3>0, <5>1, <6>1
        <5> QED
          BY <5>1, <5>2
      <4>2. base + (op.secoff + i) = op.addr + i
        BY <1>2, <1>3, <3>0
      <4>3. op.addr + i \in Cell
        BY <1>2, <3>0, Consts
      <4> QED
        BY <3>0, <4>1, <4>2, <4>3
    <3>2. op.addr + i \in Span /\ op.addr <= op.addr + i
      BY <1>1, <1>2, <3>1 DEF InSectors, Span
    <3>3. mem[op.addr + i] = was[op.addr + i]
      BY <1>2, <2>1, <3>1, <3>2
    <3> QED
      BY <1>4, <3>1, <3>2, <3>3 DEF Blank
  <2>4. pc' = "program" /\ prog'.addr = op.addr /\ prog'.from = "data"
    BY <1>5, <1>6, <2>3
  <2> QED
    BY <1>4, <2>1, <2>2, <2>4 DEF Reached, Done
<1> QED
  BY <1>9, <1>11, <1>12 DEF IInv

LEMMA EraseWriteInv == ASSUME IInv, EraseInWrite PROVE IInv'
<1>1. op.fn = "Write_Data" /\ pc = "erase" /\ InSectors /\ ~Blank
  BY DEF IInv, Loops, Reached, Writes, EraseInWrite
<1> DEFINE base == op.secpos * SPI_FLASH_SectorSize
           b == [i \in InSec |-> IF i \in op.secoff .. op.secoff + op.secremain - 1
                                 THEN data[op.addr + i - op.secoff] ELSE buff[i]]
<1>2. /\ op.addr \in Nat /\ op.secoff \in Nat /\ op.secremain \in Nat /\ op.addr + op.secremain <= Size
      /\ op.secpos \in Nat
  BY <1>1, InChip
<1>3. base \in Nat /\ base + S <= Size
  <2>1. base = S * op.secpos
    BY <1>2, Consts, Commutes DEF S
  <2> HIDE DEF base
  <2> QED
    BY <1>1, <2>1, InChip
<1>4. /\ mem' = SectorErase(mem, op.secpos) /\ was' = was /\ op' = op /\ data' = data /\ pc' = "program"
      /\ buff' = b /\ WriteNoCheck(base, S, "buff")
  BY DEF EraseInWrite, S
<1>5. b \in [InSec -> Value]
  <2>1. \A i \in InSec : i \in op.secoff .. op.secoff + op.secremain - 1 => op.addr + i - op.secoff \in Cell
    BY <1>2, Consts
  <2> QED
    BY <2>1 DEF IInv, Types
<1> HIDE DEF base, b
<1>6. /\ prog' \in ProgType /\ prog'.addr = base /\ prog'.len = S /\ prog'.from = "buff"
      /\ prog'.pageremain > 0 /\ prog'.pageremain <= S
      /\ (base % P) + prog'.pageremain <= P
      /\ prog'.pageremain = S \/ (base % P) + prog'.pageremain = P
  BY <1>3, <1>4, Consts, FirstPage
<1>7. Types'
  BY <1>4, <1>5, <1>6, EraseType DEF IInv, Types
<1>8. InSectors' /\ InPages'
  BY <1>1, <1>3, <1>4, <1>6 DEF InSectors, InPages
<1>9. Loops'
  BY <1>1, <1>4, <1>8 DEF IInv, Loops, Writes
<1>10. Reached'
  BY <1>1, <1>4 DEF Reached, Blank, Span
<1> QED
  BY <1>7, <1>9, <1>10 DEF IInv

\* What a page program finds.
LEMMA PageFacts ==
  ASSUME IInv, pc = "program"
  PROVE  /\ prog.addr \in Nat /\ prog.len \in Nat /\ prog.pageremain \in Nat /\ prog.from \in {"data", "buff"}
         /\ op.fn \in Writes /\ InPages /\ op.start \in Nat /\ op.size \in Nat
         /\ \A i \in 0 .. prog.pageremain - 1 : Source(prog.addr + i) \in Value
<1>1. /\ prog.addr \in Nat /\ prog.len \in Nat /\ prog.pageremain \in Nat /\ prog.from \in {"data", "buff"}
      /\ op.start \in Nat /\ op.size \in Nat
  BY DEF IInv, Types, ProgType, OpType
<1>2. op.fn \in Writes /\ InPages
  BY DEF IInv, Loops
<1>3. ASSUME NEW i \in 0 .. prog.pageremain - 1 PROVE Source(prog.addr + i) \in Value
  <2>1. prog.addr + i \in Cell /\ prog.addr + i \in Nat
    <3>1. i \in Nat /\ i < prog.pageremain
      BY <1>1
    <3>2. prog.addr + prog.len <= Size /\ prog.pageremain <= prog.len
      BY <1>2 DEF InPages
    <3>3. Size \in Nat /\ Cell = 0 .. Size - 1
      BY Consts
    <3> QED
      BY <1>1, <3>1, <3>2, <3>3
  <2>2. (prog.addr + i) % SPI_FLASH_SectorSize \in InSec
    BY <2>1, Consts, DivMod DEF S
  <2> QED
    BY <2>1, <2>2 DEF Source, IInv, Types
<1> QED
  BY <1>1, <1>2, <1>3

\* What is sent is overwritten, and nothing else.
LEMMA OverwriteFacts ==
  ASSUME Types, NEW n \in Nat, prog.addr \in Nat, Overwrite(n)
  PROVE  /\ buff' \in [InSec -> Value] /\ data' \in [Cell -> Value]
         /\ \A c \in Cell : prog.addr + n <= c => data'[c] = data[c]
<1> DEFINE sent == prog.addr .. prog.addr + n - 1
           in_sec == {a % SPI_FLASH_SectorSize : a \in sent}
           b == [i \in InSec |-> IF i \in in_sec THEN Junk ELSE buff[i]]
           d == [c \in Cell |-> IF c \in sent THEN Junk ELSE data[c]]
<1>1. (buff' = b /\ data' = data) \/ (data' = d /\ buff' = buff)
  BY DEF Overwrite
<1>2. \A c \in Cell : prog.addr + n <= c => c \notin sent
  BY Consts
<1> HIDE DEF sent, in_sec
<1>3. b \in [InSec -> Value] /\ d \in [Cell -> Value]
  BY Values DEF Types
<1>4. \A c \in Cell : prog.addr + n <= c => d[c] = data[c]
  BY <1>2
<1> HIDE DEF b, d
<1> QED
  BY <1>1, <1>3, <1>4 DEF Types

\* The pages of the loop: each but the first begins where its page does.
LEMMA NextPageInv ==
  ASSUME IInv, pc = "program", prog.len # prog.pageremain, prog' = NextPage(prog.pageremain)
  PROVE  /\ prog' \in ProgType /\ prog'.from = prog.from /\ prog'.addr = prog.addr + prog.pageremain
         /\ prog'.addr + prog'.len = prog.addr + prog.len
         /\ prog'.pageremain > 0 /\ prog'.pageremain <= prog'.len
         /\ (prog'.addr % P) + prog'.pageremain <= P
         /\ prog'.pageremain = prog'.len \/ (prog'.addr % P) + prog'.pageremain = P
<1> DEFINE a == prog.addr
           l == prog.len
           n == prog.pageremain
           q == Min2(l - n, P)
<1>1. a \in Nat /\ l \in Nat /\ n \in Nat /\ n > 0 /\ n < l /\ (a % P) + n = P /\ P \in Nat \ {0}
  BY PageFacts, Consts DEF InPages
<1>2. (a + n) % P = 0
  BY <1>1, ModEnd
<1>3. q \in Nat /\ q > 0 /\ q <= l - n /\ q <= P /\ (q = l - n \/ q = P)
  BY <1>1 DEF Min2
<1>4. prog'.addr = a + n /\ prog'.len = l - n /\ prog'.pageremain = q /\ prog'.from = prog.from
      /\ prog' \in ProgType
  <2>1. prog' = [prog EXCEPT !.addr = a + n, !.len = l - n, !.pageremain = q]
    BY DEF NextPage, P
  <2>2. prog \in ProgType /\ a + n \in Nat /\ l - n \in Nat
    BY <1>1 DEF IInv, Types
  <2> HIDE DEF q
  <2> QED
    BY <1>3, <2>1, <2>2 DEF ProgType
<1> HIDE DEF q
<1> QED
  BY <1>1, <1>2, <1>3, <1>4

\* The sectors of the loop: each but the first is written from its start.
LEMMA NextSectorInv ==
  ASSUME IInv, pc = "program", op.fn = "Write_Data", op.len # op.secremain, op' = NextSector
  PROVE  /\ op' \in OpType /\ op'.fn = op.fn /\ op'.start = op.start /\ op'.size = op.size
         /\ op'.addr = op.addr + op.secremain /\ op'.secoff + op'.secremain <= S
         /\ InSectors'
<1>1. /\ op.addr \in Nat /\ op.len \in Nat /\ op.start \in Nat /\ op.size \in Nat
      /\ op.secpos \in Nat /\ op.secoff \in Nat /\ op.secremain \in Nat /\ S \in Nat \ {0}
  BY InChip, Consts
<1>2. InSectors
  BY DEF IInv, Loops
<1> DEFINE a == op.addr
           l == op.len
           k == op.secpos
           r == op.secremain
           q == Min2(l - r, S)
<1>3. r < l /\ op.secoff + r = S /\ a = S * k + op.secoff /\ a + l = op.start + op.size /\ op.start <= a
  <2> DEFINE x == S * k
  <2>1. a = x + op.secoff /\ op.start <= a /\ a + l = op.start + op.size /\ r <= l
        /\ (r = l \/ op.secoff + r = S)
    BY <1>2 DEF InSectors
  <2> HIDE DEF x
  <2>2. r < l /\ op.secoff + r = S
    BY <1>1, <2>1
  <2> QED
    BY <2>1, <2>2 DEF x
<1>4. q \in Nat /\ q > 0 /\ q <= l - r /\ q <= S /\ (q = l - r \/ q = S)
  BY <1>1, <1>3 DEF Min2
<1>5. /\ op' \in OpType /\ op'.fn = op.fn /\ op'.start = op.start /\ op'.size = op.size /\ op'.addr = a + r
      /\ op'.len = l - r /\ op'.secpos = k + 1 /\ op'.secoff = 0 /\ op'.secremain = q
  <2>1. op' = [op EXCEPT !.secpos = k + 1, !.secoff = 0, !.addr = a + r, !.len = l - r, !.secremain = q]
    BY DEF NextSector, S
  <2>2. op \in OpType /\ a + r \in Nat /\ l - r \in Nat /\ k + 1 \in Nat
    BY <1>1, <1>3 DEF IInv, Types
  <2> HIDE DEF q
  <2>3. op'.fn = op.fn /\ op'.start = op.start /\ op'.size = op.size
    BY <2>1, <2>2 DEF OpType
  <2>4. op'.addr = a + r /\ op'.len = l - r
    BY <2>1, <2>2 DEF OpType
  <2>5. op'.secpos = k + 1 /\ op'.secoff = 0 /\ op'.secremain = q
    BY <2>1, <2>2 DEF OpType
  <2>6. op' \in OpType
    <3>1. op' = [fn |-> op.fn, addr |-> a + r, len |-> l - r, start |-> op.start, size |-> op.size,
                 secpos |-> k + 1, secoff |-> 0, secremain |-> q]
      BY <2>1, <2>2 DEF OpType
    <3>2. op.fn \in {"none", "Erase_Sector"} \cup Writes
      BY <2>2 DEF OpType
    <3> QED
      BY <1>1, <1>4, <2>2, <3>1, <3>2 DEF OpType
  <2> QED
    BY <2>3, <2>4, <2>5, <2>6
<1>6. a + r = S * (k + 1) + 0
  <2>1. S * (k + 1) = S * k + S /\ S * k \in Nat
    BY <1>1
  <2> QED
    BY <1>1, <1>3, <2>1
<1> HIDE DEF q
<1> QED
  BY <1>1, <1>3, <1>4, <1>5, <1>6 DEF InSectors

\* A page of a write to a range that was blank.
LEMMA PageLands ==
  ASSUME IInv, pc = "program", Blank,
         mem' = PageProgram(mem, prog.addr,
                            [i \in 0 .. prog.pageremain - 1 |-> Source(prog.addr + i)], prog.pageremain)
  PROVE  /\ prog.from = "data"
         /\ \A c \in Cell :
              mem'[c] = IF op.start <= c /\ c < prog.addr + prog.pageremain THEN New(c) ELSE was[c]
<1> DEFINE a == prog.addr
           n == prog.pageremain
           b == [i \in 0 .. n - 1 |-> Source(a + i)]
<1>1. /\ a \in Nat /\ n \in Nat /\ prog.len \in Nat /\ op.start \in Nat /\ op.size \in Nat /\ n <= prog.len
      /\ (a % P) + n <= P /\ op.fn \in Writes
  BY PageFacts DEF InPages
<1>2. /\ prog.from = "data"
      /\ \A c \in Cell : mem[c] = IF op.start <= c /\ c < a THEN New(c) ELSE was[c]
      /\ \A c \in Cell : a <= c => data[c] = New(c)
  BY <1>1 DEF IInv, Reached, Done
\* The page is of the range.
<1>3. op.start <= a /\ a + n <= op.start + op.size
  <2>1. op.start <= a /\ a + prog.len = IF op.fn = "Write_Data" THEN op.addr + op.secremain ELSE op.start + op.size
    BY <1>2, PageFacts DEF InPages
  <2>2. op.fn = "Write_Data" => op.addr + op.secremain <= op.start + op.size
    <3> SUFFICES ASSUME op.fn = "Write_Data" PROVE op.addr + op.secremain <= op.start + op.size
      OBVIOUS
    <3>1. /\ op.addr \in Nat /\ op.secremain \in Nat /\ op.len \in Nat
          /\ op.addr + op.len = op.start + op.size /\ op.secremain <= op.len
      BY InChip DEF InSectors, IInv, Loops
    <3> QED
      BY <1>1, <3>1
  <2>3. op.fn = "Write_Data" => op.addr \in Nat /\ op.secremain \in Nat
    BY InChip
  <2> QED
    BY <1>1, <2>1, <2>2, <2>3
<1>4. ASSUME NEW c \in Cell PROVE mem'[c] = IF op.start <= c /\ c < a + n THEN New(c) ELSE was[c]
  <2>1. c \in Nat
    BY Consts
  <2>2. mem'[c] = IF a <= c /\ c < a + n
                  THEN IF mem[c] = FF THEN b[c - a] ELSE IF b[c - a] = FF THEN mem[c] ELSE Junk
                  ELSE mem[c]
    <3>1. mem' = PageProgram(mem, a, b, n)
      OBVIOUS
    <3> HIDE DEF a, b, n
    <3> QED
      BY <1>1, <3>1, ProgramPage
  <2>3. CASE a <= c /\ c < a + n
    <3>1. c - a \in 0 .. n - 1 /\ a + (c - a) = c
      BY <1>1, <2>1, <2>3
    <3>2. b[c - a] = New(c)
      BY <1>2, <2>3, <3>1 DEF Source
    <3>3. mem[c] = FF
      <4>1. c \in Span
        BY <1>1, <1>3, <2>1, <2>3 DEF Span
      <4>2. mem[c] = was[c]
        BY <1>1, <1>2, <2>1, <2>3
      <4> QED
        BY <4>1, <4>2 DEF Blank
    <3> HIDE DEF b
    <3> QED
      BY <1>1, <1>3, <2>1, <2>2, <2>3, <3>2, <3>3
  <2>4. CASE ~(a <= c /\ c < a + n)
    <3>1. mem'[c] = mem[c]
      BY <2>2, <2>4
    <3>2. c < a + n <=> c < a
      BY <1>1, <2>1, <2>4
    <3> QED
      BY <1>2, <3>1, <3>2
  <2> QED
    BY <2>3, <2>4
<1> QED
  BY <1>2, <1>4

LEMMA WriteInv == ASSUME IInv, WritePage PROVE IInv'
<1> DEFINE n == prog.pageremain
           b == [i \in 0 .. n - 1 |-> Source(prog.addr + i)]
<1>1. pc = "program" /\ was' = was /\ mem' = PageProgram(mem, prog.addr, b, n) /\ Overwrite(n)
  BY DEF WritePage
<1>2. \/ prog.len # n /\ prog' = NextPage(n) /\ op' = op /\ pc' = pc
      \/ /\ prog.len = n /\ prog' = NoProg
         /\ \/ op.fn = "Write_Data" /\ op.len # op.secremain /\ op' = NextSector /\ pc' = "read"
            \/ ~(op.fn = "Write_Data" /\ op.len # op.secremain) /\ op' = op /\ pc' = "idle"
  BY DEF WritePage
<1>3. /\ prog.addr \in Nat /\ prog.len \in Nat /\ n \in Nat /\ prog.from \in {"data", "buff"}
      /\ op.fn \in Writes /\ InPages /\ op.start \in Nat /\ op.size \in Nat
      /\ \A i \in 0 .. n - 1 : b[i] \in Value
  BY <1>1, PageFacts
<1>4. mem' \in [Cell -> Value]
  <2>1. mem \in [Cell -> Value] /\ (prog.addr % P) + n <= P
    BY <1>3 DEF IInv, Types, InPages
  <2> HIDE DEF n, b
  <2> QED
    BY <1>1, <1>3, <2>1, ProgramType
<1>5. /\ buff' \in [InSec -> Value] /\ data' \in [Cell -> Value]
      /\ \A c \in Cell : prog.addr + n <= c => data'[c] = data[c]
  BY <1>1, <1>3, OverwriteFacts DEF IInv
<1>6. Blank => /\ prog.from = "data"
               /\ \A c \in Cell : mem'[c] = IF op.start <= c /\ c < prog.addr + n THEN New(c) ELSE was[c]
               /\ \A c \in Cell : prog.addr + n <= c => data'[c] = New(c)
  <2> SUFFICES ASSUME Blank
               PROVE  /\ prog.from = "data"
                      /\ \A c \in Cell : mem'[c] = IF op.start <= c /\ c < prog.addr + n THEN New(c) ELSE was[c]
                      /\ \A c \in Cell : prog.addr + n <= c => data'[c] = New(c)
    OBVIOUS
  <2>1. \A c \in Cell : prog.addr <= c => data[c] = New(c)
    BY <1>1, <1>3 DEF IInv, Reached, Done
  <2>2. \A c \in Cell : prog.addr + n <= c => prog.addr <= c
    BY <1>3, Consts
  <2> QED
    BY <1>1, <1>5, <2>1, <2>2, PageLands
<1>7. Types /\ Loops
  BY DEF IInv
\* The next page.
<1>8. CASE prog.len # n /\ prog' = NextPage(n) /\ op' = op /\ pc' = pc
  <2>1. /\ prog' \in ProgType /\ prog'.from = prog.from /\ prog'.addr = prog.addr + n
        /\ prog'.addr + prog'.len = prog.addr + prog.len
        /\ prog'.pageremain > 0 /\ prog'.pageremain <= prog'.len
        /\ (prog'.addr % P) + prog'.pageremain <= P
        /\ prog'.pageremain = prog'.len \/ (prog'.addr % P) + prog'.pageremain = P
    BY <1>1, <1>8, NextPageInv
  <2>2. Types'
    BY <1>1, <1>4, <1>5, <1>7, <1>8, <2>1 DEF Types
  <2>3. InPages'
    BY <1>3, <1>8, <2>1 DEF InPages
  <2>4. Loops'
    BY <1>1, <1>3, <1>7, <1>8, <2>1, <2>3 DEF Loops, InSectors
  <2>5. Reached'
    BY <1>1, <1>6, <1>8, <2>1 DEF Reached, Done, Blank, Span
  <2> QED
    BY <2>2, <2>4, <2>5 DEF IInv
\* The next sector.
<1>9. CASE /\ prog.len = n /\ prog' = NoProg
           /\ op.fn = "Write_Data" /\ op.len # op.secremain /\ op' = NextSector /\ pc' = "read"
  <2>1. /\ op' \in OpType /\ op'.fn = op.fn /\ op'.start = op.start /\ op'.size = op.size
        /\ op'.addr = op.addr + op.secremain /\ op'.secoff + op'.secremain <= S /\ InSectors'
    BY <1>1, <1>9, NextSectorInv
  <2>2. Types'
    <3>1. was' \in [Cell -> Value] /\ op' \in OpType /\ prog' \in ProgType
      BY <1>1, <1>7, <1>9, <2>1, Nothing DEF Types
    <3>2. pc' = "read"
      BY <1>9
    <3> QED
      BY <1>4, <1>5, <3>1, <3>2 DEF Types
  <2>3. Loops'
    BY <1>7, <1>9, <2>1 DEF Loops
  <2>4. Reached'
    <3>1. Blank' <=> Blank
      BY <1>1, <2>1 DEF Blank, Span
    <3>2. Blank => op'.addr = prog.addr + n
      BY <1>3, <1>6, <1>9, <2>1 DEF InPages
    <3> QED
      BY <1>1, <1>6, <1>9, <2>1, <3>1, <3>2 DEF Reached, Done
  <2> QED
    BY <2>2, <2>3, <2>4 DEF IInv
\* The end.
<1>10. CASE /\ prog.len = n /\ prog' = NoProg
            /\ ~(op.fn = "Write_Data" /\ op.len # op.secremain) /\ op' = op /\ pc' = "idle"
  <2>0. op' = op /\ prog' = NoProg /\ pc' = "idle" /\ was' = was
    BY <1>1, <1>10
  <2>1. Types'
    <3>1. was' \in [Cell -> Value] /\ op' \in OpType /\ prog' \in ProgType
      BY <1>7, <2>0, Nothing DEF Types
    <3> QED
      BY <1>4, <1>5, <2>0, <3>1 DEF Types
  <2>2. Loops'
    BY <1>7, <1>10 DEF Loops
  <2>3. Reached'
    <3>1. Blank' <=> Blank
      BY <1>1, <1>10 DEF Blank, Span
    <3>2. Blank => op.start + op.size = prog.addr + n
      <4>1. op.fn = "Write_Data" => op.addr + op.secremain = op.start + op.size
        BY <1>1, <1>7, <1>10 DEF Loops, InSectors
      <4> QED
        BY <1>3, <1>6, <1>10, <4>1 DEF InPages
    <3> QED
      BY <1>1, <1>6, <1>10, <3>1, <3>2 DEF Reached, Done
  <2> QED
    BY <2>1, <2>2, <2>3 DEF IInv
<1> QED
  BY <1>2, <1>8, <1>9, <1>10

-----------------------------------------------------------------------------
LEMMA Invariance == Spec => []IInv
<1>1. IInv /\ [Next]_vars => IInv'
  <2> SUFFICES ASSUME IInv, [Next]_vars PROVE IInv'
    OBVIOUS
  <2>1. CASE Next
    BY <2>1, CallEraseInv, EraseInv, CallNoCheckInv, CallWriteInv, ReadInv, EraseWriteInv, WriteInv, PowerInv
       DEF Next
  <2>2. CASE UNCHANGED vars
    BY <2>2 DEF vars, IInv, Types, Loops, Reached, InSectors, InPages, Done, Blank, Span
  <2> QED
    BY <2>1, <2>2
<1> QED
  BY <1>1, InitInv, PTL DEF Spec

\* The loops of Write_Data and Write_NoCheck stay within the chip, its pages
\* and its sectors, for every size of them.
THEOREM TypeCorrect == Spec => []TypeOK
<1>1. IInv => TypeOK
  <2> SUFFICES ASSUME IInv PROVE TypeOK
    OBVIOUS
  <2>1. prog.addr \in 0 .. Size /\ prog.len \in 0 .. Size /\ prog.pageremain \in 0 .. P
    <3>1. CASE pc = "program"
      <4>1. /\ prog.addr \in Nat /\ prog.len \in Nat /\ prog.pageremain \in Nat
            /\ prog.addr + prog.len <= Size /\ (prog.addr % P) + prog.pageremain <= P
        BY <3>1, PageFacts DEF InPages
      <4>2. P \in Nat \ {0} /\ Size \in Nat
        BY Consts
      <4>3. prog.addr % P \in Nat
        BY <4>1, InPage
      <4> QED
        BY <4>1, <4>2, <4>3
    <3>2. CASE pc # "program"
      BY <3>2, Consts DEF IInv, Loops, NoProg
    <3> QED
      BY <3>1, <3>2
  <2>2. op.fn \in {"none", "Erase_Sector", "Write_NoCheck", "Write_Data"} /\ prog.from \in {"data", "buff"}
    BY DEF IInv, Types, OpType, ProgType, Writes
  <2> QED
    BY <2>1, <2>2 DEF IInv, Types, Loops, TypeOK, P, S
<1> QED
  BY <1>1, Invariance, PTL

\* Both functions of 25qxx.c put every byte of a write to an erased range
\* where it belongs, and touch no other byte, over any number of pages and
\* sectors: no page program wraps, and no sector is cut off.
THEOREM WriteLandsCorrect == Spec => []WriteLands
<1>1. IInv => WriteLands
  <2> SUFFICES ASSUME IInv, Ended, Blank PROVE Landed
    BY DEF WriteLands
  <2>1. \A c \in Cell : mem[c] = IF op.start <= c /\ c < op.start + op.size THEN New(c) ELSE was[c]
    BY DEF IInv, Reached, Done, Ended, Writes
  <2>2. op.start \in Nat /\ op.size \in Nat /\ mem \in [Cell -> Value]
    BY DEF IInv, Types, OpType
  <2>3. \A c \in Cell : c \in Span <=> op.start <= c /\ c < op.start + op.size
    BY <2>2, Consts DEF Span
  <2> QED
    BY <2>1, <2>2, <2>3 DEF Landed
<1> QED
  BY <1>1, Invariance, PTL

\* When the power fails between two commands of a write to an erased range,
\* every byte of the chip is as it was, or is of the range and written.
THEOREM ConfinedCorrect == Spec => Confined
<1>1. IInv /\ [Next]_vars =>
        [PowerFail /\ op.fn \in {"Write_NoCheck", "Write_Data"} /\ Blank =>
           \A c \in Cell : mem[c] = was[c] \/ (c \in Span /\ mem[c] = New(c))]_vars
  <2> SUFFICES ASSUME IInv, PowerFail, op.fn \in Writes, Blank, NEW c \in Cell
               PROVE  mem[c] = was[c] \/ (c \in Span /\ mem[c] = New(c))
    BY DEF Writes
  <2>1. pc # "idle" /\ op.start \in Nat /\ op.size \in Nat /\ c \in Nat
    BY Consts DEF PowerFail, IInv, Types, OpType
  <2>2. pc \in {"read", "program"}
    BY <2>1 DEF IInv, Reached, Types, Loops, Writes
  <2>3. mem[c] = IF op.start <= c /\ c < Done THEN New(c) ELSE was[c]
    BY DEF IInv, Reached
  <2>4. Done \in Nat /\ Done <= op.start + op.size
    <3>1. ASSUME op.fn = "Write_Data"
          PROVE  /\ op.addr \in Nat /\ op.secremain \in Nat /\ op.len \in Nat
                 /\ op.addr + op.len = op.start + op.size /\ op.secremain <= op.len
      BY <2>1, <3>1, InChip DEF InSectors, IInv, Loops
    <3>2. CASE pc = "read"
      <4>1. Done = op.addr /\ op.fn = "Write_Data"
        BY <3>2 DEF Done, IInv, Loops
      <4> QED
        BY <2>1, <3>1, <4>1
    <3>3. CASE pc = "program"
      <4>1. /\ Done = prog.addr /\ prog.from = "data" /\ prog.addr \in Nat /\ prog.len \in Nat
            /\ prog.addr + prog.len = IF op.fn = "Write_Data" THEN op.addr + op.secremain ELSE op.start + op.size
        BY <3>3, PageFacts DEF Done, InPages, IInv, Reached
      <4> QED
        BY <2>1, <3>1, <4>1
    <3> QED
      BY <2>2, <3>2, <3>3
  <2>5. op.start <= c /\ c < Done => c \in Span
    BY <2>1, <2>4 DEF Span
  <2> QED
    BY <2>3, <2>5
<1> QED
  BY <1>1, Invariance, PTL DEF Spec, Confined
=============================================================================
