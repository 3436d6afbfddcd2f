-------------------------- MODULE FlashProgProofs --------------------------
(***************************************************************************)
(* The offline download writes the RAM of a halted core only, calls the    *)
(* functions it means, and succeeds only when the file is in the flash:    *)
(* theorems about FlashProg for every chunk, flash and file size, every    *)
(* flash algorithm and any number of faults.                               *)
(***************************************************************************)
EXTENDS FlashProg, TLAPS

Phases == {"parse", "open", "connect", "init", "erase", "page", "finish", "uninit", "done"}

\* The accesses of a call of the algorithm, up to the write of DHCSR that
\* starts it and after it.
Setup == {"args", "frame", "pc", "xpsr", "halt", "start"}
Await == {"status", "wait"}
Exec  == Setup \cup Await \cup {"result", "unmask"}

\* The accesses that each operation of FLASH_SWD is made of.
Steps == [parse |-> {"end"}, open |-> {"end"}, connect |-> {"debug", "end"},
          init |-> {"debug", "retry", "enable", "catch", "reset", "poll", "uncatch", "load", "end"} \cup Exec,
          erase |-> {"end"} \cup Exec, page |-> {"buffer", "end"} \cup Exec,
          finish |-> {"debug", "reset", "end"}, uninit |-> {"reset", "end"}, done |-> {"end"}]

\* Where an operation of FLASH_SWD is, and what its core does meanwhile.
Control ==
  /\ access.step \in Steps[download.at]
  /\ download.at \in {"init", "erase", "page"} /\ access.step \in {"uncatch", "load", "buffer", "result", "unmask", "end"} \cup Setup
       => target.core = "halted"
  /\ access.step \in Await => target.core \in {"halted", "call"}
  /\ target.core = "call" => access.step \in Await \/ download.at \in {"uninit", "done"}
  /\ download.at = "finish" => target.core # "call"
  /\ download.at = "done" /\ download.ret => target.core # "call"

\* The call that an operation makes.
Wants(at) == IF at = "init" THEN Fn("init", 0)
             ELSE IF at = "erase" THEN Fn("erase_chip", 0)
             ELSE Fn("program_page", download.addr + download.from)

Loaded == download.at \in {"erase", "page"} \/ (download.at = "init" /\ access.step \in Exec \cup {"end"})

\* The registers that have been written for it.
Given(s) == IF s = "frame" THEN {"args"} ELSE IF s = "pc" THEN {"args", "frame"}
            ELSE IF s = "xpsr" THEN {"args", "frame", "pc"}
            ELSE IF s \in {"halt", "start"} \cup Await THEN Regs ELSE {}

Calls ==
  /\ download.at = "init" \/ access.step \in Exec \cup {"buffer"} => access.call = Wants(download.at)
  /\ \A r \in Given(access.step) : target.regs[r] = access.call
  /\ Sound(flash_algo) /\ Loaded => target.algo
  /\ Sound(flash_algo) /\ target.core = "call" => Whole
  /\ download.at = "page" /\ access.step \in Exec =>
       \A i \in 0 .. write_size - 1 : target.buffer[i] = download.bin_buff[download.from + i]

\* The flash up to unit n is the file; from there it is empty.
Filled(n) ==
  \A c \in Cell : IF c < n THEN file.good /\ c < file.size => target.flash[c] = c ELSE target.flash[c] = Erased
Limit     == ((file.size \div DLSize) + 1) * DLSize
Multiple(n, m) == \E k \in Nat : n = k * m

\* The chunk of the file in bin_buff, and the page of it that is programmed.
Chunk ==
  /\ download.at = "parse" => \A c \in Cell : target.flash[c] = Before
  /\ download.at \in {"open", "parse"} => file.pos = 0
  /\ download.at \in {"connect", "init", "erase"} => file.pos = 0 /\ download.readflag
  /\ download.at \in {"parse", "open", "connect", "init", "erase"} => file.good
  /\ download.at \in {"page", "finish"} \/ (download.at = "done" /\ download.ret) =>
       /\ download.readflag => file.pos = download.addr + DLSize
       /\ ~download.readflag /\ file.good => file.size < download.addr + DLSize
  /\ download.at = "page" =>
       /\ Multiple(download.addr, DLSize) /\ download.addr <= file.size
       /\ file.good => \A i \in Offset : download.addr + i < file.size => download.bin_buff[i] = download.addr + i
       /\ Sound(flash_algo) =>
            /\ Multiple(download.off, Page) /\ download.off <= DLSize
            /\ download.off = download.from + Page \/ (download.off = 0 /\ download.from = 0 /\ access.step = "end")

\* What is in the flash, before and after the call.
Emptied == \A c \in Cell : target.flash[c] = Erased
Performed ==
  \/ access.step \in Await \cup {"result"} /\ target.core = "halted" /\ target.result = 0
  \/ access.step = "unmask" /\ access.r0 = 0
  \/ access.step = "end"
Media ==
  Sound(flash_algo) =>
    /\ download.at = "erase" /\ Performed => Emptied
    /\ download.at = "page" =>
         /\ access.step \in {"buffer"} \cup Setup \/ target.core = "call" => Filled(download.addr + download.from)
         /\ Performed => Filled(download.addr + download.off)
    /\ download.at = "finish" \/ (download.at = "done" /\ download.ret) =>
         Filled(download.addr + DLSize) /\ ~download.readflag
    /\ \A c \in Cell : c >= Limit => target.flash[c] \in {Before, Erased}
    /\ target.core = "call" /\ Called.fn = "program_page" => Called.addr + Page <= Limit

IInv == TypeOK /\ Control /\ Calls /\ Chunk /\ Media

-----------------------------------------------------------------------------
(* Types.                                                                  *)

LEMMA Consts ==
  /\ DLSize \in Nat /\ DLSize > 0 /\ FlashSize \in Nat /\ MaxFaults \in Nat
  /\ \A n \in FileSizes : n \in Nat /\ n <= FlashSize
BY SizeAssumption, FaultsAssumption

LEMMA SuccType ==
  ASSUME NEW at \in Phases, NEW s \in StepName \ {"end"}
  PROVE  Succ(at)[s] \in StepName
BY DEF StepName, Succ

LEMMA AccessFields ==
  ASSUME TypeOK
  PROVE  /\ access.step \in StepName /\ access.call \in Call_ /\ access.left \in 0 .. 2 /\ access.r0 \in {0, 1}
         /\ download.at \in Phases
BY DEF TypeOK, AccessType, DownloadType, Phases

\* The next access of the same operation.
LEMMA GoFacts ==
  ASSUME TypeOK, access.step # "end", Go
  PROVE  /\ access' \in AccessType /\ download' = download
         /\ access'.step = Succ(download.at)[access.step]
         /\ access'.call = access.call /\ access'.r0 = access.r0
<1> DEFINE s == Succ(download.at)[access.step]
<1>1. s \in StepName
  BY AccessFields, SuccType
<1>2. access' = [access EXCEPT !.step = s]
  BY DEF Go
<1> HIDE DEF s
<1>3. access' \in AccessType /\ access'.step = s /\ access'.call = access.call /\ access'.r0 = access.r0
  BY <1>1, <1>2 DEF TypeOK, AccessType
<1> QED
  BY <1>3 DEF Go, s

LEMMA AtType ==
  ASSUME TypeOK, NEW p \in Phases
  PROVE  /\ [download EXCEPT !.at = p] \in DownloadType
         /\ [download EXCEPT !.at = p].from <= [download EXCEPT !.at = p].off
BY DEF TypeOK, DownloadType, Phases

LEMMA DoneType ==
  ASSUME TypeOK, NEW v \in BOOLEAN
  PROVE  /\ [download EXCEPT !.at = "done", !.ret = v] \in DownloadType
         /\ [download EXCEPT !.at = "done", !.ret = v].from <= [download EXCEPT !.at = "done", !.ret = v].off
         /\ [download EXCEPT !.at = "done", !.ret = v].ret = v
         /\ [download EXCEPT !.at = "done", !.ret = v].at = "done"
BY DEF TypeOK, DownloadType

LEMMA BeginFacts ==
  ASSUME TypeOK, NEW p \in Phases, NEW s \in StepName, NEW c \in Call_, Begin(p, s, c)
  PROVE  /\ access' \in AccessType /\ download' \in DownloadType /\ download'.from <= download'.off
         /\ download'.at = p /\ access'.step = s /\ access'.call = c
         /\ download' = [download EXCEPT !.at = p]
<1>1. access' \in AccessType /\ access'.step = s /\ access'.call = c
  <2>1. 2 \in 0 .. 2 /\ access \in AccessType
    BY DEF TypeOK
  <2>2. access' = [access EXCEPT !.step = s, !.call = c, !.left = 2]
    BY DEF Begin
  <2> QED
    BY <2>1, <2>2 DEF AccessType
<1>2. download'.at = p
  BY DEF Begin, TypeOK, DownloadType
<1> QED
  BY <1>1, <1>2, AtType DEF Begin

LEMMA FnType ==
  ASSUME TypeOK, NEW f \in Function, NEW a \in Nat
  PROVE  Fn(f, a) \in Call_ /\ Fn(f, a).fn = flash_algo.entry[f] /\ Fn(f, a).addr = a
BY DEF TypeOK, Algo, Fn, Call_

LEMMA NoCallType == NoCall \in Call_
BY DEF NoCall, Call_, Code

\* The operation is given up.
GivesUp ==
  \/ download.at = "init" /\ download' = [download EXCEPT !.at = "uninit"] /\ access'.step = "reset"
  \/ download' = [download EXCEPT !.at = "done", !.ret = FALSE] /\ access'.step = "end"

LEMMA FailFacts ==
  ASSUME TypeOK, access.step # "end", Fail
  PROVE  /\ access' \in AccessType /\ download' \in DownloadType /\ download'.from <= download'.off
         /\ \/ access.step \in {"retry", "reset"} /\ Go
            \/ access.step = "enable" /\ access'.step = "retry" /\ access'.call = access.call /\ download' = download
            \/ GivesUp
<1>1. CASE access.step \in {"retry", "reset"} /\ Go
  BY <1>1, GoFacts DEF TypeOK
<1>2. CASE /\ access.step = "enable" /\ access.left > 1
           /\ access' = [access EXCEPT !.step = "retry", !.left = @ - 1] /\ UNCHANGED download
  <2>1. access.left - 1 \in 0 .. 2
    BY <1>2, AccessFields
  <2>2. access' \in AccessType /\ access'.step = "retry" /\ access'.call = access.call
    BY <1>2, <2>1 DEF TypeOK, AccessType, StepName
  <2> QED
    BY <1>2, <2>2 DEF TypeOK
<1>3. CASE download.at = "init" /\ Begin("uninit", "reset", NoCall)
  BY <1>3, BeginFacts, NoCallType DEF GivesUp, Phases, StepName
<1>4. CASE access' = [access EXCEPT !.step = "end"] /\ Done(FALSE)
  <2>1. access' \in AccessType /\ access'.step = "end"
    BY <1>4 DEF TypeOK, AccessType, StepName
  <2> QED
    BY <1>4, <2>1, DoneType DEF Done, GivesUp
<1> QED
  BY <1>1, <1>2, <1>3, <1>4 DEF Fail

StickyTarget == [target EXCEPT !.sticky = TRUE]

\* An access succeeds or fails; it happens or not.
LEMMA AccessFacts ==
  ASSUME TypeOK, access.step # "end", NEW t \in TargetType, Access(t)
  PROVE  /\ access' \in AccessType /\ download' \in DownloadType /\ download'.from <= download'.off
         /\ target' \in TargetType /\ faults' \in 0 .. MaxFaults
         /\ \/ target' = t /\ Go
            \/ target' \in {target, StickyTarget, t} /\ Fail
<1>1. StickyTarget \in TargetType /\ target \in TargetType
  BY DEF TypeOK, TargetType, StickyTarget
<1>2. faults' \in 0 .. MaxFaults
  BY Consts DEF Access, Success, Failure, Fault, TypeOK
<1>3. CASE Success(t)
  BY <1>2, <1>3, GoFacts DEF Success, TypeOK
<1>4. CASE Failure(t)
  BY <1>1, <1>2, <1>4, FailFacts DEF Failure, StickyTarget
<1> QED
  BY <1>3, <1>4 DEF Access

LEMMA CoreTypes ==
  ASSUME TypeOK
  PROVE  /\ target \in TargetType /\ target.core \in {"running", "halted", "call"}
         /\ \A c \in {"running", "halted", "call"} : [target EXCEPT !.core = c] \in TargetType
         /\ \A v \in BOOLEAN : [target EXCEPT !.vc = v] \in TargetType
         /\ \A v \in BOOLEAN : [target EXCEPT !.sticky = v] \in TargetType
         /\ \A v \in BOOLEAN : [target EXCEPT !.algo = v] \in TargetType
         /\ \A b \in [Offset -> Value], v \in BOOLEAN : [target EXCEPT !.buffer = b, !.algo = v] \in TargetType
BY DEF TypeOK, TargetType

\* What each access does to the target.
EnableT == [target EXCEPT !.debugen = TRUE, !.core = IF @ = "halted" THEN "running" ELSE @]
ResetT  == [target EXCEPT !.core = IF target.vc /\ target.debugen THEN "halted" ELSE "running",
                          !.regs = [r \in Regs |-> NoCall], !.inited = FALSE]
BufferT == [target EXCEPT
       !.buffer = [i \in Offset |-> IF i < write_size THEN download.bin_buff[download.from + i] ELSE @[i]],
       !.algo = @ /\ (flash_algo.algo_size <= program_buffer \/ write_size = 0)]
RegT    == IF target.core = "halted" THEN [target EXCEPT !.regs[access.step] = access.call] ELSE target

LEMMA EnableFacts ==
  ASSUME TypeOK
  PROVE  /\ EnableT \in TargetType /\ EnableT.flash = target.flash /\ EnableT.algo = target.algo
         /\ EnableT.buffer = target.buffer /\ EnableT.regs = target.regs
         /\ EnableT.core = IF target.core = "halted" THEN "running" ELSE target.core
<1> DEFINE c == IF target.core = "halted" THEN "running" ELSE target.core
<1>1. c \in {"running", "halted", "call"} /\ target \in TargetType
  BY CoreTypes
<1>2. EnableT = [target EXCEPT !.debugen = TRUE, !.core = c]
  BY DEF EnableT
<1>3. c = IF target.core = "halted" THEN "running" ELSE target.core
  OBVIOUS
<1> HIDE DEF c
<1> QED
  BY <1>1, <1>2, <1>3 DEF TargetType

LEMMA ResetFacts ==
  ASSUME TypeOK
  PROVE  /\ ResetT \in TargetType /\ ResetT.flash = target.flash /\ ResetT.algo = target.algo
         /\ ResetT.buffer = target.buffer /\ ResetT.core \in {"running", "halted"}
<1> DEFINE c == IF target.vc /\ target.debugen THEN "halted" ELSE "running"
           g == [r \in Regs |-> NoCall]
<1>1. c \in {"running", "halted"} /\ g \in [Regs -> Call_] /\ target \in TargetType
  BY NoCallType, CoreTypes
<1>2. ResetT = [target EXCEPT !.core = c, !.regs = g, !.inited = FALSE]
  BY DEF ResetT
<1> HIDE DEF c, g
<1> QED
  BY <1>1, <1>2 DEF TargetType

LEMMA ChunkRange ==
  ASSUME TypeOK
  PROVE  /\ download.from \in 0 .. DLSize /\ download.off \in 0 .. DLSize /\ download.from <= download.off
         /\ write_size \in Nat /\ download.from + write_size = download.off
         /\ download.addr \in Nat /\ download.bin_buff \in [Offset -> Value] /\ download.readflag \in BOOLEAN
         /\ file.pos \in Nat /\ file.size \in Nat /\ file.pos <= file.size /\ file.size <= FlashSize
BY Consts DEF TypeOK, DownloadType, FileType, write_size

LEMMA BufferFacts ==
  ASSUME TypeOK
  PROVE  /\ BufferT \in TargetType /\ BufferT.flash = target.flash /\ BufferT.core = target.core
         /\ BufferT.regs = target.regs /\ BufferT.result = target.result
         /\ BufferT.algo = (target.algo /\ (flash_algo.algo_size <= program_buffer \/ write_size = 0))
         /\ \A i \in 0 .. write_size - 1 : BufferT.buffer[i] = download.bin_buff[download.from + i]
         /\ \A i \in Offset : BufferT.buffer[i] \in {download.bin_buff[j] : j \in Offset} \cup {target.buffer[i]}
<1> DEFINE b == [i \in Offset |-> IF i < write_size THEN download.bin_buff[download.from + i] ELSE target.buffer[i]]
           v == target.algo /\ (flash_algo.algo_size <= program_buffer \/ write_size = 0)
<1>1. target \in TargetType /\ target.buffer \in [Offset -> Value] /\ v \in BOOLEAN
  BY CoreTypes DEF TargetType
<1>2. \A i \in Offset : i < write_size => download.from + i \in Offset
  BY ChunkRange, Consts DEF Offset
<1>3. b \in [Offset -> Value]
  BY <1>1, <1>2, ChunkRange
<1>4. \A i \in 0 .. write_size - 1 : i \in Offset /\ i < write_size
  BY ChunkRange, Consts DEF Offset
<1>5. \A i \in 0 .. write_size - 1 : b[i] = download.bin_buff[download.from + i]
  BY <1>4
<1>10. \A i \in Offset : b[i] \in {download.bin_buff[j] : j \in Offset} \cup {target.buffer[i]}
  BY <1>2
<1>6. BufferT = [target EXCEPT !.buffer = b, !.algo = v]
  BY <1>1 DEF BufferT
<1>7. v = (target.algo /\ (flash_algo.algo_size <= program_buffer \/ write_size = 0))
  OBVIOUS
<1> HIDE DEF b, v
<1>8. BufferT \in TargetType
  BY <1>1, <1>3, <1>6, CoreTypes
<1>9. /\ BufferT.flash = target.flash /\ BufferT.core = target.core /\ BufferT.regs = target.regs
      /\ BufferT.result = target.result /\ BufferT.buffer = b /\ BufferT.algo = v
  BY <1>1, <1>6 DEF TargetType
<1> QED
  BY <1>5, <1>7, <1>8, <1>9, <1>10

LEMMA RegFacts ==
  ASSUME TypeOK, access.step \in Regs
  PROVE  /\ RegT \in TargetType /\ RegT.flash = target.flash /\ RegT.core = target.core
         /\ RegT.algo = target.algo /\ RegT.buffer = target.buffer /\ RegT.result = target.result
         /\ target.core = "halted" =>
              \A r \in Regs : RegT.regs[r] = IF r = access.step THEN access.call ELSE target.regs[r]
<1> DEFINE g == [target.regs EXCEPT ![access.step] = access.call]
<1>1. target \in TargetType /\ target.regs \in [Regs -> Call_]
  BY CoreTypes DEF TargetType
<1>2. g \in [Regs -> Call_] /\ \A r \in Regs : g[r] = IF r = access.step THEN access.call ELSE target.regs[r]
  BY <1>1, AccessFields
<1>3. RegT = IF target.core = "halted" THEN [target EXCEPT !.regs = g] ELSE target
  BY DEF RegT
<1> HIDE DEF g
<1> QED
  BY <1>1, <1>2, <1>3 DEF TargetType

-----------------------------------------------------------------------------
\* The operations of FLASH_SWD.
LEMMA ReadChunkFacts ==
  ASSUME TypeOK, NEW a \in Nat, ReadChunk(a)
  PROVE  \E n \in 0 .. Wanted :
    /\ Wanted \in Nat /\ Wanted <= DLSize /\ Wanted <= Left /\ (Wanted = DLSize \/ Wanted = Left)
    /\ file' \in FileType /\ file'.pos = file.pos + n /\ file'.pos <= file'.size /\ file'.size = file.size
    /\ \/ n = Wanted /\ file'.good = file.good
       \/ ~file'.good
    /\ faults' \in 0 .. MaxFaults
    /\ download' \in DownloadType /\ download'.at = "page" /\ download'.addr = a
    /\ download'.from = 0 /\ download'.off = 0
    /\ download'.readflag = (download.readflag /\ n = DLSize)
    /\ download'.bin_buff = Take(n)
    /\ UNCHANGED <<flash_algo, access, target>>
<1>1. PICK n \in 0 .. Wanted :
        /\ \/ n = Wanted /\ file' = [file EXCEPT !.pos = @ + n] /\ UNCHANGED faults
           \/ Fault("read") /\ file' = [file EXCEPT !.pos = @ + n, !.good = FALSE]
        /\ download' = [download EXCEPT !.at = "page", !.addr = a, !.from = 0, !.off = 0,
                                        !.bin_buff = Take(n), !.readflag = @ /\ n = DLSize]
        /\ UNCHANGED <<flash_algo, access, target>>
  BY DEF ReadChunk
<1>2. Left \in Nat /\ file.pos + Left = file.size
  BY ChunkRange DEF Left
<1>3. Wanted \in Nat /\ Wanted <= DLSize /\ Wanted <= Left /\ (Wanted = DLSize \/ Wanted = Left)
  BY <1>2, Consts DEF Wanted
<1>4. n \in Nat /\ file.pos + n \in Nat /\ file.pos + n <= file.size
  BY <1>2, <1>3, ChunkRange
<1>5. file' \in FileType /\ file'.pos = file.pos + n /\ file'.size = file.size
  BY <1>1, <1>4 DEF TypeOK, FileType
<1>6. (n = Wanted /\ file'.good = file.good) \/ ~file'.good
  BY <1>1 DEF TypeOK, FileType
<1>7. faults' \in 0 .. MaxFaults
  BY <1>1, Consts DEF Fault, TypeOK
<1> DEFINE b == Take(n)
           r == download.readflag /\ n = DLSize
<1>8. b \in [Offset -> Value]
  <2>1. ASSUME NEW i \in Offset, i < n PROVE file.pos + i \in Value
    <3>1. i \in Nat /\ file.pos \in Nat /\ file.size \in Nat /\ file.size <= FlashSize
      BY ChunkRange, Consts DEF Offset
    <3>2. file.pos + i \in Nat /\ file.pos + i <= FlashSize
      BY <1>4, <2>1, <3>1, Consts
    <3> QED
      BY <3>2, Consts DEF Value
  <2>2. \A i \in Offset : download.bin_buff[i] \in Value
    BY ChunkRange
  <2> QED
    BY <2>1, <2>2 DEF Take
<1>9. r \in BOOLEAN
  BY ChunkRange
<1>10. download' = [download EXCEPT !.at = "page", !.addr = a, !.from = 0, !.off = 0, !.bin_buff = b, !.readflag = r]
  BY <1>1
<1>11. 0 \in 0 .. DLSize
  BY Consts
<1>12. b = Take(n) /\ r = (download.readflag /\ n = DLSize)
  BY <1>9
<1> HIDE DEF b, r
<1>13. /\ download' \in DownloadType /\ download'.at = "page" /\ download'.addr = a
       /\ download'.from = 0 /\ download'.off = 0
       /\ download'.readflag = r /\ download'.bin_buff = b
  BY <1>8, <1>9, <1>10, <1>11 DEF TypeOK, DownloadType
<1> QED
  BY <1>1, <1>3, <1>4, <1>5, <1>6, <1>7, <1>12, <1>13

LEMMA ReadChunkType == ASSUME TypeOK, NEW a \in Nat, ReadChunk(a) PROVE TypeOK'
BY ReadChunkFacts DEF TypeOK

LEMMA NextPageFacts ==
  ASSUME TypeOK, NextPage
  PROVE  /\ download' \in DownloadType /\ download'.at = "page" /\ download.at = "page"
         /\ download'.from = download.off /\ download'.off = PageEnd /\ PageEnd \in 0 .. DLSize
         /\ download.off <= PageEnd
         /\ download'.addr = download.addr /\ download'.bin_buff = download.bin_buff
         /\ download'.readflag = download.readflag
         /\ access' \in AccessType /\ access'.step = "buffer"
         /\ access'.call = Fn("program_page", download.addr + download.off)
         /\ UNCHANGED <<flash_algo, file, target, faults>>
<1>1. Page \in Nat
  BY DEF TypeOK, Algo, Page
<1>2. PageEnd \in 0 .. DLSize /\ download.off <= PageEnd
  BY <1>1, ChunkRange, Consts DEF PageEnd, Page
<1>3. download.addr + download.off \in Nat
  BY ChunkRange
<1> DEFINE c == Fn("program_page", download.addr + download.off)
           e == PageEnd
<1>4. c \in Call_
  BY <1>3, FnType DEF Function
<1>5. access' = [access EXCEPT !.step = "buffer", !.call = c]
  BY DEF NextPage
<1>6. download' = [download EXCEPT !.from = download.off, !.off = e]
  BY DEF NextPage
<1>7. e \in 0 .. DLSize
  BY <1>2
<1> HIDE DEF c, e
<1>8. access' \in AccessType /\ access'.step = "buffer" /\ access'.call = c
  BY <1>4, <1>5 DEF TypeOK, AccessType, StepName
<1>9. download.off \in 0 .. DLSize /\ download \in DownloadType
  BY ChunkRange DEF TypeOK
<1>10. /\ download' \in DownloadType /\ download'.from = download.off /\ download'.off = e
       /\ download'.at = download.at /\ download'.addr = download.addr /\ download'.bin_buff = download.bin_buff
       /\ download'.readflag = download.readflag
  BY <1>6, <1>7, <1>9 DEF DownloadType
<1> USE DEF c, e
<1> QED
  BY <1>2, <1>8, <1>10 DEF NextPage, At

LEMMA OperationType ==
  ASSUME TypeOK,
         Open \/ target_flash_init \/ target_flash_erase_chip \/ Finish \/ Return
  PROVE  TypeOK'
<1>1. CASE Open
  <2>1. CASE /\ download' = [download EXCEPT !.at = "connect", !.readflag = TRUE]
             /\ access' = [access EXCEPT !.step = "debug"]
    <3>1. access' \in AccessType
      BY <2>1 DEF TypeOK, AccessType, StepName
    <3>2. download' \in DownloadType /\ download'.from <= download'.off
      BY <2>1 DEF TypeOK, DownloadType
    <3> QED
      BY <1>1, <3>1, <3>2 DEF Open, TypeOK
  <2>2. CASE Done(FALSE) /\ UNCHANGED access
    BY <1>1, <2>2, DoneType DEF Open, Done, TypeOK
  <2> QED
    BY <1>1, <2>1, <2>2 DEF Open
<1>2. CASE target_flash_init
  <2>1. Begin("init", "debug", Fn("init", 0)) /\ Fn("init", 0) \in Call_
    BY <1>2, FnType DEF target_flash_init, Function
  <2>2. "init" \in Phases /\ "debug" \in StepName
    BY DEF Phases, StepName
  <2>3. access' \in AccessType /\ download' \in DownloadType /\ download'.from <= download'.off
    BY <2>1, <2>2, BeginFacts
  <2> QED
    BY <1>2, <2>3 DEF target_flash_init, TypeOK
<1>3. CASE target_flash_erase_chip
  <2>1. Begin("erase", "args", Fn("erase_chip", 0)) /\ Fn("erase_chip", 0) \in Call_
    BY <1>3, FnType DEF target_flash_erase_chip, Function
  <2>2. "erase" \in Phases /\ "args" \in StepName
    BY DEF Phases, StepName
  <2>3. access' \in AccessType /\ download' \in DownloadType /\ download'.from <= download'.off
    BY <2>1, <2>2, BeginFacts
  <2> QED
    BY <1>3, <2>3 DEF target_flash_erase_chip, TypeOK
<1>4. CASE Finish
  <2>1. "finish" \in Phases /\ "debug" \in StepName
    BY DEF Phases, StepName
  <2>2. access' \in AccessType /\ download' \in DownloadType /\ download'.from <= download'.off
    BY <1>4, <2>1, NoCallType, BeginFacts DEF Finish
  <2> QED
    BY <1>4, <2>2 DEF Finish, TypeOK
<1>5. CASE Return
  <2>1. \E v \in BOOLEAN : Done(v)
    BY <1>5 DEF Return
  <2>2. download' \in DownloadType /\ download'.from <= download'.off
    BY <2>1, DoneType DEF Done
  <2> QED
    BY <1>5, <2>2 DEF Return, TypeOK
<1> QED
  BY <1>1, <1>2, <1>3, <1>4, <1>5

LEMMA ParsedType == ASSUME TypeOK, NEW a \in Algo, Parsed(a) PROVE TypeOK'
<1>1. download' \in DownloadType /\ download'.from <= download'.off
  BY AtType DEF Parsed, Phases
<1> QED
  BY <1>1 DEF Parsed, TypeOK

-----------------------------------------------------------------------------
(* The accesses, as what they may do.                                      *)

Kept == UNCHANGED <<flash_algo, file>>

\* The access as a whole makes the target t.
Whichever(t) == \/ target' = t /\ Go
                \/ target' \in {target, StickyTarget, t} /\ Fail

\* What an access of the target may do, for the accesses that succeed or fail.
LEMMA Accesses ==
  ASSUME TypeOK,
         \/ EnableDebug \/ HaltOnReset \/ swd_set_target_reset \/ LoadAlgorithm \/ LoadBuffer
         \/ WriteRegister \/ HaltMasked \/ Start \/ CheckStatus
  PROVE  /\ TypeOK' /\ Kept /\ access.step # "end"
         /\ \/ access.step = "enable" /\ Whichever(EnableT)
            \/ access.step \in {"catch", "uncatch"} /\ \E v \in BOOLEAN : Whichever([target EXCEPT !.vc = v])
            \/ access.step \in {"reset", "retry"} /\ Whichever(ResetT)
            \/ access.step = "load" /\ Whichever([target EXCEPT !.algo = flash_algo.blob])
            \/ access.step = "buffer" /\ Whichever(BufferT)
            \/ access.step \in Regs /\ Whichever(RegT)
            \/ access.step = "halt" /\ Whichever([target EXCEPT !.core = "halted"])
            \/ access.step = "start" /\ Whichever([target EXCEPT !.core = "call"])
            \/ access.step = "status" /\ Whichever(target)
<1>0. Kept /\ access.step # "end"
  BY DEF EnableDebug, HaltOnReset, swd_set_target_reset, LoadAlgorithm, LoadBuffer, WriteRegister,
         HaltMasked, Start, CheckStatus, Kept, Rest, Doing, Regs
<1>1. ASSUME NEW t \in TargetType, Access(t) PROVE TypeOK' /\ Whichever(t)
  BY <1>0, <1>1, AccessFacts DEF Kept, TypeOK, Whichever
<1>2. CASE EnableDebug
  BY <1>0, <1>1, <1>2, EnableFacts DEF EnableDebug, EnableT, Doing
<1>3. CASE HaltOnReset
  <2> DEFINE v == access.step = "catch"
  <2>1. v \in BOOLEAN /\ Access([target EXCEPT !.vc = v])
    BY <1>3 DEF HaltOnReset, Doing
  <2>2. access.step \in {"catch", "uncatch"}
    BY <1>3 DEF HaltOnReset, Doing
  <2> HIDE DEF v
  <2> QED
    BY <1>0, <1>1, <2>1, <2>2, CoreTypes
<1>4. CASE swd_set_target_reset
  BY <1>0, <1>1, <1>4, ResetFacts DEF swd_set_target_reset, ResetT, Doing
<1>5. CASE LoadAlgorithm
  <2>1. flash_algo.blob \in BOOLEAN
    BY DEF TypeOK, Algo
  <2> QED
    BY <1>0, <1>1, <1>5, <2>1, CoreTypes DEF LoadAlgorithm, Doing
<1>6. CASE LoadBuffer
  BY <1>0, <1>1, <1>6, BufferFacts DEF LoadBuffer, BufferT, Doing
<1>7. CASE WriteRegister
  BY <1>0, <1>1, <1>7, RegFacts DEF WriteRegister, RegT
<1>8. CASE HaltMasked
  BY <1>0, <1>1, <1>8, CoreTypes DEF HaltMasked, Doing
<1>9. CASE Start
  BY <1>0, <1>1, <1>9, CoreTypes DEF Start, Doing
<1>10. CASE CheckStatus
  BY <1>0, <1>1, <1>10, CoreTypes DEF CheckStatus, Doing
<1> QED
  BY <1>2, <1>3, <1>4, <1>5, <1>6, <1>7, <1>8, <1>9, <1>10

LEMMA InitDebugFacts ==
  ASSUME TypeOK, InitDebug
  PROVE  /\ TypeOK' /\ Kept /\ access.step = "debug" /\ (Go \/ Fail)
         /\ \E e \in BOOLEAN : target' = [target EXCEPT !.sticky = e]
<1>1. Kept /\ access.step = "debug" /\ (Go \/ Fail)
  BY DEF InitDebug, Doing, Rest, Kept
<1>2. \E e \in BOOLEAN : target' = [target EXCEPT !.sticky = e]
  <2>1. target = [target EXCEPT !.sticky = target.sticky] /\ target.sticky \in BOOLEAN
    BY CoreTypes DEF TargetType
  <2>2. target' = target \/ target' = [target EXCEPT !.sticky = TRUE] \/ target' = [target EXCEPT !.sticky = FALSE]
    BY DEF InitDebug, Sticky
  <2> QED
    BY <2>1, <2>2
<1>3. faults' \in 0 .. MaxFaults
  <2>1. faults' = faults \/ (faults < MaxFaults /\ faults' = faults + 1)
    BY DEF InitDebug, Fault
  <2> QED
    BY <2>1, Consts DEF TypeOK
<1>4. access' \in AccessType /\ download' \in DownloadType /\ download'.from <= download'.off
  BY <1>1, GoFacts, FailFacts DEF TypeOK
<1>5. target' \in TargetType
  BY <1>2, CoreTypes
<1> QED
  BY <1>1, <1>2, <1>3, <1>4, <1>5 DEF TypeOK, Kept

\* The two waits.
LEMMA PollFacts ==
  ASSUME TypeOK, PollHalted
  PROVE  /\ TypeOK' /\ Kept /\ access.step = "poll"
         /\ \/ target' = target /\ Go /\ target.core = "halted"
            \/ UNCHANGED <<access, download, target>>
            \/ target' \in {target, StickyTarget} /\ Fail
<1>1. Kept /\ access.step = "poll"
  BY DEF PollHalted, Doing, Rest, Kept
<1>2. CASE UNCHANGED <<access, download, target, faults>>
  BY <1>1, <1>2 DEF TypeOK, Kept
<1>3. ASSUME (target.core = "halted" /\ Success(target)) \/ Failure(target)
      PROVE  /\ TypeOK'
             /\ \/ target' = target /\ Go /\ target.core = "halted"
                \/ target' \in {target, StickyTarget} /\ Fail
  <2>1. Access(target) /\ target \in TargetType
    BY <1>3, CoreTypes DEF Access
  <2>2. TypeOK'
    BY <1>1, <2>1, AccessFacts DEF Kept, TypeOK
  <2> QED
    BY <1>3, <2>2 DEF Success, Failure, StickyTarget
<1> QED
  BY <1>1, <1>2, <1>3 DEF PollHalted

LEMMA WaitFacts ==
  ASSUME TypeOK, WaitHalted
  PROVE  /\ TypeOK' /\ Kept /\ access.step = "wait"
         /\ \/ target' = target /\ Go /\ target.core = "halted"
            \/ target' \in {target, StickyTarget} /\ Fail
<1>1. Kept /\ access.step = "wait"
  BY DEF WaitHalted, Doing, Rest, Kept
<1>2. CASE Fail /\ UNCHANGED <<target, faults>>
  BY <1>1, <1>2, FailFacts DEF TypeOK, Kept
<1>3. ASSUME (target.core = "halted" /\ Success(target)) \/ Failure(target)
      PROVE  /\ TypeOK'
             /\ \/ target' = target /\ Go /\ target.core = "halted"
                \/ target' \in {target, StickyTarget} /\ Fail
  <2>1. Access(target) /\ target \in TargetType
    BY <1>3, CoreTypes DEF Access
  <2>2. TypeOK'
    BY <1>1, <2>1, AccessFacts DEF Kept, TypeOK
  <2> QED
    BY <1>3, <2>2 DEF Success, Failure, StickyTarget
<1> QED
  BY <1>1, <1>2, <1>3 DEF WaitHalted

LEMMA ResultFacts ==
  ASSUME TypeOK, ReadResult
  PROVE  /\ TypeOK' /\ Kept /\ access.step = "result"
         /\ \/ /\ target' = target /\ download' = download /\ access'.step = "unmask"
               /\ access'.call = access.call /\ access'.r0 = target.result
            \/ target' \in {target, StickyTarget} /\ Fail
<1>1. Kept /\ access.step = "result"
  BY DEF ReadResult, Doing, Rest, Kept
<1>2. CASE /\ access' = [access EXCEPT !.step = "unmask", !.r0 = target.result]
           /\ UNCHANGED <<download, target, faults>>
  <2>1. target.result \in {0, 1}
    BY CoreTypes DEF TargetType
  <2>2. /\ access' \in AccessType /\ access'.step = "unmask" /\ access'.call = access.call
        /\ access'.r0 = target.result
    BY <1>2, <2>1 DEF TypeOK, AccessType, StepName
  <2> QED
    BY <1>1, <1>2, <2>2 DEF TypeOK, Kept
<1>3. CASE Failure(target)
  <2>1. Access(target) /\ target \in TargetType
    BY <1>3, CoreTypes DEF Access
  <2>2. TypeOK'
    BY <1>1, <2>1, AccessFacts DEF Kept, TypeOK
  <2> QED
    BY <1>1, <1>3, <2>2 DEF Failure, StickyTarget
<1> QED
  BY <1>1, <1>2, <1>3 DEF ReadResult

HaltT == [target EXCEPT !.core = "halted"]

LEMMA UnmaskFacts ==
  ASSUME TypeOK, Unmask
  PROVE  /\ TypeOK' /\ Kept /\ access.step = "unmask"
         /\ \/ access.r0 = 0 /\ target' = HaltT /\ Go
            \/ target' \in {target, StickyTarget, HaltT} /\ Fail
<1>1. Kept /\ access.step = "unmask"
  BY DEF Unmask, Doing, Rest, Kept
<1>2. CASE access.r0 = 0 /\ Access(HaltT)
  <2>1. HaltT \in TargetType
    BY CoreTypes DEF HaltT
  <2> QED
    BY <1>1, <1>2, <2>1, AccessFacts DEF Kept, TypeOK
<1>3. CASE (target' = HaltT \/ UNCHANGED target) /\ Fail /\ UNCHANGED faults
  <2>1. HaltT \in TargetType /\ target \in TargetType
    BY CoreTypes DEF HaltT
  <2> QED
    BY <1>1, <1>3, <2>1, FailFacts DEF Kept, TypeOK
<1> QED
  BY <1>1, <1>2, <1>3 DEF Unmask, HaltT

-----------------------------------------------------------------------------
\* The flash algorithm.
LEMMA ProgramType ==
  ASSUME NEW f \in [Cell -> Value], NEW b \in [Offset -> Value], NEW a \in Nat, NEW n \in Nat
  PROVE  /\ Program(f, a, b, n) \in [Cell -> Value]
         /\ \A c \in Cell : ~(a <= c /\ c < a + n) => Program(f, a, b, n)[c] = f[c]
         /\ \A c \in Cell : a <= c /\ c < a + n /\ f[c] = Erased /\ c - a \in Offset
              => Program(f, a, b, n)[c] = b[c - a]
<1>1. Junk \in Value /\ Heap \in Value
  BY Consts DEF Junk, Heap, Value
<1>2. \A c \in Cell : c \in a .. a + n - 1 <=> a <= c /\ c < a + n
  BY Consts DEF Cell
<1> QED
  BY <1>1, <1>2 DEF Program

Halts(r, f) == [target EXCEPT !.core = "halted", !.result = r, !.flash = f]

LEMMA HaltsFacts ==
  ASSUME TypeOK, NEW r \in {0, 1}, NEW f \in [Cell -> Value], target' = Halts(r, f)
  PROVE  /\ target' \in TargetType /\ target'.core = "halted" /\ target'.result = r /\ target'.flash = f
         /\ target'.regs = target.regs /\ target'.buffer = target.buffer /\ target'.algo = target.algo
BY DEF Halts, TypeOK, TargetType

LEMMA CallFacts ==
  ASSUME TypeOK, Call
  PROVE  /\ TypeOK' /\ UNCHANGED <<flash_algo, file, download, access>> /\ target.core = "call"
         /\ target'.core = "halted" /\ target'.regs = target.regs
         /\ target'.buffer = target.buffer /\ target'.algo = target.algo
         /\ \/ ~Whole
            \/ Called.fn = "init" /\ target'.flash = target.flash
            \/ Called.fn = "erase_chip" /\ target'.result = 0 /\ target'.flash = [c \in Cell |-> Erased]
            \/ /\ Called.fn = "program_page" /\ target'.result = 0 /\ Called.addr + Page <= FlashSize
               /\ target'.flash = Program(target.flash, Called.addr, target.buffer, Page)
            \/ target'.result = 1 /\ target'.flash = target.flash
            \/ /\ target'.result = 1 /\ Called.fn = "program_page" /\ Called.addr + Page <= FlashSize
               /\ \E n \in 1 .. Page : target'.flash = Program(target.flash, Called.addr, target.buffer, n)
<1>0. /\ UNCHANGED <<flash_algo, file, download, access>> /\ target.core = "call"
      /\ target.flash \in [Cell -> Value] /\ target.buffer \in [Offset -> Value]
      /\ Called \in Call_ /\ Called.addr \in Nat /\ Page \in Nat
  BY CoreTypes DEF Call, TypeOK, TargetType, Called, Call_, Regs, Page, Algo
<1>1. faults' \in 0 .. MaxFaults
  <2>1. faults' = faults \/ (faults < MaxFaults /\ faults' = faults + 1)
    BY DEF Call, Fault
  <2> QED
    BY <2>1, Consts DEF TypeOK
<1>2. ASSUME NEW r \in {0, 1}, NEW f \in [Cell -> Value], target' = Halts(r, f)
      PROVE  /\ TypeOK' /\ target'.core = "halted" /\ target'.result = r /\ target'.flash = f
             /\ target'.regs = target.regs /\ target'.buffer = target.buffer /\ target'.algo = target.algo
  BY <1>0, <1>1, <1>2, HaltsFacts DEF TypeOK
<1>3. [c \in Cell |-> Junk] \in [Cell -> Value] /\ [c \in Cell |-> Erased] \in [Cell -> Value]
  BY Consts DEF Junk, Erased, Value
<1>4. \A n \in Nat : Program(target.flash, Called.addr, target.buffer, n) \in [Cell -> Value]
  BY <1>0, ProgramType
<1>5. ASSUME NEW r \in {0, 1}, target' = [target EXCEPT !.core = "halted", !.result = r]
      PROVE  target' = Halts(r, target.flash)
  BY <1>5, CoreTypes DEF Halts, TargetType
<1>6. CASE ~Whole /\ Breakpoint(0, [target EXCEPT !.flash = [c \in Cell |-> Junk]])
  <2>1. target' = Halts(0, [c \in Cell |-> Junk])
    BY <1>6, CoreTypes DEF Breakpoint, Halts, TargetType
  <2> QED
    BY <1>0, <1>2, <1>3, <1>6, <2>1
<1>7. CASE Serves
  <2>1. CASE Called.fn = "init" /\ Breakpoint(0, [target EXCEPT !.inited = TRUE])
    <3> DEFINE u == [target EXCEPT !.inited = TRUE]
    <3>0. /\ u \in TargetType /\ u.flash = target.flash /\ u.regs = target.regs
          /\ u.buffer = target.buffer /\ u.algo = target.algo
      BY CoreTypes DEF TargetType
    <3>1. target' = [u EXCEPT !.core = "halted", !.result = 0]
      BY <2>1 DEF Breakpoint
    <3> HIDE DEF u
    <3>2. /\ target' \in TargetType /\ target'.core = "halted" /\ target'.flash = target.flash
          /\ target'.regs = target.regs /\ target'.buffer = target.buffer /\ target'.algo = target.algo
      BY <3>0, <3>1 DEF TargetType
    <3> QED
      BY <1>0, <1>1, <2>1, <3>2 DEF TypeOK
  <2>2. CASE Called.fn = "erase_chip" /\ Breakpoint(0, [target EXCEPT !.flash = [c \in Cell |-> Erased]])
    <3>1. target' = Halts(0, [c \in Cell |-> Erased])
      BY <2>2, CoreTypes DEF Breakpoint, Halts, TargetType
    <3> QED
      BY <1>0, <1>2, <1>3, <2>2, <3>1
  <2>3. CASE /\ Called.fn = "program_page" /\ Called.addr + Page <= FlashSize
             /\ Breakpoint(0, [target EXCEPT !.flash = Program(@, Called.addr, target.buffer, Page)])
    <3>1. target' = Halts(0, Program(target.flash, Called.addr, target.buffer, Page))
      BY <2>3, CoreTypes DEF Breakpoint, Halts, TargetType
    <3> QED
      BY <1>0, <1>2, <1>4, <2>3, <3>1
  <2> QED
    BY <1>7, <2>1, <2>2, <2>3 DEF Serves
<1>8. CASE Refuses
  <2>1. target' = Halts(1, target.flash)
    BY <1>5, <1>8 DEF Refuses, Breakpoint
  <2> QED
    BY <1>0, <1>2, <2>1
<1>9. CASE Breaks
  <2>1. CASE Breakpoint(1, target)
    <3>1. target' = Halts(1, target.flash)
      BY <1>5, <2>1 DEF Breakpoint
    <3> QED
      BY <1>0, <1>2, <3>1
  <2>2. CASE /\ Called.fn = "program_page" /\ Called.addr + Page <= FlashSize
             /\ \E n \in 1 .. Page :
                  Breakpoint(1, [target EXCEPT !.flash = Program(@, Called.addr, target.buffer, n)])
    <3>1. PICK n \in 1 .. Page : Breakpoint(1, [target EXCEPT !.flash = Program(@, Called.addr, target.buffer, n)])
      BY <2>2
    <3>2. n \in Nat
      BY <1>0
    <3>3. target' = Halts(1, Program(target.flash, Called.addr, target.buffer, n))
      BY <3>1, CoreTypes DEF Breakpoint, Halts, TargetType
    <3> QED
      BY <1>0, <1>2, <1>4, <2>2, <3>2, <3>3
  <2> QED
    BY <1>9, <2>1, <2>2 DEF Breaks
<1> QED
  BY <1>6, <1>7, <1>8, <1>9 DEF Call

\* One step of FlashProg, whatever the parser leaves in flash_algo.
Step == (\E a \in Algo : Parsed(a)) \/ Programmer \/ Call \/ UNCHANGED vars

LEMMA TypeStep == ASSUME TypeOK, Step PROVE TypeOK'
<1>1. CASE \E a \in Algo : Parsed(a)
  BY <1>1, ParsedType
<1>2. CASE Programmer
  <2>1. ASSUME NEW a \in Nat, ReadChunk(a) PROVE TypeOK'
    BY <2>1, ReadChunkType
  <2>2. CASE FirstChunk
    BY <2>1, <2>2 DEF FirstChunk
  <2>3. CASE NextChunk
    <3>1. download.addr + DLSize \in Nat
      BY ChunkRange, Consts
    <3> QED
      BY <2>1, <2>3, <3>1 DEF NextChunk
  <2>4. CASE NextPage
    BY <2>4, NextPageFacts DEF TypeOK
  <2>5. CASE Open \/ target_flash_init \/ target_flash_erase_chip \/ Finish \/ Return
    BY <2>5, OperationType
  <2>6. CASE \/ EnableDebug \/ HaltOnReset \/ swd_set_target_reset \/ LoadAlgorithm \/ LoadBuffer
             \/ WriteRegister \/ HaltMasked \/ Start \/ CheckStatus
    BY <2>6, Accesses
  <2>7. CASE InitDebug \/ PollHalted \/ WaitHalted \/ ReadResult \/ Unmask
    BY <2>7, InitDebugFacts, PollFacts, WaitFacts, ResultFacts, UnmaskFacts
  <2> QED
    BY <1>2, <2>2, <2>3, <2>4, <2>5, <2>6, <2>7 DEF Programmer
<1>3. CASE Call
  BY <1>3, CallFacts
<1>4. CASE UNCHANGED vars
  BY <1>4 DEF vars, TypeOK
<1> QED
  BY <1>1, <1>2, <1>3, <1>4 DEF Step

LEMMA InitType == Init => TypeOK
<1> SUFFICES ASSUME Init PROVE TypeOK
  OBVIOUS
<1>1. Heap \in Value /\ Before \in Value /\ 0 \in 0 .. DLSize /\ 0 \in 0 .. MaxFaults /\ NoCall \in Call_
  BY Consts, NoCallType DEF Heap, Before, Value
<1>2. flash_algo \in Algo
  BY DEF Init, NoAlgo, Algo, Code
<1>3. file \in FileType /\ file.pos <= file.size
  <2>1. PICK n \in FileSizes : file = [size |-> n, pos |-> 0, good |-> TRUE]
    BY DEF Init
  <2>2. n \in Nat /\ \A m \in Nat : 0 <= m
    BY Consts
  <2>3. file \in FileType
    BY <2>1 DEF FileType
  <2> QED
    BY <2>1, <2>2, <2>3
<1>4. download \in DownloadType /\ download.from <= download.off
  BY <1>1 DEF Init, DownloadType
<1>5. access \in AccessType
  BY <1>1 DEF Init, AccessType, StepName
<1>6. target \in TargetType
  <2> DEFINE g == [r \in Regs |-> NoCall]
             b == [i \in Offset |-> Heap]
             f == [c \in Cell |-> Before]
  <2>1. g \in [Regs -> Call_] /\ b \in [Offset -> Value] /\ f \in [Cell -> Value]
    BY <1>1
  <2>2. target \in [core : {"running", "halted"}, sticky : BOOLEAN, debugen : BOOLEAN, vc : BOOLEAN,
                    regs : {g}, algo : {FALSE}, buffer : {b}, inited : {FALSE}, result : {0}, flash : {f}]
    BY DEF Init
  <2> HIDE DEF g, b, f
  <2> QED
    BY <2>1, <2>2 DEF TargetType
<1> QED
  BY <1>1, <1>2, <1>3, <1>4, <1>5, <1>6 DEF TypeOK, Init

-----------------------------------------------------------------------------
(* Arithmetic.                                                             *)

LEMMA Mono == \A a, b, d \in Nat : a <= b => a * d <= b * d
<1> SUFFICES ASSUME NEW a \in Nat, NEW b \in Nat, NEW d \in Nat, a <= b PROVE a * d <= b * d
  OBVIOUS
<1>1. b - a \in Nat /\ b = a + (b - a)
  OBVIOUS
<1>2. (a + (b - a)) * d = a * d + (b - a) * d
  OBVIOUS
<1>3. \A x, y \in Nat : x * y \in Nat
  OBVIOUS
<1>4. (b - a) * d \in Nat /\ a * d \in Nat
  BY <1>1, <1>3
<1> QED
  BY <1>1, <1>2, <1>4

LEMMA Division ==
  ASSUME NEW n \in Nat, NEW d \in Nat, d > 0
  PROVE  (n \div d) \in Nat /\ (n \div d) * d <= n /\ n < ((n \div d) + 1) * d
<1>1. (n \div d) \in Nat
  OBVIOUS
<1>2. (n \div d) * d <= n /\ n < ((n \div d) + 1) * d
  OBVIOUS
<1> QED
  BY <1>1, <1>2

LEMMA Divisible ==
  ASSUME NEW n \in Nat, NEW d \in Nat, d # 0, n % d = 0 PROVE \E k \in Nat : n = k * d
OBVIOUS

\* A multiple below another is below it by d at least.
LEMMA NextMultiple ==
  ASSUME NEW n \in Nat, NEW m \in Nat, NEW d \in Nat, d > 0, Multiple(n, d), Multiple(m, d), n < m
  PROVE  n + d <= m /\ Multiple(n + d, d)
<1>1. PICK j \in Nat : n = j * d
  BY DEF Multiple
<1>2. PICK k \in Nat : m = k * d
  BY DEF Multiple
<1>3. j < k
  <2>1. k <= j => k * d <= j * d
    BY Mono
  <2> QED
    BY <1>1, <1>2, <2>1
<1>4. (j + 1) * d <= k * d /\ j + 1 \in Nat
  BY <1>3, Mono
<1>5. (j + 1) * d = j * d + d
  OBVIOUS
<1> QED
  BY <1>1, <1>2, <1>4, <1>5 DEF Multiple

\* A chunk that begins in the file ends below the limit.
LEMMA BelowLimit ==
  ASSUME TypeOK, NEW a \in Nat, Multiple(a, DLSize), a <= file.size
  PROVE  a + DLSize <= Limit
<1>0. file.size \in Nat /\ DLSize \in Nat /\ DLSize > 0
  BY ChunkRange, Consts
<1> DEFINE q == file.size \div DLSize
<1>1. q \in Nat /\ file.size < (q + 1) * DLSize
  BY <1>0, Division
<1>2. PICK k \in Nat : a = k * DLSize
  BY DEF Multiple
<1> HIDE DEF q
<1>3. k < q + 1
  <2>1. q + 1 <= k => (q + 1) * DLSize <= k * DLSize
    BY <1>0, <1>1, Mono
  <2> QED
    BY <1>0, <1>1, <1>2, <2>1
<1>4. (k + 1) * DLSize <= (q + 1) * DLSize
  BY <1>0, <1>1, <1>3, Mono
<1>5. (k + 1) * DLSize = k * DLSize + DLSize
  BY <1>0
<1> USE DEF q
<1> QED
  BY <1>2, <1>4, <1>5 DEF Limit

\* Pages fill a chunk.
LEMMA SoundFacts ==
  ASSUME TypeOK, Sound(flash_algo)
  PROVE  /\ Page \in Nat /\ Page > 0 /\ Multiple(DLSize, Page)
         /\ flash_algo.entry["init"] = "init" /\ flash_algo.entry["erase_chip"] = "erase_chip"
         /\ flash_algo.entry["program_page"] = "program_page"
         /\ flash_algo.blob /\ flash_algo.algo_size <= program_buffer
<1>1. Page \in Nat /\ Page # 0 /\ DLSize % Page = 0
  BY DEF TypeOK, Algo, Page, Sound, Divides
<1>2. Multiple(DLSize, Page)
  BY <1>1, Consts, Divisible DEF Multiple
<1> QED
  BY <1>1, <1>2 DEF Sound

-----------------------------------------------------------------------------
(* The invariant.                                                          *)

LEMMA StepPhases ==
  ASSUME TypeOK, Control
  PROVE  /\ access.step \in Exec => download.at \in {"init", "erase", "page"}
         /\ access.step = "buffer" => download.at = "page"
         /\ access.step \in {"retry", "enable", "catch", "poll", "uncatch", "load"} => download.at = "init"
         /\ access.step = "debug" => download.at \in {"connect", "init", "finish"}
         /\ access.step = "reset" => download.at \in {"init", "finish", "uninit"}
         /\ download.at \in {"parse", "open", "done"} => access.step = "end"
BY AccessFields DEF Control, Steps, Exec, Setup, Await, Phases

LEMMA SuccFacts ==
  ASSUME NEW at \in Phases
  PROVE  /\ Succ(at)["debug"] = IF at = "init" THEN "enable" ELSE IF at = "finish" THEN "reset" ELSE "end"
         /\ Succ(at)["retry"] = "enable" /\ Succ(at)["enable"] = "catch" /\ Succ(at)["catch"] = "reset"
         /\ Succ(at)["reset"] = IF at = "init" THEN "poll" ELSE "end"
         /\ Succ(at)["poll"] = "uncatch" /\ Succ(at)["uncatch"] = "load" /\ Succ(at)["load"] = "args"
         /\ Succ(at)["buffer"] = "args" /\ Succ(at)["args"] = "frame" /\ Succ(at)["frame"] = "pc"
         /\ Succ(at)["pc"] = "xpsr" /\ Succ(at)["xpsr"] = "halt" /\ Succ(at)["halt"] = "start"
         /\ Succ(at)["start"] = "status" /\ Succ(at)["status"] = "wait" /\ Succ(at)["wait"] = "result"
         /\ Succ(at)["result"] = "unmask" /\ Succ(at)["unmask"] = "end"
BY DEF Succ

\* Chunk says nothing of the accesses, once they have begun.
LEMMA ChunkKept ==
  ASSUME TypeOK, Chunk, Kept, download' = download, access.step # "end" \/ access'.step = access.step,
         download.at = "parse" => target'.flash = target.flash
  PROVE  Chunk'
<1>1. Page' = Page
  BY DEF Kept, Page
<1>2. Sound(flash_algo)' = Sound(flash_algo)
  BY DEF Kept
<1> QED
  BY <1>1, <1>2 DEF Chunk, Kept

LEMMA GiveUpInv ==
  ASSUME IInv, TypeOK', Kept, GivesUp, target'.flash = target.flash,
         Sound(flash_algo) /\ target'.core = "call" =>
           Whole' /\ (Called'.fn = "program_page" => Called'.addr + Page <= Limit)
  PROVE  IInv'
<1>1. \/ download'.at = "uninit" /\ access'.step = "reset"
      \/ download'.at = "done" /\ ~download'.ret /\ access'.step = "end"
  <2> DEFINE u == [download EXCEPT !.at = "uninit"]
             d == [download EXCEPT !.at = "done", !.ret = FALSE]
  <2>1. u.at = "uninit"
    BY DEF IInv, TypeOK, DownloadType
  <2>2. d.at = "done" /\ ~d.ret
    BY DoneType DEF IInv
  <2>3. \/ download' = u /\ access'.step = "reset"
        \/ download' = d /\ access'.step = "end"
    BY DEF GivesUp
  <2> HIDE DEF u, d
  <2> QED
    BY <2>1, <2>2, <2>3
<1>2. Control'
  BY <1>1 DEF Control, Steps, Setup, Await
<1>3. Calls'
  BY <1>1 DEF Calls, Kept, Exec, Setup, Await, Given, Loaded
<1>4. Chunk'
  BY <1>1 DEF Chunk
<1>5. Media'
  BY <1>1 DEF IInv, Media, Kept, Limit, Page, Performed, Setup, Await
<1> QED
  BY <1>2, <1>3, <1>4, <1>5 DEF IInv

\* An access before the call of the algorithm, or after the last one.
LEMMA EarlyNext ==
  ASSUME IInv, TypeOK', Kept, download' = download, access'.call = access.call,
         access.step \notin Exec \cup {"buffer", "end"},
         target'.flash = target.flash, target'.algo = target.algo,
         \/ download.at = "connect" /\ access'.step = "end"
         \/ download.at = "init" /\ access'.step \in {"retry", "enable", "catch", "reset", "poll", "uncatch", "load"}
         \/ download.at = "finish" /\ access'.step \in {"reset", "end"}
         \/ download.at = "uninit" /\ access'.step = "end",
         access'.step \in {"uncatch", "load"} => target'.core = "halted",
         target'.core = "call" => target.core = "call" /\ target'.regs = target.regs
  PROVE  IInv'
<1>1. Control'
  BY DEF IInv, Control, Steps, Setup, Await, Exec
<1>2. Calls'
  <2>1. access'.step \notin Exec \cup {"buffer"} /\ Given(access'.step) = {}
    BY DEF Exec, Setup, Await, Given
  <2>2. download.at = "init" => access'.call = Fn("init", 0)'
    BY DEF IInv, Calls, Wants, Kept, Fn
  <2>3. ~Loaded'
    BY DEF Loaded, Exec, Setup, Await
  <2>4. Sound(flash_algo)' /\ target'.core = "call" => Whole'
    BY DEF IInv, Calls, Kept, Whole, Intact, Called
  <2> QED
    BY <2>1, <2>2, <2>3, <2>4 DEF Calls, Wants
<1>3. Chunk'
  BY ChunkKept DEF IInv
<1>4. Media'
  <2>1. download'.at \notin {"erase", "page", "done"}
    OBVIOUS
  <2>2. Called' = Called \/ target'.core # "call"
    BY DEF Called
  <2> QED
    BY <2>1, <2>2 DEF IInv, Media, Kept, Limit, Page, Filled
<1> QED
  BY <1>1, <1>2, <1>3, <1>4 DEF IInv

\* Registers that all hold the call of the operation make it whole, and inside
\* what may be programmed.
LEMMA WholeCall ==
  ASSUME IInv, Kept, Sound(flash_algo), access.step \in Exec \cup {"load", "buffer"},
         \A r \in Regs : target'.regs[r] = access.call, target'.algo
  PROVE  Whole' /\ (Called'.fn = "program_page" => Called'.addr + Page <= Limit)
<1>0. TypeOK /\ Control /\ Calls /\ Chunk /\ download.at \in {"init", "erase", "page"} /\ access.step # "end"
  BY StepPhases DEF IInv, Exec, Setup, Await
<1>1. access.call = Wants(download.at)
  BY <1>0, StepPhases DEF Calls
<1>2. Called' = access.call /\ \A r \in Regs : target'.regs[r] = Called'
  BY DEF Called, Regs
<1>3. CASE download.at = "page"
  <2>1. access.call.fn = "program_page" /\ access.call.addr = download.addr + download.from
    BY <1>0, <1>1, <1>3, SoundFacts DEF Wants, Fn
  <2>2. /\ Multiple(download.addr, DLSize) /\ download.addr <= file.size
        /\ download.off <= DLSize /\ download.off = download.from + Page
    BY <1>0, <1>3 DEF Chunk
  <2>3. download.addr + DLSize <= Limit
    BY <1>0, <2>2, ChunkRange, BelowLimit
  <2>4. download.addr + download.from + Page <= Limit
    <3>1. Page \in Nat /\ DLSize \in Nat
      BY <1>0, SoundFacts, Consts
    <3>2. Limit \in Int
      <4>1. file.size \div DLSize \in Nat
        BY <1>0, ChunkRange, Consts, Division
      <4> QED
        BY <4>1, Consts DEF Limit
    <3> QED
      BY <1>0, <2>2, <2>3, <3>1, <3>2, ChunkRange
  <2> QED
    BY <1>2, <2>1, <2>4 DEF Whole, Intact
<1>4. CASE download.at # "page"
  <2>1. access.call.fn \in {"init", "erase_chip"}
    BY <1>0, <1>1, <1>4, SoundFacts DEF Wants, Fn
  <2> QED
    BY <1>2, <2>1 DEF Whole, Intact
<1> QED
  BY <1>3, <1>4

\* An access of the call of the algorithm, or the one before it.
LEMMA ExecGo ==
  ASSUME IInv, TypeOK', Kept, download' = download, access'.call = access.call,
         access.step \in Exec \cup {"load", "buffer"}, access'.step \in Exec \cup {"end"},
         target'.flash = target.flash,
         target'.core = "halted" \/ (access'.step \in Await /\ target'.core = "call"),
         \A r \in Given(access'.step) : target'.regs[r] = access.call,
         Sound(flash_algo) => target'.algo,
         download.at = "page" /\ access'.step \in Exec =>
           \A i \in 0 .. write_size - 1 : target'.buffer[i] = download.bin_buff[download.from + i],
         access'.step \in Setup => access.step \in {"load", "buffer"} \cup Setup,
         target'.core = "call" => access.step \in Setup \/ target.core = "call",
         Performed' => Performed
  PROVE  IInv'
<1>0. TypeOK /\ Control /\ Calls /\ Chunk /\ Media /\ download.at \in {"init", "erase", "page"} /\ access.step # "end"
  BY StepPhases DEF IInv, Exec, Setup, Await
<1>1. Control'
  BY <1>0 DEF Control, Steps, Setup, Await, Exec
<1>2. Sound(flash_algo) /\ target'.core = "call" =>
        Whole' /\ (Called'.fn = "program_page" => Called'.addr + Page <= Limit)
  <2>1. target'.core = "call" => \A r \in Regs : target'.regs[r] = access.call
    BY DEF Given, Await
  <2> QED
    BY <2>1, WholeCall
<1>3. Sound(flash_algo)' = Sound(flash_algo) /\ Page' = Page /\ write_size' = write_size /\ Limit' = Limit
  BY DEF Kept, Page, write_size, Limit
<1>4. Calls'
  <2>1. access'.call = Wants(download.at)'
    BY <1>0, StepPhases DEF Calls, Wants, Kept, Fn
  <2> QED
    BY <1>2, <1>3, <2>1 DEF Calls
<1>5. Chunk'
  BY <1>0, ChunkKept
<1>6. Media'
  <2>1. target'.core = "call" \/ access'.step \in {"buffer"} \cup Setup =>
          access.step \in {"buffer", "load"} \cup Setup \/ target.core = "call"
    BY DEF Exec, Setup, Await
  <2>2. download.at = "page" => access.step # "load"
    BY <1>0, StepPhases
  <2>3. \A c \in Cell : target'.flash[c] = target.flash[c]
    OBVIOUS
  <2>4. Sound(flash_algo) => (download.at = "erase" /\ Performed' => Emptied')
    BY <1>0 DEF Media, Emptied
  <2>5. Sound(flash_algo) /\ download.at = "page" =>
          /\ access'.step \in {"buffer"} \cup Setup \/ target'.core = "call" => Filled(download.addr + download.from)'
          /\ Performed' => Filled(download.addr + download.off)'
    <3> SUFFICES ASSUME Sound(flash_algo), download.at = "page"
                 PROVE  /\ access'.step \in {"buffer"} \cup Setup \/ target'.core = "call"
                             => Filled(download.addr + download.from)'
                        /\ Performed' => Filled(download.addr + download.off)'
      OBVIOUS
    <3>1. access'.step \in {"buffer"} \cup Setup \/ target'.core = "call" => Filled(download.addr + download.from)
      BY <1>0, <2>1, <2>2 DEF Media
    <3>2. Performed' => Filled(download.addr + download.off)
      BY <1>0 DEF Media
    <3>3. Filled(download.addr + download.from) => Filled(download.addr + download.from)'
      BY DEF Filled, Kept
    <3>4. Filled(download.addr + download.off) => Filled(download.addr + download.off)'
      BY DEF Filled, Kept
    <3> QED
      BY <3>1, <3>2, <3>3, <3>4
  <2> QED
    BY <1>0, <1>2, <1>3, <2>4, <2>5 DEF Media
<1> QED
  BY <1>1, <1>4, <1>5, <1>6 DEF IInv

\* What a record of the target keeps when another part of it is written.
Same(t) == /\ t.core = target.core /\ t.regs = target.regs /\ t.algo = target.algo
           /\ t.buffer = target.buffer /\ t.flash = target.flash /\ t.result = target.result

LEMMA SameFields ==
  ASSUME TypeOK
  PROVE  /\ Same(target) /\ Same(StickyTarget)
         /\ \A e \in BOOLEAN : Same([target EXCEPT !.sticky = e]) /\ Same([target EXCEPT !.vc = e])
         /\ \A v \in BOOLEAN : LET t == [target EXCEPT !.algo = v]
                               IN  /\ t.core = target.core /\ t.flash = target.flash /\ t.algo = v
         /\ \A c \in {"running", "halted", "call"} :
              LET t == [target EXCEPT !.core = c]
              IN  /\ t.core = c /\ t.regs = target.regs /\ t.algo = target.algo
                  /\ t.buffer = target.buffer /\ t.flash = target.flash /\ t.result = target.result
<1>1. target \in TargetType
  BY DEF TypeOK
<1> QED
  BY <1>1 DEF TargetType, Same, StickyTarget

\* A call that runs on stays whole.
LEMMA StillWhole ==
  ASSUME IInv, Kept, Sound(flash_algo), target.core = "call", target'.regs = target.regs, target'.algo = target.algo
  PROVE  Whole' /\ (Called'.fn = "program_page" => Called'.addr + Page <= Limit)
BY DEF IInv, Calls, Media, Kept, Whole, Intact, Called

LEMMA FailInv ==
  ASSUME IInv, TypeOK', Kept, Fail, access.step # "end", target'.flash = target.flash,
         Sound(flash_algo) /\ target'.core = "call" =>
           Whole' /\ (Called'.fn = "program_page" => Called'.addr + Page <= Limit),
         access.step \in {"retry", "reset", "enable"} =>
           /\ target'.algo = target.algo
           /\ target'.core = "call" => target.core = "call" /\ target'.regs = target.regs
  PROVE  IInv'
<1>1. CASE access.step \in {"retry", "reset"} /\ Go
  <2>1. /\ access'.step = Succ(download.at)[access.step] /\ download' = download /\ access'.call = access.call
        /\ download.at \in {"init", "finish", "uninit"} /\ download.at \in Phases
        /\ access.step = "retry" => download.at = "init"
    BY <1>1, GoFacts, StepPhases, AccessFields DEF IInv
  <2>2. /\ Succ(download.at)["retry"] = "enable"
        /\ Succ(download.at)["reset"] = IF download.at = "init" THEN "poll" ELSE "end"
    BY <2>1, SuccFacts
  <2>3. access.step \notin Exec \cup {"buffer", "end"}
    BY <1>1 DEF Exec, Setup, Await
  <2> QED
    BY <1>1, <2>1, <2>2, <2>3, EarlyNext
<1>2. CASE access.step = "enable" /\ access'.step = "retry" /\ access'.call = access.call /\ download' = download
  <2>1. download.at = "init"
    BY <1>2, StepPhases DEF IInv
  <2>2. access.step \notin Exec \cup {"buffer", "end"}
    BY <1>2 DEF Exec, Setup, Await
  <2> QED
    BY <1>2, <2>1, <2>2, EarlyNext
<1>3. CASE GivesUp
  BY <1>3, GiveUpInv
<1> QED
  BY <1>1, <1>2, <1>3, FailFacts DEF IInv

\* The access fails, and nothing a call needs has changed.
LEMMA QuietFail ==
  ASSUME IInv, TypeOK', Kept, Fail, access.step # "end", Same(target')
  PROVE  IInv'
BY StillWhole, FailInv DEF Same

\* The core is not calling before and after the call.
LEMMA NoCalling ==
  ASSUME TypeOK, Control, access.step \notin Await \cup {"end"}, download.at # "uninit"
  PROVE  target.core # "call"
BY AccessFields DEF Control, Steps, Phases

\* The accesses before the call.
LEMMA EnableInv == ASSUME IInv, TypeOK', Kept, access.step = "enable", Whichever(EnableT) PROVE IInv'
<1>1. download.at = "init" /\ target.core # "call" /\ TypeOK
  BY StepPhases, NoCalling DEF IInv, Await
<1>2. target'.flash = target.flash /\ target'.algo = target.algo /\ target'.core # "call"
  BY <1>1, EnableFacts, SameFields DEF Whichever, Same
<1>3. CASE Go
  <2>1. download' = download /\ access'.call = access.call /\ access'.step = "catch"
    BY <1>1, <1>3, GoFacts, SuccFacts, AccessFields
  <2> QED
    BY <1>1, <1>2, <2>1, EarlyNext DEF Exec, Setup, Await
<1>4. CASE Fail
  BY <1>2, <1>4, FailInv
<1> QED
  BY <1>3, <1>4 DEF Whichever

LEMMA CatchInv ==
  ASSUME IInv, TypeOK', Kept, access.step \in {"catch", "uncatch"},
         NEW v \in BOOLEAN, Whichever([target EXCEPT !.vc = v])
  PROVE  IInv'
<1>1. download.at = "init" /\ target.core # "call" /\ TypeOK /\ (access.step = "uncatch" => target.core = "halted")
  BY StepPhases, NoCalling DEF IInv, Await, Control
<1>2. Same(target')
  BY <1>1, SameFields DEF Whichever
<1>3. CASE Go
  <2>1. /\ download' = download /\ access'.call = access.call
        /\ access.step = "catch" => access'.step = "reset"
        /\ access.step = "uncatch" => access'.step = "load"
    BY <1>1, <1>3, GoFacts, SuccFacts, AccessFields
  <2> QED
    BY <1>1, <1>2, <2>1, EarlyNext DEF Exec, Setup, Await, Same
<1>4. CASE Fail
  BY <1>2, <1>4, QuietFail
<1> QED
  BY <1>3, <1>4 DEF Whichever

LEMMA ResetInv == ASSUME IInv, TypeOK', Kept, access.step \in {"reset", "retry"}, Whichever(ResetT) PROVE IInv'
<1>1. TypeOK /\ (access.step = "retry" => download.at = "init") /\ download.at \in {"init", "finish", "uninit"}
  BY StepPhases DEF IInv
<1>2. /\ target'.flash = target.flash /\ target'.algo = target.algo
      /\ target'.core = "call" => Same(target')
  BY <1>1, ResetFacts, SameFields DEF Whichever, Same
<1>3. CASE Go
  <2>1. /\ download' = download /\ access'.call = access.call
        /\ access.step = "retry" => access'.step = "enable"
        /\ access.step = "reset" => access'.step = IF download.at = "init" THEN "poll" ELSE "end"
    BY <1>1, <1>3, GoFacts, SuccFacts, AccessFields
  <2> QED
    BY <1>1, <1>2, <2>1, EarlyNext DEF Exec, Setup, Await, Same
<1>4. CASE Fail
  <2>1. Sound(flash_algo) /\ target'.core = "call" =>
          Whole' /\ (Called'.fn = "program_page" => Called'.addr + Page <= Limit)
    BY <1>2, StillWhole DEF Same
  <2> QED
    BY <1>2, <1>4, <2>1, FailInv DEF Same
<1> QED
  BY <1>3, <1>4 DEF Whichever

LEMMA DebugInv ==
  ASSUME IInv, TypeOK', Kept, access.step = "debug", Go \/ Fail,
         NEW e \in BOOLEAN, target' = [target EXCEPT !.sticky = e]
  PROVE  IInv'
<1>1. download.at \in {"connect", "init", "finish"} /\ TypeOK /\ Same(target')
  BY StepPhases, SameFields DEF IInv
<1>2. CASE Go
  <2>1. /\ download' = download /\ access'.call = access.call
        /\ access'.step = IF download.at = "init" THEN "enable" ELSE IF download.at = "finish" THEN "reset" ELSE "end"
    BY <1>1, <1>2, GoFacts, SuccFacts, AccessFields
  <2> QED
    BY <1>1, <2>1, EarlyNext DEF Exec, Setup, Await, Same
<1>3. CASE Fail
  BY <1>1, <1>3, QuietFail
<1> QED
  BY <1>2, <1>3

LEMMA PollInv == ASSUME IInv, PollHalted PROVE IInv'
<1>0. TypeOK /\ TypeOK' /\ Kept /\ access.step = "poll" /\ download.at = "init" /\ target.core # "call"
  BY PollFacts, StepPhases, NoCalling DEF IInv, Await
<1>1. CASE target' = target /\ Go /\ target.core = "halted"
  <2>1. download' = download /\ access'.call = access.call /\ access'.step = "uncatch"
    BY <1>0, <1>1, GoFacts, SuccFacts, AccessFields
  <2> QED
    BY <1>0, <1>1, <2>1, EarlyNext DEF Exec, Setup, Await
<1>2. CASE UNCHANGED <<access, download, target>>
  BY <1>0, <1>2 DEF IInv, Kept, Control, Calls, Chunk, Media, Wants, Fn, Loaded, Whole, Intact, Called, Page,
                    write_size, Emptied, Performed, Filled, Limit
<1>3. CASE target' \in {target, StickyTarget} /\ Fail
  BY <1>0, <1>3, SameFields, QuietFail
<1> QED
  BY <1>0, <1>1, <1>2, <1>3, PollFacts

\* The accesses of the call.
LEMMA LoadInv ==
  ASSUME IInv, TypeOK', Kept, access.step = "load", Whichever([target EXCEPT !.algo = flash_algo.blob])
  PROVE  IInv'
<1>1. TypeOK /\ download.at = "init" /\ target.core = "halted" /\ flash_algo.blob \in BOOLEAN
  BY StepPhases DEF IInv, Control, TypeOK, Algo
<1>2. target'.core = "halted" /\ target'.flash = target.flash
  BY <1>1, SameFields DEF Whichever, Same
<1>3. CASE target' = [target EXCEPT !.algo = flash_algo.blob] /\ Go
  <2>1. download' = download /\ access'.call = access.call /\ access'.step = "args"
    BY <1>1, <1>3, GoFacts, SuccFacts, AccessFields
  <2>2. Sound(flash_algo) => target'.algo
    BY <1>1, <1>3, SameFields, SoundFacts
  <2>3. Given(access'.step) = {} /\ access'.step \in Exec \cup {"end"} /\ ~Performed'
    BY <2>1 DEF Given, Exec, Setup, Await, Performed
  <2> QED
    BY <1>1, <1>2, <2>1, <2>2, <2>3, ExecGo
<1>4. CASE Fail
  BY <1>2, <1>4, FailInv
<1> QED
  BY <1>3, <1>4 DEF Whichever

LEMMA BufferInv ==
  ASSUME IInv, TypeOK', Kept, access.step = "buffer", Whichever(BufferT)
  PROVE  IInv'
<1>1. TypeOK /\ download.at = "page" /\ target.core = "halted"
  BY StepPhases DEF IInv, Control
<1>2. target'.core = "halted" /\ target'.flash = target.flash
  BY <1>1, SameFields, BufferFacts DEF Whichever, Same
<1>3. CASE target' = BufferT /\ Go
  <2>1. download' = download /\ access'.call = access.call /\ access'.step = "args"
    BY <1>1, <1>3, GoFacts, SuccFacts, AccessFields
  <2>2. Sound(flash_algo) => target'.algo
    BY <1>1, <1>3, BufferFacts, SoundFacts DEF IInv, Calls, Loaded
  <2>3. Given(access'.step) = {} /\ access'.step \in Exec \cup {"end"} /\ ~Performed'
    BY <2>1 DEF Given, Exec, Setup, Await, Performed
  <2>4. \A i \in 0 .. write_size - 1 : target'.buffer[i] = download.bin_buff[download.from + i]
    BY <1>1, <1>3, BufferFacts
  <2> QED
    BY <1>1, <1>2, <2>1, <2>2, <2>3, <2>4, ExecGo
<1>4. CASE Fail
  BY <1>2, <1>4, FailInv
<1> QED
  BY <1>3, <1>4 DEF Whichever

LEMMA RegisterInv ==
  ASSUME IInv, TypeOK', Kept, access.step \in Regs, Whichever(RegT)
  PROVE  IInv'
<1>1. /\ TypeOK /\ download.at \in {"init", "erase", "page"} /\ target.core = "halted"
      /\ access.step \in Setup /\ access.step \notin {"end", "retry", "reset", "enable"}
  BY StepPhases DEF IInv, Control, Regs, Exec, Setup
<1>2. /\ target'.core = "halted" /\ target'.flash = target.flash
      /\ target'.algo = target.algo /\ target'.buffer = target.buffer
  BY <1>1, SameFields, RegFacts DEF Whichever, Same
<1>3. CASE target' = RegT /\ Go
  <2>1. /\ download' = download /\ access'.call = access.call
        /\ access.step = "args" => access'.step = "frame"
        /\ access.step = "frame" => access'.step = "pc"
        /\ access.step = "pc" => access'.step = "xpsr"
        /\ access.step = "xpsr" => access'.step = "halt"
    BY <1>1, <1>3, GoFacts, SuccFacts, AccessFields
  <2>2. \A r \in Given(access'.step) : r = access.step \/ r \in Given(access.step)
    BY <2>1 DEF Given, Regs, Await
  <2>3. \A r \in Given(access.step) : target.regs[r] = access.call
    BY DEF IInv, Calls
  <2>4. \A r \in Given(access'.step) : target'.regs[r] = access.call
    <3>1. \A s \in StepName : Given(s) \subseteq Regs
      BY DEF Given, Regs
    <3>2. access'.step \in StepName
      BY <2>1 DEF Regs, StepName
    <3> QED
      BY <1>1, <1>3, <2>2, <2>3, <3>1, <3>2, RegFacts
  <2>5. access'.step \in Setup /\ ~Performed'
    BY <2>1 DEF Regs, Setup, Performed, Await
  <2>6. Sound(flash_algo) => target.algo
    BY <1>1 DEF IInv, Calls, Loaded, Exec
  <2>7. download.at = "page" => \A i \in 0 .. write_size - 1 : target.buffer[i] = download.bin_buff[download.from + i]
    BY <1>1 DEF IInv, Calls, Exec
  <2> QED
    BY <1>1, <1>2, <2>1, <2>4, <2>5, <2>6, <2>7, ExecGo DEF Exec
<1>4. CASE Fail
  BY <1>1, <1>2, <1>4, FailInv
<1> QED
  BY <1>3, <1>4 DEF Whichever

\* What a call leaves alone.
LEMMA InCall ==
  ASSUME IInv, access.step \in Exec
  PROVE  /\ TypeOK /\ download.at \in {"init", "erase", "page"} /\ access.step # "end"
         /\ Sound(flash_algo) => target.algo
         /\ \A r \in Given(access.step) : target.regs[r] = access.call
         /\ download.at = "page" =>
              \A i \in 0 .. write_size - 1 : target.buffer[i] = download.bin_buff[download.from + i]
<1>1. TypeOK /\ download.at \in {"init", "erase", "page"}
  BY StepPhases DEF IInv
<1> QED
  BY <1>1 DEF IInv, Calls, Loaded, Exec, Setup, Await

LEMMA HaltInv ==
  ASSUME IInv, TypeOK', Kept, access.step = "halt", Whichever([target EXCEPT !.core = "halted"])
  PROVE  IInv'
<1>0. access.step \in Setup /\ access.step \in Exec
  BY DEF Exec, Setup
<1>1. TypeOK /\ download.at \in {"init", "erase", "page"} /\ target.core = "halted"
  BY <1>0, InCall DEF IInv, Control
<1>2. Same(target')
  BY <1>1, SameFields DEF Whichever, Same
<1>3. CASE Go
  <2>1. download' = download /\ access'.call = access.call /\ access'.step = "start"
    BY <1>1, <1>3, GoFacts, SuccFacts, AccessFields
  <2>2. Given("start") = Given("halt")
    BY DEF Given
  <2>3. access'.step \in Setup /\ ~Performed'
    BY <2>1 DEF Setup, Performed, Await
  <2> QED
    BY <1>0, <1>1, <1>2, <2>1, <2>2, <2>3, InCall, ExecGo DEF Exec, Same
<1>4. CASE Fail
  BY <1>1, <1>2, <1>4, QuietFail
<1> QED
  BY <1>3, <1>4 DEF Whichever

LEMMA StartInv ==
  ASSUME IInv, TypeOK', Kept, access.step = "start", Whichever([target EXCEPT !.core = "call"])
  PROVE  IInv'
<1>0. access.step \in Setup /\ access.step \in Exec
  BY DEF Exec, Setup
<1>1. TypeOK /\ download.at \in {"init", "erase", "page"}
  BY <1>0, InCall
<1>2. /\ target'.regs = target.regs /\ target'.algo = target.algo
      /\ target'.buffer = target.buffer /\ target'.flash = target.flash
  BY <1>1, SameFields DEF Whichever, Same
<1>3. \A r \in Regs : target.regs[r] = access.call
  BY <1>0, InCall DEF Given
<1>4. CASE target' = [target EXCEPT !.core = "call"] /\ Go
  <2>1. download' = download /\ access'.call = access.call /\ access'.step = "status"
    BY <1>1, <1>4, GoFacts, SuccFacts, AccessFields
  <2>2. target'.core = "call"
    BY <1>1, <1>4, SameFields
  <2>3. Given("status") = Regs /\ access'.step \in Await /\ access'.step \notin Setup /\ ~Performed'
    BY <2>1, <2>2 DEF Setup, Performed, Await, Given
  <2> QED
    BY <1>0, <1>1, <1>2, <1>3, <2>1, <2>2, <2>3, InCall, ExecGo DEF Exec
<1>5. CASE Fail
  <2>1. Sound(flash_algo) => Whole' /\ (Called'.fn = "program_page" => Called'.addr + Page <= Limit)
    BY <1>0, <1>2, <1>3, InCall, WholeCall
  <2> QED
    BY <1>2, <1>5, <2>1, FailInv
<1> QED
  BY <1>4, <1>5 DEF Whichever

LEMMA StatusInv == ASSUME IInv, TypeOK', Kept, access.step = "status", Whichever(target) PROVE IInv'
<1>0. access.step \in Await /\ access.step \in Exec
  BY DEF Exec, Await
<1>1. TypeOK /\ download.at \in {"init", "erase", "page"} /\ target.core \in {"halted", "call"}
  BY <1>0, InCall DEF IInv, Control
<1>2. Same(target')
  BY <1>1, SameFields DEF Whichever
<1>3. CASE Go
  <2>1. download' = download /\ access'.call = access.call /\ access'.step = "wait"
    BY <1>1, <1>3, GoFacts, SuccFacts, AccessFields
  <2>2. Given("status") = Given("wait") /\ access'.step \in Await /\ access'.step \notin Setup
    BY <2>1 DEF Given, Await, Setup
  <2>3. Performed' => Performed
    BY <1>0, <1>2, <2>1 DEF Performed, Same
  <2> QED
    BY <1>0, <1>1, <1>2, <2>1, <2>2, <2>3, InCall, ExecGo DEF Exec, Same
<1>4. CASE Fail
  BY <1>0, <1>1, <1>2, <1>4, InCall, QuietFail
<1> QED
  BY <1>3, <1>4 DEF Whichever

LEMMA WaitInv == ASSUME IInv, WaitHalted PROVE IInv'
<1>0. TypeOK /\ TypeOK' /\ Kept /\ access.step = "wait"
  BY WaitFacts DEF IInv
<1>1. access.step \in Await /\ access.step \in Exec
  BY <1>0 DEF Exec, Await
<1>2. download.at \in {"init", "erase", "page"}
  BY <1>1, InCall
<1>3. CASE target' = target /\ Go /\ target.core = "halted"
  <2>1. download' = download /\ access'.call = access.call /\ access'.step = "result"
    BY <1>0, <1>3, GoFacts, SuccFacts, AccessFields
  <2>2. Given("result") = {} /\ access'.step \in Exec /\ access'.step \notin Setup
    BY <2>1 DEF Given, Await, Setup, Exec
  <2>3. Performed' => Performed
    BY <1>1, <1>3, <2>1 DEF Performed
  <2> QED
    BY <1>0, <1>1, <1>3, <2>1, <2>2, <2>3, InCall, ExecGo
<1>4. CASE target' \in {target, StickyTarget} /\ Fail
  BY <1>0, <1>4, SameFields, QuietFail
<1> QED
  BY <1>0, <1>3, <1>4, WaitFacts

LEMMA ResultInv == ASSUME IInv, ReadResult PROVE IInv'
<1>0. TypeOK /\ TypeOK' /\ Kept /\ access.step = "result"
  BY ResultFacts DEF IInv
<1>1. access.step \in Exec
  BY <1>0 DEF Exec, Await
<1>2. download.at \in {"init", "erase", "page"} /\ target.core = "halted"
  BY <1>0, <1>1, InCall DEF IInv, Control
<1>3. CASE /\ target' = target /\ download' = download /\ access'.step = "unmask"
           /\ access'.call = access.call /\ access'.r0 = target.result
  <2>1. Given("unmask") = {} /\ access'.step \in Exec /\ access'.step \notin Setup \cup Await
    BY <1>3 DEF Given, Await, Setup, Exec
  <2>2. Performed' => Performed
    BY <1>0, <1>2, <1>3 DEF Performed, Await
  <2> QED
    BY <1>0, <1>1, <1>2, <1>3, <2>1, <2>2, InCall, ExecGo
<1>4. CASE target' \in {target, StickyTarget} /\ Fail
  BY <1>0, <1>4, SameFields, QuietFail
<1> QED
  BY <1>0, <1>3, <1>4, ResultFacts

LEMMA UnmaskInv == ASSUME IInv, Unmask PROVE IInv'
<1>0. TypeOK /\ TypeOK' /\ Kept /\ access.step = "unmask"
  BY UnmaskFacts DEF IInv
<1>1. access.step \in Exec
  BY <1>0 DEF Exec
<1>2. download.at \in {"init", "erase", "page"} /\ target.core = "halted"
  BY <1>0, <1>1, InCall DEF IInv, Control
<1>3. Same(HaltT)
  BY <1>0, <1>2, SameFields DEF HaltT, Same
<1>4. CASE access.r0 = 0 /\ target' = HaltT /\ Go
  <2>1. download' = download /\ access'.call = access.call /\ access'.step = "end"
    BY <1>0, <1>4, GoFacts, SuccFacts, AccessFields
  <2>2. Given("end") = {} /\ access'.step \notin Exec \cup Setup \cup Await
    BY <2>1 DEF Given, Await, Setup, Exec
  <2>3. Performed
    BY <1>0, <1>4 DEF Performed
  <2> QED
    BY <1>0, <1>1, <1>2, <1>3, <1>4, <2>1, <2>2, <2>3, InCall, ExecGo DEF Same
<1>5. CASE target' \in {target, StickyTarget, HaltT} /\ Fail
  BY <1>0, <1>3, <1>5, SameFields, QuietFail
<1> QED
  BY <1>0, <1>4, <1>5, UnmaskFacts

LEMMA AccessInv ==
  ASSUME IInv,
         \/ EnableDebug \/ HaltOnReset \/ swd_set_target_reset \/ LoadAlgorithm \/ LoadBuffer
         \/ WriteRegister \/ HaltMasked \/ Start \/ CheckStatus
         \/ InitDebug \/ PollHalted \/ WaitHalted \/ ReadResult \/ Unmask
  PROVE  IInv'
<1>1. CASE \/ EnableDebug \/ HaltOnReset \/ swd_set_target_reset \/ LoadAlgorithm \/ LoadBuffer
           \/ WriteRegister \/ HaltMasked \/ Start \/ CheckStatus
  <2>1. TypeOK
    BY DEF IInv
  <2>2. TypeOK' /\ Kept
    BY <1>1, <2>1, Accesses
  <2> QED
    BY <1>1, <2>1, <2>2, Accesses, EnableInv, CatchInv, ResetInv, LoadInv, BufferInv, RegisterInv, HaltInv,
       StartInv, StatusInv
<1>2. CASE InitDebug
  <2>1. TypeOK
    BY DEF IInv
  <2> QED
    BY <1>2, <2>1, InitDebugFacts, DebugInv
<1> QED
  BY <1>1, <1>2, PollInv, WaitInv, ResultInv, UnmaskInv

\* Between operations no call runs.
LEMMA Between ==
  ASSUME IInv, access.step = "end", download.at \notin {"uninit", "done"}
  PROVE  /\ TypeOK /\ target.core # "call"
         /\ download.at \in {"init", "erase", "page"} => target.core = "halted"
BY DEF IInv, Control, Await

LEMMA OpenInv == ASSUME IInv, Open PROVE IInv'
<1>0. TypeOK /\ TypeOK' /\ Kept /\ download.at = "open" /\ access.step = "end" /\ target.core # "call" /\ target' = target
  BY OperationType, Between DEF IInv, Open, At, Kept
<1>1. CASE /\ download' = [download EXCEPT !.at = "connect", !.readflag = TRUE]
           /\ access' = [access EXCEPT !.step = "debug"]
  <2>1. download'.at = "connect" /\ download'.readflag
    <3>1. download \in DownloadType
      BY <1>0 DEF TypeOK
    <3> QED
      BY <1>1, <3>1 DEF DownloadType
  <2>2. access'.step = "debug"
    BY <1>0, <1>1 DEF TypeOK, AccessType
  <2>3. Control'
    BY <1>0, <2>1, <2>2 DEF Control, Steps, Setup, Await
  <2>4. Calls'
    BY <1>0, <2>1, <2>2 DEF Calls, Exec, Setup, Await, Given, Loaded
  <2>5. Chunk'
    BY <1>0, <2>1 DEF IInv, Chunk, Kept
  <2>6. Media'
    BY <1>0, <2>1 DEF IInv, Media, Kept, Limit
  <2> QED
    BY <1>0, <2>3, <2>4, <2>5, <2>6 DEF IInv
<1>2. CASE Done(FALSE) /\ UNCHANGED access
  BY <1>0, <1>2, GiveUpInv DEF GivesUp, Done
<1> QED
  BY <1>1, <1>2 DEF Open

LEMMA ConnectInv == ASSUME IInv, target_flash_init PROVE IInv'
<1>0. /\ TypeOK /\ TypeOK' /\ Kept /\ download.at = "connect" /\ access.step = "end"
      /\ target.core # "call" /\ target' = target
  BY OperationType, Between DEF IInv, target_flash_init, At, Kept
<1>1. /\ download'.at = "init" /\ access'.step = "debug" /\ access'.call = Fn("init", 0)
      /\ download' = [download EXCEPT !.at = "init"]
  <2>1. Begin("init", "debug", Fn("init", 0)) /\ Fn("init", 0) \in Call_ /\ "init" \in Phases /\ "debug" \in StepName
    BY <1>0, FnType DEF target_flash_init, Function, Phases, StepName
  <2> QED
    BY <1>0, <2>1, BeginFacts
<1>2. download'.readflag = download.readflag
  BY <1>0, <1>1 DEF TypeOK, DownloadType
<1>3. Control'
  BY <1>0, <1>1 DEF Control, Steps, Setup, Await
<1>4. Calls'
  BY <1>0, <1>1 DEF Calls, Exec, Setup, Await, Given, Loaded, Wants, Fn, Kept
<1>5. Chunk'
  BY <1>0, <1>1, <1>2 DEF IInv, Chunk, Kept
<1>6. Media'
  BY <1>0, <1>1 DEF IInv, Media, Kept, Limit
<1> QED
  BY <1>0, <1>3, <1>4, <1>5, <1>6 DEF IInv

LEMMA EraseInv == ASSUME IInv, target_flash_erase_chip PROVE IInv'
<1>0. /\ TypeOK /\ TypeOK' /\ Kept /\ download.at = "init" /\ access.step = "end"
      /\ target.core = "halted" /\ target' = target
  BY OperationType, Between DEF IInv, target_flash_erase_chip, At, Kept
<1>1. /\ download'.at = "erase" /\ access'.step = "args" /\ access'.call = Fn("erase_chip", 0)
      /\ download' = [download EXCEPT !.at = "erase"]
  <2>1. /\ Begin("erase", "args", Fn("erase_chip", 0)) /\ Fn("erase_chip", 0) \in Call_
        /\ "erase" \in Phases /\ "args" \in StepName
    BY <1>0, FnType DEF target_flash_erase_chip, Function, Phases, StepName
  <2> QED
    BY <1>0, <2>1, BeginFacts
<1>2. download'.readflag = download.readflag
  BY <1>0, <1>1 DEF TypeOK, DownloadType
<1>3. Control'
  BY <1>0, <1>1 DEF Control, Steps, Setup, Await, Exec
<1>4. Calls'
  <2>1. Sound(flash_algo) => target.algo
    BY <1>0 DEF IInv, Calls, Loaded
  <2> QED
    BY <1>0, <1>1, <2>1 DEF Calls, Await, Given, Wants, Fn, Kept
<1>5. Chunk'
  BY <1>0, <1>1, <1>2 DEF IInv, Chunk, Kept
<1>6. Media'
  BY <1>0, <1>1 DEF IInv, Media, Kept, Limit, Performed, Await
<1> QED
  BY <1>0, <1>3, <1>4, <1>5, <1>6 DEF IInv

\* A chunk is read, where the last one ended.
LEMMA ReadInv ==
  ASSUME IInv, NEW a \in Nat, ReadChunk(a), access.step = "end", download.readflag,
         download.at \in {"erase", "page"}, file.pos = a, Multiple(a, DLSize),
         Sound(flash_algo) => Filled(a)
  PROVE  IInv'
<1>0. TypeOK /\ TypeOK' /\ target.core = "halted"
  BY ReadChunkType, Between DEF IInv
<1>1. PICK n \in 0 .. Wanted :
        /\ Wanted \in Nat /\ Wanted <= DLSize /\ Wanted <= Left /\ (Wanted = DLSize \/ Wanted = Left)
        /\ file'.pos = file.pos + n /\ file'.size = file.size
        /\ (n = Wanted /\ file'.good = file.good) \/ ~file'.good
        /\ download'.at = "page" /\ download'.addr = a /\ download'.from = 0 /\ download'.off = 0
        /\ download'.readflag = (download.readflag /\ n = DLSize)
        /\ download'.bin_buff = Take(n)
        /\ UNCHANGED <<flash_algo, access, target>>
  BY <1>0, ReadChunkFacts
<1>2. n \in Nat /\ DLSize \in Nat /\ file.size \in Nat /\ file.pos + Left = file.size /\ a <= file.size /\ Left \in Nat
  BY <1>0, <1>1, ChunkRange, Consts DEF Left
<1>3. Control'
  BY <1>0, <1>1 DEF Control, Steps, Await
<1>4. Calls'
  <2>1. Sound(flash_algo) => target.algo
    BY DEF IInv, Calls, Loaded
  <2> QED
    BY <1>0, <1>1, <2>1 DEF Calls, Exec, Setup, Await, Given
<1>5. Chunk'
  <2>1. download'.readflag => file'.pos = download'.addr + DLSize
    BY <1>1
  <2>2. ~download'.readflag /\ file'.good => file'.size < download'.addr + DLSize
    <3> SUFFICES ASSUME ~download'.readflag, file'.good PROVE file.size < a + DLSize
      BY <1>1
    <3>1. n # DLSize /\ n = Wanted
      BY <1>1
    <3>2. Left < DLSize
      BY <1>1, <1>2, <3>1
    <3> QED
      BY <1>2, <3>2
  <2>3. file'.good => \A i \in Offset : download'.addr + i < file'.size => download'.bin_buff[i] = download'.addr + i
    <3> SUFFICES ASSUME file'.good, NEW i \in Offset, a + i < file.size PROVE Take(n)[i] = a + i
      BY <1>1
    <3>1. i \in Nat /\ i < DLSize
      BY <1>2 DEF Offset
    <3>2. i < n
      BY <1>1, <1>2, <3>1
    <3> QED
      BY <3>2 DEF Take
  <2>4. Sound(flash_algo) => Multiple(0, Page) /\ 0 <= DLSize
    <3>1. Sound(flash_algo) => Page \in Nat
      BY <1>0, SoundFacts
    <3>2. Sound(flash_algo) => 0 = 0 * Page
      BY <3>1
    <3> QED
      BY <1>2, <3>2 DEF Multiple
  <2>5. Sound(flash_algo)' = Sound(flash_algo) /\ Page' = Page
    BY <1>1 DEF Page
  <2>6. Multiple(download'.addr, DLSize) /\ download'.addr <= file'.size
    BY <1>1, <1>2
  <2>7. Sound(flash_algo)' => Multiple(download.off, Page)' /\ download'.off <= DLSize
    BY <1>1, <2>4, <2>5 DEF Multiple
  <2> QED
    BY <1>1, <2>1, <2>2, <2>3, <2>5, <2>6, <2>7 DEF Chunk, Multiple
<1>6. Media'
  <2>1. Sound(flash_algo)' = Sound(flash_algo) /\ Page' = Page /\ Limit' = Limit
    BY <1>1 DEF Page, Limit
  <2>2. Sound(flash_algo) => Filled(download.addr + download.off)'
    <3>1. download'.addr + download'.off = a
      BY <1>1
    <3>2. file'.good => file.good
      BY <1>1
    <3> QED
      BY <1>1, <3>1, <3>2 DEF Filled
  <2>3. access'.step \notin {"buffer"} \cup Setup /\ target'.core # "call" /\ download'.at = "page"
    BY <1>0, <1>1 DEF Setup
  <2>4. Sound(flash_algo) => \A c \in Cell : c >= Limit => target'.flash[c] \in {Before, Erased}
    BY <1>1 DEF IInv, Media
  <2> QED
    BY <2>1, <2>2, <2>3, <2>4 DEF Media
<1> QED
  BY <1>0, <1>3, <1>4, <1>5, <1>6 DEF IInv

LEMMA FirstChunkInv == ASSUME IInv, FirstChunk PROVE IInv'
<1>1. /\ ReadChunk(0) /\ download.at = "erase" /\ access.step = "end"
      /\ download.readflag /\ file.pos = 0
  BY DEF FirstChunk, At, IInv, Chunk
<1>2. Multiple(0, DLSize)
  <2>1. 0 = 0 * DLSize
    BY Consts
  <2> QED
    BY <2>1 DEF Multiple
<1>3. Sound(flash_algo) => Filled(0)
  <2>1. Sound(flash_algo) => Emptied
    BY <1>1 DEF IInv, Media, Performed
  <2>2. \A c \in Cell : ~(c < 0)
    BY Consts DEF Cell
  <2> QED
    BY <2>1, <2>2 DEF Emptied, Filled
<1> QED
  BY <1>1, <1>2, <1>3, ReadInv

\* All pages of the chunk are programmed.
LEMMA ChunkDone ==
  ASSUME IInv, PageDone
  PROVE  /\ download.at = "page" /\ access.step = "end"
         /\ Sound(flash_algo) => Filled(download.addr + DLSize)
<1>1. download.at = "page" /\ access.step = "end" /\ download.off >= DLSize
  BY DEF PageDone, At
<1>2. download.off = DLSize
  BY <1>1, ChunkRange, Consts DEF IInv
<1>3. Sound(flash_algo) => Filled(download.addr + download.off)
  BY <1>1 DEF IInv, Media, Performed
<1> QED
  BY <1>1, <1>2, <1>3

LEMMA NextChunkInv == ASSUME IInv, NextChunk PROVE IInv'
<1>0. TypeOK /\ Chunk
  BY DEF IInv
<1>1. /\ ReadChunk(download.addr + DLSize) /\ download.at = "page" /\ access.step = "end" /\ download.readflag
      /\ Sound(flash_algo) => Filled(download.addr + DLSize)
  BY ChunkDone DEF NextChunk
<1>2. /\ download.addr + DLSize \in Nat
      /\ file.pos = download.addr + DLSize
  BY <1>0, <1>1, ChunkRange, Consts DEF Chunk
<1>3. Multiple(download.addr + DLSize, DLSize)
  <2>1. PICK k \in Nat : download.addr = k * DLSize
    BY <1>0, <1>1 DEF Chunk, Multiple
  <2>2. k * DLSize + DLSize = (k + 1) * DLSize /\ k + 1 \in Nat
    BY Consts
  <2> QED
    BY <2>1, <2>2 DEF Multiple
<1> QED
  BY <1>1, <1>2, <1>3, ReadInv

LEMMA NextPageInv == ASSUME IInv, NextPage PROVE IInv'
<1>0. /\ TypeOK /\ download.at = "page" /\ access.step = "end" /\ download.off < DLSize /\ target.core = "halted"
      /\ Chunk
  BY Between DEF IInv, NextPage, At
<1>1. /\ download' \in DownloadType /\ download'.at = "page"
      /\ download'.from = download.off /\ download'.off = PageEnd /\ PageEnd \in 0 .. DLSize
      /\ download.off <= PageEnd
      /\ download'.addr = download.addr /\ download'.bin_buff = download.bin_buff
      /\ download'.readflag = download.readflag
      /\ access' \in AccessType /\ access'.step = "buffer"
      /\ access'.call = Fn("program_page", download.addr + download.off)
      /\ UNCHANGED <<flash_algo, file, target, faults>>
  BY <1>0, NextPageFacts
<1>2. TypeOK'
  BY <1>0, <1>1 DEF TypeOK
<1>3. Sound(flash_algo)' = Sound(flash_algo) /\ Page' = Page /\ Limit' = Limit
  BY <1>1 DEF Page, Limit
<1>4. Control'
  BY <1>0, <1>1 DEF Control, Steps, Await
<1>5. Calls'
  <2>1. Sound(flash_algo) => target.algo
    BY <1>0 DEF IInv, Calls, Loaded
  <2> QED
    BY <1>0, <1>1, <2>1 DEF Calls, Exec, Setup, Await, Given, Wants, Fn
<1>6. Chunk'
  <2>1. Sound(flash_algo) => Multiple(PageEnd, Page) /\ PageEnd <= DLSize /\ PageEnd = download.off + Page
    <3> SUFFICES ASSUME Sound(flash_algo)
                 PROVE  Multiple(PageEnd, Page) /\ PageEnd <= DLSize /\ PageEnd = download.off + Page
      OBVIOUS
    <3>1. Page \in Nat /\ Page > 0 /\ Multiple(DLSize, Page) /\ Multiple(download.off, Page)
      BY <1>0, SoundFacts DEF Chunk
    <3>2. download.off + Page <= DLSize /\ Multiple(download.off + Page, Page)
      BY <1>0, <3>1, ChunkRange, Consts, NextMultiple
    <3>3. PageEnd = download.off + Page
      BY <1>0, <3>1, <3>2, ChunkRange, Consts DEF PageEnd, Page
    <3> QED
      BY <3>2, <3>3
  <2>2. Sound(flash_algo)' =>
          Multiple(download.off, Page)' /\ download'.off <= DLSize /\ download'.off = download'.from + Page'
    BY <1>1, <1>3, <2>1 DEF Multiple
  <2>3. /\ download'.readflag => file'.pos = download'.addr + DLSize
        /\ ~download'.readflag /\ file'.good => file'.size < download'.addr + DLSize
        /\ download'.addr <= file'.size
        /\ file'.good => \A i \in Offset : download'.addr + i < file'.size => download'.bin_buff[i] = download'.addr + i
    BY <1>0, <1>1 DEF Chunk
  <2>4. Multiple(download.addr, DLSize)'
    BY <1>0, <1>1 DEF Chunk, Multiple
  <2> QED
    BY <1>1, <2>2, <2>3, <2>4 DEF Chunk
<1>7. Media'
  <2>1. Sound(flash_algo) => Filled(download.addr + download.from)'
    <3>1. Sound(flash_algo) => Filled(download.addr + download.off)
      BY <1>0 DEF IInv, Media, Performed
    <3> QED
      BY <1>1, <3>1 DEF Filled
  <2>2. Sound(flash_algo) => \A c \in Cell : c >= Limit => target'.flash[c] \in {Before, Erased}
    BY <1>1 DEF IInv, Media
  <2> QED
    BY <1>0, <1>1, <1>3, <2>1, <2>2 DEF Media, Performed, Await
<1> QED
  BY <1>2, <1>4, <1>5, <1>6, <1>7 DEF IInv

LEMMA FinishInv == ASSUME IInv, Finish PROVE IInv'
<1>0. /\ TypeOK /\ TypeOK' /\ Kept /\ download.at = "page" /\ access.step = "end" /\ target.core # "call"
      /\ target' = target /\ ~download.readflag /\ (Sound(flash_algo) => Filled(download.addr + DLSize))
  BY OperationType, ChunkDone, Between DEF IInv, Finish, Kept
<1>1. /\ download'.at = "finish" /\ access'.step = "debug"
      /\ download' = [download EXCEPT !.at = "finish"]
  <2>1. Begin("finish", "debug", NoCall) /\ "finish" \in Phases /\ "debug" \in StepName
    BY DEF Finish, Phases, StepName
  <2> QED
    BY <1>0, <2>1, NoCallType, BeginFacts
<1>2. download'.readflag = download.readflag /\ download'.addr = download.addr
  BY <1>0, <1>1 DEF TypeOK, DownloadType
<1>3. Control'
  BY <1>0, <1>1 DEF Control, Steps, Setup, Await
<1>4. Calls'
  BY <1>0, <1>1 DEF Calls, Exec, Setup, Await, Given, Loaded
<1>5. Chunk'
  BY <1>0, <1>1, <1>2 DEF IInv, Chunk, Kept
<1>6. Media'
  BY <1>0, <1>1, <1>2 DEF IInv, Media, Kept, Limit, Filled
<1> QED
  BY <1>0, <1>3, <1>4, <1>5, <1>6 DEF IInv

LEMMA ReturnInv == ASSUME IInv, Return PROVE IInv'
<1>0. /\ TypeOK /\ TypeOK' /\ Kept /\ access.step = "end" /\ target' = target /\ access' = access
      /\ Done(download.at = "finish") /\ download.at \in {"finish", "uninit"}
  BY OperationType DEF IInv, Return, At, Kept
<1>1. CASE download.at = "uninit"
  <2>1. Done(FALSE)
    BY <1>0, <1>1 DEF Done
  <2> QED
    BY <1>0, <2>1, GiveUpInv, StillWhole DEF GivesUp, Done
<1>2. CASE download.at = "finish"
  <2>1. download' = [download EXCEPT !.at = "done", !.ret = TRUE]
    BY <1>0, <1>2 DEF Done
  <2>2. /\ download'.at = "done" /\ download'.readflag = download.readflag /\ download'.addr = download.addr
    BY <1>0, <2>1 DEF TypeOK, DownloadType
  <2>3. target.core # "call"
    BY <1>0, <1>2, Between
  <2>4. Control'
    BY <1>0, <2>2, <2>3 DEF Control, Steps, Setup, Await
  <2>5. Calls'
    BY <1>0, <2>2, <2>3 DEF Calls, Exec, Setup, Await, Given, Loaded
  <2>6. Chunk'
    BY <1>0, <1>2, <2>2 DEF IInv, Chunk, Kept
  <2>7. Media'
    BY <1>0, <1>2, <2>2, <2>3 DEF IInv, Media, Kept, Limit, Filled
  <2> QED
    BY <1>0, <2>4, <2>5, <2>6, <2>7 DEF IInv
<1> QED
  BY <1>0, <1>1, <1>2

LEMMA ParsedInv == ASSUME IInv, NEW a \in Algo, Parsed(a) PROVE IInv'
<1>0. /\ TypeOK /\ TypeOK' /\ download.at = "parse" /\ access.step = "end" /\ target.core # "call"
      /\ UNCHANGED <<file, access, target>> /\ download' = [download EXCEPT !.at = "open"]
  <2>1. TypeOK /\ download.at = "parse" /\ access.step = "end"
    BY StepPhases DEF IInv, Parsed
  <2> QED
    BY <2>1, ParsedType, Between DEF Parsed
<1>1. download'.at = "open"
  BY <1>0 DEF TypeOK, DownloadType
<1>2. Control'
  BY <1>0, <1>1 DEF Control, Steps, Setup, Await
<1>3. Calls'
  BY <1>0, <1>1 DEF Calls, Exec, Setup, Await, Given, Loaded
<1>4. Chunk'
  BY <1>0, <1>1 DEF IInv, Chunk
<1>5. Media'
  <2>1. \A c \in Cell : target'.flash[c] = Before
    BY <1>0 DEF IInv, Chunk
  <2> QED
    BY <1>0, <1>1, <2>1 DEF Media
<1> QED
  BY <1>0, <1>2, <1>3, <1>4, <1>5 DEF IInv

\* A page that is programmed takes the flash one page further.
LEMMA PageFilled ==
  ASSUME TypeOK, Chunk, Sound(flash_algo), download.at = "page", access.step # "end",
         Filled(download.addr + download.from),
         \A i \in 0 .. write_size - 1 : target.buffer[i] = download.bin_buff[download.from + i],
         NEW f, f = Program(target.flash, download.addr + download.from, target.buffer, Page)
  PROVE  \A c \in Cell : IF c < download.addr + download.off
                         THEN file.good /\ c < file.size => f[c] = c ELSE f[c] = Erased
<1> DEFINE a == download.addr
           s == download.addr + download.from
           e == download.addr + download.off
<1>1. /\ Page \in Nat /\ a \in Nat /\ s \in Nat /\ e \in Nat /\ s <= e /\ e = s + Page
      /\ download.from \in Nat /\ download.off = download.from + Page /\ download.off <= DLSize /\ DLSize \in Nat
      /\ write_size = Page /\ file.size \in Nat
  <2>1. /\ Page \in Nat /\ download.off = download.from + Page
        /\ a \in Nat /\ download.from \in Nat /\ download.off \in Nat /\ download.off <= DLSize /\ DLSize \in Nat
        /\ file.size \in Nat
    BY SoundFacts, ChunkRange, Consts DEF Chunk
  <2> QED
    BY <2>1 DEF write_size
<1>2. target.flash \in [Cell -> Value] /\ target.buffer \in [Offset -> Value]
  BY CoreTypes DEF TargetType
<1>3. /\ \A c \in Cell : ~(s <= c /\ c < s + Page) => f[c] = target.flash[c]
      /\ \A c \in Cell : s <= c /\ c < s + Page /\ target.flash[c] = Erased /\ c - s \in Offset
           => f[c] = target.buffer[c - s]
  <2> DEFINE m == target.flash
             b == target.buffer
             n == Page
  <2>1. m \in [Cell -> Value] /\ b \in [Offset -> Value] /\ s \in Nat /\ n \in Nat /\ f = Program(m, s, b, n)
    BY <1>1, <1>2
  <2> HIDE DEF s, m, b, n
  <2>2. /\ \A c \in Cell : ~(s <= c /\ c < s + n) => f[c] = m[c]
        /\ \A c \in Cell : s <= c /\ c < s + n /\ m[c] = Erased /\ c - s \in Offset => f[c] = b[c - s]
    BY <2>1, ProgramType
  <2> QED
    BY <2>2 DEF m, b, n
<1>4. file.good => \A i \in Offset : a + i < file.size => download.bin_buff[i] = a + i
  BY DEF Chunk
<1> SUFFICES ASSUME NEW c \in Cell
             PROVE  IF c < e THEN file.good /\ c < file.size => f[c] = c ELSE f[c] = Erased
  OBVIOUS
<1>5. c \in Nat
  BY Consts DEF Cell
<1>6. IF c < s THEN file.good /\ c < file.size => target.flash[c] = c ELSE target.flash[c] = Erased
  BY DEF Filled
<1>7. CASE c < s
  BY <1>1, <1>3, <1>5, <1>6, <1>7
<1>8. CASE c >= e
  BY <1>1, <1>3, <1>5, <1>6, <1>8
<1>9. CASE s <= c /\ c < e
  <2>1. /\ c - s \in Nat /\ c - s <= write_size - 1 /\ c - s \in Offset
        /\ download.from + (c - s) \in Offset /\ a + (download.from + (c - s)) = c
    BY <1>1, <1>5, <1>9 DEF Offset
  <2>2. f[c] = target.buffer[c - s]
    BY <1>1, <1>3, <1>5, <1>6, <1>9, <2>1
  <2>3. c - s \in 0 .. write_size - 1
    BY <1>1, <2>1
  <2>4. target.buffer[c - s] = download.bin_buff[download.from + (c - s)]
    BY <2>3
  <2>5. file.good /\ c < file.size => download.bin_buff[download.from + (c - s)] = c
    BY <1>4, <2>1
  <2> QED
    BY <1>9, <2>2, <2>4, <2>5
<1> QED
  BY <1>1, <1>5, <1>7, <1>8, <1>9

LEMMA CallInv == ASSUME IInv, Call PROVE IInv'
<1>0. /\ TypeOK /\ TypeOK' /\ UNCHANGED <<flash_algo, file, download, access>> /\ Kept /\ target.core = "call"
      /\ target'.core = "halted" /\ target'.regs = target.regs
      /\ target'.buffer = target.buffer /\ target'.algo = target.algo
  BY CallFacts DEF IInv, Kept
<1>1. \/ access.step \in Await /\ download.at \in {"init", "erase", "page"} /\ access.step \in Exec /\ access.step # "end"
      \/ access.step \notin Exec \cup {"buffer"} /\ download.at \in {"uninit", "done"} /\ ~(download.at = "done" /\ download.ret)
  <2>1. access.step \in Await \/ download.at \in {"uninit", "done"}
    BY <1>0 DEF IInv, Control
  <2>2. access.step \in Await => access.step \in Exec /\ access.step # "end"
    BY DEF Await, Exec
  <2> QED
    BY <1>0, <2>1, <2>2, StepPhases DEF IInv, Control
<1>2. Control'
  BY <1>0 DEF IInv, Control
<1>3. Sound(flash_algo)' = Sound(flash_algo) /\ Page' = Page /\ Limit' = Limit /\ write_size' = write_size
  BY <1>0 DEF Page, Limit, write_size
<1>4. Calls'
  BY <1>0, <1>3 DEF IInv, Calls, Wants, Fn, Loaded
<1>5. Chunk'
  BY <1>0, <1>1, ChunkKept DEF IInv
<1>6. Media'
  <2> SUFFICES ASSUME Sound(flash_algo) PROVE Media'
    BY <1>3 DEF Media
  <2>1. /\ Whole /\ Limit \in Int /\ Page \in Nat /\ Called.addr \in Nat
        /\ Called.fn = "program_page" => Called.addr + Page <= Limit
        /\ \A c \in Cell : c >= Limit => target.flash[c] \in {Before, Erased}
    <3>1. Limit \in Int
      <4>1. file.size \div DLSize \in Nat
        BY <1>0, ChunkRange, Consts, Division
      <4> QED
        BY <4>1, Consts DEF Limit
    <3>2. Called.addr \in Nat
      BY <1>0 DEF TypeOK, TargetType, Called, Call_, Regs
    <3> QED
      BY <1>0, <3>1, <3>2, SoundFacts DEF IInv, Calls, Media
  <2>2. ASSUME NEW n \in Nat, n <= Page, Called.fn = "program_page",
               target'.flash = Program(target.flash, Called.addr, target.buffer, n)
        PROVE  \A c \in Cell : c >= Limit => target'.flash[c] \in {Before, Erased}
    <3>1. target.flash \in [Cell -> Value] /\ target.buffer \in [Offset -> Value]
      BY <1>0, CoreTypes DEF TargetType
    <3>2. \A c \in Cell : ~(Called.addr <= c /\ c < Called.addr + n) => target'.flash[c] = target.flash[c]
      BY <2>1, <2>2, <3>1, ProgramType
    <3>3. \A c \in Cell : c \in Nat
      BY Consts DEF Cell
    <3> QED
      BY <2>1, <2>2, <3>2, <3>3
  <2>3. \A c \in Cell : c >= Limit => target'.flash[c] \in {Before, Erased}
    <3>1. \/ target'.flash = target.flash
          \/ target'.flash = [c \in Cell |-> Erased]
          \/ (Called.fn = "program_page" /\ \E n \in Nat : n <= Page
              /\ target'.flash = Program(target.flash, Called.addr, target.buffer, n))
      <4>1. 1 .. Page \subseteq Nat /\ \A n \in 1 .. Page : n <= Page
        BY <2>1
      <4>2. Page <= Page
        BY <2>1
      <4> QED
        BY <1>0, <2>1, <4>1, <4>2, CallFacts
    <3> QED
      BY <2>1, <2>2, <3>1
  <2>4. CASE access.step \in Await /\ download.at \in {"init", "erase", "page"}
    <3>0. /\ access.step # "end" /\ access.step \in Exec /\ access.step \notin {"buffer", "unmask"} \cup Setup
          /\ Called = Wants(download.at)
      <4>1. access.step # "end" /\ access.step \in Exec /\ access.step \notin {"buffer", "unmask"} \cup Setup
        BY <2>4 DEF Await, Exec, Setup
      <4>2. "pc" \in Given(access.step) /\ target.regs["pc"] = access.call
        BY <2>4, <4>1, InCall DEF Given, Await, Regs
      <4> QED
        BY <4>1, <4>2 DEF Called, IInv, Calls
    <3>1. download.at = "erase" /\ Performed' => Emptied'
      <4> SUFFICES ASSUME download.at = "erase", Performed' PROVE Emptied'
        OBVIOUS
      <4>1. Called.fn = "erase_chip"
        BY <1>0, <3>0, SoundFacts DEF Wants, Fn
      <4>2. target'.result = 0
        BY <1>0, <3>0 DEF Performed
      <4>3. target'.flash = [c \in Cell |-> Erased]
        BY <1>0, <2>1, <4>1, <4>2, CallFacts
      <4> QED
        BY <4>3 DEF Emptied
    <3>2. download.at = "page" /\ Performed' => Filled(download.addr + download.off)'
      <4> SUFFICES ASSUME download.at = "page", Performed' PROVE Filled(download.addr + download.off)'
        OBVIOUS
      <4>1. Called.fn = "program_page" /\ Called.addr = download.addr + download.from
        BY <1>0, <3>0, SoundFacts DEF Wants, Fn
      <4>2. target'.result = 0
        BY <1>0, <3>0 DEF Performed
      <4>3. target'.flash = Program(target.flash, Called.addr, target.buffer, Page)
        BY <1>0, <2>1, <4>1, <4>2, CallFacts
      <4>4. Filled(download.addr + download.from)
        BY <1>0 DEF IInv, Media
      <4>5. \A c \in Cell : IF c < download.addr + download.off
                            THEN file.good /\ c < file.size => target'.flash[c] = c ELSE target'.flash[c] = Erased
        BY <1>0, <3>0, <4>1, <4>3, <4>4, InCall, PageFilled DEF IInv
      <4> QED
        BY <1>0, <4>5 DEF Filled
    <3> QED
      BY <1>0, <1>3, <2>3, <2>4, <3>0, <3>1, <3>2 DEF Media
  <2>5. CASE download.at \in {"uninit", "done"} /\ ~(download.at = "done" /\ download.ret)
    BY <1>0, <1>3, <2>3, <2>5 DEF Media
  <2> QED
    BY <1>1, <2>4, <2>5
<1> QED
  BY <1>0, <1>2, <1>4, <1>5, <1>6 DEF IInv

-----------------------------------------------------------------------------
(* The theorems.                                                           *)

LEMMA InitInv == Init => IInv
<1> SUFFICES ASSUME Init PROVE IInv
  OBVIOUS
<1>1. TypeOK
  BY InitType
<1>2. /\ download.at = "parse" /\ access.step = "end" /\ target.core # "call" /\ file.pos = 0 /\ file.good
      /\ \A c \in Cell : target.flash[c] = Before
  <2> DEFINE g == {[r \in Regs |-> NoCall]}
             b == {[i \in Offset |-> Heap]}
             f == {[c \in Cell |-> Before]}
  <2>1. target \in [core : {"running", "halted"}, sticky : BOOLEAN, debugen : BOOLEAN, vc : BOOLEAN,
                    regs : g, algo : {FALSE}, buffer : b, inited : {FALSE}, result : {0}, flash : f]
    BY DEF Init
  <2>2. \A h \in f, c \in Cell : h[c] = Before
    OBVIOUS
  <2> HIDE DEF g, b, f
  <2>3. target.core # "call" /\ target.flash \in f
    BY <2>1
  <2>4. \A c \in Cell : target.flash[c] = Before
    BY <2>2, <2>3
  <2>5. file.pos = 0 /\ file.good
    BY DEF Init
  <2>6. download.at = "parse" /\ access.step = "end"
    BY DEF Init
  <2> QED
    BY <2>3, <2>4, <2>5, <2>6
<1>3. Control
  BY <1>2 DEF Control, Steps, Setup, Await
<1>4. Calls
  BY <1>2 DEF Calls, Exec, Setup, Await, Given, Loaded
<1>5. Chunk
  BY <1>2 DEF Chunk
<1>6. Media
  BY <1>2 DEF Media
<1> QED
  BY <1>1, <1>3, <1>4, <1>5, <1>6 DEF IInv

LEMMA Inductive == ASSUME IInv, Step PROVE IInv'
<1>1. CASE \E a \in Algo : Parsed(a)
  BY <1>1, ParsedInv
<1>2. CASE Programmer
  <2>1. CASE \/ Open \/ target_flash_init \/ target_flash_erase_chip
             \/ FirstChunk \/ NextPage \/ NextChunk \/ Finish \/ Return
    BY <2>1, OpenInv, ConnectInv, EraseInv, FirstChunkInv, NextPageInv, NextChunkInv, FinishInv, ReturnInv
  <2>2. CASE \/ EnableDebug \/ HaltOnReset \/ swd_set_target_reset \/ LoadAlgorithm \/ LoadBuffer
             \/ WriteRegister \/ HaltMasked \/ Start \/ CheckStatus
             \/ InitDebug \/ PollHalted \/ WaitHalted \/ ReadResult \/ Unmask
    BY <2>2, AccessInv
  <2> QED
    BY <1>2, <2>1, <2>2 DEF Programmer
<1>3. CASE Call
  BY <1>3, CallInv
<1>4. CASE UNCHANGED vars
  BY <1>4 DEF vars, IInv, TypeOK, Control, Calls, Chunk, Media, Wants, Fn, Loaded, Whole, Intact, Called, Page,
              write_size, Emptied, Performed, Filled, Limit
<1> QED
  BY <1>1, <1>2, <1>3, <1>4 DEF Step

LEMMA Results ==
  ASSUME IInv
  PROVE  Programmed /\ Bounded /\ RightCall
<1>1. Programmed
  <2> SUFFICES ASSUME download.at = "done", download.ret, file.good, Sound(flash_algo), NEW i \in 0 .. file.size - 1
               PROVE  target.flash[i] = i
    BY DEF Programmed
  <2>1. Filled(download.addr + DLSize) /\ file.size < download.addr + DLSize
    BY DEF IInv, Media, Chunk
  <2>2. file.size \in Nat /\ file.size <= FlashSize /\ FlashSize \in Nat /\ download.addr \in Nat /\ DLSize \in Nat
    BY ChunkRange, Consts DEF IInv
  <2>3. i \in Cell /\ i < file.size /\ i < download.addr + DLSize
    BY <2>1, <2>2 DEF Cell
  <2> QED
    BY <2>1, <2>3 DEF Filled
<1>2. Bounded
  BY DEF IInv, Media, Bounded, Limit
<1>3. RightCall
  <2> SUFFICES ASSUME target.core = "call", Sound(flash_algo) PROVE RightCall
    BY DEF RightCall
  <2>1. Whole
    BY DEF IInv, Calls
  <2>2. ASSUME download.at = "page"
        PROVE  /\ Called = [fn |-> "program_page", addr |-> download.addr + download.from]
               /\ \A i \in 0 .. write_size - 1 : target.buffer[i] = download.bin_buff[download.from + i]
    <3>1. access.step \in Await /\ access.step \in Exec
      BY <2>2 DEF IInv, Control, Await, Exec
    <3>2. "pc" \in Given(access.step)
      BY <3>1 DEF Given, Await, Regs
    <3>3. Called = Wants("page")
      BY <2>2, <3>1, <3>2, InCall DEF Called, IInv, Calls
    <3> QED
      BY <2>2, <3>1, <3>3, InCall, SoundFacts DEF Wants, Fn
  <2> QED
    BY <2>1, <2>2 DEF RightCall
<1> QED
  BY <1>1, <1>2, <1>3

LEMMA QuietStep ==
  ASSUME IInv, Step, target'.algo # target.algo \/ target'.buffer # target.buffer
  PROVE  target.core = "halted"
<1>0. TypeOK
  BY DEF IInv
<1>1. CASE \E a \in Algo : Parsed(a)
  BY <1>1 DEF Parsed
<1>2. CASE \/ Open \/ target_flash_init \/ target_flash_erase_chip
           \/ FirstChunk \/ NextPage \/ NextChunk \/ Finish \/ Return
  BY <1>2 DEF Open, target_flash_init, target_flash_erase_chip, FirstChunk, NextPage, NextChunk, ReadChunk,
              Finish, Return
<1>3. CASE \/ EnableDebug \/ HaltOnReset \/ swd_set_target_reset \/ LoadAlgorithm \/ LoadBuffer
           \/ WriteRegister \/ HaltMasked \/ Start \/ CheckStatus
  <2>1. access.step \in {"load", "buffer"} => target.core = "halted"
    BY <1>0, StepPhases DEF IInv, Control
  <2>2. Same(target) /\ Same(StickyTarget)
    BY <1>0, SameFields
  <2>3. /\ EnableT.algo = target.algo /\ EnableT.buffer = target.buffer
        /\ ResetT.algo = target.algo /\ ResetT.buffer = target.buffer
        /\ access.step \in Regs => RegT.algo = target.algo /\ RegT.buffer = target.buffer
    BY <1>0, EnableFacts, ResetFacts, RegFacts
  <2>4. /\ \A v \in BOOLEAN : Same([target EXCEPT !.vc = v])
        /\ \A c \in {"running", "halted", "call"} :
             [target EXCEPT !.core = c].algo = target.algo /\ [target EXCEPT !.core = c].buffer = target.buffer
    BY <1>0, SameFields
  <2> QED
    BY <1>0, <1>3, <2>1, <2>2, <2>3, <2>4, Accesses DEF Whichever, Same
<1>4. CASE InitDebug \/ PollHalted \/ WaitHalted \/ ReadResult \/ Unmask
  BY <1>0, <1>4, InitDebugFacts, PollFacts, WaitFacts, ResultFacts, UnmaskFacts, SameFields DEF Same, HaltT
<1>5. CASE Call
  BY <1>0, <1>5, CallFacts
<1> QED
  BY <1>1, <1>2, <1>3, <1>4, <1>5 DEF Step, Programmer, vars

LEMMA NextStep == Next => Step
BY AlgosAssumption DEF Next, Step, Stopped

LEMMA Invariance == Spec => []IInv
<1>1. IInv /\ [Next]_vars => IInv'
  BY NextStep, Inductive DEF Step
<1> QED
  BY <1>1, InitInv, PTL DEF Spec

\* The state of the download has its type, for every size and every algorithm.
THEOREM TypeCorrect == Spec => []TypeOK
<1>1. IInv => TypeOK
  BY DEF IInv
<1> QED
  BY <1>1, Invariance, PTL

\* FLASH_SWD (FlashalgoApp.c:45) does not report success unless every unit of
\* the file is in the flash: whatever transfers fail, in whatever order, and
\* however the algorithm fails, every failure on the way to the end of the loop
\* is noticed by the access it hits or by a later one.
THEOREM ProgrammedCorrect == Spec => []Programmed
<1>1. IInv => Programmed
  BY Results
<1> QED
  BY <1>1, Invariance, PTL

\* target_flash_program_page (target_flash.c:38) cuts chunks into pages that
\* never leave the chunk that holds the end of the file: nothing beyond it is
\* programmed.
THEOREM BoundedCorrect == Spec => []Bounded
<1>1. IInv => Bounded
  BY Results
<1> QED
  BY <1>1, Invariance, PTL

\* swd_flash_syscall_exec (swd_host.c:686) lets the core go only with all
\* registers of one call written, an intact blob, and for a page that page in
\* the buffer, even when an operation was given up between two accesses.
THEOREM RightCallCorrect == Spec => []RightCall
<1>1. IInv => RightCall
  BY Results
<1> QED
  BY <1>1, Invariance, PTL

\* swd_write_memory writes the RAM of the target (the blob in
\* target_flash_init, the page in target_flash_program_page) only while its
\* core is halted, though nothing there looks at S_HALT: the accesses before
\* it, and what is done when one fails, see to it.
THEOREM QuietRamCorrect == Spec => QuietRam
<1>1. IInv /\ [Next]_vars => [target'.algo # target.algo \/ target'.buffer # target.buffer => target.core = "halted"]_vars
  BY NextStep, QuietStep DEF Step
<1> QED
  BY <1>1, Invariance, PTL DEF Spec, QuietRam
=============================================================================
