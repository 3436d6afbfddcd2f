------------------------ MODULE FlashDownloadProofs ------------------------
(***************************************************************************)
(* FlashProg implements Download, for every chunk, flash and file size,    *)
(* every flash algorithm and any number of faults.                         *)
(***************************************************************************)
EXTENDS FlashProgProofs

\* What the buffers hold is units of the file, or was never written.
Data == \A i \in Offset : download.bin_buff[i] \in Cell \cup {Heap} /\ target.buffer[i] \in Cell \cup {Heap}

\* The flash is programmed below n, and empty from there.
Untouched == \A c \in Cell : target.flash[c] = Before
Level(n)  == \A c \in Cell : (target.flash[c] = Erased <=> c >= n) /\ target.flash[c] # Before

\* The call that runs is the next thing to be done to the flash, also when its
\* operation has been given up.
Due ==
  \/ Called.fn = "init"
  \/ Called.fn = "erase_chip" /\ Untouched
  \/ /\ Called.fn = "program_page" /\ Level(Called.addr)
     /\ \A i \in Offset : file.good /\ i < Page /\ Called.addr + i < file.size => target.buffer[i] = Called.addr + i

\* How far the flash is at each operation.
Order ==
  Sound(flash_algo) =>
    /\ download.at \in {"parse", "open", "connect", "init"} => Untouched
    /\ download.at = "erase" =>
         /\ access.step \in Setup => Untouched
         /\ Performed => Level(0)
    /\ download.at = "page" =>
         /\ access.step \in {"buffer"} \cup Setup => Level(download.addr + download.from)
         /\ Performed => Level(download.addr + download.off)
    /\ target.core = "call" => Due

JInv == IInv /\ Data /\ Order

-----------------------------------------------------------------------------
(* The shape of an access.                                                 *)

LEMMA GoShape ==
  ASSUME IInv, access.step # "end", Go
  PROVE  /\ download' = download /\ access'.step # "buffer"
         /\ access'.step \in Setup => access.step \in {"load", "buffer"} \cup Setup
         /\ access'.step = "status" => access.step = "start"
         /\ access'.step = "wait" => access.step = "status"
         /\ access'.step = "result" => access.step = "wait"
         /\ access'.step = "unmask" => access.step = "result"
         /\ access'.step = "end" => access.step \in {"unmask", "debug", "reset"}
         /\ access'.r0 = access.r0
<1>1. TypeOK /\ download.at \in Phases /\ access.step \in StepName
  BY AccessFields DEF IInv
<1>2. access'.step = Succ(download.at)[access.step] /\ download' = download /\ access'.r0 = access.r0
  BY <1>1, GoFacts
<1> QED
  BY <1>1, <1>2, SuccFacts DEF StepName, Setup

LEMMA FailShape ==
  ASSUME IInv, access.step # "end", Fail
  PROVE  \/ GivesUp
         \/ download' = download /\ download.at \notin {"erase", "page"} /\ access'.step \notin {"buffer"} \cup Setup
<1>1. TypeOK
  BY DEF IInv
<1>2. CASE access.step \in {"retry", "reset"} /\ Go
  <2>1. download.at \in {"init", "finish", "uninit"}
    BY <1>2, StepPhases DEF IInv
  <2> QED
    BY <1>2, <2>1, GoShape DEF Setup
<1>3. CASE access.step = "enable" /\ access'.step = "retry" /\ access'.call = access.call /\ download' = download
  <2>1. download.at = "init"
    BY <1>3, StepPhases DEF IInv
  <2> QED
    BY <1>3, <2>1 DEF Setup
<1> QED
  BY <1>1, <1>2, <1>3, FailFacts

\* What an access may do to what JInv says.
Calling ==
  /\ target'.core = "call" =>
       /\ target'.regs = target.regs /\ target'.buffer = target.buffer
       /\ access.step = "start" \/ target.core = "call"
  /\ target'.buffer = target.buffer \/ target'.buffer = BufferT.buffer

Shape ==
  /\ Kept /\ target'.flash = target.flash /\ Calling
  /\ \/ GivesUp
     \/ /\ download' = download
        /\ access'.step \in {"buffer"} \cup Setup => access.step \in {"load", "buffer"} \cup Setup
        /\ download.at \in {"erase", "page"} => (Performed' => Performed)

LEMMA FailedShape ==
  ASSUME IInv, Kept, target'.flash = target.flash, Calling, access.step # "end", Fail
  PROVE  Shape
<1>1. CASE GivesUp
  BY <1>1 DEF Shape
<1>2. CASE download' = download /\ download.at \notin {"erase", "page"} /\ access'.step \notin {"buffer"} \cup Setup
  BY <1>2 DEF Shape
<1> QED
  BY <1>1, <1>2, FailShape

LEMMA PassedShape ==
  ASSUME IInv, Kept, target'.flash = target.flash, Calling, access.step \notin {"end", "result"}, Go,
         access.step \in Await => Same(target'),
         access.step = "start" => target'.core = "call",
         access.step = "unmask" => access.r0 = 0
  PROVE  Shape
<1>1. ASSUME download.at \in {"erase", "page"}, Performed' PROVE Performed
  <2>1. access.step \notin {"debug", "reset"}
    BY <1>1, StepPhases DEF IInv
  <2>2. CASE access'.step \in Await \cup {"result"} /\ target'.core = "halted" /\ target'.result = 0
    BY <2>2, GoShape DEF Performed, Await, Same
  <2>3. CASE access'.step = "unmask" /\ access'.r0 = 0
    BY <2>3, GoShape
  <2>4. CASE access'.step = "end"
    BY <2>1, <2>4, GoShape DEF Performed
  <2> QED
    BY <1>1, <2>2, <2>3, <2>4 DEF Performed
<1> QED
  BY <1>1, GoShape DEF Shape

LEMMA WhicheverShape ==
  ASSUME IInv, Kept, NEW t, Whichever(t), access.step \notin {"end", "result", "unmask"},
         t.flash = target.flash, t.buffer = target.buffer \/ (t.buffer = BufferT.buffer /\ t.core # "call"),
         t.core = "call" => t.regs = target.regs /\ (access.step = "start" \/ target.core = "call"),
         access.step \in Await => Same(t), access.step = "start" => t.core = "call"
  PROVE  Shape
<1>1. TypeOK /\ Same(target) /\ Same(StickyTarget)
  BY SameFields DEF IInv
<1>2. target'.flash = target.flash /\ Calling
  BY <1>1 DEF Whichever, Same, Calling
<1>3. CASE target' = t /\ Go
  BY <1>2, <1>3, PassedShape
<1>4. CASE Fail
  BY <1>2, <1>4, FailedShape
<1> QED
  BY <1>3, <1>4 DEF Whichever

LEMMA AccessShape ==
  ASSUME IInv,
         \/ EnableDebug \/ HaltOnReset \/ swd_set_target_reset \/ LoadAlgorithm \/ LoadBuffer
         \/ WriteRegister \/ HaltMasked \/ Start \/ CheckStatus
         \/ InitDebug \/ PollHalted \/ WaitHalted \/ ReadResult \/ Unmask
  PROVE  Shape /\ access.step # "end"
<1>0. TypeOK /\ Same(target) /\ Same(StickyTarget)
  BY SameFields DEF IInv
<1>1. CASE \/ EnableDebug \/ HaltOnReset \/ swd_set_target_reset \/ LoadAlgorithm \/ LoadBuffer
           \/ WriteRegister \/ HaltMasked \/ Start \/ CheckStatus
  <2>0. Kept /\ access.step # "end"
    BY <1>0, <1>1, Accesses
  <2>1. CASE access.step = "enable" /\ Whichever(EnableT)
    BY <1>0, <2>0, <2>1, EnableFacts, WhicheverShape DEF Await
  <2>2. CASE access.step \in {"catch", "uncatch"} /\ \E v \in BOOLEAN : Whichever([target EXCEPT !.vc = v])
    BY <1>0, <2>0, <2>2, SameFields, WhicheverShape DEF Same, Await
  <2>3. CASE access.step \in {"reset", "retry"} /\ Whichever(ResetT)
    BY <1>0, <2>0, <2>3, ResetFacts, WhicheverShape DEF Await
  <2>4. CASE access.step = "load" /\ Whichever([target EXCEPT !.algo = flash_algo.blob])
    <3>1. target.core = "halted" /\ flash_algo.blob \in BOOLEAN
      BY <1>0, <2>4, StepPhases DEF IInv, Control, TypeOK, Algo
    <3> DEFINE t == [target EXCEPT !.algo = flash_algo.blob]
    <3>2. t.flash = target.flash /\ t.buffer = target.buffer /\ t.core = "halted"
      BY <1>0, <3>1 DEF TypeOK, TargetType
    <3> HIDE DEF t
    <3>3. Whichever(t)
      BY <2>4 DEF t
    <3> QED
      BY <2>0, <2>4, <3>2, <3>3, WhicheverShape DEF Await
  <2>5. CASE access.step = "buffer" /\ Whichever(BufferT)
    <3>1. target.core = "halted"
      BY <1>0, <2>5, StepPhases DEF IInv, Control
    <3> QED
      BY <1>0, <2>0, <2>5, <3>1, BufferFacts, WhicheverShape DEF Await
  <2>6. CASE access.step \in Regs /\ Whichever(RegT)
    <3>1. target.core = "halted" /\ access.step \notin {"end", "result", "unmask", "start"} \cup Await
      BY <1>0, <2>6, StepPhases DEF IInv, Control, Regs, Setup, Exec, Await
    <3> QED
      BY <1>0, <2>0, <2>6, <3>1, RegFacts, WhicheverShape
  <2>7. CASE access.step = "halt" /\ Whichever([target EXCEPT !.core = "halted"])
    BY <1>0, <2>0, <2>7, SameFields, WhicheverShape DEF Await
  <2>8. CASE access.step = "start" /\ Whichever([target EXCEPT !.core = "call"])
    BY <1>0, <2>0, <2>8, SameFields, WhicheverShape DEF Await
  <2>9. CASE access.step = "status" /\ Whichever(target)
    BY <1>0, <2>0, <2>9, WhicheverShape DEF Same
  <2> QED
    BY <1>0, <1>1, <2>0, <2>1, <2>2, <2>3, <2>4, <2>5, <2>6, <2>7, <2>8, <2>9, Accesses
<1>2. CASE InitDebug
  <2>1. Kept /\ access.step = "debug" /\ (Go \/ Fail) /\ Same(target')
    BY <1>0, <1>2, InitDebugFacts, SameFields
  <2>2. Calling /\ target'.flash = target.flash
    BY <2>1 DEF Same, Calling
  <2> QED
    BY <2>1, <2>2, PassedShape, FailedShape DEF Await
<1>3. CASE PollHalted
  <2>1. /\ Kept /\ access.step = "poll" /\ Same(target')
        /\ Go \/ UNCHANGED <<access, download, target>> \/ Fail
    BY <1>0, <1>3, PollFacts
  <2>2. Calling /\ target'.flash = target.flash
    BY <2>1 DEF Same, Calling
  <2>3. CASE UNCHANGED <<access, download, target>>
    BY <2>1, <2>2, <2>3 DEF Shape, Performed, Setup, Await
  <2> QED
    BY <2>1, <2>2, <2>3, PassedShape, FailedShape DEF Await
<1>4. CASE WaitHalted
  <2>1. Kept /\ access.step = "wait" /\ Same(target') /\ (Go \/ Fail)
    BY <1>0, <1>4, WaitFacts
  <2>2. Calling /\ target'.flash = target.flash
    BY <2>1 DEF Same, Calling
  <2> QED
    BY <2>1, <2>2, PassedShape, FailedShape
<1>5. CASE ReadResult
  <2>1. Kept /\ access.step = "result" /\ Same(target')
    BY <1>0, <1>5, ResultFacts
  <2>2. Calling /\ target'.flash = target.flash
    BY <2>1 DEF Same, Calling
  <2>3. CASE download' = download /\ access'.step = "unmask" /\ access'.r0 = target.result
    <3>1. target.core = "halted"
      BY <2>1, StepPhases DEF IInv, Control, Exec
    <3>2. Performed' => Performed
      BY <2>1, <2>3, <3>1 DEF Performed, Await
    <3> QED
      BY <2>1, <2>2, <2>3, <3>2 DEF Shape, Setup
  <2> QED
    BY <1>0, <1>5, <2>1, <2>2, <2>3, ResultFacts, FailedShape
<1>6. CASE Unmask
  <2>1. Kept /\ access.step = "unmask" /\ target.core = "halted"
    <3>1. Kept /\ access.step = "unmask"
      BY <1>0, <1>6, UnmaskFacts
    <3> QED
      BY <3>1, StepPhases DEF IInv, Control, Exec
  <2>2. Same(target')
    <3>1. Same(HaltT)
      BY <1>0, <2>1, SameFields DEF HaltT, Same
    <3> QED
      BY <1>0, <1>6, <3>1, UnmaskFacts
  <2>3. Calling /\ target'.flash = target.flash
    BY <2>2 DEF Same, Calling
  <2> QED
    BY <1>0, <1>6, <2>1, <2>3, UnmaskFacts, PassedShape, FailedShape DEF Await
<1> QED
  BY <1>1, <1>2, <1>3, <1>4, <1>5, <1>6

-----------------------------------------------------------------------------
(* The invariant.                                                          *)

\* A call begins when it is due.
LEMMA StartDue ==
  ASSUME JInv, Sound(flash_algo), access.step = "start"
  PROVE  Due
<1>1. access.step \in Setup /\ access.step \in Exec
  BY DEF Setup, Exec
<1>2. /\ TypeOK /\ Chunk /\ download.at \in {"init", "erase", "page"} /\ target.regs["pc"] = access.call
      /\ access.call = Wants(download.at)
      /\ download.at = "page" =>
           \A i \in 0 .. write_size - 1 : target.buffer[i] = download.bin_buff[download.from + i]
  BY <1>1, InCall DEF JInv, IInv, Calls, Given, Regs
<1>3. CASE download.at = "init"
  BY <1>2, <1>3, SoundFacts DEF Due, Called, Wants, Fn
<1>4. CASE download.at = "erase"
  BY <1>1, <1>2, <1>4, SoundFacts DEF Due, Called, Wants, Fn, JInv, Order
<1>5. CASE download.at = "page"
  <2>1. Called.fn = "program_page" /\ Called.addr = download.addr + download.from
    BY <1>2, <1>5, SoundFacts DEF Called, Wants, Fn
  <2>2. Level(Called.addr)
    BY <1>1, <1>5, <2>1 DEF JInv, Order
  <2>3. ASSUME NEW i \in Offset, file.good, i < Page, Called.addr + i < file.size
        PROVE  target.buffer[i] = Called.addr + i
    <3>1. /\ download.off = download.from + Page /\ download.off <= DLSize /\ Page \in Nat
          /\ download.from \in Nat /\ download.addr \in Nat /\ i \in Nat /\ DLSize \in Nat /\ file.size \in Nat
          /\ \A j \in Offset : download.addr + j < file.size => download.bin_buff[j] = download.addr + j
      BY <1>2, <1>5, <2>3, SoundFacts, ChunkRange, Consts DEF Chunk, Offset
    <3>2. /\ i \in 0 .. write_size - 1 /\ download.from + i \in Offset
          /\ Called.addr + i = download.addr + (download.from + i)
      BY <2>1, <2>3, <3>1 DEF write_size, Offset
    <3>3. download.bin_buff[download.from + i] = Called.addr + i
      BY <2>3, <3>1, <3>2
    <3> QED
      BY <1>2, <1>5, <3>2, <3>3
  <2> QED
    BY <2>1, <2>2, <2>3 DEF Due
<1> QED
  BY <1>2, <1>3, <1>4, <1>5

LEMMA AccessOrder == ASSUME JInv, IInv', Shape, access.step # "end" PROVE JInv'
<1>0. TypeOK /\ IInv
  BY DEF JInv, IInv
<1>1. Kept /\ target'.flash = target.flash /\ Calling
  BY DEF Shape
<1>2. \/ GivesUp
      \/ /\ download' = download
         /\ access'.step \in {"buffer"} \cup Setup => access.step \in {"load", "buffer"} \cup Setup
         /\ download.at \in {"erase", "page"} => (Performed' => Performed)
  BY DEF Shape
<1>3. GivesUp => download'.bin_buff = download.bin_buff /\ download'.at \in {"uninit", "done"}
  <2> DEFINE u == [download EXCEPT !.at = "uninit"]
             d == [download EXCEPT !.at = "done", !.ret = FALSE]
  <2>1. u.bin_buff = download.bin_buff /\ u.at = "uninit" /\ d.bin_buff = download.bin_buff /\ d.at = "done"
    BY <1>0 DEF TypeOK, DownloadType
  <2>2. GivesUp => download' = u \/ download' = d
    BY DEF GivesUp
  <2> HIDE DEF u, d
  <2> QED
    BY <2>1, <2>2
<1>4. Data'
  <2>1. download'.bin_buff = download.bin_buff
    BY <1>2, <1>3
  <2>2. \A i \in Offset : download.bin_buff[i] \in Cell \cup {Heap} /\ target.buffer[i] \in Cell \cup {Heap}
    BY DEF JInv, Data
  <2>3. \A i \in Offset : target'.buffer[i] \in Cell \cup {Heap}
    <3>1. CASE target'.buffer = target.buffer
      BY <2>2, <3>1
    <3>2. CASE target'.buffer = BufferT.buffer
      <4>1. \A i \in Offset : BufferT.buffer[i] \in {download.bin_buff[j] : j \in Offset} \cup {target.buffer[i]}
        BY <1>0, BufferFacts
      <4> QED
        BY <2>2, <3>2, <4>1
    <3> QED
      BY <1>1, <3>1, <3>2 DEF Calling
  <2> QED
    BY <2>1, <2>2, <2>3 DEF Data
<1>5. ASSUME Sound(flash_algo), target'.core = "call" PROVE Due'
  <2>1. Due
    BY <1>1, <1>5, StartDue DEF Calling, JInv, Order
  <2>2. target'.regs = target.regs /\ target'.buffer = target.buffer
    BY <1>1, <1>5 DEF Calling
  <2> QED
    BY <1>1, <2>1, <2>2 DEF Due, Called, Untouched, Level, Page, Kept
<1>6. Order'
  <2>1. CASE GivesUp
    BY <1>1, <1>3, <1>5, <2>1 DEF Order, Kept
  <2>2. CASE /\ download' = download
             /\ access'.step \in {"buffer"} \cup Setup => access.step \in {"load", "buffer"} \cup Setup
             /\ download.at \in {"erase", "page"} => (Performed' => Performed)
    <3> SUFFICES ASSUME Sound(flash_algo) PROVE Order'
      BY <1>1 DEF Order, Kept
    <3>1. download.at \in {"parse", "open", "connect", "init"} => Untouched'
      BY <1>1 DEF JInv, Order, Untouched
    <3>2. download.at = "erase" /\ access'.step \in Setup => Untouched'
      <4>1. download.at = "erase" => access.step \notin {"load", "buffer"}
        BY <1>0, StepPhases DEF IInv
      <4> QED
        BY <1>1, <2>2, <4>1 DEF JInv, Order, Untouched
    <3>3. download.at = "erase" /\ Performed' => Level(0)'
      BY <1>1, <2>2 DEF JInv, Order, Level
    <3>4. download.at = "page" /\ access'.step \in {"buffer"} \cup Setup => Level(download.addr + download.from)'
      <4>1. download.at = "page" => access.step # "load"
        BY <1>0, StepPhases DEF IInv
      <4>2. download.at = "page" /\ access'.step \in {"buffer"} \cup Setup => Level(download.addr + download.from)
        BY <2>2, <4>1 DEF JInv, Order
      <4> QED
        BY <1>1, <2>2, <4>2 DEF Level
    <3>5. download.at = "page" /\ Performed' => Level(download.addr + download.off)'
      <4>1. download.at = "page" /\ Performed' => Level(download.addr + download.off)
        BY <2>2 DEF JInv, Order
      <4> QED
        BY <1>1, <2>2, <4>1 DEF Level
    <3> QED
      BY <1>5, <2>2, <3>1, <3>2, <3>3, <3>4, <3>5 DEF Order
  <2> QED
    BY <1>2, <2>1, <2>2
<1> QED
  BY <1>4, <1>6 DEF JInv

LEMMA ReadOrder ==
  ASSUME JInv, IInv', NEW a \in Nat, ReadChunk(a), access.step = "end", download.at \in {"erase", "page"},
         Sound(flash_algo) => Level(a)
  PROVE  JInv'
<1>0. TypeOK /\ target.core # "call"
  BY Between DEF JInv, IInv
<1>1. PICK n \in 0 .. Wanted :
        /\ Wanted \in Nat /\ Wanted <= DLSize /\ Wanted <= Left
        /\ download'.at = "page" /\ download'.addr = a /\ download'.from = 0 /\ download'.off = 0
        /\ download'.bin_buff = Take(n)
        /\ UNCHANGED <<flash_algo, access, target>>
  BY <1>0, ReadChunkFacts
<1>2. Data'
  <2>1. \A i \in Offset : i < n => file.pos + i \in Cell
    <3>1. /\ Left \in Nat /\ file.pos + Left = file.size /\ file.size <= FlashSize /\ file.size \in Nat
          /\ file.pos \in Nat /\ FlashSize \in Nat /\ DLSize \in Nat
      BY <1>0, ChunkRange, Consts DEF Left
    <3> QED
      BY <1>1, <3>1 DEF Offset, Cell
  <2>2. \A i \in Offset : Take(n)[i] \in Cell \cup {Heap}
    BY <2>1 DEF Take, JInv, Data
  <2> QED
    BY <1>1, <2>2 DEF JInv, Data
<1>3. Order'
  <2> SUFFICES ASSUME Sound(flash_algo) PROVE Order'
    BY <1>1 DEF Order
  <2>1. download'.addr + download'.off = a
    BY <1>1
  <2>2. Level(download.addr + download.off)'
    BY <1>1, <2>1 DEF Level
  <2> QED
    BY <1>0, <1>1, <2>2 DEF Order, Setup
<1> QED
  BY <1>2, <1>3 DEF JInv

LEMMA OperationOrder ==
  ASSUME JInv, IInv',
         \/ Open \/ target_flash_init \/ target_flash_erase_chip
         \/ FirstChunk \/ NextPage \/ NextChunk \/ Finish \/ Return
  PROVE  JInv'
<1>0. TypeOK /\ IInv
  BY DEF JInv, IInv
<1>1. CASE FirstChunk
  <2>1. Sound(flash_algo) => Level(0)
    BY <1>1 DEF FirstChunk, At, JInv, Order, Performed
  <2> QED
    BY <1>1, <2>1, ReadOrder DEF FirstChunk, At
<1>2. CASE NextChunk
  <2>1. download.off = DLSize /\ download.at = "page" /\ access.step = "end" /\ download.addr + DLSize \in Nat
    BY <1>0, <1>2, ChunkRange, Consts DEF NextChunk, PageDone, At
  <2>2. Sound(flash_algo) => Level(download.addr + DLSize)
    BY <2>1 DEF JInv, Order, Performed
  <2> QED
    BY <1>2, <2>1, <2>2, ReadOrder DEF NextChunk
<1>3. CASE NextPage
  <2>1. /\ download'.at = "page" /\ download.at = "page" /\ access.step = "end" /\ access'.step = "buffer"
        /\ download'.from = download.off /\ download'.addr = download.addr /\ download'.bin_buff = download.bin_buff
        /\ UNCHANGED <<flash_algo, file, target>> /\ target.core # "call"
    BY <1>0, <1>3, NextPageFacts, Between DEF NextPage, At
  <2>2. Data'
    BY <2>1 DEF JInv, Data
  <2>3. Sound(flash_algo) => Level(download.addr + download.from)'
    BY <2>1 DEF JInv, Order, Performed, Level
  <2>4. Order'
    BY <2>1, <2>3 DEF Order, Performed, Await
  <2> QED
    BY <2>2, <2>4 DEF JInv
<1>4. CASE Open \/ target_flash_init \/ target_flash_erase_chip \/ Finish \/ Return
  <2>1. UNCHANGED <<flash_algo, file, target>> /\ access.step = "end"
    BY <1>4 DEF Open, target_flash_init, target_flash_erase_chip, Finish, Return, At, PageDone
  <2>2. /\ download'.bin_buff = download.bin_buff
        /\ \/ download.at = "open" /\ download'.at = "connect"
           \/ download.at = "connect" /\ download'.at = "init"
           \/ download.at = "init" /\ download'.at = "erase" /\ access'.step = "args"
           \/ download'.at \in {"finish", "done"}
    <3>1. /\ \A p \in Phases : /\ [download EXCEPT !.at = p].bin_buff = download.bin_buff
                               /\ [download EXCEPT !.at = p].at = p
          /\ \A v \in BOOLEAN : /\ [download EXCEPT !.at = "done", !.ret = v].bin_buff = download.bin_buff
                                /\ [download EXCEPT !.at = "done", !.ret = v].at = "done"
          /\ [download EXCEPT !.at = "connect", !.readflag = TRUE].bin_buff = download.bin_buff
          /\ [download EXCEPT !.at = "connect", !.readflag = TRUE].at = "connect"
      BY <1>0 DEF TypeOK, DownloadType
    <3>2. CASE Open
      BY <3>1, <3>2 DEF Open, Done, At
    <3>3. CASE target_flash_init
      BY <3>1, <3>3 DEF target_flash_init, Begin, At, Phases
    <3>4. CASE target_flash_erase_chip
      <4>1. [access EXCEPT !.step = "args", !.call = Fn("erase_chip", 0), !.left = 2].step = "args"
        BY <1>0 DEF TypeOK, AccessType
      <4> QED
        BY <3>1, <3>4, <4>1 DEF target_flash_erase_chip, Begin, At, Phases
    <3>5. CASE Finish
      BY <3>1, <3>5 DEF Finish, Begin, Phases
    <3>6. CASE Return
      <4>1. (download.at = "finish") \in BOOLEAN
        OBVIOUS
      <4> QED
        BY <3>1, <3>6, <4>1 DEF Return, Done
    <3> QED
      BY <1>4, <3>2, <3>3, <3>4, <3>5, <3>6
  <2>3. Data'
    BY <2>1, <2>2 DEF JInv, Data
  <2>4. Sound(flash_algo) /\ target.core = "call" => Due'
    BY <2>1 DEF JInv, Order, Due, Called, Untouched, Level, Page
  <2>5. Sound(flash_algo) /\ download.at \in {"open", "connect", "init"} => Untouched'
    BY <2>1 DEF JInv, Order, Untouched
  <2>6. Order'
    BY <2>1, <2>2, <2>4, <2>5 DEF Order, Performed, Await
  <2> QED
    BY <2>3, <2>6 DEF JInv
<1> QED
  BY <1>1, <1>2, <1>3, <1>4

LEMMA ParsedOrder == ASSUME JInv, IInv', NEW a \in Algo, Parsed(a) PROVE JInv'
<1>1. TypeOK /\ download.at = "parse" /\ access.step = "end" /\ target.core # "call" /\ Untouched
  <2>1. TypeOK /\ download.at = "parse" /\ access.step = "end"
    BY StepPhases DEF JInv, IInv, Parsed
  <2> QED
    BY <2>1, Between DEF JInv, IInv, Chunk, Untouched
<1>2. /\ download'.at = "open" /\ download'.bin_buff = download.bin_buff
      /\ UNCHANGED <<file, access, target>>
  BY <1>1 DEF Parsed, TypeOK, DownloadType
<1>3. Data'
  BY <1>2 DEF JInv, Data
<1>4. Order'
  BY <1>1, <1>2 DEF Order, Untouched
<1> QED
  BY <1>3, <1>4 DEF JInv

\* A page that is programmed raises the level by a page.
LEMMA PageLevel ==
  ASSUME TypeOK, Data, Sound(flash_algo), NEW a \in Nat, Level(a),
         NEW n \in Nat, n <= Page, NEW f, f = Program(target.flash, a, target.buffer, n)
  PROVE  /\ \A c \in Cell : (f[c] = Erased <=> c >= a + n) /\ f[c] # Before
         /\ \A c \in Cell : f[c] # target.flash[c] => a <= c /\ c < a + n
         /\ \A c \in Cell : a <= c /\ c < a + n => c - a \in Offset /\ f[c] = target.buffer[c - a]
<1>1. Page \in Nat /\ Page <= DLSize /\ DLSize \in Nat
  <2>1. Page \in Nat /\ Page > 0
    BY SoundFacts
  <2>2. PICK k \in Nat : DLSize = k * Page
    BY SoundFacts DEF Multiple
  <2>3. k # 0
    BY <2>1, <2>2, Consts
  <2>4. 1 * Page <= k * Page
    BY <2>1, <2>3, Mono
  <2> QED
    BY <2>1, <2>2, <2>4, Consts
<1>2. target.flash \in [Cell -> Value] /\ target.buffer \in [Offset -> Value]
  BY CoreTypes DEF TargetType
<1>3. /\ \A c \in Cell : ~(a <= c /\ c < a + n) => f[c] = target.flash[c]
      /\ \A c \in Cell : a <= c /\ c < a + n /\ target.flash[c] = Erased /\ c - a \in Offset
           => f[c] = target.buffer[c - a]
  BY <1>2, ProgramType
<1>4. \A c \in Cell : c \in Nat
  BY Consts DEF Cell
<1>5. \A c \in Cell : a <= c /\ c < a + n => c - a \in Offset /\ f[c] = target.buffer[c - a]
  <2> SUFFICES ASSUME NEW c \in Cell, a <= c, c < a + n PROVE c - a \in Offset /\ f[c] = target.buffer[c - a]
    OBVIOUS
  <2>1. c - a \in Offset
    BY <1>1, <1>4 DEF Offset
  <2>2. target.flash[c] = Erased
    BY <1>4 DEF Level
  <2> QED
    BY <1>3, <2>1, <2>2
<1>6. \A c \in Cell : a <= c /\ c < a + n => f[c] # Erased /\ f[c] # Before
  BY <1>4, <1>5 DEF Data, Erased, Before, Heap
<1>7. ASSUME NEW c \in Cell PROVE (f[c] = Erased <=> c >= a + n) /\ f[c] # Before
  BY <1>3, <1>4, <1>6 DEF Level
<1> QED
  BY <1>3, <1>5, <1>7

\* What a call does to the flash.
LEMMA CallFlash ==
  ASSUME JInv, Call, Sound(flash_algo)
  PROVE  /\ Due
         /\ \/ target'.flash = target.flash /\ (Called.fn = "init" \/ target'.result = 1)
            \/ Called.fn = "erase_chip" /\ target'.result = 0 /\ target'.flash = [c \in Cell |-> Erased]
            \/ /\ Called.fn = "program_page" /\ Called.addr + Page <= FlashSize
               /\ \E n \in 1 .. Page :
                    /\ target'.flash = Program(target.flash, Called.addr, target.buffer, n)
                    /\ n = Page \/ target'.result = 1
<1>1. TypeOK /\ target.core = "call" /\ Whole
  BY CallFacts DEF JInv, IInv, Calls
<1>2. Page \in 1 .. Page
  BY <1>1, SoundFacts
<1> QED
  BY <1>1, <1>2, CallFacts DEF JInv, Order

LEMMA CallOrder == ASSUME JInv, IInv', Call PROVE JInv'
<1>0. /\ TypeOK /\ IInv /\ UNCHANGED <<flash_algo, file, download, access>> /\ target.core = "call"
      /\ target'.core = "halted" /\ target'.buffer = target.buffer
  BY CallFacts DEF JInv, IInv
<1>1. Data'
  BY <1>0 DEF JInv, Data
<1>2. Order'
  <2> SUFFICES ASSUME Sound(flash_algo) PROVE Order'
    BY <1>0 DEF Order
  <2>1. access.step \in Await \/ download.at \in {"uninit", "done"}
    BY <1>0 DEF IInv, Control
  <2>2. access.step \in Await => /\ download.at \in {"init", "erase", "page"}
                                 /\ access.step \notin {"buffer", "unmask", "end"} \cup Setup
                                 /\ Called = Wants(download.at)
    <3> SUFFICES ASSUME access.step \in Await
                 PROVE  /\ download.at \in {"init", "erase", "page"}
                        /\ access.step \notin {"buffer", "unmask", "end"} \cup Setup
                        /\ Called = Wants(download.at)
      OBVIOUS
    <3>1. access.step \in Exec /\ access.step \notin {"buffer", "unmask", "end"} \cup Setup
      BY DEF Exec, Await, Setup
    <3>2. "pc" \in Given(access.step)
      BY <3>1 DEF Given, Await, Regs
    <3> QED
      BY <1>0, <3>1, <3>2, InCall DEF Called, IInv, Calls
  <2>3. CASE download.at \in {"uninit", "done"}
    BY <1>0, <2>3 DEF Order
  <2>4. CASE access.step \in Await /\ download.at = "init"
    <3>1. Called.fn = "init"
      BY <1>0, <2>2, <2>4, SoundFacts DEF Wants, Fn
    <3>2. target'.flash = target.flash
      BY <1>0, <3>1, CallFacts DEF IInv, Calls
    <3> QED
      BY <1>0, <2>4, <3>2 DEF JInv, Order, Untouched
  <2>5. CASE access.step \in Await /\ download.at = "erase"
    <3>1. Called.fn = "erase_chip"
      BY <1>0, <2>2, <2>5, SoundFacts DEF Wants, Fn
    <3>2. target'.result = 0 => Level(0)'
      <4>1. target'.result = 0 => target'.flash = [c \in Cell |-> Erased]
        BY <3>1, CallFlash
      <4>2. \A c \in Cell : c >= 0
        BY Consts DEF Cell
      <4> QED
        BY <4>1, <4>2 DEF Level, Erased, Before
    <3> QED
      BY <1>0, <2>2, <2>5, <3>2 DEF Order, Performed
  <2>6. CASE access.step \in Await /\ download.at = "page"
    <3>1. Called.fn = "program_page" /\ Called.addr = download.addr + download.from
      BY <1>0, <2>2, <2>6, SoundFacts DEF Wants, Fn
    <3>2. Level(Called.addr)
      BY <3>1, CallFlash DEF Due
    <3>3. /\ Page \in Nat /\ Called.addr \in Nat /\ Page <= Page
          /\ Called.addr + Page = download.addr + download.off
      <4>1. Page \in Nat /\ download.off = download.from + Page
        BY <1>0, <2>2, <2>6, SoundFacts DEF IInv, Chunk
      <4> QED
        BY <1>0, <3>1, <4>1, ChunkRange
    <3>4. target'.result = 0 => Level(download.addr + download.off)'
      <4> SUFFICES ASSUME target'.result = 0 PROVE Level(download.addr + download.off)'
        OBVIOUS
      <4>1. target'.flash = Program(target.flash, Called.addr, target.buffer, Page)
        BY <3>1, CallFlash
      <4>2. \A c \in Cell : (target'.flash[c] = Erased <=> c >= Called.addr + Page) /\ target'.flash[c] # Before
        BY <1>0, <3>2, <3>3, <4>1, PageLevel DEF JInv
      <4> QED
        BY <1>0, <3>3, <4>2 DEF Level
    <3> QED
      BY <1>0, <2>2, <2>6, <3>4 DEF Order, Performed
  <2> QED
    BY <2>1, <2>2, <2>3, <2>4, <2>5, <2>6
<1> QED
  BY <1>1, <1>2 DEF JInv

LEMMA OrderInit == Init => JInv
<1> SUFFICES ASSUME Init PROVE JInv
  OBVIOUS
<1>1. IInv /\ download.at = "parse" /\ target.core # "call" /\ Untouched
  <2>1. IInv /\ download.at = "parse"
    BY InitInv DEF Init
  <2>2. access.step = "end"
    BY DEF Init
  <2> QED
    BY <2>1, <2>2, Between DEF IInv, Chunk, Untouched
<1>2. Data
  <2> DEFINE g == {[r \in Regs |-> NoCall]}
             b == {[i \in Offset |-> Heap]}
             f == {[c \in Cell |-> Before]}
  <2>1. target \in [core : {"running", "halted"}, sticky : BOOLEAN, debugen : BOOLEAN, vc : BOOLEAN,
                    regs : g, algo : {FALSE}, buffer : b, inited : {FALSE}, result : {0}, flash : f]
    BY DEF Init
  <2>2. \A h \in b, i \in Offset : h[i] = Heap
    OBVIOUS
  <2> HIDE DEF g, b, f
  <2>3. target.buffer \in b
    BY <2>1
  <2>4. \A i \in Offset : download.bin_buff[i] = Heap
    BY DEF Init
  <2> QED
    BY <2>2, <2>3, <2>4 DEF Data
<1>3. Order
  BY <1>1 DEF Order
<1> QED
  BY <1>1, <1>2, <1>3 DEF JInv

LEMMA OrderStep == ASSUME JInv, Step PROVE JInv'
<1>0. IInv'
  BY Inductive DEF JInv
<1>1. CASE \E a \in Algo : Parsed(a)
  BY <1>0, <1>1, ParsedOrder
<1>2. CASE Programmer
  <2>1. CASE \/ Open \/ target_flash_init \/ target_flash_erase_chip
             \/ FirstChunk \/ NextPage \/ NextChunk \/ Finish \/ Return
    BY <1>0, <2>1, OperationOrder
  <2>2. CASE \/ EnableDebug \/ HaltOnReset \/ swd_set_target_reset \/ LoadAlgorithm \/ LoadBuffer
             \/ WriteRegister \/ HaltMasked \/ Start \/ CheckStatus
             \/ InitDebug \/ PollHalted \/ WaitHalted \/ ReadResult \/ Unmask
    <3>1. Shape /\ access.step # "end"
      BY <2>2, AccessShape DEF JInv
    <3> QED
      BY <1>0, <3>1, AccessOrder
  <2> QED
    BY <1>2, <2>1, <2>2 DEF Programmer
<1>3. CASE Call
  BY <1>0, <1>3, CallOrder
<1>4. CASE UNCHANGED vars
  BY <1>0, <1>4 DEF vars, JInv, Data, Order, Due, Untouched, Level, Called, Page, Performed
<1> QED
  BY <1>1, <1>2, <1>3, <1>4 DEF Step

-----------------------------------------------------------------------------
(* The refinement.                                                         *)

\* result of Download, as its instance maps it.
Result == IF download.at # "done" THEN "none" ELSE IF download.ret THEN "ok" ELSE "failed"

LEMMA SoundBoolean == \A a : Sound(a) \in BOOLEAN
BY DEF Sound

\* A sound algorithm is parsed before anything is done to the flash; an
\* unsound one promises nothing.
LEMMA ParsedRefines == ASSUME JInv, NEW a \in Algo, Parsed(a) PROVE D!Next
<1>1. TypeOK /\ download.at = "parse" /\ Untouched
  <2>1. download.at = "parse"
    BY DEF Parsed
  <2> QED
    BY <2>1 DEF JInv, IInv, Chunk, Untouched
<1>2. download'.at = "open" /\ UNCHANGED <<file, target>>
  BY <1>1 DEF Parsed, TypeOK, DownloadType
<1>3. Sound(flash_algo') \in BOOLEAN
  BY SoundBoolean
<1>4. \A u \in D!Unit : target.flash[u] = Before
  BY <1>1 DEF D!Unit, Cell, Untouched
<1>5. D!Parse
  BY <1>1, <1>2, <1>3, <1>4 DEF D!Parse
<1> QED
  BY <1>5 DEF D!Next

LEMMA AnythingRefines ==
  ASSUME ~Sound(flash_algo), flash_algo' = flash_algo, file'.size = file.size
  PROVE  D!Next
<1>1. D!Anything
  BY DEF D!Anything
<1> QED
  BY <1>1 DEF D!Next

\* Steps that leave the flash alone: the download answers, or its file cannot
\* be read, or Download does not move.
LEMMA QuietRefines ==
  ASSUME flash_algo' = flash_algo, Sound(flash_algo), target'.flash = target.flash, file'.size = file.size,
         \/ Result' = Result /\ (file'.good = file.good \/ file'.good = FALSE)
         \/ file' = file /\ Result = "none" /\ Result' = "failed"
         \/ /\ file' = file /\ Result = "none" /\ Result' = "ok"
            /\ file.good => \A u \in 0 .. file.size - 1 : target.flash[u] = u
  PROVE  D!Next \/ UNCHANGED D!dvars
<1>1. CASE Result' = Result /\ file'.good = file.good
  BY <1>1 DEF D!dvars, Result
<1>2. CASE Result' = Result /\ file'.good = FALSE
  <2>1. D!Misread
    BY <1>2 DEF D!Misread, Result
  <2> QED
    BY <2>1 DEF D!Next
<1>3. CASE file' = file /\ Result = "none" /\ Result' = "failed"
  <2>1. D!Fail
    BY <1>3 DEF D!Fail, Result
  <2>2. D!Answer
    BY <1>3, <2>1 DEF D!Answer
  <2> QED
    BY <2>2 DEF D!Next
<1>4. CASE /\ file' = file /\ Result = "none" /\ Result' = "ok"
           /\ file.good => \A u \in 0 .. file.size - 1 : target.flash[u] = u
  <2>1. D!Succeed
    BY <1>4 DEF D!Succeed, Result
  <2>2. D!Answer
    BY <1>4, <2>1 DEF D!Answer
  <2> QED
    BY <2>2 DEF D!Next
<1> QED
  BY <1>1, <1>2, <1>3, <1>4

LEMMA CallRefines == ASSUME JInv, Sound(flash_algo), Call PROVE D!Next \/ UNCHANGED D!dvars
<1>0. /\ TypeOK /\ UNCHANGED <<flash_algo, file, download, access>> /\ target.core = "call"
      /\ Page \in Nat /\ Called.addr \in Nat /\ FlashSize \in Nat
  <2>1. TypeOK
    BY DEF JInv, IInv
  <2> QED
    BY <2>1, CallFacts, SoundFacts, Consts DEF TypeOK, TargetType, Called, Call_, Regs
<1>1. Result' = Result /\ Result # "ok"
  <2>1. ~(download.at = "done" /\ download.ret)
    BY <1>0 DEF JInv, IInv, Control
  <2> QED
    BY <1>0, <2>1 DEF Result
<1>2. D!Unit = Cell
  BY DEF D!Unit, Cell
<1>3. CASE target'.flash = target.flash
  BY <1>0, <1>1, <1>3, QuietRefines
<1>4. CASE Called.fn = "erase_chip" /\ target'.flash = [c \in Cell |-> Erased]
  <2>1. Untouched
    BY <1>4, CallFlash DEF Due
  <2>2. D!EraseChip
    BY <1>2, <1>4, <2>1 DEF D!EraseChip, Untouched
  <2>3. D!Work
    BY <1>0, <1>1, <2>2 DEF D!Work, D!Write, Result
  <2> QED
    BY <2>3 DEF D!Next
<1>5. CASE /\ Called.fn = "program_page" /\ Called.addr + Page <= FlashSize
           /\ \E n \in 1 .. Page : target'.flash = Program(target.flash, Called.addr, target.buffer, n)
  <2>1. PICK n \in 1 .. Page : target'.flash = Program(target.flash, Called.addr, target.buffer, n)
    BY <1>5
  <2>2. /\ n \in Nat /\ n <= Page /\ n \in 1 .. FlashSize /\ Called.addr \in Cell /\ Page <= FlashSize
    BY <1>0, <1>5 DEF Cell
  <2>3. /\ Level(Called.addr)
        /\ \A i \in Offset : file.good /\ i < Page /\ Called.addr + i < file.size => target.buffer[i] = Called.addr + i
    BY <1>5, CallFlash DEF Due
  <2> DEFINE a == Called.addr
  <2>4. /\ \A c \in Cell : target'.flash[c] # target.flash[c] => a <= c /\ c < a + n
        /\ \A c \in Cell : a <= c /\ c < a + n => c - a \in Offset /\ target'.flash[c] = target.buffer[c - a]
    BY <1>0, <2>1, <2>2, <2>3, PageLevel DEF JInv
  <2>5. \A c \in Cell : c \in a .. a + n - 1 <=> a <= c /\ c < a + n
    BY <1>0, <2>2 DEF Cell
  <2>6. ASSUME NEW u \in Cell, u \in a .. a + n - 1
        PROVE  /\ target'.flash[u] \in Cell \cup {Heap}
               /\ file.good /\ u < file.size => target'.flash[u] = u
    <3>1. u - a \in Offset /\ target'.flash[u] = target.buffer[u - a] /\ u - a < Page /\ a + (u - a) = u
      BY <1>0, <2>2, <2>4, <2>5, <2>6 DEF Cell
    <3> QED
      BY <2>3, <3>1 DEF JInv, Data
  <2>7. D!Program(a, n)
    <3>1. \A u \in Cell : (target.flash[u] = Erased <=> u >= a) /\ target.flash[u] # Before
      BY <2>3 DEF Level
    <3>2. \A u \in Cell : target'.flash[u] # target.flash[u] => u \in a .. a + n - 1
      BY <2>4, <2>5
    <3> HIDE DEF a
    <3> QED
      BY <1>2, <2>6, <3>1, <3>2 DEF D!Program
  <2>8. D!Write
    BY <1>2, <2>2, <2>7 DEF D!Write
  <2>9. D!Work
    BY <1>0, <1>1, <2>8 DEF D!Work, Result
  <2> QED
    BY <2>9 DEF D!Next
<1> QED
  BY <1>3, <1>4, <1>5, CallFlash

\* What an answer needs.
LEMMA ReturnRefines == ASSUME JInv, Sound(flash_algo), Return PROVE D!Next \/ UNCHANGED D!dvars
<1>0. /\ TypeOK /\ UNCHANGED <<flash_algo, file, target>> /\ download.at \in {"finish", "uninit"}
      /\ Done(download.at = "finish") /\ Result = "none"
  BY DEF JInv, IInv, Return, At, Result
<1>1. (download.at = "finish") \in BOOLEAN
  OBVIOUS
<1>2. Result' = IF download.at = "finish" THEN "ok" ELSE "failed"
  BY <1>0, <1>1, DoneType DEF Done, Result
<1>3. download.at = "finish" /\ file.good => \A u \in 0 .. file.size - 1 : target.flash[u] = u
  <2> SUFFICES ASSUME download.at = "finish", file.good, NEW u \in 0 .. file.size - 1 PROVE target.flash[u] = u
    OBVIOUS
  <2>1. Filled(download.addr + DLSize) /\ file.size < download.addr + DLSize
    BY DEF JInv, IInv, Media, Chunk
  <2>2. /\ file.size \in Nat /\ file.size <= FlashSize /\ FlashSize \in Nat
        /\ download.addr \in Nat /\ DLSize \in Nat
    BY <1>0, ChunkRange, Consts
  <2>3. u \in Cell /\ u < file.size /\ u < download.addr + DLSize
    BY <2>1, <2>2 DEF Cell
  <2> QED
    BY <2>1, <2>3 DEF Filled
<1> QED
  BY <1>0, <1>2, <1>3, QuietRefines

LEMMA OperationRefines ==
  ASSUME JInv, Sound(flash_algo),
         Open \/ target_flash_init \/ target_flash_erase_chip \/ NextPage \/ Finish
  PROVE  D!Next \/ UNCHANGED D!dvars
<1>0. TypeOK /\ UNCHANGED <<flash_algo, file, target>> /\ Result = "none"
  BY DEF JInv, IInv, Open, target_flash_init, target_flash_erase_chip, NextPage, Finish, PageDone, At, Result
<1>1. Result' = "none" \/ Result' = "failed"
  <2>1. \A p \in Phases : [download EXCEPT !.at = p].at = p
    BY <1>0 DEF TypeOK, DownloadType
  <2>2. [download EXCEPT !.at = "connect", !.readflag = TRUE].at = "connect"
    BY <1>0 DEF TypeOK, DownloadType
  <2>3. CASE Open
    BY <1>0, <2>2, <2>3, DoneType DEF Open, Done, Result
  <2>4. CASE NextPage
    BY <1>0, <2>4, NextPageFacts DEF Result
  <2>5. CASE target_flash_init \/ target_flash_erase_chip \/ Finish
    BY <2>1, <2>5 DEF target_flash_init, target_flash_erase_chip, Finish, Begin, Result, Phases
  <2> QED
    BY <2>3, <2>4, <2>5
<1> QED
  BY <1>0, <1>1, QuietRefines

LEMMA ReadRefines ==
  ASSUME JInv, Sound(flash_algo), NEW a \in Nat, ReadChunk(a), download.at # "done"
  PROVE  D!Next \/ UNCHANGED D!dvars
<1>0. TypeOK
  BY DEF JInv, IInv
<1>1. /\ file'.size = file.size /\ (file'.good = file.good \/ file'.good = FALSE)
      /\ download'.at = "page" /\ UNCHANGED <<flash_algo, target>>
  <2>1. file' \in FileType
    BY <1>0, ReadChunkFacts
  <2>2. file'.good \in BOOLEAN
    BY <2>1 DEF FileType
  <2> QED
    BY <1>0, <2>2, ReadChunkFacts
<1>2. Result' = Result
  BY <1>1 DEF Result
<1> QED
  BY <1>1, <1>2, QuietRefines

LEMMA ShapeRefines ==
  ASSUME JInv, Sound(flash_algo), Shape, access.step # "end"
  PROVE  D!Next \/ UNCHANGED D!dvars
<1>0. TypeOK /\ Kept /\ target'.flash = target.flash /\ download.at # "done"
  BY StepPhases DEF JInv, IInv, Shape
<1>1. Result = "none" /\ (Result' = "none" \/ Result' = "failed")
  <2> DEFINE u == [download EXCEPT !.at = "uninit"]
             d == [download EXCEPT !.at = "done", !.ret = FALSE]
  <2>1. u.at = "uninit" /\ d.at = "done" /\ ~d.ret
    BY <1>0 DEF TypeOK, DownloadType
  <2>2. download' = u \/ download' = d \/ download' = download
    BY DEF Shape, GivesUp
  <2> HIDE DEF u, d
  <2> QED
    BY <1>0, <2>1, <2>2 DEF Result
<1> QED
  BY <1>0, <1>1, QuietRefines DEF Kept

LEMMA SizeKept == ASSUME TypeOK, Step PROVE file'.size = file.size
<1>1. ASSUME NEW a \in Nat, ReadChunk(a) PROVE file'.size = file.size
  BY <1>1, ReadChunkFacts
<1>2. download.addr + DLSize \in Nat /\ 0 \in Nat
  BY ChunkRange, Consts
<1>3. FirstChunk \/ NextChunk => file'.size = file.size
  BY <1>1, <1>2 DEF FirstChunk, NextChunk
<1>4. CASE FirstChunk \/ NextChunk
  BY <1>3, <1>4
<1>5. CASE ~(FirstChunk \/ NextChunk)
  BY <1>5 DEF Step, Parsed, Programmer, Call, vars, Open, target_flash_init, target_flash_erase_chip, NextPage,
              Finish, Return, InitDebug, EnableDebug, HaltOnReset, swd_set_target_reset, PollHalted, LoadAlgorithm,
              LoadBuffer, WriteRegister, HaltMasked, Start, CheckStatus, WaitHalted, ReadResult, Unmask, Rest
<1> QED
  BY <1>4, <1>5

LEMMA StepRefines == ASSUME JInv, Step PROVE D!Next \/ UNCHANGED D!dvars
<1>0. TypeOK
  BY DEF JInv, IInv
<1>1. CASE \E a \in Algo : Parsed(a)
  BY <1>1, ParsedRefines
<1>2. CASE (Programmer \/ Call) /\ ~Sound(flash_algo)
  <2>1. flash_algo' = flash_algo
    BY <1>2 DEF Programmer, Call, Open, target_flash_init, target_flash_erase_chip, NextPage, FirstChunk, NextChunk,
             ReadChunk, Finish, Return, InitDebug, EnableDebug, HaltOnReset, swd_set_target_reset, PollHalted,
             LoadAlgorithm, LoadBuffer, WriteRegister, HaltMasked, Start, CheckStatus, WaitHalted, ReadResult,
             Unmask, Rest
  <2> QED
    BY <1>0, <1>2, <2>1, SizeKept, AnythingRefines
<1>3. CASE Programmer /\ Sound(flash_algo)
  <2>1. CASE FirstChunk
    BY <1>3, <2>1, ReadRefines DEF FirstChunk, At
  <2>2. CASE NextChunk
    <3>1. download.addr + DLSize \in Nat
      BY <1>0, ChunkRange, Consts
    <3> QED
      BY <1>3, <2>2, <3>1, ReadRefines DEF NextChunk, PageDone, At
  <2>3. CASE Open \/ target_flash_init \/ target_flash_erase_chip \/ NextPage \/ Finish
    BY <1>3, <2>3, OperationRefines
  <2>4. CASE Return
    BY <1>3, <2>4, ReturnRefines
  <2>5. CASE \/ EnableDebug \/ HaltOnReset \/ swd_set_target_reset \/ LoadAlgorithm \/ LoadBuffer
             \/ WriteRegister \/ HaltMasked \/ Start \/ CheckStatus
             \/ InitDebug \/ PollHalted \/ WaitHalted \/ ReadResult \/ Unmask
    <3>1. Shape /\ access.step # "end"
      BY <2>5, AccessShape DEF JInv
    <3> QED
      BY <1>3, <3>1, ShapeRefines
  <2> QED
    BY <1>3, <2>1, <2>2, <2>3, <2>4, <2>5 DEF Programmer
<1>4. CASE Call /\ Sound(flash_algo)
  BY <1>4, CallRefines
<1>5. CASE UNCHANGED vars
  BY <1>5 DEF vars, D!dvars
<1> QED
  BY <1>1, <1>2, <1>3, <1>4, <1>5 DEF Step

LEMMA InitRefines == Init => D!Init
<1> SUFFICES ASSUME Init PROVE D!Init
  OBVIOUS
<1>1. file.size \in 0 .. FlashSize /\ file.good = TRUE
  BY SizeAssumption DEF Init
<1>2. target.flash = [c \in Cell |-> Before]
  <2> DEFINE g == {[r \in Regs |-> NoCall]}
             b == {[i \in Offset |-> Heap]}
             f == [c \in Cell |-> Before]
  <2>1. target \in [core : {"running", "halted"}, sticky : BOOLEAN, debugen : BOOLEAN, vc : BOOLEAN,
                    regs : g, algo : {FALSE}, buffer : b, inited : {FALSE}, result : {0}, flash : {f}]
    BY DEF Init
  <2> HIDE DEF g, b, f
  <2>2. target.flash = f
    BY <2>1
  <2> QED
    BY <2>2 DEF f
<1>3. download.at = "parse" /\ Sound(flash_algo) \in BOOLEAN
  BY SoundBoolean DEF Init
<1> QED
  BY <1>1, <1>2, <1>3 DEF D!Init, D!Unit, Cell

\* The offline download implements Download: whatever fails, the flash of the
\* target is erased once, then programmed in order, no unit twice, and success
\* means that all of the file is there.
THEOREM DownloadImplemented == Spec => ImplementsDownload
<1>1. JInv /\ [Next]_vars => JInv'
  BY NextStep, OrderStep DEF Step
<1>2. JInv /\ [Next]_vars => [D!Next]_(D!dvars)
  BY NextStep, StepRefines DEF Step
<1> QED
  BY <1>1, <1>2, OrderInit, InitRefines, PTL DEF Spec, ImplementsDownload, D!Spec
=============================================================================
