------------------------------ MODULE SwdHost ------------------------------
(***************************************************************************)
(* The memory access layer of pack/SWD/swd_host.c: the cached SELECT and   *)
(* CSW (dap_state), the splitting of a transfer into bytes and blocks, and *)
(* the SWD transfers they are made of, against the debug port and the      *)
(* MEM-AP of a target over a link that fails.                              *)
(*                                                                         *)
(* A call is run as a script of SWD transfers.  A transfer whose ACK is    *)
(* not OK ends the call with 0, as each early return of the code does.     *)
(* swd_transfer_retry is one transfer: WAIT a hundred times is a refusal.  *)
(***************************************************************************)
EXTENDS Naturals, Sequences

CONSTANTS
  MemSize,     \* bytes of the target's memory
  Page,        \* TARGET_AUTO_INCREMENT_PAGE_SIZE
  TargetPage,  \* the size on which the MEM-AP wraps its address (1024)
  Ranges,      \* [addr, size] pairs that callers transfer
  Faults,      \* what the link and the target's bus may do, see FaultKinds
  MaxFaults    \* bound: number of faults

\* "dropped": acknowledged, not performed, and a sticky error is set (parity
\*            of the written data, or the bus faults);
\* "refused": not performed, and not acknowledged (WAIT, or no answer);
\* "unheard": performed, but the acknowledge or the read parity is garbled.
FaultKinds == {"dropped", "refused", "unheard"}

ASSUME MemAssumption    == MemSize \in Nat \ {0}
ASSUME PageAssumption   == /\ Page \in Nat \ {0} /\ TargetPage \in Nat \ {0}
                           /\ Page % 4 = 0 /\ TargetPage % Page = 0 /\ MemSize % TargetPage = 0
ASSUME RangesAssumption == Ranges \subseteq {r \in [addr : Nat, size : Nat] : r.addr + r.size <= MemSize}
ASSUME FaultsAssumption == Faults \subseteq FaultKinds /\ MaxFaults \in Nat

VARIABLES
  dap_state,  \* the cache: select and csw
  port,       \* the target: SELECT, CSW, TAR, the read buffer, the sticky error, memory
  call,       \* the call in progress, or the last one
  script,     \* the SWD transfers it has still to make
  busy,       \* is it in progress?
  ret,        \* what the last call returned
  got,        \* the bytes a read has stored
  faults      \* number of faults so far

vars == <<dap_state, port, call, script, busy, ret, got, faults>>

Addr  == 0 .. MemSize - 1
Lane  == 0 .. 3
Zero  == <<"zero">>        \* a byte lane that carries nothing

\* The byte that was at address b when the call began, and the byte that a
\* write means for it.
Old(b) == <<"old", b>>
New(b) == <<"new", b>>
Byte   == {Old(b) : b \in Addr} \cup {New(b) : b \in Addr} \cup {Zero}
Before == [b \in Addr |-> Old(b)]

\* Sizes of an access, CSW_SIZE8 and CSW_SIZE32, in bytes.  Fake is the value
\* 0xFFFFFFFF of a cache that knows nothing.
Sizes == {1, 4}
Fake  == 0

Req(k)      == [k |-> k]
Select(v)   == [k |-> "select", v |-> v]
Csw(v)      == [k |-> "csw", v |-> v]
Tar(a)      == [k |-> "tar", v |-> a]
DrwW(d)     == [k |-> "drww", d |-> d]
DrwR(keep)  == [k |-> "drwr", keep |-> keep]     \* keep: the lanes stored
Rdbuff(keep) == [k |-> "rdbuff", keep |-> keep]

-----------------------------------------------------------------------------
(* The calls.                                                              *)

\* swd_write_ap(AP_CSW, v) as far as its register write.
WriteCsw(v) == <<Select("b0"), Csw(v)>>

Word(a)     == [j \in Lane |-> New(a + j)]
OneByte(a)  == [j \in Lane |-> IF j = a % 4 THEN New(a) ELSE Zero]

\* Mutant: the last write of a block is not confirmed.
swd_write_block_NoDummyRead(a, n) ==
  WriteCsw(4) \o <<Tar(a)>> \o [i \in 1 .. (n \div 4) |-> DrwW(Word(a + 4 * (i - 1)))]

swd_write_block(a, n) ==
  WriteCsw(4) \o <<Tar(a)>> \o [i \in 1 .. (n \div 4) |-> DrwW(Word(a + 4 * (i - 1)))] \o <<Rdbuff(<<>>)>>

\* Mutant: the read that only starts the pipeline is stored.
swd_read_block_NoDummyRead(a, n) ==
  WriteCsw(4) \o <<Tar(a)>> \o [i \in 1 .. (n \div 4) |-> DrwR(<<0, 1, 2, 3>>)]

swd_read_block(a, n) ==
  WriteCsw(4) \o <<Tar(a), DrwR(<<>>)>> \o [i \in 1 .. (n \div 4) - 1 |-> DrwR(<<0, 1, 2, 3>>)]
    \o <<Rdbuff(<<0, 1, 2, 3>>)>>

swd_write_byte(a) == WriteCsw(1) \o <<Tar(a), DrwW(OneByte(a)), Rdbuff(<<>>)>>
swd_read_byte(a)  == WriteCsw(1) \o <<Tar(a), DrwR(<<>>), Rdbuff(<<a % 4>>)>>

\* Line reset and IDCODE, ABORT, power up, with SELECT 0 twice.
swd_init_debug ==
  <<Req("idcode"), Req("abort"), Select("b0"), Req("ctrl"), Select("b0")>>

\* Mutant: blocks are not cut at the auto-increment page.
PieceSize_NoPage(a, s) == IF a % 4 # 0 \/ s <= 3 THEN 1 ELSE s - (s % 4)

\* Mutant: a block is not cut at the end of the range.
PieceSize_NoEnd(a, s) == IF a % 4 # 0 \/ s <= 3 THEN 1 ELSE Page - (a % Page)

\* The next piece of swd_write_memory and swd_read_memory.
IsBlock(a, s) == a % 4 = 0 /\ s > 3
PieceSize(a, s) ==
  LET n == Page - (a % Page)
  IN IF ~IsBlock(a, s) THEN 1 ELSE IF s < n THEN s - (s % 4) ELSE n

-----------------------------------------------------------------------------
Init ==
  /\ dap_state = [select |-> "none", csw |-> Fake]
  /\ port \in [select : {"b0", "other"}, csw : Sizes, tar : {0}, rd : {[j \in Lane |-> Zero]},
               sticky : BOOLEAN, mem : {Before}]
  /\ call = [op |-> "init", addr |-> 0, size |-> 0, done |-> 0]
  /\ script = swd_init_debug
  /\ busy = TRUE /\ ret = FALSE
  /\ got = <<>>
  /\ faults = 0

\* Mutant: the cache is not filled with fake values.
CallInit_KeepsCache ==
  /\ ~busy
  /\ call' = [op |-> "init", addr |-> 0, size |-> 0, done |-> 0]
  /\ script' = swd_init_debug
  /\ busy' = TRUE
  /\ port' = [port EXCEPT !.mem = Before]
  /\ UNCHANGED <<dap_state, ret, got, faults>>

\* What is in the memory when a call begins is old.
CallInit ==
  /\ ~busy
  /\ call' = [op |-> "init", addr |-> 0, size |-> 0, done |-> 0]
  /\ script' = swd_init_debug
  /\ busy' = TRUE
  /\ dap_state' = [select |-> "none", csw |-> Fake]
  /\ port' = [port EXCEPT !.mem = Before]
  /\ UNCHANGED <<ret, got, faults>>

\* The first iteration of the loops is a step of its own, NextPiece.
CallMemory(op, r) ==
  /\ ~busy
  /\ port' = [port EXCEPT !.mem = Before]
  /\ call' = [op |-> op, addr |-> r.addr, size |-> r.size, done |-> 0]
  /\ busy' = TRUE
  /\ got' = <<>>
  /\ UNCHANGED <<dap_state, script, ret, faults>>

\* The loops of swd_write_memory and swd_read_memory: one piece after the other.
NextPiece ==
  /\ busy /\ script = <<>> /\ call.done < call.size
  /\ LET a == call.addr + call.done
         s == call.size - call.done
         n == PieceSize(a, s)
     IN /\ script' = IF call.op = "write"
                     THEN IF IsBlock(a, s) THEN swd_write_block(a, n) ELSE swd_write_byte(a)
                     ELSE IF IsBlock(a, s) THEN swd_read_block(a, n) ELSE swd_read_byte(a)
        /\ call' = [call EXCEPT !.done = @ + n]
  /\ UNCHANGED <<dap_state, port, busy, ret, got, faults>>

Return ==
  /\ busy /\ script = <<>> /\ call.done = call.size
  /\ busy' = FALSE /\ ret' = TRUE
  /\ UNCHANGED <<dap_state, port, call, script, got, faults>>

-----------------------------------------------------------------------------
(* One SWD transfer.                                                       *)

Go(rest) == script' = rest /\ UNCHANGED <<busy, ret>>
Fail     == script' = <<>> /\ busy' = FALSE /\ ret' = FALSE

Fault(f) == f \in Faults /\ faults < MaxFaults /\ faults' = faults + 1

\* A transfer that leaves the target as p when it is performed.  A sticky
\* error makes the target answer FAULT.
Transfer(p, rest) ==
  \/ port.sticky /\ Fail /\ UNCHANGED <<port, faults>>
  \/ /\ ~port.sticky
     /\ \/ port' = p /\ Go(rest) /\ UNCHANGED faults
        \/ Fault("dropped") /\ port' = [port EXCEPT !.sticky = TRUE] /\ Go(rest)
        \/ Fault("refused") /\ UNCHANGED port /\ Fail
        \/ Fault("unheard") /\ port' = p /\ Fail

Next1 == Head(script)
Rest  == Tail(script)
Doing(k) == busy /\ script # <<>> /\ Next1.k = k

\* swd_write_dp(DP_SELECT, v): the cache follows a write that is acknowledged.
WriteSelect ==
  /\ Doing("select")
  /\ IF dap_state.select = Next1.v
     THEN Go(Rest) /\ UNCHANGED <<dap_state, port, faults>>
     ELSE /\ Transfer([port EXCEPT !.select = Next1.v], Rest)
          /\ dap_state' = IF busy' THEN [dap_state EXCEPT !.select = Next1.v] ELSE dap_state
  /\ UNCHANGED <<call, got>>

\* The rest of swd_write_ap(AP_CSW, v): the cache is set before the transfer,
\* and a write that happens is followed by a read of RDBUFF.
WriteApCsw ==
  /\ Doing("csw")
  /\ IF dap_state.csw = Next1.v
     THEN Go(Rest) /\ UNCHANGED <<dap_state, port, faults>>
     ELSE /\ dap_state' = [dap_state EXCEPT !.csw = Next1.v]
          /\ Transfer([port EXCEPT !.csw = Next1.v], <<Rdbuff(<<>>)>> \o Rest)
  /\ UNCHANGED <<call, got>>

WriteTar ==
  /\ Doing("tar")
  /\ Transfer([port EXCEPT !.tar = Next1.v], Rest)
  /\ UNCHANGED <<dap_state, call, got>>

\* The MEM-AP: an access of CSW.Size bytes at TAR, which is then increased
\* and wraps at TargetPage.
Touched(p)   == IF p.csw = 4 THEN {p.tar - (p.tar % 4) + j : j \in Lane} ELSE {p.tar}
Increment(p) == [p EXCEPT !.tar = (@ - (@ % TargetPage)) + ((@ + p.csw) % TargetPage)]
Written(p, d) == [Increment(p) EXCEPT !.mem = [b \in Addr |-> IF b \in Touched(p) THEN d[b % 4] ELSE @[b]]]
ReadOut(p)    ==
  [Increment(p) EXCEPT !.rd = [j \in Lane |-> LET b == p.tar - (p.tar % 4) + j
                                              IN IF b \in Touched(p) THEN p.mem[b] ELSE Zero]]

WriteDrw ==
  /\ Doing("drww")
  /\ Transfer(Written(port, Next1.d), Rest)
  /\ UNCHANGED <<dap_state, call, got>>

\* The lanes of the previous access, which this read returns.
Kept == [i \in 1 .. Len(Next1.keep) |-> port.rd[Next1.keep[i]]]

ReadDrw ==
  /\ Doing("drwr")
  /\ Transfer(ReadOut(port), Rest)
  /\ got' = IF busy' THEN got \o Kept ELSE got
  /\ UNCHANGED <<dap_state, call>>

\* A read of the debug port changes nothing in the target: it is answered or
\* it is not.
Answered(rest) ==
  /\ UNCHANGED port
  /\ \/ Go(rest) /\ UNCHANGED faults
     \/ (Fault("refused") \/ Fault("unheard")) /\ Fail

ReadRdbuff ==
  /\ Doing("rdbuff")
  /\ IF port.sticky THEN Fail /\ UNCHANGED <<port, faults>> ELSE Answered(Rest)
  /\ got' = IF busy' THEN got \o Kept ELSE got
  /\ UNCHANGED <<dap_state, call>>

\* IDCODE and CTRL/STAT are accessible whatever the sticky error.
ReadIdcode ==
  /\ Doing("idcode")
  /\ Answered(Rest)
  /\ UNCHANGED <<dap_state, call, got>>

WriteAbort ==
  /\ Doing("abort")
  /\ \/ port' = [port EXCEPT !.sticky = FALSE] /\ Go(Rest) /\ UNCHANGED faults
     \/ Fault("dropped") /\ port' = [port EXCEPT !.sticky = TRUE] /\ Go(Rest)
     \/ Fault("refused") /\ UNCHANGED port /\ Fail
     \/ Fault("unheard") /\ port' = [port EXCEPT !.sticky = FALSE] /\ Fail
  /\ UNCHANGED <<dap_state, call, got>>

\* Power up: CTRL/STAT is written, polled and written again.
WriteCtrl ==
  /\ Doing("ctrl")
  /\ Transfer(port, Rest)
  /\ UNCHANGED <<dap_state, call, got>>

Next ==
  \/ CallInit \/ (\E op \in {"write", "read"}, r \in Ranges : CallMemory(op, r))
  \/ NextPiece \/ Return
  \/ WriteSelect \/ WriteApCsw \/ WriteTar \/ WriteDrw \/ ReadDrw
  \/ ReadRdbuff \/ ReadIdcode \/ WriteAbort \/ WriteCtrl

Spec == Init /\ [][Next]_vars

-----------------------------------------------------------------------------
Script == Seq([k : {"select"}, v : {"b0"}] \cup [k : {"csw"}, v : Sizes]
              \cup [k : {"tar"}, v : Addr] \cup [k : {"drww"}, d : [Lane -> Byte]]
              \cup [k : {"drwr", "rdbuff"}, keep : Seq(Lane)]
              \cup [k : {"idcode", "abort", "ctrl"}])

\* The type of the state.
TypeOK ==
  /\ dap_state \in [select : {"none", "b0"}, csw : Sizes \cup {Fake}]
  /\ port \in [select : {"b0", "other"}, csw : Sizes, tar : Addr,
                rd : [Lane -> Byte], sticky : BOOLEAN, mem : [Addr -> Byte]]
  /\ call \in [op : {"init", "write", "read"}, addr : Nat, size : Nat, done : Nat]
  /\ call.done <= call.size
  /\ script \in Script
  /\ busy \in BOOLEAN /\ ret \in BOOLEAN
  /\ got \in Seq(Byte) /\ faults \in 0 .. MaxFaults

Span == call.addr .. call.addr + call.size - 1

\* What the cache says of SELECT and CSW is so, or the target refuses every
\* access until the sticky error is cleared (by swd_init_debug, which forgets
\* the cache first).
CacheCoherent ==
  port.sticky \/ (dap_state.select \in {"none", port.select} /\ dap_state.csw \in {Fake, port.csw})

\* swd_write_memory returns 1 only when every byte is where it belongs.
WriteLands == ~busy /\ ret /\ call.op = "write" => \A b \in Span : port.mem[b] = New(b)

\* swd_read_memory returns 1 only with the bytes of the range, in order.
ReadTrue ==
  ~busy /\ ret /\ call.op = "read" => got = [i \in 1 .. call.size |-> port.mem[call.addr + i - 1]]

\* Whatever is lost or garbled, no byte outside the range of a write changes: the
\* pieces never run into the wrap of the MEM-AP, and no byte is written as a word.
\* (A refused write of CSW breaks this, as it does WriteLands.)
Confined ==
  \A b \in Addr : port.mem[b] # Old(b) => call.op = "write" /\ b \in Span
=============================================================================
