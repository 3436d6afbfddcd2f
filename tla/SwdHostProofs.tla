--------------------------- MODULE SwdHostProofs ---------------------------
(***************************************************************************)
(* swd_host.c on a link whose every acknowledged write is either performed *)
(* or punished by a sticky error: the cache never lies, and a write or a   *)
(* read of memory that returns 1 has moved every byte of its range and no  *)
(* other, for every memory, page size, set of ranges and number of faults. *)
(*                                                                         *)
(* CacheInv is the invariant of the cache.  MemInv, of the memory, says    *)
(* which piece of the range is under way and how far: Setting before TAR   *)
(* is written, Moving after, and Done between two pieces.                  *)
(***************************************************************************)
EXTENDS SwdHost, SequenceTheorems, TLAPS

\* The SWD transfers a script is made of once ABORT is written, with unbounded
\* addresses.
Datum == {New(b) : b \in Nat} \cup {Zero}
Op == [k : {"select"}, v : {"b0"}] \cup [k : {"csw"}, v : Sizes]
      \cup [k : {"tar"}, v : Nat] \cup [k : {"drww"}, d : [Lane -> Datum]]
      \cup [k : {"drwr", "rdbuff"}, keep : Seq(Lane)]
      \cup [k : {"ctrl"}]

\* What of the types the cache depends on.
CacheType == dap_state \in [select : {"none", "b0"}, csw : Sizes \cup {Fake}]
PortType  == /\ DOMAIN port = {"select", "csw", "tar", "rd", "sticky", "mem"}
             /\ port.sticky \in BOOLEAN
CallType  == call \in [op : {"init", "write", "read"}, addr : Nat, size : Nat, done : Nat]
             /\ call.done <= call.size

\* The sticky error is cleared only while the cache knows nothing.
Starting   == /\ script = swd_init_debug \/ script = Tail(swd_init_debug)
              /\ dap_state.select = "none" /\ dap_state.csw = Fake
ScriptType == (script \in Seq(Op) \/ Starting) /\ busy \in BOOLEAN

CacheInv == CacheType /\ PortType /\ CallType /\ ScriptType /\ CacheCoherent

-----------------------------------------------------------------------------
(* The scripts are scripts.                                                *)

LEMMA OpTypes ==
  /\ Select("b0") \in Op /\ Csw(1) \in Op /\ Csw(4) \in Op
  /\ Req("ctrl") \in Op
  /\ \A a \in Nat : Tar(a) \in Op
  /\ \A d \in [Lane -> Datum] : DrwW(d) \in Op
  /\ \A s \in Seq(Lane) : DrwR(s) \in Op /\ Rdbuff(s) \in Op
BY DEF Op, Select, Csw, Req, Tar, DrwW, DrwR, Rdbuff, Sizes

LEMMA InitScript ==
  /\ Tail(Tail(swd_init_debug)) \in Seq(Op)
  /\ Head(swd_init_debug).k = "idcode" /\ Head(Tail(swd_init_debug)).k = "abort"
<1> DEFINE i == Req("idcode")
           a == Req("abort")
           c == Select("b0")
           d == Req("ctrl")
<1>1. c \in Op /\ d \in Op
  BY OpTypes
<1>2. i.k = "idcode" /\ a.k = "abort"
  BY DEF Req
<1>3. swd_init_debug = <<i, a, c, d, c>>
  BY DEF swd_init_debug
<1> HIDE DEF i, a, c, d
<1>4. /\ Tail(swd_init_debug) = <<a, c, d, c>> /\ Head(swd_init_debug) = i
  BY <1>3
<1> DEFINE u == <<a, c, d, c>>
<1>5. Tail(u) = <<c, d, c>> /\ Head(u) = a
  OBVIOUS
<1>6. <<c, d, c>> \in Seq(Op)
  BY <1>1
<1>7. Tail(u) \in Seq(Op) /\ Head(u).k = "abort"
  BY <1>2, <1>5, <1>6
<1>8. Head(swd_init_debug).k = "idcode"
  BY <1>2, <1>4
<1>9. Tail(swd_init_debug) = u
  BY <1>4
<1> HIDE DEF u
<1> QED
  BY <1>7, <1>8, <1>9

LEMMA WriteCswScript == WriteCsw(1) \in Seq(Op) /\ WriteCsw(4) \in Seq(Op)
BY OpTypes DEF WriteCsw

LEMMA DataTypes ==
  ASSUME NEW a \in Nat
  PROVE  Word(a) \in [Lane -> Datum] /\ OneByte(a) \in [Lane -> Datum]
BY DEF Word, OneByte, Lane, Datum

LEMMA ByteScripts ==
  ASSUME NEW a \in Nat
  PROVE  swd_write_byte(a) \in Seq(Op) /\ swd_read_byte(a) \in Seq(Op)
<1>1. a % 4 \in Lane
  BY DEF Lane
<1> DEFINE t == Tar(a)
           w == DrwW(OneByte(a))
           r == Rdbuff(<<>>)
           x == DrwR(<<>>)
           y == Rdbuff(<<a % 4>>)
<1>0. << >> \in Seq(Lane)
  OBVIOUS
<1>3. <<a % 4>> \in Seq(Lane)
  BY <1>1
<1>2. t \in Op /\ w \in Op /\ r \in Op /\ x \in Op /\ y \in Op
  BY <1>0, <1>3, OpTypes, DataTypes
<1> HIDE DEF t, w, r, x, y
<1>4. <<t, w, r>> \in Seq(Op) /\ <<t, x, y>> \in Seq(Op)
  BY <1>2
<1>5. /\ WriteCsw(1) \o <<t, w, r>> \in Seq(Op)
      /\ WriteCsw(1) \o <<t, x, y>> \in Seq(Op)
  BY <1>4, WriteCswScript, ConcatProperties
<1> QED
  BY <1>5 DEF swd_write_byte, swd_read_byte, t, w, r, x, y

LEMMA BlockScripts ==
  ASSUME NEW a \in Nat, NEW n \in Nat
  PROVE  swd_write_block(a, n) \in Seq(Op) /\ swd_read_block(a, n) \in Seq(Op)
<1> DEFINE m == n \div 4
           W == [i \in 1 .. m |-> DrwW(Word(a + 4 * (i - 1)))]
           R == [i \in 1 .. m - 1 |-> DrwR(<<0, 1, 2, 3>>)]
<1>1. m \in Nat
  OBVIOUS
<1>2. \A i \in 1 .. m : DrwW(Word(a + 4 * (i - 1))) \in Op
  <2> SUFFICES ASSUME NEW i \in 1 .. m PROVE DrwW(Word(a + 4 * (i - 1))) \in Op
    OBVIOUS
  <2>1. a + 4 * (i - 1) \in Nat
    BY <1>1
  <2> QED
    BY <2>1, DataTypes, OpTypes
<1> HIDE DEF m
<1>3. W \in Seq(Op)
  BY <1>1, <1>2, SeqDef
<1>4. <<0, 1, 2, 3>> \in Seq(Lane) /\ << >> \in Seq(Lane)
  BY DEF Lane
<1>5. R \in Seq(Op)
  <2> DEFINE e == DrwR(<<0, 1, 2, 3>>)
  <2>1. e \in Op
    BY <1>4, OpTypes
  <2> HIDE DEF e
  <2>2. PICK k \in Nat : 1 .. m - 1 = 1 .. k
    <3>1. CASE m = 0
      <4>1. 1 .. m - 1 = 1 .. 0
        BY <3>1
      <4> QED
        BY <4>1
    <3>2. CASE m # 0
      <4>1. m - 1 \in Nat
        BY <1>1, <3>2
      <4> QED
        BY <4>1
    <3> QED
      BY <3>1, <3>2
  <2>3. [i \in 1 .. m - 1 |-> e] \in [1 .. k -> Op]
    BY <2>1, <2>2
  <2> DEFINE f == [i \in 1 .. m - 1 |-> e]
  <2> HIDE DEF f
  <2>4. f \in [1 .. k -> Op]
    BY <2>3 DEF f
  <2>5. f \in Seq(Op)
    BY <2>4, SeqDef
  <2> QED
    BY <2>5 DEF f, e
<1> DEFINE t == Tar(a)
           x == DrwR(<<>>)
           r == Rdbuff(<<>>)
           y == Rdbuff(<<0, 1, 2, 3>>)
<1>6. t \in Op /\ x \in Op /\ r \in Op /\ y \in Op
  BY <1>4, OpTypes
<1> HIDE DEF t, x, r, y, W, R
<1>7. <<t>> \in Seq(Op) /\ <<t, x>> \in Seq(Op) /\ <<r>> \in Seq(Op) /\ <<y>> \in Seq(Op)
  BY <1>6
<1>8. WriteCsw(4) \o <<t>> \o W \o <<r>> \in Seq(Op)
  BY <1>3, <1>7, WriteCswScript, ConcatProperties
<1>9. WriteCsw(4) \o <<t, x>> \o R \o <<y>> \in Seq(Op)
  BY <1>5, <1>7, WriteCswScript, ConcatProperties
<1> QED
  BY <1>8, <1>9 DEF swd_write_block, swd_read_block, m, W, R, t, x, r, y

\* A piece is not empty and ends within the range.
LEMMA PieceBounds ==
  ASSUME NEW a \in Nat, NEW s \in Nat \ {0}
  PROVE  PieceSize(a, s) \in Nat /\ PieceSize(a, s) <= s
<1>1. a % Page \in Nat /\ a % Page <= Page /\ Page \in Nat
  BY PageAssumption
<1>2. s % 4 \in Nat /\ s - (s % 4) \in Nat /\ s - (s % 4) <= s
  OBVIOUS
<1> QED
  BY <1>1, <1>2 DEF PieceSize

-----------------------------------------------------------------------------
(* The initial state and the actions that start, continue and end a call. *)

LEMMA CacheInit == Init => CacheInv
<1> SUFFICES ASSUME Init PROVE CacheInv
  OBVIOUS
<1>1. CacheType /\ CallType /\ CacheCoherent
  BY DEF Init, CacheType, CallType, CacheCoherent
<1>2. PortType
  BY DEF Init, PortType
<1>3. ScriptType
  BY DEF Init, ScriptType, Starting
<1> QED
  BY <1>1, <1>2, <1>3 DEF CacheInv

\* A call that begins leaves SELECT, CSW and the sticky error alone.
LEMMA PortMem ==
  ASSUME PortType, port' = [port EXCEPT !.mem = Before]
  PROVE  PortType' /\ port'.select = port.select /\ port'.csw = port.csw /\ port'.sticky = port.sticky
BY DEF PortType

LEMMA CacheCallInit == CacheInv /\ CallInit => CacheInv'
<1> SUFFICES ASSUME CacheInv, CallInit PROVE CacheInv'
  OBVIOUS
<1>1. PortType'
  BY PortMem DEF CacheInv, CallInit
<1>2. CacheType' /\ CallType' /\ CacheCoherent'
  BY DEF CallInit, CacheType, CallType, CacheCoherent
<1>3. ScriptType'
  BY DEF CallInit, ScriptType, Starting
<1> QED
  BY <1>1, <1>2, <1>3 DEF CacheInv

LEMMA CacheCallMemory ==
  ASSUME CacheInv, NEW op \in {"write", "read"}, NEW r \in Ranges, CallMemory(op, r)
  PROVE  CacheInv'
<1>1. /\ PortType' /\ port'.select = port.select
      /\ port'.csw = port.csw /\ port'.sticky = port.sticky
  BY PortMem DEF CacheInv, CallMemory
<1>2. CacheType' /\ CacheCoherent'
  BY <1>1 DEF CacheInv, CallMemory, CacheType, CacheCoherent
<1>3. r.addr \in Nat /\ r.size \in Nat
  BY RangesAssumption
<1>4. CallType'
  BY <1>3 DEF CallMemory, CallType
<1>5. ScriptType'
  BY DEF CacheInv, CallMemory, ScriptType, Starting
<1> QED
  BY <1>1, <1>2, <1>4, <1>5 DEF CacheInv

LEMMA CacheNextPiece == CacheInv /\ NextPiece => CacheInv'
<1> SUFFICES ASSUME CacheInv, NextPiece PROVE CacheInv'
  OBVIOUS
<1> DEFINE a == call.addr + call.done
           s == call.size - call.done
           n == PieceSize(a, s)
<1>1. /\ call.op \in {"init", "write", "read"} /\ call.addr \in Nat /\ call.size \in Nat
      /\ call.done \in Nat /\ call.done < call.size
  BY DEF CacheInv, CallType, NextPiece
<1>2. a \in Nat /\ s \in Nat \ {0}
  BY <1>1
<1>3. n \in Nat /\ n <= s
  BY <1>2, PieceBounds
<1>4. /\ script' = IF call.op = "write"
                   THEN IF IsBlock(a, s) THEN swd_write_block(a, n) ELSE swd_write_byte(a)
                   ELSE IF IsBlock(a, s) THEN swd_read_block(a, n) ELSE swd_read_byte(a)
      /\ call' = [call EXCEPT !.done = @ + n]
  BY DEF NextPiece
<1>5. UNCHANGED <<dap_state, port, busy>>
  BY DEF NextPiece
<1> HIDE DEF a, n
<1>6. ScriptType'
  BY <1>2, <1>3, <1>4, <1>5, ByteScripts, BlockScripts DEF CacheInv, ScriptType
<1>7. CallType'
  BY <1>1, <1>3, <1>4 DEF CacheInv, CallType
<1> QED
  BY <1>5, <1>6, <1>7 DEF CacheInv, CacheType, PortType, CacheCoherent

LEMMA CacheReturn == CacheInv /\ Return => CacheInv'
<1> SUFFICES ASSUME CacheInv, Return PROVE CacheInv'
  OBVIOUS
<1>1. ScriptType'
  BY DEF CacheInv, Return, ScriptType, Starting
<1> QED
  BY <1>1 DEF CacheInv, Return, CacheType, PortType, CallType, CacheCoherent

-----------------------------------------------------------------------------
(* The transfers.                                                          *)

\* What follows a transfer is a script.
LEMMA ScriptParts ==
  ASSUME CacheInv, script # <<>>, Next1.k # "idcode", Next1.k # "abort"
  PROVE  Next1 \in Op /\ Rest \in Seq(Op)
<1>1. script \in Seq(Op)
  BY InitScript DEF CacheInv, ScriptType, Starting, Next1
<1> QED
  BY <1>1 DEF Next1, Rest

LEMMA GoFail ==
  ASSUME NEW rest \in Seq(Op), Go(rest) \/ Fail, busy \in BOOLEAN
  PROVE  ScriptType'
<1>1. script' = rest \/ script' = << >>
  BY Zenon DEF Go, Fail
<1>2. busy' = busy \/ busy' = FALSE
  BY Zenon DEF Go, Fail
<1>3. busy' \in BOOLEAN
  BY <1>2
<1> QED
  <2>1. script' \in Seq(Op)
    <3>1. << >> \in Seq(Op)
      OBVIOUS
    <3> QED
      BY <1>1, <3>1, Zenon
  <2> QED
    BY <2>1, <1>3 DEF ScriptType

\* A transfer performs its effect, or sets the sticky error, or is refused.
LEMMA TransferCases ==
  ASSUME CacheInv, busy, "refused" \notin Faults, NEW p, NEW rest \in Seq(Op), Transfer(p, rest)
  PROVE  /\ ScriptType'
         /\ \/ port.sticky /\ port' = port
            \/ port' = p
            \/ port' = [port EXCEPT !.sticky = TRUE]
<1>1. busy \in BOOLEAN
  BY DEF CacheInv, ScriptType
<1>2. Go(rest) \/ Fail
  BY DEF Transfer
<1>3. ScriptType'
  BY <1>1, <1>2, GoFail
<1> QED
  BY <1>3 DEF Transfer, Fault

LEMMA PortSticky ==
  ASSUME PortType, port' = [port EXCEPT !.sticky = TRUE]
  PROVE  PortType' /\ port'.sticky
BY DEF PortType

\* A transfer that leaves SELECT, CSW and the sticky error alone, and a cache
\* that stays as it is.
LEMMA PlainTransfer ==
  ASSUME CacheInv, busy, "refused" \notin Faults, NEW p, NEW rest \in Seq(Op), Transfer(p, rest),
         DOMAIN p = DOMAIN port, p.select = port.select, p.csw = port.csw, p.sticky = port.sticky,
         UNCHANGED <<dap_state, call>>
  PROVE  CacheInv'
<1>1. ScriptType' /\ (port' = port \/ port' = p \/ port' = [port EXCEPT !.sticky = TRUE])
  BY TransferCases
<1>2. PortType' /\ CacheCoherent'
  <2>1. CASE port' = port
    BY <2>1 DEF CacheInv, PortType, CacheCoherent
  <2>2. CASE port' = p
    BY <2>2 DEF CacheInv, PortType, CacheCoherent
  <2>3. CASE port' = [port EXCEPT !.sticky = TRUE]
    BY <2>3, PortSticky DEF CacheInv, CacheCoherent
  <2> QED
    BY <1>1, <2>1, <2>2, <2>3
<1> QED
  BY <1>1, <1>2 DEF CacheInv, CacheType, CallType

LEMMA CacheWriteSelect == CacheInv /\ "refused" \notin Faults /\ WriteSelect => CacheInv'
<1> SUFFICES ASSUME CacheInv, "refused" \notin Faults, WriteSelect PROVE CacheInv'
  OBVIOUS
<1>1. busy /\ Rest \in Seq(Op) /\ Next1 \in Op /\ Next1.k = "select"
  BY ScriptParts DEF WriteSelect, Doing
<1>2. Next1.v = "b0"
  BY <1>1 DEF Op
<1>3. call' = call
  BY DEF WriteSelect
<1>4. CASE dap_state.select = Next1.v
  <2>1. Go(Rest) /\ UNCHANGED <<dap_state, port>>
    BY <1>4 DEF WriteSelect
  <2>2. ScriptType'
    BY <1>1, <2>1, GoFail DEF CacheInv, ScriptType
  <2> QED
    BY <1>3, <2>1, <2>2 DEF CacheInv, CacheType, PortType, CallType, CacheCoherent
<1>5. CASE dap_state.select # Next1.v
  <2> DEFINE p == [port EXCEPT !.select = Next1.v]
  <2>1. /\ Transfer(p, Rest)
        /\ dap_state' = IF busy' THEN [dap_state EXCEPT !.select = Next1.v] ELSE dap_state
    BY <1>5 DEF WriteSelect
  <2>2. /\ ScriptType'
        /\ (port.sticky /\ port' = port) \/ port' = p \/ port' = [port EXCEPT !.sticky = TRUE]
    BY <1>1, <2>1, TransferCases
  <2>3. dap_state' = [dap_state EXCEPT !.select = "b0"] \/ dap_state' = dap_state
    BY <1>2, <2>1
  <2>4. dap_state.select = "none"
    BY <1>2, <1>5 DEF CacheInv, CacheType
  <2>5. CacheType' /\ dap_state'.csw = dap_state.csw /\ dap_state'.select \in {"none", "b0"}
    BY <2>3 DEF CacheInv, CacheType
  <2>6. PortType' /\ CacheCoherent'
    <3>1. CASE port.sticky /\ port' = port
      BY <3>1 DEF CacheInv, PortType, CacheCoherent
    <3>2. CASE port' = p
      BY <3>2, <1>2, <2>5 DEF CacheInv, PortType, CacheCoherent
    <3>3. CASE port' = [port EXCEPT !.sticky = TRUE]
      BY <3>3, PortSticky DEF CacheInv, CacheCoherent
    <3> QED
      BY <2>2, <3>1, <3>2, <3>3
  <2> QED
    BY <1>3, <2>2, <2>5, <2>6 DEF CacheInv, CallType
<1> QED
  BY <1>4, <1>5

LEMMA CacheWriteApCsw == CacheInv /\ "refused" \notin Faults /\ WriteApCsw => CacheInv'
<1> SUFFICES ASSUME CacheInv, "refused" \notin Faults, WriteApCsw PROVE CacheInv'
  OBVIOUS
<1>1. busy /\ Rest \in Seq(Op) /\ Next1 \in Op /\ Next1.k = "csw"
  BY ScriptParts DEF WriteApCsw, Doing
<1>2. Next1.v \in Sizes
  BY <1>1 DEF Op
<1>3. call' = call
  BY DEF WriteApCsw
<1>4. CASE dap_state.csw = Next1.v
  <2>1. Go(Rest) /\ UNCHANGED <<dap_state, port>>
    BY <1>4 DEF WriteApCsw
  <2>2. ScriptType'
    BY <1>1, <2>1, GoFail DEF CacheInv, ScriptType
  <2> QED
    BY <1>3, <2>1, <2>2 DEF CacheInv, CacheType, PortType, CallType, CacheCoherent
<1>5. CASE dap_state.csw # Next1.v
  <2> DEFINE p == [port EXCEPT !.csw = Next1.v]
             b == <<Rdbuff(<<>>)>> \o Rest
  <2>1. dap_state' = [dap_state EXCEPT !.csw = Next1.v] /\ Transfer(p, b)
    BY <1>5 DEF WriteApCsw
  <2>2. b \in Seq(Op)
    <3>1. Rdbuff(<<>>) \in Op
      <4>1. << >> \in Seq(Lane)
        OBVIOUS
      <4> QED
        BY <4>1, OpTypes
    <3>2. <<Rdbuff(<<>>)>> \in Seq(Op)
      BY <3>1
    <3> QED
      BY <1>1, <3>2, ConcatProperties
  <2>3. /\ ScriptType'
        /\ (port.sticky /\ port' = port) \/ port' = p \/ port' = [port EXCEPT !.sticky = TRUE]
    <3> HIDE DEF p, b
    <3> QED
      BY <1>1, <2>1, <2>2, TransferCases
  <2>4. CacheType' /\ dap_state'.csw = Next1.v /\ dap_state'.select = dap_state.select
    BY <1>2, <2>1 DEF CacheInv, CacheType
  <2>5. PortType' /\ CacheCoherent'
    <3>1. CASE port.sticky /\ port' = port
      BY <3>1 DEF CacheInv, PortType, CacheCoherent
    <3>2. CASE port' = p
      BY <3>2, <2>4 DEF CacheInv, PortType, CacheCoherent
    <3>3. CASE port' = [port EXCEPT !.sticky = TRUE]
      BY <3>3, PortSticky DEF CacheInv, CacheCoherent
    <3> QED
      BY <2>3, <3>1, <3>2, <3>3
  <2> QED
    BY <1>3, <2>3, <2>4, <2>5 DEF CacheInv, CallType
<1> QED
  BY <1>4, <1>5

LEMMA CacheWriteTar == CacheInv /\ "refused" \notin Faults /\ WriteTar => CacheInv'
<1> SUFFICES ASSUME CacheInv, "refused" \notin Faults, WriteTar PROVE CacheInv'
  OBVIOUS
<1> DEFINE p == [port EXCEPT !.tar = Next1.v]
<1>1. busy /\ Rest \in Seq(Op)
  BY ScriptParts DEF WriteTar, Doing
<1>2. Transfer(p, Rest) /\ UNCHANGED <<dap_state, call>>
  BY DEF WriteTar
<1>3. DOMAIN p = DOMAIN port /\ p.select = port.select /\ p.csw = port.csw /\ p.sticky = port.sticky
  BY DEF CacheInv, PortType
<1> HIDE DEF p
<1> QED
  BY <1>1, <1>2, <1>3, PlainTransfer

\* The MEM-AP leaves SELECT, CSW and the sticky error alone.
LEMMA AccessPlain ==
  ASSUME PortType, NEW d
  PROVE  /\ DOMAIN Written(port, d) = DOMAIN port /\ Written(port, d).select = port.select
         /\ Written(port, d).csw = port.csw /\ Written(port, d).sticky = port.sticky
         /\ DOMAIN ReadOut(port) = DOMAIN port /\ ReadOut(port).select = port.select
         /\ ReadOut(port).csw = port.csw /\ ReadOut(port).sticky = port.sticky
<1> DEFINE q == Increment(port)
<1>1. DOMAIN q = DOMAIN port /\ q.select = port.select /\ q.csw = port.csw /\ q.sticky = port.sticky
  BY DEF PortType, Increment
<1> HIDE DEF q
<1>2. \A m : LET w == [q EXCEPT !.mem = m] IN
        /\ DOMAIN w = DOMAIN port /\ w.select = port.select
        /\ w.csw = port.csw /\ w.sticky = port.sticky
  BY <1>1 DEF PortType
<1>3. \A m : LET w == [q EXCEPT !.rd = m] IN
        /\ DOMAIN w = DOMAIN port /\ w.select = port.select
        /\ w.csw = port.csw /\ w.sticky = port.sticky
  BY <1>1 DEF PortType
<1>4. \E m : Written(port, d) = [q EXCEPT !.mem = m]
  BY Zenon DEF Written, q
<1>5. \E m : ReadOut(port) = [q EXCEPT !.rd = m]
  BY Zenon DEF ReadOut, q
<1> QED
  BY <1>2, <1>3, <1>4, <1>5

LEMMA CacheDrw == CacheInv /\ "refused" \notin Faults /\ (WriteDrw \/ ReadDrw) => CacheInv'
<1> SUFFICES ASSUME CacheInv, "refused" \notin Faults, WriteDrw \/ ReadDrw PROVE CacheInv'
  OBVIOUS
<1>1. busy /\ Rest \in Seq(Op)
  BY ScriptParts DEF WriteDrw, ReadDrw, Doing
<1>2. PortType
  BY DEF CacheInv
<1>3. CASE WriteDrw
  <2> DEFINE p == Written(port, Next1.d)
  <2>1. Transfer(p, Rest) /\ UNCHANGED <<dap_state, call>>
    BY <1>3 DEF WriteDrw
  <2>2. DOMAIN p = DOMAIN port /\ p.select = port.select /\ p.csw = port.csw /\ p.sticky = port.sticky
    BY <1>2, AccessPlain
  <2> HIDE DEF p
  <2> QED
    BY <1>1, <2>1, <2>2, PlainTransfer
<1>4. CASE ReadDrw
  <2> DEFINE p == ReadOut(port)
  <2>1. Transfer(p, Rest) /\ UNCHANGED <<dap_state, call>>
    BY <1>4 DEF ReadDrw
  <2>2. DOMAIN p = DOMAIN port /\ p.select = port.select /\ p.csw = port.csw /\ p.sticky = port.sticky
    BY <1>2, AccessPlain
  <2> HIDE DEF p
  <2> QED
    BY <1>1, <2>1, <2>2, PlainTransfer
<1> QED
  BY <1>3, <1>4

LEMMA CacheCtrl == CacheInv /\ "refused" \notin Faults /\ WriteCtrl => CacheInv'
<1> SUFFICES ASSUME CacheInv, "refused" \notin Faults, WriteCtrl PROVE CacheInv'
  OBVIOUS
<1>1. busy /\ Rest \in Seq(Op)
  BY ScriptParts DEF WriteCtrl, Doing
<1>2. Transfer(port, Rest) /\ UNCHANGED <<dap_state, call>>
  BY DEF WriteCtrl
<1> QED
  BY <1>1, <1>2, PlainTransfer

LEMMA CacheReadRdbuff == CacheInv /\ ReadRdbuff => CacheInv'
<1> SUFFICES ASSUME CacheInv, ReadRdbuff PROVE CacheInv'
  OBVIOUS
<1>1. busy /\ Rest \in Seq(Op)
  BY ScriptParts DEF ReadRdbuff, Doing
<1>2. UNCHANGED <<dap_state, port, call>>
  BY DEF ReadRdbuff, Answered
<1>3. Go(Rest) \/ Fail
  BY Zenon DEF ReadRdbuff, Answered
<1>4. ScriptType'
  BY <1>1, <1>3, GoFail DEF CacheInv, ScriptType
<1> QED
  BY <1>2, <1>4 DEF CacheInv, CacheType, PortType, CallType, CacheCoherent

\* IDCODE and ABORT are transferred only by swd_init_debug.
LEMMA StartingParts ==
  ASSUME CacheInv, busy, script # <<>>
  PROVE  /\ Next1.k = "idcode" => /\ script = swd_init_debug /\ Starting
                                  /\ Rest = Tail(swd_init_debug)
         /\ Next1.k = "abort"  => Starting /\ Rest \in Seq(Op)
<1>1. CASE script \in Seq(Op)
  <2>1. Next1 \in Op
    BY <1>1 DEF Next1
  <2> QED
    BY <2>1 DEF Op
<1>2. CASE Starting
  BY <1>2, InitScript DEF Starting, Next1, Rest
<1> QED
  BY <1>1, <1>2 DEF CacheInv, ScriptType

LEMMA CacheReadIdcode == CacheInv /\ ReadIdcode => CacheInv'
<1> SUFFICES ASSUME CacheInv, ReadIdcode PROVE CacheInv'
  OBVIOUS
<1>1. Starting /\ Rest = Tail(swd_init_debug)
  BY StartingParts DEF ReadIdcode, Doing
<1>2. UNCHANGED <<dap_state, port, call>>
  BY DEF ReadIdcode, Answered
<1>3. Go(Rest) \/ Fail
  BY Zenon DEF ReadIdcode, Answered
<1>4. ScriptType'
  <2>1. CASE Fail
    <3>1. << >> \in Seq(Op)
      OBVIOUS
    <3> QED
      BY <2>1, <3>1, GoFail DEF CacheInv, ScriptType
  <2>2. CASE Go(Rest)
    BY <1>1, <1>2, <2>2 DEF CacheInv, ScriptType, Starting, Go
  <2> QED
    BY <1>3, <2>1, <2>2
<1> QED
  BY <1>2, <1>4 DEF CacheInv, CacheType, PortType, CallType, CacheCoherent

LEMMA CacheWriteAbort == CacheInv /\ "refused" \notin Faults /\ WriteAbort => CacheInv'
<1> SUFFICES ASSUME CacheInv, "refused" \notin Faults, WriteAbort PROVE CacheInv'
  OBVIOUS
<1>1. Starting /\ Rest \in Seq(Op)
  BY StartingParts DEF WriteAbort, Doing
<1>2. UNCHANGED <<dap_state, call>>
  BY DEF WriteAbort
<1>3. Go(Rest) \/ Fail
  BY Zenon DEF WriteAbort
<1>4. ScriptType'
  BY <1>1, <1>3, GoFail DEF CacheInv, ScriptType
<1>5. port' = [port EXCEPT !.sticky = FALSE] \/ port' = [port EXCEPT !.sticky = TRUE]
  BY DEF WriteAbort, Fault
<1>6. PortType'
  BY <1>5 DEF CacheInv, PortType
<1>7. CacheCoherent'
  BY <1>1, <1>2 DEF Starting, CacheCoherent
<1> QED
  BY <1>2, <1>4, <1>6, <1>7 DEF CacheInv, CacheType, CallType

-----------------------------------------------------------------------------
LEMMA CacheNext == "refused" \notin Faults /\ CacheInv /\ [Next]_vars => CacheInv'
<1> SUFFICES ASSUME "refused" \notin Faults, CacheInv, [Next]_vars PROVE CacheInv'
  OBVIOUS
<1>1. CASE CallInit
  BY <1>1, CacheCallInit
<1>2. CASE \E op \in {"write", "read"}, r \in Ranges : CallMemory(op, r)
  BY <1>2, CacheCallMemory
<1>3. CASE NextPiece
  BY <1>3, CacheNextPiece
<1>4. CASE Return
  BY <1>4, CacheReturn
<1>5. CASE WriteSelect
  BY <1>5, CacheWriteSelect
<1>6. CASE WriteApCsw
  BY <1>6, CacheWriteApCsw
<1>7. CASE WriteTar
  BY <1>7, CacheWriteTar
<1>8. CASE WriteDrw \/ ReadDrw
  BY <1>8, CacheDrw
<1>9. CASE ReadRdbuff
  BY <1>9, CacheReadRdbuff
<1>10. CASE ReadIdcode
  BY <1>10, CacheReadIdcode
<1>11. CASE WriteAbort
  BY <1>11, CacheWriteAbort
<1>12. CASE WriteCtrl
  BY <1>12, CacheCtrl
<1>13. CASE UNCHANGED vars
  <2>1. ScriptType'
    BY <1>13 DEF CacheInv, ScriptType, Starting, vars
  <2> QED
    BY <1>13, <2>1 DEF CacheInv, CacheType, PortType, CallType, CacheCoherent, vars
<1> QED
  BY <1>1, <1>2, <1>3, <1>4, <1>5, <1>6, <1>7, <1>8, <1>9, <1>10, <1>11, <1>12, <1>13 DEF Next

\* What the cache of SELECT and CSW says is so, or the target refuses every
\* access, for every memory, page, set of ranges and number of faults, when a
\* transfer that is not performed is never left unacknowledged (swd_host.c:221
\* sets the cache before it knows).
THEOREM CacheCorrect ==
  ASSUME "refused" \notin Faults
  PROVE  Spec => []CacheCoherent
<1>1. Init => CacheInv
  BY CacheInit
<1>2. CacheInv /\ [Next]_vars => CacheInv'
  BY CacheNext
<1>3. CacheInv => CacheCoherent
  BY DEF CacheInv
<1> QED
  BY <1>1, <1>2, <1>3, PTL DEF Spec

-----------------------------------------------------------------------------
(* Memory.                                                                 *)

\* A piece of a transfer: m accesses of w bytes, from address a on.  At is the
\* address of access j (from 0).
At(a, w, j)   == IF w = 4 THEN a + 4 * j ELSE a + j
Data(a, w)    == IF w = 4 THEN Word(a) ELSE OneByte(a)
Lanes(a, w)   == IF w = 4 THEN <<0, 1, 2, 3>> ELSE <<a % 4>>
Keep(a, w, j) == IF j = 0 THEN <<>> ELSE Lanes(a, w)

\* Its transfers, once TAR is written and j accesses are made.
Body(op, a, w, m, j) ==
  [i \in 1 .. (m - j) + 1 |->
     IF op = "write" THEN IF i <= m - j THEN DrwW(Data(At(a, w, j + i - 1), w)) ELSE Rdbuff(<<>>)
     ELSE IF i <= m - j THEN DrwR(Keep(a, w, j + i - 1)) ELSE Rdbuff(Keep(a, w, j + i - 1))]
FromTar(op, a, w, m) == <<Tar(a)>> \o Body(op, a, w, m, 0)

\* The memory, and the bytes read, when call c has come to address x.
Upto(c, x)  == [b \in Addr |-> IF c.op = "write" /\ c.addr <= b /\ b < x THEN New(b) ELSE Old(b)]
Taken(c, x) == IF c.op = "read" THEN [i \in 1 .. x - c.addr |-> Old(c.addr + i - 1)] ELSE <<>>

\* A piece ends where call.done says, and is in one page of the MEM-AP.
Piece(a, w, m) ==
  /\ call.addr <= a /\ At(a, w, m) = call.addr + call.done
  /\ IF w = 4 THEN a % 4 = 0 /\ (a % TargetPage) + 4 * m <= TargetPage ELSE m = 1

\* Before TAR is written.
Setting(a, w, m) ==
  LET T == FromTar(call.op, a, w, m)
  IN /\ \/ script = WriteCsw(w) \o T \/ script = <<Csw(w)>> \o T
        \/ (script = <<Rdbuff(<<>>)>> \o T \/ script = T) /\ dap_state.csw = w
     /\ port.mem = Upto(call, a) /\ got = Taken(call, a)

\* The target after j accesses: TAR, memory, and the bytes read, but for those
\* of the last access, which are in its buffer.
Stage(a, w, m, j) ==
  /\ j < m => port.tar = At(a, w, j)
  /\ port.mem = Upto(call, At(a, w, j))
  /\ got = Taken(call, IF j = 0 THEN a ELSE At(a, w, j - 1))
  /\ call.op = "read" /\ j > 0 =>
       \A l \in Lane : w = 4 \/ l = a % 4 => port.rd[l] = Old(IF w = 4 THEN At(a, w, j - 1) + l ELSE a)

Moving(a, w, m, j) ==
  /\ script = Body(call.op, a, w, m, j) /\ dap_state.csw = w
  /\ port.sticky \/ Stage(a, w, m, j)

\* Between two pieces everything before is done.
Done(x) == script = <<>> /\ port.mem = Upto(call, x) /\ got = Taken(call, x)

InitOp == [k : {"select"}, v : {"b0"}] \cup [k : {"idcode", "abort", "ctrl"}]

\* What holds of the state by itself, and where a call is.
Safe  == TypeOK /\ Confined /\ call.addr + call.size <= MemSize
Where ==
  /\ ~busy => script = <<>>
  /\ ~busy /\ ret /\ call.op # "init" => Done(call.addr + call.size)
  /\ call.op = "init" => call.size = 0 /\ (busy => script \in Seq(InitOp))
  /\ busy /\ call.op # "init" =>
       \/ Done(call.addr + call.done)
       \/ \E a \in Nat, w \in Sizes, m \in Nat \ {0} :
            Piece(a, w, m) /\ (Setting(a, w, m) \/ \E j \in 0 .. m : Moving(a, w, m, j))

MemInv == Safe /\ Where

-----------------------------------------------------------------------------
(* Quotients and remainders: a block is in one page of the MEM-AP.          *)

LEMMA DivMod ==
  ASSUME NEW a \in Nat, NEW n \in Nat \ {0}
  PROVE  a \div n \in Nat /\ a % n \in 0 .. n - 1 /\ a = n * (a \div n) + (a % n)
OBVIOUS

LEMMA Mult ==
  ASSUME NEW n \in Nat \ {0}, NEW q \in Int, NEW p \in Int, q < p
  PROVE  n * q + n <= n * p /\ n * q \in Int /\ n * p \in Int
OBVIOUS

LEMMA DivUnique ==
  ASSUME NEW n \in Nat \ {0}, NEW q \in Nat, NEW p \in Nat, NEW r \in 0 .. n - 1, NEW s \in 0 .. n - 1,
         n * q + r = n * p + s
  PROVE  q = p /\ r = s
<1>1. ~(q < p)
  <2> SUFFICES ASSUME q < p PROVE FALSE
    OBVIOUS
  <2>1. n * q + n <= n * p /\ n * q \in Int /\ n * p \in Int
    BY Mult
  <2> QED
    BY <2>1
<1>2. ~(p < q)
  <2> SUFFICES ASSUME p < q PROVE FALSE
    OBVIOUS
  <2>1. n * p + n <= n * q /\ n * q \in Int /\ n * p \in Int
    BY Mult
  <2> QED
    BY <2>1
<1>3. q = p
  BY <1>1, <1>2
<1>4. n * q \in Int
  OBVIOUS
<1> QED
  BY <1>3, <1>4

\* Where a multiple of n of at most m ends, for a multiple m of n.
LEMMA InMultiple ==
  ASSUME NEW n \in Nat \ {0}, NEW m \in Nat, m % n = 0, NEW a \in Nat, a < m
  PROVE  (a - (a % n)) + n <= m
<1> DEFINE q == a \div n
           p == m \div n
           r == a % n
<1>1. q \in Nat /\ r \in 0 .. n - 1 /\ a = n * q + r
  BY DivMod
<1>2. p \in Nat /\ m = n * p + 0
  BY DivMod
<1> HIDE DEF q, p, r
<1>3. n * q \in Nat /\ n * p \in Nat
  BY <1>1, <1>2
<1>4. q < p
  <2> SUFFICES ASSUME p <= q PROVE FALSE
    BY <1>1, <1>2
  <2>1. CASE p = q
    BY <1>1, <1>2, <1>3, <2>1
  <2>2. CASE p < q
    <3>1. n * p + n <= n * q
      BY <1>1, <1>2, <2>2, Mult
    <3> QED
      BY <1>1, <1>2, <1>3, <3>1
  <2> QED
    BY <1>1, <1>2, <2>1, <2>2
<1>5. n * q + n <= n * p
  BY <1>1, <1>2, <1>4, Mult
<1>6. (a - r) + n <= m
  BY <1>1, <1>2, <1>3, <1>5
<1> QED
  BY <1>6 DEF r

\* The remainder by n of a remainder by a multiple of n.
LEMMA ModMod ==
  ASSUME NEW n \in Nat \ {0}, NEW m \in Nat \ {0}, m % n = 0, NEW a \in Nat
  PROVE  (a % m) % n = a % n
<1> DEFINE t == m \div n
           k == a \div m
           b == a % m
           l == b \div n
           r == b % n
           q == a \div n
           s == a % n
<1>1. t \in Nat /\ m = n * t + 0
  BY DivMod
<1>2. k \in Nat /\ b \in Nat /\ a = m * k + b
  BY DivMod
<1>3. l \in Nat /\ r \in 0 .. n - 1 /\ b = n * l + r
  BY <1>2, DivMod
<1>4. q \in Nat /\ s \in 0 .. n - 1 /\ a = n * q + s
  BY DivMod
<1> HIDE DEF t, k, b, l, r, q, s
<1>5. m * k = n * (t * k) /\ t * k \in Nat
  BY <1>1, <1>2
<1> DEFINE u == t * k
<1>6. u \in Nat /\ m * k = n * u
  BY <1>5
<1> HIDE DEF u
<1>7. n * (u + l) = n * u + n * l /\ n * u \in Nat /\ n * l \in Nat /\ u + l \in Nat
  BY <1>3, <1>6
<1> DEFINE v == u + l
<1>8. v \in Nat /\ n * v + r = n * q + s
  BY <1>2, <1>3, <1>4, <1>6, <1>7
<1> HIDE DEF v
<1>9. r = s
  BY <1>3, <1>4, <1>8, DivUnique
<1> QED
  BY <1>9 DEF r, s, b

LEMMA Sized ==
  /\ MemSize \in Nat \ {0} /\ Page \in Nat \ {0} /\ TargetPage \in Nat \ {0}
  /\ Page % 4 = 0 /\ TargetPage % Page = 0 /\ MemSize % TargetPage = 0
BY MemAssumption, PageAssumption

LEMMA WholeWords == MemSize % 4 = 0
<1> DEFINE k == 4
<1>1. k \in Nat \ {0} /\ Page % k = 0 /\ 0 % k = 0
  BY Sized
<1> HIDE DEF k
<1>2. TargetPage % k = 0
  <2>1. (TargetPage % Page) % k = TargetPage % k
    BY <1>1, Sized, ModMod
  <2> QED
    BY <1>1, <2>1, Sized
<1>3. MemSize % k = 0
  <2>1. (MemSize % TargetPage) % k = MemSize % k
    BY <1>1, <1>2, Sized, ModMod
  <2> QED
    BY <1>1, <2>1, Sized
<1> QED
  BY <1>3 DEF k

\* A block is not empty, of whole words, within its range and its page.
LEMMA BlockFits ==
  ASSUME NEW a \in Nat, NEW s \in Nat, IsBlock(a, s)
  PROVE  LET n == PieceSize(a, s)
             m == n \div 4
         IN m \in Nat \ {0} /\ n = 4 * m /\ n <= s /\ (a % TargetPage) + n <= TargetPage /\ a % 4 = 0
<1> DEFINE r == a % Page
           b == a % TargetPage
           d == Page - r
           n == PieceSize(a, s)
<1>1. a % 4 = 0 /\ s > 3
  BY DEF IsBlock
<1>2. r \in 0 .. Page - 1 /\ b \in 0 .. TargetPage - 1
  BY Sized, DivMod
<1>3. b % Page = r
  BY Sized, ModMod
<1>4. (b - r) + Page <= TargetPage
  BY <1>2, <1>3, Sized, InMultiple
<1>5. r % 4 = 0
  <2> DEFINE k == 4
  <2>1. k \in Nat \ {0} /\ Page % k = 0 /\ a % k = 0
    BY <1>1, Sized
  <2> HIDE DEF k
  <2>2. (a % Page) % k = 0
    BY <2>1, Sized, ModMod
  <2> QED
    BY <2>2 DEF k
<1>6. n = IF s < d THEN s - (s % 4) ELSE d
  BY <1>1 DEF PieceSize, IsBlock
<1> HIDE DEF r, b, n
<1>7. d % 4 = 0 /\ d > 0
  BY <1>2, <1>5, Sized
<1>8. n % 4 = 0 /\ n > 0 /\ n <= s /\ n <= d /\ n \in Nat
  BY <1>1, <1>2, <1>6, <1>7, Sized
<1>9. b + n <= TargetPage
  BY <1>2, <1>4, <1>8, Sized
<1>10. n \div 4 \in Nat \ {0} /\ n = 4 * (n \div 4)
  BY <1>8
<1> QED
  BY <1>1, <1>8, <1>9, <1>10 DEF b, n

\* TAR after an access of w bytes.
Bumped(t, w) == (t - (t % TargetPage)) + ((t + w) % TargetPage)

LEMMA BumpType == ASSUME NEW t \in Addr, NEW w \in Sizes PROVE Bumped(t, w) \in Addr
<1>1. t \in Nat /\ t < MemSize /\ w \in Nat
  BY Sized DEF Addr, Sizes
<1>2. (t - (t % TargetPage)) + TargetPage <= MemSize
  BY <1>1, Sized, InMultiple
<1> DEFINE r == t % TargetPage
           s == (t + w) % TargetPage
           u == t + w
<1>3. u \in Nat
  BY <1>1
<1>4. u % TargetPage \in 0 .. TargetPage - 1
  BY <1>3, Sized, DivMod
<1>5. s \in 0 .. TargetPage - 1
  BY <1>4
<1>6. r \in 0 .. TargetPage - 1 /\ t = TargetPage * (t \div TargetPage) + r
  BY <1>1, Sized, DivMod
<1>7. r <= t
  BY <1>1, <1>6, Sized
<1> HIDE DEF r, s
<1>8. (t - r) + TargetPage <= MemSize
  BY <1>2 DEF r
<1>9. (t - r) + s \in 0 .. MemSize - 1
  BY <1>1, <1>5, <1>6, <1>7, <1>8, Sized
<1> QED
  BY <1>9 DEF Bumped, Addr, r, s

LEMMA BumpInPage ==
  ASSUME NEW t \in Nat, NEW w \in Nat, (t % TargetPage) + w < TargetPage
  PROVE  Bumped(t, w) = t + w
<1> DEFINE n == TargetPage
           q == t \div n
           r == t % n
           u == t + w
           p == u \div n
           s == u % n
<1>1. q \in Nat /\ r \in 0 .. n - 1 /\ t = n * q + r
  BY Sized, DivMod
<1>2. u \in Nat
  OBVIOUS
<1>3. p \in Nat /\ s \in 0 .. n - 1 /\ u = n * p + s
  BY <1>2, Sized, DivMod
<1>4. r + w < n /\ n \in Nat \ {0}
  BY Sized
<1>5. Bumped(t, w) = (t - r) + s /\ u = t + w
  BY DEF Bumped
<1> HIDE DEF n, q, r, u, p, s
<1>6. n * q \in Nat /\ n * p \in Nat
  BY <1>1, <1>3, <1>4
<1> DEFINE v == r + w
<1>7. v \in 0 .. n - 1 /\ n * q + v = n * p + s
  BY <1>1, <1>3, <1>4, <1>5, <1>6
<1> HIDE DEF v
<1>8. s = v
  BY <1>1, <1>3, <1>4, <1>7, DivUnique
<1>9. s = r + w
  BY <1>8 DEF v
<1> QED
  BY <1>1, <1>5, <1>6, <1>9

-----------------------------------------------------------------------------
(* The transfers of a piece, one after the other.                          *)

\* What Script is a sequence of.
Xfer == [k : {"select"}, v : {"b0"}] \cup [k : {"csw"}, v : Sizes]
        \cup [k : {"tar"}, v : Addr] \cup [k : {"drww"}, d : [Lane -> Byte]]
        \cup [k : {"drwr", "rdbuff"}, keep : Seq(Lane)]
        \cup [k : {"idcode", "abort", "ctrl"}]

LEMMA XferTypes ==
  /\ Script = Seq(Xfer)
  /\ Select("b0") \in Xfer /\ \A w \in Sizes : Csw(w) \in Xfer
  /\ \A a \in Addr : Tar(a) \in Xfer
  /\ \A d \in [Lane -> Byte] : DrwW(d) \in Xfer
  /\ \A s \in Seq(Lane) : DrwR(s) \in Xfer /\ Rdbuff(s) \in Xfer
BY DEF Script, Xfer, Select, Csw, Tar, DrwW, DrwR, Rdbuff

\* Where a piece may be.
Inside(a, w, m) ==
  /\ a \in Nat /\ w \in Sizes /\ m \in Nat \ {0} /\ At(a, w, m) <= MemSize
  /\ IF w = 4 THEN a % 4 = 0 ELSE m = 1

LEMMA AtFacts ==
  ASSUME NEW a, NEW w, NEW m, Inside(a, w, m), NEW j \in 0 .. m - 1
  PROVE  /\ At(a, w, j) \in Addr /\ At(a, w, j) + w = At(a, w, j + 1) /\ At(a, w, 0) = a
         /\ At(a, w, j + 1) <= At(a, w, m) /\ a <= At(a, w, j)
         /\ IF w = 4 THEN At(a, w, j) % 4 = 0 /\ At(a, w, j) + 3 \in Addr ELSE At(a, w, j) = a
<1>1. a \in Nat /\ m \in Nat \ {0} /\ j \in Nat /\ j < m /\ MemSize \in Nat
  BY Sized DEF Inside
<1>2. CASE w = 4
  <2>1. a + 4 * m <= MemSize /\ a % 4 = 0
    BY <1>2 DEF Inside, At
  <2> QED
    BY <1>1, <1>2, <2>1 DEF At, Addr
<1>3. CASE w = 1
  <2>1. a + 1 <= MemSize /\ m = 1
    BY <1>3 DEF Inside, At
  <2> QED
    BY <1>1, <1>3, <2>1 DEF At, Addr
<1> QED
  BY <1>2, <1>3 DEF Inside, Sizes

LEMMA DataType ==
  ASSUME NEW a, NEW w, NEW m, Inside(a, w, m), NEW j \in 0 .. m - 1
  PROVE  Data(At(a, w, j), w) \in [Lane -> Byte]
<1> DEFINE x == At(a, w, j)
<1>1. x \in Addr /\ (w = 4 => x + 3 \in Addr) /\ w \in Sizes
  BY AtFacts DEF Inside
<1> HIDE DEF x
<1>2. \A l \in Lane : w = 4 => x + l \in Addr
  BY <1>1, Sized DEF Addr, Lane
<1>3. Data(x, w) \in [Lane -> Byte]
  BY <1>1, <1>2 DEF Data, Word, OneByte, Byte
<1> QED
  BY <1>3 DEF x

LEMMA KeepType == ASSUME NEW a \in Nat, NEW w \in Sizes, NEW j PROVE Keep(a, w, j) \in Seq(Lane)
<1>1. a % 4 \in Lane /\ {0, 1, 2, 3} \subseteq Lane
  BY DEF Lane
<1>2. << >> \in Seq(Lane) /\ <<0, 1, 2, 3>> \in Seq(Lane)
  BY <1>1
<1>3. <<a % 4>> \in Seq(Lane)
  BY <1>1
<1> QED
  BY <1>2, <1>3 DEF Keep, Lanes

\* Access j, and the read of RDBUFF after the last.
Access(op, a, w, m, j) ==
  IF op = "write" THEN IF j < m THEN DrwW(Data(At(a, w, j), w)) ELSE Rdbuff(<<>>)
  ELSE IF j < m THEN DrwR(Keep(a, w, j)) ELSE Rdbuff(Keep(a, w, j))

LEMMA AccessType ==
  ASSUME NEW op, NEW a, NEW w, NEW m, Inside(a, w, m), NEW j \in 0 .. m
  PROVE  Access(op, a, w, m, j) \in Xfer
<1>1. m \in Nat /\ << >> \in Seq(Lane) /\ Keep(a, w, j) \in Seq(Lane)
  BY KeepType DEF Inside
<1>2. j < m => j \in 0 .. m - 1
  BY <1>1
<1>3. j < m => Data(At(a, w, j), w) \in [Lane -> Byte]
  BY <1>2, DataType
<1> QED
  BY <1>1, <1>3, XferTypes DEF Access

Listed(op, a, w, m, j) ==
  /\ Body(op, a, w, m, j) \in Seq(Xfer) /\ Len(Body(op, a, w, m, j)) = (m - j) + 1
  /\ \A i \in 1 .. (m - j) + 1 : Body(op, a, w, m, j)[i] = Access(op, a, w, m, j + i - 1)

LEMMA BodyFacts ==
  ASSUME NEW op, NEW a, NEW w, NEW m, Inside(a, w, m), NEW j \in 0 .. m + 1
  PROVE  Listed(op, a, w, m, j)
<1> DEFINE n == (m - j) + 1
           b == Body(op, a, w, m, j)
<1>1. m \in Nat \ {0} /\ n \in Nat
  BY DEF Inside
<1>2. b = [i \in 1 .. n |-> b[i]]
  BY DEF Body
<1>3. \A i \in 1 .. n : b[i] = Access(op, a, w, m, j + i - 1)
  <2> SUFFICES ASSUME NEW i \in 1 .. n PROVE b[i] = Access(op, a, w, m, j + i - 1)
    OBVIOUS
  <2>1. i <= m - j <=> j + i - 1 < m
    BY <1>1
  <2> QED
    BY <2>1 DEF Body, Access
<1>4. \A i \in 1 .. n : b[i] \in Xfer
  <2> SUFFICES ASSUME NEW i \in 1 .. n PROVE b[i] \in Xfer
    OBVIOUS
  <2>1. j + i - 1 \in 0 .. m
    BY <1>1
  <2> QED
    BY <1>3, <2>1, AccessType
<1> HIDE DEF b, n
<1>5. b \in [1 .. n -> Xfer]
  BY <1>2, <1>4
<1>6. b \in Seq(Xfer)
  BY <1>1, <1>5, SeqDef
<1>7. Len(b) = n
  BY <1>1, <1>5, <1>6, LenProperties
<1> QED
  BY <1>3, <1>6, <1>7 DEF b, n, Listed

Stepped(op, a, w, m, j) ==
  /\ Body(op, a, w, m, j) # <<>>
  /\ Head(Body(op, a, w, m, j)) = Access(op, a, w, m, j)
  /\ Tail(Body(op, a, w, m, j)) = Body(op, a, w, m, j + 1)
  /\ Body(op, a, w, m, m + 1) = <<>>

LEMMA BodyStep ==
  ASSUME NEW op, NEW a, NEW w, NEW m, Inside(a, w, m), NEW j \in 0 .. m
  PROVE  Stepped(op, a, w, m, j)
<1> DEFINE b == Body(op, a, w, m, j)
           c == Body(op, a, w, m, j + 1)
           z == Body(op, a, w, m, m + 1)
<1>1. m \in Nat \ {0} /\ j \in 0 .. m + 1 /\ j + 1 \in 0 .. m + 1 /\ m + 1 \in 0 .. m + 1
  BY DEF Inside
<1>0. Listed(op, a, w, m, j) /\ Listed(op, a, w, m, j + 1) /\ Listed(op, a, w, m, m + 1)
  BY <1>1, BodyFacts
<1>2. /\ b \in Seq(Xfer) /\ Len(b) = (m - j) + 1
      /\ \A i \in 1 .. (m - j) + 1 : b[i] = Access(op, a, w, m, j + i - 1)
  BY <1>0 DEF Listed
<1>3. /\ c \in Seq(Xfer) /\ Len(c) = (m - (j + 1)) + 1
      /\ \A i \in 1 .. (m - (j + 1)) + 1 : c[i] = Access(op, a, w, m, (j + 1) + i - 1)
  BY <1>0 DEF Listed
<1>4. z \in Seq(Xfer) /\ Len(z) = (m - (m + 1)) + 1
  BY <1>0 DEF Listed
<1> HIDE DEF b, c, z
<1>5. z = <<>>
  BY <1>1, <1>4, EmptySeq
<1>6. b # <<>> /\ Head(b) = b[1]
  BY <1>1, <1>2, EmptySeq
<1>7. Head(b) = Access(op, a, w, m, j)
  <2>1. 1 \in 1 .. (m - j) + 1 /\ j + 1 - 1 = j
    BY <1>1
  <2>2. b[1] = Access(op, a, w, m, j + 1 - 1)
    BY <1>2, <2>1
  <2> QED
    BY <1>6, <2>1, <2>2
<1>8. /\ Tail(b) \in Seq(Xfer) /\ Len(Tail(b)) = Len(b) - 1
      /\ \A i \in 1 .. Len(Tail(b)) : Tail(b)[i] = b[i + 1]
  BY <1>2, <1>6, HeadTailProperties
<1>9. Len(Tail(b)) = Len(c) /\ Len(c) = m - j
  BY <1>1, <1>2, <1>3, <1>8
<1>10. \A i \in 1 .. Len(Tail(b)) : Tail(b)[i] = c[i]
  <2> SUFFICES ASSUME NEW i \in 1 .. m - j PROVE Tail(b)[i] = c[i]
    BY <1>9
  <2>1. i + 1 \in 1 .. (m - j) + 1 /\ i \in 1 .. (m - (j + 1)) + 1 /\ j + (i + 1) - 1 = (j + 1) + i - 1
    BY <1>1
  <2>2. Tail(b)[i] = b[i + 1]
    BY <1>8, <1>9
  <2>3. b[i + 1] = Access(op, a, w, m, j + (i + 1) - 1)
    BY <1>2, <2>1
  <2>4. c[i] = Access(op, a, w, m, (j + 1) + i - 1)
    BY <1>3, <2>1
  <2> QED
    BY <2>1, <2>2, <2>3, <2>4
<1>11. Tail(b) = c
  BY <1>3, <1>8, <1>9, <1>10, SeqEqual
<1> QED
  BY <1>5, <1>6, <1>7, <1>11 DEF b, c, z, Stepped

LEMMA Cons ==
  ASSUME NEW x \in Xfer, NEW s \in Seq(Xfer)
  PROVE  <<x>> \o s \in Seq(Xfer) /\ <<x>> \o s # <<>> /\ Head(<<x>> \o s) = x /\ Tail(<<x>> \o s) = s
<1> DEFINE u == <<x>>
           c == u \o s
<1>1. u \in Seq(Xfer) /\ Len(u) = 1 /\ u[1] = x
  OBVIOUS
<1> HIDE DEF u
<1>2. /\ c \in Seq(Xfer) /\ Len(c) = 1 + Len(s) /\ Len(s) \in Nat
      /\ \A i \in 1 .. 1 + Len(s) : c[i] = IF i <= 1 THEN u[i] ELSE s[i - 1]
  BY <1>1, ConcatProperties, LenProperties
<1> HIDE DEF c
<1>3. c # <<>> /\ Head(c) = c[1] /\ c[1] = x
  BY <1>1, <1>2, EmptySeq
<1>4. /\ Tail(c) \in Seq(Xfer) /\ Len(Tail(c)) = Len(c) - 1
      /\ \A i \in 1 .. Len(Tail(c)) : Tail(c)[i] = c[i + 1]
  BY <1>2, <1>3, HeadTailProperties
<1>5. \A i \in 1 .. Len(Tail(c)) : Tail(c)[i] = s[i]
  <2> SUFFICES ASSUME NEW i \in 1 .. Len(s) PROVE Tail(c)[i] = s[i]
    BY <1>2, <1>4
  <2>1. i + 1 \in 1 .. 1 + Len(s) /\ ~(i + 1 <= 1) /\ i + 1 - 1 = i
    BY <1>2
  <2>2. c[i + 1] = s[i + 1 - 1]
    BY <1>2, <2>1
  <2> QED
    BY <1>2, <1>4, <2>1, <2>2
<1>6. Tail(c) = s
  BY <1>2, <1>4, <1>5, SeqEqual
<1> QED
  BY <1>2, <1>3, <1>6 DEF c, u

LEMMA Pair ==
  ASSUME NEW x \in Xfer, NEW y \in Xfer
  PROVE  <<x>> \o <<y>> = <<x, y>>
<1> DEFINE s == <<x>>
           t == <<y>>
           v == <<x, y>>
           c == s \o t
<1>1. s \in Seq(Xfer) /\ Len(s) = 1 /\ s[1] = x
  OBVIOUS
<1>2. t \in Seq(Xfer) /\ Len(t) = 1 /\ t[1] = y
  OBVIOUS
<1>3. v \in Seq(Xfer) /\ Len(v) = 2 /\ v[1] = x /\ v[2] = y
  OBVIOUS
<1> HIDE DEF s, t, v
<1>4. /\ c \in Seq(Xfer) /\ Len(c) = Len(s) + Len(t)
      /\ \A i \in 1 .. Len(s) + Len(t) : c[i] = IF i <= Len(s) THEN s[i] ELSE t[i - Len(s)]
  BY <1>1, <1>2, ConcatProperties
<1> HIDE DEF c
<1>5. Len(c) = 2 /\ \A i \in 1 .. Len(c) : c[i] = v[i]
  BY <1>1, <1>2, <1>3, <1>4
<1>6. c = v
  BY <1>3, <1>4, <1>5, SeqEqual
<1> QED
  BY <1>6 DEF c, s, t, v

LEMMA Triple ==
  ASSUME NEW x \in Xfer, NEW y \in Xfer, NEW z \in Xfer
  PROVE  <<x>> \o <<y, z>> = <<x, y, z>>
<1> DEFINE s == <<x>>
           t == <<y, z>>
           v == <<x, y, z>>
           c == s \o t
<1>1. s \in Seq(Xfer) /\ Len(s) = 1 /\ s[1] = x
  OBVIOUS
<1>2. t \in Seq(Xfer) /\ Len(t) = 2 /\ t[1] = y /\ t[2] = z
  OBVIOUS
<1>3. v \in Seq(Xfer) /\ Len(v) = 3 /\ v[1] = x /\ v[2] = y /\ v[3] = z
  OBVIOUS
<1> HIDE DEF s, t, v
<1>4. /\ c \in Seq(Xfer) /\ Len(c) = Len(s) + Len(t)
      /\ \A i \in 1 .. Len(s) + Len(t) : c[i] = IF i <= Len(s) THEN s[i] ELSE t[i - Len(s)]
  BY <1>1, <1>2, ConcatProperties
<1> HIDE DEF c
<1>5. Len(c) = 3 /\ \A i \in 1 .. Len(c) : c[i] = v[i]
  BY <1>1, <1>2, <1>3, <1>4
<1>6. c = v
  BY <1>3, <1>4, <1>5, SeqEqual
<1> QED
  BY <1>6 DEF c, s, t, v

LEMMA CswSteps ==
  ASSUME NEW w \in Sizes, NEW s \in Seq(Xfer)
  PROVE  LET c == WriteCsw(w) \o s
         IN c \in Seq(Xfer) /\ c # <<>> /\ Head(c) = Select("b0") /\ Tail(c) = <<Csw(w)>> \o s
<1> DEFINE x == Select("b0")
           y == Csw(w)
           u == <<x>>
           v == <<y>>
           t == v \o s
<1>1. x \in Xfer /\ y \in Xfer
  BY XferTypes
<1>2. WriteCsw(w) = <<x, y>>
  BY DEF WriteCsw
<1> HIDE DEF x, y
<1>3. u \in Seq(Xfer) /\ v \in Seq(Xfer)
  BY <1>1
<1>4. u \o v = WriteCsw(w)
  BY <1>1, <1>2, Pair
<1>5. t \in Seq(Xfer)
  BY <1>1, Cons
<1>6. (u \o v) \o s = u \o t
  <2> HIDE DEF u, v
  <2> QED
    BY <1>3, ConcatAssociative
<1> HIDE DEF t
<1>7. u \o t \in Seq(Xfer) /\ u \o t # <<>> /\ Head(u \o t) = x /\ Tail(u \o t) = t
  BY <1>1, <1>5, Cons
<1>8. WriteCsw(w) \o s = u \o t
  BY <1>4, <1>6
<1> QED
  BY <1>7, <1>8 DEF t, v, x, y

\* The calls of swd_host.c are such pieces.
LEMMA ByteShape ==
  ASSUME NEW a \in Addr
  PROVE  /\ Inside(a, 1, 1)
         /\ swd_write_byte(a) = WriteCsw(1) \o FromTar("write", a, 1, 1)
         /\ swd_read_byte(a) = WriteCsw(1) \o FromTar("read", a, 1, 1)
<1>1. a \in Nat /\ a < MemSize /\ MemSize \in Nat
  BY Sized DEF Addr
<1>2. Inside(a, 1, 1)
  BY <1>1 DEF Inside, At, Sizes
<1> DEFINE t == Tar(a)
<1>3. t \in Xfer
  BY XferTypes
<1>4. ASSUME NEW op, NEW u, NEW v, u = Access(op, a, 1, 1, 0), v = Access(op, a, 1, 1, 1)
      PROVE  WriteCsw(1) \o FromTar(op, a, 1, 1) = WriteCsw(1) \o <<t, u, v>>
  <2> DEFINE b == Body(op, a, 1, 1, 0)
  <2>1. 0 \in 0 .. 1 + 1
    OBVIOUS
  <2>2. Listed(op, a, 1, 1, 0)
    BY <1>2, <2>1, BodyFacts
  <2>3. b \in Seq(Xfer) /\ Len(b) = 2 /\ b[1] = u /\ b[2] = v
    BY <1>4, <2>2 DEF Listed
  <2>4. b[1] \in Xfer /\ b[2] \in Xfer
    BY <2>3, ElementOfSeq
  <2> HIDE DEF b, t
  <2>5. u \in Xfer /\ v \in Xfer
    BY <2>3, <2>4
  <2>6. <<u, v>> \in Seq(Xfer) /\ Len(<<u, v>>) = 2
    BY <2>5
  <2>7. b = <<u, v>>
    <3>1. \A i \in 1 .. 2 : b[i] = <<u, v>>[i]
      BY <2>3
    <3> QED
      BY <2>3, <2>6, <3>1, SeqEqual
  <2>8. <<t>> \o <<u, v>> = <<t, u, v>>
    BY <1>3, <2>5, Triple
  <2> QED
    BY <2>7, <2>8 DEF FromTar, b, t
<1>5. swd_write_byte(a) = WriteCsw(1) \o <<t, DrwW(OneByte(a)), Rdbuff(<<>>)>>
  BY DEF swd_write_byte
<1>6. swd_read_byte(a) = WriteCsw(1) \o <<t, DrwR(<<>>), Rdbuff(<<a % 4>>)>>
  BY DEF swd_read_byte
<1>7. Access("write", a, 1, 1, 0) = DrwW(OneByte(a)) /\ Access("write", a, 1, 1, 1) = Rdbuff(<<>>)
  BY <1>1 DEF Access, Data, At
<1>8. Access("read", a, 1, 1, 0) = DrwR(<<>>) /\ Access("read", a, 1, 1, 1) = Rdbuff(<<a % 4>>)
  BY <1>1 DEF Access, Keep, Lanes
<1> HIDE DEF t
<1>9. /\ WriteCsw(1) \o FromTar("write", a, 1, 1) = WriteCsw(1) \o <<t, DrwW(OneByte(a)), Rdbuff(<<>>)>>
      /\ WriteCsw(1) \o FromTar("read", a, 1, 1) = WriteCsw(1) \o <<t, DrwR(<<>>), Rdbuff(<<a % 4>>)>>
  BY <1>4, <1>7, <1>8
<1> QED
  BY <1>2, <1>5, <1>6, <1>9

LEMMA WriteShape ==
  ASSUME NEW a, NEW m, Inside(a, 4, m)
  PROVE  swd_write_block(a, 4 * m) = WriteCsw(4) \o FromTar("write", a, 4, m)
<1> DEFINE W == [i \in 1 .. m |-> DrwW(Word(a + 4 * (i - 1)))]
           r == Rdbuff(<<>>)
           t == Tar(a)
           b == Body("write", a, 4, m, 0)
<1>1. a \in Nat /\ m \in Nat \ {0} /\ 0 \in 0 .. m - 1 /\ 0 \in 0 .. m + 1
  BY DEF Inside
<1>2. t \in Xfer
  BY <1>1, AtFacts, XferTypes
<1>3. r \in Xfer
  <2>1. << >> \in Seq(Lane)
    OBVIOUS
  <2> QED
    BY <2>1, XferTypes
<1>4. \A i \in 1 .. m : W[i] = Access("write", a, 4, m, i - 1) /\ W[i] \in Xfer
  <2> SUFFICES ASSUME NEW i \in 1 .. m PROVE W[i] = Access("write", a, 4, m, i - 1) /\ W[i] \in Xfer
    OBVIOUS
  <2>1. i - 1 \in 0 .. m /\ i - 1 < m
    BY <1>1
  <2>2. W[i] = Access("write", a, 4, m, i - 1)
    BY <2>1 DEF Access, Data, At
  <2> QED
    BY <2>1, <2>2, AccessType
<1>5. W \in [1 .. m -> Xfer]
  BY <1>4
<1>6. Listed("write", a, 4, m, 0)
  BY <1>1, BodyFacts
<1>7. /\ b \in Seq(Xfer) /\ Len(b) = m + 1
      /\ \A i \in 1 .. m + 1 : b[i] = Access("write", a, 4, m, i - 1)
  BY <1>1, <1>6 DEF Listed
<1>8. Access("write", a, 4, m, m) = r
  BY <1>1 DEF Access
<1>9. swd_write_block(a, 4 * m) = ((WriteCsw(4) \o <<t>>) \o W) \o <<r>>
  BY <1>1 DEF swd_write_block
<1> HIDE DEF W, r, t, b
<1>10. W \in Seq(Xfer)
  BY <1>1, <1>5, SeqDef
<1>11. Len(W) = m
  BY <1>1, <1>5, <1>10, LenProperties
<1>12. <<r>> \in Seq(Xfer) /\ Len(<<r>>) = 1 /\ <<r>>[1] = r /\ <<t>> \in Seq(Xfer)
  BY <1>2, <1>3
<1>13. W \o <<r>> = b
  <2> DEFINE u == <<r>>
             c == W \o u
  <2>1. /\ c \in Seq(Xfer) /\ Len(c) = m + 1
        /\ \A i \in 1 .. m + 1 : c[i] = IF i <= m THEN W[i] ELSE u[i - m]
    <3> HIDE DEF u
    <3>1. u \in Seq(Xfer) /\ Len(u) = 1
      BY <1>12 DEF u
    <3>2. /\ c \in Seq(Xfer) /\ Len(c) = Len(W) + Len(u)
          /\ \A i \in 1 .. Len(W) + Len(u) : c[i] = IF i <= Len(W) THEN W[i] ELSE u[i - Len(W)]
      BY <1>10, <3>1, ConcatProperties
    <3> QED
      BY <1>11, <3>1, <3>2
  <2> HIDE DEF c, u
  <2>2. \A i \in 1 .. Len(c) : c[i] = b[i]
    <3> SUFFICES ASSUME NEW i \in 1 .. m + 1 PROVE c[i] = b[i]
      BY <2>1
    <3>1. CASE i <= m
      BY <1>1, <1>4, <1>7, <2>1, <3>1
    <3>2. CASE i = m + 1
      <4>1. i - m = 1 /\ i - 1 = m /\ ~(i <= m)
        BY <1>1, <3>2
      <4>2. c[i] = u[1] /\ u[1] = r
        BY <1>12, <2>1, <4>1 DEF u
      <4> QED
        BY <1>7, <1>8, <4>1, <4>2
    <3> QED
      BY <1>1, <3>1, <3>2
  <2>3. c = b
    BY <1>7, <2>1, <2>2, SeqEqual
  <2> QED
    BY <2>3 DEF c, u
<1>14. WriteCsw(4) \in Seq(Xfer)
  <2>1. Select("b0") \in Xfer /\ Csw(4) \in Xfer
    BY XferTypes DEF Sizes
  <2> QED
    BY <2>1 DEF WriteCsw
<1> DEFINE c == WriteCsw(4)
           u == <<r>>
           v == <<t>>
<1> HIDE DEF c, u, v
<1>15. c \in Seq(Xfer) /\ u \in Seq(Xfer) /\ v \in Seq(Xfer) /\ b \in Seq(Xfer)
  BY <1>7, <1>12, <1>14 DEF c, u, v
<1>16. c \o v \in Seq(Xfer)
  BY <1>10, <1>15, ConcatProperties
<1>17. ((c \o v) \o W) \o u = (c \o v) \o (W \o u)
  <2> DEFINE d == c \o v
  <2>1. d \in Seq(Xfer) /\ W \in Seq(Xfer) /\ u \in Seq(Xfer)
    BY <1>10, <1>15, <1>16
  <2> HIDE DEF d
  <2>2. (d \o W) \o u = d \o (W \o u)
    BY <2>1, ConcatAssociative
  <2> QED
    BY <2>2 DEF d
<1>18. (c \o v) \o b = c \o (v \o b)
  BY <1>15, ConcatAssociative
<1> QED
  BY <1>9, <1>13, <1>17, <1>18 DEF FromTar, b, c, t, u, v

LEMMA HeadAndTail ==
  ASSUME NEW s \in Seq(Xfer), s # <<>>
  PROVE  s = <<Head(s)>> \o Tail(s)
<1> DEFINE u == <<Head(s)>>
           t == Tail(s)
           c == u \o t
<1>1. Len(s) \in Nat \ {0} /\ Head(s) = s[1] /\ Head(s) \in Xfer
  BY EmptySeq, HeadTailProperties
<1>2. u \in Seq(Xfer) /\ Len(u) = 1 /\ u[1] = s[1]
  BY <1>1
<1>3. t \in Seq(Xfer) /\ Len(t) = Len(s) - 1 /\ \A i \in 1 .. Len(t) : t[i] = s[i + 1]
  BY HeadTailProperties
<1> HIDE DEF u, t
<1>4. /\ c \in Seq(Xfer) /\ Len(c) = Len(u) + Len(t)
      /\ \A i \in 1 .. Len(u) + Len(t) : c[i] = IF i <= Len(u) THEN u[i] ELSE t[i - Len(u)]
  BY <1>2, <1>3, ConcatProperties
<1> HIDE DEF c
<1>5. Len(c) = Len(s) /\ Len(u) = 1
  BY <1>1, <1>2, <1>3, <1>4
<1>6. \A i \in 1 .. Len(c) : c[i] = s[i]
  <2> SUFFICES ASSUME NEW i \in 1 .. Len(s) PROVE c[i] = s[i]
    BY <1>5
  <2>1. CASE i = 1
    BY <1>1, <1>2, <1>3, <1>4, <2>1
  <2>2. CASE i # 1
    <3>1. i - 1 \in 1 .. Len(t) /\ (i - 1) + 1 = i /\ ~(i <= 1)
      BY <1>1, <1>3, <2>2
    <3>2. t[i - 1] = s[(i - 1) + 1]
      BY <1>3, <3>1
    <3>3. c[i] = t[i - 1]
      BY <1>1, <1>3, <1>4, <1>5, <3>1
    <3> QED
      BY <3>1, <3>2, <3>3
  <2> QED
    BY <2>1, <2>2
<1>7. c = s
  BY <1>4, <1>5, <1>6, SeqEqual
<1> QED
  BY <1>7 DEF c, u, t

LEMMA ReadShape ==
  ASSUME NEW a, NEW m, Inside(a, 4, m)
  PROVE  swd_read_block(a, 4 * m) = WriteCsw(4) \o FromTar("read", a, 4, m)
<1> DEFINE e == DrwR(<<0, 1, 2, 3>>)
           R == [i \in 1 .. m - 1 |-> e]
           x == DrwR(<<>>)
           y == Rdbuff(<<0, 1, 2, 3>>)
           t == Tar(a)
           b == Body("read", a, 4, m, 0)
           d == Body("read", a, 4, m, 1)
<1>1. /\ a \in Nat /\ m \in Nat \ {0} /\ m - 1 \in Nat /\ 0 \in 0 .. m - 1 /\ 0 \in 0 .. m
      /\ 0 \in 0 .. m + 1 /\ 1 \in 0 .. m + 1
  BY DEF Inside
<1>2. t \in Xfer
  BY <1>1, AtFacts, XferTypes
<1>3. x \in Xfer /\ y \in Xfer /\ e \in Xfer
  <2>1. << >> \in Seq(Lane) /\ <<0, 1, 2, 3>> \in Seq(Lane)
    BY DEF Lane
  <2> QED
    BY <2>1, XferTypes
<1>4. Listed("read", a, 4, m, 0) /\ Listed("read", a, 4, m, 1)
  BY <1>1, BodyFacts
<1>5. b \in Seq(Xfer) /\ b # <<>> /\ Head(b) = Access("read", a, 4, m, 0) /\ Tail(b) = d
  <2>1. 0 + 1 = 1
    OBVIOUS
  <2> QED
    BY <1>1, <1>4, <2>1, BodyStep DEF Listed, Stepped
<1>6. d \in Seq(Xfer) /\ Len(d) = m /\ \A i \in 1 .. m : d[i] = Access("read", a, 4, m, i)
  <2>1. (m - 1) + 1 = m /\ \A i \in 1 .. m : 1 + i - 1 = i
    BY <1>1
  <2> QED
    BY <1>4, <2>1 DEF Listed
<1>7. /\ Access("read", a, 4, m, 0) = x /\ Access("read", a, 4, m, m) = y
      /\ \A i \in 1 .. m - 1 : Access("read", a, 4, m, i) = e
  BY <1>1 DEF Access, Keep, Lanes
<1>8. swd_read_block(a, 4 * m) = ((WriteCsw(4) \o <<t, x>>) \o R) \o <<y>>
  <2>1. (4 * m) \div 4 = m
    BY <1>1
  <2> QED
    BY <2>1 DEF swd_read_block
<1>9. R \in [1 .. m - 1 -> Xfer]
  BY <1>3
<1> HIDE DEF e, x, y, t, b, d
<1>10. \A i \in 1 .. m - 1 : R[i] = e
  OBVIOUS
<1> HIDE DEF R
<1>11. R \in Seq(Xfer)
  BY <1>1, <1>9, SeqDef
<1>12. Len(R) = m - 1
  BY <1>1, <1>9, <1>11, LenProperties
<1> DEFINE c == WriteCsw(4)
           u == <<y>>
           v == <<t>>
           X == <<x>>
           g == R \o u
<1>13. /\ u \in Seq(Xfer) /\ Len(u) = 1 /\ u[1] = y
       /\ v \in Seq(Xfer) /\ X \in Seq(Xfer)
  BY <1>2, <1>3
<1>14. c \in Seq(Xfer)
  <2>1. Select("b0") \in Xfer /\ Csw(4) \in Xfer
    BY XferTypes DEF Sizes
  <2> QED
    BY <2>1 DEF WriteCsw
<1>15. v \o X = <<t, x>>
  BY <1>2, <1>3, Pair
<1> HIDE DEF c, u, v, X
<1>16. /\ g \in Seq(Xfer) /\ Len(g) = Len(R) + Len(u)
       /\ \A i \in 1 .. Len(R) + Len(u) : g[i] = IF i <= Len(R) THEN R[i] ELSE u[i - Len(R)]
  BY <1>11, <1>13, ConcatProperties
<1> HIDE DEF g
<1>17. g = d
  <2>1. Len(g) = m
    BY <1>1, <1>12, <1>13, <1>16
  <2>2. \A i \in 1 .. Len(g) : g[i] = d[i]
    <3> SUFFICES ASSUME NEW i \in 1 .. m PROVE g[i] = d[i]
      BY <2>1
    <3>1. CASE i <= m - 1
      <4>1. i \in 1 .. m - 1 /\ i \in 1 .. Len(R) + Len(u) /\ i <= Len(R)
        BY <1>1, <1>12, <1>13, <3>1
      <4>2. g[i] = R[i]
        BY <1>16, <4>1
      <4>3. R[i] = e /\ d[i] = e
        BY <1>6, <1>7, <1>10, <4>1
      <4> QED
        BY <4>2, <4>3
    <3>2. CASE i = m
      <4>1. ~(i <= m - 1) /\ i - (m - 1) = 1
        BY <1>1, <3>2
      <4>2. g[i] = u[1]
        BY <1>1, <1>12, <1>13, <1>16, <4>1
      <4> QED
        BY <1>6, <1>7, <1>13, <3>2, <4>2
    <3> QED
      BY <1>1, <3>1, <3>2
  <2> QED
    BY <1>6, <1>16, <2>1, <2>2, SeqEqual
<1>18. b = X \o g
  BY <1>5, <1>7, <1>17, HeadAndTail DEF X
<1> DEFINE w == v \o X
           z == c \o w
           h == X \o g
<1>19. w \in Seq(Xfer)
  BY <1>13, ConcatProperties
<1>20. v \o h = w \o g
  <2>1. v \in Seq(Xfer) /\ X \in Seq(Xfer) /\ g \in Seq(Xfer)
    BY <1>13, <1>16
  <2>2. (v \o X) \o g = v \o (X \o g)
    BY <2>1, ConcatAssociative
  <2> QED
    BY <2>2
<1> HIDE DEF w, h
<1>21. z \in Seq(Xfer) /\ z \o g = c \o (w \o g)
  BY <1>14, <1>16, <1>19, ConcatProperties, ConcatAssociative
<1> HIDE DEF z
<1>22. (z \o R) \o u = z \o (R \o u)
  BY <1>11, <1>13, <1>21, ConcatAssociative
<1>23. swd_read_block(a, 4 * m) = (z \o R) \o u
  BY <1>8, <1>15 DEF z, w, c, u
<1>24. WriteCsw(4) \o FromTar("read", a, 4, m) = c \o (v \o h)
  BY <1>18 DEF FromTar, c, v, h, b, t
<1> QED
  BY <1>20, <1>21, <1>22, <1>23, <1>24 DEF g

-----------------------------------------------------------------------------
(* Where a call is when it transfers.                                      *)

\* A call that continues, or ends, in the next state.
LEMMA Continues ==
  ASSUME NEW a \in Nat, NEW w \in Sizes, NEW m \in Nat \ {0}, Piece(a, w, m), call' = call, call.op # "init",
         Safe', busy' = TRUE, Setting(a, w, m)' \/ \E j \in 0 .. m : Moving(a, w, m, j)'
  PROVE  MemInv'
<1>1. Piece(a, w, m)'
  BY DEF Piece
<1> QED
  BY <1>1 DEF MemInv, Where

LEMMA Stops ==
  ASSUME MemInv, call' = call, Safe', script' = <<>>, busy' = FALSE, ret' = FALSE
  PROVE  MemInv'
BY DEF MemInv, Where

LEMMA Finishes ==
  ASSUME call' = call, call.op # "init", Safe', busy' = TRUE, Done(call.addr + call.done)'
  PROVE  MemInv'
BY DEF MemInv, Where

\* The piece of a call is in the memory.
LEMMA PieceInside ==
  ASSUME MemInv, CallType, NEW a \in Nat, NEW w \in Sizes, NEW m \in Nat \ {0}, Piece(a, w, m)
  PROVE  Inside(a, w, m)
<1>1. /\ call.addr \in Nat /\ call.size \in Nat /\ call.done \in Nat /\ call.done <= call.size
      /\ call.addr + call.size <= MemSize
  BY DEF MemInv, Safe, CallType
<1>2. At(a, w, m) <= MemSize
  BY <1>1, Sized DEF Piece
<1> QED
  BY <1>2 DEF Piece, Inside

LEMMA TarSteps ==
  ASSUME NEW op, NEW a, NEW w, NEW m, Inside(a, w, m)
  PROVE  LET t == FromTar(op, a, w, m)
         IN t \in Seq(Xfer) /\ t # <<>> /\ Head(t) = Tar(a) /\ Tail(t) = Body(op, a, w, m, 0)
<1>1. 0 \in 0 .. m - 1 /\ 0 \in 0 .. m + 1
  BY DEF Inside
<1>2. Tar(a) \in Xfer
  BY <1>1, AtFacts, XferTypes
<1>3. Body(op, a, w, m, 0) \in Seq(Xfer)
  BY <1>1, BodyFacts DEF Listed
<1> QED
  BY <1>2, <1>3, Cons DEF FromTar

\* The next transfer of a call, and what follows.
Stage1(a, w, m) == /\ Next1 = Select("b0") /\ Rest = <<Csw(w)>> \o FromTar(call.op, a, w, m)
                   /\ port.mem = Upto(call, a) /\ got = Taken(call, a)
Stage2(a, w, m) == /\ Next1 = Csw(w) /\ Rest = FromTar(call.op, a, w, m)
                   /\ port.mem = Upto(call, a) /\ got = Taken(call, a)
Stage3(a, w, m) == /\ Next1 = Rdbuff(<<>>) /\ Rest = FromTar(call.op, a, w, m) /\ dap_state.csw = w
                   /\ port.mem = Upto(call, a) /\ got = Taken(call, a)
Stage4(a, w, m) == /\ Next1 = Tar(a) /\ Rest = Body(call.op, a, w, m, 0) /\ dap_state.csw = w
                   /\ port.mem = Upto(call, a) /\ got = Taken(call, a)
Stage5(a, w, m, j) == /\ Next1 = Access(call.op, a, w, m, j) /\ Rest = Body(call.op, a, w, m, j + 1)
                      /\ dap_state.csw = w /\ (port.sticky \/ Stage(a, w, m, j))

Staged(a, w, m) == \/ Stage1(a, w, m) \/ Stage2(a, w, m) \/ Stage3(a, w, m) \/ Stage4(a, w, m)
                   \/ \E j \in 0 .. m : Stage5(a, w, m, j)

LEMMA Transferring ==
  ASSUME MemInv, CallType, busy, script # <<>>, call.op # "init"
  PROVE  \E a \in Nat, w \in Sizes, m \in Nat \ {0} : Piece(a, w, m) /\ Inside(a, w, m) /\ Staged(a, w, m)
<1>1. PICK a \in Nat, w \in Sizes, m \in Nat \ {0} :
        Piece(a, w, m) /\ (Setting(a, w, m) \/ \E j \in 0 .. m : Moving(a, w, m, j))
  BY DEF MemInv, Where, Done
<1>2. Inside(a, w, m)
  BY <1>1, PieceInside
<1> DEFINE t == FromTar(call.op, a, w, m)
<1>3. t \in Seq(Xfer) /\ t # <<>> /\ Head(t) = Tar(a) /\ Tail(t) = Body(call.op, a, w, m, 0)
  BY <1>2, TarSteps
<1>4. CASE Setting(a, w, m)
  <2>1. Csw(w) \in Xfer
    BY XferTypes
  <2>2. Rdbuff(<<>>) \in Xfer
    <3>1. << >> \in Seq(Lane)
      OBVIOUS
    <3> QED
      BY <3>1, XferTypes
  <2>3. port.mem = Upto(call, a) /\ got = Taken(call, a)
    BY <1>4 DEF Setting
  <2>4. \/ script = WriteCsw(w) \o t \/ script = <<Csw(w)>> \o t
        \/ (script = <<Rdbuff(<<>>)>> \o t \/ script = t) /\ dap_state.csw = w
    BY <1>4 DEF Setting
  <2> HIDE DEF t
  <2>5. CASE script = WriteCsw(w) \o t
    <3>1. Next1 = Select("b0") /\ Rest = <<Csw(w)>> \o t
      BY <1>3, <2>5, CswSteps DEF Next1, Rest
    <3> QED
      BY <1>1, <1>2, <2>3, <3>1 DEF Stage1, Staged, t
  <2>6. CASE script = <<Csw(w)>> \o t
    <3>1. Next1 = Csw(w) /\ Rest = t
      BY <1>3, <2>1, <2>6, Cons DEF Next1, Rest
    <3> QED
      BY <1>1, <1>2, <2>3, <3>1 DEF Stage2, Staged, t
  <2>7. CASE script = <<Rdbuff(<<>>)>> \o t /\ dap_state.csw = w
    <3>1. Next1 = Rdbuff(<<>>) /\ Rest = t
      BY <1>3, <2>2, <2>7, Cons DEF Next1, Rest
    <3> QED
      BY <1>1, <1>2, <2>3, <2>7, <3>1 DEF Stage3, Staged, t
  <2>8. CASE script = t /\ dap_state.csw = w
    <3>1. Next1 = Tar(a) /\ Rest = Body(call.op, a, w, m, 0)
      BY <1>3, <2>8 DEF Next1, Rest
    <3> QED
      BY <1>1, <1>2, <2>3, <2>8, <3>1 DEF Stage4, Staged
  <2> QED
    BY <2>4, <2>5, <2>6, <2>7, <2>8
<1>5. CASE \E j \in 0 .. m : Moving(a, w, m, j)
  <2>1. PICK j \in 0 .. m : Moving(a, w, m, j)
    BY <1>5
  <2>2. Next1 = Access(call.op, a, w, m, j) /\ Rest = Body(call.op, a, w, m, j + 1)
    <3>1. script = Body(call.op, a, w, m, j)
      BY <2>1 DEF Moving
    <3>2. /\ Head(Body(call.op, a, w, m, j)) = Access(call.op, a, w, m, j)
          /\ Tail(Body(call.op, a, w, m, j)) = Body(call.op, a, w, m, j + 1)
      <4>1. Stepped(call.op, a, w, m, j)
        BY <1>2, BodyStep
      <4> QED
        BY <4>1 DEF Stepped
    <3> QED
      BY <3>1, <3>2 DEF Next1, Rest
  <2>3. Stage5(a, w, m, j)
    BY <2>1, <2>2 DEF Moving, Stage5
  <2> QED
    BY <1>1, <1>2, <2>3 DEF Staged
<1> QED
  BY <1>1, <1>4, <1>5

\* The kind of transfer tells the stage, and whose call it is.
Kind(a, w, m) ==
  \/ Next1.k = "select" /\ Stage1(a, w, m)
  \/ Next1.k = "csw" /\ Stage2(a, w, m)
  \/ Next1.k = "tar" /\ Stage4(a, w, m)
  \/ Next1.k = "rdbuff" /\ (Stage3(a, w, m) \/ Stage5(a, w, m, m))
  \/ Next1.k = "drww" /\ call.op = "write" /\ \E j \in 0 .. m - 1 : Stage5(a, w, m, j)
  \/ Next1.k = "drwr" /\ call.op = "read" /\ \E j \in 0 .. m - 1 : Stage5(a, w, m, j)

LEMMA Kinds ==
  ASSUME MemInv, CallType, busy, script # <<>>
  PROVE  /\ call.op = "init" => /\ Next1.k \in {"select", "idcode", "abort", "ctrl"} /\ Rest \in Seq(InitOp)
                                /\ Rest \in Seq(Xfer)
         /\ call.op # "init" =>
              \E a \in Nat, w \in Sizes, m \in Nat \ {0} :
                Piece(a, w, m) /\ Inside(a, w, m) /\ Kind(a, w, m)
<1>1. CASE call.op = "init"
  <2>1. script \in Seq(InitOp)
    BY <1>1 DEF MemInv, Where
  <2>2. Next1 \in InitOp /\ Rest \in Seq(InitOp)
    BY <2>1, HeadTailProperties DEF Next1, Rest
  <2>3. InitOp \subseteq Xfer
    BY DEF InitOp, Xfer
  <2>4. Rest \in Seq(Xfer)
    BY <2>2, <2>3, SeqMonotonic
  <2>5. Next1.k \in {"select", "idcode", "abort", "ctrl"}
    BY <2>2 DEF InitOp
  <2> QED
    BY <1>1, <2>2, <2>4, <2>5
<1>2. CASE call.op # "init"
  <2>1. PICK a \in Nat, w \in Sizes, m \in Nat \ {0} : Piece(a, w, m) /\ Inside(a, w, m) /\ Staged(a, w, m)
    BY <1>2, Transferring
  <2>2. call.op \in {"write", "read"}
    BY <1>2 DEF CallType
  <2>3. ASSUME Stage1(a, w, m) PROVE Kind(a, w, m)
    <3>1. Next1.k = "select"
      BY <2>3 DEF Stage1, Select
    <3> QED
      BY <2>3, <3>1 DEF Kind
  <2>4. ASSUME Stage2(a, w, m) PROVE Kind(a, w, m)
    <3>1. Next1.k = "csw"
      BY <2>4 DEF Stage2, Csw
    <3> QED
      BY <2>4, <3>1 DEF Kind
  <2>5. ASSUME Stage3(a, w, m) PROVE Kind(a, w, m)
    <3>1. Next1.k = "rdbuff"
      BY <2>5 DEF Stage3, Rdbuff
    <3> QED
      BY <2>5, <3>1 DEF Kind
  <2>6. ASSUME Stage4(a, w, m) PROVE Kind(a, w, m)
    <3>1. Next1.k = "tar"
      BY <2>6 DEF Stage4, Tar
    <3> QED
      BY <2>6, <3>1 DEF Kind
  <2>7. ASSUME \E j \in 0 .. m : Stage5(a, w, m, j) PROVE Kind(a, w, m)
    <3>1. PICK j \in 0 .. m : Stage5(a, w, m, j)
      BY <2>7
    <3>2. Next1 = Access(call.op, a, w, m, j)
      BY <3>1 DEF Stage5
    <3>3. CASE j = m
      <4>1. Next1.k = "rdbuff"
        BY <3>2, <3>3, <2>2 DEF Access, Rdbuff
      <4> QED
        BY <3>1, <3>3, <4>1 DEF Kind
    <3>4. CASE j # m
      <4>1. j \in 0 .. m - 1 /\ j < m
        BY <3>4
      <4>2. CASE call.op = "write"
        <5>1. Next1.k = "drww"
          BY <3>2, <4>1, <4>2 DEF Access, DrwW
        <5> QED
          BY <3>1, <4>1, <4>2, <5>1 DEF Kind
      <4>3. CASE call.op = "read"
        <5>1. Next1.k = "drwr"
          BY <3>2, <4>1, <4>3 DEF Access, DrwR
        <5> QED
          BY <3>1, <4>1, <4>3, <5>1 DEF Kind
      <4> QED
        BY <2>2, <4>2, <4>3
    <3> QED
      BY <3>3, <3>4
  <2>8. Kind(a, w, m)
    BY <2>1, <2>3, <2>4, <2>5, <2>6, <2>7 DEF Staged
  <2> QED
    BY <1>2, <2>1, <2>8
<1> QED
  BY <1>1, <1>2

-----------------------------------------------------------------------------
(* What a transfer does to the target.                                     *)

PortT == [select : {"b0", "other"}, csw : Sizes, tar : Addr,
          rd : [Lane -> Byte], sticky : BOOLEAN, mem : [Addr -> Byte]]

LEMMA Faulted == ASSUME NEW f, TypeOK, Fault(f) PROVE faults' \in 0 .. MaxFaults
BY FaultsAssumption DEF TypeOK, Fault

LEMMA Stuck ==
  ASSUME port \in PortT, port' = [port EXCEPT !.sticky = TRUE]
  PROVE  /\ port' \in PortT /\ port'.sticky /\ port'.mem = port.mem
BY DEF PortT

LEMMA GoFailTypes ==
  ASSUME TypeOK, NEW rest \in Seq(Xfer), Go(rest) \/ Fail
  PROVE  script' \in Seq(Xfer) /\ busy' \in BOOLEAN /\ ret' \in BOOLEAN
<1>1. busy \in BOOLEAN /\ ret \in BOOLEAN
  BY DEF TypeOK
<1>2. << >> \in Seq(Xfer)
  OBVIOUS
<1>3. CASE Go(rest)
  BY <1>1, <1>3 DEF Go
<1>4. CASE Fail
  BY <1>2, <1>4, Zenon DEF Fail
<1> QED
  BY <1>3, <1>4

\* What a transfer that would leave the target as p leaves behind.
LEMMA TransferResult ==
  ASSUME TypeOK, NEW p \in PortT, NEW rest \in Seq(Xfer), Transfer(p, rest)
  PROVE  /\ port' \in PortT /\ faults' \in 0 .. MaxFaults
         /\ script' \in Seq(Xfer) /\ busy' \in BOOLEAN /\ ret' \in BOOLEAN
         /\ \/ Go(rest) /\ ~port.sticky /\ port' = p
            \/ Go(rest) /\ port'.sticky /\ port'.mem = port.mem
            \/ Fail /\ port'.mem = port.mem
            \/ Fail /\ ~port.sticky /\ port' = p
<1>1. port \in PortT /\ faults \in 0 .. MaxFaults
  BY DEF TypeOK, PortT
<1>2. Go(rest) \/ Fail
  BY DEF Transfer
<1>3. script' \in Seq(Xfer) /\ busy' \in BOOLEAN /\ ret' \in BOOLEAN
  BY <1>2, GoFailTypes
<1>4. CASE port.sticky /\ Fail /\ UNCHANGED <<port, faults>>
  BY <1>1, <1>3, <1>4
<1>5. CASE ~port.sticky /\ port' = p /\ Go(rest) /\ UNCHANGED faults
  BY <1>1, <1>3, <1>5
<1>6. CASE Fault("dropped") /\ port' = [port EXCEPT !.sticky = TRUE] /\ Go(rest)
  BY <1>1, <1>3, <1>6, Faulted, Stuck
<1>7. CASE Fault("refused") /\ UNCHANGED port /\ Fail
  BY <1>1, <1>3, <1>7, Faulted
<1>8. CASE ~port.sticky /\ Fault("unheard") /\ port' = p /\ Fail
  BY <1>3, <1>8, Faulted
<1> QED
  BY <1>4, <1>5, <1>6, <1>7, <1>8 DEF Transfer

\* An access leaves all but TAR, and memory or read buffer, as it is.
LEMMA WrittenFacts ==
  ASSUME port \in PortT, NEW d \in [Lane -> Byte]
  PROVE  LET p == Written(port, d)
         IN /\ p \in PortT /\ p.tar = Bumped(port.tar, port.csw) /\ p.rd = port.rd
            /\ p.mem = [b \in Addr |-> IF b \in Touched(port) THEN d[b % 4] ELSE port.mem[b]]
<1> DEFINE f == [b \in Addr |-> IF b \in Touched(port) THEN d[b % 4] ELSE port.mem[b]]
           t == Bumped(port.tar, port.csw)
<1>1. t \in Addr
  BY BumpType DEF PortT
<1>2. \A b \in Addr : b % 4 \in Lane
  BY Sized DEF Addr, Lane
<1>3. f \in [Addr -> Byte]
  <2>1. port.mem \in [Addr -> Byte]
    BY DEF PortT
  <2> QED
    BY <1>2, <2>1
<1> DEFINE q == [port EXCEPT !.tar = t]
           p == [q EXCEPT !.mem = f]
<1>4. Increment(port) = q
  BY DEF Increment, Bumped, PortT
<1>5. q.mem = port.mem
  BY DEF PortT
<1>6. Written(port, d) = p
  BY <1>4, <1>5 DEF Written
<1> HIDE DEF f, t
<1>7. p \in PortT /\ p.tar = t /\ p.rd = port.rd /\ p.mem = f
  BY <1>1, <1>3 DEF PortT
<1> QED
  BY <1>6, <1>7 DEF f, t

LEMMA ReadFacts ==
  ASSUME port \in PortT
  PROVE  LET p == ReadOut(port)
         IN /\ p \in PortT /\ p.tar = Bumped(port.tar, port.csw) /\ p.mem = port.mem
            /\ p.rd = [l \in Lane |-> LET b == port.tar - (port.tar % 4) + l
                                      IN IF b \in Touched(port) THEN port.mem[b] ELSE Zero]
<1> DEFINE f == [l \in Lane |-> LET b == port.tar - (port.tar % 4) + l
                                IN IF b \in Touched(port) THEN port.mem[b] ELSE Zero]
           t == Bumped(port.tar, port.csw)
<1>1. t \in Addr /\ port.tar \in Addr
  BY BumpType DEF PortT
<1> DEFINE q == [port EXCEPT !.tar = t]
           p == [q EXCEPT !.rd = f]
<1>2. Increment(port) = q
  BY DEF Increment, Bumped, PortT
<1>3. q.mem = port.mem
  BY DEF PortT
<1>4. ReadOut(port) = p
  BY <1>2 DEF ReadOut
<1>5. \A b \in Touched(port) : b \in Addr
  <2>1. port.tar \in Nat /\ port.tar < MemSize /\ MemSize \in Nat
    BY <1>1, Sized DEF Addr
  <2>2. (port.tar - (port.tar % 4)) + 4 <= MemSize
    <3> DEFINE k == 4
    <3>1. k \in Nat \ {0} /\ MemSize % k = 0
      BY WholeWords
    <3> HIDE DEF k
    <3>2. (port.tar - (port.tar % k)) + k <= MemSize
      BY <2>1, <3>1, Sized, InMultiple
    <3> QED
      BY <3>2 DEF k
  <2>3. port.tar - (port.tar % 4) \in Nat
    BY <2>1
  <2>4. CASE port.csw = 4
    <3> SUFFICES ASSUME NEW b \in Touched(port) PROVE b \in Addr
      OBVIOUS
    <3>1. PICK l \in Lane : b = port.tar - (port.tar % 4) + l
      BY <2>4 DEF Touched
    <3> QED
      BY <2>1, <2>2, <2>3, <3>1 DEF Lane, Addr
  <2>5. CASE port.csw # 4
    BY <1>1, <2>5 DEF Touched
  <2> QED
    BY <2>4, <2>5
<1>6. f \in [Lane -> Byte]
  <2>1. port.mem \in [Addr -> Byte]
    BY DEF PortT
  <2>2. Zero \in Byte
    BY DEF Byte
  <2> QED
    BY <1>5, <2>1, <2>2
<1> HIDE DEF f, t
<1>7. p \in PortT /\ p.tar = t /\ p.rd = f /\ p.mem = port.mem
  BY <1>1, <1>6 DEF PortT
<1> QED
  BY <1>4, <1>7 DEF f, t

\* TAR after an access that is not the last.
LEMMA NextTar ==
  ASSUME NEW a, NEW w, NEW m, Inside(a, w, m), w = 4 => (a % TargetPage) + 4 * m <= TargetPage,
         NEW j \in 0 .. m - 1, j + 1 < m
  PROVE  Bumped(At(a, w, j), w) = At(a, w, j + 1)
<1>1. a \in Nat /\ m \in Nat /\ j \in Nat /\ w = 4
  BY DEF Inside, Sizes
<1>2. a % TargetPage \in Nat /\ TargetPage \in Nat
  BY <1>1, Sized, DivMod
<1> DEFINE d == 4 * j
           e == 4 * (j + 1)
<1>3. d \in Nat /\ e \in Nat /\ e = d + 4 /\ (a % TargetPage) + d < TargetPage /\ (a % TargetPage) + e < TargetPage
  BY <1>1, <1>2
<1> HIDE DEF d, e
<1>4. Bumped(a, d) = a + d /\ Bumped(a, e) = a + e
  BY <1>1, <1>3, BumpInPage
<1>5. a \in Nat /\ a + d \in Nat /\ a + e \in Nat /\ (a + d) + 4 = a + e
  BY <1>1, <1>3
<1> DEFINE r == a % TargetPage
           u == (a + d) % TargetPage
           v == (a + e) % TargetPage
<1>6. u \in Nat /\ v \in Nat /\ r \in Nat
  <2> DEFINE x == a + d
             y == a + e
  <2>1. x \in Nat /\ y \in Nat
    BY <1>5
  <2> HIDE DEF x, y
  <2>2. x % TargetPage \in 0 .. TargetPage - 1
    BY <2>1, Sized, DivMod
  <2>3. y % TargetPage \in 0 .. TargetPage - 1
    BY <2>1, Sized, DivMod
  <2> QED
    BY <1>2, <2>2, <2>3 DEF x, y
<1>7. (a - r) + u = a + d /\ (a - r) + v = a + e
  BY <1>4 DEF Bumped
<1> HIDE DEF r, u, v
<1>8. u = r + d /\ v = r + e
  BY <1>3, <1>5, <1>6, <1>7, <1>1
<1>9. Bumped(a + d, 4) = ((a + d) - u) + v
  BY <1>5 DEF Bumped, u, v
<1>10. Bumped(a + d, 4) = a + e
  BY <1>1, <1>3, <1>5, <1>6, <1>8, <1>9
<1> QED
  BY <1>1, <1>10 DEF At, d, e

-----------------------------------------------------------------------------
(* An access moves one step on.                                            *)

LEMMA UptoType == ASSUME NEW c, NEW x PROVE Upto(c, x) \in [Addr -> Byte]
BY DEF Upto, Byte

LEMMA WriteOn ==
  ASSUME CallType, call.op = "write", NEW a, NEW w, NEW m, Inside(a, w, m), call.addr <= a,
         NEW j \in 0 .. m - 1, port \in PortT, port.csw = w, port.tar = At(a, w, j),
         port.mem = Upto(call, At(a, w, j))
  PROVE  Written(port, Data(At(a, w, j), w)).mem = Upto(call, At(a, w, j + 1))
<1> DEFINE x == At(a, w, j)
           y == At(a, w, j + 1)
           d == Data(x, w)
           f == Written(port, d).mem
<1>1. /\ x \in Addr /\ x + w = y /\ a <= x /\ w \in Sizes
      /\ IF w = 4 THEN x % 4 = 0 /\ x + 3 \in Addr ELSE x = a
  BY AtFacts DEF Inside
<1>2. d \in [Lane -> Byte]
  BY DataType
<1>3. f = [b \in Addr |-> IF b \in Touched(port) THEN d[b % 4] ELSE port.mem[b]]
  BY <1>2, WrittenFacts
<1>4. call.addr \in Nat /\ x \in Nat /\ call.addr <= x /\ MemSize \in Nat
  <2>1. a \in Nat /\ call.addr \in Nat
    BY DEF Inside, CallType
  <2>2. x \in Nat /\ MemSize \in Nat
    BY <1>1, Sized DEF Addr
  <2> QED
    BY <1>1, <2>1, <2>2
<1>5. port.tar = x /\ port.mem = Upto(call, x) /\ d = Data(x, w)
  OBVIOUS
<1> HIDE DEF x, y, d, f
<1>6. ASSUME NEW b \in Addr PROVE f[b] = Upto(call, y)[b]
  <2>1. f[b] = IF b \in Touched(port) THEN d[b % 4] ELSE Upto(call, x)[b]
    BY <1>3, <1>5
  <2>2. b \in Nat
    BY Sized DEF Addr
  <2>3. Upto(call, x)[b] = IF call.addr <= b /\ b < x THEN New(b) ELSE Old(b)
    BY DEF Upto
  <2>4. Upto(call, y)[b] = IF call.addr <= b /\ b < y THEN New(b) ELSE Old(b)
    BY DEF Upto
  <2>5. CASE w = 4
    <3>1. x % 4 = 0 /\ y = x + 4
      BY <1>1, <2>5
    <3>2. Touched(port) = {x - (x % 4) + l : l \in Lane}
      BY <1>5, <2>5 DEF Touched
    <3>3. b \in Touched(port) <=> x <= b /\ b < x + 4
      <4>1. b \in Touched(port) <=> \E l \in Lane : b = x + l
        BY <1>4, <3>1, <3>2
      <4>2. ASSUME x <= b, b < x + 4 PROVE \E l \in Lane : b = x + l
        <5>1. b - x \in Lane /\ b = x + (b - x)
          BY <1>4, <2>2, <4>2 DEF Lane
        <5> QED
          BY <5>1
      <4> QED
        BY <1>4, <2>2, <4>1, <4>2 DEF Lane
    <3>4. ASSUME x <= b, b < x + 4 PROVE d[b % 4] = New(b)
      <4>1. b % 4 \in Lane /\ x + (b % 4) = b
        BY <1>4, <2>2, <3>1, <3>4 DEF Lane
      <4>2. d[b % 4] = New(x + (b % 4))
        BY <1>5, <2>5, <4>1 DEF Data, Word
      <4> QED
        BY <4>1, <4>2
    <3> QED
      BY <1>4, <2>1, <2>2, <2>3, <2>4, <3>1, <3>3, <3>4
  <2>6. CASE w = 1
    <3>1. y = x + 1
      BY <1>1, <2>6
    <3>2. b \in Touched(port) <=> b = x
      BY <1>5, <2>6 DEF Touched
    <3>3. ASSUME b = x PROVE d[b % 4] = New(b)
      <4>1. b % 4 \in Lane
        BY <2>2 DEF Lane
      <4> QED
        BY <1>5, <2>6, <3>3, <4>1 DEF Data, OneByte
    <3> QED
      BY <1>4, <2>1, <2>2, <2>3, <2>4, <3>1, <3>2, <3>3
  <2> QED
    BY <1>1, <2>5, <2>6 DEF Sizes
<1>7. f = [b \in Addr |-> f[b]] /\ Upto(call, y) = [b \in Addr |-> Upto(call, y)[b]]
  BY <1>3 DEF Upto
<1>8. f = Upto(call, y)
  BY <1>6, <1>7
<1> QED
  BY <1>8 DEF f, y, d, x

\* What a read leaves in the read buffer.
LEMMA ReadOn ==
  ASSUME call.op = "read", NEW a, NEW w, NEW m, Inside(a, w, m),
         NEW j \in 0 .. m - 1, port \in PortT, port.csw = w, port.tar = At(a, w, j),
         NEW x, port.mem = Upto(call, x), NEW l \in Lane, w = 4 \/ l = a % 4
  PROVE  ReadOut(port).rd[l] = Old(IF w = 4 THEN At(a, w, j) + l ELSE a)
<1> DEFINE z == At(a, w, j)
           b == z - (z % 4) + l
<1>1. /\ z \in Addr /\ w \in Sizes
      /\ IF w = 4 THEN z % 4 = 0 /\ z + 3 \in Addr ELSE z = a
  BY AtFacts DEF Inside
<1>2. ReadOut(port).rd[l] = IF b \in Touched(port) THEN port.mem[b] ELSE Zero
  BY ReadFacts
<1>3. port.tar = z
  OBVIOUS
<1>4. z \in Nat /\ MemSize \in Nat /\ l \in 0 .. 3
  BY <1>1, Sized DEF Addr, Lane
<1> HIDE DEF z
<1>5. CASE w = 4
  <2>1. b = z + l /\ b \in Addr
    BY <1>1, <1>4, <1>5 DEF Addr
  <2>2. b \in Touched(port)
    BY <1>3, <1>5 DEF Touched
  <2>3. port.mem[b] = Old(b)
    BY <2>1 DEF Upto
  <2> QED
    BY <1>2, <1>5, <2>1, <2>2, <2>3 DEF z
<1>6. CASE w = 1
  <2>1. z = a /\ l = a % 4
    BY <1>1, <1>6
  <2>2. b = a
    BY <1>4, <2>1
  <2>3. b \in Touched(port)
    BY <1>3, <1>6, <2>1, <2>2 DEF Touched
  <2>4. port.mem[b] = Old(b)
    BY <1>1, <2>1, <2>2 DEF Upto
  <2> QED
    BY <1>2, <1>6, <2>2, <2>3, <2>4
<1> QED
  BY <1>1, <1>5, <1>6 DEF Sizes

LEMMA TakenStep ==
  ASSUME NEW c, c.op = "read", c.addr \in Nat, NEW x \in Nat, c.addr <= x, NEW n \in Nat
  PROVE  Taken(c, x) \o [i \in 1 .. n |-> Old(x + i - 1)] = Taken(c, x + n)
<1> DEFINE S == {Old(b) : b \in Nat}
           p == x - c.addr
           q == (x + n) - c.addr
           s == [i \in 1 .. p |-> Old(c.addr + i - 1)]
           t == [i \in 1 .. n |-> Old(x + i - 1)]
           u == [i \in 1 .. q |-> Old(c.addr + i - 1)]
           v == s \o t
<1>1. p \in Nat /\ q \in Nat /\ q = p + n /\ x = c.addr + p
  OBVIOUS
<1>2. Taken(c, x) = s /\ Taken(c, x + n) = u
  BY DEF Taken
<1>3. s \in [1 .. p -> S] /\ t \in [1 .. n -> S] /\ u \in [1 .. q -> S]
  <2>1. \A i \in 1 .. p : c.addr + i - 1 \in Nat
    BY <1>1
  <2>2. \A i \in 1 .. n : x + i - 1 \in Nat
    OBVIOUS
  <2>3. \A i \in 1 .. q : c.addr + i - 1 \in Nat
    BY <1>1
  <2> QED
    BY <2>1, <2>2, <2>3
<1>4. /\ \A i \in 1 .. p : s[i] = Old(c.addr + i - 1)
      /\ \A i \in 1 .. n : t[i] = Old(x + i - 1)
      /\ \A i \in 1 .. q : u[i] = Old(c.addr + i - 1)
  OBVIOUS
<1> HIDE DEF p, q, s, t, u, S
<1>5. s \in Seq(S) /\ t \in Seq(S) /\ u \in Seq(S)
  BY <1>1, <1>3, SeqDef
<1>6. Len(s) = p /\ Len(t) = n /\ Len(u) = q
  BY <1>1, <1>3, <1>5, LenProperties
<1>7. /\ v \in Seq(S) /\ Len(v) = Len(s) + Len(t)
      /\ \A i \in 1 .. Len(s) + Len(t) : v[i] = IF i <= Len(s) THEN s[i] ELSE t[i - Len(s)]
  BY <1>5, ConcatProperties
<1> HIDE DEF v
<1>8. Len(v) = q
  BY <1>1, <1>6, <1>7
<1>9. ASSUME NEW i \in 1 .. q PROVE v[i] = u[i]
  <2>1. i \in 1 .. Len(s) + Len(t) /\ i \in Nat
    BY <1>1, <1>6
  <2>2. v[i] = IF i <= p THEN s[i] ELSE t[i - p]
    BY <1>6, <1>7, <2>1
  <2>3. CASE i <= p
    <3>1. i \in 1 .. p
      BY <1>1, <2>3
    <3> QED
      BY <1>4, <2>2, <2>3, <3>1
  <2>4. CASE ~(i <= p)
    <3>1. i - p \in 1 .. n /\ x + (i - p) - 1 = c.addr + i - 1
      BY <1>1, <2>4
    <3>2. t[i - p] = Old(x + (i - p) - 1)
      BY <1>4, <3>1
    <3> QED
      BY <1>4, <2>2, <2>4, <3>1, <3>2
  <2> QED
    BY <2>3, <2>4
<1>10. v = u
  BY <1>5, <1>6, <1>7, <1>8, <1>9, SeqEqual
<1> QED
  BY <1>2, <1>10 DEF v, t

LEMMA KeptType ==
  ASSUME port \in PortT, Next1.keep \in Seq(Lane)
  PROVE  Kept \in Seq(Byte)
<1> DEFINE n == Len(Next1.keep)
<1>1. n \in Nat /\ \A i \in 1 .. n : Next1.keep[i] \in Lane
  BY LenProperties, ElementOfSeq
<1>2. \A i \in 1 .. n : port.rd[Next1.keep[i]] \in Byte
  <2>1. port.rd \in [Lane -> Byte]
    BY DEF PortT
  <2> QED
    BY <1>1, <2>1
<1>3. Kept = [i \in 1 .. n |-> port.rd[Next1.keep[i]]]
  BY DEF Kept
<1> HIDE DEF n
<1> QED
  BY <1>1, <1>2, <1>3, SeqDef

LEMMA NoneKept ==
  ASSUME got \in Seq(Byte), Next1.keep = <<>>
  PROVE  got \o Kept = got
<1>1. Kept = <<>>
  BY DEF Kept
<1> QED
  BY <1>1, ConcatEmptySeq

\* The bytes of the last access, which the next one returns.
LEMMA LastKept ==
  ASSUME NEW a, NEW w, NEW m, Inside(a, w, m), NEW j \in 1 .. m, call.op = "read", Stage(a, w, m, j),
         Next1.keep = Lanes(a, w)
  PROVE  Kept = [i \in 1 .. w |-> Old(At(a, w, j - 1) + i - 1)]
<1>1. a \in Nat /\ w \in Sizes /\ j \in Nat /\ j > 0
  BY DEF Inside
<1>2. \A l \in Lane : w = 4 \/ l = a % 4 => port.rd[l] = Old(IF w = 4 THEN At(a, w, j - 1) + l ELSE a)
  BY <1>1 DEF Stage
<1>3. CASE w = 4
  <2> DEFINE z == At(a, w, j - 1)
             e == <<0, 1, 2, 3>>
  <2>1. z \in Nat
    BY <1>1, <1>3 DEF At
  <2>2. Len(e) = 4 /\ \A i \in 1 .. 4 : e[i] = i - 1
    OBVIOUS
  <2>3. Next1.keep = e
    BY <1>3 DEF Lanes
  <2> HIDE DEF e, z
  <2>4. ASSUME NEW i \in 1 .. 4 PROVE port.rd[e[i]] = Old(z + i - 1)
    <3>1. e[i] \in Lane /\ e[i] = i - 1
      BY <2>2 DEF Lane
    <3>2. port.rd[e[i]] = Old(z + e[i])
      BY <1>2, <1>3, <3>1 DEF z
    <3>3. z + e[i] = z + i - 1
      BY <2>1, <3>1
    <3> QED
      BY <3>2, <3>3
  <2>5. Kept = [i \in 1 .. 4 |-> port.rd[e[i]]]
    BY <2>2, <2>3 DEF Kept
  <2>6. [i \in 1 .. 4 |-> port.rd[e[i]]] = [i \in 1 .. 4 |-> Old(z + i - 1)]
    BY <2>4
  <2> QED
    BY <1>3, <2>5, <2>6 DEF z
<1>4. CASE w = 1
  <2>1. m = 1 /\ j = 1
    BY <1>4 DEF Inside
  <2>2. At(a, w, j - 1) = a
    BY <1>1, <1>4, <2>1 DEF At
  <2>3. Next1.keep = <<a % 4>>
    BY <1>4 DEF Lanes
  <2>4. a % 4 \in Lane
    BY <1>1 DEF Lane
  <2>5. port.rd[a % 4] = Old(a)
    BY <1>2, <1>4, <2>4
  <2> DEFINE e == <<a % 4>>
  <2>6. Len(e) = 1 /\ e[1] = a % 4
    OBVIOUS
  <2> HIDE DEF e
  <2>7. Kept = [i \in 1 .. 1 |-> port.rd[e[i]]]
    BY <2>3, <2>6 DEF Kept, e
  <2>8. ASSUME NEW i \in 1 .. 1 PROVE port.rd[e[i]] = Old(a + i - 1)
    <3>1. i = 1 /\ a + i - 1 = a
      BY <1>1
    <3> QED
      BY <2>5, <2>6, <3>1
  <2>9. [i \in 1 .. 1 |-> port.rd[e[i]]] = [i \in 1 .. 1 |-> Old(a + i - 1)]
    BY <2>8
  <2> QED
    BY <1>4, <2>2, <2>7, <2>9
<1> QED
  BY <1>1, <1>3, <1>4 DEF Sizes

\* What a read has stored once access j returns what the one before read.
LEMMA GotOn ==
  ASSUME CallType, NEW a, NEW w, NEW m, Inside(a, w, m), call.addr <= a, NEW j \in 0 .. m,
         Stage(a, w, m, j), got \in Seq(Byte), call.op = "read", Next1.keep = Keep(a, w, j)
  PROVE  got \o Kept = Taken(call, At(a, w, j))
<1>1. a \in Nat /\ w \in Sizes /\ m \in Nat \ {0} /\ j \in Nat /\ call.addr \in Nat
  BY DEF Inside, CallType
<1>2. CASE j = 0
  <2>1. got = Taken(call, a) /\ Next1.keep = <<>>
    BY <1>2 DEF Stage, Keep
  <2>2. 0 \in 0 .. m - 1
    BY <1>1
  <2>3. At(a, w, 0) = a
    BY <2>2, AtFacts
  <2> QED
    BY <1>2, <2>1, <2>3, NoneKept
<1>3. CASE j # 0
  <2> DEFINE z == At(a, w, j - 1)
  <2>1. j - 1 \in 0 .. m - 1 /\ (j - 1) + 1 = j /\ j \in 1 .. m
    BY <1>1, <1>3
  <2>2. z \in Addr /\ z + w = At(a, w, j) /\ a <= z
    BY <2>1, AtFacts
  <2>3. z \in Nat /\ w \in Nat
    BY <1>1, <2>2, Sized DEF Addr, Sizes
  <2>4. Next1.keep = Lanes(a, w) /\ got = Taken(call, z)
    BY <1>3 DEF Stage, Keep
  <2>5. Kept = [i \in 1 .. w |-> Old(z + i - 1)]
    BY <2>1, <2>4, LastKept
  <2> HIDE DEF z
  <2>6. call.addr <= z
    BY <1>1, <2>2, <2>3
  <2>7. Taken(call, z) \o [i \in 1 .. w |-> Old(z + i - 1)] = Taken(call, z + w)
    BY <1>1, <2>3, <2>6, TakenStep
  <2> QED
    BY <2>2, <2>4, <2>5, <2>7
<1> QED
  BY <1>2, <1>3

LEMMA WriteTakes == ASSUME NEW c, c.op = "write", NEW x, NEW y PROVE Taken(c, x) = Taken(c, y) /\ Taken(c, x) = <<>>
BY DEF Taken

LEMMA ReadLeaves == ASSUME NEW c, c.op = "read", NEW x, NEW y PROVE Upto(c, x) = Upto(c, y)
BY DEF Upto

\* What is written of a call is in its range.
Fits(f) == \A b \in Addr : f[b] # Old(b) => call.op = "write" /\ b \in Span

LEMMA UptoFits ==
  ASSUME CallType, NEW x \in Nat, x <= call.addr + call.size
  PROVE  Fits(Upto(call, x))
<1>1. call.addr \in Nat /\ call.size \in Nat
  BY DEF CallType
<1> SUFFICES ASSUME NEW b \in Addr, Upto(call, x)[b] # Old(b) PROVE call.op = "write" /\ b \in Span
  BY DEF Fits
<1>2. call.op = "write" /\ call.addr <= b /\ b < x
  BY DEF Upto
<1>3. b \in Nat
  BY Sized DEF Addr
<1> QED
  BY <1>1, <1>2, <1>3 DEF Span

-----------------------------------------------------------------------------
(* The steps within a call.                                                *)

LEMMA SafeOn ==
  ASSUME MemInv, CacheType', call' = call, port' \in PortT, script' \in Seq(Xfer), busy' \in BOOLEAN,
         ret' \in BOOLEAN, got' \in Seq(Byte), faults' \in 0 .. MaxFaults, Fits(port'.mem)
  PROVE  Safe'
<1>1. TypeOK /\ call.addr + call.size <= MemSize
  BY DEF MemInv, Safe
<1>2. script' \in Script
  BY XferTypes
<1>3. TypeOK'
  BY <1>1, <1>2 DEF TypeOK, CacheType, PortT
<1>4. Confined'
  BY DEF Fits, Confined, Span
<1> QED
  BY <1>1, <1>3, <1>4 DEF Safe

LEMMA Held == ASSUME MemInv PROVE Fits(port.mem) /\ port \in PortT /\ got \in Seq(Byte) /\ script \in Seq(Xfer)
                                  /\ busy \in BOOLEAN /\ ret \in BOOLEAN /\ faults \in 0 .. MaxFaults
BY XferTypes DEF MemInv, Safe, TypeOK, Confined, Fits, PortT

\* A transfer that would leave the target as p.
LEMMA Moved ==
  ASSUME MemInv, CacheType', busy, call' = call, got' \in Seq(Byte),
         NEW p \in PortT, NEW rest \in Seq(Xfer), Transfer(p, rest), Fits(p.mem)
  PROVE  /\ Safe'
         /\ \/ MemInv'
            \/ /\ busy' = TRUE /\ script' = rest
               /\ (~port.sticky /\ port' = p) \/ (port'.sticky /\ port'.mem = port.mem)
<1>1. TypeOK
  BY DEF MemInv, Safe
<1>2. /\ port' \in PortT /\ faults' \in 0 .. MaxFaults
      /\ script' \in Seq(Xfer) /\ busy' \in BOOLEAN /\ ret' \in BOOLEAN
      /\ \/ Go(rest) /\ ~port.sticky /\ port' = p
         \/ Go(rest) /\ port'.sticky /\ port'.mem = port.mem
         \/ Fail /\ port'.mem = port.mem
         \/ Fail /\ ~port.sticky /\ port' = p
  BY <1>1, TransferResult
<1>3. Fits(port'.mem)
  BY <1>2, Held
<1>4. Safe'
  BY <1>2, <1>3, SafeOn
<1>5. CASE Fail
  <2>1. script' = <<>> /\ busy' = FALSE /\ ret' = FALSE
    BY <1>5 DEF Fail
  <2> QED
    BY <1>4, <2>1, Stops
<1>6. CASE Go(rest)
  <2>1. script' = rest /\ busy' = busy
    BY <1>6 DEF Go
  <2>2. busy' = TRUE
    BY <1>1, <2>1 DEF TypeOK
  <2>3. CASE Fail
    BY <1>4, <1>5, <2>3
  <2>4. CASE ~Fail
    BY <1>2, <1>4, <2>1, <2>2, <2>4
  <2> QED
    BY <2>3, <2>4
<1> QED
  BY <1>2, <1>5, <1>6

\* One that leaves the target as it is.
LEMMA Unmoved ==
  ASSUME MemInv, CacheType', busy, call' = call, got' \in Seq(Byte), port' = port,
         NEW rest \in Seq(Xfer), Go(rest) \/ Fail, faults' \in 0 .. MaxFaults
  PROVE  Safe' /\ (MemInv' \/ (busy' = TRUE /\ script' = rest))
<1>1. TypeOK
  BY DEF MemInv, Safe
<1>2. script' \in Seq(Xfer) /\ busy' \in BOOLEAN /\ ret' \in BOOLEAN
  BY <1>1, GoFailTypes
<1>3. Safe'
  BY <1>2, Held, SafeOn
<1>4. CASE Fail
  <2>1. script' = <<>> /\ busy' = FALSE /\ ret' = FALSE
    BY <1>4 DEF Fail
  <2> QED
    BY <1>3, <2>1, Stops
<1>5. CASE Go(rest)
  <2>1. script' = rest /\ busy' = busy
    BY <1>5 DEF Go
  <2> QED
    BY <1>1, <1>3, <2>1 DEF TypeOK
<1> QED
  BY <1>4, <1>5

\* swd_init_debug goes on.
LEMMA Starts ==
  ASSUME MemInv, call' = call, call.op = "init", Safe', script' \in Seq(InitOp), busy' = TRUE
  PROVE  MemInv'
BY DEF MemInv, Where

LEMMA MemWriteSelect ==
  ASSUME CacheInv, CacheInv', MemInv, WriteSelect
  PROVE  MemInv'
<1> DEFINE p == [port EXCEPT !.select = Next1.v]
<1>1. busy /\ script # <<>> /\ Next1.k = "select" /\ call' = call /\ got' = got
  BY DEF WriteSelect, Doing
<1>2. CacheType' /\ CallType
  BY DEF CacheInv
<1>3. Next1 \in Xfer /\ Rest \in Seq(Xfer)
  BY <1>1, Held, HeadTailProperties DEF Next1, Rest
<1>4. Next1.v = "b0"
  BY <1>1, <1>3 DEF Xfer
<1>5. p \in PortT /\ p.mem = port.mem
  BY <1>4, Held DEF PortT
<1> HIDE DEF p
<1>6. \/ Go(Rest) /\ port' = port /\ faults' = faults
      \/ Transfer(p, Rest)
  BY DEF WriteSelect, p
<1>7. Safe' /\ (MemInv' \/ (busy' = TRUE /\ script' = Rest /\ port'.mem = port.mem))
  <2>1. CASE Go(Rest) /\ port' = port /\ faults' = faults
    BY <1>1, <1>2, <1>3, <2>1, Held, Unmoved
  <2>2. CASE Transfer(p, Rest)
    <3>1. Fits(p.mem)
      BY <1>5, Held
    <3> QED
      BY <1>1, <1>2, <1>3, <1>5, <2>2, <3>1, Held, Moved
  <2> QED
    BY <1>6, <2>1, <2>2
<1>8. CASE busy' = TRUE /\ script' = Rest /\ port'.mem = port.mem
  <2>1. CASE call.op = "init"
    BY <1>1, <1>2, <1>7, <1>8, <2>1, Kinds, Starts
  <2>2. CASE call.op # "init"
    <3>1. PICK a \in Nat, w \in Sizes, m \in Nat \ {0} :
            Piece(a, w, m) /\ Inside(a, w, m) /\ Kind(a, w, m)
      BY <1>1, <1>2, <2>2, Kinds
    <3>2. Stage1(a, w, m)
      BY <1>1, <3>1 DEF Kind
    <3>3. Setting(a, w, m)'
      BY <1>1, <1>8, <3>2 DEF Stage1, Setting, FromTar, Body, Access, Upto, Taken
    <3> QED
      BY <1>1, <1>7, <1>8, <2>2, <3>1, <3>3, Continues
  <2> QED
    BY <2>1, <2>2
<1> QED
  BY <1>7, <1>8

LEMMA MemWriteApCsw ==
  ASSUME CacheInv, CacheInv', MemInv, WriteApCsw
  PROVE  MemInv'
<1> DEFINE p == [port EXCEPT !.csw = Next1.v]
           r == Rdbuff(<<>>)
           q == <<r>> \o Rest
<1>1. busy /\ script # <<>> /\ Next1.k = "csw" /\ call' = call /\ got' = got
  BY DEF WriteApCsw, Doing
<1>2. CacheType' /\ CallType
  BY DEF CacheInv
<1>3. Next1 \in Xfer /\ Rest \in Seq(Xfer)
  BY <1>1, Held, HeadTailProperties DEF Next1, Rest
<1>4. Next1.v \in Sizes
  BY <1>1, <1>3 DEF Xfer
<1>5. p \in PortT /\ p.mem = port.mem
  BY <1>4, Held DEF PortT
<1>6. q \in Seq(Xfer)
  <2>1. << >> \in Seq(Lane)
    OBVIOUS
  <2>2. r \in Xfer
    BY <2>1, XferTypes
  <2> HIDE DEF r
  <2> QED
    BY <1>3, <2>2, Cons
<1>7. \/ Go(Rest) /\ port' = port /\ faults' = faults /\ dap_state' = dap_state /\ dap_state.csw = Next1.v
      \/ Transfer(p, q) /\ dap_state' = [dap_state EXCEPT !.csw = Next1.v]
  BY DEF WriteApCsw
<1>8. dap_state'.csw = Next1.v
  BY <1>7 DEF CacheInv, CacheType
<1>9. /\ Safe'
      /\ MemInv' \/ (busy' = TRUE /\ (script' = Rest \/ script' = q) /\ port'.mem = port.mem)
  <2> HIDE DEF p, q
  <2>1. CASE Go(Rest) /\ port' = port /\ faults' = faults
    BY <1>1, <1>2, <1>3, <2>1, Held, Unmoved
  <2>2. CASE Transfer(p, q)
    <3>1. Fits(p.mem)
      BY <1>5, Held
    <3> QED
      BY <1>1, <1>2, <1>6, <1>5, <2>2, <3>1, Held, Moved
  <2> QED
    BY <1>7, <2>1, <2>2
<1>10. CASE busy' = TRUE /\ (script' = Rest \/ script' = q) /\ port'.mem = port.mem
  <2>1. call.op # "init"
    BY <1>1, <1>2, Kinds
  <2>2. PICK a \in Nat, w \in Sizes, m \in Nat \ {0} :
            Piece(a, w, m) /\ Inside(a, w, m) /\ Kind(a, w, m)
    BY <1>1, <1>2, <2>1, Kinds
  <2>3. Stage2(a, w, m)
    BY <1>1, <2>2 DEF Kind
  <2>4. Next1.v = w
    BY <2>3 DEF Stage2, Csw
  <2>5. Setting(a, w, m)'
    BY <1>1, <1>8, <1>10, <2>3, <2>4 DEF Stage2, Setting, FromTar, Body, Access, Upto, Taken
  <2> QED
    BY <1>1, <1>9, <1>10, <2>1, <2>2, <2>5, Continues
<1> QED
  BY <1>9, <1>10

LEMMA MemWriteTar ==
  ASSUME CacheInv, CacheInv', MemInv, WriteTar
  PROVE  MemInv'
<1> DEFINE p == [port EXCEPT !.tar = Next1.v]
<1>1. /\ busy /\ script # <<>> /\ Next1.k = "tar" /\ call' = call /\ got' = got /\ dap_state' = dap_state
      /\ Transfer(p, Rest)
  BY DEF WriteTar, Doing
<1>2. CacheType' /\ CallType
  BY DEF CacheInv
<1>3. Next1 \in Xfer /\ Rest \in Seq(Xfer)
  BY <1>1, Held, HeadTailProperties DEF Next1, Rest
<1>4. Next1.v \in Addr
  BY <1>1, <1>3 DEF Xfer
<1>5. p \in PortT /\ p.mem = port.mem /\ p.tar = Next1.v
  BY <1>4, Held DEF PortT
<1>6. call.op # "init"
  BY <1>1, <1>2, Kinds
<1>7. PICK a \in Nat, w \in Sizes, m \in Nat \ {0} :
          Piece(a, w, m) /\ Inside(a, w, m) /\ Kind(a, w, m)
  BY <1>1, <1>2, <1>6, Kinds
<1>8. Stage4(a, w, m)
  BY <1>1, <1>7 DEF Kind
<1>9. Next1.v = a
  BY <1>8 DEF Stage4, Tar
<1> HIDE DEF p
<1>10. /\ Safe'
       /\ \/ MemInv'
          \/ /\ busy' = TRUE /\ script' = Rest
             /\ (~port.sticky /\ port' = p) \/ (port'.sticky /\ port'.mem = port.mem)
  <2>1. Fits(p.mem)
    BY <1>5, Held
  <2> QED
    BY <1>1, <1>2, <1>3, <1>5, <2>1, Held, Moved
<1>11. CASE /\ busy' = TRUE /\ script' = Rest
            /\ (~port.sticky /\ port' = p) \/ (port'.sticky /\ port'.mem = port.mem)
  <2>1. 0 \in 0 .. m - 1 /\ 0 \in 0 .. m
    BY <1>7 DEF Inside
  <2>2. At(a, w, 0) = a
    BY <1>7, <2>1, AtFacts
  <2>3. script' = Body(call.op, a, w, m, 0) /\ dap_state'.csw = w
    BY <1>1, <1>8, <1>11 DEF Stage4
  <2>4. port'.sticky \/ (port'.tar = a /\ port'.mem = Upto(call, a) /\ got' = Taken(call, a))
    BY <1>1, <1>5, <1>8, <1>9, <1>11 DEF Stage4
  <2>5. Moving(a, w, m, 0)'
    <3>1. port'.sticky \/ Stage(a, w, m, 0)'
      BY <1>1, <2>2, <2>4 DEF Stage
    <3> QED
      BY <1>1, <2>3, <3>1 DEF Moving
  <2> QED
    BY <1>1, <1>6, <1>7, <1>10, <1>11, <2>1, <2>5, Continues
<1> QED
  BY <1>10, <1>11

\* An access of a piece: the target is where the piece is, or refuses.
LEMMA Accessing ==
  ASSUME CacheInv, NEW a, NEW w \in Sizes, NEW m \in Nat, NEW j \in 0 .. m - 1, Stage5(a, w, m, j), ~port.sticky
  PROVE  port.csw = w /\ Stage(a, w, m, j) /\ port.tar = At(a, w, j) /\ port.mem = Upto(call, At(a, w, j))
<1>1. dap_state.csw = w /\ Stage(a, w, m, j)
  BY DEF Stage5
<1>2. port.csw = w
  BY <1>1 DEF CacheInv, CacheCoherent, Fake, Sizes
<1>3. j < m
  OBVIOUS
<1> QED
  BY <1>1, <1>2, <1>3 DEF Stage

LEMMA Refusal ==
  ASSUME MemInv, CacheType', busy, call' = call, got' \in Seq(Byte), port.sticky,
         NEW p, NEW rest \in Seq(Xfer), Transfer(p, rest)
  PROVE  MemInv'
<1>1. Fail /\ port' = port /\ faults' = faults
  BY DEF Transfer
<1>2. Safe'
  BY <1>1, Held, Unmoved
<1>3. script' = <<>> /\ busy' = FALSE /\ ret' = FALSE
  BY <1>1 DEF Fail
<1> QED
  BY <1>2, <1>3, Stops

LEMMA Within ==
  ASSUME CallType, NEW a, NEW w, NEW m, Piece(a, w, m), Inside(a, w, m), NEW j \in 0 .. m - 1
  PROVE  /\ call.addr <= a
         /\ At(a, w, j) \in Nat /\ At(a, w, j) <= call.addr + call.size
         /\ At(a, w, j + 1) \in Nat /\ At(a, w, j + 1) <= call.addr + call.size
<1>1. call.addr \in Nat /\ call.size \in Nat /\ call.done \in Nat /\ call.done <= call.size
  BY DEF CallType
<1>2. /\ At(a, w, j) \in Addr /\ At(a, w, j) + w = At(a, w, j + 1)
      /\ At(a, w, j + 1) <= At(a, w, m)
  BY AtFacts
<1>3. At(a, w, m) = call.addr + call.done /\ call.addr <= a
  BY DEF Piece
<1>4. w \in Nat
  BY DEF Inside, Sizes
<1>5. At(a, w, j) \in Nat
  BY <1>2, Sized DEF Addr
<1> DEFINE x == At(a, w, j)
           y == At(a, w, j + 1)
           z == At(a, w, m)
<1> HIDE DEF x, y, z
<1>6. x \in Nat /\ x + w = y /\ y <= z /\ z = call.addr + call.done
  BY <1>2, <1>3, <1>5 DEF x, y, z
<1>7. x <= call.addr + call.size /\ y \in Nat /\ y <= call.addr + call.size
  BY <1>1, <1>4, <1>6
<1> QED
  BY <1>3, <1>6, <1>7 DEF x, y

LEMMA MemWriteDrw ==
  ASSUME CacheInv, CacheInv', MemInv, WriteDrw
  PROVE  MemInv'
<1> DEFINE p == Written(port, Next1.d)
<1>1. /\ busy /\ script # <<>> /\ Next1.k = "drww" /\ call' = call /\ got' = got /\ dap_state' = dap_state
      /\ Transfer(p, Rest)
  BY DEF WriteDrw, Doing
<1>2. CacheType' /\ CallType
  BY DEF CacheInv
<1>3. Next1 \in Xfer /\ Rest \in Seq(Xfer)
  BY <1>1, Held, HeadTailProperties DEF Next1, Rest
<1>4. Next1.d \in [Lane -> Byte]
  BY <1>1, <1>3 DEF Xfer
<1>5. /\ p \in PortT /\ p.tar = Bumped(port.tar, port.csw) /\ p.rd = port.rd
  BY <1>4, Held, WrittenFacts
<1>6. call.op # "init"
  BY <1>1, <1>2, Kinds
<1>7. PICK a \in Nat, w \in Sizes, m \in Nat \ {0} :
          Piece(a, w, m) /\ Inside(a, w, m) /\ Kind(a, w, m)
  BY <1>1, <1>2, <1>6, Kinds
<1>8. call.op = "write" /\ \E j \in 0 .. m - 1 : Stage5(a, w, m, j)
  BY <1>1, <1>7 DEF Kind
<1>9. PICK j \in 0 .. m - 1 : Stage5(a, w, m, j)
  BY <1>8
<1>10. CASE port.sticky
  BY <1>1, <1>2, <1>3, <1>10, Held, Refusal
<1>11. CASE ~port.sticky
  <2>1. port.csw = w /\ Stage(a, w, m, j) /\ port.tar = At(a, w, j) /\ port.mem = Upto(call, At(a, w, j))
    BY <1>9, <1>11, Accessing
  <2>2. j < m /\ j \in Nat
    OBVIOUS
  <2>3. Next1.d = Data(At(a, w, j), w)
    BY <1>8, <1>9, <2>2 DEF Stage5, Access, DrwW
  <2>4. call.addr <= a /\ At(a, w, j + 1) \in Nat /\ At(a, w, j + 1) <= call.addr + call.size
    BY <1>2, <1>7, Within
  <2>5. p.mem = Upto(call, At(a, w, j + 1))
    <3>1. port \in PortT
      BY Held
    <3>2. Written(port, Data(At(a, w, j), w)).mem = Upto(call, At(a, w, j + 1))
      BY <1>2, <1>7, <1>8, <2>1, <2>4, <3>1, WriteOn
    <3> QED
      BY <2>3, <3>2
  <2>6. Fits(p.mem)
    BY <1>2, <2>4, <2>5, UptoFits
  <2> HIDE DEF p
  <2>7. /\ Safe'
        /\ \/ MemInv'
           \/ /\ busy' = TRUE /\ script' = Rest
              /\ (~port.sticky /\ port' = p) \/ (port'.sticky /\ port'.mem = port.mem)
    BY <1>1, <1>2, <1>3, <1>5, <2>6, Held, Moved
  <2>8. CASE /\ busy' = TRUE /\ script' = Rest
             /\ (~port.sticky /\ port' = p) \/ (port'.sticky /\ port'.mem = port.mem)
    <3>1. script' = Body(call.op, a, w, m, j + 1) /\ dap_state'.csw = w
      BY <1>1, <1>9, <2>8 DEF Stage5
    <3>2. ASSUME port' = p PROVE Stage(a, w, m, j + 1)'
      <4>1. j + 1 < m => p.tar = At(a, w, j + 1)
        BY <1>5, <1>7, <2>1, NextTar DEF Piece
      <4>2. got' = Taken(call, IF j + 1 = 0 THEN a ELSE At(a, w, j + 1 - 1))
        BY <1>1, <1>8, <2>1, WriteTakes DEF Stage
      <4>3. call'.op = "write"
        BY <1>1, <1>8
      <4> QED
        BY <1>1, <2>5, <3>2, <4>1, <4>2, <4>3 DEF Stage
    <3>3. Moving(a, w, m, j + 1)'
      BY <1>1, <2>8, <3>1, <3>2 DEF Moving
    <3>4. j + 1 \in 0 .. m
      BY <2>2
    <3>5. \E i \in 0 .. m : Moving(a, w, m, i)'
      BY <3>3, <3>4
    <3> QED
      BY <1>1, <1>6, <1>7, <2>7, <2>8, <3>5, Continues
  <2> QED
    BY <2>7, <2>8
<1> QED
  BY <1>10, <1>11

LEMMA MemReadDrw ==
  ASSUME CacheInv, CacheInv', MemInv, ReadDrw
  PROVE  MemInv'
<1> DEFINE p == ReadOut(port)
<1>1. /\ busy /\ script # <<>> /\ Next1.k = "drwr" /\ call' = call /\ dap_state' = dap_state
      /\ got' = (IF busy' THEN got \o Kept ELSE got)
      /\ Transfer(p, Rest)
  BY DEF ReadDrw, Doing
<1>2. CacheType' /\ CallType
  BY DEF CacheInv
<1>3. Next1 \in Xfer /\ Rest \in Seq(Xfer)
  BY <1>1, Held, HeadTailProperties DEF Next1, Rest
<1>4. Next1.keep \in Seq(Lane)
  BY <1>1, <1>3 DEF Xfer
<1>5. p \in PortT /\ p.tar = Bumped(port.tar, port.csw) /\ p.mem = port.mem
  BY Held, ReadFacts
<1>6. got' \in Seq(Byte)
  <2>1. got \in Seq(Byte) /\ Kept \in Seq(Byte)
    BY <1>4, Held, KeptType
  <2>2. got \o Kept \in Seq(Byte)
    BY <2>1, ConcatProperties
  <2> QED
    BY <1>1, <2>1, <2>2
<1>7. call.op # "init"
  BY <1>1, <1>2, Kinds
<1>8. PICK a \in Nat, w \in Sizes, m \in Nat \ {0} :
          Piece(a, w, m) /\ Inside(a, w, m) /\ Kind(a, w, m)
  BY <1>1, <1>2, <1>7, Kinds
<1>9. call.op = "read" /\ \E j \in 0 .. m - 1 : Stage5(a, w, m, j)
  BY <1>1, <1>8 DEF Kind
<1>10. PICK j \in 0 .. m - 1 : Stage5(a, w, m, j)
  BY <1>9
<1>11. CASE port.sticky
  BY <1>1, <1>2, <1>3, <1>6, <1>11, Refusal
<1>12. CASE ~port.sticky
  <2>1. port.csw = w /\ Stage(a, w, m, j) /\ port.tar = At(a, w, j) /\ port.mem = Upto(call, At(a, w, j))
    BY <1>10, <1>12, Accessing
  <2>2. j < m /\ j \in Nat /\ j \in 0 .. m
    OBVIOUS
  <2>3. Next1.keep = Keep(a, w, j)
    BY <1>9, <1>10, <2>2 DEF Stage5, Access, DrwR
  <2>4. call.addr <= a
    BY <1>2, <1>8, Within
  <2>5. Fits(p.mem) /\ got \in Seq(Byte) /\ port \in PortT
    BY <1>5, Held
  <2>6. got \o Kept = Taken(call, At(a, w, j))
    BY <1>2, <1>8, <1>9, <2>1, <2>2, <2>3, <2>4, <2>5, GotOn
  <2>7. \A l \in Lane : w = 4 \/ l = a % 4 => p.rd[l] = Old(IF w = 4 THEN At(a, w, j) + l ELSE a)
    BY <1>8, <1>9, <2>1, <2>5, ReadOn
  <2> HIDE DEF p
  <2>8. /\ Safe'
        /\ \/ MemInv'
           \/ /\ busy' = TRUE /\ script' = Rest
              /\ (~port.sticky /\ port' = p) \/ (port'.sticky /\ port'.mem = port.mem)
    BY <1>1, <1>2, <1>3, <1>5, <1>6, <2>5, Moved
  <2>9. CASE /\ busy' = TRUE /\ script' = Rest
             /\ (~port.sticky /\ port' = p) \/ (port'.sticky /\ port'.mem = port.mem)
    <3>1. script' = Body(call.op, a, w, m, j + 1) /\ dap_state'.csw = w
      BY <1>1, <1>10, <2>9 DEF Stage5
    <3>2. ASSUME port' = p PROVE Stage(a, w, m, j + 1)'
      <4>1. j + 1 < m => p.tar = At(a, w, j + 1)
        BY <1>5, <1>8, <2>1, NextTar DEF Piece
      <4>2. j + 1 - 1 = j /\ j + 1 # 0
        BY <2>2
      <4>3. got' = Taken(call, IF j + 1 = 0 THEN a ELSE At(a, w, j + 1 - 1))
        BY <1>1, <2>6, <2>9, <4>2
      <4>4. p.mem = Upto(call, At(a, w, j + 1))
        BY <1>5, <1>9, <2>1, ReadLeaves
      <4>5. \A l \in Lane : w = 4 \/ l = a % 4 =>
              p.rd[l] = Old(IF w = 4 THEN At(a, w, j + 1 - 1) + l ELSE a)
        BY <2>7, <4>2
      <4>6. port'.tar = p.tar /\ port'.mem = p.mem /\ port'.rd = p.rd /\ call' = call
        BY <1>1, <3>2
      <4>7. \A l \in Lane : w = 4 \/ l = a % 4 =>
              port'.rd[l] = Old(IF w = 4 THEN At(a, w, j + 1 - 1) + l ELSE a)
        BY <4>5, <4>6
      <4> QED
        BY <4>1, <4>3, <4>4, <4>6, <4>7 DEF Stage
    <3>3. Moving(a, w, m, j + 1)'
      BY <1>1, <2>9, <3>1, <3>2 DEF Moving
    <3>4. j + 1 \in 0 .. m
      BY <2>2
    <3>5. \E i \in 0 .. m : Moving(a, w, m, i)'
      BY <3>3, <3>4
    <3> QED
      BY <1>1, <1>7, <1>8, <2>8, <2>9, <3>5, Continues
  <2> QED
    BY <2>8, <2>9
<1> QED
  BY <1>11, <1>12

LEMMA MemReadRdbuff ==
  ASSUME CacheInv, CacheInv', MemInv, ReadRdbuff
  PROVE  MemInv'
<1>1. /\ busy /\ script # <<>> /\ Next1.k = "rdbuff" /\ call' = call /\ dap_state' = dap_state
      /\ got' = (IF busy' THEN got \o Kept ELSE got) /\ port' = port
      /\ (port.sticky /\ Fail) \/ (~port.sticky /\ (Go(Rest) \/ Fail))
  BY DEF ReadRdbuff, Doing, Answered
<1>2. CacheType' /\ CallType /\ TypeOK
  BY DEF CacheInv, MemInv, Safe
<1>3. faults' \in 0 .. MaxFaults
  <2>1. faults' = faults \/ Fault("refused") \/ Fault("unheard")
    BY DEF ReadRdbuff, Answered
  <2> QED
    BY <1>2, <2>1, Held, Faulted
<1>4. Next1 \in Xfer /\ Rest \in Seq(Xfer)
  BY <1>1, Held, HeadTailProperties DEF Next1, Rest
<1>5. Next1.keep \in Seq(Lane)
  BY <1>1, <1>4 DEF Xfer
<1>6. got' \in Seq(Byte) /\ got \in Seq(Byte)
  <2>1. got \in Seq(Byte) /\ Kept \in Seq(Byte)
    BY <1>5, Held, KeptType
  <2>2. got \o Kept \in Seq(Byte)
    BY <2>1, ConcatProperties
  <2> QED
    BY <1>1, <2>1, <2>2
<1>7. Safe' /\ (MemInv' \/ (busy' = TRUE /\ script' = Rest))
  BY <1>1, <1>2, <1>3, <1>4, <1>6, Unmoved
<1>8. call.op # "init"
  BY <1>1, <1>2, Kinds
<1>9. PICK a \in Nat, w \in Sizes, m \in Nat \ {0} :
          Piece(a, w, m) /\ Inside(a, w, m) /\ Kind(a, w, m)
  BY <1>1, <1>2, <1>8, Kinds
<1>10. Stage3(a, w, m) \/ Stage5(a, w, m, m)
  BY <1>1, <1>9 DEF Kind
<1>11. CASE busy' = TRUE /\ script' = Rest /\ ~port.sticky
  <2>1. CASE Stage3(a, w, m)
    <3>1. Next1.keep = <<>>
      BY <2>1 DEF Stage3, Rdbuff
    <3>2. got' = got
      BY <1>1, <1>6, <1>11, <3>1, NoneKept
    <3>3. Setting(a, w, m)'
      BY <1>1, <1>11, <2>1, <3>2 DEF Stage3, Setting, FromTar, Body, Access, Upto, Taken
    <3> QED
      BY <1>1, <1>7, <1>8, <1>9, <1>11, <3>3, Continues
  <2>2. CASE Stage5(a, w, m, m)
    <3>1. Stage(a, w, m, m) /\ Rest = Body(call.op, a, w, m, m + 1) /\ Next1 = Access(call.op, a, w, m, m)
      BY <1>11, <2>2 DEF Stage5
    <3>2. m \in 0 .. m /\ m # 0 /\ ~(m < m) /\ call.addr <= a
      BY <1>9 DEF Piece
    <3>3. Rest = <<>>
      <4>1. Stepped(call.op, a, w, m, m)
        BY <1>9, <3>2, BodyStep
      <4> QED
        BY <3>1, <4>1 DEF Stepped
    <3>4. At(a, w, m) = call.addr + call.done
      BY <1>9 DEF Piece
    <3>5. port.mem = Upto(call, call.addr + call.done)
      BY <3>1, <3>4 DEF Stage
    <3>6. got' = Taken(call, call.addr + call.done)
      <4>1. CASE call.op = "write"
        <5>1. Next1.keep = <<>>
          BY <3>1, <3>2, <4>1 DEF Access, Rdbuff
        <5>2. got' = got
          BY <1>1, <1>6, <1>11, <5>1, NoneKept
        <5>3. got = <<>>
          BY <3>1, <4>1, WriteTakes DEF Stage
        <5> QED
          BY <4>1, <5>2, <5>3, WriteTakes
      <4>2. CASE call.op = "read"
        <5>1. Next1.keep = Keep(a, w, m)
          BY <3>1, <3>2, <4>2 DEF Access, Rdbuff
        <5>2. got \o Kept = Taken(call, At(a, w, m))
          BY <1>2, <1>6, <1>9, <3>1, <3>2, <4>2, <5>1, GotOn
        <5> QED
          BY <1>1, <1>11, <3>4, <5>2
      <4> QED
        BY <1>2, <1>8, <4>1, <4>2 DEF CallType
    <3>7. Done(call.addr + call.done)'
      BY <1>1, <1>11, <3>3, <3>5, <3>6 DEF Done, Upto, Taken
    <3> QED
      BY <1>1, <1>7, <1>8, <1>11, <3>7, Finishes
  <2> QED
    BY <1>10, <2>1, <2>2
<1>12. CASE port.sticky
  <2>1. script' = <<>> /\ busy' = FALSE /\ ret' = FALSE
    BY <1>1, <1>12 DEF Fail
  <2> QED
    BY <1>1, <1>7, <2>1, Stops
<1> QED
  BY <1>7, <1>11, <1>12

LEMMA MemReadIdcode ==
  ASSUME CacheInv, CacheInv', MemInv, ReadIdcode
  PROVE  MemInv'
<1>1. /\ busy /\ script # <<>> /\ Next1.k = "idcode" /\ call' = call /\ dap_state' = dap_state
      /\ got' = got /\ port' = port /\ (Go(Rest) \/ Fail)
  BY DEF ReadIdcode, Doing, Answered
<1>2. CacheType' /\ CallType /\ TypeOK
  BY DEF CacheInv, MemInv, Safe
<1>3. faults' \in 0 .. MaxFaults
  <2>1. faults' = faults \/ Fault("refused") \/ Fault("unheard")
    BY DEF ReadIdcode, Answered
  <2> QED
    BY <1>2, <2>1, Held, Faulted
<1>4. Rest \in Seq(Xfer)
  BY <1>1, Held, HeadTailProperties DEF Rest
<1>5. got' \in Seq(Byte)
  BY <1>1, Held
<1>6. Safe' /\ (MemInv' \/ (busy' = TRUE /\ script' = Rest))
  BY <1>1, <1>2, <1>3, <1>4, <1>5, Unmoved
<1>7. call.op = "init" /\ Rest \in Seq(InitOp)
  <2>1. ASSUME call.op # "init" PROVE FALSE
    <3>1. \E a \in Nat, w \in Sizes, m \in Nat \ {0} : Kind(a, w, m)
      BY <1>1, <1>2, <2>1, Kinds
    <3> QED
      BY <1>1, <3>1 DEF Kind
  <2> QED
    BY <1>1, <1>2, <2>1, Kinds
<1> QED
  BY <1>1, <1>6, <1>7, Starts

LEMMA MemWriteAbort ==
  ASSUME CacheInv, CacheInv', MemInv, WriteAbort
  PROVE  MemInv'
<1>1. /\ busy /\ script # <<>> /\ Next1.k = "abort" /\ call' = call /\ dap_state' = dap_state
      /\ got' = got /\ (Go(Rest) \/ Fail)
  BY DEF WriteAbort, Doing
<1>2. CacheType' /\ CallType /\ TypeOK
  BY DEF CacheInv, MemInv, Safe
<1>3. port' \in PortT /\ port'.mem = port.mem
  <2>1. port \in PortT
    BY Held
  <2>2. port' = port \/ port' = [port EXCEPT !.sticky = TRUE] \/ port' = [port EXCEPT !.sticky = FALSE]
    BY DEF WriteAbort
  <2> QED
    BY <2>1, <2>2 DEF PortT
<1>4. faults' \in 0 .. MaxFaults
  <2>1. faults' = faults \/ Fault("dropped") \/ Fault("refused") \/ Fault("unheard")
    BY DEF WriteAbort
  <2> QED
    BY <1>2, <2>1, Held, Faulted
<1>5. Rest \in Seq(Xfer)
  BY <1>1, Held, HeadTailProperties DEF Rest
<1>6. script' \in Seq(Xfer) /\ busy' \in BOOLEAN /\ ret' \in BOOLEAN
  BY <1>1, <1>2, <1>5, GoFailTypes
<1>7. Safe'
  BY <1>1, <1>2, <1>3, <1>4, <1>6, Held, SafeOn
<1>8. call.op = "init" /\ Rest \in Seq(InitOp)
  <2>1. ASSUME call.op # "init" PROVE FALSE
    <3>1. \E a \in Nat, w \in Sizes, m \in Nat \ {0} : Kind(a, w, m)
      BY <1>1, <1>2, <2>1, Kinds
    <3> QED
      BY <1>1, <3>1 DEF Kind
  <2> QED
    BY <1>1, <1>2, <2>1, Kinds
<1>9. CASE Fail
  <2>1. script' = <<>> /\ busy' = FALSE /\ ret' = FALSE
    BY <1>9 DEF Fail
  <2> QED
    BY <1>1, <1>7, <2>1, Stops
<1>10. CASE Go(Rest)
  <2>1. script' = Rest /\ busy' = TRUE
    BY <1>1, <1>10, Held DEF Go
  <2> QED
    BY <1>1, <1>7, <1>8, <2>1, Starts
<1> QED
  BY <1>1, <1>9, <1>10

LEMMA MemWriteCtrl ==
  ASSUME CacheInv, CacheInv', MemInv, WriteCtrl
  PROVE  MemInv'
<1>1. /\ busy /\ script # <<>> /\ Next1.k = "ctrl" /\ call' = call /\ dap_state' = dap_state
      /\ got' = got /\ Transfer(port, Rest)
  BY DEF WriteCtrl, Doing
<1>2. CacheType' /\ CallType
  BY DEF CacheInv
<1>3. Rest \in Seq(Xfer)
  BY <1>1, Held, HeadTailProperties DEF Rest
<1>4. got' \in Seq(Byte) /\ port \in PortT /\ Fits(port.mem)
  BY <1>1, Held
<1>5. Safe' /\ (MemInv' \/ (busy' = TRUE /\ script' = Rest))
  BY <1>1, <1>2, <1>3, <1>4, Moved
<1>6. call.op = "init" /\ Rest \in Seq(InitOp)
  <2>1. ASSUME call.op # "init" PROVE FALSE
    <3>1. \E a \in Nat, w \in Sizes, m \in Nat \ {0} : Kind(a, w, m)
      BY <1>1, <1>2, <2>1, Kinds
    <3> QED
      BY <1>1, <3>1 DEF Kind
  <2> QED
    BY <1>1, <1>2, <2>1, Kinds
<1> QED
  BY <1>1, <1>5, <1>6, Starts

-----------------------------------------------------------------------------
(* The beginning and the end of a call, and of a piece.                    *)

LEMMA InitOps == swd_init_debug \in Seq(InitOp) /\ swd_init_debug \in Script
<1>1. Req("idcode") \in InitOp /\ Req("abort") \in InitOp /\ Req("ctrl") \in InitOp /\ Select("b0") \in InitOp
  BY DEF Req, Select, InitOp
<1>2. swd_init_debug \in Seq(InitOp)
  BY <1>1 DEF swd_init_debug
<1>3. InitOp \subseteq Xfer
  BY DEF InitOp, Xfer
<1>4. swd_init_debug \in Seq(Xfer)
  BY <1>2, <1>3, SeqMonotonic
<1> QED
  BY <1>2, <1>4, XferTypes

LEMMA BeforeType == Before \in [Addr -> Byte] /\ \A b \in Addr : Before[b] = Old(b)
BY DEF Before, Byte

LEMMA MemInit == Init => MemInv
<1> SUFFICES ASSUME Init PROVE MemInv
  OBVIOUS
<1>1. 0 \in Addr /\ MemSize \in Nat
  BY Sized DEF Addr
<1>2. Zero \in Byte
  BY DEF Byte
<1>3. port \in PortT /\ port.mem = Before
  BY <1>1, <1>2, BeforeType DEF Init, PortT
<1>4. call \in [op : {"init", "write", "read"}, addr : Nat, size : Nat, done : Nat] /\ call.done <= call.size
  BY DEF Init
<1>5. dap_state \in [select : {"none", "b0"}, csw : Sizes \cup {Fake}] /\ busy \in BOOLEAN /\ ret \in BOOLEAN
  BY DEF Init
<1>6. got \in Seq(Byte) /\ faults \in 0 .. MaxFaults
  <2>1. << >> \in Seq(Byte)
    OBVIOUS
  <2> QED
    BY <2>1, FaultsAssumption DEF Init
<1>7. TypeOK
  BY <1>3, <1>4, <1>5, <1>6, InitOps DEF TypeOK, PortT, Init
<1>8. Confined
  BY <1>3, BeforeType DEF Confined
<1>9. call.op = "init" /\ call.size = 0 /\ call.addr = 0 /\ busy = TRUE /\ script \in Seq(InitOp)
  BY InitOps DEF Init
<1>10. Safe
  BY <1>1, <1>7, <1>8, <1>9 DEF Safe
<1> QED
  BY <1>9, <1>10 DEF MemInv, Where

\* What is in the memory when a call begins is old.
LEMMA Forgotten ==
  ASSUME MemInv, port' = [port EXCEPT !.mem = Before]
  PROVE  port' \in PortT /\ port'.mem = Before /\ Confined'
<1>1. port' \in PortT /\ port'.mem = Before
  BY Held, BeforeType DEF PortT
<1> QED
  BY <1>1, BeforeType DEF Confined

LEMMA MemCallInit == CacheInv' /\ MemInv /\ CallInit => MemInv'
<1> SUFFICES ASSUME CacheInv', MemInv, CallInit PROVE MemInv'
  OBVIOUS
<1>1. port' \in PortT /\ Confined'
  BY Forgotten DEF CallInit
<1>2. CacheType' /\ CallType' /\ UNCHANGED <<ret, got, faults>> /\ busy' = TRUE /\ script' = swd_init_debug
  BY DEF CacheInv, CallInit
<1>3. TypeOK'
  BY <1>1, <1>2, InitOps DEF MemInv, Safe, TypeOK, CacheType, CallType, PortT
<1>4. call'.op = "init" /\ call'.size = 0 /\ call'.addr = 0
  BY DEF CallInit
<1>5. Safe'
  BY <1>1, <1>3, <1>4, Sized DEF Safe
<1> QED
  BY <1>2, <1>4, <1>5, InitOps DEF MemInv, Where

LEMMA MemCallMemory ==
  ASSUME CacheInv', MemInv, NEW op \in {"write", "read"}, NEW r \in Ranges, CallMemory(op, r)
  PROVE  MemInv'
<1>1. port' \in PortT /\ port'.mem = Before /\ Confined'
  BY Forgotten DEF CallMemory
<1>2. /\ CacheType' /\ CallType' /\ UNCHANGED <<script, ret, faults>> /\ busy' = TRUE /\ got' = <<>>
      /\ call' = [op |-> op, addr |-> r.addr, size |-> r.size, done |-> 0]
  BY DEF CacheInv, CallMemory
<1>3. << >> \in Seq(Byte)
  OBVIOUS
<1>4. TypeOK'
  BY <1>1, <1>2, <1>3 DEF MemInv, Safe, TypeOK, CacheType, CallType, PortT
<1>5. r.addr \in Nat /\ r.size \in Nat /\ r.addr + r.size <= MemSize
  BY RangesAssumption
<1>6. /\ call'.op = op /\ op # "init" /\ call'.addr = r.addr /\ call'.size = r.size
      /\ call'.addr + call'.done = r.addr
  BY <1>2, <1>5
<1>7. Safe'
  BY <1>1, <1>4, <1>5, <1>6 DEF Safe
<1>8. script' = <<>>
  BY <1>2 DEF MemInv, Where, CallMemory
<1>9. Done(call.addr + call.done)'
  <2>1. Before = Upto(call', r.addr)
    <3>1. \A b \in Addr : ~(r.addr <= b /\ b < r.addr)
      BY <1>5, Sized DEF Addr
    <3> QED
      BY <1>6, <3>1 DEF Before, Upto
  <2>2. Taken(call', r.addr) = <<>>
    <3>1. 1 .. r.addr - r.addr = {}
      BY <1>5
    <3> QED
      BY <1>6, <3>1 DEF Taken
  <2> QED
    BY <1>1, <1>2, <1>6, <1>8, <2>1, <2>2 DEF Done
<1> QED
  BY <1>2, <1>6, <1>7, <1>9 DEF MemInv, Where

LEMMA Between ==
  ASSUME MemInv, CallType, busy, script = <<>>, call.op # "init"
  PROVE  Done(call.addr + call.done)
<1> SUFFICES ASSUME NEW a \in Nat, NEW w \in Sizes, NEW m \in Nat \ {0}, Piece(a, w, m),
                    Setting(a, w, m) \/ \E j \in 0 .. m : Moving(a, w, m, j)
             PROVE  FALSE
  BY DEF MemInv, Where
<1>1. Inside(a, w, m)
  BY PieceInside
<1> DEFINE t == FromTar(call.op, a, w, m)
           r == Rdbuff(<<>>)
           c == Csw(w)
<1>2. t \in Seq(Xfer) /\ t # <<>>
  BY <1>1, TarSteps
<1>3. r \in Xfer /\ c \in Xfer
  <2>1. << >> \in Seq(Lane)
    OBVIOUS
  <2> QED
    BY <2>1, XferTypes
<1>4. CASE Setting(a, w, m)
  <2>1. script = WriteCsw(w) \o t \/ script = <<c>> \o t \/ script = <<r>> \o t \/ script = t
    BY <1>4 DEF Setting
  <2> HIDE DEF t, r, c
  <2>2. WriteCsw(w) \o t # <<>>
    BY <1>2, CswSteps
  <2>3. <<c>> \o t # <<>> /\ <<r>> \o t # <<>>
    BY <1>2, <1>3, Cons
  <2> QED
    BY <1>2, <2>1, <2>2, <2>3
<1>5. CASE \E j \in 0 .. m : Moving(a, w, m, j)
  <2>1. PICK j \in 0 .. m : Moving(a, w, m, j)
    BY <1>5
  <2>2. Stepped(call.op, a, w, m, j)
    BY <1>1, BodyStep
  <2> QED
    BY <2>1, <2>2 DEF Moving, Stepped
<1> QED
  BY <1>4, <1>5

LEMMA MemReturn == CacheInv /\ MemInv /\ Return => MemInv'
<1> SUFFICES ASSUME CacheInv, MemInv, Return PROVE MemInv'
  OBVIOUS
<1>1. /\ busy /\ script = <<>> /\ call.done = call.size /\ busy' = FALSE /\ ret' = TRUE
      /\ UNCHANGED <<dap_state, port, call, script, got, faults>>
  BY DEF Return
<1>2. Safe'
  BY <1>1 DEF MemInv, Safe, TypeOK, Confined, Span
<1>3. call.op # "init" => Done(call.addr + call.size)
  BY <1>1, Between DEF CacheInv
<1>4. call'.op # "init" => Done(call.addr + call.size)'
  BY <1>1, <1>3 DEF Done, Upto, Taken
<1>5. call'.op = "init" => call'.size = 0
  BY <1>1 DEF MemInv, Where
<1> QED
  BY <1>1, <1>2, <1>4, <1>5 DEF MemInv, Where

\* The next piece begins where everything before is done.
LEMMA MemNextPiece == CacheInv /\ CacheInv' /\ MemInv /\ NextPiece => MemInv'
<1> SUFFICES ASSUME CacheInv, CacheInv', MemInv, NextPiece PROVE MemInv'
  OBVIOUS
<1> DEFINE a == call.addr + call.done
           s == call.size - call.done
           n == PieceSize(a, s)
<1>1. /\ busy /\ script = <<>> /\ call.done < call.size
      /\ script' = IF call.op = "write"
                   THEN IF IsBlock(a, s) THEN swd_write_block(a, n) ELSE swd_write_byte(a)
                   ELSE IF IsBlock(a, s) THEN swd_read_block(a, n) ELSE swd_read_byte(a)
      /\ call' = [call EXCEPT !.done = @ + n]
      /\ UNCHANGED <<dap_state, port, busy, ret, got, faults>>
  BY DEF NextPiece
<1>2. /\ call \in [op : {"init", "write", "read"}, addr : Nat, size : Nat, done : Nat]
      /\ CacheType' /\ CallType' /\ CallType
  BY DEF CacheInv, CallType
<1>3. call.op # "init" /\ call.addr + call.size <= MemSize
  BY <1>1, <1>2 DEF MemInv, Where, Safe
<1>4. port.mem = Upto(call, a) /\ got = Taken(call, a)
  BY <1>1, <1>2, <1>3, Between DEF Done
<1>5. /\ a \in Nat /\ s \in Nat \ {0} /\ call.addr <= a /\ a + s = call.addr + call.size
      /\ a + s <= MemSize
  BY <1>1, <1>2, <1>3
<1>6. n \in Nat /\ n <= s
  BY <1>5, PieceBounds
<1>7. /\ call'.op = call.op /\ call'.addr = call.addr /\ call'.size = call.size
      /\ call'.done = call.done + n
  BY <1>1, <1>2
<1> HIDE DEF s
<1>8. \E w \in Sizes, m \in Nat \ {0} :
        /\ Inside(a, w, m) /\ At(a, w, m) = a + n
        /\ IF w = 4 THEN a % 4 = 0 /\ (a % TargetPage) + 4 * m <= TargetPage ELSE m = 1
        /\ script' = WriteCsw(w) \o FromTar(call.op, a, w, m)
  <2>1. CASE IsBlock(a, s)
    <3> DEFINE m == n \div 4
    <3>1. m \in Nat \ {0} /\ n = 4 * m /\ (a % TargetPage) + n <= TargetPage /\ a % 4 = 0
      BY <1>5, <2>1, BlockFits
    <3> HIDE DEF m, n, a
    <3>2. At(a, 4, m) = a + n
      BY <3>1 DEF At
    <3>3. Inside(a, 4, m)
      BY <1>5, <1>6, <3>1, <3>2, Sized DEF Inside, Sizes
    <3>4. script' = WriteCsw(4) \o FromTar(call.op, a, 4, m)
      <4>1. CASE call.op = "write"
        BY <1>1, <2>1, <3>1, <3>3, <4>1, WriteShape
      <4>2. CASE call.op = "read"
        BY <1>1, <2>1, <3>1, <3>3, <4>2, ReadShape
      <4> QED
        BY <1>2, <1>3, <4>1, <4>2
    <3>5. 4 \in Sizes
      BY DEF Sizes
    <3> QED
      BY <3>1, <3>2, <3>3, <3>4, <3>5
  <2>2. CASE ~IsBlock(a, s)
    <3>1. n = 1
      BY <2>2 DEF PieceSize
    <3> HIDE DEF n, a
    <3>2. a \in Addr
      BY <1>5, Sized DEF Addr
    <3>3. /\ Inside(a, 1, 1)
          /\ swd_write_byte(a) = WriteCsw(1) \o FromTar("write", a, 1, 1)
          /\ swd_read_byte(a) = WriteCsw(1) \o FromTar("read", a, 1, 1)
      BY <3>2, ByteShape
    <3>4. script' = WriteCsw(1) \o FromTar(call.op, a, 1, 1)
      BY <1>1, <1>2, <1>3, <2>2, <3>3
    <3>5. At(a, 1, 1) = a + n /\ 1 \in Sizes
      BY <3>1 DEF At, Sizes
    <3>6. 1 \in Nat \ {0} /\ 1 # 4
      OBVIOUS
    <3> HIDE DEF a, n
    <3> 1 \in Sizes
      BY <3>5
    <3> WITNESS 1 \in Sizes, 1 \in Nat \ {0}
    <3> QED
      BY <3>3, <3>4, <3>5, <3>6
  <2> QED
    BY <2>1, <2>2
<1>9. PICK w \in Sizes, m \in Nat \ {0} :
        /\ Inside(a, w, m) /\ At(a, w, m) = a + n
        /\ IF w = 4 THEN a % 4 = 0 /\ (a % TargetPage) + 4 * m <= TargetPage ELSE m = 1
        /\ script' = WriteCsw(w) \o FromTar(call.op, a, w, m)
  BY <1>8
<1>10. script' \in Seq(Xfer)
  BY <1>9, TarSteps, CswSteps
<1>11. Safe'
  <2>1. script' \in Script
    BY <1>10, XferTypes
  <2>2. TypeOK'
    BY <1>1, <1>2, <2>1 DEF MemInv, Safe, TypeOK, CacheType, CallType
  <2>3. Confined'
    BY <1>1, <1>7 DEF MemInv, Safe, Confined, Span
  <2> QED
    BY <1>3, <1>7, <2>2, <2>3 DEF Safe
<1>12. PICK x \in Nat : x = a
  BY <1>5
<1>13. Setting(x, w, m)' /\ Piece(x, w, m)'
  <2>1. x + n = call'.addr + call'.done
    BY <1>2, <1>5, <1>6, <1>7, <1>12
  <2>2. /\ call.addr <= x /\ At(x, w, m) = x + n
        /\ IF w = 4 THEN x % 4 = 0 /\ (x % TargetPage) + 4 * m <= TargetPage ELSE m = 1
        /\ script' = WriteCsw(w) \o FromTar(call.op, x, w, m)
        /\ port.mem = Upto(call, x) /\ got = Taken(call, x)
    BY <1>4, <1>5, <1>9, <1>12
  <2> HIDE DEF a, n
  <2>3. Piece(x, w, m)'
    BY <1>7, <2>1, <2>2 DEF Piece
  <2>4. Upto(call', x) = Upto(call, x) /\ Taken(call', x) = Taken(call, x)
    BY <1>7 DEF Upto, Taken
  <2>5. port' = port /\ got' = got /\ call'.op = call.op
    BY <1>1, <1>7
  <2>6. Setting(x, w, m)'
    BY <2>2, <2>4, <2>5 DEF Setting, FromTar, Body
  <2> QED
    BY <2>3, <2>6
<1>14. busy' = TRUE
  BY <1>1, Held
<1> QED
  <2>1. call'.op # "init"
    BY <1>3, <1>7
  <2>2. \E y \in Nat, v \in Sizes, k \in Nat \ {0} : Piece(y, v, k)' /\ Setting(y, v, k)'
    BY <1>9, <1>13, <1>12
  <2> QED
    BY <1>11, <1>14, <2>1, <2>2 DEF MemInv, Where

-----------------------------------------------------------------------------
(* The invariant, and what follows from it.                                *)

LEMMA MemNext == "refused" \notin Faults /\ CacheInv /\ MemInv /\ [Next]_vars => CacheInv' /\ MemInv'
<1> SUFFICES ASSUME "refused" \notin Faults, CacheInv, MemInv, [Next]_vars PROVE CacheInv' /\ MemInv'
  OBVIOUS
<1>1. CacheInv'
  BY CacheNext
<1>2. CASE CallInit
  BY <1>1, <1>2, MemCallInit
<1>3. CASE \E op \in {"write", "read"}, r \in Ranges : CallMemory(op, r)
  BY <1>1, <1>3, MemCallMemory
<1>4. CASE NextPiece
  BY <1>1, <1>4, MemNextPiece
<1>5. CASE Return
  BY <1>1, <1>5, MemReturn
<1>6. CASE WriteSelect
  BY <1>1, <1>6, MemWriteSelect
<1>7. CASE WriteApCsw
  BY <1>1, <1>7, MemWriteApCsw
<1>8. CASE WriteTar
  BY <1>1, <1>8, MemWriteTar
<1>9. CASE WriteDrw
  BY <1>1, <1>9, MemWriteDrw
<1>10. CASE ReadDrw
  BY <1>1, <1>10, MemReadDrw
<1>11. CASE ReadRdbuff
  BY <1>1, <1>11, MemReadRdbuff
<1>12. CASE ReadIdcode
  BY <1>1, <1>12, MemReadIdcode
<1>13. CASE WriteAbort
  BY <1>1, <1>13, MemWriteAbort
<1>14. CASE WriteCtrl
  BY <1>1, <1>14, MemWriteCtrl
<1>15. CASE UNCHANGED vars
  <2>1. Safe'
    BY <1>15 DEF MemInv, Safe, TypeOK, Confined, Span, vars
  <2>2. Where'
    <3>1. /\ dap_state' = dap_state /\ port' = port /\ call' = call /\ script' = script
          /\ busy' = busy /\ ret' = ret /\ got' = got
      BY <1>15 DEF vars
    <3>2. ASSUME NEW a, NEW w, NEW m PROVE (Piece(a, w, m)' <=> Piece(a, w, m)) /\ (Setting(a, w, m)' <=> Setting(a, w, m))
      BY <3>1 DEF Piece, Setting
    <3>3. ASSUME NEW a, NEW w, NEW m, NEW j PROVE Moving(a, w, m, j)' <=> Moving(a, w, m, j)
      BY <3>1 DEF Moving, Stage
    <3>4. Done(call.addr + call.size)' <=> Done(call.addr + call.size)
      BY <3>1 DEF Done
    <3>5. Done(call.addr + call.done)' <=> Done(call.addr + call.done)
      BY <3>1 DEF Done
    <3> QED
      BY <3>1, <3>2, <3>3, <3>4, <3>5 DEF MemInv, Where
  <2> QED
    BY <1>1, <2>1, <2>2 DEF MemInv
<1> QED
  BY <1>2, <1>3, <1>4, <1>5, <1>6, <1>7, <1>8, <1>9, <1>10, <1>11, <1>12, <1>13, <1>14, <1>15 DEF Next

LEMMA MemCorrect == ASSUME "refused" \notin Faults PROVE Spec => [](CacheInv /\ MemInv)
<1>1. Init => CacheInv /\ MemInv
  BY CacheInit, MemInit
<1>2. (CacheInv /\ MemInv) /\ [Next]_vars => (CacheInv /\ MemInv)'
  BY MemNext
<1> QED
  BY <1>1, <1>2, PTL DEF Spec

\* The state keeps its type: TAR stays in the memory whatever page the MEM-AP
\* wraps at, and every script is one of transfers.
THEOREM TypeCorrect == ASSUME "refused" \notin Faults PROVE Spec => []TypeOK
<1>1. CacheInv /\ MemInv => TypeOK
  BY DEF MemInv, Safe
<1> QED
  BY <1>1, MemCorrect, PTL

\* swd_write_memory returns 1 only when every byte of its range is in the
\* target's memory, for every range, alignment, page size and sequence of lost
\* and garbled transfers, none of which is refused.
THEOREM WriteLandsCorrect == ASSUME "refused" \notin Faults PROVE Spec => []WriteLands
<1>1. CacheInv /\ MemInv => WriteLands
  <2> SUFFICES ASSUME CacheInv, MemInv, ~busy, ret, call.op = "write", NEW b \in Span
               PROVE  port.mem[b] = New(b)
    BY DEF WriteLands
  <2>1. /\ call.addr \in Nat /\ call.size \in Nat /\ call.addr + call.size <= MemSize
        /\ port.mem = Upto(call, call.addr + call.size)
    BY DEF CacheInv, CallType, MemInv, Safe, Where, Done
  <2>2. b \in Addr /\ call.addr <= b /\ b < call.addr + call.size
    BY <2>1, Sized DEF Span, Addr
  <2> QED
    BY <2>1, <2>2 DEF Upto
<1> QED
  BY <1>1, MemCorrect, PTL

\* swd_read_memory returns 1 only with the bytes of its range, in order, though
\* each access returns what the one before it read, if no transfer is refused.
THEOREM ReadTrueCorrect == ASSUME "refused" \notin Faults PROVE Spec => []ReadTrue
<1>1. CacheInv /\ MemInv => ReadTrue
  <2> SUFFICES ASSUME CacheInv, MemInv, ~busy, ret, call.op = "read"
               PROVE  got = [i \in 1 .. call.size |-> port.mem[call.addr + i - 1]]
    BY DEF ReadTrue
  <2> DEFINE x == call.addr + call.size
  <2>1. /\ call.addr \in Nat /\ call.size \in Nat /\ x <= MemSize /\ x - call.addr = call.size
        /\ port.mem = Upto(call, x) /\ got = Taken(call, x)
    BY DEF CacheInv, CallType, MemInv, Safe, Where, Done
  <2>2. \A i \in 1 .. call.size : port.mem[call.addr + i - 1] = Old(call.addr + i - 1)
    <3> SUFFICES ASSUME NEW i \in 1 .. call.size PROVE port.mem[call.addr + i - 1] = Old(call.addr + i - 1)
      OBVIOUS
    <3>1. call.addr + i - 1 \in Addr
      BY <2>1, Sized DEF Addr
    <3> QED
      BY <2>1, <3>1 DEF Upto
  <2>3. got = [i \in 1 .. call.size |-> Old(call.addr + i - 1)]
    BY <2>1 DEF Taken
  <2> QED
    BY <2>2, <2>3
<1> QED
  BY <1>1, MemCorrect, PTL

\* A write changes no byte outside its range, even when the range crosses the
\* pages of the MEM-AP and its ends are not aligned: however many transfers are
\* lost or garbled, but provided that none is refused.
THEOREM ConfinedCorrect == ASSUME "refused" \notin Faults PROVE Spec => []Confined
<1>1. CacheInv /\ MemInv => Confined
  BY DEF MemInv, Safe
<1> QED
  BY <1>1, MemCorrect, PTL
=============================================================================
