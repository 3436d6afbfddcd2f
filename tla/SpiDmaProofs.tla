---------------------------- MODULE SpiDmaProofs ----------------------------
(* One thread uses the bus at a time, and the hardware never runs ahead of    *)
(* it: theorems about SpiDma for every set of commands.                       *)
EXTENDS SpiDma, Integers, SequenceTheorems, TLAPS

Pcs  == {"absent", "idle", "config", "clear", "user", "rx", "tx", "wait", "asleep", "woken",
         "deselect"}
Cmds == Commands \cup {<<1>>}
Bytes == [by : Threads, part : Nat, i : Int]
Fns  == {SubSeq(InitFns, i, Len(InitFns)) : i \in 1 .. 5}

FnNames == {"FLASH_Port_Init", "FatfsApp_Init", "FlashalgoApp_Init", "UsbApp_Init"}

ThreadRec == [pc : Pcs, cmd : Cmds, part : Nat, buffer : Seq(Nat)]
ChRec     == [en : BOOLEAN, left : Int, tc : BOOLEAN]

\* Types, the contents of the registers included.
TypeInv ==
  /\ init \in [fns : Fns, cmds : 0 .. MaxCommands]
  /\ thread \in [Threads -> ThreadRec]
  /\ \A t \in Threads : thread[t].part \in DOMAIN thread[t].cmd
  /\ DmaCH \in [UserCh : SUBSET Channels, IrqCh : SUBSET Channels]
  /\ completion \in [flag : BOOLEAN, suspended : SUBSET Threads]
  /\ ch \in [Channels -> ChRec]
  /\ spi \in [tx : Seq(Bytes), rx : Seq(Nat), buf : Threads] /\ Len(spi.tx) <= 1 /\ Len(spi.rx) <= 1
  /\ chip \in [selected : BOOLEAN, seen : Seq(Bytes)]

Active(t) == thread[t].pc \notin {"absent", "idle"}

\* One thread at a time: the USB thread is started by the last init function,
\* and nobody waits for a completion object that somebody else waits for.
Exclusive ==
  /\ init.fns # <<>> => thread["usb"].pc = "absent"
  /\ thread["main"].pc # "absent"
  /\ Active("main") => init.fns # <<>> /\ Head(init.fns) # "UsbApp_Init"
  /\ \A t \in Threads : t \in completion.suspended <=> thread[t].pc = "asleep"

-----------------------------------------------------------------------------
LEMMA FnsType ==
  /\ InitFns \in Seq(FnNames) /\ Len(InitFns) = 4
  /\ \A i \in 1 .. 4 : InitFns[i] = "UsbApp_Init" <=> i = 4
<1>1. InitFns \in Seq(FnNames)
  <2>1. \A a, b, c, d \in FnNames : <<a, b, c, d>> \in Seq(FnNames)
    OBVIOUS
  <2>2. /\ "FLASH_Port_Init" \in FnNames /\ "FatfsApp_Init" \in FnNames
        /\ "FlashalgoApp_Init" \in FnNames /\ "UsbApp_Init" \in FnNames
    BY DEF FnNames
  <2> QED
    BY <2>1, <2>2 DEF InitFns
<1>2. Len(InitFns) = 4 /\ 1 .. 4 = {1, 2, 3, 4}
  BY DEF InitFns
<1>3. InitFns[1] # "UsbApp_Init" /\ InitFns[2] # "UsbApp_Init" /\ InitFns[3] # "UsbApp_Init"
  BY DEF InitFns
<1>4. InitFns[4] = "UsbApp_Init"
  BY DEF InitFns
<1> QED
  BY <1>1, <1>2, <1>3, <1>4

\* What is left of the init functions; the last one starts the USB thread.
LEMMA FnsTail ==
  ASSUME NEW f \in Fns, f # <<>>
  PROVE  Tail(f) \in Fns /\ (Head(f) = "UsbApp_Init" <=> Tail(f) = <<>>)
<1>1. PICK i \in 1 .. 5 : f = SubSeq(InitFns, i, 4)
  BY FnsType DEF Fns
<1>2. i \in 1 .. 4
  BY <1>1, SubSeqEmpty
<1>3. Head(f) = InitFns[i] /\ Tail(f) = SubSeq(InitFns, i + 1, 4)
  BY <1>1, <1>2, FnsType, HeadTailOfSubSeq
<1>4. i = 4 => Tail(f) = <<>>
  BY <1>3, SubSeqEmpty
<1>5. i < 4 => Tail(f) # <<>>
  <2>1. \A j \in (i + 1) .. 4 : InitFns[j] \in FnNames
    BY <1>2, FnsType, ElementOfSeq, (i + 1) .. 4 \subseteq 1 .. Len(InitFns)
  <2>2. Len(SubSeq(InitFns, i + 1, 4)) = IF i + 1 <= 4 THEN 4 - (i + 1) + 1 ELSE 0
    BY <1>2, <2>1, SubSeqProperties, i + 1 \in Int, 4 \in Int
  <2> QED
    BY <1>2, <1>3, <2>2
<1>6. i + 1 \in 1 .. 5 /\ Tail(f) \in Fns
  BY <1>2, <1>3, FnsType DEF Fns
<1> QED
  BY <1>2, <1>3, <1>4, <1>5, <1>6, FnsType

\* A command is one or two transfers of at least one byte.
LEMMA CmdType ==
  ASSUME NEW c \in Cmds
  PROVE  c \in Seq(Nat \ {0}) /\ Len(c) \in {1, 2} /\ DOMAIN c = 1 .. Len(c)
<1>1. <<1>> \in Seq(Nat \ {0}) /\ Len(<<1>>) = 1
  OBVIOUS
<1>2. c \in Seq(Nat \ {0}) /\ Len(c) \in {1, 2}
  BY <1>1, CommandsAssumption DEF Cmds
<1> QED
  BY <1>2, LenProperties

LEMMA LengthType ==
  ASSUME TypeInv, NEW t \in Threads PROVE Length(t) \in Nat \ {0}
<1>1. thread[t].cmd \in Cmds /\ thread[t].part \in DOMAIN thread[t].cmd
  BY DEF TypeInv, ThreadRec
<1> QED
  BY <1>1, CmdType DEF Length

LEMMA InitType == Init => TypeInv /\ Exclusive
<1> SUFFICES ASSUME Init PROVE TypeInv /\ Exclusive
  OBVIOUS
<1>1. init \in [fns : Fns, cmds : 0 .. MaxCommands] /\ init.fns # <<>>
  <2>1. InitFns = SubSeq(InitFns, 1, Len(InitFns)) /\ InitFns # <<>>
    BY FnsType, SubSeqFull DEF InitFns
  <2>2. InitFns \in Fns
    BY <2>1, FnsType DEF Fns
  <2> QED
    BY <2>1, <2>2, BoundAssumption DEF Init
<1>2. <<1>> \in Cmds /\ 1 \in DOMAIN <<1>> /\ <<>> \in Seq(Nat) /\ <<>> \in Seq(Bytes)
  BY DEF Cmds
<1>3. thread \in [Threads -> ThreadRec] /\ \A t \in Threads : thread[t].part \in DOMAIN thread[t].cmd
  BY <1>2 DEF Init, ThreadRec, Pcs
<1>4. spi \in [tx : Seq(Bytes), rx : Seq(Nat), buf : Threads] /\ Len(spi.tx) <= 1 /\ Len(spi.rx) <= 1
  BY <1>2 DEF Init, NoReg, Threads
<1>5. ch \in [Channels -> ChRec]
  BY DEF Init, NoCh, ChRec
<1>6. /\ DmaCH \in [UserCh : SUBSET Channels, IrqCh : SUBSET Channels]
      /\ completion \in [flag : BOOLEAN, suspended : SUBSET Threads]
      /\ chip \in [selected : BOOLEAN, seen : Seq(Bytes)]
  BY <1>2 DEF Init
<1>7. TypeInv
  BY <1>1, <1>3, <1>4, <1>5, <1>6 DEF TypeInv
<1>8. Exclusive
  BY <1>1 DEF Init, Exclusive, Active, Threads
<1> QED
  BY <1>7, <1>8

-----------------------------------------------------------------------------
\* A step of a thread changes its record only.
LEMMA Update ==
  ASSUME TypeInv, NEW t \in Threads, NEW r \in ThreadRec, r.part \in DOMAIN r.cmd,
         thread' = [thread EXCEPT ![t] = r]
  PROVE  /\ thread' \in [Threads -> ThreadRec]
         /\ \A u \in Threads : thread'[u].part \in DOMAIN thread'[u].cmd
         /\ thread'[t] = r /\ \A u \in Threads : u # t => thread'[u] = thread[u]
BY DEF TypeInv

LEMMA UpdatePc ==
  ASSUME TypeInv, NEW t \in Threads, NEW p \in Pcs, To(t, p)
  PROVE  /\ thread' \in [Threads -> ThreadRec]
         /\ \A u \in Threads : thread'[u].part \in DOMAIN thread'[u].cmd
         /\ thread'[t].pc = p /\ thread'[t].cmd = thread[t].cmd
         /\ thread'[t].part = thread[t].part /\ thread'[t].buffer = thread[t].buffer
         /\ \A u \in Threads : u # t => thread'[u] = thread[u]
<1> DEFINE r == [thread[t] EXCEPT !.pc = p]
<1>1. r \in ThreadRec /\ r.part \in DOMAIN r.cmd
  BY DEF TypeInv, ThreadRec
<1>2. thread' = [thread EXCEPT ![t] = r]
  BY DEF To
<1>3. r.pc = p /\ r.cmd = thread[t].cmd /\ r.part = thread[t].part /\ r.buffer = thread[t].buffer
  BY DEF TypeInv, ThreadRec
<1> HIDE DEF r
<1> QED
  BY <1>1, <1>2, <1>3, Update

LEMMA SelectType == ASSUME TypeInv, NEW t \in Threads, Select(t) PROVE TypeInv'
<1>1. PICK c \in Commands :
        thread' = [thread EXCEPT ![t] = [pc |-> "config", cmd |-> c, part |-> 1, buffer |-> <<>>]]
  BY DEF Select
<1> DEFINE r == [pc |-> "config", cmd |-> c, part |-> 1, buffer |-> <<>>]
<1>2. c \in Cmds /\ 1 \in DOMAIN c
  BY CmdType DEF Cmds
<1>3. <<>> \in Seq(Nat) /\ <<>> \in Seq(Bytes)
  BY EmptySeq
<1>4. r \in ThreadRec /\ r.part \in DOMAIN r.cmd
  BY <1>2, <1>3 DEF ThreadRec, Pcs
<1>5. thread' \in [Threads -> ThreadRec] /\ \A u \in Threads : thread'[u].part \in DOMAIN thread'[u].cmd
  BY <1>1, <1>4, Update
<1>6. init' \in [fns : Fns, cmds : 0 .. MaxCommands]
  <2>1. CASE t = "main"
    <3>1. init.cmds + 1 \in 0 .. MaxCommands /\ init' = [init EXCEPT !.cmds = @ + 1]
      BY <2>1, BoundAssumption DEF Select, TypeInv
    <3> QED
      BY <3>1 DEF TypeInv
  <2>2. CASE t # "main"
    BY <2>2 DEF Select, TypeInv
  <2> QED
    BY <2>1, <2>2
<1>7. chip' \in [selected : BOOLEAN, seen : Seq(Bytes)]
  BY <1>3 DEF Select, TypeInv
<1> QED
  BY <1>5, <1>6, <1>7 DEF Select, TypeInv

LEMMA NextFnType == ASSUME TypeInv, NextFn PROVE TypeInv'
<1>1. init' \in [fns : Fns, cmds : 0 .. MaxCommands]
  BY FnsTail, BoundAssumption DEF NextFn, TypeInv
<1> DEFINE p == IF Head(init.fns) = "UsbApp_Init" THEN "idle" ELSE thread["usb"].pc
<1>2. p \in Pcs /\ "usb" \in Threads
  BY DEF TypeInv, ThreadRec, Pcs, Threads
<1>3. To("usb", p)
  BY DEF NextFn, To
<1>4. thread' \in [Threads -> ThreadRec] /\ \A u \in Threads : thread'[u].part \in DOMAIN thread'[u].cmd
  BY <1>2, <1>3, UpdatePc
<1> QED
  BY <1>1, <1>4 DEF NextFn, TypeInv

LEMMA ConfigType == ASSUME TypeInv, NEW t \in Threads, Config(t) PROVE TypeInv'
<1> DEFINE r == [thread[t] EXCEPT !.pc = "clear", !.buffer = <<>>]
<1>0. thread[t] \in ThreadRec /\ thread[t].part \in DOMAIN thread[t].cmd
  BY DEF TypeInv
<1>1. <<>> \in Seq(Nat)
  BY EmptySeq
<1>2. r \in ThreadRec /\ r.part \in DOMAIN r.cmd
  BY <1>0, <1>1 DEF ThreadRec, Pcs
<1>3. thread' = [thread EXCEPT ![t] = r]
  BY DEF Config, TypeInv
<1>4. thread' \in [Threads -> ThreadRec] /\ \A u \in Threads : thread'[u].part \in DOMAIN thread'[u].cmd
  BY <1>2, <1>3, Update
<1>5. ch' \in [Channels -> ChRec]
  BY LengthType DEF Config, ChRec
<1> QED
  BY <1>4, <1>5 DEF Config, TypeInv

LEMMA ThreadType ==
  ASSUME TypeInv, NEW t \in Threads,
         \/ Clear(t) \/ SetUserCh(t) \/ Enable(t, "rx", Rx) \/ Enable(t, "tx", Tx)
         \/ rt_completion_wait(t) \/ Deselect(t)
  PROVE  TypeInv'
<1>1. \A p \in {"clear", "user", "rx", "tx"} : Succ(p) \in Pcs
  BY DEF Succ, Pcs
<1>2. \E p \in Pcs : To(t, p)
  BY <1>1 DEF Clear, SetUserCh, Enable, rt_completion_wait, Deselect, Pcs
<1>3. thread' \in [Threads -> ThreadRec] /\ \A u \in Threads : thread'[u].part \in DOMAIN thread'[u].cmd
  BY <1>2, UpdatePc
<1>4. ch' \in [Channels -> ChRec]
  <2>1. \A c \in Channels : [ch EXCEPT ![c].en = TRUE] \in [Channels -> ChRec]
    BY DEF TypeInv, ChRec
  <2>2. ch' = ch \/ \E c \in Channels : ch' = [ch EXCEPT ![c].en = TRUE]
    BY DEF Clear, SetUserCh, Enable, rt_completion_wait, Deselect, Channels
  <2> QED
    BY <2>1, <2>2 DEF TypeInv
<1>5. DmaCH' \in [UserCh : SUBSET Channels, IrqCh : SUBSET Channels]
  BY DEF Clear, SetUserCh, Enable, rt_completion_wait, Deselect, TypeInv
<1>6. completion' \in [flag : BOOLEAN, suspended : SUBSET Threads]
  BY DEF Clear, SetUserCh, Enable, rt_completion_wait, Deselect, TypeInv
<1>7. chip' \in [selected : BOOLEAN, seen : Seq(Bytes)]
  BY DEF Clear, SetUserCh, Enable, rt_completion_wait, Deselect, TypeInv
<1>8. UNCHANGED <<init, spi>>
  BY DEF Clear, SetUserCh, Enable, rt_completion_wait, Deselect
<1> QED
  BY <1>3, <1>4, <1>5, <1>6, <1>7, <1>8 DEF TypeInv

LEMMA WokenType == ASSUME TypeInv, NEW t \in Threads, Woken(t) PROVE TypeInv'
<1> DEFINE r == IF thread[t].part < Len(thread[t].cmd)
                THEN [thread[t] EXCEPT !.pc = "config", !.part = @ + 1]
                ELSE [thread[t] EXCEPT !.pc = "deselect"]
<1>1. thread[t] \in ThreadRec /\ thread[t].cmd \in Cmds /\ thread[t].part \in DOMAIN thread[t].cmd
  BY DEF TypeInv, ThreadRec
<1>2. r \in ThreadRec /\ r.part \in DOMAIN r.cmd
  <2>1. /\ thread[t].part \in 1 .. Len(thread[t].cmd) /\ Len(thread[t].cmd) \in {1, 2}
        /\ DOMAIN thread[t].cmd = 1 .. Len(thread[t].cmd)
    BY <1>1, CmdType
  <2>2. CASE thread[t].part < Len(thread[t].cmd)
    <3>1. thread[t].part + 1 \in DOMAIN thread[t].cmd /\ thread[t].part + 1 \in Nat
      BY <2>1, <2>2
    <3>2. r = [thread[t] EXCEPT !.pc = "config", !.part = @ + 1]
      BY <2>2
    <3> QED
      BY <1>1, <3>1, <3>2 DEF ThreadRec, Pcs
  <2>3. CASE ~(thread[t].part < Len(thread[t].cmd))
    BY <1>1, <2>3 DEF ThreadRec, Pcs
  <2> QED
    BY <2>2, <2>3
<1>3. thread' = [thread EXCEPT ![t] = r]
  BY DEF Woken, TypeInv
<1>4. thread' \in [Threads -> ThreadRec] /\ \A u \in Threads : thread'[u].part \in DOMAIN thread'[u].cmd
  BY <1>2, <1>3, Update
<1> QED
  BY <1>4 DEF Woken, TypeInv

LEMMA IrqType == ASSUME TypeInv, NEW c \in Channels, IRQHandler(c) PROVE TypeInv'
<1>1. ch' \in [Channels -> ChRec]
  BY DEF IRQHandler, TypeInv, ChRec
<1>2. DmaCH' \in [UserCh : SUBSET Channels, IrqCh : SUBSET Channels]
  BY DEF IRQHandler, TypeInv
<1>3. /\ thread' \in [Threads -> ThreadRec]
      /\ \A t \in Threads : thread'[t].part \in DOMAIN thread'[t].cmd
  <2>1. \/ thread' = thread
        \/ \E t \in completion.suspended : To(t, "woken")
    BY DEF IRQHandler, rt_completion_done
  <2>2. CASE thread' = thread
    BY <2>2 DEF TypeInv
  <2>3. ASSUME NEW t \in completion.suspended, To(t, "woken")
        PROVE  thread' \in [Threads -> ThreadRec] /\ \A u \in Threads : thread'[u].part \in DOMAIN thread'[u].cmd
    <3>1. t \in Threads /\ "woken" \in Pcs
      BY DEF TypeInv, Pcs
    <3> QED
      BY <2>3, <3>1, UpdatePc
  <2> QED
    BY <2>1, <2>2, <2>3
<1>4. completion' \in [flag : BOOLEAN, suspended : SUBSET Threads]
  <2>0. completion \in [flag : BOOLEAN, suspended : SUBSET Threads]
    BY DEF TypeInv
  <2>1. \/ completion' = completion
        \/ completion' = [completion EXCEPT !.flag = TRUE]
        \/ \E t \in completion.suspended :
             completion' = [flag |-> TRUE, suspended |-> completion.suspended \ {t}]
    BY DEF IRQHandler, rt_completion_done
  <2>2. CASE completion' = completion \/ completion' = [completion EXCEPT !.flag = TRUE]
    BY <2>0, <2>2
  <2>3. ASSUME NEW t \in completion.suspended,
               completion' = [flag |-> TRUE, suspended |-> completion.suspended \ {t}]
        PROVE  completion' \in [flag : BOOLEAN, suspended : SUBSET Threads]
    BY <2>0, <2>3
  <2> QED
    BY <2>1, <2>2, <2>3
<1> QED
  BY <1>1, <1>2, <1>3, <1>4 DEF IRQHandler, TypeInv

LEMMA HardwareType == ASSUME TypeInv, Hardware PROVE TypeInv'
<1>0. spi.buf \in Threads /\ Length(spi.buf) \in Nat \ {0} /\ Sender \in ThreadRec
  BY LengthType DEF TypeInv, Sender
<1>1. CASE TxDma
  <2> DEFINE b == Byte(spi.buf, Sender.part, Length(spi.buf) - ch[Tx].left + 1)
  <2>1. b \in Bytes
    BY <1>0 DEF Byte, Bytes, TypeInv, ThreadRec, ChRec, Channels
  <2> HIDE DEF b
  <2>2. <<b>> \in Seq(Bytes) /\ Len(<<b>>) = 1
    BY <2>1
  <2>3. spi' = [spi EXCEPT !.tx = <<b>>]
    BY <1>1 DEF TxDma, b
  <2>4. ch' \in [Channels -> ChRec]
    <3> DEFINE w == ch[Tx].tc \/ ch[Tx].left = 1
               n == ch[Tx].left - 1
               y == [ch[Tx] EXCEPT !.left = n, !.tc = w]
    <3>0. w \in BOOLEAN /\ n \in Int /\ ch[Tx] \in ChRec
      BY DEF TypeInv, ChRec, Channels
    <3>2. ch' = [ch EXCEPT ![Tx] = y]
      BY <1>1 DEF TxDma, TypeInv, ChRec, Channels
    <3> HIDE DEF w, n
    <3>1. y \in ChRec
      BY <3>0 DEF ChRec
    <3> HIDE DEF y
    <3> QED
      BY <3>1, <3>2 DEF TypeInv
  <2>5. spi' \in [tx : Seq(Bytes), rx : Seq(Nat), buf : Threads] /\ Len(spi'.tx) <= 1 /\ Len(spi'.rx) <= 1
    <3> DEFINE e == <<b>>
    <3>1. e \in Seq(Bytes) /\ Len(e) <= 1 /\ spi' = [spi EXCEPT !.tx = e]
      BY <2>2, <2>3
    <3> HIDE DEF e
    <3> QED
      BY <3>1 DEF TypeInv
  <2>6. UNCHANGED <<init, thread, DmaCH, completion, chip>>
    BY <1>1 DEF TxDma
  <2> QED
    BY <2>4, <2>5, <2>6 DEF TypeInv
<1>2. CASE Shift
  <2> DEFINE n == IF chip.selected THEN Len(chip.seen) + 1 ELSE 0
             x == spi.tx[1]
  <2>1. n \in Nat /\ x \in Bytes
    BY <1>2, ElementOfSeq, LenProperties, EmptySeq DEF Shift, NoReg, TypeInv
  <2> HIDE DEF n, x
  <2>2. <<n>> \in Seq(Nat) /\ Len(<<n>>) = 1 /\ <<>> \in Seq(Bytes) /\ Len(<<>>) = 0
    BY <2>1
  <2>3. spi' = [spi EXCEPT !.tx = <<>>, !.rx = <<n>>]
    BY <1>2 DEF Shift, n, NoReg
  <2>4. Append(chip.seen, x) \in Seq(Bytes)
    BY <2>1, AppendProperties DEF TypeInv
  <2>5. chip' \in [selected : BOOLEAN, seen : Seq(Bytes)]
    BY <1>2, <2>4 DEF Shift, TypeInv, x
  <2>6. spi' \in [tx : Seq(Bytes), rx : Seq(Nat), buf : Threads] /\ Len(spi'.tx) <= 1 /\ Len(spi'.rx) <= 1
    <3> DEFINE e == <<>>
               z == <<n>>
    <3>1. /\ e \in Seq(Bytes) /\ z \in Seq(Nat) /\ Len(e) <= 1 /\ Len(z) <= 1
          /\ spi' = [spi EXCEPT !.tx = e, !.rx = z]
      BY <2>2, <2>3
    <3> HIDE DEF e, z
    <3> QED
      BY <3>1 DEF TypeInv
  <2>7. UNCHANGED <<init, thread, DmaCH, completion, ch>>
    BY <1>2 DEF Shift
  <2> QED
    BY <2>5, <2>6, <2>7 DEF TypeInv
<1>3. CASE RxDma
  <2> DEFINE x == spi.rx[1]
             r == [thread[spi.buf] EXCEPT !.buffer = Append(@, x)]
  <2>1. x \in Nat
    BY <1>3, ElementOfSeq, LenProperties, EmptySeq DEF RxDma, NoReg, TypeInv
  <2> HIDE DEF x
  <2>2. Append(thread[spi.buf].buffer, x) \in Seq(Nat)
    BY <1>0, <2>1, AppendProperties DEF Sender, ThreadRec
  <2>3. r \in ThreadRec /\ r.part \in DOMAIN r.cmd
    BY <1>0, <2>2 DEF Sender, ThreadRec, TypeInv
  <2>4. thread' = [thread EXCEPT ![spi.buf] = r]
    BY <1>3 DEF RxDma, x
  <2>5. thread' \in [Threads -> ThreadRec] /\ \A u \in Threads : thread'[u].part \in DOMAIN thread'[u].cmd
    BY <1>0, <2>3, <2>4, Update
  <2>6. ch' \in [Channels -> ChRec]
    <3> DEFINE n == IF ch[Rx].left = 1 THEN Length(spi.buf) ELSE ch[Rx].left - 1
               w == ch[Rx].tc \/ ch[Rx].left = 1
               y == [ch[Rx] EXCEPT !.left = n, !.tc = w]
    <3>1. n \in Int
      BY <1>0 DEF TypeInv, ChRec, Channels
    <3>2. ch' = [ch EXCEPT ![Rx] = y]
      BY <1>3 DEF RxDma, TypeInv, ChRec, Channels
    <3>4. w \in BOOLEAN
      OBVIOUS
    <3> HIDE DEF n, w
    <3>3. y \in ChRec
      BY <3>1, <3>4 DEF TypeInv, ChRec, Channels
    <3> HIDE DEF y
    <3> QED
      BY <3>2, <3>3 DEF TypeInv
  <2>7. <<>> \in Seq(Nat) /\ Len(<<>>) = 0
    BY EmptySeq
  <2>8. spi' = [spi EXCEPT !.rx = <<>>]
    BY <1>3 DEF RxDma, NoReg
  <2>9. spi' \in [tx : Seq(Bytes), rx : Seq(Nat), buf : Threads] /\ Len(spi'.tx) <= 1 /\ Len(spi'.rx) <= 1
    <3> DEFINE e == <<>>
    <3>1. e \in Seq(Nat) /\ Len(e) <= 1 /\ spi' = [spi EXCEPT !.rx = e]
      BY <2>7, <2>8
    <3> HIDE DEF e
    <3> QED
      BY <3>1 DEF TypeInv
  <2>10. UNCHANGED <<init, DmaCH, completion, chip>>
    BY <1>3 DEF RxDma
  <2> QED
    BY <2>5, <2>6, <2>9, <2>10 DEF TypeInv
<1> QED
  BY <1>1, <1>2, <1>3 DEF Hardware

LEMMA TypeStep == ASSUME TypeInv, [Next]_vars PROVE TypeInv'
<1>1. CASE \E t \in Threads : Thread(t)
  BY <1>1, SelectType, ConfigType, ThreadType, WokenType DEF Thread
<1>2. CASE NextFn
  BY <1>2, NextFnType
<1>3. CASE \E c \in Channels : IRQHandler(c)
  BY <1>3, IrqType
<1>4. CASE Hardware
  BY <1>4, HardwareType
<1>5. CASE UNCHANGED vars
  BY <1>5 DEF vars, TypeInv
<1> QED
  BY <1>1, <1>2, <1>3, <1>4, <1>5 DEF Next

-----------------------------------------------------------------------------
\* One thread is active at a time.
LEMMA Mutex ==
  ASSUME TypeInv, Exclusive, NEW t \in Threads, NEW u \in Threads, Active(t), thread[u].pc \notin {"absent", "idle"}
  PROVE  t = u
BY DEF Exclusive, Active, Threads

\* At most one thread is suspended, so rt_completion_done wakes them all.
LEMMA Alone == ASSUME TypeInv, Exclusive PROVE \A t, u \in completion.suspended : t = u
<1>1. SUFFICES ASSUME NEW t \in completion.suspended, NEW u \in completion.suspended PROVE t = u
  OBVIOUS
<1>2. t \in Threads /\ u \in Threads
  BY DEF TypeInv
<1>3. thread[t].pc = "asleep" /\ thread[u].pc = "asleep"
  BY <1>2 DEF Exclusive
<1> QED
  BY <1>2, <1>3, Mutex DEF Active

LEMMA DoneWakes ==
  ASSUME TypeInv, Exclusive, rt_completion_done
  PROVE  \/ completion.flag /\ UNCHANGED <<completion, thread>>
         \/ /\ ~completion.flag /\ completion' = [flag |-> TRUE, suspended |-> {}]
            /\ thread' = [t \in Threads |-> IF t \in completion.suspended
                                           THEN [thread[t] EXCEPT !.pc = "woken"] ELSE thread[t]]
<1>0. thread = [t \in Threads |-> thread[t]]
  BY DEF TypeInv
<1>1. CASE completion.flag
  BY <1>1 DEF rt_completion_done
<1>2. CASE ~completion.flag /\ completion.suspended = {}
  <2>1. completion' = [completion EXCEPT !.flag = TRUE] /\ thread' = thread
    BY <1>2 DEF rt_completion_done
  <2>2. completion' = [flag |-> TRUE, suspended |-> {}]
    BY <1>2, <2>1 DEF TypeInv
  <2> QED
    BY <1>0, <1>2, <2>1, <2>2
<1>3. CASE ~completion.flag /\ completion.suspended # {}
  <2>1. PICK u \in completion.suspended :
          completion' = [flag |-> TRUE, suspended |-> completion.suspended \ {u}] /\ To(u, "woken")
    BY <1>3 DEF rt_completion_done
  <2>2. completion.suspended = {u} /\ u \in Threads
    BY Alone DEF TypeInv
  <2>3. thread' = [thread EXCEPT ![u] = [thread[u] EXCEPT !.pc = "woken"]]
    BY <2>1 DEF To
  <2> QED
    BY <1>0, <1>3, <2>1, <2>2, <2>3
<1> QED
  BY <1>1, <1>2, <1>3

\* What a step of t does to the program counters.
LEMMA Moves ==
  ASSUME TypeInv, NEW t \in Threads,
         \/ Config(t) \/ Clear(t) \/ SetUserCh(t) \/ Enable(t, "rx", Rx) \/ Enable(t, "tx", Tx) \/ Woken(t)
  PROVE  /\ thread[t].pc \in {"config", "clear", "user", "rx", "tx", "woken"}
         /\ thread'[t].pc \in {"clear", "user", "rx", "tx", "wait", "config", "deselect"}
         /\ \A u \in Threads : u # t => thread'[u] = thread[u]
         /\ completion'.suspended = completion.suspended /\ init' = init
<1>1. \A r : thread' = [thread EXCEPT ![t] = r] => thread'[t] = r /\ \A u \in Threads : u # t => thread'[u] = thread[u]
  BY DEF TypeInv
<1>2. CASE Config(t)
  <2> DEFINE r == [thread[t] EXCEPT !.pc = "clear", !.buffer = <<>>]
  <2>1. thread' = [thread EXCEPT ![t] = r]
    BY <1>2 DEF Config, TypeInv
  <2>2. thread[t] \in ThreadRec
    BY DEF TypeInv
  <2>3. r.pc = "clear"
    BY <2>2 DEF ThreadRec
  <2> HIDE DEF r
  <2>4. thread'[t].pc = "clear" /\ \A u \in Threads : u # t => thread'[u] = thread[u]
    BY <1>1, <2>1, <2>3
  <2> QED
    BY <1>2, <2>4 DEF Config, Step
<1>3. CASE Clear(t) \/ SetUserCh(t) \/ Enable(t, "rx", Rx) \/ Enable(t, "tx", Tx)
  <2>1. PICK p \in {"user", "rx", "tx", "wait"} : To(t, p)
    BY <1>3 DEF Clear, SetUserCh, Enable, Succ
  <2>2. p \in Pcs
    BY DEF Pcs
  <2>3. thread'[t].pc = p /\ \A u \in Threads : u # t => thread'[u] = thread[u]
    BY <2>1, <2>2, UpdatePc
  <2> QED
    BY <1>3, <2>3 DEF Clear, SetUserCh, Enable, Step
<1>4. CASE Woken(t)
  <2>1. \/ thread' = [thread EXCEPT ![t] = [thread[t] EXCEPT !.pc = "config", !.part = @ + 1]]
        \/ thread' = [thread EXCEPT ![t] = [thread[t] EXCEPT !.pc = "deselect"]]
    BY <1>4 DEF Woken, TypeInv
  <2>2. thread[t] \in ThreadRec
    BY DEF TypeInv
  <2>3. thread'[t].pc \in {"config", "deselect"} /\ \A u \in Threads : u # t => thread'[u] = thread[u]
    BY <1>1, <2>1, <2>2 DEF ThreadRec
  <2>4. completion'.suspended = completion.suspended
    BY <1>4 DEF Woken, TypeInv
  <2> QED
    BY <1>4, <2>3, <2>4 DEF Woken, Step
<1> QED
  BY <1>2, <1>3, <1>4

LEMMA ExclusiveStep == ASSUME TypeInv, Exclusive, [Next]_vars PROVE Exclusive'
<1>0. "main" \in Threads /\ "usb" \in Threads /\ \A t \in Threads : thread[t] \in ThreadRec
  BY DEF TypeInv, Threads
<1>1. ASSUME NEW t \in Threads, Select(t) PROVE Exclusive'
  <2>1. thread'[t].pc = "config" /\ \A u \in Threads : u # t => thread'[u] = thread[u]
    BY <1>1 DEF Select, TypeInv
  <2>2. thread[t].pc = "idle" /\ init'.fns = init.fns /\ completion' = completion
    BY <1>1 DEF Select, Step, TypeInv
  <2>3. t = "main" => init.fns # <<>> /\ Head(init.fns) # "UsbApp_Init"
    BY <1>1 DEF Select
  <2> QED
    BY <1>0, <2>1, <2>2, <2>3 DEF Exclusive, Active, Threads
<1>2. ASSUME NEW t \in Threads, 
             \/ Config(t) \/ Clear(t) \/ SetUserCh(t) \/ Enable(t, "rx", Rx) \/ Enable(t, "tx", Tx) \/ Woken(t)
      PROVE  Exclusive'
  BY <1>0, <1>2, Moves DEF Exclusive, Active, Threads
<1>3. ASSUME NEW t \in Threads, rt_completion_wait(t) PROVE Exclusive'
  <2>0. thread[t].pc = "wait" /\ Active(t) /\ init' = init
    BY <1>3 DEF rt_completion_wait, Step, Active
  <2>1. completion.suspended = {}
    <3>1. ASSUME NEW u \in completion.suspended PROVE FALSE
      <4>1. u \in Threads /\ thread[u].pc = "asleep"
        BY DEF TypeInv, Exclusive
      <4> QED
        BY <2>0, <4>1, Mutex
    <3> QED
      BY <3>1
  <2>2. CASE To(t, "woken") /\ UNCHANGED completion
    <3>1. thread'[t].pc = "woken" /\ \A u \in Threads : u # t => thread'[u] = thread[u]
      BY <1>0, <2>2, UpdatePc DEF Pcs
    <3> QED
      BY <1>0, <2>0, <2>2, <3>1 DEF Exclusive, Active, Threads
  <2>3. CASE To(t, "asleep") /\ completion' = [completion EXCEPT !.suspended = @ \cup {t}]
    <3>1. thread'[t].pc = "asleep" /\ \A u \in Threads : u # t => thread'[u] = thread[u]
      BY <1>0, <2>3, UpdatePc DEF Pcs
    <3>2. completion'.suspended = {t}
      BY <2>1, <2>3 DEF TypeInv
    <3> QED
      BY <1>0, <2>0, <2>1, <3>1, <3>2 DEF Exclusive, Active, Threads
  <2> QED
    BY <1>3, <2>1, <2>2, <2>3 DEF rt_completion_wait
<1>4. ASSUME NEW t \in Threads, Deselect(t) PROVE Exclusive'
  <2>1. thread'[t].pc = "idle" /\ \A u \in Threads : u # t => thread'[u] = thread[u]
    BY <1>0, <1>4, UpdatePc DEF Deselect, Pcs
  <2>2. thread[t].pc = "deselect" /\ completion' = completion /\ init' = init
    BY <1>4 DEF Deselect, Step
  <2> QED
    BY <1>0, <2>1, <2>2 DEF Exclusive, Active, Threads
<1>5. CASE NextFn
  <2> DEFINE p == IF Head(init.fns) = "UsbApp_Init" THEN "idle" ELSE thread["usb"].pc
  <2>1. init'.fns = Tail(init.fns) /\ init.fns # <<>> /\ init.fns \in Fns
    BY <1>5 DEF NextFn, TypeInv
  <2>2. Head(init.fns) # "UsbApp_Init" => init'.fns # <<>>
    BY <2>1, FnsTail
  <2>3. Head(init.fns) = "UsbApp_Init" => init'.fns = <<>>
    BY <2>1, FnsTail
  <2>4. To("usb", p) /\ p \in Pcs
    BY <1>0, <1>5 DEF NextFn, To, ThreadRec, Pcs
  <2>5. thread'["usb"].pc = p /\ thread'["main"] = thread["main"]
    BY <1>0, <2>4, UpdatePc
  <2>6. thread["main"].pc = "idle" /\ thread["usb"].pc = "absent" /\ completion' = completion
    BY <1>5, <2>1 DEF NextFn, Step, Exclusive
  <2> QED
    BY <2>2, <2>3, <2>5, <2>6 DEF Exclusive, Active, Threads
<1>6. ASSUME NEW c \in Channels, IRQHandler(c) PROVE Exclusive'
  <2>0. init' = init
    BY <1>6 DEF IRQHandler
  <2>1. CASE UNCHANGED <<completion, thread>>
    BY <2>0, <2>1 DEF Exclusive, Active
  <2>2. CASE /\ completion' = [flag |-> TRUE, suspended |-> {}]
             /\ thread' = [t \in Threads |-> IF t \in completion.suspended
                                            THEN [thread[t] EXCEPT !.pc = "woken"] ELSE thread[t]]
    <3>1. \A t \in Threads : thread'[t].pc = IF thread[t].pc = "asleep" THEN "woken" ELSE thread[t].pc
      BY <1>0, <2>2 DEF Exclusive, ThreadRec
    <3>2. completion'.suspended = {}
      BY <2>2
    <3> QED
      BY <1>0, <2>0, <3>1, <3>2 DEF Exclusive, Active
  <2> QED
    BY <1>6, <2>1, <2>2, DoneWakes DEF IRQHandler
<1>7. CASE Hardware
  <2>1. \A t \in Threads : thread'[t].pc = thread[t].pc
    <3> DEFINE r == [thread[spi.buf] EXCEPT !.buffer = Append(@, spi.rx[1])]
    <3>1. spi.buf \in Threads /\ r.pc = thread[spi.buf].pc
      BY <1>0 DEF TypeInv, ThreadRec
    <3>2. thread' = thread \/ thread' = [thread EXCEPT ![spi.buf] = r]
      BY <1>7 DEF Hardware, TxDma, Shift, RxDma
    <3> HIDE DEF r
    <3> QED
      BY <3>1, <3>2 DEF TypeInv
  <2>2. init' = init /\ completion' = completion
    BY <1>7 DEF Hardware, TxDma, Shift, RxDma
  <2> QED
    BY <1>0, <2>1, <2>2 DEF Exclusive, Active
<1>8. CASE UNCHANGED vars
  BY <1>8 DEF vars, Exclusive, Active
<1> QED
  BY <1>1, <1>2, <1>3, <1>4, <1>5, <1>6, <1>7, <1>8 DEF Next, Thread

-----------------------------------------------------------------------------
(* The hardware.                                                           *)

Shifted(t) == Length(t) - ch[Tx].left - Len(spi.tx)
Got(t)     == Shifted(t) - Len(spi.rx)

\* Byte i of a whole command.
Expected(t, i) == IF i <= thread[t].cmd[1] THEN Byte(t, 1, i) ELSE Byte(t, 2, i - thread[t].cmd[1])

\* Nothing is on the bus and nothing will be.
AtRest ==
  /\ spi.tx = <<>> /\ spi.rx = <<>> /\ ~ch[Tx].tc /\ ~ch[Rx].tc /\ ~completion.flag
  /\ ch[Tx].left = 0 \/ ~ch[Tx].en

SetUp(t) ==
  /\ spi.tx = <<>> /\ spi.rx = <<>> /\ ~ch[Tx].tc /\ ~ch[Rx].tc /\ ~completion.flag /\ ~ch[Tx].en
  /\ spi.buf = t /\ thread[t].buffer = <<>> /\ Len(chip.seen) = Before(t)
  /\ ch[Tx].left = Length(t) /\ ch[Rx].left = Length(t)
  /\ thread[t].pc \in {"user", "rx", "tx"} => DmaCH.IrqCh = {}
  /\ thread[t].pc \in {"rx", "tx"} => DmaCH.UserCh = Channels

\* How far each part of the hardware is with the transfer of t, and that both
\* interrupts must have come before the completion is signalled.
Moving(t) ==
  /\ spi.buf = t /\ DmaCH.UserCh = Channels
  /\ ch[Tx].left \in 0 .. Length(t) /\ Got(t) >= 0
  /\ ch[Rx].left = IF Got(t) = Length(t) THEN Length(t) ELSE Length(t) - Got(t)
  /\ Len(chip.seen) = Before(t) + Shifted(t)
  /\ Len(thread[t].buffer) = Got(t) /\ \A i \in 1 .. Got(t) : thread[t].buffer[i] = Before(t) + i
  /\ spi.tx # <<>> => spi.tx[1] = Expected(t, Before(t) + Shifted(t) + 1)
  /\ spi.rx # <<>> => spi.rx[1] = Before(t) + Shifted(t)
  /\ ch[Tx].tc \/ Tx \in DmaCH.IrqCh => ch[Tx].left = 0
  /\ ch[Rx].tc \/ Rx \in DmaCH.IrqCh => Got(t) = Length(t)
  /\ \A c \in DmaCH.IrqCh : ~ch[c].tc
  /\ completion.flag <=> DmaCH.IrqCh = Channels
  /\ thread[t].pc = "asleep" => ~completion.flag
  /\ thread[t].pc = "woken" => completion.flag

BusOf(t) ==
  /\ chip.selected /\ \A i \in 1 .. Len(chip.seen) : chip.seen[i] = Expected(t, i)
  /\ thread[t].pc = "config" => AtRest /\ Len(chip.seen) = Before(t)
  /\ thread[t].pc = "deselect" =>
       AtRest /\ thread[t].part = Len(thread[t].cmd) /\ Len(chip.seen) = Before(t) + Length(t)
  /\ thread[t].pc \in {"clear", "user", "rx", "tx"} => SetUp(t)
  /\ thread[t].pc \in {"wait", "asleep", "woken"} => Moving(t)

Bus ==
  /\ \A c \in Channels : ch[c].left >= 0
  /\ (\A t \in Threads : ~Active(t)) => AtRest /\ ~chip.selected
  /\ \A t \in Threads : Active(t) => BusOf(t)

IInv == TypeInv /\ Exclusive /\ Bus

LEMMA InitBus == Init => Bus
BY DEF Init, Bus, BusOf, Active, AtRest, NoCh, NoReg, Channels, Threads, Tx, Rx

\* The command, and how far in it the transfer is.
LEMMA CmdFacts ==
  ASSUME TypeInv, NEW t \in Threads
  PROVE  /\ thread[t] \in ThreadRec /\ Len(thread[t].cmd) \in {1, 2} /\ thread[t].part \in 1 .. Len(thread[t].cmd)
         /\ \A p \in 1 .. Len(thread[t].cmd) : thread[t].cmd[p] \in Nat \ {0}
         /\ Length(t) \in Nat \ {0} /\ Before(t) \in Nat
         /\ thread[t].part = 1 => Length(t) = thread[t].cmd[1] /\ Before(t) = 0
         /\ thread[t].part = 2 => Length(t) = thread[t].cmd[2] /\ Before(t) = thread[t].cmd[1]
<1>1. thread[t] \in ThreadRec /\ thread[t].cmd \in Cmds /\ thread[t].part \in DOMAIN thread[t].cmd
  BY DEF TypeInv, ThreadRec
<1>2. /\ thread[t].cmd \in Seq(Nat \ {0}) /\ Len(thread[t].cmd) \in {1, 2}
      /\ DOMAIN thread[t].cmd = 1 .. Len(thread[t].cmd)
  BY <1>1, CmdType
<1>3. \A p \in 1 .. Len(thread[t].cmd) : thread[t].cmd[p] \in Nat \ {0}
  BY <1>2, ElementOfSeq
<1> QED
  BY <1>1, <1>2, <1>3 DEF Length, Before

LEMMA ChFacts ==
  ASSUME TypeInv
  PROVE  /\ Tx \in Channels /\ Rx \in Channels /\ Tx # Rx /\ Channels = {Tx, Rx}
         /\ ch[Tx] \in ChRec /\ ch[Rx] \in ChRec
         /\ Len(spi.tx) \in {0, 1} /\ Len(spi.rx) \in {0, 1} /\ Len(chip.seen) \in Nat
         /\ (spi.tx = <<>> <=> Len(spi.tx) = 0) /\ (spi.rx = <<>> <=> Len(spi.rx) = 0)
<1>1. Tx \in Channels /\ Rx \in Channels /\ Tx # Rx /\ Channels = {Tx, Rx}
  BY DEF Channels, Tx, Rx
<1>2. ch[Tx] \in ChRec /\ ch[Rx] \in ChRec
  BY <1>1 DEF TypeInv
<1>3. spi.tx \in Seq(Bytes) /\ spi.rx \in Seq(Nat) /\ chip.seen \in Seq(Bytes) /\ Len(spi.tx) <= 1 /\ Len(spi.rx) <= 1
  BY DEF TypeInv
<1>4. \A S : \A q \in Seq(S) : Len(q) \in Nat /\ (q = <<>> <=> Len(q) = 0)
  BY LenProperties, EmptySeq
<1>5. Len(spi.tx) \in Nat /\ Len(spi.rx) \in Nat /\ Len(chip.seen) \in Nat
  BY <1>3, <1>4
<1>6. (spi.tx = <<>> <=> Len(spi.tx) = 0) /\ (spi.rx = <<>> <=> Len(spi.rx) = 0)
  BY <1>3, <1>4
<1>7. Len(spi.tx) \in {0, 1} /\ Len(spi.rx) \in {0, 1}
  <2>1. \A n \in Nat : n <= 1 => n \in {0, 1}
    OBVIOUS
  <2> QED
    BY <1>3, <1>5, <2>1
<1> QED
  BY <1>1, <1>2, <1>5, <1>6, <1>7

-----------------------------------------------------------------------------
\* Only the command and the transfer say which bytes are meant.
LEMMA Same ==
  ASSUME TypeInv, NEW t \in Threads, thread'[t].cmd = thread[t].cmd, thread'[t].part = thread[t].part
  PROVE  /\ Length(t)' = Length(t) /\ Before(t)' = Before(t)
         /\ \A i : Expected(t, i)' = Expected(t, i)
BY DEF Length, Before, Expected, Byte

\* While t is active, what the hardware does is about t alone.
LEMMA BusFrom ==
  ASSUME Exclusive', NEW t \in Threads, Active(t)', BusOf(t)', \A c \in Channels : ch'[c].left >= 0
  PROVE  Bus'
<1>1. ASSUME NEW u \in Threads, Active(u)' PROVE u = t
  BY <1>1 DEF Exclusive, Active, Threads
<1> QED
  BY <1>1 DEF Bus

\* Something on the bus is of a transfer that a thread has begun.
LEMMA InTransfer ==
  ASSUME TypeInv, Exclusive, Bus,
         \/ \E c \in Channels : ch[c].tc
         \/ ch[Tx].en /\ ch[Tx].left > 0
         \/ spi.tx # <<>> \/ spi.rx # <<>>
  PROVE  \E t \in Threads : Active(t) /\ BusOf(t) /\ thread[t].pc \in {"wait", "asleep", "woken"} /\ Moving(t)
<1>1. ~AtRest
  BY ChFacts DEF AtRest, ChRec
<1>2. PICK t \in Threads : Active(t) /\ BusOf(t)
  BY <1>1 DEF Bus
<1>3. ~SetUp(t)
  BY ChFacts DEF SetUp
<1>4. thread[t].pc \in Pcs
  BY DEF TypeInv, ThreadRec
<1> QED
  BY <1>1, <1>2, <1>3, <1>4 DEF BusOf, Active, Pcs

LEMMA SelectBus ==
  ASSUME TypeInv, Exclusive, Bus, Exclusive', NEW t \in Threads, Select(t) PROVE Bus'
<1>1. \A u \in Threads : ~Active(u)
  BY DEF Select, Step, Runs, Ready, Exclusive, Active, Threads
<1>2. AtRest /\ ~chip.selected /\ \A c \in Channels : ch[c].left >= 0
  BY <1>1 DEF Bus
<1>3. /\ thread'[t].pc = "config" /\ thread'[t].part = 1
      /\ chip'.selected /\ chip'.seen = <<>> /\ ch' = ch
  BY <1>2 DEF Select, TypeInv
<1>4. AtRest'
  BY <1>2 DEF Select, AtRest
<1>5. Before(t)' = 0 /\ Len(chip'.seen) = 0
  BY <1>3 DEF Before
<1>6. Active(t)' /\ BusOf(t)'
  BY <1>3, <1>4, <1>5 DEF BusOf, Active
<1> QED
  BY <1>2, <1>3, <1>6, BusFrom

LEMMA NextFnBus == ASSUME TypeInv, Exclusive, Bus, NextFn PROVE Bus'
<1>1. thread["main"].pc = "idle" /\ thread["usb"].pc = "absent"
  BY DEF NextFn, Step, Exclusive
<1>2. thread'["main"].pc = "idle" /\ thread'["usb"].pc \in {"absent", "idle"}
  BY <1>1 DEF NextFn, TypeInv, Threads, ThreadRec
<1>3. (\A t \in Threads : ~Active(t)) /\ \A t \in Threads : ~Active(t)'
  BY <1>1, <1>2 DEF Active, Threads
<1> QED
  BY <1>3 DEF Bus, NextFn, AtRest

LEMMA ConfigBus ==
  ASSUME TypeInv, Exclusive, Bus, Exclusive', NEW t \in Threads, Config(t) PROVE Bus'
<1>1. thread[t].pc = "config" /\ Active(t) /\ BusOf(t)
  BY DEF Config, Step, Active, Bus
<1>2. AtRest /\ Len(chip.seen) = Before(t)
  BY <1>1 DEF BusOf
<1>3. /\ thread'[t].pc = "clear" /\ thread'[t].cmd = thread[t].cmd /\ thread'[t].part = thread[t].part
      /\ thread'[t].buffer = <<>>
  BY DEF Config, TypeInv, ThreadRec
<1>4. /\ \A c \in Channels : ch'[c].left = Length(t) /\ ~ch'[c].en /\ ~ch'[c].tc
      /\ spi'.tx = spi.tx /\ spi'.rx = spi.rx /\ spi'.buf = t
      /\ completion' = completion /\ chip' = chip
  BY DEF Config, TypeInv
<1>5. SetUp(t)'
  BY <1>2, <1>3, <1>4, Same, ChFacts DEF SetUp, AtRest
<1>6. Active(t)' /\ BusOf(t)'
  BY <1>1, <1>3, <1>4, <1>5, Same, ChFacts DEF BusOf, Active
<1>7. \A c \in Channels : ch'[c].left >= 0
  BY <1>4, CmdFacts
<1> QED
  BY <1>6, <1>7, BusFrom

LEMMA EnableCh ==
  ASSUME TypeInv, NEW c \in Channels, ch' = [ch EXCEPT ![c].en = TRUE]
  PROVE  \A d \in Channels : /\ ch'[d].left = ch[d].left /\ ch'[d].tc = ch[d].tc
                             /\ d # c => ch'[d].en = ch[d].en
<1> DEFINE y == [ch[c] EXCEPT !.en = TRUE]
<1>1. ch[c] \in ChRec
  BY DEF TypeInv
<1>2. y.left = ch[c].left /\ y.tc = ch[c].tc
  BY <1>1 DEF ChRec
<1>3. ch' = [ch EXCEPT ![c] = y]
  OBVIOUS
<1> HIDE DEF y
<1> QED
  BY <1>2, <1>3 DEF TypeInv

\* DMA1_Channel_Write up to the wait: the transfer is set up, and starts with
\* the second channel.
LEMMA SetUpBus ==
  ASSUME TypeInv, Exclusive, Bus, Exclusive', NEW t \in Threads,
         Clear(t) \/ SetUserCh(t) \/ Enable(t, "rx", Rx)
  PROVE  Bus'
<1>1. thread[t].pc \in {"clear", "user", "rx"} /\ Active(t) /\ BusOf(t) /\ SetUp(t)
  BY DEF Clear, SetUserCh, Enable, Step, Active, Bus, BusOf
<1>2. \/ thread[t].pc = "clear" /\ To(t, "user") /\ DmaCH'.IrqCh = {}
      \/ thread[t].pc = "user" /\ To(t, "rx") /\ DmaCH'.IrqCh = DmaCH.IrqCh /\ DmaCH'.UserCh = Channels
      \/ thread[t].pc = "rx" /\ To(t, "tx") /\ DmaCH' = DmaCH
  <2>1. CASE Clear(t)
    BY <2>1 DEF Clear, Step, Succ
  <2>2. CASE SetUserCh(t)
    BY <2>2 DEF SetUserCh, Step, Succ, TypeInv
  <2>3. CASE Enable(t, "rx", Rx)
    BY <2>3 DEF Enable, Step, Succ
  <2> QED
    BY <2>1, <2>2, <2>3
<1>3. /\ thread'[t].pc \in {"user", "rx", "tx"} /\ thread'[t].cmd = thread[t].cmd
      /\ thread'[t].part = thread[t].part /\ thread'[t].buffer = thread[t].buffer
      /\ thread[t].pc = "clear" => thread'[t].pc = "user"
      /\ thread[t].pc = "user" => thread'[t].pc = "rx"
      /\ thread[t].pc = "rx" => thread'[t].pc = "tx"
  BY <1>2, UpdatePc DEF Pcs
<1>4. /\ \A c \in Channels : ch'[c].left = ch[c].left /\ ch'[c].tc = ch[c].tc
      /\ ch'[Tx].en = ch[Tx].en
  <2>1. ch' = ch \/ ch' = [ch EXCEPT ![Rx].en = TRUE]
    BY DEF Clear, SetUserCh, Enable
  <2> QED
    BY <2>1, ChFacts, EnableCh
<1>5. UNCHANGED <<spi, completion, chip>>
  BY DEF Clear, SetUserCh, Enable
<1>6. SetUp(t)'
  BY <1>1, <1>2, <1>3, <1>4, <1>5, Same, ChFacts DEF SetUp
<1>7. Active(t)' /\ BusOf(t)'
  BY <1>1, <1>3, <1>5, <1>6, Same, ChFacts DEF BusOf, Active
<1>8. \A c \in Channels : ch'[c].left >= 0
  BY <1>4 DEF Bus
<1> QED
  BY <1>7, <1>8, BusFrom

LEMMA StartBus ==
  ASSUME TypeInv, Exclusive, Bus, Exclusive', NEW t \in Threads, Enable(t, "tx", Tx) PROVE Bus'
<1>1. thread[t].pc = "tx" /\ Active(t) /\ BusOf(t) /\ SetUp(t)
  BY DEF Enable, Step, Active, Bus, BusOf
<1>2. /\ thread'[t].pc = "wait" /\ thread'[t].cmd = thread[t].cmd
      /\ thread'[t].part = thread[t].part /\ thread'[t].buffer = thread[t].buffer
  BY UpdatePc DEF Enable, Succ, Pcs
<1>3. \A c \in Channels : ch'[c].left = ch[c].left /\ ch'[c].tc = ch[c].tc
  BY ChFacts, EnableCh DEF Enable
<1>4. UNCHANGED <<spi, completion, chip, DmaCH>>
  BY DEF Enable
<1>5. Shifted(t)' = 0 /\ Got(t)' = 0
  BY <1>1, <1>2, <1>3, <1>4, Same, ChFacts, CmdFacts DEF Shifted, Got, SetUp
<1>6. Moving(t)'
  <2>1. /\ ch'[Tx].left = Length(t)' /\ ch'[Rx].left = Length(t)' /\ Length(t)' \in Nat \ {0}
        /\ Len(chip'.seen) = Before(t)' + 0 /\ Len(thread'[t].buffer) = 0
    BY <1>1, <1>2, <1>3, <1>4, Same, ChFacts, CmdFacts DEF SetUp
  <2>2. /\ spi'.buf = t /\ DmaCH'.UserCh = Channels /\ DmaCH'.IrqCh = {}
        /\ spi'.tx = <<>> /\ spi'.rx = <<>> /\ ~ch'[Tx].tc /\ ~ch'[Rx].tc /\ ~completion'.flag
    BY <1>1, <1>3, <1>4, ChFacts DEF SetUp
  <2> QED
    BY <1>2, <1>5, <2>1, <2>2, ChFacts DEF Moving
<1>7. Active(t)' /\ BusOf(t)'
  BY <1>1, <1>2, <1>4, <1>6, Same, ChFacts DEF BusOf, Active
<1>8. \A c \in Channels : ch'[c].left >= 0
  BY <1>3 DEF Bus
<1> QED
  BY <1>7, <1>8, BusFrom

LEMMA WaitBus ==
  ASSUME TypeInv, Exclusive, Bus, Exclusive', NEW t \in Threads, rt_completion_wait(t) PROVE Bus'
<1>1. thread[t].pc = "wait" /\ Active(t) /\ BusOf(t) /\ Moving(t)
  BY DEF rt_completion_wait, Step, Active, Bus, BusOf
<1>2. UNCHANGED <<DmaCH, ch, spi, chip>> /\ completion'.flag = completion.flag
  BY DEF rt_completion_wait, TypeInv
<1>3. \/ completion.flag /\ To(t, "woken")
      \/ ~completion.flag /\ To(t, "asleep")
  BY DEF rt_completion_wait
<1>4. /\ thread'[t].cmd = thread[t].cmd
      /\ thread'[t].part = thread[t].part /\ thread'[t].buffer = thread[t].buffer
      /\ \/ thread'[t].pc = "woken" /\ completion.flag
         \/ thread'[t].pc = "asleep" /\ ~completion.flag
  <2>2. "woken" \in Pcs /\ "asleep" \in Pcs
    BY DEF Pcs
  <2>4. CASE completion.flag /\ To(t, "woken")
    BY <2>2, <2>4, UpdatePc
  <2>5. CASE ~completion.flag /\ To(t, "asleep")
    BY <2>2, <2>5, UpdatePc
  <2> QED
    BY <1>3, <2>4, <2>5
<1>5. Shifted(t)' = Shifted(t) /\ Got(t)' = Got(t) /\ Length(t)' = Length(t) /\ Before(t)' = Before(t)
  BY <1>2, <1>4, Same DEF Shifted, Got
<1>6. Moving(t)'
  BY <1>1, <1>2, <1>4, <1>5, Same DEF Moving
<1>7. Active(t)' /\ BusOf(t)'
  BY <1>1, <1>2, <1>4, <1>6, Same DEF BusOf, Active
<1> QED
  BY <1>2, <1>7, BusFrom DEF Bus

\* When the thread comes back, both channels have ended.
LEMMA Ended ==
  ASSUME TypeInv, NEW t \in Threads, Moving(t), completion.flag
  PROVE  /\ Got(t) = Length(t) /\ Shifted(t) = Length(t) /\ ch[Tx].left = 0 /\ spi.tx = <<>> /\ spi.rx = <<>>
         /\ ~ch[Tx].tc /\ ~ch[Rx].tc
<1>1. ~ch[Tx].tc /\ ~ch[Rx].tc /\ ch[Tx].left = 0 /\ Got(t) = Length(t)
  BY ChFacts DEF Moving
<1> QED
  BY <1>1, ChFacts, CmdFacts DEF Got, Shifted

LEMMA WokenBus ==
  ASSUME TypeInv, Exclusive, Bus, Exclusive', NEW t \in Threads, Woken(t) PROVE Bus'
<1>1. thread[t].pc = "woken" /\ Active(t) /\ BusOf(t) /\ Moving(t) /\ completion.flag
  BY DEF Woken, Step, Active, Bus, BusOf, Moving
<1>2. ~completion'.flag /\ UNCHANGED <<ch, spi, chip>>
  BY DEF Woken, TypeInv
<1>3. AtRest' /\ Len(chip.seen) = Before(t) + Length(t)
  BY <1>1, <1>2, Ended DEF AtRest, Moving
<1>4. thread'[t].cmd = thread[t].cmd
  BY DEF Woken, TypeInv, ThreadRec
<1>5. CASE thread[t].part < Len(thread[t].cmd)
  <2>1. thread'[t].pc = "config" /\ thread'[t].part = thread[t].part + 1 /\ thread[t].part = 1
    <3> DEFINE r == [thread[t] EXCEPT !.pc = "config", !.part = @ + 1]
    <3>1. thread' = [thread EXCEPT ![t] = r]
      BY <1>5 DEF Woken, TypeInv
    <3>2. thread[t] \in ThreadRec
      BY CmdFacts
    <3>3. r.pc = "config" /\ r.part = thread[t].part + 1
      BY <3>2 DEF ThreadRec
    <3>4. thread'[t] = r
      BY <3>1 DEF TypeInv
    <3>5. thread[t].part = 1
      <4>1. Len(thread[t].cmd) \in {1, 2} /\ thread[t].part \in 1 .. Len(thread[t].cmd)
        BY CmdFacts
      <4>2. \A n \in {1, 2} : \A m \in 1 .. n : m < n => m = 1
        OBVIOUS
      <4> QED
        BY <1>5, <4>1, <4>2
    <3> QED
      BY <3>3, <3>4, <3>5
  <2>2. Before(t)' = Before(t) + Length(t)
    BY <1>4, <2>1, CmdFacts DEF Before
  <2>3. \A i \in Nat : Expected(t, i)' = Expected(t, i)
    BY <1>4 DEF Expected, Byte
  <2> QED
    BY <1>1, <1>2, <1>3, <2>1, <2>2, <2>3, ChFacts, BusFrom DEF BusOf, Active, Bus
<1>6. CASE ~(thread[t].part < Len(thread[t].cmd))
  <2>1. thread'[t].pc = "deselect" /\ thread'[t].part = thread[t].part /\ thread[t].part = Len(thread[t].cmd)
    BY <1>6, CmdFacts DEF Woken, TypeInv, ThreadRec
  <2> QED
    BY <1>1, <1>2, <1>3, <1>4, <2>1, Same, ChFacts, BusFrom DEF BusOf, Active, Bus
<1> QED
  BY <1>5, <1>6

LEMMA DeselectBus ==
  ASSUME TypeInv, Exclusive, Bus, Exclusive', NEW t \in Threads, Deselect(t) PROVE Bus'
<1>1. thread[t].pc = "deselect" /\ Active(t) /\ AtRest
  BY DEF Deselect, Step, Active, Bus, BusOf
<1>2. thread'[t].pc = "idle" /\ \A u \in Threads : u # t => thread'[u] = thread[u]
  BY UpdatePc DEF Deselect, Pcs
<1>3. \A u \in Threads : ~Active(u)'
  BY <1>1, <1>2 DEF Exclusive, Active, Threads
<1>4. AtRest' /\ ~chip'.selected /\ ch' = ch
  BY <1>1 DEF Deselect, AtRest, TypeInv
<1> QED
  BY <1>3, <1>4 DEF Bus

\* The interrupt of the second channel, and only that, wakes the thread.
LEMMA IrqBus ==
  ASSUME TypeInv, Exclusive, Bus, Exclusive', NEW c \in Channels, IRQHandler(c) PROVE Bus'
<1>1. PICK t \in Threads : Active(t) /\ BusOf(t) /\ thread[t].pc \in {"wait", "asleep", "woken"} /\ Moving(t)
  BY InTransfer DEF IRQHandler
<1>2. ch[c].tc /\ UNCHANGED <<init, spi, chip>>
  BY DEF IRQHandler
<1>3. \A d \in Channels : /\ ch'[d].left = ch[d].left /\ ch'[d].en = ch[d].en
                          /\ ch'[d].tc = IF d = c THEN FALSE ELSE ch[d].tc
  <2> DEFINE y == [ch[c] EXCEPT !.tc = FALSE]
  <2>1. ch[c] \in ChRec
    BY DEF TypeInv
  <2>2. y.left = ch[c].left /\ y.en = ch[c].en /\ y.tc = FALSE
    BY <2>1 DEF ChRec
  <2>3. ch' = [ch EXCEPT ![c] = y]
    BY DEF IRQHandler
  <2> HIDE DEF y
  <2> QED
    BY <2>2, <2>3 DEF TypeInv
<1>4. DmaCH'.UserCh = Channels /\ DmaCH'.IrqCh = DmaCH.IrqCh \cup {c} /\ DmaCH.UserCh = Channels
  BY <1>1 DEF IRQHandler, TypeInv, Moving
<1>5. c \notin DmaCH.IrqCh /\ ~completion.flag /\ thread[t].pc # "woken"
  BY <1>1, <1>2 DEF Moving
<1>6. /\ thread'[t].cmd = thread[t].cmd /\ thread'[t].part = thread[t].part
      /\ thread'[t].buffer = thread[t].buffer
      /\ \/ /\ DmaCH'.IrqCh # Channels /\ ~completion'.flag /\ thread'[t].pc = thread[t].pc
         \/ /\ DmaCH'.IrqCh = Channels /\ completion'.flag
            /\ thread'[t].pc = IF thread[t].pc = "asleep" THEN "woken" ELSE thread[t].pc
  <2>1. CASE DmaCH'.IrqCh # Channels
    <3>1. UNCHANGED <<completion, thread>>
      BY <1>4, <2>1 DEF IRQHandler
    <3> QED
      BY <1>5, <2>1, <3>1
  <2>2. CASE DmaCH'.IrqCh = Channels
    <3>1. rt_completion_done
      BY <1>4, <2>2 DEF IRQHandler
    <3>2. /\ completion' = [flag |-> TRUE, suspended |-> {}]
          /\ thread' = [u \in Threads |-> IF u \in completion.suspended
                                         THEN [thread[u] EXCEPT !.pc = "woken"] ELSE thread[u]]
      BY <1>5, <3>1, DoneWakes
    <3>3. thread[t] \in ThreadRec /\ (t \in completion.suspended <=> thread[t].pc = "asleep")
      BY DEF TypeInv, Exclusive
    <3>4. thread'[t] = IF t \in completion.suspended
                       THEN [thread[t] EXCEPT !.pc = "woken"] ELSE thread[t]
      BY <3>2
    <3>5. CASE t \in completion.suspended
      BY <2>2, <3>2, <3>3, <3>4, <3>5 DEF ThreadRec
    <3>6. CASE t \notin completion.suspended
      BY <2>2, <3>2, <3>3, <3>4, <3>6
    <3> QED
      BY <3>5, <3>6
  <2> QED
    BY <2>1, <2>2
<1>7. Shifted(t)' = Shifted(t) /\ Got(t)' = Got(t) /\ Length(t)' = Length(t) /\ Before(t)' = Before(t)
  BY <1>2, <1>3, <1>6, Same, ChFacts DEF Shifted, Got
<1>8. Moving(t)'
  <2>1. /\ ch'[Tx].tc \/ Tx \in DmaCH'.IrqCh => ch'[Tx].left = 0
        /\ ch'[Rx].tc \/ Rx \in DmaCH'.IrqCh => Got(t) = Length(t)
        /\ \A d \in DmaCH'.IrqCh : ~ch'[d].tc
    <3>1. DmaCH.IrqCh \subseteq Channels
      BY DEF TypeInv
    <3> QED
      BY <1>1, <1>2, <1>3, <1>4, <3>1, ChFacts DEF Moving
  <2>2. /\ completion'.flag <=> DmaCH'.IrqCh = Channels
        /\ thread'[t].pc = "asleep" => ~completion'.flag
        /\ thread'[t].pc = "woken" => completion'.flag
    BY <1>5, <1>6
  <2>3. ch'[Tx].left = ch[Tx].left /\ ch'[Rx].left = ch[Rx].left
    BY <1>3, ChFacts
  <2> QED
    BY <1>1, <1>2, <1>4, <1>6, <1>7, <2>1, <2>2, <2>3, Same DEF Moving
<1>9. Active(t)' /\ BusOf(t)'
  BY <1>1, <1>2, <1>6, <1>7, <1>8, Same DEF BusOf, Active
<1>10. \A d \in Channels : ch'[d].left >= 0
  BY <1>3 DEF Bus
<1> QED
  BY <1>9, <1>10, BusFrom

\* A byte leaves the buffer: it is the next one of the command.
LEMMA TxBus ==
  ASSUME TypeInv, Exclusive, Bus, Exclusive', TxDma PROVE Bus'
<1>1. PICK t \in Threads : Active(t) /\ BusOf(t) /\ thread[t].pc \in {"wait", "asleep", "woken"} /\ Moving(t)
  BY InTransfer DEF TxDma
<1>2. ch[Tx].left > 0 /\ spi.tx = <<>> /\ spi.buf = t /\ UNCHANGED <<thread, DmaCH, completion, chip>>
  BY <1>1 DEF TxDma, NoReg, Moving
<1>3. /\ ch'[Tx].left = ch[Tx].left - 1 /\ (ch'[Tx].tc <=> ch[Tx].tc \/ ch[Tx].left = 1)
      /\ ch'[Rx] = ch[Rx]
  <2> DEFINE w == ch[Tx].tc \/ ch[Tx].left = 1
             n == ch[Tx].left - 1
             y == [ch[Tx] EXCEPT !.left = n, !.tc = w]
  <2>1. ch[Tx] \in ChRec /\ w \in BOOLEAN
    BY ChFacts
  <2>2. ch' = [ch EXCEPT ![Tx] = y]
    BY ChFacts DEF TxDma, TypeInv, ChRec
  <2> HIDE DEF w, n
  <2>3. y.left = n /\ y.tc = w
    BY <2>1 DEF ChRec
  <2> HIDE DEF y
  <2>4. ch'[Tx] = y /\ ch'[Rx] = ch[Rx]
    BY <2>2, ChFacts DEF TypeInv
  <2>5. ch'[Tx].left = n /\ ch'[Tx].tc = w
    BY <2>3, <2>4
  <2> USE DEF w, n
  <2> QED
    BY <2>4, <2>5
<1>4. spi'.tx = <<Byte(t, thread[t].part, Length(t) - ch[Tx].left + 1)>> /\ spi'.rx = spi.rx /\ spi'.buf = t
  BY <1>2 DEF TxDma, Sender, TypeInv
<1>5. Length(t)' = Length(t) /\ Before(t)' = Before(t) /\ \A i : Expected(t, i)' = Expected(t, i)
  BY <1>2, Same
<1>6. Shifted(t)' = Shifted(t) /\ Got(t)' = Got(t) /\ Shifted(t) = Length(t) - ch[Tx].left
  <2>1. Len(spi'.tx) = 1 /\ Len(spi.tx) = 0 /\ ch[Tx].left \in Int /\ Length(t) \in Nat
    BY <1>2, <1>4, ChFacts, CmdFacts DEF ChRec
  <2> QED
    BY <1>3, <1>4, <1>5, <2>1 DEF Shifted, Got
<1>7. spi'.tx[1] = Expected(t, Before(t) + Shifted(t) + 1)
  <2>1. /\ ch[Tx].left \in 0 .. Length(t) /\ Length(t) \in Nat \ {0} /\ Before(t) \in Nat
        /\ thread[t].part \in {1, 2}
    <3>1. \A n \in {1, 2} : \A m \in 1 .. n : m \in {1, 2}
      OBVIOUS
    <3>2. thread[t].part \in {1, 2}
      BY <3>1, CmdFacts
    <3> QED
      BY <1>1, <3>2, CmdFacts DEF Moving
  <2>2. CASE thread[t].part = 1
    BY <1>2, <1>4, <1>6, <2>1, <2>2, CmdFacts DEF Expected
  <2>3. CASE thread[t].part = 2
    <3>1. Before(t) = thread[t].cmd[1] /\ Before(t) \in Nat
      BY <2>3, CmdFacts
    <3>2. Before(t) + Shifted(t) + 1 > thread[t].cmd[1]
      BY <1>2, <1>6, <2>1, <3>1
    <3>3. (Before(t) + Shifted(t) + 1) - thread[t].cmd[1] = Length(t) - ch[Tx].left + 1
      BY <1>6, <2>1, <3>1
    <3>4. ~(Before(t) + Shifted(t) + 1 <= thread[t].cmd[1])
      BY <1>6, <2>1, <3>1, <3>2
    <3>5. Expected(t, Before(t) + Shifted(t) + 1) = Byte(t, 2, (Before(t) + Shifted(t) + 1) - thread[t].cmd[1])
      <4>1. \A i : ~(i <= thread[t].cmd[1]) => Expected(t, i) = Byte(t, 2, i - thread[t].cmd[1])
        BY Zenon DEF Expected
      <4> QED
        BY <3>4, <4>1, Zenon
    <3>6. spi'.tx[1] = Byte(t, 2, Length(t) - ch[Tx].left + 1)
      BY <1>4, <2>3
    <3> QED
      BY <3>3, <3>5, <3>6
  <2> QED
    BY <2>1, <2>2, <2>3
<1>8. Tx \notin DmaCH.IrqCh /\ ~ch[Tx].tc
  BY <1>1, <1>2, ChFacts DEF Moving
<1>9. Moving(t)'
  <2>1. ch'[Tx].left \in 0 .. Length(t) /\ (ch'[Tx].tc => ch'[Tx].left = 0)
    BY <1>1, <1>2, <1>3, <1>8, ChFacts, CmdFacts DEF Moving, ChRec
  <2>2. \A d \in DmaCH.IrqCh : ~ch'[d].tc
    <3>1. \A d \in DmaCH.IrqCh : d = Rx
      BY <1>8, ChFacts DEF TypeInv
    <3> QED
      BY <1>1, <1>3, <3>1 DEF Moving
  <2> QED
    BY <1>1, <1>2, <1>3, <1>4, <1>5, <1>6, <1>7, <1>8, <2>1, <2>2 DEF Moving
<1>10. Active(t)' /\ BusOf(t)'
  BY <1>1, <1>2, <1>5, <1>9 DEF BusOf, Active
<1>11. \A d \in Channels : ch'[d].left >= 0
  <2>1. ch'[Tx].left >= 0 /\ ch'[Rx].left >= 0
    BY <1>2, <1>3, ChFacts DEF Bus, ChRec
  <2> QED
    BY <2>1, ChFacts
<1> QED
  BY <1>10, <1>11, BusFrom

\* A byte goes out, and the answer to it comes in.
LEMMA ShiftBus ==
  ASSUME TypeInv, Exclusive, Bus, Exclusive', Shift PROVE Bus'
<1>1. PICK t \in Threads : Active(t) /\ BusOf(t) /\ thread[t].pc \in {"wait", "asleep", "woken"} /\ Moving(t)
  BY InTransfer DEF Shift, NoReg
<1>2. /\ spi.tx # <<>> /\ spi.rx = <<>> /\ chip.selected
      /\ UNCHANGED <<thread, DmaCH, completion, ch>>
  BY <1>1 DEF Shift, NoReg, BusOf
<1>3. /\ spi'.tx = <<>> /\ spi'.rx = <<Len(chip.seen) + 1>> /\ spi'.buf = spi.buf
      /\ chip'.selected /\ chip'.seen = Append(chip.seen, spi.tx[1])
  BY <1>2 DEF Shift, NoReg, TypeInv
<1>4. Length(t)' = Length(t) /\ Before(t)' = Before(t) /\ \A i : Expected(t, i)' = Expected(t, i)
  BY <1>2, Same
<1>5. Shifted(t)' = Shifted(t) + 1 /\ Got(t)' = Got(t) /\ Shifted(t) \in Int /\ Got(t) \in Int
  <2>1. Len(spi.tx) = 1 /\ Len(spi.rx) = 0 /\ Len(spi'.tx) = 0 /\ Len(spi'.rx) = 1
    BY <1>2, <1>3, ChFacts
  <2>2. ch[Tx].left \in Int /\ Length(t) \in Nat
    BY ChFacts, CmdFacts DEF ChRec
  <2> QED
    BY <1>2, <1>4, <2>1, <2>2 DEF Shifted, Got
<1>6. /\ Len(chip.seen) \in Nat /\ Len(chip'.seen) = Len(chip.seen) + 1
      /\ chip'.seen[Len(chip.seen) + 1] = spi.tx[1]
      /\ \A i \in 1 .. Len(chip.seen) : chip'.seen[i] = chip.seen[i]
  BY <1>3, ChFacts, AppendProperties DEF TypeInv
<1>7. Len(chip.seen) = Before(t) + Shifted(t) /\ Before(t) \in Nat
  BY <1>1, CmdFacts DEF Moving
<1>8. Len(chip'.seen) = Before(t) + Shifted(t)' /\ spi'.rx[1] = Before(t) + Shifted(t)'
  BY <1>3, <1>5, <1>6, <1>7
<1>9. Moving(t)'
  BY <1>1, <1>2, <1>3, <1>4, <1>5, <1>8 DEF Moving
<1>10. \A i \in 1 .. Len(chip'.seen) : chip'.seen[i] = Expected(t, i)
  <2>1. spi.tx[1] = Expected(t, Len(chip.seen) + 1)
    BY <1>1, <1>2, <1>7 DEF Moving
  <2>2. \A i \in 1 .. Len(chip.seen) : chip.seen[i] = Expected(t, i)
    BY <1>1 DEF BusOf
  <2> QED
    BY <1>6, <2>1, <2>2
<1>11. Active(t)' /\ BusOf(t)'
  BY <1>1, <1>2, <1>3, <1>4, <1>9, <1>10 DEF BusOf, Active
<1> QED
  BY <1>2, <1>11, BusFrom DEF Bus

\* The answer is put where it belongs in the buffer.
LEMMA RxBus ==
  ASSUME TypeInv, Exclusive, Bus, Exclusive', RxDma PROVE Bus'
<1>1. PICK t \in Threads : Active(t) /\ BusOf(t) /\ thread[t].pc \in {"wait", "asleep", "woken"} /\ Moving(t)
  BY InTransfer DEF RxDma, NoReg
<1>2. spi.rx # <<>> /\ spi.buf = t /\ UNCHANGED <<DmaCH, completion, chip>>
  BY <1>1 DEF RxDma, NoReg, Moving
<1>3. /\ thread'[t].pc = thread[t].pc /\ thread'[t].cmd = thread[t].cmd /\ thread'[t].part = thread[t].part
      /\ thread'[t].buffer = Append(thread[t].buffer, spi.rx[1])
  <2> DEFINE r == [thread[t] EXCEPT !.buffer = Append(@, spi.rx[1])]
  <2>1. thread[t] \in ThreadRec
    BY CmdFacts
  <2>2. thread' = [thread EXCEPT ![t] = r]
    BY <1>2 DEF RxDma
  <2>3. /\ r.pc = thread[t].pc /\ r.cmd = thread[t].cmd /\ r.part = thread[t].part
        /\ r.buffer = Append(thread[t].buffer, spi.rx[1])
    BY <2>1 DEF ThreadRec
  <2> HIDE DEF r
  <2> QED
    BY <2>2, <2>3 DEF TypeInv
<1>4. spi'.rx = <<>> /\ spi'.tx = spi.tx /\ spi'.buf = t
  BY <1>2 DEF RxDma, NoReg, TypeInv
<1>5. /\ ch'[Rx].left = IF ch[Rx].left = 1 THEN Length(t) ELSE ch[Rx].left - 1
      /\ (ch'[Rx].tc <=> ch[Rx].tc \/ ch[Rx].left = 1) /\ ch'[Tx] = ch[Tx]
  <2> DEFINE w == ch[Rx].tc \/ ch[Rx].left = 1
             n == IF ch[Rx].left = 1 THEN Length(t) ELSE ch[Rx].left - 1
             y == [ch[Rx] EXCEPT !.left = n, !.tc = w]
  <2>1. ch[Rx] \in ChRec /\ w \in BOOLEAN
    BY ChFacts
  <2>2. ch' = [ch EXCEPT ![Rx] = y]
    BY <1>2, ChFacts DEF RxDma, TypeInv, ChRec
  <2> HIDE DEF w, n
  <2>3. y.left = n /\ y.tc = w
    BY <2>1 DEF ChRec
  <2> HIDE DEF y
  <2>4. ch'[Rx] = y /\ ch'[Tx] = ch[Tx]
    BY <2>2, ChFacts DEF TypeInv
  <2>5. ch'[Rx].left = n /\ ch'[Rx].tc = w
    BY <2>3, <2>4
  <2> USE DEF w, n
  <2> QED
    BY <2>4, <2>5
<1>6. Length(t)' = Length(t) /\ Before(t)' = Before(t) /\ \A i : Expected(t, i)' = Expected(t, i)
  BY <1>3, Same
<1>7. /\ Shifted(t)' = Shifted(t) /\ Got(t)' = Got(t) + 1 /\ Shifted(t) = Got(t) + 1
      /\ Got(t) \in Nat /\ Got(t) < Length(t)
  <2>1. Len(spi.rx) = 1 /\ Len(spi'.rx) = 0 /\ Len(spi.tx) \in Nat
    BY <1>2, <1>4, ChFacts
  <2>2. ch[Tx].left \in 0 .. Length(t) /\ Length(t) \in Nat /\ Got(t) >= 0
    BY <1>1, CmdFacts DEF Moving
  <2>3. Shifted(t) \in Int /\ Shifted(t) <= Length(t) /\ Got(t) = Shifted(t) - 1
    BY <2>1, <2>2 DEF Shifted, Got
  <2>4. Shifted(t)' = Shifted(t)
    BY <1>4, <1>5, <1>6 DEF Shifted
  <2>5. Got(t)' = Shifted(t)
    BY <2>1, <2>3, <2>4 DEF Got
  <2> QED
    BY <2>2, <2>3, <2>4, <2>5
<1>8. ch[Rx].left = Length(t) - Got(t) /\ ~ch[Rx].tc /\ Rx \notin DmaCH.IrqCh /\ Length(t) \in Nat \ {0}
  BY <1>1, <1>7, CmdFacts DEF Moving
<1>9. ch'[Rx].left = IF Got(t)' = Length(t) THEN Length(t) ELSE Length(t) - Got(t)'
  BY <1>5, <1>7, <1>8
<1>10. /\ Len(thread'[t].buffer) = Got(t)'
       /\ \A i \in 1 .. Got(t)' : thread'[t].buffer[i] = Before(t) + i
  <2>1. Len(thread[t].buffer) = Got(t) /\ \A i \in 1 .. Got(t) : thread[t].buffer[i] = Before(t) + i
    BY <1>1 DEF Moving
  <2>2. spi.rx[1] = Before(t) + (Got(t) + 1)
    BY <1>1, <1>2, <1>7 DEF Moving
  <2>3. thread[t].buffer \in Seq(Nat) /\ spi.rx[1] \in Nat
    BY <1>2, ElementOfSeq, ChFacts DEF TypeInv, ThreadRec
  <2>4. /\ Len(thread'[t].buffer) = Got(t) + 1
        /\ thread'[t].buffer[Got(t) + 1] = spi.rx[1]
        /\ \A i \in 1 .. Got(t) : thread'[t].buffer[i] = thread[t].buffer[i]
    <3>1. \A q \in Seq(Nat) : \A e \in Nat : /\ Len(Append(q, e)) = Len(q) + 1
                                           /\ Append(q, e)[Len(q) + 1] = e
                                           /\ \A i \in 1 .. Len(q) : Append(q, e)[i] = q[i]
      BY AppendProperties
    <3> QED
      BY <1>3, <2>1, <2>3, <3>1
  <2>5. \A i \in 1 .. (Got(t) + 1) : i = Got(t) + 1 \/ i \in 1 .. Got(t)
    BY <1>7
  <2>6. \A i \in 1 .. (Got(t) + 1) : thread'[t].buffer[i] = Before(t) + i
    <3> SUFFICES ASSUME NEW i \in 1 .. (Got(t) + 1) PROVE thread'[t].buffer[i] = Before(t) + i
      OBVIOUS
    <3>1. CASE i = Got(t) + 1
      BY <2>2, <2>4, <3>1
    <3>2. CASE i \in 1 .. Got(t)
      BY <2>1, <2>4, <3>2
    <3> QED
      BY <2>5, <3>1, <3>2
  <2> QED
    BY <1>7, <2>4, <2>6
<1>11. Moving(t)'
  <2>1. \A d \in DmaCH.IrqCh : ~ch'[d].tc
    <3>1. \A d \in DmaCH.IrqCh : d = Tx
      BY <1>8, ChFacts DEF TypeInv
    <3> QED
      BY <1>1, <1>5, <3>1 DEF Moving
  <2>2. ch'[Rx].tc \/ Rx \in DmaCH'.IrqCh => Got(t)' = Length(t)
    BY <1>2, <1>5, <1>7, <1>8
  <2> QED
    BY <1>1, <1>2, <1>3, <1>4, <1>5, <1>6, <1>7, <1>9, <1>10, <2>1, <2>2 DEF Moving
<1>12. Active(t)' /\ BusOf(t)'
  BY <1>1, <1>2, <1>3, <1>6, <1>11 DEF BusOf, Active
<1>13. \A d \in Channels : ch'[d].left >= 0
  <2>1. ch'[Tx].left >= 0 /\ ch'[Rx].left >= 0
    BY <1>5, <1>7, <1>8, ChFacts DEF Bus
  <2> QED
    BY <2>1, ChFacts
<1> QED
  BY <1>12, <1>13, BusFrom

LEMMA BusStep == ASSUME IInv, Exclusive', [Next]_vars PROVE Bus'
<1>0. TypeInv /\ Exclusive /\ Bus
  BY DEF IInv
<1>1. CASE \E t \in Threads : Thread(t)
  BY <1>0, <1>1, SelectBus, ConfigBus, SetUpBus, StartBus, WaitBus, WokenBus, DeselectBus DEF Thread
<1>2. CASE NextFn
  BY <1>0, <1>2, NextFnBus
<1>3. CASE \E c \in Channels : IRQHandler(c)
  BY <1>0, <1>3, IrqBus
<1>4. CASE Hardware
  BY <1>0, <1>4, TxBus, ShiftBus, RxBus DEF Hardware
<1>5. CASE UNCHANGED vars
  <2>1. \A t \in Threads : /\ Length(t)' = Length(t) /\ Before(t)' = Before(t)
                           /\ \A i : Expected(t, i)' = Expected(t, i)
    BY <1>5 DEF vars, Length, Before, Expected, Byte
  <2>2. \A t \in Threads : (Active(t)' <=> Active(t)) /\ (SetUp(t)' <=> SetUp(t)) /\ (Moving(t)' <=> Moving(t))
    BY <1>5, <2>1 DEF vars, Active, SetUp, Moving, Shifted, Got
  <2>3. AtRest' <=> AtRest
    BY <1>5 DEF vars, AtRest
  <2> QED
    BY <1>0, <1>5, <2>1, <2>2, <2>3 DEF vars, Bus, BusOf
<1> QED
  BY <1>1, <1>2, <1>3, <1>4, <1>5 DEF Next

\* The inductive invariant: types, one thread at a time, and how far the
\* hardware is with the transfer of that thread.
THEOREM Inductive == Spec => []IInv
<1>1. Init => IInv
  BY InitType, InitBus DEF IInv
<1>2. IInv /\ [Next]_vars => IInv'
  <2> SUFFICES ASSUME IInv, [Next]_vars PROVE IInv'
    OBVIOUS
  <2>1. TypeInv' /\ Exclusive'
    BY TypeStep, ExclusiveStep DEF IInv
  <2> QED
    BY <2>1, BusStep DEF IInv
<1> QED
  BY <1>1, <1>2, PTL DEF Spec

\* The state of threads, channels, registers and chip has its type.
THEOREM TypeCorrect == Spec => []TypeOK
<1>1. IInv => TypeOK
  <2> SUFFICES ASSUME IInv PROVE TypeOK
    OBVIOUS
  <2>1. TypeInv /\ Exclusive /\ Bus
    BY DEF IInv
  <2>2. init.fns \in {SubSeq(InitFns, i, Len(InitFns)) : i \in 1 .. 5} /\ init.cmds \in 0 .. MaxCommands
    BY <2>1 DEF TypeInv, Fns
  <2>3. ASSUME NEW t \in Threads
        PROVE  /\ thread[t].pc \in {"absent", "idle", "config", "clear", "user", "rx", "tx", "wait", "asleep",
                                    "woken", "deselect"}
               /\ thread[t].cmd \in Commands \cup {<<1>>} /\ thread[t].part \in DOMAIN thread[t].cmd
               /\ thread[t].buffer \in Seq(Nat)
    BY <2>1 DEF TypeInv, ThreadRec, Pcs, Cmds
  <2>4. ch \in [Channels -> [en : BOOLEAN, left : Nat, tc : BOOLEAN]]
    <3>1. ASSUME NEW c \in Channels PROVE ch[c] \in [en : BOOLEAN, left : Nat, tc : BOOLEAN]
      <4>1. ch[c] \in ChRec /\ ch[c].left >= 0
        BY <2>1 DEF TypeInv, Bus
      <4>2. ch[c].left \in Nat
        BY <4>1 DEF ChRec
      <4> QED
        BY <4>1, <4>2 DEF ChRec
    <3> QED
      BY <2>1, <3>1 DEF TypeInv
  <2>5. /\ DmaCH \in [UserCh : SUBSET Channels, IrqCh : SUBSET Channels]
        /\ completion \in [flag : BOOLEAN, suspended : SUBSET Threads]
        /\ Len(spi.tx) <= 1 /\ Len(spi.rx) <= 1 /\ spi.buf \in Threads
        /\ chip.selected \in BOOLEAN
    BY <2>1 DEF TypeInv
  <2> QED
    BY <2>2, <2>3, <2>4, <2>5 DEF TypeOK
<1> QED
  BY <1>1, Inductive, PTL

\* The two threads share one completion object without a lock, and yet never
\* two are suspended on it: UsbApp_Init, which starts the second thread, is the
\* last of the init functions that use the chip.
THEOREM OneWaiterCorrect == Spec => []OneWaiter
<1>1. IInv => OneWaiter
  BY Alone DEF IInv, OneWaiter
<1> QED
  BY <1>1, Inductive, PTL

\* DMA1_Channel_Write returns when every byte of the answer is in the buffer
\* of its caller, each at its place, for commands of any length: the interrupt
\* of one channel alone does not wake the thread.
THEOREM AnswersWholeCorrect == Spec => []AnswersWhole
<1>1. IInv => AnswersWhole
  <2> SUFFICES ASSUME IInv, NEW t \in Threads, thread[t].pc = "woken"
               PROVE  thread[t].buffer = [i \in 1 .. Length(t) |-> Before(t) + i]
    BY DEF AnswersWhole
  <2>1. TypeInv /\ Moving(t)
    BY DEF IInv, Bus, BusOf, Active
  <2>2. Got(t) = Length(t) /\ Length(t) \in Nat /\ Before(t) \in Nat
    BY <2>1, Ended, CmdFacts DEF Moving
  <2>3. thread[t].buffer \in Seq(Nat)
    BY <2>1 DEF TypeInv, ThreadRec
  <2>4. DOMAIN thread[t].buffer = 1 .. Length(t) /\ thread[t].buffer = [i \in DOMAIN thread[t].buffer |-> thread[t].buffer[i]]
    BY <2>1, <2>2, <2>3, LenProperties DEF Moving
  <2>5. \A i \in 1 .. Length(t) : thread[t].buffer[i] = Before(t) + i
    BY <2>1, <2>2 DEF Moving
  <2> QED
    BY <2>4, <2>5
<1> QED
  BY <1>1, Inductive, PTL

LEMMA SentType ==
  ASSUME TypeInv, NEW t \in Threads, NEW p \in 1 .. Len(thread[t].cmd)
  PROVE  /\ Sent(t, p) \in Seq(Bytes) /\ Len(Sent(t, p)) = thread[t].cmd[p] /\ thread[t].cmd[p] \in Nat
         /\ \A i \in 1 .. thread[t].cmd[p] : Sent(t, p)[i] = Byte(t, p, i)
<1>1. thread[t].cmd[p] \in Nat /\ p \in Nat
  BY CmdFacts
<1>2. \A i \in 1 .. thread[t].cmd[p] : Byte(t, p, i) \in Bytes
  BY <1>1 DEF Byte, Bytes
<1>3. Sent(t, p) \in [1 .. thread[t].cmd[p] -> Bytes]
  BY <1>2 DEF Sent
<1>4. \A n \in Nat : \A f \in [1 .. n -> Bytes] : f \in Seq(Bytes) /\ Len(f) = n
  OBVIOUS
<1> QED
  BY <1>1, <1>3, <1>4 DEF Sent

\* A command that has been sent to its last byte is what the chip has seen.
LEMMA SeenWhole ==
  ASSUME TypeInv, NEW t \in Threads, thread[t].part = Len(thread[t].cmd),
         Len(chip.seen) = Before(t) + Length(t),
         \A i \in 1 .. Len(chip.seen) : chip.seen[i] = Expected(t, i)
  PROVE  chip.seen = Whole(t)
<1>0. chip.seen \in Seq(Bytes)
  BY DEF TypeInv
<1>1. CASE Len(thread[t].cmd) = 1
  <2>1. Whole(t) = Sent(t, 1) /\ thread[t].part = 1
    BY <1>1 DEF Whole
  <2>2. /\ Sent(t, 1) \in Seq(Bytes) /\ Len(Sent(t, 1)) = thread[t].cmd[1] /\ thread[t].cmd[1] \in Nat
        /\ \A i \in 1 .. thread[t].cmd[1] : Sent(t, 1)[i] = Byte(t, 1, i)
    BY <1>1, SentType, 1 \in 1 .. 1
  <2>3. Len(chip.seen) = thread[t].cmd[1]
    BY <2>1, <2>2, CmdFacts
  <2>4. \A i \in 1 .. Len(chip.seen) : chip.seen[i] = Sent(t, 1)[i]
    BY <2>2, <2>3 DEF Expected
  <2>5. chip.seen = Sent(t, 1)
    BY <1>0, <2>2, <2>3, <2>4, SeqEqual
  <2> QED
    BY <2>1, <2>5
<1>2. CASE Len(thread[t].cmd) = 2
  <2> DEFINE n == thread[t].cmd[1]
             m == thread[t].cmd[2]
  <2>0. 1 \in 1 .. Len(thread[t].cmd) /\ 2 \in 1 .. Len(thread[t].cmd)
    BY <1>2
  <2>1. /\ Sent(t, 1) \in Seq(Bytes) /\ Len(Sent(t, 1)) = n /\ n \in Nat
        /\ \A i \in 1 .. n : Sent(t, 1)[i] = Byte(t, 1, i)
    BY <2>0, SentType
  <2>2. /\ Sent(t, 2) \in Seq(Bytes) /\ Len(Sent(t, 2)) = m /\ m \in Nat
        /\ \A i \in 1 .. m : Sent(t, 2)[i] = Byte(t, 2, i)
    BY <2>0, SentType
  <2>3. Whole(t) = Sent(t, 1) \o Sent(t, 2) /\ Len(chip.seen) = n + m
    BY <1>2, CmdFacts DEF Whole
  <2>4. \A i : Expected(t, i) = IF i <= n THEN Byte(t, 1, i) ELSE Byte(t, 2, i - n)
    BY DEF Expected
  <2> HIDE DEF n, m
  <2>5. /\ Whole(t) \in Seq(Bytes) /\ Len(Whole(t)) = n + m
        /\ \A i \in 1 .. (n + m) : Whole(t)[i] = IF i <= n THEN Sent(t, 1)[i] ELSE Sent(t, 2)[i - n]
    <3> DEFINE a == Sent(t, 1)
               b == Sent(t, 2)
    <3>1. a \in Seq(Bytes) /\ b \in Seq(Bytes) /\ Len(a) = n /\ Len(b) = m /\ Whole(t) = a \o b
      BY <2>1, <2>2, <2>3
    <3> HIDE DEF a, b
    <3>2. /\ a \o b \in Seq(Bytes) /\ Len(a \o b) = Len(a) + Len(b)
          /\ \A i \in 1 .. Len(a) + Len(b) :
               (a \o b)[i] = IF i <= Len(a) THEN a[i] ELSE b[i - Len(a)]
      BY <3>1, ConcatProperties
    <3>3. /\ Whole(t) \in Seq(Bytes) /\ Len(Whole(t)) = n + m
          /\ \A i \in 1 .. (n + m) : Whole(t)[i] = IF i <= n THEN a[i] ELSE b[i - n]
      BY <3>1, <3>2
    <3> USE DEF a, b
    <3> QED
      BY <3>3
  <2>6. ASSUME NEW i \in 1 .. (n + m) PROVE chip.seen[i] = Whole(t)[i]
    <3>1. chip.seen[i] = Expected(t, i)
      BY <2>3
    <3>2. CASE i <= n
      <4>1. i \in 1 .. n
        BY <2>1, <2>2, <3>2
      <4> QED
        BY <2>1, <2>4, <2>5, <3>1, <3>2, <4>1
    <3>3. CASE ~(i <= n)
      <4>1. i - n \in 1 .. m
        BY <2>1, <2>2, <3>3
      <4> QED
        BY <2>2, <2>4, <2>5, <3>1, <3>3, <4>1
    <3> QED
      BY <3>2, <3>3
  <2> QED
    BY <1>0, <2>3, <2>5, <2>6, SeqEqual
<1> QED
  BY <1>1, <1>2, CmdFacts

\* Whenever _25qxx_spi_cs(1) deselects the chip, it has seen all the bytes of
\* one command, in order, and nothing of another: however interrupts, the
\* channels and the two threads interleave, a command is one step for the chip.
THEOREM FramesWholeCorrect == Spec => FramesWhole
<1> DEFINE A == \A t \in Threads : Deselect(t) => chip.selected /\ chip.seen = Whole(t)
<1>1. IInv /\ [Next]_vars => [A]_vars
  <2> SUFFICES ASSUME IInv, NEW t \in Threads, Deselect(t) PROVE chip.selected /\ chip.seen = Whole(t)
    OBVIOUS
  <2>1. TypeInv /\ Active(t) /\ BusOf(t) /\ thread[t].pc = "deselect"
    BY DEF IInv, Deselect, Step, Active, Bus
  <2> QED
    BY <2>1, SeenWhole DEF BusOf
<1> QED
  BY <1>1, Inductive, PTL DEF Spec, FramesWhole
=============================================================================
