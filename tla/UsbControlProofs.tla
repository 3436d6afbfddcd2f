-------------------------- MODULE UsbControlProofs --------------------------
(***************************************************************************)
(* Endpoint 0 for every set of descriptors and requests, every packet size *)
(* and any number of faults: reads return the right bytes, supported       *)
(* requests are served and others are not, and device and host agree.      *)
(***************************************************************************)
EXTENDS UsbControl, SequenceTheorems, TLAPS

-----------------------------------------------------------------------------
(* The inductive invariant.                                                *)

\* The packet in the endpoint is a request that the device has not looked at.
SetupPending == isr.setup /\ "rx" \in ep0.ctr

\* The parts of the device the host knows of.
Holds == [conf |-> dev.conf, wakeup |-> dev.wakeup, ep4 |-> Halted(dev), line |-> dev.line]
Parts == {"conf", "wakeup", "ep4", "line"}

\* A reset is served by the interrupt that sees it, and what that interrupt
\* leaves pending can change nothing any more.
ResetsServed ==
  /\ faults.pending => host.ph = "reset"
  /\ isr.reset => faults.pending /\ isr.at # "idle"
  /\ isr.at = "entered" => isr.dir \in ep0.ctr
  /\ isr.at = "entered" /\ isr.reset /\ isr.dir = "tx" => "rx" \notin ep0.ctr
  /\ isr.at = "rest" /\ isr.reset => "rx" \notin ep0.ctr /\ ("tx" \in ep0.ctr => dev.state = "STALLED")
  /\ {"rx", "tx"} \subseteq ep0.ctr => ~isr.setup /\ dev.state = "LAST_IN_DATA"
  /\ host.ph = "reset" =>
       /\ host.result = "none" /\ host.addr = 0
       /\ host.knows.conf = {0} /\ host.knows.wakeup = {0} /\ host.knows.ep4 = {0}
       /\ ~faults.pending =>
            /\ dev.conf = 0 /\ dev.wakeup = 0 /\ dev.ep4 = "NAK" /\ dev.daddr = 0
            /\ "rx" \notin ep0.ctr /\ ("tx" \in ep0.ctr => dev.state = "STALLED")

\* The request the device works on, and what outlives a request.
Current ==
  /\ WellFormed(host.q) /\ ep0.out = host.q
  /\ ~SetupPending => dev.q = host.q
  /\ dev.state # "LAST_OUT_DATA"
  /\ dev.state = "OUT_DATA" /\ ~SetupPending => dev.q.req = "SET_LINE_CODING" /\ dev.wLength = 7
  /\ host.q.req = "SET_LINE_CODING" => host.read /\ host.q.value \in host.knows.line
  /\ host.read => dev.psize = MaxPacketSize
  /\ "tx" \in ep0.ctr /\ dev.state \in {"IN_DATA", "LAST_IN_DATA"} => dev.psize = MaxPacketSize

\* What the host knows is true.  The address lags behind from the status of
\* SET_ADDRESS to its interrupt.
Knowing ==
  /\ dev.line \in host.knows.line
  /\ host.ph # "reset" =>
       /\ \A f \in Parts : Holds[f] \in host.knows[f]
       /\ IF "tx" \in ep0.ctr /\ dev.state = "WAIT_STATUS_IN" /\ dev.q.req = "SET_ADDRESS"
          THEN host.addr = dev.q.value ELSE dev.daddr = host.addr

Some(q) == \E c \in host.knows.conf : Supported(q, c)
NotAll(q) == \E c \in host.knows.conf : ~Supported(q, c)

\* The device has refused the request.
Refusal ==
  /\ dev.state = "STALLED" /\ ep0.rx = "STALL" /\ ep0.tx = "STALL" /\ ep0.ctr = {}
  /\ host.q.to # "beyond" => NotAll(host.q)

\* Of a read, n bytes have been or are about to be received and w remain: they
\* are all there is, and a packet of length zero follows where it must.
Amounts(n, w) ==
  /\ n + w <= host.q.len
  /\ Defined(host.q) => n + w = Extent(host.q)
  /\ dev.state = "IN_DATA" => w > 0
  /\ dev.state = "LAST_IN_DATA" => w = 0
  /\ dev.mul \/ n + w = host.q.len \/ n + w < MaxPacketSize \/ (n + w) % MaxPacketSize # 0
  /\ Defined(host.q) /\ host.q.req = "GET_DESCRIPTOR" => dev.copy = host.q.to /\ dev.wOffset = n

\* The next packet waits for the host.
Armed ==
  /\ ep0.tx = "VALID" /\ ep0.ctr = {}
  /\ \/ /\ dev.in = Zlp /\ dev.state = "LAST_IN_DATA" /\ dev.wLength = 0
        /\ Defined(host.q) => host.n = Extent(host.q)
     \/ /\ Amounts(host.n + dev.in.len, dev.wLength)
        /\ dev.state = "IN_DATA" => dev.in.len = MaxPacketSize
        /\ Defined(host.q) => dev.in.of \in Answers(host.q) /\ dev.in.from = host.n

\* The host has taken a full packet and waits for the next.
Fetched ==
  /\ ep0.tx = "NAK" /\ ep0.ctr = {"tx"}
  /\ MaxPacketSize <= host.n /\ host.n < host.q.len
  /\ Amounts(host.n, dev.wLength)

Sending ==
  /\ dev.psize = MaxPacketSize /\ dev.state \in {"IN_DATA", "LAST_IN_DATA"}
  /\ ep0.rx = "VALID" /\ (isr.at = "entered" => dev.r = "VALID")
  /\ Defined(host.q) => Some(host.q)
  /\ \E k \in 0 .. host.n : host.n = k * MaxPacketSize
  /\ Armed \/ Fetched

Ending ==
  /\ dev.psize = MaxPacketSize /\ dev.wLength = 0
  /\ dev.state = "LAST_IN_DATA" \/ (dev.state = "WAIT_STATUS_OUT" /\ "tx" \notin ep0.ctr)
  /\ ep0.rx = "VALID" /\ "rx" \notin ep0.ctr /\ (isr.at = "entered" => dev.r = "VALID")
  /\ Defined(host.q) => Some(host.q) /\ host.n = Extent(host.q)

\* The request is done and its status waits for the host.
Performing ==
  /\ dev.state = "WAIT_STATUS_IN" /\ ep0.tx = "VALID" /\ ep0.ctr = {} /\ dev.in = Zlp
  /\ Sure(host.q) => \A f \in Part(host.q) : Holds[f] = Value(host.q)

Unseen ==
  /\ ep0.rx = "NAK" /\ ep0.tx = "NAK" /\ ep0.ctr = {"rx"}
  /\ isr.at = "entered" => dev.r = "NAK" /\ dev.t = "NAK"
  /\ host.ph = Phase(host.q) /\ host.n = 0
  /\ \A f \in Part(host.q) : Value(host.q) \in host.knows[f]
  /\ host.q.req = "SET_ADDRESS" => host.knows.conf = {0}

\* How far the request is, on both sides.
Progress ==
  /\ host.ph = "idle" => ~SetupPending
  /\ host.ph \notin {"idle", "reset"} =>
       /\ host.result = "none"
       /\ SetupPending => Unseen
       /\ host.ph \in {"in", "status_out"} <=> host.q.req \in Reads
  /\ ~SetupPending =>
       /\ host.ph = "in" => Refusal \/ Sending
       /\ host.ph = "status_out" => Ending
       /\ host.ph = "out" =>
            \/ Refusal
            \/ dev.state = "OUT_DATA" /\ ep0.rx = "VALID" /\ ep0.tx = "NAK" /\ ep0.ctr = {}
       /\ host.ph = "status_in" =>
            \/ Refusal \/ Performing
            \/ dev.state = "OUT_DATA" /\ ep0.tx = "NAK" /\ ep0.ctr = {"rx"}

\* What the host has got, and how its last request ended.
Results ==
  /\ host.result # "error"
  /\ host.result \in {"stall"} /\ host.q.to # "beyond" => NotAll(host.q)
  /\ host.result = "ok" /\ Defined(host.q) => Some(host.q) /\ host.n = Extent(host.q)
  /\ Defined(host.q) /\ (host.ph \in {"in", "status_out"} \/ host.result = "ok") =>
       \A i \in DOMAIN host.got :
         LET g == host.got[i]
         IN g.packet = Zlp \/ (g.packet.of \in Answers(host.q) /\ g.packet.from = g.at)

IInv == TypeOK /\ ResetsServed /\ Current /\ Knowing /\ Progress /\ Results

-----------------------------------------------------------------------------
(* The functions of the device.                                            *)

LEMMA Consts == MaxPacketSize \in Nat /\ MaxPacketSize >= 8
BY BoundAssumption

LEMMA LowFacts ==
  ASSUME NEW a \in Nat, NEW b \in Nat
  PROVE  Low(a, b) \in Nat /\ Low(a, b) <= a /\ Low(a, b) <= b /\ (Low(a, b) = a \/ Low(a, b) = b)
BY DEF Low

\* A multiple leaves no remainder.
LEMMA ModMultiple ==
  ASSUME NEW m \in Nat, m > 0, NEW k \in Nat
  PROVE  k * m \in Nat /\ (k * m) % m = 0
<1> DEFINE a == k * m
           b == a \div m
           r == a % m
<1>1. a \in Nat /\ b \in Nat /\ r \in 0 .. m - 1 /\ a = m * b + r
  OBVIOUS
<1>2. CASE b >= k + 1
  <2>1. m * b >= m * (k + 1)
    BY <1>1, <1>2
  <2> QED
    BY <1>1, <2>1
<1>3. CASE b <= k - 1
  <2>1. m * b <= m * (k - 1)
    BY <1>1, <1>3
  <2>2. m * (k - 1) = k * m - m
    OBVIOUS
  <2> QED
    BY <1>1, <2>1, <2>2
<1>4. CASE b = k
  BY <1>1, <1>4
<1> QED
  BY <1>1, <1>2, <1>3, <1>4

\* e has the request of d, and the parts of the device that the host sees.
Apart(d, e) ==
  /\ e.q = d.q /\ e.conf = d.conf /\ e.wakeup = d.wakeup /\ e.line = d.line
  /\ e.ep4 = d.ep4 /\ e.daddr = d.daddr

LEMMA ZlpType == Zlp \in InPacket /\ Zlp.len = 0
<1>1. <<"none", 0>> \in Origin
  BY DEF Origin
<1>2. 0 \in 0 .. MaxPacketSize
  BY Consts
<1> QED
  BY <1>1, <1>2 DEF Zlp, InPacket

LEMMA SourceType == ASSUME NEW d \in DevType PROVE Source(d) \in Origin
<1>1. d.wakeup \in {0, 1} /\ d.conf \in Nat /\ d.line \in Nat /\ Halted(d) \in Nat
  BY DEF DevType, Halted
<1>2. \A x \in Descriptors \cup {"none", "status", "conf", "line", "lun", "alternate", "address 0"}, v \in Nat :
        <<x, v>> \in Origin
  BY DEF Origin
<1>3. (IF d.q.to = "device" THEN 2 * d.wakeup ELSE IF d.q.to = "ep4" THEN Halted(d) ELSE 0) \in Nat
  BY <1>1
<1> QED
  BY <1>1, <1>2, <1>3 DEF Source

LEMMA StalledFacts ==
  ASSUME NEW d \in DevType
  PROVE  /\ Stalled(d) \in DevType /\ Apart(d, Stalled(d)) /\ Stalled(d).state = "STALLED"
         /\ Stalled(d).psize = d.psize /\ Stalled(d).wLength = d.wLength
BY ZlpType DEF Stalled, DevType, Apart, States, Copy

LEMMA StatusInFacts ==
  ASSUME NEW d \in DevType
  PROVE  LET e == StatusIn(d)
         IN /\ e \in DevType /\ Apart(d, e) /\ e.state = d.state /\ e.in = Zlp /\ e.t = "VALID"
            /\ e.r = d.r /\ e.psize = d.psize /\ e.wLength = d.wLength /\ e.wOffset = d.wOffset
            /\ e.mul = d.mul /\ e.copy = d.copy
BY ZlpType DEF StatusIn, DevType, Apart, Status

LEMMA PostFacts ==
  ASSUME NEW d \in DevType
  PROVE  LET e == Post0_Process(d)
         IN /\ e \in DevType /\ Apart(d, e) /\ e.state = d.state /\ e.psize = d.psize /\ e.wLength = d.wLength
            /\ d.state = "STALLED" => e.r = "STALL" /\ e.t = "STALL"
            /\ d.state # "STALLED" => e = d
BY DEF Post0_Process, DevType, Apart, Status

LEMMA NextPacketFacts ==
  ASSUME NEW d \in DevType, d.psize = MaxPacketSize
  PROVE  LET e == NextPacket(d)
             n == Low(MaxPacketSize, d.wLength)
         IN /\ e \in DevType /\ Apart(d, e) /\ e.psize = MaxPacketSize /\ e.mul = d.mul /\ e.copy = d.copy
            /\ n \in Nat /\ n <= MaxPacketSize /\ e.in.len = n /\ e.wLength + n = d.wLength
            /\ \/ e.state = "IN_DATA" /\ e.wLength > 0 /\ n = MaxPacketSize
               \/ e.state = "LAST_IN_DATA" /\ e.wLength = 0
            /\ e.in.of = Source(d) /\ e.in.from = IF d.copy \in Descriptors THEN d.wOffset ELSE 0
            /\ d.copy \in Descriptors => e.wOffset = d.wOffset + n
            /\ e.r = "VALID" /\ e.t = "VALID"
<1> DEFINE n == Low(MaxPacketSize, d.wLength)
           p == Packet(d, n)
           e == [d EXCEPT !.state = IF d.wLength <= d.psize THEN "LAST_IN_DATA" ELSE "IN_DATA", !.in = p,
                   !.wLength = @ - n, !.wOffset = Moved(d, n), !.t = "VALID", !.r = "VALID"]
<1>1. d.wLength \in Nat /\ d.wOffset \in Nat
  BY DEF DevType
<1>2. n \in Nat /\ n <= MaxPacketSize /\ n <= d.wLength /\ (n = MaxPacketSize \/ n = d.wLength)
  BY <1>1, Consts, LowFacts
<1>3. p \in InPacket /\ p.of = Source(d) /\ p.len = n /\ p.from = IF d.copy \in Descriptors THEN d.wOffset ELSE 0
  BY <1>1, <1>2, SourceType, Consts DEF Packet, InPacket
<1>4. Moved(d, n) \in Nat /\ (d.copy \in Descriptors => Moved(d, n) = d.wOffset + n)
  BY <1>1, <1>2 DEF Moved
<1>5. d.wLength - n \in Nat
  BY <1>1, <1>2
<1> HIDE DEF n, p
<1>6. e \in DevType /\ Apart(d, e)
  BY <1>3, <1>4, <1>5 DEF DevType, Apart, States, Status
<1>7. /\ e.state = (IF d.wLength <= d.psize THEN "LAST_IN_DATA" ELSE "IN_DATA") /\ e.in = p
      /\ e.wLength = d.wLength - n /\ e.wOffset = Moved(d, n) /\ e.t = "VALID" /\ e.r = "VALID"
      /\ e.psize = d.psize /\ e.mul = d.mul /\ e.copy = d.copy
  BY DEF DevType
<1>8. e = NextPacket(d)
  BY DEF NextPacket, n, p
<1>9. \/ e.state = "IN_DATA" /\ e.wLength > 0 /\ n = MaxPacketSize
      \/ e.state = "LAST_IN_DATA" /\ e.wLength = 0
  <2>1. CASE d.wLength <= MaxPacketSize
    <3>1. n = d.wLength
      BY <1>1, <1>2, <2>1, Consts
    <3>2. d.wLength - n = 0
      BY <1>1, <3>1
    <3> QED
      BY <1>7, <2>1, <3>2
  <2>2. CASE ~(d.wLength <= MaxPacketSize)
    <3>1. n = MaxPacketSize /\ d.wLength - n > 0
      BY <1>1, <1>2, <2>2, Consts
    <3> QED
      BY <1>7, <2>2, <3>1
  <2> QED
    BY <2>1, <2>2
<1> HIDE DEF e
<1>10. e.wLength + n = d.wLength
  BY <1>1, <1>2, <1>7
<1> QED
  BY <1>1, <1>2, <1>3, <1>4, <1>6, <1>7, <1>8, <1>9, <1>10 DEF n

\* What a request without data makes of the parts.
LEMMA PerformedFacts ==
  ASSUME NEW d \in DevType, NEW q \in Request
  PROVE  LET e == Performed(d, q)
         IN /\ e \in DevType /\ e.q = d.q /\ e.line = d.line /\ e.daddr = d.daddr
            /\ e.psize = d.psize /\ e.wLength = d.wLength /\ e.r = d.r
            /\ e.conf = IF q.req = "SET_CONFIGURATION" /\ q.value <= 1 THEN q.value ELSE d.conf
            /\ e.wakeup = IF q.req = "SET_FEATURE" /\ q.to = "device" THEN 1
                          ELSE IF q.req = "CLEAR_FEATURE" /\ q.to = "device" THEN 0 ELSE d.wakeup
            /\ Halted(e) = IF q.req = "SET_FEATURE" /\ q.to = "ep4" /\ d.conf # 0 THEN 1
                           ELSE IF q.req = "CLEAR_FEATURE" /\ q.to = "ep4" /\ d.conf # 0 THEN 0 ELSE Halted(d)
<1>1. CASE q.req = "SET_CONFIGURATION" /\ q.value <= 1
  <2>1. q.value \in {0, 1}
    BY <1>1 DEF Request
  <2>2. Performed(d, q) = [d EXCEPT !.conf = q.value]
    BY <1>1 DEF Performed
  <2> QED
    BY <1>1, <2>1, <2>2 DEF DevType, Halted
<1>2. CASE q.req = "SET_FEATURE" /\ q.to = "device"
  BY <1>2 DEF Performed, DevType, Halted
<1>3. CASE q.req = "CLEAR_FEATURE" /\ q.to = "device"
  BY <1>3 DEF Performed, DevType, Halted
<1>4. CASE q.req = "SET_FEATURE" /\ q.to = "ep4" /\ d.conf # 0
  BY <1>4 DEF Performed, DevType, Halted
<1>5. CASE q.req = "CLEAR_FEATURE" /\ q.to = "ep4" /\ d.conf # 0
  BY <1>5 DEF Performed, DevType, Halted
<1>6. CASE /\ ~(q.req = "SET_CONFIGURATION" /\ q.value <= 1)
           /\ ~(q.req \in {"SET_FEATURE", "CLEAR_FEATURE"} /\ q.to = "device")
           /\ ~(q.req \in {"SET_FEATURE", "CLEAR_FEATURE"} /\ q.to = "ep4" /\ d.conf # 0)
  <2>1. Performed(d, q) = d
    BY <1>6 DEF Performed
  <2> QED
    BY <1>6, <2>1
<1> QED
  BY <1>1, <1>2, <1>3, <1>4, <1>5, <1>6

LEMMA NoDataFacts ==
  ASSUME NEW d \in DevType
  PROVE  LET e == NoData_Setup0(d)
             f == Performed(d, d.q)
         IN /\ e \in DevType /\ e.q = d.q /\ e.line = d.line /\ e.daddr = d.daddr /\ e.psize = d.psize
            /\ Refused(d, d.q) => e.state = "STALLED" /\ Apart(d, e)
            /\ ~Refused(d, d.q) =>
                 /\ e.state = "WAIT_STATUS_IN" /\ e.in = Zlp /\ e.t = "VALID"
                 /\ e.conf = f.conf /\ e.wakeup = f.wakeup /\ Halted(e) = Halted(f)
<1>0. d.q \in Request
  BY DEF DevType
<1>1. CASE Refused(d, d.q)
  BY <1>1, StalledFacts DEF NoData_Setup0, Apart
<1>2. CASE ~Refused(d, d.q)
  <2> DEFINE f == Performed(d, d.q)
             g == [f EXCEPT !.state = "WAIT_STATUS_IN"]
  <2>1. /\ f \in DevType /\ f.q = d.q /\ f.line = d.line /\ f.daddr = d.daddr /\ f.psize = d.psize
    BY <1>0, PerformedFacts
  <2> HIDE DEF f
  <2>2. g \in DevType /\ Apart(f, g) /\ g.psize = f.psize /\ g.state = "WAIT_STATUS_IN"
    BY <2>1 DEF DevType, Apart, States
  <2> HIDE DEF g
  <2>3. NoData_Setup0(d) = StatusIn(g)
    BY <1>2 DEF NoData_Setup0, f, g
  <2> QED
    BY <1>2, <2>1, <2>2, <2>3, StatusInFacts DEF Apart, Halted, f
<1> QED
  BY <1>1, <1>2

LEMMA RoutineType == ASSUME NEW d \in DevType PROVE Routine(d, d.q) \in Copy
BY DEF Routine, Copy, DevType, Request, Names, Reads

LEMMA LengthType ==
  ASSUME NEW d \in DevType, NEW c \in Copy PROVE Length(d, c) \in Nat
BY SizeAssumption DEF Length, DevType

\* What Data_Setup0 leaves of device d for its request q: a stall, the first packet of
\* a read, or the wait for a line coding.
AfterDataSetup(d, q) ==
  LET e == Data_Setup0(d)
      c == Routine(d, q)
      w == Low(Length(d, c), q.len)
      n == Low(MaxPacketSize, w)
      s == [d EXCEPT !.copy = c, !.wLength = Length(d, c),
                     !.wOffset = IF c = "GET_MAX_LUN" THEN @ ELSE 0]
  IN /\ e \in DevType /\ Apart(d, e)
     /\ c = "none" \/ Length(d, c) = 0 => e.state = "STALLED" /\ e.psize = d.psize
     /\ c # "none" /\ Length(d, c) # 0 /\ q.req \in Reads =>
          /\ e.psize = MaxPacketSize /\ e.r = "VALID" /\ e.t = "VALID"
          /\ w \in Nat /\ n \in Nat /\ e.in.len = n /\ e.wLength + n = w
          /\ \/ e.state = "IN_DATA" /\ e.wLength > 0 /\ n = MaxPacketSize
             \/ e.state = "LAST_IN_DATA" /\ e.wLength = 0
          /\ e.mul \/ w = q.len \/ w < MaxPacketSize \/ w % MaxPacketSize # 0
          /\ e.in.of = Source(s) /\ e.in.from = 0 /\ e.copy = c
          /\ c \in Descriptors => e.wOffset = n
     /\ c # "none" /\ Length(d, c) # 0 /\ q.req \notin Reads =>
          e.state = "OUT_DATA" /\ e.wLength = Length(d, c) /\ e.r = "VALID" /\ e.t = d.t /\ e.psize = d.psize

LEMMA DataSetupFacts ==
  ASSUME NEW d \in DevType, d.state = "SETTING_UP"
  PROVE  AfterDataSetup(d, d.q)
<1> DEFINE c == Routine(d, d.q)
           k == Length(d, c)
           w == Low(k, d.q.len)
           s == [d EXCEPT !.copy = c, !.wLength = k, !.wOffset = IF c = "GET_MAX_LUN" THEN @ ELSE 0]
           u == [s EXCEPT !.wLength = w, !.mul = Mul(s), !.psize = MaxPacketSize]
<1>1. c \in Copy /\ k \in Nat /\ d.q.len \in Nat /\ d.wOffset \in Nat
  BY RoutineType, LengthType DEF DevType, Request
<1> HIDE DEF c, k
<1>2. s \in DevType /\ Apart(d, s) /\ s.psize = d.psize /\ s.state = "SETTING_UP" /\ s.wLength = k
      /\ s.copy = c /\ (c \in Descriptors => s.wOffset = 0) /\ s.t = d.t
  BY <1>1, NamesAssumption DEF DevType, Apart, Names, Reads
<1>3. CASE c = "none" \/ k = 0
  <2>1. \E x \in DevType : Data_Setup0(d) = Stalled(x) /\ Apart(d, x) /\ x.psize = d.psize
    BY <1>2, <1>3 DEF Data_Setup0, Chosen, Apart, c, k
  <2> QED
    BY <1>3, <2>1, StalledFacts DEF Apart, AfterDataSetup, c, k
<1>4. CASE c # "none" /\ k # 0 /\ d.q.req \in Reads
  <2>1. w \in Nat /\ w <= k /\ w <= d.q.len /\ (w = k \/ w = d.q.len)
    BY <1>1, LowFacts
  <2>2. Mul(s) \in BOOLEAN
    BY <1>1, <1>2, Consts DEF Mul, DevType
  <2>3. Mul(s) \/ w = d.q.len \/ w < MaxPacketSize \/ w % MaxPacketSize # 0
    <3>1. CASE k >= d.q.len
      BY <1>1, <3>1, <2>1 DEF Low
    <3>2. CASE k < d.q.len
      <4>1. w = k /\ s.q = d.q
        BY <1>1, <1>2, <3>2, <2>1 DEF Apart
      <4> QED
        BY <1>1, <1>2, <3>2, <4>1, Consts DEF Mul
    <3> QED
      BY <1>1, <3>1, <3>2
  <2>4. u \in DevType /\ Apart(d, u) /\ u.psize = MaxPacketSize /\ u.wLength = w /\ u.mul = Mul(s)
        /\ u.copy = c /\ u.wOffset = s.wOffset /\ u.state = "SETTING_UP" /\ Source(u) = Source(s)
    <3> HIDE DEF s, w
    <3> QED
      BY <1>2, <2>1, <2>2 DEF DevType, Apart, Source, Halted
  <2>5. Data_Setup0(d) = DataStageIn(u) /\ DataStageIn(u) = NextPacket(u)
    <3>1. Chosen(d) = s
      BY <1>4 DEF Chosen, c, k
    <3>2. Data_Setup0(d) = DataStageIn(u)
      BY <1>2, <1>4, <3>1 DEF Data_Setup0, c, k
    <3>3. DataStageIn(u) = NextPacket(u)
      BY <2>4 DEF DataStageIn
    <3> QED
      BY <3>2, <3>3
  <2> HIDE DEF u, s, w
  <2>6. u.copy \in Descriptors => u.wOffset = 0
    BY <1>2, <2>4
  <2> QED
    BY <1>4, <1>2, <2>1, <2>3, <2>4, <2>5, <2>6, NextPacketFacts DEF Apart, AfterDataSetup, c, k, w, s
<1>5. CASE c # "none" /\ k # 0 /\ d.q.req \notin Reads
  <2>1. Data_Setup0(d) = [s EXCEPT !.state = "OUT_DATA", !.r = "VALID"]
    BY <1>2, <1>5 DEF Data_Setup0, Chosen, c, k
  <2> HIDE DEF s
  <2>2. /\ [s EXCEPT !.state = "OUT_DATA", !.r = "VALID"] \in DevType
        /\ Apart(d, [s EXCEPT !.state = "OUT_DATA", !.r = "VALID"])
    BY <1>2 DEF DevType, Apart, States, Status
  <2> QED
    BY <1>2, <1>5, <2>1, <2>2 DEF DevType, AfterDataSetup, c, k
<1> QED
  BY <1>3, <1>4, <1>5 DEF c, k

LEMMA DataInFacts ==
  ASSUME NEW d \in DevType, d.psize = MaxPacketSize, d.state = "LAST_IN_DATA", d.wLength = 0
  PROVE  LET e == DataStageIn(d)
         IN /\ e \in DevType /\ Apart(d, e) /\ e.psize = MaxPacketSize /\ e.wLength = 0 /\ e.r = d.r
            /\ d.mul => e.state = "LAST_IN_DATA" /\ e.in = Zlp /\ e.t = "VALID"
            /\ ~d.mul => e.state = "WAIT_STATUS_OUT" /\ e.t = "STALL"
<1>1. CASE d.mul
  <2> DEFINE x == StatusIn(d)
  <2>1. DataStageIn(d) = [x EXCEPT !.mul = FALSE]
    BY <1>1 DEF DataStageIn
  <2>2. /\ x \in DevType /\ Apart(d, x) /\ x.state = "LAST_IN_DATA" /\ x.in = Zlp /\ x.t = "VALID"
        /\ x.r = d.r /\ x.psize = MaxPacketSize /\ x.wLength = 0
    BY StatusInFacts
  <2> HIDE DEF x
  <2>3. [x EXCEPT !.mul = FALSE] \in DevType /\ Apart(x, [x EXCEPT !.mul = FALSE])
    BY <2>2 DEF DevType, Apart
  <2> QED
    BY <1>1, <2>1, <2>2, <2>3 DEF DevType, Apart
<1>2. CASE ~d.mul
  <2>1. DataStageIn(d) = [d EXCEPT !.state = "WAIT_STATUS_OUT", !.t = "STALL"]
    BY <1>2 DEF DataStageIn
  <2> QED
    BY <1>2, <2>1 DEF DevType, Apart, States, Status
<1> QED
  BY <1>1, <1>2

\* A line coding comes in one packet.
LEMMA DataOutFacts ==
  ASSUME NEW d \in DevType, d.psize = MaxPacketSize, d.wLength = 7, NEW v \in Nat
  PROVE  LET e == DataStageOut(d, v)
         IN /\ e \in DevType /\ e.state = "WAIT_STATUS_IN" /\ e.in = Zlp /\ e.t = "VALID" /\ e.line = v
            /\ e.q = d.q /\ e.conf = d.conf /\ e.wakeup = d.wakeup /\ e.ep4 = d.ep4 /\ e.daddr = d.daddr
            /\ e.psize = MaxPacketSize
<1> DEFINE n == Low(d.psize, d.wLength)
           f == [d EXCEPT !.wLength = @ - n, !.line = IF n > 0 THEN v ELSE @]
           g == [f EXCEPT !.state = "WAIT_STATUS_IN"]
<1>1. n = 7
  BY Consts DEF Low
<1>0. d.wLength - n = 0 /\ n > 0
  BY <1>1
<1> HIDE DEF n
<1>7. f = [d EXCEPT !.wLength = 0, !.line = v]
  BY <1>0
<1> HIDE DEF f
<1>2. f \in DevType /\ f.wLength = 0 /\ f.line = v /\ f.psize = MaxPacketSize
      /\ f.q = d.q /\ f.conf = d.conf /\ f.wakeup = d.wakeup /\ f.ep4 = d.ep4 /\ f.daddr = d.daddr
  BY <1>7 DEF DevType
<1>3. DataStageOut(d, v) = StatusIn(g)
  BY <1>2, Consts DEF DataStageOut, n, f
<1>4. g \in DevType /\ Apart(f, g) /\ g.psize = MaxPacketSize /\ g.state = "WAIT_STATUS_IN"
  BY <1>2 DEF DevType, Apart, States
<1> HIDE DEF g
<1> QED
  BY <1>2, <1>3, <1>4, StatusInFacts DEF Apart

-----------------------------------------------------------------------------
(* What a request is answered with, against what the device supports.      *)

LEMMA RoutineNone ==
  ASSUME NEW d \in DevType, WellFormed(d.q), d.q.len > 0, Routine(d, d.q) = "none"
  PROVE  ~Supported(d.q, d.conf)
<1>1. d.q \in Request /\ d.conf \in {0, 1}
  BY DEF DevType
<1>2. \A x \in Descriptors \cup Names : x # "none"
  BY NamesAssumption DEF Names, Reads
<1>3. CASE d.q.req = "GET_DESCRIPTOR"
  BY <1>2, <1>3 DEF Routine, Supported
<1>4. CASE d.q.req = "GET_STATUS"
  BY <1>1, <1>4 DEF Routine, Supported
<1>5. CASE d.q.req = "GET_INTERFACE"
  BY <1>1, <1>5 DEF Routine, Supported
<1>6. CASE d.q.req \in {"GET_CONFIGURATION", "GET_MAX_LUN", "GET_LINE_CODING", "SET_LINE_CODING"}
  BY <1>6 DEF Routine
<1>7. CASE d.q.req \in {"OTHER", "CLASS_OTHER"}
  BY <1>7, <1>1 DEF Supported, Request
<1>8. d.q.req \in WithData \cup {"OTHER", "CLASS_OTHER"}
  BY DEF WellFormed
<1> QED
  BY <1>3, <1>4, <1>5, <1>6, <1>7, <1>8 DEF WithData, Reads

LEMMA RoutineSome ==
  ASSUME NEW d \in DevType, Defined(d.q), d.q.len > 0, Routine(d, d.q) # "none"
  PROVE  LET c == Routine(d, d.q)
         IN /\ Supported(d.q, d.conf) /\ Length(d, c) > 0
            /\ Low(Length(d, c), d.q.len) = Extent(d.q)
            /\ d.q.req = "GET_DESCRIPTOR" => c = d.q.to /\ c \in Descriptors
            /\ d.q.req # "GET_DESCRIPTOR" => c = d.q.req /\ c \notin Descriptors /\ Extent(d.q) < MaxPacketSize
<1>1. d.q \in Request /\ d.conf \in {0, 1} /\ d.q.len \in Nat
  BY DEF DevType, Request
<1>2. \A x \in Names \cup {"none", "beyond"} : x \notin Descriptors
  BY NamesAssumption
<1>3. \A a \in Nat : Low(a, d.q.len) = Low(d.q.len, a) /\ Low(d.q.len, a) <= a
  BY <1>1 DEF Low
<1>4. CASE d.q.req = "GET_DESCRIPTOR"
  <2>1. d.q.to \in Descriptors /\ Routine(d, d.q) = d.q.to /\ Size[d.q.to] \in Nat /\ Size[d.q.to] > 0
    BY <1>4, SizeAssumption DEF Routine, Defined
  <2> QED
    BY <1>3, <1>4, <2>1 DEF Length, Extent, Supported
<1>5. CASE d.q.req \in {"GET_STATUS", "GET_INTERFACE", "GET_CONFIGURATION", "GET_MAX_LUN", "GET_LINE_CODING"}
  <2>1. Routine(d, d.q) = d.q.req /\ d.q.req \in Names
    BY <1>5 DEF Routine, Names, Reads
  <2>2. d.q.req \notin Descriptors
    BY <1>2, <2>1
  <2>3. Supported(d.q, d.conf)
    <3>1. CASE d.q.req = "GET_STATUS"
      BY <1>1, <3>1 DEF Routine, Supported
    <3>2. CASE d.q.req = "GET_INTERFACE"
      BY <1>1, <3>2 DEF Routine, Supported
    <3> QED
      BY <1>5, <3>1, <3>2 DEF Supported
  <2>4. Length(d, d.q.req) = IF d.q.req = "GET_STATUS" THEN 2 ELSE IF d.q.req = "GET_LINE_CODING" THEN 7 ELSE 1
    BY <1>5, <2>2 DEF Length
  <2>5. Extent(d.q) = Low(d.q.len, Length(d, d.q.req))
    BY <1>5, <2>4 DEF Extent
  <2>6. Length(d, d.q.req) \in Nat /\ Length(d, d.q.req) > 0 /\ Length(d, d.q.req) <= 7
    BY <2>4
  <2>7. Extent(d.q) = Low(Length(d, d.q.req), d.q.len) /\ Extent(d.q) <= 7 /\ Extent(d.q) \in Nat
    BY <1>1, <1>3, <2>5, <2>6, LowFacts
  <2> QED
    BY <1>5, <2>1, <2>2, <2>3, <2>6, <2>7, Consts
<1> QED
  BY <1>4, <1>5 DEF Defined, Reads

\* What a packet of a read holds is what the host may be told.
LEMMA SourceAnswers ==
  ASSUME NEW d \in DevType, Defined(d.q),
         d.copy = IF d.q.req = "GET_DESCRIPTOR" THEN d.q.to ELSE d.q.req,
         d.q.req = "GET_DESCRIPTOR" => d.q.to \in Descriptors,
         d.q.req # "GET_DESCRIPTOR" => d.copy \notin Descriptors,
         d.conf \in host.knows.conf, d.wakeup \in host.knows.wakeup,
         Halted(d) \in host.knows.ep4, d.line \in host.knows.line
  PROVE  Source(d) \in Answers(d.q)
<1>1. CASE d.q.req = "GET_DESCRIPTOR"
  <2>0. d.copy = d.q.to /\ d.copy \in Descriptors
    BY <1>1
  <2>1. Source(d) = <<d.q.to, 0>>
    BY <2>0, NamesAssumption DEF Source, Names, Reads
  <2>2. Answers(d.q) = {<<d.q.to, 0>>}
    BY <1>1 DEF Answers
  <2> QED
    BY <2>1, <2>2
<1>2. CASE d.q.req = "GET_STATUS"
  <2>1. CASE d.q.to = "device"
    BY <1>2, <2>1 DEF Source, Answers
  <2>2. CASE d.q.to = "ep4"
    BY <1>2, <2>2 DEF Source, Answers
  <2>3. CASE d.q.to \notin {"device", "ep4"}
    BY <1>2, <2>3 DEF Source, Answers
  <2> QED
    BY <2>1, <2>2, <2>3
<1>3. CASE d.q.req = "GET_CONFIGURATION"
  BY <1>3 DEF Source, Answers
<1>4. CASE d.q.req = "GET_LINE_CODING"
  BY <1>4 DEF Source, Answers
<1>5. CASE d.q.req = "GET_MAX_LUN"
  BY <1>5 DEF Source, Answers, Defined
<1>6. CASE d.q.req = "GET_INTERFACE"
  BY <1>6 DEF Source, Answers
<1> QED
  BY <1>1, <1>2, <1>3, <1>4, <1>5, <1>6 DEF Defined, Reads

-----------------------------------------------------------------------------
(* The steps of the interrupt.                                             *)

LEMMA InitInv == ASSUME Init PROVE IInv
<1>1. TypeOK
  <2>1. NoRequest \in Request /\ Zlp \in InPacket
    BY ZlpType DEF NoRequest, Request, Names, Reads, Targets
  <2>2. dev \in DevType
    BY <2>1, Consts DEF Init, DevType, States, Status, Copy
  <2>3. host \in HostType
    BY <2>1 DEF Init, HostType, Knowledge, Known
  <2> QED
    BY <2>1, <2>2, <2>3, BoundAssumption DEF Init, TypeOK, Status
<1>2. ResetsServed /\ Current
  BY DEF Init, ResetsServed, Current, SetupPending, NoRequest, WellFormed
<1>3. Knowing
  BY DEF Init, Knowing, Holds, Halted, Known, Parts
<1>4. Progress /\ Results
  BY DEF Init, Progress, Results, SetupPending, NoRequest, Defined, Reads
<1> QED
  BY <1>1, <1>2, <1>3, <1>4 DEF IInv

\* What the host has got depends on the host alone.
LEMMA HostSame == ASSUME Results, host' = host PROVE Results'
BY DEF Results, NotAll, Some, Answers

\* Request and parts of the device, as they are before and after a request
\* without data.
LEMMA NoDataProgress ==
  ASSUME NEW d \in DevType, TypeOK, d.q = host.q, WellFormed(host.q), host.q.len = 0,
         d.conf \in host.knows.conf, d.wakeup \in host.knows.wakeup, Halted(d) \in host.knows.ep4,
         \A f \in Part(host.q) : Value(host.q) \in host.knows[f],
         host.q.req = "SET_ADDRESS" => host.knows.conf = {0}
  PROVE  LET e == NoData_Setup0(d)
         IN /\ e.conf \in host.knows.conf /\ e.wakeup \in host.knows.wakeup /\ Halted(e) \in host.knows.ep4
            /\ e.state = "STALLED" => NotAll(host.q)
            /\ e.state # "STALLED" => e.state = "WAIT_STATUS_IN" /\ e.in = Zlp /\ e.t = "VALID"
            /\ e.state # "STALLED" /\ Sure(host.q) =>
                 /\ "conf" \in Part(host.q) => e.conf = Value(host.q)
                 /\ "wakeup" \in Part(host.q) => e.wakeup = Value(host.q)
                 /\ "ep4" \in Part(host.q) => Halted(e) = Value(host.q)
                 /\ "line" \notin Part(host.q)
<1> DEFINE q == host.q
           e == NoData_Setup0(d)
           f == Performed(d, q)
<1>1. q \in Request /\ q.value \in Nat /\ d.conf \in {0, 1}
  BY DEF TypeOK, HostType, Request, DevType
<1>2. q.req \notin WithData
  BY DEF WellFormed, WithData, Reads
<1>3. CASE Refused(d, q)
  <2>1. e.state = "STALLED" /\ Apart(d, e)
    BY <1>3, NoDataFacts
  <2>2. ~Supported(q, d.conf)
    <3>1. CASE q.req = "CLASS_OTHER"
      BY <3>1 DEF Supported
    <3>2. CASE q.req = "SET_ADDRESS" /\ q.value > 127
      BY <1>1, <3>2 DEF Supported
    <3>3. ~(q.req = "SET_ADDRESS" /\ d.conf # 0)
      OBVIOUS
    <3> QED
      BY <1>2, <1>3, <3>1, <3>2, <3>3 DEF Refused, WithData, Reads
  <2> QED
    BY <2>1, <2>2 DEF NotAll, Apart, Halted
<1>4. CASE ~Refused(d, q)
  <2>1. /\ e.state = "WAIT_STATUS_IN" /\ e.in = Zlp /\ e.t = "VALID"
        /\ e.conf = f.conf /\ e.wakeup = f.wakeup /\ Halted(e) = Halted(f)
    BY <1>4, NoDataFacts
  <2>2. /\ f.conf = IF q.req = "SET_CONFIGURATION" /\ q.value <= 1 THEN q.value ELSE d.conf
        /\ f.wakeup = IF q.req = "SET_FEATURE" /\ q.to = "device" THEN 1
                      ELSE IF q.req = "CLEAR_FEATURE" /\ q.to = "device" THEN 0 ELSE d.wakeup
        /\ Halted(f) = IF q.req = "SET_FEATURE" /\ q.to = "ep4" /\ d.conf # 0 THEN 1
                       ELSE IF q.req = "CLEAR_FEATURE" /\ q.to = "ep4" /\ d.conf # 0 THEN 0 ELSE Halted(d)
    BY <1>1, PerformedFacts
  <2> HIDE DEF f, e
  <2>3. /\ "conf" \in Part(q) <=> q.req = "SET_CONFIGURATION" /\ q.value <= 1
        /\ "wakeup" \in Part(q) <=> q.req \in {"SET_FEATURE", "CLEAR_FEATURE"} /\ q.to = "device"
        /\ "ep4" \in Part(q) <=> q.req \in {"SET_FEATURE", "CLEAR_FEATURE"} /\ q.to = "ep4" /\ 1 \in host.knows.conf
        /\ "line" \notin Part(q)
    BY <1>2 DEF Part, WithData
  <2>4. /\ q.req = "SET_FEATURE" => Value(q) = 1
        /\ q.req = "CLEAR_FEATURE" => Value(q) = 0
        /\ q.req = "SET_CONFIGURATION" => Value(q) = q.value
    BY DEF Value
  <2>5. d.conf # 0 => d.conf = 1 /\ 1 \in host.knows.conf
    BY <1>1
  <2>6. Sure(q) /\ q.to = "ep4" => d.conf # 0
    BY DEF Sure
  <2> QED
    BY <2>1, <2>2, <2>3, <2>4, <2>5, <2>6 DEF e
<1> QED
  BY <1>3, <1>4

LEMMA DataProgress ==
  ASSUME NEW d \in DevType, TypeOK, d.q = host.q, WellFormed(host.q), host.q.len > 0, d.state = "SETTING_UP",
         d.conf \in host.knows.conf, d.wakeup \in host.knows.wakeup,
         Halted(d) \in host.knows.ep4, d.line \in host.knows.line
  PROVE  LET e == Data_Setup0(d)
         IN /\ e.state \in {"STALLED", "IN_DATA", "LAST_IN_DATA", "OUT_DATA"}
            /\ e.state = "STALLED" /\ host.q.to # "beyond" => NotAll(host.q)
            /\ e.state # "STALLED" /\ host.q.req \in Reads =>
                 /\ e.psize = MaxPacketSize /\ e.r = "VALID" /\ e.t = "VALID"
                 /\ e.state \in {"IN_DATA", "LAST_IN_DATA"}
                 /\ Defined(host.q) => Some(host.q)
                 /\ e.in.len + e.wLength <= host.q.len
                 /\ Defined(host.q) => e.in.len + e.wLength = Extent(host.q)
                 /\ e.state = "IN_DATA" => e.wLength > 0 /\ e.in.len = MaxPacketSize
                 /\ e.state = "LAST_IN_DATA" => e.wLength = 0
                 /\ \/ e.mul \/ e.in.len + e.wLength = host.q.len \/ e.in.len + e.wLength < MaxPacketSize
                    \/ (e.in.len + e.wLength) % MaxPacketSize # 0
                 /\ Defined(host.q) /\ host.q.req = "GET_DESCRIPTOR" => e.copy = host.q.to /\ e.wOffset = e.in.len
                 /\ Defined(host.q) => e.in.of \in Answers(host.q) /\ e.in.from = 0
            /\ e.state # "STALLED" /\ host.q.req \notin Reads =>
                 /\ host.q.req = "SET_LINE_CODING" /\ e.state = "OUT_DATA" /\ e.wLength = 7
                 /\ e.r = "VALID" /\ e.t = d.t /\ e.psize = d.psize
<1> DEFINE q == host.q
           e == Data_Setup0(d)
           c == Routine(d, q)
           k == Length(d, c)
           w == Low(k, q.len)
           n == Low(MaxPacketSize, w)
           s == [d EXCEPT !.copy = c, !.wLength = k, !.wOffset = IF c = "GET_MAX_LUN" THEN @ ELSE 0]
<1>1. q \in Request /\ q.len \in Nat /\ d.conf \in {0, 1} /\ c \in Copy /\ k \in Nat /\ d.wOffset \in Nat
  BY RoutineType, LengthType DEF TypeOK, HostType, Request, DevType
<1>0. AfterDataSetup(d, q)
  BY DataSetupFacts
<1>7. e.wLength \in Nat
  BY <1>0 DEF AfterDataSetup, DevType
<1>2. /\ c = "none" \/ k = 0 => e.state = "STALLED"
      /\ c # "none" /\ k # 0 /\ q.req \in Reads =>
           /\ e.psize = MaxPacketSize /\ e.r = "VALID" /\ e.t = "VALID"
           /\ w \in Nat /\ n \in Nat /\ e.in.len = n /\ e.wLength + n = w
           /\ \/ e.state = "IN_DATA" /\ e.wLength > 0 /\ n = MaxPacketSize
              \/ e.state = "LAST_IN_DATA" /\ e.wLength = 0
           /\ e.mul \/ w = q.len \/ w < MaxPacketSize \/ w % MaxPacketSize # 0
           /\ e.in.of = Source(s) /\ e.in.from = 0 /\ e.copy = c
           /\ c \in Descriptors => e.wOffset = n
      /\ c # "none" /\ k # 0 /\ q.req \notin Reads =>
           e.state = "OUT_DATA" /\ e.wLength = k /\ e.r = "VALID" /\ e.t = d.t /\ e.psize = d.psize
  BY <1>0 DEF AfterDataSetup
<1> HIDE DEF e
<1>3. CASE c = "none"
  <2>1. ~Supported(q, d.conf)
    BY <1>3, RoutineNone
  <2> QED
    BY <1>2, <1>3, <2>1 DEF NotAll, e
<1>4. CASE c # "none" /\ k = 0
  <2>1. CASE Defined(q)
    <3>1. k > 0
      BY <1>4, <2>1, RoutineSome
    <3> QED
      BY <1>4, <3>1
  <2>2. CASE q.req \in Reads /\ ~Defined(q)
    <3>1. q.to = "beyond" \/ q.req = "GET_MAX_LUN"
      BY <2>2 DEF Defined
    <3>2. q.req = "GET_MAX_LUN" => c = "GET_MAX_LUN"
      BY DEF Routine
    <3>3. c = "GET_MAX_LUN" => k = 1
      BY NamesAssumption DEF Length, Names, Reads
    <3> QED
      BY <1>2, <1>4, <3>1, <3>2, <3>3 DEF e
  <2>3. CASE q.req \notin Reads
    <3>1. c = "SET_LINE_CODING"
      BY <1>4, <2>3 DEF Routine, Reads
    <3>2. k = 7
      BY <3>1, NamesAssumption DEF Length, Names, Reads
    <3> QED
      BY <1>4, <3>2
  <2> QED
    BY <2>1, <2>2, <2>3 DEF Defined
<1>5. CASE c # "none" /\ k # 0 /\ q.req \in Reads
  <2>1. w <= q.len /\ n \in Nat /\ w \in Nat
    BY <1>1, <1>2, <1>5, LowFacts
  <2>2. CASE Defined(q)
    <3>1. /\ Supported(q, d.conf) /\ w = Extent(q)
          /\ q.req = "GET_DESCRIPTOR" => c = q.to /\ c \in Descriptors
          /\ q.req # "GET_DESCRIPTOR" => c = q.req /\ c \notin Descriptors
      BY <1>5, <2>2, RoutineSome
    <3> HIDE DEF c, k, w, n
    <3>2. s \in DevType /\ s.q = q /\ s.copy = c /\ s.conf = d.conf /\ s.wakeup = d.wakeup /\ Halted(s) = Halted(d)
          /\ s.line = d.line
      BY <1>1 DEF DevType, Halted
    <3> HIDE DEF s
    <3>3. Source(s) \in Answers(q)
      BY <2>2, <3>1, <3>2, SourceAnswers
    <3>4. Some(q)
      BY <3>1 DEF Some
    <3>5. e.in.len + e.wLength = w
      BY <1>7, <1>2, <1>5, <2>1
    <3> QED
      BY <1>2, <1>5, <2>1, <2>2, <3>1, <3>3, <3>4, <3>5 DEF e, s, c, k, w, n
  <2>3. CASE ~Defined(q)
    <3> HIDE DEF c, k, w, n, s
    <3>5. e.in.len + e.wLength = w
      BY <1>7, <1>2, <1>5, <2>1
    <3> QED
      BY <1>2, <1>5, <2>1, <2>3, <3>5 DEF e
  <2> QED
    BY <2>2, <2>3
<1>6. CASE c # "none" /\ k # 0 /\ q.req \notin Reads
  <2>1. c = "SET_LINE_CODING" /\ q.req = "SET_LINE_CODING"
    BY <1>6 DEF Routine, Reads
  <2>2. k = 7
    BY <2>1, NamesAssumption DEF Length, Names, Reads
  <2> QED
    BY <1>2, <1>6, <2>1, <2>2 DEF e
<1> QED
  BY <1>3, <1>4, <1>5, <1>6

\* The device looks at a request.
LEMMA ProcessSetup ==
  ASSUME IInv, Process, isr.dir = "rx", isr.setup PROVE IInv'
<1> DEFINE q == host.q
           d == [dev EXCEPT !.q = q, !.state = "SETTING_UP"]
           x == IF q.len = 0 THEN NoData_Setup0(d) ELSE Data_Setup0(d)
<1>1. /\ TypeOK /\ dev \in DevType /\ host \in HostType /\ q \in Request /\ q.len \in Nat
      /\ ep0.out = q /\ WellFormed(q) /\ SetupPending /\ ep0.ctr = {"rx"} /\ isr.at = "entered"
  BY DEF IInv, TypeOK, HostType, Request, Process, ResetsServed, Current, SetupPending
<1>2. /\ d \in DevType /\ d.q = q /\ d.state = "SETTING_UP" /\ d.psize = dev.psize /\ d.t = dev.t
      /\ d.conf = dev.conf /\ d.wakeup = dev.wakeup /\ d.line = dev.line /\ Halted(d) = Halted(dev)
      /\ d.daddr = dev.daddr
  BY <1>1 DEF DevType, States, Halted
<1>3. /\ dev' = Post0_Process(x) /\ host' = host /\ faults' = faults
      /\ isr' = [isr EXCEPT !.at = "rest"]
      /\ ep0' = [ep0 EXCEPT !.rx = dev'.r, !.tx = dev'.t, !.ctr = @ \ {"rx"}]
  BY <1>1 DEF Process, Setup0_Process
<1> HIDE DEF d
<1>4. /\ x \in DevType /\ x.q = q /\ x.line = dev.line /\ x.daddr = dev.daddr
      /\ x.psize = dev.psize \/ x.psize = MaxPacketSize
      /\ x.state \in {"STALLED", "WAIT_STATUS_IN", "IN_DATA", "LAST_IN_DATA", "OUT_DATA"}
  <2>1. CASE q.len = 0
    BY <1>2, <2>1, NoDataFacts
  <2>2. CASE q.len # 0
    <3>1. LET c == Routine(d, d.q)
          IN c = "none" \/ Length(d, c) = 0 \/ d.q.req \in Reads \/ d.q.req \notin Reads
      OBVIOUS
    <3> QED
      BY <1>2, <2>2, DataSetupFacts DEF AfterDataSetup, Apart
  <2> QED
    BY <2>1, <2>2
<1> HIDE DEF x
<1>5. /\ dev' \in DevType /\ Apart(x, dev') /\ dev'.state = x.state /\ dev'.psize = x.psize
      /\ dev'.wLength = x.wLength
      /\ x.state = "STALLED" => dev'.r = "STALL" /\ dev'.t = "STALL"
      /\ x.state # "STALLED" => dev' = x
  BY <1>3, <1>4, PostFacts
<1>6. /\ isr'.at = "rest" /\ isr'.reset = isr.reset /\ isr'.setup = isr.setup
      /\ ep0'.rx = dev'.r /\ ep0'.tx = dev'.t /\ ep0'.ctr = {} /\ ep0'.out = q
  BY <1>1, <1>3 DEF TypeOK
<1>7. TypeOK'
  BY <1>1, <1>3, <1>5 DEF TypeOK, DevType
<1>8. ResetsServed'
  BY <1>1, <1>3, <1>6 DEF IInv, ResetsServed
<1>9. ~SetupPending'
  BY <1>6 DEF SetupPending
<1>10. host.ph # "reset" =>
         /\ Unseen /\ host.ph # "idle" /\ host.result = "none"
         /\ host.ph \in {"in", "status_out"} <=> q.req \in Reads
  BY <1>1 DEF IInv, Progress
<1>11. host.ph # "reset" =>
         /\ dev.conf \in host.knows.conf /\ dev.wakeup \in host.knows.wakeup
         /\ Halted(dev) \in host.knows.ep4 /\ dev.line \in host.knows.line
  BY DEF IInv, Knowing, Holds, Parts
<1>12. CASE host.ph = "reset"
  <2>1. Current'
    <3>1. q.req = "SET_LINE_CODING" => host.read /\ dev.psize = MaxPacketSize
      BY DEF IInv, Current
    <3>2. x.state = "OUT_DATA" => q.req = "SET_LINE_CODING" /\ x.wLength = 7
      <4>1. CASE q.len = 0
        BY <1>2, <4>1, NoDataFacts DEF x
      <4>2. CASE q.len # 0
        <5> DEFINE c == Routine(d, d.q)
        <5>1. x.state = "OUT_DATA" => c # "none" /\ q.req \notin Reads /\ x.wLength = Length(d, c)
          BY <1>2, <4>2, DataSetupFacts DEF AfterDataSetup, x
        <5>2. c # "none" /\ q.req \notin Reads => c = "SET_LINE_CODING" /\ q.req = "SET_LINE_CODING"
          BY <1>2 DEF Routine, Reads
        <5>3. c = "SET_LINE_CODING" => Length(d, c) = 7
          BY NamesAssumption DEF Length, Names, Reads
        <5> QED
          BY <5>1, <5>2, <5>3
      <4> QED
        BY <4>1, <4>2
    <3> QED
      BY <1>1, <1>3, <1>4, <1>5, <1>6, <1>9, <3>1, <3>2 DEF IInv, Current, Apart
  <2>2. Knowing'
    BY <1>3, <1>4, <1>5, <1>12 DEF IInv, Knowing, Apart
  <2>3. Progress'
    BY <1>3, <1>9, <1>12 DEF Progress
  <2> QED
    BY <1>3, <1>7, <1>8, <2>1, <2>2, <2>3, HostSame DEF IInv
<1>13. CASE host.ph # "reset" /\ q.len = 0
  <2>1. q.req \notin WithData /\ host.ph = "status_in"
    BY <1>1, <1>10, <1>13 DEF WellFormed, WithData, Unseen, Phase, Reads
  <2>2. /\ x.conf \in host.knows.conf /\ x.wakeup \in host.knows.wakeup /\ Halted(x) \in host.knows.ep4
        /\ x.state = "STALLED" => NotAll(q)
        /\ x.state # "STALLED" => x.state = "WAIT_STATUS_IN" /\ x.in = Zlp /\ x.t = "VALID"
        /\ x.state # "STALLED" /\ Sure(q) =>
             /\ "conf" \in Part(q) => x.conf = Value(q)
             /\ "wakeup" \in Part(q) => x.wakeup = Value(q)
             /\ "ep4" \in Part(q) => Halted(x) = Value(q)
             /\ "line" \notin Part(q)
    BY <1>1, <1>2, <1>10, <1>11, <1>13, NoDataProgress DEF x, Unseen
  <2>3. dev'.conf = x.conf /\ dev'.wakeup = x.wakeup /\ Halted(dev') = Halted(x) /\ dev'.line = dev.line
        /\ dev'.daddr = dev.daddr /\ dev'.q = q
    BY <1>4, <1>5 DEF Apart, Halted
  <2>4. Current'
    BY <1>1, <1>3, <1>4, <1>5, <1>6, <1>9, <2>1, <2>2, <2>3 DEF IInv, Current, WithData, Reads
  <2>5. Knowing'
    <3>1. \A f \in Parts : Holds'[f] \in host.knows[f]
      BY <1>11, <1>13, <2>2, <2>3 DEF Holds, Parts
    <3>2. dev.daddr = host.addr
      BY <1>1, <1>13 DEF IInv, Knowing
    <3> QED
      BY <1>3, <1>6, <1>11, <1>13, <2>3, <3>1, <3>2 DEF Knowing
  <2>6. Progress'
    <3>1. CASE x.state = "STALLED"
      <4>1. Refusal'
        BY <1>3, <1>5, <1>6, <2>2, <3>1 DEF Refusal, NotAll
      <4> QED
        BY <1>3, <1>9, <1>10, <1>13, <2>1, <4>1 DEF Progress
    <3>2. CASE x.state # "STALLED"
      <4>1. Performing'
        <5>1. Sure(q) => \A f \in Part(q) : Holds'[f] = Value(q)
          <6>1. Part(q) \subseteq Parts
            BY DEF Part, Parts
          <6>2. Sure(q) => \A f \in Parts : f \in Part(q) => Holds'[f] = Value(q)
            BY <2>2, <2>3, <3>2 DEF Parts, Holds
          <6> QED
            BY <6>1, <6>2
        <5>2. Sure(q)' = Sure(q) /\ Part(q)' = Part(q) /\ Value(q)' = Value(q)
          BY <1>3 DEF Sure, Part, Value
        <5> QED
          BY <1>3, <1>5, <1>6, <2>2, <3>2, <5>1, <5>2 DEF Performing
      <4> QED
        BY <1>3, <1>9, <1>10, <1>13, <2>1, <4>1 DEF Progress
    <3> QED
      BY <3>1, <3>2
  <2> QED
    BY <1>3, <1>7, <1>8, <2>4, <2>5, <2>6, HostSame DEF IInv
<1>14. CASE host.ph # "reset" /\ q.len # 0
  <2>1. /\ x.state \in {"STALLED", "IN_DATA", "LAST_IN_DATA", "OUT_DATA"}
        /\ x.state = "STALLED" /\ q.to # "beyond" => NotAll(q)
        /\ x.state # "STALLED" /\ q.req \in Reads =>
             /\ x.psize = MaxPacketSize /\ x.r = "VALID" /\ x.t = "VALID"
             /\ x.state \in {"IN_DATA", "LAST_IN_DATA"}
             /\ Defined(q) => Some(q)
             /\ x.in.len + x.wLength <= q.len
             /\ Defined(q) => x.in.len + x.wLength = Extent(q)
             /\ x.state = "IN_DATA" => x.wLength > 0 /\ x.in.len = MaxPacketSize
             /\ x.state = "LAST_IN_DATA" => x.wLength = 0
             /\ \/ x.mul \/ x.in.len + x.wLength = q.len \/ x.in.len + x.wLength < MaxPacketSize
                \/ (x.in.len + x.wLength) % MaxPacketSize # 0
             /\ Defined(q) /\ q.req = "GET_DESCRIPTOR" => x.copy = q.to /\ x.wOffset = x.in.len
             /\ Defined(q) => x.in.of \in Answers(q) /\ x.in.from = 0
        /\ x.state # "STALLED" /\ q.req \notin Reads =>
             /\ q.req = "SET_LINE_CODING" /\ x.state = "OUT_DATA" /\ x.wLength = 7
             /\ x.r = "VALID" /\ x.t = d.t /\ x.psize = d.psize
    BY <1>1, <1>2, <1>11, <1>14, DataProgress DEF x
  <2>2. /\ dev'.conf = dev.conf /\ dev'.wakeup = dev.wakeup /\ Halted(dev') = Halted(dev)
        /\ dev'.line = dev.line /\ dev'.daddr = dev.daddr /\ dev'.q = q
    <3>1. Apart(d, x)
      BY <1>2, <1>14, DataSetupFacts DEF AfterDataSetup, x
    <3> QED
      BY <1>2, <1>5, <3>1 DEF Apart, Halted
  <2>3. Current'
    BY <1>1, <1>3, <1>4, <1>5, <1>6, <1>9, <2>1, <2>2 DEF IInv, Current
  <2>4. Knowing'
    <3>1. \A f \in Parts : Holds'[f] \in host.knows[f]
      BY <1>11, <1>14, <2>2 DEF Holds, Parts
    <3>2. dev.daddr = host.addr
      BY <1>1, <1>14 DEF IInv, Knowing
    <3> QED
      BY <1>3, <1>6, <1>11, <1>14, <2>2, <3>1, <3>2 DEF Knowing
  <2>5. host.n = 0 /\ host.ph = IF q.req \in Reads THEN "in" ELSE "out"
    BY <1>10, <1>14 DEF Unseen, Phase
  <2>6. dev.t = "NAK"
    BY <1>1, <1>10, <1>14 DEF Unseen
  <2>7. Progress'
    <3>1. CASE x.state = "STALLED"
      <4>1. Refusal'
        BY <1>3, <1>5, <1>6, <2>1, <3>1 DEF Refusal, NotAll
      <4> QED
        BY <1>3, <1>9, <1>10, <1>14, <2>5, <4>1 DEF Progress
    <3>2. CASE x.state # "STALLED" /\ q.req \in Reads
      <4>1. x = dev' /\ x.in.len \in Nat /\ x.wLength \in Nat
        BY <1>4, <1>5, <3>2, Consts DEF DevType, InPacket
      <4>2. 0 + x.in.len = x.in.len /\ 0 = 0 * MaxPacketSize /\ 0 \in 0 .. 0
        BY <4>1, Consts
      <4>3. Amounts(dev.in.len, dev.wLength)'
        BY <1>3, <2>1, <3>2, <4>1 DEF Amounts, Defined, Extent
      <4>4. Defined(q) => dev'.in.of \in Answers(q)'
        BY <1>3, <2>1, <3>2, <4>1 DEF Answers, Defined
      <4>5. Armed'
        BY <1>3, <1>6, <2>1, <2>5, <3>2, <4>1, <4>2, <4>3, <4>4 DEF Armed
      <4>6. Sending'
        BY <1>3, <1>6, <2>1, <2>5, <3>2, <4>1, <4>2, <4>5 DEF Sending, Some
      <4> QED
        BY <1>3, <1>9, <1>10, <1>14, <2>5, <3>2, <4>6 DEF Progress
    <3>3. CASE x.state # "STALLED" /\ q.req \notin Reads
      BY <1>2, <1>3, <1>5, <1>6, <1>9, <1>10, <1>14, <2>1, <2>5, <2>6, <3>3 DEF Progress
    <3> QED
      BY <3>1, <3>2, <3>3
  <2> QED
    BY <1>3, <1>7, <1>8, <2>3, <2>4, <2>7, HostSame DEF IInv
<1> QED
  BY <1>12, <1>13, <1>14

\* A packet that is not a SETUP: the line coding, or nothing.
LEMMA ProcessOut ==
  ASSUME IInv, Process, isr.dir = "rx", ~isr.setup PROVE IInv'
<1> DEFINE q == host.q
           x == Out0_Process(dev, q)
<1>1. /\ TypeOK /\ dev \in DevType /\ host \in HostType /\ q \in Request /\ q.value \in Nat
      /\ ep0.out = q /\ ~SetupPending /\ dev.q = q /\ "rx" \in ep0.ctr /\ isr.at = "entered"
  BY DEF IInv, TypeOK, HostType, Request, Process, ResetsServed, Current, SetupPending
<1>2. /\ dev' = Post0_Process(x) /\ host' = host /\ faults' = faults
      /\ isr' = [isr EXCEPT !.at = "rest"]
      /\ ep0' = [ep0 EXCEPT !.rx = dev'.r, !.tx = dev'.t, !.ctr = @ \ {"rx"}]
  BY <1>1 DEF Process
<1>3. CASE dev.state = "OUT_DATA"
  <2>1. /\ q.req = "SET_LINE_CODING" /\ dev.wLength = 7 /\ host.read /\ dev.psize = MaxPacketSize
        /\ q.value \in host.knows.line /\ ep0.ctr = {"rx"}
    BY <1>1, <1>3 DEF IInv, Current, TypeOK, ResetsServed
  <2>2. /\ x \in DevType /\ x.state = "WAIT_STATUS_IN" /\ x.in = Zlp /\ x.t = "VALID" /\ x.line = q.value
        /\ x.q = q /\ x.conf = dev.conf /\ x.wakeup = dev.wakeup /\ x.ep4 = dev.ep4 /\ x.daddr = dev.daddr
        /\ x.psize = MaxPacketSize
    BY <1>1, <1>3, <2>1, DataOutFacts DEF Out0_Process
  <2> HIDE DEF x
  <2>3. dev' = x
    BY <1>2, <2>2, PostFacts
  <2>4. /\ isr'.at = "rest" /\ isr'.reset = isr.reset /\ isr'.setup = isr.setup
        /\ ep0'.rx = dev'.r /\ ep0'.tx = "VALID" /\ ep0'.ctr = {} /\ ep0'.out = q
    BY <1>1, <1>2, <2>1, <2>2, <2>3 DEF TypeOK
  <2>5. TypeOK'
    BY <1>1, <1>2, <2>2, <2>3 DEF TypeOK, DevType
  <2>6. ~SetupPending'
    BY <2>4 DEF SetupPending
  <2>7. ResetsServed'
    BY <1>1, <1>2, <2>1, <2>4 DEF IInv, ResetsServed
  <2>8. Current'
    BY <1>1, <1>2, <2>1, <2>2, <2>3, <2>4 DEF IInv, Current
  <2>9. Halted(dev') = Halted(dev)
    BY <2>2, <2>3 DEF Halted
  <2>10. host.ph # "reset" => \A f \in Parts : Holds'[f] \in host.knows[f]
    BY <2>1, <2>2, <2>3, <2>9 DEF IInv, Knowing, Holds, Parts
  <2>11. Knowing'
    BY <1>1, <1>2, <1>3, <2>1, <2>2, <2>3, <2>10 DEF IInv, Knowing
  <2>12. host.ph # "reset" => host.ph \in {"idle", "status_in"}
    BY <1>1, <2>1 DEF IInv, TypeOK, HostType, Progress, Refusal, Sending, Armed, Fetched, Ending
  <2>13. Performing'
    <3>1. Part(q)' = {"line"} /\ Value(q)' = q.value /\ Holds'.line = q.value
      BY <1>2, <2>1, <2>2, <2>3 DEF Part, Value, Holds
    <3> QED
      BY <1>2, <2>2, <2>3, <2>4, <3>1 DEF Performing
  <2>14. Progress'
    BY <1>1, <1>2, <2>6, <2>12, <2>13 DEF IInv, Progress
  <2> QED
    BY <1>2, <2>5, <2>7, <2>8, <2>11, <2>14, HostSame DEF IInv
<1>4. CASE dev.state # "OUT_DATA"
  <2>1. x = Stalled(dev)
    BY <1>1, <1>4 DEF Out0_Process, IInv, Current
  <2>2. /\ dev' \in DevType /\ Apart(dev, dev') /\ dev'.state = "STALLED" /\ dev'.psize = dev.psize
        /\ dev'.r = "STALL" /\ dev'.t = "STALL"
    BY <1>1, <1>2, <2>1, StalledFacts, PostFacts DEF Apart
  <2>3. /\ isr'.at = "rest" /\ isr'.reset = isr.reset /\ isr'.setup = isr.setup
        /\ ep0'.rx = dev'.r /\ ep0'.tx = dev'.t /\ ep0'.ctr = ep0.ctr \ {"rx"} /\ ep0'.out = q
    BY <1>1, <1>2 DEF TypeOK
  <2>4. TypeOK'
    BY <1>1, <1>2, <2>2 DEF TypeOK, DevType
  <2>5. ~SetupPending'
    BY <2>3 DEF SetupPending
  <2>6. ResetsServed'
    BY <1>1, <1>2, <2>2, <2>3 DEF IInv, ResetsServed, Apart
  <2>7. Current'
    BY <1>1, <1>2, <2>2, <2>3 DEF IInv, Current, Apart
  <2>8. Halted(dev') = Halted(dev)
    BY <2>2 DEF Halted, Apart
  <2>9. host.ph # "reset" => \A f \in Parts : Holds'[f] \in host.knows[f]
    BY <2>2, <2>8 DEF IInv, Knowing, Holds, Parts, Apart
  <2>10. Knowing'
    <3>1. ~("tx" \in ep0.ctr /\ dev.state = "WAIT_STATUS_IN")
      BY <1>1 DEF IInv, ResetsServed
    <3> QED
      BY <1>1, <1>2, <2>2, <2>9, <3>1 DEF IInv, Knowing, Apart
  <2>11. host.ph \in {"idle", "reset"}
    BY <1>1, <1>4 DEF IInv, TypeOK, HostType, Progress, Refusal, Sending, Armed, Fetched, Ending, Performing
  <2>12. Progress'
    BY <1>2, <2>5, <2>11 DEF Progress
  <2> QED
    BY <1>2, <2>4, <2>6, <2>7, <2>10, <2>12, HostSame DEF IInv
<1> QED
  BY <1>3, <1>4

\* The next packet of a read: it is what the host waits for.
LEMMA NextArmed ==
  ASSUME TypeOK, dev.q = host.q, dev.psize = MaxPacketSize, dev.state \in {"IN_DATA", "LAST_IN_DATA"},
         dev.wLength > 0, Defined(host.q) => Some(host.q),
         MaxPacketSize <= host.n, Amounts(host.n, dev.wLength),
         dev.conf \in host.knows.conf, dev.wakeup \in host.knows.wakeup,
         Halted(dev) \in host.knows.ep4, dev.line \in host.knows.line,
         dev' = NextPacket(dev), host' = host, ep0'.tx = "VALID", ep0'.ctr = {}
  PROVE  Armed'
<1> DEFINE q == host.q
           n == Low(MaxPacketSize, dev.wLength)
<1>1. /\ dev \in DevType /\ q \in Request /\ q.len \in Nat /\ host.n \in Nat /\ dev.wLength \in Nat
  BY DEF TypeOK, DevType, HostType, Request
<1>2. /\ dev' \in DevType /\ dev'.mul = dev.mul /\ dev'.copy = dev.copy
      /\ n \in Nat /\ n <= MaxPacketSize /\ dev'.in.len = n /\ dev'.wLength + n = dev.wLength
      /\ \/ dev'.state = "IN_DATA" /\ dev'.wLength > 0 /\ n = MaxPacketSize
         \/ dev'.state = "LAST_IN_DATA" /\ dev'.wLength = 0
      /\ dev'.in.of = Source(dev) /\ dev'.in.from = IF dev.copy \in Descriptors THEN dev.wOffset ELSE 0
      /\ dev.copy \in Descriptors => dev'.wOffset = dev.wOffset + n
  BY <1>1, NextPacketFacts
<1> HIDE DEF n
<1>3. dev'.wLength \in Nat /\ (host.n + n) + dev'.wLength = host.n + dev.wLength
  BY <1>1, <1>2 DEF DevType
<1>4. Defined(q) => q.req = "GET_DESCRIPTOR" /\ q.to \in Descriptors
  <2> SUFFICES ASSUME Defined(q) PROVE q.req = "GET_DESCRIPTOR" /\ q.to \in Descriptors
    OBVIOUS
  <2>1. CASE q.req = "GET_DESCRIPTOR"
    BY <2>1 DEF Some, Supported
  <2>2. CASE q.req # "GET_DESCRIPTOR"
    <3>1. Extent(q) <= 7
      BY <1>1, <2>2 DEF Extent, Low
    <3>2. host.n + dev.wLength = Extent(q)
      BY DEF Amounts
    <3> QED
      BY <1>1, <3>1, <3>2, Consts
  <2> QED
    BY <2>1, <2>2
<1>5. Defined(q) => dev.copy = q.to /\ dev.wOffset = host.n
  BY <1>4 DEF Amounts
<1>6. Amounts(host.n + dev.in.len, dev.wLength)'
  BY <1>2, <1>3, <1>4, <1>5 DEF Amounts, Defined, Extent
<1>7. Defined(q) => Source(dev) \in Answers(q)
  BY <1>4, <1>5, SourceAnswers, <1>1
<1>8. Answers(q)' = Answers(q) /\ (Defined(q)' <=> Defined(q))
  BY DEF Answers, Defined
<1>9. Defined(q) => dev'.in.of \in Answers(q) /\ dev'.in.from = host.n
  BY <1>2, <1>4, <1>5, <1>7
<1> QED
  BY <1>2, <1>6, <1>8, <1>9 DEF Armed

\* After the last packet: the packet of length zero, or the status.
LEMMA InDataFacts ==
  ASSUME NEW d \in DevType, d.psize = MaxPacketSize, d.state \in {"IN_DATA", "LAST_IN_DATA"}
  PROVE  LET e == DataStageIn(d)
         IN /\ e \in DevType /\ Apart(d, e) /\ e.psize = MaxPacketSize
            /\ e.state \in {"IN_DATA", "LAST_IN_DATA", "WAIT_STATUS_OUT"}
<1>1. CASE d.wLength > 0 \/ d.state # "LAST_IN_DATA"
  BY <1>1, NextPacketFacts DEF DataStageIn
<1>2. CASE ~(d.wLength > 0) /\ d.state = "LAST_IN_DATA"
  <2>1. d.wLength = 0
    BY <1>2 DEF DevType
  <2> QED
    BY <1>2, <2>1, DataInFacts
<1> QED
  BY <1>1, <1>2

\* The host has taken a packet.
LEMMA ProcessIn ==
  ASSUME IInv, Process, isr.dir = "tx" PROVE IInv'
<1> DEFINE q == host.q
           x == In0_Process(dev)
<1>1. /\ TypeOK /\ dev \in DevType /\ host \in HostType /\ q \in Request /\ q.value \in Nat /\ host.n \in Nat
      /\ ep0.out = q /\ ~SetupPending /\ dev.q = q /\ "tx" \in ep0.ctr /\ isr.at = "entered"
  BY DEF IInv, TypeOK, HostType, Request, Process, ResetsServed, Current, SetupPending
<1>2. /\ dev' = Post0_Process(x) /\ host' = host /\ faults' = faults
      /\ isr' = [isr EXCEPT !.at = "rest"]
      /\ ep0' = [ep0 EXCEPT !.rx = dev'.r, !.tx = dev'.t, !.ctr = @ \ {"tx"}]
  BY <1>1 DEF Process
<1>3. /\ x \in DevType /\ x.q = q /\ x.conf = dev.conf /\ x.wakeup = dev.wakeup /\ x.line = dev.line
      /\ x.ep4 = dev.ep4 /\ x.psize = dev.psize
      /\ x.state \in {"IN_DATA", "LAST_IN_DATA", "WAIT_STATUS_OUT", "STALLED"}
      /\ x.daddr = IF dev.state = "WAIT_STATUS_IN" /\ q.req = "SET_ADDRESS" THEN q.value ELSE dev.daddr
      /\ dev.state \in {"IN_DATA", "LAST_IN_DATA"} => x = DataStageIn(dev) /\ dev.psize = MaxPacketSize
      /\ dev.state \notin {"IN_DATA", "LAST_IN_DATA"} => x.state = "STALLED"
  <2>1. CASE dev.state \in {"IN_DATA", "LAST_IN_DATA"}
    <3>1. dev.psize = MaxPacketSize
      BY <1>1, <2>1 DEF IInv, Current
    <3> QED
      BY <1>1, <2>1, <3>1, InDataFacts DEF In0_Process, Apart
  <2>2. CASE dev.state = "WAIT_STATUS_IN" /\ q.req = "SET_ADDRESS"
    <3> DEFINE y == [dev EXCEPT !.daddr = q.value]
    <3>1. y \in DevType /\ y.q = q /\ y.conf = dev.conf /\ y.wakeup = dev.wakeup /\ y.line = dev.line
          /\ y.ep4 = dev.ep4 /\ y.psize = dev.psize /\ y.daddr = q.value
      BY <1>1 DEF DevType
    <3>2. x = Stalled(y)
      BY <1>1, <2>2 DEF In0_Process
    <3> HIDE DEF y
    <3> QED
      BY <2>2, <3>1, <3>2, StalledFacts DEF Apart
  <2>3. CASE dev.state \notin {"IN_DATA", "LAST_IN_DATA"} /\ ~(dev.state = "WAIT_STATUS_IN" /\ q.req = "SET_ADDRESS")
    <3>1. x = Stalled(dev)
      BY <1>1, <2>3 DEF In0_Process
    <3> QED
      BY <1>1, <2>3, <3>1, StalledFacts DEF Apart
  <2> QED
    BY <2>1, <2>2, <2>3
<1> HIDE DEF x
<1>4. /\ dev' \in DevType /\ Apart(x, dev') /\ dev'.state = x.state /\ dev'.psize = x.psize
      /\ x.state # "STALLED" => dev' = x
  BY <1>2, <1>3, PostFacts
<1>5. /\ isr'.at = "rest" /\ isr'.reset = isr.reset /\ isr'.setup = isr.setup
      /\ ep0'.rx = dev'.r /\ ep0'.tx = dev'.t /\ ep0'.ctr = ep0.ctr \ {"tx"} /\ ep0'.out = q
  BY <1>1, <1>2 DEF TypeOK
<1>6. TypeOK'
  BY <1>1, <1>2, <1>4 DEF TypeOK, DevType
<1>7. ~SetupPending'
  BY <1>1, <1>5 DEF SetupPending
<1>8. Halted(dev') = Halted(dev)
  BY <1>3, <1>4 DEF Halted, Apart
<1>9. ResetsServed'
  BY <1>1, <1>2, <1>3, <1>4, <1>5 DEF IInv, ResetsServed, Apart
<1>10. Current'
  BY <1>1, <1>2, <1>3, <1>4, <1>5, <1>7 DEF IInv, Current, Apart
<1>11. host.ph # "reset" => \A f \in Parts : Holds[f] \in host.knows[f] /\ Holds'[f] \in host.knows[f]
  BY <1>3, <1>4, <1>8 DEF IInv, Knowing, Holds, Parts, Apart
<1>12. Knowing'
  BY <1>1, <1>2, <1>3, <1>4, <1>5, <1>11 DEF IInv, Knowing, Apart
<1>13. Progress'
  <2>1. CASE host.ph \in {"idle", "reset"}
    BY <1>2, <1>7, <2>1 DEF Progress
  <2>2. CASE host.ph = "in"
    <3>1. Sending /\ Fetched /\ host.result = "none" /\ q.req \in Reads
      BY <1>1, <2>2 DEF IInv, Progress, Refusal, Sending, Armed
    <3>2. dev.psize = MaxPacketSize /\ dev.state \in {"IN_DATA", "LAST_IN_DATA"} /\ dev.r = "VALID"
          /\ x = DataStageIn(dev) /\ ep0.ctr = {"tx"} /\ Amounts(host.n, dev.wLength)
          /\ MaxPacketSize <= host.n /\ host.n < q.len /\ (Defined(q) => Some(q))
      BY <1>1, <1>3, <3>1 DEF Sending, Fetched
    <3>3. ep0'.ctr = {}
      BY <1>5, <3>2
    <3>4. dev.wLength \in Nat /\ q.len \in Nat
      BY <1>1 DEF DevType, Request
    <3>5. CASE dev.wLength > 0
      <4>1. x = NextPacket(dev)
        BY <3>2, <3>5 DEF DataStageIn
      <4>2. x.r = "VALID" /\ x.t = "VALID" /\ x.state \in {"IN_DATA", "LAST_IN_DATA"}
        BY <1>1, <3>2, <4>1, NextPacketFacts
      <4>3. dev' = NextPacket(dev) /\ ep0'.tx = "VALID" /\ ep0'.rx = "VALID"
        BY <1>4, <1>5, <4>1, <4>2
      <4>4. /\ dev.conf \in host.knows.conf /\ dev.wakeup \in host.knows.wakeup
            /\ Halted(dev) \in host.knows.ep4 /\ dev.line \in host.knows.line
        BY <1>11, <2>2 DEF Holds, Parts
      <4>5. Armed'
        BY <1>1, <1>2, <3>2, <3>3, <3>5, <4>3, <4>4, NextArmed
      <4>6. Sending'
        BY <1>2, <1>3, <1>4, <1>5, <3>1, <3>2, <4>2, <4>3, <4>5 DEF Sending, Some, Defined
      <4> QED
        BY <1>2, <1>7, <2>2, <3>1, <4>6 DEF Progress
    <3>6. CASE dev.wLength = 0
      <4>1. dev.state = "LAST_IN_DATA" /\ host.n + dev.wLength = host.n
        BY <1>1, <3>2, <3>6 DEF Amounts
      <4>2. dev.mul
        <5>1. PICK k \in 0 .. host.n : host.n = k * MaxPacketSize
          BY <3>1 DEF Sending
        <5>2. host.n % MaxPacketSize = 0
          BY <5>1, ModMultiple, Consts
        <5>3. dev.mul \/ host.n = q.len \/ host.n < MaxPacketSize \/ host.n % MaxPacketSize # 0
          BY <3>2, <4>1 DEF Amounts
        <5> QED
          BY <1>1, <3>2, <3>4, <5>2, <5>3, Consts DEF DevType
      <4>3. x.state = "LAST_IN_DATA" /\ x.in = Zlp /\ x.t = "VALID" /\ x.r = "VALID" /\ x.wLength = 0
        BY <1>1, <3>2, <3>6, <4>1, <4>2, DataInFacts
      <4>4. dev' = x
        BY <1>4, <4>3
      <4>5. Defined(q) => host.n = Extent(q)
        BY <3>2, <4>1 DEF Amounts
      <4>6. Armed'
        BY <1>2, <1>5, <3>3, <4>3, <4>4, <4>5 DEF Armed, Defined, Extent
      <4>7. Sending'
        BY <1>2, <1>3, <1>4, <1>5, <3>1, <3>2, <4>3, <4>4, <4>6 DEF Sending, Some, Defined
      <4> QED
        BY <1>2, <1>7, <2>2, <3>1, <4>7 DEF Progress
    <3> QED
      BY <3>4, <3>5, <3>6
  <2>3. CASE host.ph = "status_out"
    <3>1. Ending /\ host.result = "none" /\ q.req \in Reads
      BY <1>1, <2>3 DEF IInv, Progress
    <3>2. dev.psize = MaxPacketSize /\ dev.wLength = 0 /\ dev.state = "LAST_IN_DATA" /\ dev.r = "VALID"
          /\ x = DataStageIn(dev) /\ "rx" \notin ep0.ctr
      BY <1>1, <1>3, <3>1 DEF Ending
    <3>3. /\ x.wLength = 0 /\ x.r = "VALID" /\ x.state \in {"LAST_IN_DATA", "WAIT_STATUS_OUT"}
      BY <1>1, <3>2, DataInFacts
    <3>4. dev' = x /\ ep0'.ctr = ep0.ctr \ {"tx"}
      BY <1>4, <1>5, <3>3
    <3>5. Ending'
      BY <1>2, <1>3, <1>5, <3>1, <3>2, <3>3, <3>4 DEF Ending, Some, Defined, Extent
    <3> QED
      BY <1>2, <1>7, <2>3, <3>1, <3>5 DEF Progress
  <2>4. host.ph \in {"idle", "reset", "in", "status_out"}
    BY <1>1 DEF IInv, TypeOK, HostType, Progress, Refusal, Performing
  <2> QED
    BY <2>1, <2>2, <2>3, <2>4
<1> QED
  BY <1>2, <1>6, <1>9, <1>10, <1>12, <1>13, HostSame DEF IInv

LEMMA EnterInv == ASSUME IInv, Enter PROVE IInv'
<1>1. /\ TypeOK /\ isr.at = "idle" /\ ep0.ctr # {} /\ ep0.ctr \subseteq {"rx", "tx"} /\ dev \in DevType
      /\ ep0.rx \in Status /\ ep0.tx \in Status
  BY DEF IInv, TypeOK, Enter
<1>2. /\ isr'.at = "entered" /\ isr'.dir = (IF "rx" \in ep0.ctr THEN "rx" ELSE "tx")
      /\ isr'.reset = faults.pending /\ isr'.setup = isr.setup
      /\ ep0' = ep0 /\ host' = host /\ faults' = faults
  BY <1>1 DEF Enter, TypeOK
<1>3. /\ dev' \in DevType /\ Apart(dev, dev') /\ dev'.r = ep0.rx /\ dev'.t = ep0.tx
      /\ dev'.state = dev.state /\ dev'.wLength = dev.wLength /\ dev'.wOffset = dev.wOffset /\ dev'.copy = dev.copy
      /\ dev'.mul = dev.mul /\ dev'.psize = dev.psize /\ dev'.in = dev.in /\ Halted(dev') = Halted(dev)
  BY <1>1 DEF Enter, DevType, Apart, Halted
<1>4. TypeOK'
  BY <1>1, <1>2, <1>3 DEF TypeOK, Enter
<1>5. ResetsServed'
  BY <1>1, <1>2, <1>3 DEF IInv, ResetsServed, Apart
<1>6. SetupPending' <=> SetupPending
  BY <1>2 DEF SetupPending
<1>7. Current'
  BY <1>2, <1>3, <1>6 DEF IInv, Current, Apart
<1>8. Holds' = Holds
  BY <1>3 DEF Holds, Apart
<1>9. Knowing'
  BY <1>2, <1>3, <1>8 DEF IInv, Knowing, Apart
<1>10. (Refusal => Refusal') /\ (Performing => Performing')
  BY <1>2, <1>3, <1>8 DEF Refusal, NotAll, Performing, Sure, Part, Value
<1>11. (Armed => Armed') /\ (Fetched => Fetched')
  BY <1>2, <1>3 DEF Armed, Fetched, Amounts, Answers
<1>12. (Sending => Sending') /\ (Ending => Ending')
  BY <1>2, <1>3, <1>11 DEF Sending, Ending, Some
<1>13. Unseen => Unseen'
  BY <1>2, <1>3 DEF Unseen, Part
<1>14. Progress'
  BY <1>2, <1>3, <1>6, <1>10, <1>12, <1>13 DEF IInv, Progress
<1> QED
  BY <1>2, <1>4, <1>5, <1>7, <1>9, <1>14, HostSame DEF IInv

\* A reset leaves nothing of the device but the line coding.
LEMMA ResetInv ==
  ASSUME IInv, Reset, host.ph = "reset", host' = host, isr'.at = "idle", ~isr'.reset, isr'.setup = isr.setup,
         TypeOK', "rx" \notin ep0.ctr, "tx" \in ep0.ctr => dev.state = "STALLED"
  PROVE  IInv'
<1>1. /\ TypeOK /\ dev \in DevType
  BY DEF IInv, TypeOK
<1>2. /\ dev'.conf = 0 /\ dev'.wakeup = 0 /\ dev'.ep4 = "NAK" /\ dev'.daddr = 0
      /\ dev'.q = dev.q /\ dev'.state = dev.state /\ dev'.wLength = dev.wLength /\ dev'.psize = dev.psize
      /\ dev'.line = dev.line
      /\ ep0'.ctr = ep0.ctr /\ ep0'.out = ep0.out /\ ~faults'.pending
  BY <1>1 DEF Reset, USBD_Reset, TypeOK, DevType
<1>3. ResetsServed'
  BY <1>1, <1>2 DEF IInv, ResetsServed
<1>4. SetupPending' <=> SetupPending
  BY <1>2 DEF SetupPending
<1>5. Current'
  BY <1>2, <1>4 DEF IInv, Current
<1>6. Knowing'
  BY <1>2 DEF IInv, Knowing
<1>7. Progress'
  BY <1>2 DEF Progress
<1> QED
  BY <1>3, <1>5, <1>6, <1>7, HostSame DEF IInv

LEMMA ResetType == ASSUME TypeOK, Reset, host' = host,
  isr' \in [at : {"idle", "entered", "rest"}, dir : {"rx", "tx"}, reset : BOOLEAN, setup : BOOLEAN]
  PROVE TypeOK'
BY DEF TypeOK, Reset, USBD_Reset, DevType, Status

LEMMA RestInv == ASSUME IInv, Rest PROVE IInv'
<1>1. TypeOK /\ isr.at = "rest" /\ isr'.at = "idle" /\ ~isr'.reset /\ isr'.setup = isr.setup /\ host' = host
      /\ isr' \in [at : {"idle", "entered", "rest"}, dir : {"rx", "tx"}, reset : BOOLEAN, setup : BOOLEAN]
  BY DEF IInv, TypeOK, Rest
<1>2. CASE isr.reset
  <2>1. Reset /\ host.ph = "reset" /\ "rx" \notin ep0.ctr /\ ("tx" \in ep0.ctr => dev.state = "STALLED")
    BY <1>1, <1>2 DEF IInv, ResetsServed, Rest
  <2> QED
    BY <1>1, <2>1, ResetType, ResetInv
<1>3. CASE ~isr.reset
  <2>1. dev' = dev /\ ep0' = ep0 /\ faults' = faults
    BY <1>3 DEF Rest
  <2>2. TypeOK' /\ ResetsServed'
    BY <1>1, <2>1 DEF IInv, TypeOK, ResetsServed
  <2>3. SetupPending' <=> SetupPending
    BY <1>1, <2>1 DEF SetupPending
  <2>4. Current' /\ Knowing'
    BY <1>1, <2>1, <2>3 DEF IInv, Current, Knowing, Holds
  <2>5. (Refusal => Refusal') /\ (Performing => Performing') /\ (Unseen => Unseen')
    BY <1>1, <2>1 DEF Refusal, NotAll, Performing, Sure, Part, Holds, Unseen
  <2>6. (Armed => Armed') /\ (Fetched => Fetched')
    BY <1>1, <2>1 DEF Armed, Fetched, Amounts, Answers
  <2>7. (Sending => Sending') /\ (Ending => Ending')
    BY <1>1, <2>1, <2>6 DEF Sending, Ending, Some
  <2>8. Progress'
    BY <1>1, <2>1, <2>3, <2>5, <2>7 DEF IInv, Progress
  <2> QED
    BY <1>1, <2>2, <2>4, <2>8, HostSame DEF IInv
<1> QED
  BY <1>2, <1>3

LEMMA OnlyResetInv == ASSUME IInv, OnlyReset PROVE IInv'
<1>1. /\ TypeOK /\ isr.at = "idle" /\ isr' = isr /\ host' = host /\ ep0.ctr = {} /\ faults.pending /\ Reset
  BY DEF IInv, OnlyReset
<1>2. host.ph = "reset" /\ ~isr.reset
  BY <1>1 DEF IInv, ResetsServed
<1>3. TypeOK'
  BY <1>1, ResetType DEF TypeOK
<1> QED
  BY <1>1, <1>2, <1>3, ResetInv

-----------------------------------------------------------------------------
(* The steps of the host.                                                  *)

\* What a request may make of a part is a value of that part.
LEMMA PartValue ==
  ASSUME NEW q \in Request
  PROVE  /\ Part(q) \subseteq Parts
         /\ \A f \in Part(q) : Value(q) \in IF f = "line" THEN Nat ELSE {0, 1}
         /\ q.req = "SET_LINE_CODING" => Part(q) = {"line"} /\ Value(q) = q.value
         /\ q.req \in Reads \cup {"SET_ADDRESS"} => Part(q) = {}
<1>1. q.value \in Nat /\ (q.value <= 1 => q.value \in {0, 1})
  BY DEF Request
<1> QED
  BY <1>1 DEF Part, Value, Parts, Reads

\* A bus reset is not seen before the host has left it.
LEMMA NoReset ==
  ASSUME IInv, host.ph # "reset" PROVE ~faults.pending /\ ~isr.reset
BY DEF IInv, TypeOK, ResetsServed

LEMMA SetupInv ==
  ASSUME IInv, NEW q \in Requests, Setup(q) PROVE IInv'
<1> DEFINE k == [f \in DOMAIN host.knows |-> IF f \in Part(q) THEN host.knows[f] \cup {Value(q)} ELSE host.knows[f]]
<1>1. TypeOK /\ q \in Request /\ WellFormed(q) /\ isr.at = "idle" /\ ep0.ctr = {} /\ ~faults.pending /\ May(q)
      /\ host.ph # "reset" /\ dev.daddr = host.addr /\ host \in HostType /\ host.knows \in Knowledge
      /\ q.len \in Nat /\ q.value \in Nat
  BY RequestsAssumption DEF IInv, TypeOK, HostType, Setup, Quiet, Request
<1>2. ~isr.reset
  BY <1>1, NoReset
<1>3. DOMAIN host.knows = Parts
  BY <1>1 DEF Knowledge, Parts
<1>4. /\ k \in Knowledge
      /\ \A f \in Parts : host.knows[f] \subseteq k[f] /\ (f \in Part(q) => Value(q) \in k[f])
      /\ \A f \in Parts \ Part(q) : k[f] = host.knows[f]
  <2>1. \A f \in Parts : k[f] = IF f \in Part(q) THEN host.knows[f] \cup {Value(q)} ELSE host.knows[f]
    BY <1>3
  <2>2. k = [conf |-> k.conf, wakeup |-> k.wakeup, ep4 |-> k.ep4, line |-> k.line]
    BY <1>3 DEF Parts
  <2>3. k.conf \subseteq {0, 1} /\ k.wakeup \subseteq {0, 1} /\ k.ep4 \subseteq {0, 1} /\ k.line \subseteq Nat
    BY <1>1, <2>1, PartValue DEF Parts, Knowledge
  <2> HIDE DEF k
  <2> QED
    BY <2>1, <2>2, <2>3 DEF Knowledge
<1>5. /\ host' = [host EXCEPT !.ph = Phase(q), !.q = q, !.got = <<>>, !.n = 0, !.result = "none", !.knows = k]
      /\ ep0' = [rx |-> "NAK", tx |-> "NAK", ctr |-> {"rx"}, out |-> q]
      /\ isr' = [isr EXCEPT !.setup = TRUE] /\ dev' = dev /\ (faults' = faults \/ (faults.n < MaxFaults /\ faults' = [faults EXCEPT !.n = @ + 1]))
  BY DEF Setup
<1> HIDE DEF k
<1>6. /\ host'.ph = Phase(q) /\ host'.q = q /\ host'.got = <<>> /\ host'.n = 0 /\ host'.result = "none"
      /\ host'.knows = k /\ host'.read = host.read /\ host'.addr = host.addr
      /\ isr'.at = "idle" /\ ~isr'.reset /\ isr'.setup /\ ~faults'.pending
  BY <1>1, <1>2, <1>5 DEF HostType, TypeOK
<1>7. host'.ph \in {"in", "out", "status_in"} /\ (host'.ph = "in" <=> q.req \in Reads)
  <2>1. q.req \in Reads => q.len > 0
    BY <1>1 DEF WellFormed, WithData, Reads
  <2> QED
    BY <1>1, <1>6, <2>1 DEF Phase
<1>8. TypeOK'
  <2>1. host' \in HostType
    <3>1. <<>> \in Seq([packet : InPacket, at : Nat]) /\ 0 \in Nat
      OBVIOUS
    <3>2. Phase(q) \in {"in", "out", "status_in"}
      BY <1>6, <1>7
    <3> HIDE DEF InPacket
    <3> QED
      BY <1>1, <1>4, <1>5, <3>1, <3>2 DEF HostType
  <2>2. faults' \in [n : 0 .. MaxFaults, pending : BOOLEAN]
    BY <1>1, <1>5, BoundAssumption DEF TypeOK
  <2> QED
    BY <1>1, <1>5, <2>1, <2>2 DEF TypeOK, Status
<1>9. SetupPending'
  BY <1>5, <1>6 DEF SetupPending
<1>10. ResetsServed'
  BY <1>5, <1>6, <1>7 DEF ResetsServed
<1>11. Current'
  <2>1. q.req = "SET_LINE_CODING" => host.read /\ q.value \in k.line
    BY <1>1, <1>4, PartValue DEF May, Parts
  <2> QED
    BY <1>1, <1>5, <1>6, <1>9, <2>1 DEF IInv, Current
<1>12. Knowing'
  <2>1. \A f \in Parts : Holds[f] \in host.knows[f]
    BY <1>1 DEF IInv, Knowing
  <2>2. Holds' = Holds
    BY <1>5 DEF Holds
  <2>3. \A f \in Parts : Holds'[f] \in k[f]
    BY <1>4, <2>1, <2>2
  <2>4. dev'.line \in k.line
    BY <2>3 DEF Parts, Holds
  <2> QED
    BY <1>1, <1>5, <1>6, <2>3, <2>4 DEF Knowing
<1>13. Unseen'
  <2>1. Part(q)' \subseteq Part(q)
    BY <1>4, <1>6, PartValue DEF Part, Parts
  <2>2. \A f \in Part(q)' : Value(q) \in k[f]
    BY <1>1, <1>4, <2>1, PartValue
  <2>3. q.req = "SET_ADDRESS" => k.conf = {0}
    BY <1>1, <1>4, PartValue DEF May, Parts
  <2>4. Phase(q)' = Phase(q) /\ Value(q)' = Value(q)
    BY DEF Phase, Value
  <2> QED
    BY <1>5, <1>6, <2>2, <2>3, <2>4 DEF Unseen
<1>14. Progress'
  BY <1>6, <1>7, <1>9, <1>13 DEF Progress
<1>15. Results'
  BY <1>6 DEF Results
<1> QED
  BY <1>8, <1>10, <1>11, <1>12, <1>14, <1>15 DEF IInv

\* The host takes a packet of a read.
LEMMA HostInInv == ASSUME IInv, HostIn PROVE IInv'
<1> DEFINE q == host.q
           p == dev.in
           n == host.n + p.len
           g == [packet |-> p, at |-> host.n]
           more == p.len = MaxPacketSize /\ n < q.len
<1>1. /\ TypeOK /\ dev \in DevType /\ host \in HostType /\ q \in Request /\ q.len \in Nat /\ host.n \in Nat
      /\ p \in InPacket /\ p.len \in 0 .. MaxPacketSize /\ dev.wLength \in Nat /\ host.ph = "in" /\ ep0.tx = "VALID"
      /\ ~SetupPending /\ dev.q = q /\ host.got \in Seq([packet : InPacket, at : Nat])
      /\ ep0.ctr \subseteq {"rx", "tx"}
  <2>1. /\ TypeOK /\ dev \in DevType /\ host \in HostType /\ host.ph = "in" /\ ep0.tx = "VALID"
        /\ ep0.ctr \subseteq {"rx", "tx"}
    BY DEF IInv, HostIn, TypeOK
  <2>2. ~SetupPending
    BY <2>1 DEF IInv, Progress, Unseen
  <2> QED
    BY <2>1, <2>2 DEF IInv, HostType, DevType, InPacket, Request, Current
<1>2. Sending /\ Armed /\ host.result = "none" /\ q.req \in Reads
  BY <1>1 DEF IInv, Progress, Refusal, Sending, Fetched
<1>3. /\ dev.psize = MaxPacketSize /\ dev.state \in {"IN_DATA", "LAST_IN_DATA"} /\ ep0.rx = "VALID"
      /\ ep0.ctr = {} /\ (Defined(q) => Some(q))
  BY <1>2 DEF Sending, Armed
<1>4. ~faults.pending /\ ~isr.reset /\ isr.at # "entered"
  BY <1>1, <1>3, NoReset DEF IInv, ResetsServed
<1>5. n \in Nat
  BY <1>1
<1> HIDE DEF n
<1>6. /\ dev' = dev /\ isr' = isr /\ faults' = faults
      /\ ep0' = [ep0 EXCEPT !.tx = "NAK", !.ctr = @ \cup {"tx"}]
      /\ host' = [host EXCEPT !.got = Append(@, g), !.n = n, !.ph = IF more THEN @ ELSE "status_out"]
  <2>1. p.len < MaxPacketSize \/ n >= q.len <=> ~more
    BY <1>1, <1>5, Consts
  <2> QED
    BY <1>1, <2>1 DEF HostIn, Taken, n
<1>7. /\ host'.ph = (IF more THEN "in" ELSE "status_out") /\ host'.q = q /\ host'.got = Append(host.got, g)
      /\ host'.n = n /\ host'.addr = host.addr /\ host'.knows = host.knows /\ host'.result = "none"
      /\ host'.read = host.read
      /\ ep0'.rx = "VALID" /\ ep0'.tx = "NAK" /\ ep0'.ctr = {"tx"} /\ ep0'.out = ep0.out
  BY <1>1, <1>2, <1>3, <1>6 DEF HostType, TypeOK
<1>8. TypeOK'
  <2>1. g \in [packet : InPacket, at : Nat]
    BY <1>1
  <2>2. Append(host.got, g) \in Seq([packet : InPacket, at : Nat])
    BY <1>1, <2>1
  <2>3. host' \in HostType
    <3> HIDE DEF g, more, InPacket
    <3> QED
      BY <1>1, <1>5, <1>6, <2>2 DEF HostType
  <2> QED
    BY <1>1, <1>6, <2>3 DEF TypeOK, Status
<1> HIDE DEF g
<1>9. ~SetupPending'
  BY <1>7 DEF SetupPending
<1>10. ResetsServed'
  BY <1>4, <1>6, <1>7 DEF IInv, ResetsServed
<1>11. Current'
  BY <1>1, <1>3, <1>6, <1>7, <1>9 DEF IInv, Current
<1>12. Knowing'
  BY <1>1, <1>3, <1>6, <1>7 DEF IInv, Knowing, Holds
<1>13. /\ ~more => dev.state = "LAST_IN_DATA" /\ dev.wLength = 0 /\ (Defined(q) => n = Extent(q))
       /\ more => Amounts(n, dev.wLength)
       /\ Defined(q) => p = Zlp \/ (p.of \in Answers(q) /\ p.from = host.n)
  <2>1. CASE p = Zlp /\ dev.state = "LAST_IN_DATA" /\ dev.wLength = 0 /\ (Defined(q) => host.n = Extent(q))
    BY <1>1, <2>1, ZlpType, Consts DEF n
  <2>2. CASE /\ Amounts(n, dev.wLength)
             /\ dev.state = "IN_DATA" => p.len = MaxPacketSize
             /\ Defined(q) => p.of \in Answers(q) /\ p.from = host.n
    <3>1. n + dev.wLength <= q.len /\ (dev.state = "IN_DATA" => dev.wLength > 0)
          /\ (dev.state = "LAST_IN_DATA" => dev.wLength = 0)
          /\ (Defined(q) => n + dev.wLength = Extent(q))
      BY <2>2 DEF Amounts
    <3>2. dev.state = "IN_DATA" => more
      BY <1>1, <1>5, <2>2, <3>1
    <3>3. dev.wLength = 0 => n + dev.wLength = n
      BY <1>5
    <3> QED
      BY <1>3, <2>2, <3>1, <3>2, <3>3
  <2> QED
    BY <1>2, <2>1, <2>2 DEF Armed, n
<1>14. Progress'
  <2>1. CASE ~more
    <3>1. Ending'
      BY <1>3, <1>4, <1>6, <1>7, <1>13, <2>1 DEF Ending, Some, Defined, Extent
    <3> QED
      BY <1>2, <1>7, <1>9, <2>1, <3>1 DEF Progress
  <2>2. CASE more
    <3>1. Amounts(host.n, dev.wLength)'
      BY <1>6, <1>7, <1>13, <2>2 DEF Amounts, Defined, Extent
    <3>2. PICK k \in 0 .. host.n : host.n = k * MaxPacketSize
      BY <1>2 DEF Sending
    <3>3. k + 1 \in 0 .. n /\ n = (k + 1) * MaxPacketSize /\ MaxPacketSize <= n
      <4>1. \A a, m \in Nat : (a + 1) * m = a * m + m
        OBVIOUS
      <4>2. k \in Nat /\ (k + 1) * MaxPacketSize = k * MaxPacketSize + MaxPacketSize
        BY <1>1, <4>1, Consts
      <4>3. n = host.n + MaxPacketSize
        BY <2>2 DEF n
      <4>4. n = (k + 1) * MaxPacketSize
        BY <3>2, <4>2, <4>3
      <4> QED
        BY <1>1, <4>2, <4>3, <4>4, Consts
    <3>4. Fetched'
      BY <1>6, <1>7, <2>2, <3>1, <3>3 DEF Fetched
    <3>5. Sending'
      BY <1>3, <1>4, <1>6, <1>7, <3>3, <3>4 DEF Sending, Some, Defined
    <3> QED
      BY <1>2, <1>7, <1>9, <2>2, <3>5 DEF Progress
  <2> QED
    BY <2>1, <2>2
<1>15. Results'
  <2>1. Answers(q)' = Answers(q)
    BY <1>7 DEF Answers
  <2>2. \A i \in DOMAIN Append(host.got, g) :
          \/ i \in DOMAIN host.got /\ Append(host.got, g)[i] = host.got[i]
          \/ Append(host.got, g)[i] = g
    BY <1>1, AppendProperties DEF g
  <2>3. g.packet = p /\ g.at = host.n
    BY DEF g
  <2>4. Defined(q) => \A i \in DOMAIN host.got :
          LET y == host.got[i]
          IN y.packet = Zlp \/ (y.packet.of \in Answers(q) /\ y.packet.from = y.at)
    BY <1>1 DEF IInv, Results
  <2>5. Defined(q) => \A i \in DOMAIN host'.got :
          LET y == host'.got[i]
          IN y.packet = Zlp \/ (y.packet.of \in Answers(q) /\ y.packet.from = y.at)
    BY <1>7, <1>13, <2>2, <2>3, <2>4
  <2> QED
    BY <1>7, <2>1, <2>5 DEF Results, Defined
<1> QED
  BY <1>8, <1>10, <1>11, <1>12, <1>14, <1>15 DEF IInv

LEMMA HostOutInv == ASSUME IInv, HostOut PROVE IInv'
<1>1. /\ TypeOK /\ host \in HostType /\ host.q \in Request /\ host.ph = "out" /\ ep0.rx = "VALID"
  BY DEF IInv, HostOut, TypeOK, HostType
<1>2. /\ ~SetupPending /\ dev.state = "OUT_DATA" /\ ep0.tx = "NAK" /\ ep0.ctr = {} /\ host.result = "none"
      /\ host.q.req \notin Reads
  BY <1>1 DEF IInv, Progress, Unseen, Refusal
<1>3. ~faults.pending /\ ~isr.reset /\ isr.at # "entered"
  BY <1>1, <1>2, NoReset DEF IInv, ResetsServed
<1>4. /\ dev' = dev /\ faults' = faults /\ isr'.at = isr.at /\ isr'.reset = isr.reset /\ ~isr'.setup
      /\ ep0'.rx = "NAK" /\ ep0'.tx = "NAK" /\ ep0'.ctr = {"rx"} /\ ep0'.out = host.q
      /\ host' = [host EXCEPT !.ph = "status_in"]
  BY <1>1, <1>2 DEF HostOut, Sent, TypeOK
<1>5. /\ host'.ph = "status_in" /\ host'.q = host.q /\ host'.got = host.got /\ host'.n = host.n
      /\ host'.addr = host.addr /\ host'.knows = host.knows /\ host'.result = "none" /\ host'.read = host.read
  BY <1>1, <1>2, <1>4 DEF HostType
<1>6. TypeOK'
  BY <1>1, <1>4 DEF TypeOK, HostType, HostOut, Sent, Status
<1>7. ~SetupPending'
  BY <1>4 DEF SetupPending
<1>8. ResetsServed'
  BY <1>3, <1>4, <1>5 DEF ResetsServed
<1>9. Current'
  BY <1>2, <1>4, <1>5, <1>7 DEF IInv, Current
<1>10. Knowing'
  BY <1>1, <1>2, <1>4, <1>5 DEF IInv, Knowing, Holds
<1>11. Progress'
  BY <1>2, <1>4, <1>5, <1>7 DEF Progress
<1>12. Results'
  BY <1>5 DEF Results
<1> QED
  BY <1>6, <1>8, <1>9, <1>10, <1>11, <1>12 DEF IInv

\* What the end of a request leaves of what the host knows.
LEMMA DoneFacts ==
  ASSUME TypeOK, NEW res \in {"ok", "stall"}
  PROVE  LET h == Done(res)
             sure == res = "ok" /\ Sure(host.q)
         IN /\ h \in HostType /\ h.ph = "idle" /\ h.q = host.q /\ h.got = host.got /\ h.n = host.n
            /\ h.result = res
            /\ h.read = (host.read \/ (res = "ok" /\ host.q.req \in Reads))
            /\ h.addr = IF res = "ok" /\ host.q.req = "SET_ADDRESS" THEN host.q.value ELSE host.addr
            /\ \A f \in Parts : h.knows[f] = IF sure /\ f \in Part(host.q) THEN {Value(host.q)} ELSE host.knows[f]
            /\ (sure /\ Part(host.q) # {}) \/ h.knows = host.knows
<1> DEFINE q == host.q
           sure == res = "ok" /\ Sure(q)
           k == [f \in DOMAIN host.knows |-> IF res = "ok" /\ f \in Part(q) /\ Sure(q) THEN {Value(q)} ELSE host.knows[f]]
           r == host.read \/ (res = "ok" /\ q.req \in Reads)
           a == IF res = "ok" /\ q.req = "SET_ADDRESS" THEN q.value ELSE host.addr
<1>1. host \in HostType /\ q \in Request /\ q.value \in Nat /\ host.knows \in Knowledge
      /\ DOMAIN host.knows = Parts
  BY DEF TypeOK, HostType, Request, Knowledge, Parts
<1>2. \A f \in Parts : k[f] = IF sure /\ f \in Part(q) THEN {Value(q)} ELSE host.knows[f]
  BY <1>1
<1>3. k \in Knowledge
  <2>1. k = [conf |-> k.conf, wakeup |-> k.wakeup, ep4 |-> k.ep4, line |-> k.line]
    BY <1>1 DEF Parts
  <2>2. k.conf \subseteq {0, 1} /\ k.wakeup \subseteq {0, 1} /\ k.ep4 \subseteq {0, 1} /\ k.line \subseteq Nat
    BY <1>1, <1>2, PartValue DEF Parts, Knowledge
  <2> HIDE DEF k
  <2> QED
    BY <2>1, <2>2 DEF Knowledge
<1>4. (sure /\ Part(q) # {}) \/ k = host.knows
  <2>1. ~(sure /\ Part(q) # {}) => \A f \in Parts : k[f] = host.knows[f]
    BY <1>2
  <2>2. host.knows = [conf |-> host.knows.conf, wakeup |-> host.knows.wakeup, ep4 |-> host.knows.ep4,
                      line |-> host.knows.line]
    BY <1>1 DEF Knowledge
  <2>3. k = [conf |-> k.conf, wakeup |-> k.wakeup, ep4 |-> k.ep4, line |-> k.line]
    BY <1>1 DEF Parts
  <2> HIDE DEF k
  <2> QED
    BY <2>1, <2>2, <2>3 DEF Parts
<1>5. Done(res) = [host EXCEPT !.ph = "idle", !.result = res, !.read = r, !.addr = a, !.knows = k]
  BY DEF Done
<1>6. r \in BOOLEAN /\ a \in Nat
  BY <1>1 DEF HostType
<1> HIDE DEF k, r, a, InPacket
<1>7. Done(res) \in HostType
  BY <1>1, <1>3, <1>5, <1>6 DEF HostType
<1>8. /\ Done(res).ph = "idle" /\ Done(res).q = q /\ Done(res).got = host.got /\ Done(res).n = host.n
      /\ Done(res).result = res /\ Done(res).read = r /\ Done(res).addr = a /\ Done(res).knows = k
  BY <1>1, <1>5 DEF HostType
<1> QED
  BY <1>2, <1>4, <1>7, <1>8 DEF r, a

LEMMA HostStatusInInv == ASSUME IInv, HostStatusIn PROVE IInv'
<1> DEFINE q == host.q
<1>1. /\ TypeOK /\ host \in HostType /\ q \in Request /\ host.ph = "status_in" /\ ep0.tx = "VALID"
  BY DEF IInv, HostStatusIn, TypeOK, HostType
<1>2. /\ ~SetupPending /\ Performing /\ host.result = "none" /\ q.req \notin Reads
  BY <1>1 DEF IInv, Progress, Unseen, Refusal
<1>3. dev.state = "WAIT_STATUS_IN" /\ ep0.ctr = {} /\ dev.in = Zlp /\ dev.q = q
      /\ (Sure(q) => \A f \in Part(q) : Holds[f] = Value(q))
  BY <1>2 DEF Performing, IInv, Current
<1>4. ~faults.pending /\ ~isr.reset /\ isr.at # "entered"
  BY <1>1, <1>3, NoReset DEF IInv, ResetsServed
<1>5. /\ dev' = dev /\ isr' = isr /\ faults' = faults /\ host' = Done("ok")
      /\ ep0' = [ep0 EXCEPT !.tx = "NAK", !.ctr = @ \cup {"tx"}]
  BY <1>3 DEF HostStatusIn, Taken
<1>6. /\ host' \in HostType /\ host'.ph = "idle" /\ host'.q = q /\ host'.result = "ok" /\ host'.read = host.read
      /\ host'.addr = (IF q.req = "SET_ADDRESS" THEN q.value ELSE host.addr)
      /\ \A f \in Parts : host'.knows[f] = IF Sure(q) /\ f \in Part(q) THEN {Value(q)} ELSE host.knows[f]
  BY <1>1, <1>2, <1>5, DoneFacts DEF HostType
<1>7. /\ ep0'.rx = ep0.rx /\ ep0'.ctr = {"tx"} /\ ep0'.out = ep0.out
  BY <1>1, <1>3, <1>5 DEF TypeOK
<1>8. TypeOK'
  BY <1>1, <1>5, <1>6 DEF TypeOK, Status
<1>9. ~SetupPending'
  BY <1>7 DEF SetupPending
<1>10. ResetsServed'
  BY <1>4, <1>5, <1>6, <1>7 DEF ResetsServed
<1>11. Current'
  <2>1. q.req = "SET_LINE_CODING" => q.value \in host'.knows.line
    <3>1. q.req = "SET_LINE_CODING" => q.value \in host.knows.line /\ Value(q) = q.value
      BY <1>1, PartValue DEF IInv, Current
    <3> QED
      BY <1>6, <3>1 DEF Parts
  <2> QED
    BY <1>3, <1>5, <1>6, <1>7, <1>9, <2>1 DEF IInv, Current
<1>12. Knowing'
  <2>1. \A f \in Parts : Holds[f] \in host.knows[f]
    BY <1>1 DEF IInv, Knowing
  <2>2. \A f \in Parts : Holds[f] \in host'.knows[f]
    BY <1>3, <1>6, <2>1
  <2>3. Holds' = Holds /\ dev.line \in host'.knows.line
    BY <1>5, <2>2 DEF Holds, Parts
  <2>4. dev.daddr = host.addr
    BY <1>1, <1>3 DEF IInv, Knowing
  <2> QED
    BY <1>3, <1>5, <1>6, <1>7, <2>2, <2>3, <2>4 DEF Knowing
<1>13. Progress'
  BY <1>6, <1>9 DEF Progress
<1>14. Results'
  BY <1>2, <1>6 DEF Results, Defined
<1> QED
  BY <1>8, <1>10, <1>11, <1>12, <1>13, <1>14 DEF IInv

LEMMA HostStatusOutInv == ASSUME IInv, HostStatusOut PROVE IInv'
<1> DEFINE q == host.q
<1>1. /\ TypeOK /\ host \in HostType /\ q \in Request /\ host.ph = "status_out" /\ ep0.rx = "VALID"
      /\ ep0.ctr \subseteq {"rx", "tx"}
  BY DEF IInv, HostStatusOut, TypeOK, HostType
<1>2. /\ ~SetupPending /\ Ending /\ host.result = "none" /\ q.req \in Reads
  BY <1>1 DEF IInv, Progress, Unseen
<1>3. /\ dev.psize = MaxPacketSize /\ dev.state \in {"LAST_IN_DATA", "WAIT_STATUS_OUT"} /\ dev.q = q
      /\ "tx" \in ep0.ctr => dev.state = "LAST_IN_DATA"
      /\ Defined(q) => Some(q) /\ host.n = Extent(q)
  BY <1>2 DEF Ending, IInv, Current
<1>4. ~faults.pending /\ ~isr.reset
  BY <1>1, NoReset
<1>5. /\ dev' = dev /\ faults' = faults /\ host' = Done("ok")
      /\ isr'.at = isr.at /\ isr'.dir = isr.dir /\ ~isr'.reset /\ ~isr'.setup
      /\ ep0'.ctr = ep0.ctr \cup {"rx"} /\ ep0'.out = q
  BY <1>1, <1>4 DEF HostStatusOut, Sent, TypeOK
<1>6. Part(q) = {} /\ q.req # "SET_ADDRESS"
  BY <1>1, <1>2, PartValue DEF Reads
<1>7. /\ host' \in HostType /\ host'.ph = "idle" /\ host'.q = q /\ host'.result = "ok" /\ host'.read
      /\ host'.addr = host.addr /\ host'.knows = host.knows /\ host'.got = host.got /\ host'.n = host.n
  BY <1>1, <1>2, <1>5, <1>6, DoneFacts
<1>8. TypeOK'
  BY <1>1, <1>5, <1>7 DEF TypeOK, HostStatusOut, Sent, Status
<1>9. ~SetupPending'
  BY <1>5 DEF SetupPending
<1>10. ResetsServed'
  BY <1>1, <1>3, <1>4, <1>5, <1>7 DEF IInv, ResetsServed
<1>11. Current'
  BY <1>1, <1>2, <1>3, <1>5, <1>7, <1>9 DEF IInv, Current, Reads
<1>12. Knowing'
  BY <1>1, <1>3, <1>5, <1>7 DEF IInv, Knowing, Holds
<1>13. Progress'
  BY <1>7, <1>9 DEF Progress
<1>14. Results'
  BY <1>1, <1>3, <1>7 DEF IInv, Results, Some, Answers, Defined, Extent
<1> QED
  BY <1>8, <1>10, <1>11, <1>12, <1>13, <1>14 DEF IInv

LEMMA HostStallInv == ASSUME IInv, HostStall PROVE IInv'
<1> DEFINE q == host.q
<1>1. /\ TypeOK /\ host \in HostType /\ host.ph \in {"in", "out", "status_in", "status_out"}
      /\ host.ph \in {"in", "status_in"} => ep0.tx = "STALL"
      /\ host.ph \in {"out", "status_out"} => ep0.rx = "STALL"
      /\ dev' = dev /\ ep0' = ep0 /\ isr' = isr /\ faults' = faults /\ host' = Done("stall")
  BY DEF IInv, HostStall, TypeOK
<1>2. /\ ~SetupPending /\ Refusal
  BY <1>1 DEF IInv, Progress, Unseen, Sending, Armed, Fetched, Ending, Performing
<1>3. /\ host' \in HostType /\ host'.ph = "idle" /\ host'.q = q /\ host'.result = "stall" /\ host'.read = host.read
      /\ host'.addr = host.addr /\ host'.knows = host.knows
  BY <1>1, DoneFacts DEF HostType
<1>4. TypeOK' /\ ResetsServed'
  BY <1>1, <1>3 DEF IInv, TypeOK, ResetsServed
<1>5. SetupPending' <=> SetupPending
  BY <1>1 DEF SetupPending
<1>6. Current'
  BY <1>1, <1>3, <1>5 DEF IInv, Current
<1>7. Knowing'
  BY <1>1, <1>3 DEF IInv, Knowing, Holds
<1>8. Progress' /\ Results'
  BY <1>2, <1>3, <1>5 DEF Progress, Results, Refusal, NotAll
<1> QED
  BY <1>4, <1>6, <1>7, <1>8 DEF IInv

LEMMA BusResetInv == ASSUME IInv, BusReset PROVE IInv'
<1> DEFINE k == [Known EXCEPT !.line = host.knows.line]
<1>1. /\ TypeOK /\ host \in HostType /\ host.ph # "reset" /\ host.knows.line \subseteq Nat
      /\ faults.n \in Nat /\ faults.n < MaxFaults /\ faults.n <= MaxFaults
  BY DEF IInv, BusReset, TypeOK, HostType, Knowledge
<1>2. ~faults.pending /\ ~isr.reset
  BY <1>1, NoReset
<1>3. /\ dev' = dev /\ isr' = isr /\ faults' = [faults EXCEPT !.n = @ + 1, !.pending = TRUE]
      /\ ep0'.ctr = ep0.ctr /\ ep0'.out = ep0.out /\ ep0' = [ep0 EXCEPT !.rx = "DIS", !.tx = "DIS"]
      /\ host' = [host EXCEPT !.ph = "reset", !.addr = 0, !.result = "none", !.got = <<>>, !.n = 0, !.knows = k]
  BY <1>1 DEF BusReset, TypeOK
<1>4. k \in Knowledge /\ k.conf = {0} /\ k.wakeup = {0} /\ k.ep4 = {0} /\ k.line = host.knows.line
  BY <1>1 DEF Known, Knowledge
<1> HIDE DEF k
<1>5. /\ host'.ph = "reset" /\ host'.addr = 0 /\ host'.result = "none" /\ host'.knows = k /\ host'.q = host.q
      /\ host'.read = host.read /\ faults'.pending
  BY <1>1, <1>3 DEF HostType, TypeOK
<1>6. TypeOK'
  <2>1. <<>> \in Seq([packet : InPacket, at : Nat])
    OBVIOUS
  <2>2. host' \in HostType
    <3> HIDE DEF InPacket
    <3> QED
      BY <1>1, <1>3, <1>4, <2>1 DEF HostType
  <2>3. faults' \in [n : 0 .. MaxFaults, pending : BOOLEAN]
    <3>1. faults \in [n : 0 .. MaxFaults, pending : BOOLEAN] /\ faults.n + 1 \in 0 .. MaxFaults
      BY <1>1, BoundAssumption DEF TypeOK
    <3> QED
      BY <1>3, <3>1
  <2> QED
    BY <1>1, <1>3, <2>2, <2>3 DEF TypeOK, Status
<1>7. ResetsServed'
  BY <1>2, <1>3, <1>4, <1>5 DEF IInv, ResetsServed
<1>8. SetupPending' <=> SetupPending
  BY <1>3 DEF SetupPending
<1>9. Current' /\ Knowing' /\ Progress' /\ Results'
  BY <1>3, <1>4, <1>5, <1>8 DEF IInv, Current, Knowing, Progress, Results
<1> QED
  BY <1>6, <1>7, <1>9 DEF IInv

LEMMA AfterResetInv == ASSUME IInv, AfterReset PROVE IInv'
<1>1. /\ TypeOK /\ host \in HostType /\ host.ph = "reset" /\ Quiet /\ dev \in DevType
      /\ dev' = dev /\ ep0' = ep0 /\ isr' = isr /\ faults' = faults
      /\ host' = [host EXCEPT !.ph = "idle"]
  BY DEF IInv, AfterReset, TypeOK
<1>2. /\ host'.ph = "idle" /\ host'.q = host.q /\ host'.got = host.got /\ host'.n = host.n /\ host'.addr = 0
      /\ host'.knows = host.knows /\ host'.result = "none" /\ host'.read = host.read
      /\ host.knows.conf = {0} /\ host.knows.wakeup = {0} /\ host.knows.ep4 = {0} /\ host.addr = 0
      /\ ep0.ctr = {} /\ dev.conf = 0 /\ dev.wakeup = 0 /\ dev.ep4 = "NAK" /\ dev.daddr = 0
  BY <1>1 DEF IInv, ResetsServed, HostType, Quiet
<1>3. TypeOK'
  BY <1>1 DEF TypeOK, HostType
<1>4. ResetsServed'
  BY <1>1, <1>2 DEF IInv, ResetsServed, Quiet
<1>5. ~SetupPending' /\ ~SetupPending
  BY <1>1, <1>2 DEF SetupPending
<1>6. Current'
  BY <1>1, <1>2, <1>5 DEF IInv, Current
<1>7. Knowing'
  <2>1. Halted(dev) = 0 /\ dev.line \in host.knows.line
    BY <1>2 DEF Halted, IInv, Knowing
  <2> QED
    BY <1>1, <1>2, <2>1 DEF Knowing, Holds, Parts
<1>8. Progress' /\ Results'
  BY <1>2, <1>5 DEF Progress, Results
<1> QED
  BY <1>3, <1>4, <1>6, <1>7, <1>8 DEF IInv

-----------------------------------------------------------------------------
(* The theorems.                                                           *)

LEMMA StepInv == ASSUME IInv, [Next]_vars PROVE IInv'
<1>1. CASE UNCHANGED vars
  <2>1. dev' = dev /\ ep0' = ep0 /\ isr' = isr /\ host' = host /\ faults' = faults
    BY <1>1 DEF vars
  <2>2. TypeOK' /\ ResetsServed' /\ (SetupPending' <=> SetupPending)
    BY <2>1 DEF IInv, TypeOK, ResetsServed, SetupPending
  <2>3. Current' /\ Knowing'
    BY <2>1, <2>2 DEF IInv, Current, Knowing, Holds
  <2>4. (Refusal => Refusal') /\ (Performing => Performing') /\ (Unseen => Unseen')
    BY <2>1 DEF Refusal, NotAll, Performing, Sure, Part, Holds, Unseen
  <2>5. (Armed => Armed') /\ (Fetched => Fetched')
    BY <2>1 DEF Armed, Fetched, Amounts, Answers
  <2>6. (Sending => Sending') /\ (Ending => Ending')
    BY <2>1, <2>5 DEF Sending, Ending, Some
  <2>7. Progress'
    BY <2>1, <2>2, <2>4, <2>6 DEF IInv, Progress
  <2> QED
    BY <2>1, <2>2, <2>3, <2>7, HostSame DEF IInv
<1>2. CASE Enter
  BY <1>2, EnterInv
<1>3. CASE Process
  <2>1. isr.dir \in {"rx", "tx"}
    BY DEF IInv, TypeOK
  <2> QED
    BY <1>3, <2>1, ProcessSetup, ProcessOut, ProcessIn
<1>4. CASE Rest \/ OnlyReset
  BY <1>4, RestInv, OnlyResetInv
<1>5. CASE \E q \in Requests : Setup(q)
  BY <1>5, SetupInv
<1>6. CASE Polls
  BY <1>6, HostInInv, HostOutInv, HostStatusInInv, HostStatusOutInv, HostStallInv, AfterResetInv DEF Polls
<1>7. CASE BusReset
  BY <1>7, BusResetInv
<1> QED
  BY <1>1, <1>2, <1>3, <1>4, <1>5, <1>6, <1>7 DEF Next, Isr

\* Whatever the host asks, gives up and resets, and wherever the interrupt is
\* meanwhile, endpoint 0 (usb_core.c, usb_istr.c) is in a state of IInv.
THEOREM Invariant == Spec => []IInv
<1>1. Init => IInv
  BY InitInv
<1>2. IInv /\ [Next]_vars => IInv'
  BY StepInv
<1> QED
  BY <1>1, <1>2, PTL DEF Spec

\* Lengths do not wrap and every state of the machine is one of its own
\* (usb_core.c:410-467).
THEOREM TypeCorrect == Spec => []TypeOK
<1>1. IInv => TypeOK
  BY DEF IInv
<1> QED
  BY <1>1, Invariant, PTL

\* A read returns the bytes of what was asked for, in order and none twice,
\* all that there are and no more, also after a transfer that was given up or a
\* reset (usb_core.c:467, 742-782).
THEOREM DataTrueCorrect == Spec => []DataTrue
<1>1. IInv => DataTrue
  <2> SUFFICES ASSUME IInv, Defined(host.q), host.ph \in {"in", "status_out"} \/ host.result = "ok"
               PROVE  /\ \A i \in DOMAIN host.got :
                           LET g == host.got[i]
                           IN g.packet = Zlp \/ (g.packet.of \in Answers(host.q) /\ g.packet.from = g.at)
                      /\ (host.ph = "status_out" \/ host.result = "ok") => host.n = Extent(host.q)
    BY DEF DataTrue
  <2>1. host.result = "ok" => host.n = Extent(host.q)
    BY DEF IInv, Results
  <2>2. host.ph = "status_out" => host.n = Extent(host.q)
    <3>1. host.ph = "status_out" => ~SetupPending
      BY DEF IInv, Progress, Unseen, Phase
    <3> QED
      BY <3>1 DEF IInv, Progress, Ending
  <2> QED
    BY <2>1, <2>2 DEF IInv, Results
<1> QED
  BY <1>1, Invariant, PTL

\* A request the device supports is never stalled nor its status taken for
\* data; a read it does not support is never answered (usb_core.c:750, 906).
THEOREM ServedCorrect == Spec => []Served
<1>1. IInv => Served
  BY DEF IInv, Results, Served, Some, NotAll
<1> QED
  BY <1>1, Invariant, PTL

\* At rest device and host agree on the address, the configuration and the
\* features, whatever was given up or reset before (usb_core.c:845,
\* usb_prop.c:199).
THEOREM AgreeCorrect == Spec => []Agree
<1>1. IInv => Agree
  <2> SUFFICES ASSUME IInv, Quiet, host.ph = "idle"
               PROVE  /\ dev.daddr = host.addr
                      /\ dev.conf \in host.knows.conf /\ dev.wakeup \in host.knows.wakeup
                      /\ Halted(dev) \in host.knows.ep4 /\ dev.line \in host.knows.line
    BY DEF Agree
  <2>1. dev.daddr = host.addr
    BY DEF IInv, Knowing, Quiet
  <2>2. \A f \in Parts : Holds[f] \in host.knows[f]
    BY DEF IInv, Knowing
  <2> QED
    BY <2>1, <2>2 DEF Parts, Holds
<1> QED
  BY <1>1, Invariant, PTL
=============================================================================
