----------------------------- MODULE PortProofs -----------------------------
(***************************************************************************)
(* Proofs about the two components that share buffers with a port's        *)
(* interrupt and go on using them.  AudioFrame, for every period, every    *)
(* module and service and any number of frames: a firmware whose module    *)
(* and service fit the period keeps up, and while a firmware keeps up      *)
(* every frame goes through whole.  Display, for any pages and columns:    *)
(* between transfers the LCD shows the copy of what was drawn.             *)
(***************************************************************************)
EXTENDS AudioFrame, Display, SequenceTheorems, TLAPS

-----------------------------------------------------------------------------
(* Time.                                                                   *)

\* While the flag is set its frame is as old as what main has done since: the rest
\* of a step of the service, then the module.
TimeInv ==
  /\ load.module \in Nat /\ load.service \in Nat
  /\ age \in Nat /\ spent \in Nat /\ spent <= Limit
  /\ pc \in {"service", "module"}
  /\ pc = "module" => received
  /\ load.module + load.service < Period =>
       /\ ~missed
       /\ received /\ pc = "service" => age <= spent
       /\ pc = "module" => age <= spent + load.service

LEMMA TimeInit == AudioInit => TimeInv
<1> SUFFICES ASSUME AudioInit PROVE TimeInv
  OBVIOUS
<1>1. load.module \in Nat /\ load.service \in Nat
  BY AudioAssumption DEF AudioInit, AudioAssumption
<1>2. pc = "service" /\ spent = 0 /\ age = 0 /\ received = FALSE /\ missed = FALSE
  BY DEF AudioInit
<1> QED
  BY <1>1, <1>2 DEF TimeInv, Limit

LEMMA TimeStep == ASSUME TimeInv, [AudioNext]_audioVars PROVE TimeInv'
<1> USE AudioAssumption DEF AudioAssumption, TimeInv, Limit
<1>1. CASE Pass
  BY <1>1 DEF Pass, mainVars
<1>2. CASE Interrupt
  <2>1. age = Period - 1 /\ spent < Limit
    BY <1>2 DEF Interrupt
  <2>2. load.module + load.service < Period => ~received
    BY <2>1
  <2>3. /\ load' = load /\ pc' = pc /\ age' = 0 /\ spent' = spent + 1
        /\ received' = TRUE /\ missed' = IF received THEN TRUE ELSE missed
    BY <1>2 DEF Interrupt, mainVars
  <2> QED
    BY <2>1, <2>2, <2>3
<1>3. CASE Test
  BY <1>3 DEF Test
<1>4. CASE Processed
  BY <1>4 DEF Processed
<1>5. ASSUME NEW c \in Channels, Read(c) \/ Write(c) PROVE TimeInv'
  BY <1>5 DEF Read, Write
<1>6. CASE UNCHANGED audioVars
  BY <1>6 DEF audioVars, mainVars
<1> QED
  BY <1>1, <1>2, <1>3, <1>4, <1>5, <1>6 DEF AudioNext

\* When the module and one step of the service fit in a period no frame is overtaken
\* by the next: kernel/main.c needs no more than that to share the buffers of
\* per_sport.c with its interrupt.
THEOREM KeepsUp == AudioSpec => []InTime
<1>1. TimeInv => InTime
  BY DEF TimeInv, InTime
<1> QED
  BY TimeInit, TimeStep, <1>1, PTL DEF AudioSpec

-----------------------------------------------------------------------------
(* Frames.                                                                 *)

\* Until a frame comes too soon: the input is the last frame, the output the one
\* before it where the module has not yet written, and the last where it has.
FrameInv ==
  /\ frame \in Nat /\ in = Both(frame)
  /\ pc \in {"service", "module"}
  /\ pc = "module" => received
  /\ ~missed =>
       /\ received => frame > 0
       /\ pc = "service" => out = Both(IF received THEN frame - 1 ELSE frame)
       /\ pc = "module" =>
            /\ read \in [Channels -> {0, frame}]
            /\ \A c \in written : read[c] = frame
            /\ out = [c \in Channels |-> IF c \in written THEN frame ELSE frame - 1]

LEMMA FrameInit == AudioInit => FrameInv
BY DEF AudioInit, FrameInv, Both

LEMMA FrameStep == ASSUME FrameInv, [AudioNext]_audioVars PROVE FrameInv'
<1> USE DEF FrameInv, Both
<1>1. CASE Pass
  BY <1>1 DEF Pass, mainVars
<1>2. CASE Interrupt
  <2>1. ~missed' => ~missed /\ ~received
    BY <1>2 DEF Interrupt
  <2>2. /\ frame' = frame + 1 /\ in' = Both(frame') /\ received' = TRUE
        /\ pc' = pc /\ out' = out
    BY <1>2 DEF Interrupt, mainVars
  <2> QED
    BY <2>1, <2>2
<1>3. CASE Test
  BY <1>3 DEF Test
<1>4. CASE Processed
  <2>1. ~missed => out = Both(frame)
    BY <1>4 DEF Processed
  <2>2. /\ pc' = "service" /\ received' = FALSE
        /\ frame' = frame /\ in' = in /\ out' = out /\ missed' = missed
    BY <1>4 DEF Processed
  <2> QED
    BY <2>1, <2>2
<1>5. ASSUME NEW c \in Channels, Read(c) PROVE FrameInv'
  BY <1>5 DEF Read
<1>6. ASSUME NEW c \in Channels, Write(c) PROVE FrameInv'
  <2>1. /\ pc = "module" /\ read[c] # 0 /\ out' = [out EXCEPT ![c] = read[c]]
        /\ written' = written \cup {c}
        /\ UNCHANGED <<in, received, pc, read, frame, missed>>
    BY <1>6 DEF Write
  <2>2. ASSUME ~missed
        PROVE  /\ \A d \in written' : read[d] = frame
               /\ out' = [d \in Channels |-> IF d \in written' THEN frame ELSE frame - 1]
    <3>1. read[c] = frame
      BY <2>1, <2>2
    <3>2. /\ \A d \in written : read[d] = frame
          /\ out = [d \in Channels |-> IF d \in written THEN frame ELSE frame - 1]
      BY <2>1, <2>2
    <3> QED BY <2>1, <3>1, <3>2
  <2> QED BY <2>1, <2>2
<1>7. CASE UNCHANGED audioVars
  BY <1>7 DEF audioVars, mainVars
<1> QED
  BY <1>1, <1>2, <1>3, <1>4, <1>5, <1>6, <1>7 DEF AudioNext

\* Every frame that is not overtaken is answered, with the next one, by the output
\* made from it, both channels of it (_sport0_isr against main's loop).
THEOREM FramesInOrder == AudioSpec => OneFrameLater
<1>1. ASSUME FrameInv, [AudioNext]_audioVars, frame' # frame, ~missed'
      PROVE  tx' = Both(frame)
  <2>1. CASE Interrupt
    <3>1. ~missed /\ ~received /\ tx' = out
      BY <1>1, <2>1 DEF Interrupt
    <3>2. pc = "service"
      BY <1>1, <3>1 DEF FrameInv
    <3> QED
      BY <1>1, <3>1, <3>2 DEF FrameInv
  <2>2. CASE ~Interrupt
    BY <1>1, <2>2 DEF AudioNext, Pass, Test, Processed, Read, Write, audioVars
  <2> QED
    BY <2>1, <2>2
<1>2. FrameInv /\ [AudioNext]_audioVars => [frame' # frame /\ ~missed' => tx' = Both(frame)]_audioVars
  BY <1>1
<1> QED
  BY FrameInit, FrameStep, <1>2, PTL DEF AudioSpec, OneFrameLater

-----------------------------------------------------------------------------
(* The display.                                                            *)


\* What a transfer is.
LEMMA Transfers ==
  /\ Settings.mode = "command" /\ Settings.len = 1 /\ Len(Settings.bytes) = 1
  /\ Settings.bytes[1] = [setup |-> 0]
  /\ \A p : /\ Address(p).mode = "command" /\ Address(p).len = 2 /\ Len(Address(p).bytes) = 2
            /\ Address(p).bytes[1] = [row |-> p] /\ Address(p).bytes[2] = [col |-> 0]
            /\ Data(p).mode = "data" /\ Data(p).start = p * Columns /\ Data(p).len = Columns
  /\ \A p : Address(p) # Settings /\ Data(p) # Settings
  /\ \A p, q : Address(p) # Data(q)
<1>1. /\ Settings.mode = "command" /\ Settings.len = 1 /\ Len(Settings.bytes) = 1
      /\ Settings.bytes[1] = [setup |-> 0]
  BY DEF Settings, Command
<1>2. \A p : /\ Address(p).mode = "command" /\ Address(p).len = 2 /\ Len(Address(p).bytes) = 2
             /\ Address(p).bytes[1] = [row |-> p] /\ Address(p).bytes[2] = [col |-> 0]
  BY DEF Address, Command
<1>3. \A p : Data(p).mode = "data" /\ Data(p).start = p * Columns /\ Data(p).len = Columns
  BY DEF Data
<1> QED BY <1>1, <1>2, <1>3

\* Pages and columns of the indices of a frame.
LEMMA FrameIndex ==
  /\ \A i \in Frame : PageOf(i) \in PageNos /\ PageOf(i) * Columns <= i
                      /\ i < PageOf(i) * Columns + Columns
  /\ \A p \in PageNos, c \in 0 .. Columns - 1 :
       /\ p * Columns + c \in Frame
       /\ PageOf(p * Columns + c) = p
<1> PICK n \in Nat \ {0}, m \in Nat \ {0} : n = Columns /\ m = Pages
  BY DisplayAssumption
<1>1. ASSUME NEW p \in PageNos, NEW c \in 0 .. Columns - 1
      PROVE  /\ p * Columns + c \in Frame
             /\ PageOf(p * Columns + c) = p
  <2>1. p * n >= 0 /\ p * n + c <= m * n - 1
    <3>1. (m - 1 - p) * n >= 0 /\ p * n >= 0
      BY DEF PageNos
    <3> QED BY <3>1 DEF PageNos
  <2>2. (n * p + c) \div n = p
    BY DEF PageNos
  <2>4. p * n + c \in Nat /\ m * n \in Nat
    BY DEF PageNos
  <2>5. n * p = p * n /\ p * n + c < m * n
    BY <2>1, <2>4 DEF PageNos
  <2> QED BY <2>1, <2>2, <2>4, <2>5 DEF Frame, PageOf
<1>2. ASSUME NEW i \in Frame
      PROVE  PageOf(i) \in PageNos /\ PageOf(i) * Columns <= i
                      /\ i < PageOf(i) * Columns + Columns
  <2>1. i \in Nat /\ i < m * n
    BY DEF Frame
  <2>2. i = n * (i \div n) + (i % n) /\ i % n \in 0 .. n - 1 /\ i \div n \in Nat
    BY <2>1
  <2>3. i \div n < m
    <3>1. ASSUME i \div n >= m PROVE FALSE
      <4>1. n * (i \div n - m) >= 0
        BY <2>2, <3>1
      <4> QED BY <2>1, <2>2, <4>1
    <3> QED BY <2>2, <3>1
  <2> QED BY <2>2, <2>3 DEF PageOf, PageNos
<1> QED BY <1>1, <1>2

-----------------------------------------------------------------------------
Queue == {Settings} \cup {Address(p) : p \in PageNos} \cup {Data(p) : p \in PageNos}

DisplayTypes ==
  /\ b \in [Frame -> Dots] /\ ram \in [Frame -> Dots] /\ a \in [Frame -> Dots]
  /\ page \in PageNos
  /\ calls \in Seq(Queue)
  /\ step \in {"mode", "buffer", "length", "enable"} /\ enabled \in BOOLEAN

\* The columns of page p are the first of the transfers s, or nothing of the kind.
LeadsPage(s, p) == s # <<>> /\ Head(s) = Data(p)
LeadsNoPage(s) == s = <<>> \/ Head(s).mode = "command"

\* A page's address is followed by its columns, and columns come after nothing else.
Addressed(s) ==
  \A k \in 1 .. Len(s) :
    \/ s[k] = Settings
    \/ \E p \in PageNos : s[k] = Address(p) /\ k < Len(s) /\ s[k + 1] = Data(p)
    \/ \E p \in PageNos : s[k] = Data(p) /\ (k = 1 \/ s[k - 1] = Address(p))

\* Main has a transfer to start, and has started as far as it has come: no other is
\* under way.
Starting ==
  /\ ~Busy /\ calls # <<>> /\ pin = Head(calls).mode
  /\ step \in {"length", "enable"} => buffer = Head(calls) /\ pos = 0
  /\ step = "enable" => length = Head(calls).len

\* Page p is still to be sent.
Due(p) == \E k \in 1 .. Len(calls) : calls[k] = Data(p)

\* The transfer under way, how far it has come, the byte on its way and what the LCD
\* has got of it; and what main has still to send goes on from there.  A column on its
\* way is the copy's, if its page is not to be sent again.
SendingSettings ==
  /\ buffer = Settings /\ pin = "command" /\ LeadsNoPage(calls)
  /\ \/ pos = 0 /\ length = 1 /\ enabled /\ line = <<>>
     \/ ~enabled /\ line = <<[setup |-> 0]>>

SendingAddress(p) ==
  /\ buffer = Address(p) /\ pin = "command" /\ LeadsPage(calls, p)
  /\ \/ pos = 0 /\ length = 2 /\ enabled /\ line = <<>>
     \/ pos = 1 /\ length = 1 /\ enabled /\ ((line = <<>> /\ row = p) \/ line = <<[row |-> p]>>)
     \/ ~enabled /\ row = p /\ line = <<[col |-> 0]>>

SendingData(p) ==
  /\ buffer = Data(p) /\ pin = "data" /\ row = p /\ LeadsNoPage(calls)
  /\ pos \in 0 .. Columns /\ length = Columns - pos /\ (enabled <=> pos # Columns)
  /\ \/ line = <<>> /\ col = pos
     \/ /\ \E d \in Dots : /\ line = <<[dots |-> d]>>
                           /\ d = b[p * Columns + (pos - 1)] \/ Due(p)
        /\ pos # 0 /\ col = pos - 1

Sending ==
  \/ SendingSettings
  \/ \E p \in PageNos : SendingAddress(p) \/ SendingData(p)

\* Nothing is under way: the LCD waits for a page's first column if that is next.
Ready == LeadsNoPage(calls) \/ \E p \in PageNos : LeadsPage(calls, p) /\ row = p /\ col = 0

\* Column i is of the page under way and not yet sent, or on its way.
UnderWay(i) ==
  /\ Busy /\ buffer = Data(PageOf(i))
  /\ \/ i >= PageOf(i) * Columns + pos
     \/ i = PageOf(i) * Columns + (pos - 1) /\ line # <<>>

\* Each column the LCD shows is that of the copy, or is on its way.
Fresh ==
  state = "run" => \A i \in Frame : ram[i] = b[i] \/ Due(PageOf(i)) \/ UnderWay(i)

DisplayInv ==
  /\ DisplayTypes
  /\ Addressed(calls)
  /\ step # "mode" => Starting
  /\ Busy => Sending
  /\ ~Busy => Ready
  /\ Fresh

\* What the LCD does with each kind of byte.
LEMMA Received ==
  /\ TakeCommand([setup |-> 0]) => ram' = ram
  /\ \A p : TakeCommand([row |-> p]) => row' = p /\ UNCHANGED <<ram, col>>
  /\ TakeCommand([col |-> 0]) => col' = 0 /\ UNCHANGED <<ram, row>>
  /\ \A d : col < Columns /\ TakeDots([dots |-> d])
       => /\ ram' = [ram EXCEPT ![row * Columns + col] = d]
          /\ col' = col + 1 /\ row' = row
<1>1. \A d : /\ DOMAIN [setup |-> d] = {"setup"} /\ DOMAIN [row |-> d] = {"row"}
             /\ DOMAIN [col |-> d] = {"col"} /\ DOMAIN [dots |-> d] = {"dots"}
  OBVIOUS
<1> QED BY <1>1 DEF TakeCommand, TakeDots

LEMMA DisplayStarts == DisplayStart => DisplayInv
<1> SUFFICES ASSUME DisplayStart PROVE DisplayInv
  OBVIOUS
<1>1. DisplayTypes
  <2>1. [i \in Frame |-> 0] \in [Frame -> Dots]
    BY DEF Dots
  <2>2. 0 \in PageNos
    BY DisplayAssumption DEF PageNos
  <2>3. <<>> \in Seq(Queue)
    OBVIOUS
  <2> QED BY <2>1, <2>2, <2>3 DEF DisplayStart, DisplayTypes
<1>2. Addressed(calls)
  BY DEF DisplayStart, Addressed
<1> QED BY <1>1, <1>2 DEF DisplayStart, DisplayInv, Ready, LeadsNoPage, Fresh, Busy

\* Without its first transfer a list still has each address before its columns.
LEMMA AddressedTail ==
  ASSUME NEW s \in Seq(Queue), s # <<>>, Addressed(s)
  PROVE  /\ Addressed(Tail(s)) /\ Tail(s) \in Seq(Queue)
         /\ \A p \in PageNos : Head(s) = Address(p) => \E q \in PageNos :
              Head(s) = Address(q) /\ LeadsPage(Tail(s), q)
         /\ Head(s) = Settings \/ (\E p \in PageNos : Head(s) = Data(p))
              => LeadsNoPage(Tail(s))
<1> DEFINE r == Tail(s)
<1>1. /\ Len(s) \in Nat \ {0} /\ r \in Seq(Queue) /\ Len(r) = Len(s) - 1 /\ Head(s) = s[1]
      /\ \A k \in 1 .. Len(s) - 1 : r[k] = s[k + 1]
  OBVIOUS
<1>2. r # <<>> => Len(r) \in Nat \ {0} /\ Head(r) = r[1] /\ r[1] = s[2] /\ 2 \in 1 .. Len(s)
  BY <1>1
<1>3. Len(s) > 1 => r # <<>>
  <2>1. Len(<<>>) = 0
    OBVIOUS
  <2> HIDE DEF r
  <2>2. Len(s) > 1 => Len(r) # 0
    BY <1>1
  <2> QED BY <2>1, <2>2
<1> HIDE DEF r
<1>4. ASSUME NEW k \in 1 .. Len(r)
      PROVE  \/ r[k] = Settings
             \/ \E p \in PageNos : r[k] = Address(p) /\ k < Len(r) /\ r[k + 1] = Data(p)
             \/ \E p \in PageNos : r[k] = Data(p) /\ (k = 1 \/ r[k - 1] = Address(p))
  <2>1. k \in Nat /\ k + 1 \in 1 .. Len(s) /\ r[k] = s[k + 1] /\ (k + 1) - 1 = k
    BY <1>1
  <2>2. CASE s[k + 1] = Settings
    BY <2>1, <2>2
  <2>3. ASSUME NEW p \in PageNos, s[k + 1] = Address(p), k + 1 < Len(s), s[(k + 1) + 1] = Data(p)
        PROVE  r[k] = Address(p) /\ k < Len(r) /\ r[k + 1] = Data(p)
    <3>1. k + 1 \in 1 .. Len(s) - 1 /\ k < Len(r)
      BY <1>1, <2>1, <2>3
    <3> QED BY <1>1, <2>1, <2>3, <3>1
  <2>4. ASSUME NEW p \in PageNos, s[k + 1] = Data(p), k + 1 = 1 \/ s[(k + 1) - 1] = Address(p)
        PROVE  r[k] = Data(p) /\ (k = 1 \/ r[k - 1] = Address(p))
    <3>1. s[k] = Address(p)
      BY <2>1, <2>4
    <3>2. k # 1 => k - 1 \in 1 .. Len(s) - 1 /\ (k - 1) + 1 = k
      BY <1>1, <2>1
    <3> QED BY <1>1, <2>1, <2>4, <3>1, <3>2
  <2> QED BY <2>1, <2>2, <2>3, <2>4 DEF Addressed
<1>5. ASSUME NEW p \in PageNos, Head(s) = Address(p)
      PROVE  \E q \in PageNos : Head(s) = Address(q) /\ LeadsPage(r, q)
  <2>1. 1 \in 1 .. Len(s) /\ s[1] = Address(p)
    BY <1>1, <1>5
  <2>2. s[1] # Settings /\ \A q : s[1] # Data(q)
    BY <2>1, Transfers
  <2>3. PICK q \in PageNos : s[1] = Address(q) /\ 1 < Len(s) /\ s[1 + 1] = Data(q)
    BY <2>1, <2>2 DEF Addressed
  <2>4. r # <<>> /\ Head(r) = s[2]
    BY <1>1, <1>2, <1>3, <2>3
  <2> QED BY <1>1, <2>3, <2>4 DEF LeadsPage
<1>6. ASSUME Head(s) = Settings \/ (\E p \in PageNos : Head(s) = Data(p)), r # <<>>
      PROVE  Head(r).mode = "command"
  <2>1. \A q : s[1] # Address(q)
    BY <1>1, <1>6, Transfers
  <2>2. 2 \in 1 .. Len(s) /\ Head(r) = s[2] /\ 2 - 1 = 1 /\ 2 # 1
    BY <1>2, <1>6
  <2>3. s[2] = Settings \/ \E q \in PageNos : s[2] = Address(q)
    BY <2>1, <2>2 DEF Addressed
  <2> QED BY <2>2, <2>3, Transfers
<1> QED BY <1>1, <1>4, <1>5, <1>6 DEF Addressed, LeadsNoPage, r

\* The transfers of a page, and those of all pages after the settings.
LEMMA PageAddressed ==
  ASSUME NEW p \in PageNos
  PROVE  /\ SetPage(p) \in Seq(Queue) /\ Len(SetPage(p)) = 2 /\ SetPage(p)[2] = Data(p)
         /\ Addressed(SetPage(p)) /\ LeadsNoPage(SetPage(p))
<1> DEFINE s == SetPage(p)
<1>1. /\ s \in Seq(Queue) /\ Len(s) = 2 /\ s[1] = Address(p) /\ s[2] = Data(p)
      /\ Head(s) = Address(p)
  BY DEF SetPage, Queue
<1> HIDE DEF s
<1>2. Addressed(s)
  BY <1>1 DEF Addressed
<1>3. LeadsNoPage(s)
  BY <1>1, Transfers DEF LeadsNoPage
<1> QED BY <1>1, <1>2, <1>3 DEF s

LEMMA AllAddressed ==
  LET s == <<Settings>> \o EveryPage
  IN  /\ s \in Seq(Queue) /\ Addressed(s) /\ LeadsNoPage(s)
      /\ \A p \in PageNos : \E k \in 1 .. Len(s) : s[k] = Data(p)
<1> DEFINE e == EveryPage
           s == <<Settings>> \o e
<1>0. Pages \in Nat \ {0} /\ 2 * Pages \in Nat
  BY DisplayAssumption
<1>1. ASSUME NEW p \in PageNos
      PROVE  /\ 2 * p + 1 \in 1 .. 2 * Pages /\ 2 * p + 2 \in 1 .. 2 * Pages
             /\ e[2 * p + 1] = Address(p) /\ e[2 * p + 2] = Data(p)
  <2>1. /\ 2 * p + 1 \in 1 .. 2 * Pages /\ 2 * p + 2 \in 1 .. 2 * Pages
        /\ (2 * p + 1 - 1) \div 2 = p /\ (2 * p + 1 - 1) % 2 = 0
        /\ (2 * p + 2 - 1) \div 2 = p /\ (2 * p + 2 - 1) % 2 = 1
    BY <1>0 DEF PageNos
  <2>2. SetPage(p)[0 + 1] = Address(p) /\ SetPage(p)[1 + 1] = Data(p)
    BY DEF SetPage
  <2>3. \A k \in 1 .. 2 * Pages :
          e[k] = SetPage((k - 1) \div 2)[((k - 1) % 2) + 1]
    BY DEF EveryPage
  <2>4. e[2 * p + 1] = SetPage(p)[0 + 1] /\ e[2 * p + 2] = SetPage(p)[1 + 1]
    <3> HIDE DEF e
    <3>1. PICK i \in 1 .. 2 * Pages : i = 2 * p + 1 /\ (i - 1) \div 2 = p /\ (i - 1) % 2 = 0
      BY <2>1
    <3>2. PICK j \in 1 .. 2 * Pages : j = 2 * p + 2 /\ (j - 1) \div 2 = p /\ (j - 1) % 2 = 1
      BY <2>1
    <3>3. e[i] = SetPage(p)[0 + 1]
      BY <2>3, <3>1
    <3>4. e[j] = SetPage(p)[1 + 1]
      BY <2>3, <3>2
    <3> QED BY <3>1, <3>2, <3>3, <3>4
  <2> QED BY <2>1, <2>2, <2>4
<1>2. ASSUME NEW k \in 1 .. 2 * Pages
      PROVE  \E p \in PageNos : k = 2 * p + 1 \/ k = 2 * p + 2
  <2>1. (k - 1) \div 2 \in PageNos /\ (k = 2 * ((k - 1) \div 2) + 1 \/ k = 2 * ((k - 1) \div 2) + 2)
    BY <1>0 DEF PageNos
  <2> QED BY <2>1
<1>3. e \in Seq(Queue) /\ Len(e) = 2 * Pages
  <2>1. \A k \in 1 .. 2 * Pages : e[k] \in Queue
    BY <1>1, <1>2 DEF Queue
  <2>2. e \in [1 .. 2 * Pages -> Queue]
    BY <2>1 DEF EveryPage
  <2> QED BY <1>0, <2>2
<1> HIDE DEF e
<1>4. /\ s \in Seq(Queue) /\ Len(s) = 2 * Pages + 1 /\ s[1] = Settings /\ Head(s) = Settings
      /\ \A k \in 1 .. 2 * Pages : s[k + 1] = e[k]
  <2>1. <<Settings>> \in Seq(Queue)
    BY DEF Queue
  <2> QED BY <1>0, <1>3, <2>1
<1> HIDE DEF s
<1>5. ASSUME NEW p \in PageNos
      PROVE  /\ 2 * p + 2 \in 1 .. Len(s) /\ 2 * p + 3 \in 1 .. Len(s)
             /\ s[2 * p + 2] = Address(p) /\ s[2 * p + 3] = Data(p)
  <2>1. /\ (2 * p + 1) + 1 = 2 * p + 2 /\ (2 * p + 2) + 1 = 2 * p + 3
        /\ 2 * p + 2 \in 1 .. Len(s) /\ 2 * p + 3 \in 1 .. Len(s)
    BY <1>0, <1>4 DEF PageNos
  <2> QED BY <1>1, <1>4, <2>1
<1>6. ASSUME NEW k \in 1 .. Len(s)
      PROVE  \/ s[k] = Settings
             \/ \E p \in PageNos : s[k] = Address(p) /\ k < Len(s) /\ s[k + 1] = Data(p)
             \/ \E p \in PageNos : s[k] = Data(p) /\ (k = 1 \/ s[k - 1] = Address(p))
  <2>1. CASE k = 1
    BY <1>4, <2>1
  <2>2. CASE k # 1
    <3>1. k - 1 \in 1 .. 2 * Pages
      BY <1>0, <1>4, <2>2
    <3>2. PICK p \in PageNos : k - 1 = 2 * p + 1 \/ k - 1 = 2 * p + 2
      BY <1>2, <3>1
    <3>3. CASE k = 2 * p + 2
      <4>1. k + 1 = 2 * p + 3 /\ k < 2 * p + 3
        BY <3>3 DEF PageNos
      <4>2. k < Len(s)
        BY <1>0, <1>4, <1>5, <4>1 DEF PageNos
      <4> QED BY <1>5, <3>3, <4>1, <4>2
    <3>4. CASE k = 2 * p + 3
      <4>1. k - 1 = 2 * p + 2
        BY <3>4 DEF PageNos
      <4> QED BY <1>5, <3>4, <4>1
    <3>5. k = 2 * p + 2 \/ k = 2 * p + 3
      BY <3>2 DEF PageNos
    <3> QED BY <3>3, <3>4, <3>5
  <2> QED BY <2>1, <2>2
<1>7. LeadsNoPage(s)
  BY <1>4, Transfers DEF LeadsNoPage
<1>8. \A p \in PageNos : \E k \in 1 .. Len(s) : s[k] = Data(p)
  BY <1>5
<1> QED BY <1>4, <1>6, <1>7, <1>8 DEF Addressed, s, e

\* Without a change of the LCD, of the copy and of the transfer under way, all that
\* was fresh is still.
LEMMA FreshKept ==
  ASSUME Fresh, state = "run" \/ state' # "run", UNCHANGED <<b, ram, calls>>,
         ~Busy \/ UNCHANGED <<buffer, pos, enabled, line>>
  PROVE  Fresh'
<1>1. \A p : Due(p)' = Due(p)
  BY DEF Due
<1>2. \A i : UnderWay(i) => UnderWay(i)'
  BY DEF UnderWay, Busy
<1> QED BY <1>1, <1>2 DEF Fresh

LEMMA TransferStep ==
  ASSUME DisplayInv, ~overtaken', SetMode \/ SetBuffer \/ SetLength \/ EnableTx
  PROVE  DisplayInv'
<1>0. /\ DisplayTypes /\ Addressed(calls) /\ (step # "mode" => Starting)
      /\ (Busy => Sending) /\ (~Busy => Ready) /\ Fresh
  BY DEF DisplayInv
<1>1. CASE SetMode \/ SetBuffer \/ SetLength
  <2>1. /\ UNCHANGED <<a, b, state, page, calls, enabled, line, ram, row, col>>
        /\ ~Busy /\ ~Busy'
    <3>1. UNCHANGED <<a, b, state, page, calls, enabled, line, ram, row, col>>
      BY <1>1 DEF SetMode, SetBuffer, SetLength, frameVars, spiVars, lcdVars
    <3>2. ~Busy
      BY <1>0, <1>1 DEF SetMode, SetBuffer, SetLength, Starting
    <3> QED BY <3>1, <3>2 DEF Busy
  <2>2. DisplayTypes'
    BY <1>0, <1>1, <2>1 DEF DisplayTypes, SetMode, SetBuffer, SetLength
  <2>3. Starting'
    BY <1>0, <1>1, <2>1 DEF SetMode, SetBuffer, SetLength, Starting
  <2>4. Ready'
    BY <1>0, <2>1 DEF Ready
  <2>5. Fresh'
    BY <1>0, <2>1, FreshKept DEF Fresh
  <2> QED BY <1>0, <2>1, <2>2, <2>3, <2>4, <2>5 DEF DisplayInv
<1>2. CASE EnableTx
  <2>1. /\ UNCHANGED <<a, b, state, page, pin, buffer, pos, length, line, ram, row, col>>
        /\ step' = "mode" /\ enabled' = TRUE /\ calls' = Tail(calls) /\ step = "enable"
    BY <1>2 DEF EnableTx, frameVars, lcdVars
  <2>2. /\ ~enabled /\ line = <<>> /\ calls # <<>> /\ pin = Head(calls).mode /\ buffer = Head(calls)
        /\ pos = 0 /\ length = Head(calls).len /\ Ready
    BY <1>0, <2>1 DEF Starting, Busy
  <2>3. calls \in Seq(Queue)
    BY <1>0 DEF DisplayTypes
  <2>4. /\ Addressed(calls') /\ calls' \in Seq(Queue)
        /\ \A p \in PageNos : buffer = Address(p) => \E q \in PageNos :
             buffer = Address(q) /\ LeadsPage(calls', q)
        /\ buffer = Settings \/ (\E p \in PageNos : buffer = Data(p))
             => LeadsNoPage(calls')
    BY <1>0, <2>1, <2>2, <2>3, AddressedTail
  <2>5. DisplayTypes'
    BY <1>0, <2>1, <2>4 DEF DisplayTypes
  <2>6. Sending'
    <3>1. buffer \in Queue
      BY <2>2, <2>3
    <3>2. CASE buffer = Settings
      BY <2>1, <2>2, <2>4, <3>2, Transfers DEF Sending, SendingSettings
    <3>3. ASSUME NEW p \in PageNos, buffer = Address(p) PROVE Sending'
      <4>1. PICK q \in PageNos : buffer = Address(q) /\ LeadsPage(calls', q)
        BY <2>4, <3>3
      <4>2. pin = "command" /\ length = 2 /\ pos = 0
        BY <2>2, <4>1, Transfers
      <4> QED BY <2>1, <2>2, <4>1, <4>2 DEF Sending, SendingAddress
    <3>4. ASSUME NEW p \in PageNos, buffer = Data(p) PROVE Sending'
      <4>1. Head(calls).mode # "command"
        BY <2>2, <3>4, Transfers
      <4>2. PICK q \in PageNos : Head(calls) = Data(q) /\ row = q /\ col = 0
        BY <2>2, <4>1 DEF Ready, LeadsNoPage, LeadsPage
      <4>3. /\ pin = "data" /\ length = Columns - pos /\ pos \in 0 .. Columns
            /\ pos # Columns /\ col = pos
        BY <2>2, <4>2, Transfers, DisplayAssumption
      <4> QED BY <2>1, <2>2, <2>4, <4>2, <4>3 DEF Sending, SendingData
    <3> QED BY <3>1, <3>2, <3>3, <3>4 DEF Queue
  <2>7. Fresh'
    <3>1. ASSUME NEW p \in PageNos, Due(p) PROVE Due(p)' \/ buffer = Data(p)
      <4>1. PICK k \in 1 .. Len(calls) : calls[k] = Data(p)
        BY <3>1 DEF Due
      <4>2. CASE k = 1
        BY <2>2, <2>3, <4>1, <4>2
      <4>3. CASE k # 1
        <5>1. k - 1 \in 1 .. Len(calls') /\ calls'[k - 1] = calls[k]
          BY <2>1, <2>2, <2>3, <4>3
        <5> QED BY <4>1, <5>1 DEF Due
      <4> QED BY <4>2, <4>3
    <3>2. ASSUME NEW i \in Frame, buffer = Data(PageOf(i)) PROVE UnderWay(i)'
      <4>1. i >= PageOf(i) * Columns + 0
        BY FrameIndex, DisplayAssumption DEF PageNos, Frame
      <4> QED BY <2>1, <2>2, <3>2, <4>1 DEF UnderWay, PageOf, Busy
    <3>3. \A i \in Frame : ~UnderWay(i)
      BY <2>2 DEF UnderWay, Busy
    <3>4. \A i \in Frame : PageOf(i) \in PageNos
      BY FrameIndex
    <3> QED BY <1>0, <2>1, <3>1, <3>2, <3>3, <3>4 DEF Fresh
  <2> QED BY <2>1, <2>4, <2>5, <2>6, <2>7 DEF DisplayInv, Busy
<1> QED BY <1>1, <1>2

\* The interrupt hands the next byte to the line.
LEMMA InterruptStep == ASSUME DisplayInv, TxInterrupt PROVE DisplayInv'
<1>0. /\ DisplayTypes /\ Addressed(calls) /\ Sending /\ Fresh
      /\ enabled /\ line = <<>> /\ step = "mode"
  BY DEF DisplayInv, TxInterrupt, Starting, Busy
<1>1. /\ UNCHANGED <<a, b, state, page, calls, step, pin, buffer, ram, row, col>>
      /\ length' = (length - 1) % LenMod /\ enabled' = (length # 1)
      /\ (length # 0 => line' = <<Byte>> /\ pos' = pos + 1)
  BY DEF TxInterrupt, frameVars, callVars, lcdVars
<1>2. Columns \in Nat \ {0} /\ LenMod \in Nat \ {0} /\ Columns < LenMod
  BY DisplayAssumption
<1>3. \A n \in Nat : n < LenMod => n % LenMod = n
  BY <1>2
<1>4. DisplayTypes'
  BY <1>0, <1>1 DEF DisplayTypes
<1>5. ASSUME length # 0, \A p : buffer # Data(p) PROVE Fresh' /\ Busy'
  <2>1. line' # <<>>
    <3>1. line' = <<Byte>>
      BY <1>1, <1>5
    <3>2. \A x : <<x>> # <<>>
      OBVIOUS
    <3> QED BY <3>1, <3>2
  <2>2. \A i : ~UnderWay(i)
    BY <1>5 DEF UnderWay
  <2>3. \A i : (Due(PageOf(i)) => Due(PageOf(i))') /\ PageOf(i)' = PageOf(i)
    BY <1>1 DEF Due, PageOf
  <2> QED BY <1>0, <1>1, <2>1, <2>2, <2>3 DEF Fresh, Busy
<1>6. CASE SendingSettings
  <2>1. Byte = [setup |-> 0] /\ length = 1
    BY <1>0, <1>6, Transfers DEF Byte, SendingSettings
  <2>2. \A p : buffer # Data(p)
    BY <1>6, Transfers DEF SendingSettings
  <2>3. line' = <<[setup |-> 0]>> /\ ~enabled'
    <3>1. length # 0 /\ length = 1
      BY <2>1
    <3> QED BY <1>1, <2>1, <3>1
  <2>4. SendingSettings'
    BY <1>1, <1>6, <2>3 DEF SendingSettings
  <2> QED BY <1>0, <1>1, <1>4, <1>5, <2>1, <2>2, <2>4 DEF DisplayInv, Sending
<1>7. ASSUME NEW p \in PageNos, SendingAddress(p) PROVE DisplayInv'
  <2>1. /\ buffer = Address(p) /\ pin = "command" /\ LeadsPage(calls, p)
        /\ \/ pos = 0 /\ length = 2
           \/ pos = 1 /\ length = 1 /\ row = p
    BY <1>0, <1>7 DEF SendingAddress
  <2>2. \A q : buffer # Data(q)
    BY <2>1, Transfers
  <2>3. CASE pos = 0 /\ length = 2
    <3>1. Byte = [row |-> p]
      BY <2>1, <2>3, Transfers DEF Byte
    <3>2. length - 1 = 1 /\ 1 % LenMod = 1 /\ length # 0 /\ length # 1
      BY <1>2, <1>3, <2>3
    <3>3. line' = <<[row |-> p]>> /\ pos' = 1 /\ length' = 1 /\ enabled' = TRUE
      <4>1. pos + 1 = 1 /\ (length - 1) % LenMod = 1
        BY <2>3, <3>2
      <4> QED BY <1>1, <3>1, <3>2, <4>1
    <3>4. SendingAddress(p)'
      BY <1>1, <2>1, <3>3 DEF SendingAddress
    <3> QED BY <1>0, <1>1, <1>4, <1>5, <2>2, <3>2, <3>4 DEF DisplayInv, Sending
  <2>4. CASE pos = 1 /\ length = 1 /\ row = p
    <3>1. Byte = [col |-> 0]
      BY <2>1, <2>4, Transfers DEF Byte
    <3>2. line' = <<[col |-> 0]>> /\ ~enabled'
      <4>1. length # 0 /\ length = 1
        BY <2>4
      <4> QED BY <1>1, <3>1, <4>1
    <3>3. SendingAddress(p)'
      BY <1>1, <2>1, <2>4, <3>2 DEF SendingAddress
    <3> QED BY <1>0, <1>1, <1>4, <1>5, <2>2, <2>4, <3>3 DEF DisplayInv, Sending
  <2> QED BY <2>1, <2>3, <2>4
<1>8. ASSUME NEW p \in PageNos, SendingData(p) PROVE DisplayInv'
  <2> DEFINE at == p * Columns + pos
  <2>0. /\ buffer = Data(p) /\ pos \in 0 .. Columns - 1 /\ length = Columns - pos
        /\ pin = "data" /\ row = p /\ col = pos /\ LeadsNoPage(calls)
    BY <1>0, <1>2, <1>8 DEF SendingData
  <2>1. at \in Frame /\ PageOf(at) = p
    BY <2>0, FrameIndex
  <2>2. Byte = [dots |-> b[at]]
    BY <2>0, <2>1, Transfers DEF Byte
  <2>3. length # 0 /\ length - 1 = Columns - (pos + 1) /\ (length # 1 <=> pos + 1 # Columns)
        /\ length - 1 \in Nat /\ length - 1 < LenMod
    BY <1>2, <2>0
  <2> HIDE DEF at
  <2>4. /\ line' = <<[dots |-> b[at]]>> /\ pos' = pos + 1
        /\ length' = Columns - (pos + 1) /\ (enabled' <=> pos + 1 # Columns)
    BY <1>1, <1>3, <2>2, <2>3
  <2>5. b[at] \in Dots
    BY <1>0, <2>1 DEF DisplayTypes
  <2>6. pos + 1 \in 0 .. Columns /\ pos + 1 # 0 /\ pos = (pos + 1) - 1
    BY <1>2, <2>0
  <2>7. SendingData(p)'
    <3>1. b'[p * Columns + (pos' - 1)] = b[at]
      BY <1>1, <2>4, <2>6 DEF at
    <3> QED BY <1>1, <2>0, <2>4, <2>5, <2>6, <3>1 DEF SendingData
  <2>8. Busy'
    BY <2>4 DEF Busy
  <2>9. Fresh'
    <3>1. ASSUME NEW i \in Frame, UnderWay(i) PROVE UnderWay(i)'
      <4>1. buffer = Data(PageOf(i)) /\ i >= PageOf(i) * Columns + pos
        BY <1>0, <3>1 DEF UnderWay
      <4>2. PICK q \in PageNos : q = PageOf(i)
        BY FrameIndex
      <4>3. q * Columns = p * Columns
        <5>1. Data(q) = Data(p)
          BY <2>0, <4>1, <4>2
        <5>2. Data(q).start = q * Columns /\ Data(p).start = p * Columns
          BY Transfers
        <5> QED BY <5>1, <5>2
      <4>4. PICK n \in Nat : n = p * Columns
        BY <1>2 DEF PageNos
      <4>5. i >= n + pos /\ i \in Nat /\ pos \in Nat
        BY <2>0, <4>1, <4>2, <4>3, <4>4 DEF Frame
      <4>6. CASE i = n + pos
        <5>1. i = n + ((pos + 1) - 1) /\ line' # <<>>
          BY <2>4, <4>5, <4>6
        <5> QED BY <1>1, <2>4, <2>8, <4>1, <4>2, <4>3, <4>4, <5>1 DEF UnderWay, PageOf
      <4>7. CASE i # n + pos
        <5>1. i >= n + (pos + 1)
          BY <4>5, <4>7
        <5> QED BY <1>1, <2>4, <2>8, <4>1, <4>2, <4>3, <4>4, <5>1 DEF UnderWay, PageOf
      <4> QED BY <4>6, <4>7
    <3>2. \A i \in Frame : Due(PageOf(i)) => Due(PageOf(i))'
      BY <1>1 DEF Due, PageOf
    <3>3. \A i \in Frame : PageOf(i)' = PageOf(i)
      BY DEF PageOf
    <3> QED BY <1>0, <1>1, <3>1, <3>2, <3>3 DEF Fresh
  <2> QED BY <1>0, <1>1, <1>4, <2>7, <2>8, <2>9 DEF DisplayInv, Sending
<1> QED BY <1>0, <1>6, <1>7, <1>8 DEF Sending

\* The LCD takes the byte on its way.
LEMMA TakeStep == ASSUME DisplayInv, LcdTakes PROVE DisplayInv'
<1>0. /\ DisplayTypes /\ Addressed(calls) /\ Sending /\ Fresh
      /\ line # <<>> /\ step = "mode"
  BY DEF DisplayInv, LcdTakes, Starting, Busy
<1>1. /\ UNCHANGED <<a, b, state, page, calls, step, pin, buffer, pos, length, enabled>>
      /\ line' = <<>>
      /\ IF pin = "data" THEN TakeDots(Head(line)) ELSE TakeCommand(Head(line))
  BY DEF LcdTakes, frameVars, callVars
<1>2. Columns \in Nat \ {0}
  BY DisplayAssumption
<1>3. ASSUME ram' = ram, \A p : buffer # Data(p) PROVE Fresh' /\ DisplayTypes'
  <2>1. Fresh'
    BY <1>0, <1>1, <1>3 DEF Fresh, UnderWay, Due, PageOf
  <2>2. DisplayTypes'
    BY <1>0, <1>1, <1>3 DEF DisplayTypes
  <2> QED BY <2>1, <2>2
<1>4. Busy' <=> enabled
  BY <1>1 DEF Busy
<1>5. CASE SendingSettings
  <2>1. line = <<[setup |-> 0]>> /\ ~enabled /\ pin # "data"
    BY <1>0, <1>5 DEF SendingSettings
  <2>2. Head(line) = [setup |-> 0]
    BY <2>1
  <2>3. TakeCommand([setup |-> 0])
    BY <1>1, <2>1, <2>2
  <2>4. ram' = ram
    BY <2>3, Received
  <2>5. Ready' /\ \A p : buffer # Data(p)
    BY <1>1, <1>5, Transfers DEF Ready, SendingSettings
  <2> QED BY <1>0, <1>1, <1>3, <1>4, <2>1, <2>4, <2>5 DEF DisplayInv
<1>6. ASSUME NEW p \in PageNos, SendingAddress(p) PROVE DisplayInv'
  <2>1. /\ buffer = Address(p) /\ pin = "command" /\ pin # "data" /\ LeadsPage(calls, p)
        /\ \/ pos = 1 /\ length = 1 /\ enabled /\ line = <<[row |-> p]>>
           \/ ~enabled /\ row = p /\ line = <<[col |-> 0]>>
    BY <1>0, <1>6 DEF SendingAddress
  <2>2. \A q : buffer # Data(q)
    BY <2>1, Transfers
  <2>3. CASE pos = 1 /\ length = 1 /\ enabled /\ line = <<[row |-> p]>>
    <3>1. TakeCommand([row |-> p])
      BY <1>1, <2>1, <2>3
    <3>2. row' = p /\ ram' = ram
      BY <3>1, Received
    <3>3. SendingAddress(p)'
      BY <1>1, <2>1, <2>3, <3>2 DEF SendingAddress
    <3> QED BY <1>0, <1>1, <1>3, <1>4, <2>2, <2>3, <3>2, <3>3 DEF DisplayInv, Sending
  <2>4. CASE ~enabled /\ row = p /\ line = <<[col |-> 0]>>
    <3>1. TakeCommand([col |-> 0])
      BY <1>1, <2>1, <2>4
    <3>2. row' = p /\ ram' = ram /\ col' = 0
      BY <2>4, <3>1, Received
    <3>3. Ready'
      BY <1>1, <2>1, <3>2 DEF Ready
    <3> QED BY <1>0, <1>1, <1>3, <1>4, <2>2, <2>4, <3>2, <3>3 DEF DisplayInv
  <2> QED BY <2>1, <2>3, <2>4
<1>7. ASSUME NEW p \in PageNos, SendingData(p) PROVE DisplayInv'
  <2>0. /\ buffer = Data(p) /\ pin = "data" /\ row = p /\ LeadsNoPage(calls)
        /\ pos \in 1 .. Columns /\ length = Columns - pos /\ (enabled <=> pos # Columns)
        /\ col = pos - 1
    BY <1>0, <1>2, <1>7 DEF SendingData
  <2>1. PICK d \in Dots : /\ line = <<[dots |-> d]>>
                          /\ d = b[p * Columns + (pos - 1)] \/ Due(p)
    BY <1>0, <1>7 DEF SendingData
  <2>2. PICK c \in 0 .. Columns - 1 : c = pos - 1
    BY <1>2, <2>0
  <2> DEFINE at == p * Columns + c
  <2>3. at \in Frame /\ PageOf(at) = p
    BY FrameIndex
  <2> HIDE DEF at
  <2>4. TakeDots([dots |-> d]) /\ col < Columns
    <3>1. Head(line) = [dots |-> d]
      BY <2>1
    <3>2. TakeDots(Head(line))
      BY <1>1, <2>0
    <3>3. col < Columns
      BY <1>2, <2>0, <2>2
    <3> QED BY <3>1, <3>2, <3>3
  <2>5. /\ ram' = [ram EXCEPT ![at] = d] /\ col' = pos /\ row' = p
    <3>1. /\ ram' = [ram EXCEPT ![row * Columns + col] = d]
          /\ col' = col + 1 /\ row' = row
      BY <2>4, Received
    <3>2. col = c /\ col + 1 = pos
      BY <2>0, <2>2
    <3> QED BY <2>0, <3>1, <3>2 DEF at
  <2>6. /\ ram' \in [Frame -> Dots] /\ ram'[at] = d
        /\ \A i \in Frame : i # at => ram'[i] = ram[i]
    BY <1>0, <2>3, <2>5 DEF DisplayTypes
  <2>7. DisplayTypes'
    BY <1>0, <1>1, <2>6 DEF DisplayTypes
  <2>8. enabled => SendingData(p)'
    BY <1>1, <2>0, <2>5 DEF SendingData
  <2>9. Ready'
    BY <1>1, <2>0 DEF Ready
  <2>10. ASSUME NEW i \in Frame, UnderWay(i) PROVE ram'[i] = b[i] \/ UnderWay(i)' \/ Due(PageOf(i))
    <3>1. /\ buffer = Data(PageOf(i))
          /\ \/ i >= PageOf(i) * Columns + pos
             \/ i = PageOf(i) * Columns + (pos - 1)
      BY <2>10 DEF UnderWay
    <3>2. PICK q \in PageNos : q = PageOf(i) /\ i < q * Columns + Columns
      BY FrameIndex
    <3>3. q * Columns = p * Columns
      <4>1. Data(q) = Data(p)
        BY <2>0, <3>1, <3>2
      <4>2. Data(q).start = q * Columns /\ Data(p).start = p * Columns
        BY Transfers
      <4> QED BY <4>1, <4>2
    <3>4. CASE i >= PageOf(i) * Columns + pos
      <4>1. PICK n \in Nat : n = p * Columns
        BY <1>2 DEF PageNos
      <4>2. i \in Nat /\ i >= n + pos /\ i < n + Columns
        BY <3>2, <3>3, <3>4, <4>1 DEF Frame
      <4>3. enabled
        BY <1>2, <2>0, <4>2
      <4> QED BY <1>1, <3>1, <3>4, <4>3 DEF UnderWay, PageOf, Busy
    <3>5. CASE i = PageOf(i) * Columns + (pos - 1)
      <4>1. i = at /\ i = p * Columns + (pos - 1)
        BY <2>2, <3>2, <3>3, <3>5 DEF at
      <4>2. PageOf(i) = p
        BY <2>3, <4>1
      <4> QED BY <2>1, <2>6, <4>1, <4>2
    <3> QED BY <3>1, <3>4, <3>5
  <2>11. Fresh'
    <3>1. ASSUME NEW i \in Frame, state = "run"
          PROVE  ram'[i] = b'[i] \/ Due(PageOf(i))' \/ UnderWay(i)'
      <4>0. Due(PageOf(i)) => Due(PageOf(i))'
        BY <1>1 DEF Due, PageOf
      <4>1. CASE UnderWay(i)
        BY <1>1, <2>10, <4>0, <4>1
      <4>2. CASE ram[i] = b[i] /\ ~UnderWay(i)
        <5>1. i # at
          <6>1. PageOf(at) * Columns + (pos - 1) = at
            BY <2>2, <2>3 DEF at
          <6> QED BY <1>0, <2>0, <2>3, <4>2, <6>1 DEF UnderWay, Busy
        <5> QED BY <1>1, <2>6, <4>2, <5>1
      <4> QED BY <1>0, <3>1, <4>0, <4>1, <4>2 DEF Fresh
    <3>2. \A i \in Frame : PageOf(i)' = PageOf(i)
      BY DEF PageOf
    <3> QED BY <1>1, <3>1, <3>2 DEF Fresh
  <2> QED BY <1>0, <1>1, <1>4, <2>7, <2>8, <2>9, <2>11 DEF DisplayInv, Sending
<1> QED BY <1>0, <1>5, <1>6, <1>7 DEF Sending

LEMMA TaskStep == ASSUME DisplayInv, InitDisplay \/ RunTask \/ Draw PROVE DisplayInv'
<1>0. /\ DisplayTypes /\ Addressed(calls) /\ (step # "mode" => Starting)
      /\ (Busy => Sending) /\ (~Busy => Ready) /\ Fresh /\ calls = <<>>
  BY DEF DisplayInv, InitDisplay, RunTask, Draw
<1>1. /\ UNCHANGED <<step, pin, buffer, pos, length, enabled, line, ram, row, col>>
      /\ step = "mode"
  BY <1>0 DEF InitDisplay, RunTask, Draw, callVars, spiVars, lcdVars, Starting
<1>2. \A q : ~LeadsPage(calls, q)
  BY <1>0 DEF LeadsPage
\* With a list that begins a page or is empty, what the port does goes on.
<1>3. ASSUME LeadsNoPage(calls'), \A i \in Frame : b'[i] = b[i] \/ Due(PageOf(i))'
      PROVE  (Busy' => Sending') /\ (~Busy' => Ready') /\ (step' # "mode" => Starting')
  <2>1. Ready'
    BY <1>3 DEF Ready
  <2>2. SendingSettings => SendingSettings'
    BY <1>1, <1>3 DEF SendingSettings
  <2>3. \A p : ~SendingAddress(p)
    BY <1>2 DEF SendingAddress
  <2>4. ASSUME NEW p \in PageNos, SendingData(p) PROVE SendingData(p)'
    <3>1. ASSUME NEW d \in Dots, d = b[p * Columns + (pos - 1)] \/ Due(p),
                 pos \in 0 .. Columns, pos # 0
          PROVE  d = b'[p * Columns + (pos - 1)] \/ Due(p)'
      <4>1. PICK c \in 0 .. Columns - 1 : c = pos - 1
        BY <3>1, DisplayAssumption
      <4>2. p * Columns + c \in Frame /\ PageOf(p * Columns + c) = p
        BY FrameIndex
      <4>3. ~Due(p)
        BY <1>0 DEF Due
      <4> QED BY <1>3, <3>1, <4>1, <4>2, <4>3
    <3> QED BY <1>1, <1>3, <2>4, <3>1 DEF SendingData
  <2>5. Sending => Sending'
    BY <2>2, <2>3, <2>4 DEF Sending
  <2> QED BY <1>0, <1>1, <2>1, <2>5 DEF Busy
<1>4. CASE InitDisplay
  <2>1. /\ calls' = <<Settings>> \o EveryPage /\ state' = "run" /\ UNCHANGED <<a, b, page>>
    BY <1>4 DEF InitDisplay
  <2>2. /\ calls' \in Seq(Queue) /\ Addressed(calls') /\ LeadsNoPage(calls')
        /\ \A p \in PageNos : Due(p)'
    BY <2>1, AllAddressed DEF Due
  <2>3. DisplayTypes'
    BY <1>0, <1>1, <2>1, <2>2 DEF DisplayTypes
  <2>4. Fresh'
    BY <2>2, FrameIndex DEF Fresh, PageOf
  <2>5. \A i \in Frame : b'[i] = b[i] \/ Due(PageOf(i))'
    BY <2>1
  <2> QED BY <1>3, <2>2, <2>3, <2>4, <2>5 DEF DisplayInv
<1>5. CASE RunTask /\ UNCHANGED <<b, calls>>
  <2>1. UNCHANGED <<a, b, state, calls>> /\ page' \in PageNos
    <3>1. page' = IF page + 1 >= Pages THEN 0 ELSE page + 1
      BY <1>5 DEF RunTask
    <3>2. page \in PageNos
      BY <1>0 DEF DisplayTypes
    <3> QED BY <1>5, <3>1, <3>2, DisplayAssumption DEF RunTask, PageNos
  <2>2. DisplayTypes'
    BY <1>0, <1>1, <2>1 DEF DisplayTypes
  <2>3. Fresh'
    BY <1>0, <1>1, <2>1, FreshKept DEF Fresh
  <2>4. LeadsNoPage(calls')
    BY <1>0, <2>1 DEF LeadsNoPage
  <2> QED BY <1>0, <1>3, <2>1, <2>2, <2>3, <2>4 DEF DisplayInv
<1>6. CASE RunTask /\ b' = Copied(page) /\ calls' = SetPage(page)
  <2>0. page \in PageNos
    BY <1>0 DEF DisplayTypes
  <2>1. UNCHANGED <<a, state>> /\ page' \in PageNos /\ state = "run"
    <3>1. page' = IF page + 1 >= Pages THEN 0 ELSE page + 1
      BY <1>6 DEF RunTask
    <3> QED BY <1>6, <2>0, <3>1, DisplayAssumption DEF RunTask, PageNos
  <2>2. /\ calls' \in Seq(Queue) /\ Addressed(calls') /\ LeadsNoPage(calls')
        /\ Len(calls') = 2 /\ calls'[2] = Data(page)
    BY <1>6, <2>0, PageAddressed
  <2>3. b' \in [Frame -> Dots] /\ \A i \in Frame : PageOf(i) # page => b'[i] = b[i]
    BY <1>0, <1>6 DEF Copied, DisplayTypes
  <2>4. DisplayTypes'
    BY <1>0, <1>1, <2>1, <2>2, <2>3 DEF DisplayTypes
  <2>5. Fresh'
    <3>1. ASSUME NEW i \in Frame
          PROVE  ram'[i] = b'[i] \/ Due(PageOf(i))' \/ UnderWay(i)'
      <4>1. CASE PageOf(i) = page
        <5>1. 2 \in 1 .. Len(calls') /\ calls'[2] = Data(PageOf(i))
          BY <2>2, <4>1
        <5> QED BY <5>1 DEF Due, PageOf
      <4>2. CASE PageOf(i) # page
        <5>1. ~Due(PageOf(i))
          BY <1>0 DEF Due
        <5>2. ram[i] = b[i] \/ UnderWay(i)
          BY <1>0, <2>1, <5>1 DEF Fresh
        <5> QED BY <1>1, <2>3, <4>2, <5>2 DEF UnderWay, PageOf, Busy
      <4> QED BY <4>1, <4>2
    <3> QED BY <3>1 DEF Fresh, PageOf
  <2>6. \A i \in Frame : b'[i] = b[i] \/ Due(PageOf(i))'
    <3>1. PICK q \in PageNos : q = page
      BY <2>0
    <3>2. 2 \in 1 .. Len(calls') /\ calls'[2] = Data(q)
      BY <2>2, <3>1
    <3>3. Due(q)'
      BY <3>2 DEF Due
    <3>4. ASSUME NEW i \in Frame PROVE b'[i] = b[i] \/ Due(PageOf(i))'
      <4>1. CASE PageOf(i) = q
        BY <3>3, <4>1 DEF Due, PageOf
      <4> QED BY <2>3, <3>1, <4>1
    <3> QED BY <3>4
  <2> QED BY <1>3, <2>2, <2>4, <2>5, <2>6 DEF DisplayInv
<1>7. CASE Draw
  <2>1. UNCHANGED <<b, state, page, calls>>
    BY <1>7 DEF Draw, callVars
  <2>2. a' \in [Frame -> Dots]
    <3>1. PICK first \in Frame, last \in Frame, dots \in Dots :
            a' = [i \in Frame |-> IF i \in first .. last THEN dots ELSE a[i]]
      BY <1>7 DEF Draw
    <3> QED BY <1>0, <3>1 DEF DisplayTypes
  <2>3. DisplayTypes'
    BY <1>0, <1>1, <2>1, <2>2 DEF DisplayTypes
  <2>4. Fresh'
    BY <1>0, <1>1, <2>1, FreshKept DEF Fresh
  <2>5. LeadsNoPage(calls')
    BY <1>0, <2>1 DEF LeadsNoPage
  <2> QED BY <1>0, <1>3, <2>1, <2>3, <2>4, <2>5 DEF DisplayInv
<1> QED BY <1>4, <1>5, <1>6, <1>7 DEF RunTask

LEMMA DisplayStep ==
  ASSUME overtaken \/ DisplayInv, [DisplayNext]_displayVars PROVE overtaken' \/ DisplayInv'
<1>1. CASE UNCHANGED displayVars
  <2>1. UNCHANGED <<a, b, state, page, calls, step, pin, buffer, pos, length, enabled, line,
                    ram, row, col, overtaken>>
    BY <1>1 DEF displayVars, frameVars, callVars, spiVars, lcdVars
  <2> SUFFICES ASSUME DisplayInv PROVE DisplayInv'
    BY <2>1
  <2>2. DisplayTypes' /\ Fresh'
    BY <2>1, FreshKept DEF DisplayInv, DisplayTypes, Fresh
  <2>3. (step # "mode" => Starting') /\ (Busy => Sending') /\ (~Busy => Ready')
    BY <2>1 DEF DisplayInv, Starting, Sending, SendingSettings, SendingAddress,
                SendingData, Ready, Busy, Due
  <2> QED BY <2>1, <2>2, <2>3 DEF DisplayInv, Busy
<1>2. CASE DisplayNext
  <2>1. overtaken => overtaken'
    BY <1>2 DEF DisplayNext, Main, InitDisplay, RunTask, Draw, SetMode, SetBuffer,
                SetLength, EnableTx, TxInterrupt, LcdTakes
  <2>2. CASE DisplayInv /\ ~overtaken'
    BY <1>2, <2>2, TransferStep, InterruptStep, TakeStep, TaskStep DEF DisplayNext, Main
  <2> QED BY <2>1, <2>2
<1> QED BY <1>1, <1>2

LEMMA FreshShows == DisplayInv => ShowsCopy
<1> SUFFICES ASSUME DisplayInv, state = "run", calls = <<>>, ~Busy PROVE ram = b
  BY DEF ShowsCopy, CopyShown
<1>1. \A i \in Frame : ram[i] = b[i]
  <2>1. \A p : ~Due(p)
    BY DEF Due
  <2> QED BY <2>1 DEF DisplayInv, Fresh, UnderWay
<1> QED BY <1>1 DEF DisplayInv, DisplayTypes

\* Until main overtakes a transfer the LCD shows, between transfers, the copy marked as
\* sent: for any number of pages and columns and however drawing, the task, the
\* interrupt and the LCD alternate.
THEOREM LcdShowsCopy == DisplaySpec => []ShowsCopy
<1> DEFINE I == overtaken \/ DisplayInv
<1>1. DisplayStart => I
  BY DisplayStarts
<1>2. I /\ [DisplayNext]_displayVars => I'
  BY DisplayStep
<1>3. I => ShowsCopy
  BY FreshShows DEF ShowsCopy
<1> QED BY <1>1, <1>2, <1>3, PTL DEF DisplaySpec
=============================================================================
