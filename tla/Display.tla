------------------------------ MODULE Display -------------------------------
(***************************************************************************)
(* The display after its reset: svc_display.c keeps two copies of the      *)
(* frame, the one applications draw in and the one the LCD has been sent.  *)
(* Each call of the task compares one page of the two and sends it if they *)
(* differ.  dev_lcd.c sends a page as a command and its columns, telling   *)
(* them apart by a pin; per_spi.c sends each by interrupt, byte by byte,   *)
(* from the caller's buffer.  Nothing waits for a transfer to end before   *)
(* the pin and the buffer are set for the next: a transfer may be overtaken.*)
(***************************************************************************)
EXTENDS Integers, Sequences

CONSTANTS
  Pages,     \* LCD_PAGES: 8
  Columns,   \* LCD_COLUMNS: 128
  LenMod,    \* number of values of tx_length, a uint32_t
  MaxDraws   \* bound: times an application draws

ASSUME DisplayAssumption ==
  /\ Pages \in Nat \ {0} /\ Columns \in Nat \ {0}
  /\ LenMod \in Nat \ {0} /\ Columns < LenMod
  /\ MaxDraws \in Nat

Frame == 0 .. Pages * Columns - 1   \* indices of a frame buffer
PageOf(i) == i \div Columns
PageNos == 0 .. Pages - 1
Dots == {0, 1}                      \* a column's eight dots, as one

VARIABLES
  a, b,             \* g_frame_buffer_a, _b
  state, page,      \* svc_display_task's state, its page_index
  calls, step,      \* transfers main has still to start, its place in the first
  buffer, pos,      \* tx_buffer: the transfer it points into and how far
  length, enabled,  \* tx_length; the transmit interrupt is enabled
  line,             \* the byte on its way to the LCD, or none
  pin,              \* what the LCD takes bytes for: "command" or "data"
  ram, row, col,    \* the LCD: its memory, its page and column address
  draws,            \* history: times the application has drawn, up to MaxDraws
  overtaken         \* history: main set the pin with a transfer under way

frameVars == <<a, b, state, page, draws>>
callVars == <<calls, step, pin>>
spiVars == <<buffer, pos, length, enabled, line>>
lcdVars == <<ram, row, col>>
displayVars == <<frameVars, callVars, spiVars, lcdVars, overtaken>>

\* A transfer: the mode its bytes are sent in, the command, or where in b it starts.
Command(cmd) == [mode |-> "command", bytes |-> cmd, start |-> 0, len |-> Len(cmd)]

\* dev_lcd_init's settings, and what dev_lcd_set_page sends for a page: its address
\* and its columns.
Settings == Command(<<[setup |-> 0]>>)
Address(p) == Command(<<[row |-> p], [col |-> 0]>>)
Data(p) == [mode |-> "data", bytes |-> <<>>, start |-> p * Columns, len |-> Columns]

\* Mutant of SetPage: the pin is left as for the command.
SetPageOneMode(p) == <<Address(p), [Data(p) EXCEPT !.mode = "command"]>>

\* dev_lcd_set_page.
SetPage(p) == <<Address(p), Data(p)>>

\* The transfers of all pages in their order.
EveryPage == [k \in 1 .. 2 * Pages |-> SetPage((k - 1) \div 2)[((k - 1) % 2) + 1]]

\* The LCD's memory holds anything when it is switched on.
DisplayStart ==
  /\ a = [i \in Frame |-> 0] /\ b = a
  /\ state = "init" /\ page = 0 /\ draws = 0
  /\ calls = <<>> /\ step = "mode" /\ pin = "command"
  /\ buffer = Command(<<>>) /\ pos = 0 /\ length = 0 /\ enabled = FALSE /\ line = <<>>
  /\ ram \in [Frame -> Dots] /\ row = 0 /\ col = 0
  /\ overtaken = FALSE

-----------------------------------------------------------------------------
\* _display_init: the LCD's settings, then every page.
InitDisplay ==
  /\ state = "init" /\ calls = <<>>
  /\ calls' = <<Settings>> \o EveryPage
  /\ state' = "run"
  /\ UNCHANGED <<a, b, page, draws, step, pin, spiVars, lcdVars, overtaken>>

Same(p) == \A i \in Frame : PageOf(i) = p => a[i] = b[i]
Copied(p) == [i \in Frame |-> IF PageOf(i) = p THEN a[i] ELSE b[i]]

\* Mutant of RunTask: the next page is compared, and another sent.
RunTaskSkips ==
  /\ state = "run" /\ calls = <<>>
  /\ IF Same(page)
     THEN UNCHANGED <<b, calls>>
     ELSE b' = Copied(page) /\ calls' = SetPage(page)
  /\ page' = IF page + 2 >= Pages THEN 0 ELSE page + 1
  /\ UNCHANGED <<a, state, draws, step, pin, spiVars, lcdVars, overtaken>>

\* STATE_RUN of svc_display_task: a page that differs is copied and sent.
RunTask ==
  /\ state = "run" /\ calls = <<>>
  /\ IF Same(page)
     THEN UNCHANGED <<b, calls>>
     ELSE b' = Copied(page) /\ calls' = SetPage(page)
  /\ page' = IF page + 1 >= Pages THEN 0 ELSE page + 1
  /\ UNCHANGED <<a, state, draws, step, pin, spiVars, lcdVars, overtaken>>

\* svc_display_put_pixel (first = last) and svc_display_fill_frame, which fills
\* whole columns in the order of the buffer.
Draw ==
  /\ calls = <<>> /\ draws < MaxDraws
  /\ \E first, last \in Frame, dots \in Dots :
       /\ first <= last
       /\ a' = [i \in Frame |-> IF i \in first .. last THEN dots ELSE a[i]]
  /\ draws' = draws + 1
  /\ UNCHANGED <<b, state, page, callVars, spiVars, lcdVars, overtaken>>

-----------------------------------------------------------------------------
\* The port has bytes to send, or one on its way.
Busy == enabled \/ line # <<>>

\* Main in _lcd_mode, whether the last transfer has ended or not ...
SetMode ==
  /\ calls # <<>> /\ step = "mode"
  /\ pin' = Head(calls).mode /\ step' = "buffer"
  /\ overtaken' = (overtaken \/ Busy)
  /\ UNCHANGED <<frameVars, calls, spiVars, lcdVars>>

\* ... and in per_spi_tx_int: the buffer ...
SetBuffer ==
  /\ step = "buffer" /\ step' = "length"
  /\ buffer' = Head(calls) /\ pos' = 0
  /\ UNCHANGED <<frameVars, calls, pin, length, enabled, line, lcdVars, overtaken>>

\* ... the length ...
SetLength ==
  /\ step = "length" /\ step' = "enable"
  /\ length' = Head(calls).len
  /\ UNCHANGED <<frameVars, calls, pin, buffer, pos, enabled, line, lcdVars, overtaken>>

\* ... and the interrupt.
EnableTx ==
  /\ step = "enable" /\ step' = "mode"
  /\ enabled' = TRUE /\ calls' = Tail(calls)
  /\ UNCHANGED <<frameVars, pin, buffer, pos, length, line, lcdVars, overtaken>>

\* The byte tx_buffer points to: a column is read from b when it is sent.  Beyond the
\* command or the frame is some other byte.
Byte ==
  CASE buffer.mode = "command" /\ pos < Len(buffer.bytes) -> buffer.bytes[pos + 1]
    [] buffer.mode = "data" /\ buffer.start + pos \in Frame -> [dots |-> b[buffer.start + pos]]
    [] OTHER -> [setup |-> 0]

\* _spi_isr, SPI_TX_BUF_EMPTY: one byte, and no more interrupts after the last.
TxInterrupt ==
  /\ enabled /\ line = <<>>
  /\ length' = (length - 1) % LenMod
  /\ IF length # 0
     THEN line' = <<Byte>> /\ pos' = pos + 1
     ELSE UNCHANGED <<line, pos>>
  /\ enabled' = (length # 1)
  /\ UNCHANGED <<frameVars, callVars, buffer, lcdVars, overtaken>>

\* The LCD takes a byte for a column's dots ...
TakeDots(byte) ==
  /\ \E dots \in Dots :
       /\ "dots" \in DOMAIN byte => dots = byte.dots
       /\ ram' = IF col < Columns THEN [ram EXCEPT ![row * Columns + col] = dots] ELSE ram
  /\ col' = IF col < Columns THEN col + 1 ELSE col
  /\ UNCHANGED row

\* ... or for a command: the settings, which are on dev_lcd_init's stack and may be
\* read after its return, and a column that is no command may be any.
TakeCommand(byte) ==
  /\ IF "row" \in DOMAIN byte \/ "col" \in DOMAIN byte
     THEN /\ row' = IF "row" \in DOMAIN byte THEN byte.row ELSE row
          /\ col' = IF "col" \in DOMAIN byte THEN byte.col ELSE col
     ELSE row' \in PageNos /\ col' \in 0 .. Columns
  /\ UNCHANGED ram

\* The LCD takes the byte, for what the pin says by now.
LcdTakes ==
  /\ line # <<>> /\ line' = <<>>
  /\ IF pin = "data" THEN TakeDots(Head(line)) ELSE TakeCommand(Head(line))
  /\ UNCHANGED <<frameVars, callVars, buffer, pos, length, enabled, overtaken>>

Main == InitDisplay \/ RunTask \/ SetMode \/ SetBuffer \/ SetLength \/ EnableTx
DisplayNext == Main \/ Draw \/ TxInterrupt \/ LcdTakes

\* The main loop keeps calling the task, and the port keeps sending.
DisplaySpec == DisplayStart /\ [][DisplayNext]_displayVars
DisplayFairSpec ==
  /\ DisplaySpec
  /\ WF_displayVars(Main) /\ WF_displayVars(TxInterrupt) /\ WF_displayVars(LcdTakes)

-----------------------------------------------------------------------------
\* "Send single page per task invocation" (svc_display.c:124): between transfers the
\* LCD shows the second frame.  It need not: the pin, the buffer and the length of a
\* transfer are set while the last may be under way (dev_lcd.c:168-172).
CopyShown == state = "run" /\ calls = <<>> /\ ~Busy => ram = b

\* As long as no transfer was overtaken the LCD does show the second frame, every
\* page of it as the application had drawn it when the task compared it: drawing
\* while a page is being sent tears nothing.
ShowsCopy == ~overtaken => CopyShown

\* Once the application stops drawing the LCD comes to show what it drew, for good,
\* unless a transfer is overtaken: a page lost so is taken for sent and not repeated.
Settles == <>[](ram = a) \/ <>overtaken
=============================================================================
