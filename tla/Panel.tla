------------------------------- MODULE Panel --------------------------------
(***************************************************************************)
(* The control panel: svc_panel.c on the ARM, and the panel's own          *)
(* microcontroller (MCU) at the other end of UART 0, which is external.    *)
(* Both directions are queues of whole messages that drop their oldest     *)
(* when full, what RingTx and RingRx show of the buffers of dev_mcu.c.     *)
(* The service keeps a cache of the brightness it sent for each LED,       *)
(* toggles by it, joins the two words in which the MCU answers a request   *)
(* for the held buttons, and gives each event to the callback registered   *)
(* for its kind.                                                           *)
(***************************************************************************)
EXTENDS Naturals, SequencesExt

CONSTANTS
  Leds,    \* led_index
  Levels,  \* brightnesses an application sets; 0 is off
  Full,    \* the brightness 0xff
  TxLen,   \* MCU_TX_BUF_LEN: 512
  RxLen,   \* MCU_RX_BUF_LEN: 512
  MaxAsks  \* bound: requests for the held buttons

ASSUME PanelAssumption ==
  /\ Levels \subseteq Nat /\ Full \in Nat \ {0}
  /\ TxLen \in Nat \ {0} /\ RxLen \in Nat \ {0} /\ MaxAsks \in Nat

\* What a user does on the panel.  Buttons, encoders and the XY pad have each a
\* message and a callback of their own, like a knob outside continuous mode.
Inputs == {"knob", "pad"}

VARIABLES
  state,      \* of svc_panel_task: "init", "wait" inside _panel_init, "run"
  heldCallback,  \* whose p_held_buttons_callback is: "kernel" or "app"
  led,        \* g_led_current_brightness
  held,       \* held_buttons: the answers its two words are from, 0 before any
  tx, rx,     \* messages queued for the MCU, and received from it
  mcu,        \* external: what the MCU was set to, LEDs and trigger mode
  answers,    \* external: requests the MCU has answered with a low word ...
  highDue,    \* external: ... and whether the high word is still to be sent
  asked,      \* history: requests made and not yet answered by a callback
  asks,       \* history: requests ever made
  txDropped, rxDropped  \* history: a message was dropped from tx or from rx

mcuVars == <<mcu, answers, highDue>>
history == <<asks, txDropped>>
panelVars ==
  <<state, heldCallback, led, held, tx, rx, mcuVars, asked, history, rxDropped>>

\* _kernel_init registers the kernel's two callbacks before the panel's first task.
PanelStart ==
  /\ state = "init" /\ heldCallback = "kernel"
  /\ led = [l \in Leds |-> 0] /\ held = <<0, 0>>
  /\ tx = <<>> /\ rx = <<>>
  /\ mcu = [led |-> [l \in Leds |-> 0], continuous |-> FALSE]
  /\ answers = 0 /\ highDue = FALSE
  /\ asked = 0 /\ asks = 0
  /\ txDropped = FALSE /\ rxDropped = FALSE

-----------------------------------------------------------------------------
\* ring_buffer_put_force on a buffer of n messages.
Queued(q, m, n) == IF Len(q) < n THEN Append(q, m) ELSE Append(Tail(q), m)

\* dev_mcu_tx_enqueue.
Send(m) ==
  /\ tx' = Queued(tx, m, TxLen)
  /\ txDropped' = (txDropped \/ Len(tx) = TxLen)

\* _panel_init up to the wait for the MCU.
PanelInit ==
  /\ state = "init" /\ state' = "wait" /\ Send([id |-> "init"])
  /\ UNCHANGED <<heldCallback, led, held, rx, mcuVars, asked, asks, rxDropped>>

\* Calls of the application and of the kernel's tasks, once the kernel runs.
Calls == state = "run" /\ UNCHANGED <<state, held, rx, mcuVars, rxDropped>>

\* svc_panel_register_callback of the application for an event whose callback the
\* kernel registered before it.
Register ==
  /\ Calls /\ heldCallback' = "app"
  /\ UNCHANGED <<led, tx, asked, history>>

\* svc_panel_set_led.
SetLed(l, brightness) ==
  /\ Calls /\ led' = [led EXCEPT ![l] = brightness]
  /\ Send([id |-> "led", led |-> l, level |-> brightness])
  /\ UNCHANGED <<heldCallback, asked, asks>>

\* Mutant of ToggleLed: the cache is not updated.
ToggleLedForgets(l) ==
  /\ Calls
  /\ Send([id |-> "led", led |-> l, level |-> IF led[l] # 0 THEN 0 ELSE Full])
  /\ UNCHANGED <<led, heldCallback, asked, asks>>

\* svc_panel_toggle_led.
ToggleLed(l) ==
  LET brightness == IF led[l] # 0 THEN 0 ELSE Full
  IN /\ Calls /\ led' = [led EXCEPT ![l] = brightness]
     /\ Send([id |-> "led", led |-> l, level |-> brightness])
     /\ UNCHANGED <<heldCallback, asked, asks>>

\* svc_panel_set_trigger_mode.
SetTriggerMode(on) ==
  /\ Calls /\ Send([id |-> "mode", continuous |-> on])
  /\ UNCHANGED <<heldCallback, led, asked, asks>>

\* svc_panel_request_buttons.
RequestButtons ==
  /\ Calls /\ asks < MaxAsks /\ asks' = asks + 1 /\ asked' = asked + 1
  /\ Send([id |-> "buttons"])
  /\ UNCHANGED <<heldCallback, led>>

-----------------------------------------------------------------------------
\* What _panel_parse stores in held_buttons.
Stored(m) ==
  CASE m.id = "low" -> <<m.answer, held[2]>>
    [] m.id = "high" -> <<held[1], m.answer>>
    [] OTHER -> held

\* Mutant of Event: the low word already completes an answer.
EventEarly(m) ==
  CASE m.id = "event" /\ m.event = "knob" -> IF m.input = "pad" THEN "trigger" ELSE "knob"
    [] m.id = "event" /\ m.event # "knob" -> m.event
    [] m.id = "ack" -> "ack"
    [] m.id \in {"low", "high"} -> "held"
    [] OTHER -> "none"

\* The event whose callback _panel_parse calls for a message: a pad's message
\* has a knob's identity in continuous mode, and is told from one by its index;
\* the callback for the held buttons waits for the high word.
Event(m) ==
  CASE m.id = "event" /\ m.event = "knob" -> IF m.input = "pad" THEN "trigger" ELSE "knob"
    [] m.id = "event" /\ m.event # "knob" -> m.event
    [] m.id = "ack" -> "ack"
    [] m.id = "high" -> "held"
    [] OTHER -> "none"

\* Mutant of Task: the kernel's callback clears its registration.
TaskClears ==
  /\ state \in {"wait", "run"} /\ rx # <<>>
  /\ rx' = Tail(rx) /\ state' = "run"
  /\ held' = Stored(Head(rx))
  /\ LET answered == Event(Head(rx)) = "held"
     IN /\ asked' = IF answered /\ heldCallback # "none" THEN asked - 1 ELSE asked
        /\ heldCallback' = IF answered /\ heldCallback = "kernel" THEN "none" ELSE heldCallback
  /\ UNCHANGED <<led, tx, mcuVars, history, rxDropped>>

\* svc_panel_task, or the end of the wait in _panel_init: any message ends it.
\* The kernel's own callbacks register NULL, which changes nothing.
Task ==
  /\ state \in {"wait", "run"} /\ rx # <<>>
  /\ rx' = Tail(rx) /\ state' = "run"
  /\ held' = Stored(Head(rx))
  /\ asked' = IF Event(Head(rx)) = "held" /\ heldCallback # "none"
              THEN asked - 1 ELSE asked
  /\ UNCHANGED <<heldCallback, led, tx, mcuVars, history, rxDropped>>

-----------------------------------------------------------------------------
\* A message from the MCU, enqueued by _mcu_rx_callback.
Receive(m) ==
  /\ rx' = Queued(rx, m, RxLen)
  /\ rxDropped' = (rxDropped \/ Len(rx) = RxLen)

McuSteps == UNCHANGED <<state, heldCallback, led, held, asked, history>>

\* The user touches the panel; the MCU may already send before it is spoken to.
Input(i) ==
  /\ McuSteps /\ state # "init"
  /\ Receive([id |-> "event", input |-> i,
              event |-> IF i = "pad" /\ ~mcu.continuous THEN "trigger"
                        ELSE IF i = "pad" THEN "knob" ELSE i])
  /\ UNCHANGED <<tx, mcuVars>>

\* The MCU takes the next message; it answers the first and the requests.
McuTake ==
  /\ McuSteps /\ tx # <<>> /\ ~highDue
  /\ tx' = Tail(tx)
  /\ LET m == Head(tx)
     IN /\ mcu' = CASE m.id = "led" -> [mcu EXCEPT !.led[m.led] = m.level]
                    [] m.id = "mode" -> [mcu EXCEPT !.continuous = m.continuous]
                    [] OTHER -> mcu
        /\ highDue' = (m.id = "buttons")
        /\ answers' = IF m.id = "buttons" THEN answers + 1 ELSE answers
        /\ CASE m.id = "init" -> Receive([id |-> "ack"])
             [] m.id = "buttons" -> Receive([id |-> "low", answer |-> answers'])
             [] OTHER -> UNCHANGED <<rx, rxDropped>>

\* The second word of an answer.
McuHigh ==
  /\ McuSteps /\ highDue /\ highDue' = FALSE
  /\ Receive([id |-> "high", answer |-> answers])
  /\ UNCHANGED <<tx, mcu, answers>>

Mcu == McuTake \/ McuHigh
PanelNext ==
  \/ PanelInit \/ Task \/ Mcu \/ Register \/ RequestButtons
  \/ \E l \in Leds : ToggleLed(l) \/ \E brightness \in Levels : SetLed(l, brightness)
  \/ \E on \in BOOLEAN : SetTriggerMode(on)
  \/ \E i \in Inputs : Input(i)

\* The kernel's task polls the panel on every pass, and the MCU takes what it is sent.
PanelSpec == PanelStart /\ [][PanelNext]_panelVars
PanelFairSpec ==
  PanelSpec /\ WF_panelVars(PanelInit) /\ WF_panelVars(Task) /\ WF_panelVars(Mcu)

-----------------------------------------------------------------------------
\* The brightness an LED will have when the MCU has taken all that is queued.
Coming(l) ==
  LET p == SelectLastInSeq(tx, LAMBDA m : m.id = "led" /\ m.led = l)
  IN IF p = 0 THEN mcu.led[l] ELSE tx[p].level

\* The cache is what the panel shows or is about to show, however sets and
\* toggles follow each other faster than they are sent, until the queue overruns.
CacheCoherent == ~txDropped => \A l \in Leds : led[l] = Coming(l)

\* Each callback gets what is its own, however requests, answers, other events and
\* changes of the trigger mode interleave: the held buttons callback two words of
\* one answer, unless the receive buffer overran; the trigger callback a pad's
\* events and no other's, and the knob callback a knob's.
CallbacksExact ==
  /\ rx # <<>> /\ Event(Head(rx)) = "held" /\ ~rxDropped =>
       LET words == Stored(Head(rx)) IN words[1] = words[2] /\ words[1] > 0
  /\ \A i \in 1 .. Len(rx) : rx[i].id = "event" =>
       Event(rx[i]) = IF rx[i].input = "pad" THEN "trigger" ELSE "knob"

\* Every request for the held buttons is answered by a callback, unless a message
\* is dropped on the way.
Answered == asked > 0 ~> (asked = 0 \/ txDropped \/ rxDropped)
=============================================================================
