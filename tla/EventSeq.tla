------------------------------ MODULE EventSeq ------------------------------
(***************************************************************************)
(* The loop sequencer of apps/sequencer: a circular doubly linked list of  *)
(* events in time order (event_seq.c), whose nodes come from a pool        *)
(* (seq_event_pool.c), recorded and played by the callbacks of sequencer.c.*)
(*                                                                         *)
(* The list is the sequence read from head by next.  An event is the       *)
(* number of its node in the pool: the program never releases a single     *)
(* node, so the pool hands its nodes out in order until it is initialised  *)
(* again, and `used` stands for the free list.  Everything here runs in    *)
(* the main loop; the hard part is the order in which ticks, recording,    *)
(* the transport and erasing may follow each other.                        *)
(***************************************************************************)
EXTENDS Naturals, FiniteSets, SequencesExt

CONSTANTS
  Step,       \* step_resolution, which is also the quantum: 6 ticks
  Steps,      \* steps of the loop: 32
  MaxEvents,  \* MAX_SEQ_EVENTS: 256
  AmountMod,  \* number of values of a step's uint8_t amount: 256
  Notes       \* channel and note of an event

ASSUME EventSeqAssumption ==
  /\ Step \in Nat \ {0, 1} /\ Steps \in Nat \ {0}
  /\ MaxEvents \in Nat \ {0} /\ AmountMod \in Nat \ {0}

Loop == Step * Steps   \* loop_length_ticks
Ids == 1 .. MaxEvents
NULL == 0

VARIABLES
  list, current,       \* the events from head on; the next event to check
  tick,                \* current_tick
  playing, recording,
  event,               \* the nodes: ts, note, on, peer
  used,                \* nodes taken from the pool
  amount,              \* step_event_amount
  late,                \* history: the events placed by a timestamp at or past the loop's end
  owed, plays, kept    \* history: events at the start of the pass, how often each
                       \* played in it, whether each completed pass played them all

seqVars == <<list, current, event, used, amount, late>>
passVars == <<owed, plays, kept>>
vars == <<seqVars, passVars, tick, playing, recording>>

Blank == [ts |-> 0, note |-> CHOOSE n \in Notes : TRUE, on |-> FALSE, peer |-> NULL]
Listed == ToSet(list)

\* SEQ_POOL_init and SEQ_init.
Init ==
  /\ list = <<>> /\ current = NULL /\ tick = 0
  /\ playing = FALSE /\ recording = FALSE
  /\ event = [i \in Ids |-> Blank] /\ used = 0
  /\ amount = [s \in 0 .. Steps |-> 0]
  /\ late = {} /\ owed = {} /\ plays = [i \in Ids |-> 0] /\ kept = TRUE

-----------------------------------------------------------------------------
\* _quantize_tick: to the nearest step, the middle rounded up.
Quantize(t) ==
  LET lower == (t \div Step) * Step
  IN IF t - lower >= Step \div 2 THEN lower + Step ELSE lower

\* Mutant of Place: the search for the place starts at the current event.
PlaceFromCurrent(l, ts, stored, e, evt) ==
  LET After(x) == ts < evt[x].ts
      from == IF current = NULL THEN 1 ELSE SelectInSeq(l, LAMBDA x : x = current)
      p == SelectInSubSeq(l, from, Len(l), After)
  IN CASE p # 0 -> InsertAt(l, p, e)
       [] p = 0 /\ l # <<>> /\ stored < evt[Head(l)].ts -> <<e>> \o l
       [] OTHER -> Append(l, e)

\* Where SEQ_add_event and SEQ_add_event_at_timestamp link event e into list l:
\* before the first event later than ts, else behind the last one; it becomes
\* the head if the timestamp stored in it is before the head's.
Place(l, ts, stored, e, evt) ==
  LET p == SelectInSeq(l, LAMBDA x : ts < evt[x].ts)
  IN CASE p # 0 -> InsertAt(l, p, e)
       [] p = 0 /\ l # <<>> /\ stored < evt[Head(l)].ts -> <<e>> \o l
       [] OTHER -> Append(l, e)

\* _changed: the amount of a note on's step.
Changed(a, ts, on) ==
  IF on THEN [a EXCEPT ![ts \div Step] = (@ + 1) % AmountMod] ELSE a

\* Mutant of FindMatching: a note on that already has its note off is accepted.
FindMatchingPaired(note) ==
  LET n == Len(list)
      i == SelectInSeq(list, LAMBDA x : x = current)
      back == [k \in 1 .. n |-> list[((i + n - k) % n) + 1]]
      k == SelectInSeq(back, LAMBDA x : event[x].on /\ event[x].note = note)
  IN CASE n = 0 -> NULL
       [] n = 1 -> list[1]
       [] n > 1 /\ k # 0 -> back[k]
       [] OTHER -> NULL

\* _SEQ_find_matching_note_on from the current event backwards: the first note
\* on of that note without a peer; the only event of a list of one in any case.
FindMatching(note) ==
  LET n == Len(list)
      i == SelectInSeq(list, LAMBDA x : x = current)
      back == [k \in 1 .. n |-> list[((i + n - k) % n) + 1]]
      k == SelectInSeq(back, LAMBDA x : /\ event[x].on /\ event[x].note = note
                                        /\ event[x].peer = NULL)
  IN CASE n = 0 -> NULL
       [] n = 1 -> list[1]
       [] n > 1 /\ k # 0 -> back[k]
       [] OTHER -> NULL

-----------------------------------------------------------------------------
\* _note_on_callback: SEQ_add_event of a new event at the quantized tick, which
\* is not reduced to the loop.
NoteOn(note) ==
  /\ recording /\ used < MaxEvents
  /\ LET e == used + 1
         ts == Quantize(tick)
     IN /\ event' = [event EXCEPT ![e] = [ts |-> ts, note |-> note, on |-> TRUE, peer |-> NULL]]
        /\ list' = Place(list, ts, ts, e, event)
        /\ current' = IF list = <<>> THEN e ELSE current
        /\ amount' = Changed(amount, ts, TRUE)
        /\ used' = e
  /\ UNCHANGED <<late, passVars, tick, playing, recording>>

\* _note_off_callback: SEQ_insert_note_off.  Without a matching note on the node
\* is neither inserted nor released.
NoteOff(note) ==
  /\ recording /\ used < MaxEvents
  /\ LET e == used + 1
         m == FindMatching(note)
         q == Quantize(tick)
         ts == IF q = event[m].ts THEN event[m].ts + Step - 1 ELSE q
         new == [ts |-> ts % Loop, note |-> note, on |-> FALSE, peer |-> m]
     IN /\ used' = e
        /\ IF m = NULL
           THEN /\ event' = [event EXCEPT ![e] = [Blank EXCEPT !.note = note]]
                /\ UNCHANGED <<list, late>>
           ELSE /\ event' = [event EXCEPT ![e] = new, ![m].peer = e]
                /\ list' = Place(list, ts, ts % Loop, e, event)
                /\ late' = IF ts >= Loop THEN late \cup {e} ELSE late
  /\ UNCHANGED <<current, amount, passVars, tick, playing, recording>>

\* _trigger_callback in sequencer mode: a note on at a step and its note off at
\* the next one, whether or not the sequencer records.  With one node left it is
\* taken and lost.
StepInsert(step, note) ==
  /\ used < MaxEvents
  /\ used' = IF used + 1 = MaxEvents THEN MaxEvents ELSE used + 2
  /\ IF used + 1 = MaxEvents
     THEN UNCHANGED <<list, current, event, amount, late>>
     ELSE LET on == used + 1
              off == used + 2
              ts == step * Step
              evt == [event EXCEPT
                       ![on] = [ts |-> ts, note |-> note, on |-> TRUE, peer |-> NULL],
                       ![off] = [ts |-> (ts + Step) % Loop, note |-> note, on |-> FALSE,
                                 peer |-> NULL]]
              first == Place(list, ts, ts, on, evt)
          IN /\ event' = evt
             /\ list' = Place(first, ts + Step, (ts + Step) % Loop, off, evt)
             /\ current' = IF list = <<>> THEN on ELSE current
             /\ amount' = Changed(amount, ts, TRUE)
             /\ late' = IF ts + Step >= Loop THEN late \cup {off} ELSE late
  /\ UNCHANGED <<passVars, tick, playing, recording>>

-----------------------------------------------------------------------------
\* The events a pass that starts now is to play.
Due == {e \in Listed : event[e].ts < Loop}
NoPlays == [i \in Ids |-> 0]

\* SEQ_start, also while playing.
Start ==
  /\ playing' = TRUE /\ tick' = 0
  /\ current' = IF list = <<>> THEN NULL ELSE Head(list)
  /\ owed' = Due /\ plays' = NoPlays
  /\ UNCHANGED <<list, event, used, amount, late, kept, recording>>

\* SEQ_stop and SEQ_record_toggle.
Stop == playing' = FALSE /\ UNCHANGED <<seqVars, passVars, tick, recording>>
RecordToggle == recording' = ~recording /\ UNCHANGED <<seqVars, passVars, tick, playing>>

\* Mutant of Erase: SEQ_clear leaves the steps' amounts.
EraseKeepsAmounts ==
  /\ list' = <<>> /\ current' = NULL
  /\ used' = 0 /\ event' = [i \in Ids |-> Blank]
  /\ late' = {} /\ owed' = {} /\ plays' = NoPlays /\ kept' = TRUE
  /\ UNCHANGED <<amount, tick, playing, recording>>

\* BUTTON_ERASE: SEQ_clear, which returns early on an empty list and leaves the
\* transport running, and SEQ_POOL_init.  A node's old contents are dead:
\* SEQ_POOL_get_event and the callbacks set them.
Erase ==
  /\ list' = <<>> /\ current' = NULL
  /\ amount' = IF list = <<>> THEN amount ELSE [s \in DOMAIN amount |-> 0]
  /\ used' = 0 /\ event' = [i \in Ids |-> Blank]
  /\ late' = {} /\ owed' = {} /\ plays' = NoPlays /\ kept' = TRUE
  /\ UNCHANGED <<tick, playing, recording>>

-----------------------------------------------------------------------------
\* The loop of SEQ_tick: from the current event on, the events of this tick, up
\* to the head; StopAt is the position of the first event it does not play.
From == SelectInSeq(list, LAMBDA x : x = current)
StopAt ==
  LET p == SelectInSubSeq(list, From, Len(list), LAMBDA x : event[x].ts # tick)
  IN IF p = 0 THEN Len(list) + 1 ELSE p
Fired == IF current = NULL THEN {} ELSE {list[i] : i \in From .. StopAt - 1}
NextCurrent ==
  CASE current = NULL -> NULL
    [] current # NULL /\ StopAt > Len(list) -> Head(list)
    [] OTHER -> list[StopAt]

Played == [i \in Ids |-> IF i \in Fired /\ plays[i] < 2 THEN plays[i] + 1 ELSE plays[i]]

\* Mutant of Tick: current is not taken back to the head at the end of the loop.
TickKeepsCurrent ==
  /\ playing
  /\ current' = NextCurrent
  /\ IF tick + 1 < Loop
     THEN /\ tick' = tick + 1 /\ plays' = Played /\ UNCHANGED <<owed, kept>>
     ELSE /\ tick' = 0
          /\ kept' = (kept /\ \A e \in owed : Played[e] = 1)
          /\ owed' = Due /\ plays' = NoPlays
  /\ UNCHANGED <<list, event, used, amount, late, playing, recording>>

\* SEQ_tick.
Tick ==
  /\ playing
  /\ IF tick + 1 < Loop
     THEN /\ tick' = tick + 1 /\ current' = NextCurrent
          /\ plays' = Played /\ UNCHANGED <<owed, kept>>
     ELSE /\ tick' = 0 /\ current' = IF list = <<>> THEN NULL ELSE Head(list)
          /\ kept' = (kept /\ \A e \in owed : Played[e] = 1)
          /\ owed' = Due /\ plays' = NoPlays
  /\ UNCHANGED <<list, event, used, amount, late, playing, recording>>

Next ==
  \/ \E note \in Notes : NoteOn(note) \/ NoteOff(note)
  \/ \E note \in Notes, step \in 0 .. Steps - 1 : StepInsert(step, note)
  \/ Start \/ Stop \/ RecordToggle \/ Erase \/ Tick

Spec == Init /\ [][Next]_vars

-----------------------------------------------------------------------------
\* "Insert keeping chronological order" (event_seq.c:111): no event is linked
\* behind a later one.  The code breaks this: a note off is placed by its timestamp
\* before it is reduced to the loop (event_seq.c:149-164).
Chronological ==
  \A i, j \in 1 .. Len(list) : i < j => event[list[i]].ts <= event[list[j]].ts

\* No event is linked twice, current is linked or there is none, and only an event
\* placed by a timestamp at or past the loop's end can be out of place: no other one
\* is linked behind a later event, whatever was recorded before it or since.
InOrder ==
  /\ IsInjective(list)
  /\ current \in Listed \cup {NULL} /\ (current = NULL <=> list = <<>>)
  /\ \A i, j \in 1 .. Len(list) :
       i < j /\ list[j] \notin late => event[list[i]].ts <= event[list[j]].ts

\* While no event is out of place, each pass through the loop plays every event that was
\* in the list when the pass began, once, whatever is recorded, stepped in or
\* stopped meanwhile: the current pointer skips none and visits none twice.
PassPlaysAll == late = {} => kept

\* The amount shown on a pad is the number of note ons of its step.
AmountExact ==
  \A s \in DOMAIN amount :
    amount[s] = Cardinality({e \in Listed : event[e].on /\ event[e].ts \div Step = s}) % AmountMod

\* "note on/off pairs": a recorded note off and a note on point at each other
\* and at no other, and until a timestamp passes the loop's end they are apart
\* in time, so that a note has a length.
Paired ==
  \A e \in Listed : event[e].peer # NULL =>
    LET p == event[e].peer
    IN /\ p \in Listed /\ event[p].peer = e /\ event[p].on # event[e].on
       /\ late = {} => event[p].ts # event[e].ts
=============================================================================
