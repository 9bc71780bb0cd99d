------------------------------ MODULE HostInput -------------------------------
(***************************************************************************)
(* virtio-input (src/virtio/input.rs) and the two host sources that feed it,   *)
(* the console's record reader and the window (src/main.rs).  A frame of       *)
(* events goes into the driver's buffers, one event each, with a final        *)
(* SYN_REPORT; an event that finds no buffer is dropped.                      *)
(*                                                                         *)
(* An event is its type, code and value; the tablet's position is one axis,    *)
(* scaled.  The eventq's lock is held for a whole frame, so a frame is one     *)
(* step and two frames never mix.                                             *)
(***************************************************************************)
EXTENDS Integers, Sequences, FiniteSets, SequencesExt

CONSTANTS Keys,      \* key codes of the keyboard, numbers
          Widths,    \* client widths of the window
          AxisMax,   \* ABS_AXIS_MAX
          Size,      \* buffers of the event queue
          MaxInput   \* bound on what the user does

InputAssumption ==
  /\ Keys \subseteq Nat /\ Widths \subseteq Nat \ {0}
  /\ AxisMax \in Nat \ {0} /\ Size \in Nat \ {0} /\ MaxInput \in Nat

Syn == <<"syn", 0, 0>>
NoPosition == AxisMax + 1
Sources == {"console", "window"}

VARIABLES
  source,          \* which of the two feeds the devices
  pressed,         \* the source's map of held keys
  cw,              \* the window's client width
  free,            \* event buffers the driver has posted
  queue,           \* events used and not yet read
  guestDown,       \* keys the guest believes held
  guestPos,        \* where the guest's pointer is
  lastAbs,         \* last_abs_x
  leds,            \* led_state, as the set of lit LEDs
  select,          \* cfg_select and cfg_subsel
  intact,          \* no event was dropped and no key was held at a restore
  ready, irq, inputs

guest == <<guestDown, guestPos>>
vars == <<source, pressed, cw, free, queue, guest, lastAbs, leds, select, intact,
          ready, irq, inputs>>

Init ==
  /\ source \in Sources /\ pressed = {} /\ cw \in Widths
  /\ free = 0 /\ queue = <<>> /\ guestDown = {} /\ guestPos = NoPosition
  /\ lastAbs = NoPosition /\ leds = {} /\ select = <<0, 0>>
  /\ intact = TRUE /\ ready = TRUE /\ irq = FALSE /\ inputs = 0

-----------------------------------------------------------------------------
(* Configuration space: what a select and a subsel answer                  *)

EvKey == 1
EvRel == 2
EvAbs == 3
EvLed == 17
IdName == 1
IdDevids == 3
EvBits == 17
AbsInfo == 18

\* fill_bits: a bitmap as long as its highest code needs.
BitmapSize(codes) == 1 + (CHOOSE c \in codes: \A d \in codes: d <= c) \div 8

\* fill_ev_bitmap: the codes of an event type, none if it is not supported.
EvCodes(kind, subsel) ==
  CASE kind = "keyboard" /\ subsel = EvKey -> 1..255
    [] kind = "keyboard" /\ subsel = EvLed -> 0..2
    [] kind = "tablet" /\ subsel = EvKey -> 272..274
    [] kind = "tablet" /\ subsel = EvRel -> {6, 8}
    [] kind = "tablet" /\ subsel = EvAbs -> {0, 1}
    [] OTHER -> {}

\* fill_payload: the size config_image reports; 0 makes the driver skip it.
PayloadSize(kind, sel, subsel) ==
  CASE sel = IdName -> (IF kind = "keyboard" THEN 16 ELSE 14)
    [] sel = IdDevids -> 8
    [] sel = EvBits /\ EvCodes(kind, subsel) # {} -> BitmapSize(EvCodes(kind, subsel))
    [] sel = AbsInfo /\ kind = "tablet" /\ subsel \in {0, 1} -> 20
    [] OTHER -> 0

\* write_config: bytes 0 and 1 are select and subsel, the rest read only.
WriteConfig(sel, subsel) ==
  /\ select # <<sel, subsel>> /\ inputs < MaxInput
  /\ select' = <<sel, subsel>> /\ inputs' = inputs + 1
  /\ UNCHANGED <<source, pressed, cw, free, queue, guest, lastAbs, leds, intact, ready, irq>>

-----------------------------------------------------------------------------
(* submit_frame                                                            *)

\* push_event until the buffers run out; the SYN is pushed like the others, so a
\* full ring loses the end of the frame.
SubmitFrame(events) ==
  LET all == events \o <<Syn>>
      sent == IF ~ready THEN 0 ELSE IF Len(all) < free THEN Len(all) ELSE free
  IN /\ queue' = queue \o SubSeq(all, 1, sent)
     /\ free' = free - sent
     /\ intact' = (intact /\ sent = Len(all))
     /\ irq' = (irq \/ sent > 0)

-----------------------------------------------------------------------------
(* The sources                                                             *)

\* Key transitions of both sources: value 2 repeats, and only a held key is
\* released.
KeyEvents(code, down) ==
  IF down THEN << <<"key", code, IF code \in pressed THEN 2 ELSE 1>> >>
  ELSE IF code \in pressed THEN << <<"key", code, 0>> >> ELSE <<>>

Key(code, down) ==
  /\ inputs < MaxInput /\ inputs' = inputs + 1
  /\ pressed' = (IF down THEN pressed \cup {code} ELSE pressed \ {code})
  /\ IF KeyEvents(code, down) = <<>> THEN UNCHANGED <<queue, free, intact, irq>>
     ELSE SubmitFrame(KeyEvents(code, down))
  /\ UNCHANGED <<source, cw, guest, lastAbs, leds, select, ready>>

\* Faulty: the keys are forgotten and their releases not sent.
FocusLossForgets ==
  /\ source = "window" /\ pressed # {}
  /\ pressed' = {} /\ UNCHANGED <<queue, free, intact, irq>>
  /\ UNCHANGED <<source, cw, guest, lastAbs, leds, select, ready, inputs>>

\* The window loses the focus: every held key is released, in one frame.
FocusLoss ==
  /\ source = "window" /\ pressed # {}
  /\ pressed' = {}
  /\ SubmitFrame([i \in 1..Cardinality(pressed) |-> <<"key", SetToSortSeq(pressed, <)[i], 0>>])
  /\ UNCHANGED <<source, cw, guest, lastAbs, leds, select, ready, inputs>>

\* push_abs and append_mouse_events: a pixel or a cell, clamped and scaled.
Scaled(x, width) ==
  LET cx == IF x < 0 THEN 0 ELSE IF x > width - 1 THEN width - 1 ELSE x
  IN IF width > 1 THEN (cx * AxisMax) \div (width - 1) ELSE 0

\* track_abs remembers the position even when the frame is dropped.
Pointer(x) ==
  /\ inputs < MaxInput /\ inputs' = inputs + 1
  /\ lastAbs' = Scaled(x, cw)
  /\ SubmitFrame(<< <<"abs", 0, Scaled(x, cw)>> >>)
  /\ UNCHANGED <<source, pressed, cw, guest, leds, select, ready>>

\* resync_pointer: the last position once more.
Resync ==
  /\ lastAbs # NoPosition /\ inputs < MaxInput /\ inputs' = inputs + 1
  /\ SubmitFrame(<< <<"abs", 0, lastAbs>> >>)
  /\ UNCHANGED <<source, pressed, cw, guest, lastAbs, leds, select, ready>>

Resized(w) ==
  /\ source = "window" /\ w # cw /\ inputs < MaxInput
  /\ cw' = w /\ inputs' = inputs + 1
  /\ UNCHANGED <<source, pressed, free, queue, guest, lastAbs, leds, select, intact, ready, irq>>

-----------------------------------------------------------------------------
(* The guest (external), and drain_status                                   *)

Post ==
  /\ ready /\ free + Len(queue) < Size
  /\ free' = Size - Len(queue)
  /\ UNCHANGED <<source, pressed, cw, queue, guest, lastAbs, leds, select, intact, ready, irq, inputs>>

\* What evdev makes of an event.
Apply(down, ev) == IF ev[1] = "key"
                   THEN IF ev[3] = 0 THEN down \ {ev[2]} ELSE down \cup {ev[2]}
                   ELSE down
Believes(down, events) == FoldLeft(Apply, down, events)
Moves(pos, events) == FoldLeft(LAMBDA p, ev: IF ev[1] = "abs" THEN ev[3] ELSE p, pos, events)

ReadEvents ==
  /\ irq
  /\ irq' = FALSE /\ queue' = <<>>
  /\ guestDown' = Believes(guestDown, queue) /\ guestPos' = Moves(guestPos, queue)
  /\ UNCHANGED <<source, pressed, cw, free, lastAbs, leds, select, intact, ready, inputs>>

\* handle_status_event.
SetLed(led, on) ==
  /\ ready /\ inputs < MaxInput /\ inputs' = inputs + 1
  /\ leds' = (IF on THEN leds \cup {led} ELSE leds \ {led})
  /\ UNCHANGED <<source, pressed, cw, free, queue, guest, lastAbs, select, intact, ready, irq>>

\* InputDevice::reset: the position is kept; the new driver knows of no key.
Reset ==
  /\ ready
  /\ ready' = FALSE /\ free' = 0 /\ queue' = <<>> /\ irq' = FALSE
  /\ leds' = {} /\ select' = <<0, 0>>
  /\ guestDown' = {} /\ guestPos' = NoPosition
  /\ intact' = (intact /\ pressed = {} /\ lastAbs = NoPosition)
  /\ UNCHANGED <<source, pressed, cw, lastAbs, inputs>>
Enable ==
  /\ ~ready /\ ready' = TRUE
  /\ UNCHANGED <<source, pressed, cw, free, queue, guest, lastAbs, leds, select, intact, irq, inputs>>

\* Faulty: the position stays behind.
RestoreForgetsAbs ==
  /\ ready
  /\ pressed' = {} /\ lastAbs' = NoPosition /\ intact' = (intact /\ pressed = {})
  /\ UNCHANGED <<source, cw, free, queue, guest, leds, select, ready, irq, inputs>>

\* DeviceState encoded and decoded in another process: everything in the device
\* survives, the source's map of held keys does not.
Restore ==
  /\ ready
  /\ pressed' = {} /\ intact' = (intact /\ pressed = {})
  /\ UNCHANGED <<source, cw, free, queue, guest, lastAbs, leds, select, ready, irq, inputs>>

-----------------------------------------------------------------------------
User == \/ \E code \in Keys, down \in BOOLEAN: Key(code, down)
        \/ \E x \in -1..3: Pointer(x)
        \/ FocusLoss \/ Resync \/ \E w \in Widths: Resized(w)
Guest == \/ Post \/ ReadEvents \/ Reset \/ Enable
         \/ \E led \in 0..1, on \in BOOLEAN: SetLed(led, on)
         \/ \E sel \in {IdName, EvBits}, subsel \in {0, EvKey}: WriteConfig(sel, subsel)
Next == User \/ Guest \/ Restore

Spec == Init /\ [][Next]_vars

-----------------------------------------------------------------------------
(* Properties                                                              *)

TypeOK ==
  /\ pressed \subseteq Keys /\ guestDown \subseteq Keys /\ free \in 0..Size
  /\ Len(queue) + free <= Size /\ lastAbs \in 0..NoPosition /\ guestPos \in 0..NoPosition
  /\ \A kind \in {"keyboard", "tablet"}: PayloadSize(kind, select[1], select[2]) \in 0..128

\* The guest's picture of the keyboard and the pointer is the host's: unless an
\* event was dropped for want of buffers, a driver was reset under held keys, or a
\* snapshot was taken with a key held, what the guest believes once it has read
\* what is queued is what the source holds pressed and the position last sent.
GuestMirrorsHost ==
  intact /\ ready => /\ Believes(guestDown, queue) = pressed
                     /\ Moves(guestPos, queue) = lastAbs

\* src/main.rs:4427 "Release any held keys so focus loss can't leave a key stuck
\* down": a window without held keys leaves none held in a guest that has read
\* its events, restores and resets apart.
FocusLossReleases ==
  [][FocusLoss => Believes(guestDown, queue') = {}]_vars
=============================================================================
