----------------------------- MODULE GpuDisplay -----------------------------
(***************************************************************************)
(* The guest's display, from the virtio-gpu commands of the vCPU to the     *)
(* pixels on the host's window: GpuDevice (virtio/gpu.rs) keeps the         *)
(* resources and presents the bound scanout, Scanout (scanout.rs) keeps the *)
(* latest picture and the spare buffers flushes draw on, Display            *)
(* (display.rs) coalesces repaints and blits, and the recorder (record.rs)  *)
(* holds pictures while it converts them.                                   *)
(*                                                                          *)
(* A resource is one row of pixels, so a rectangle is an interval           *)
(* <<lo, hi>> (hi excluded) and the bounding box of two is their hull. A    *)
(* pixel is the number of the transfer that wrote it; the conversion to     *)
(* BGRA permutes the channels of one pixel and is left out.                 *)
(***************************************************************************)
EXTENDS Integers, Sequences, FiniteSetsExt, TLC

CONSTANTS Ids,            \* resource ids a guest uses
          NoRes,          \* scanout_resource = 0
          Width,          \* width of the widest resource (MAX_DIM)
          MaxPixels,      \* MAX_TOTAL_RESOURCE_BYTES
          RECENT, SPARES, \* scanout.rs
          MaxCommands,    \* bounds: control commands in all,
          MaxTransfers, MaxFlushes, MaxRestores,  \* transfers, presents, restores,
          AfterRestore    \* and commands left to the guest after a restore

VARIABLES
  res,          \* GpuState.resources
  scanout,      \* scanout_resource and scanout_rect
  present_all, transferred,
  gpu,          \* the vCPU in a command: "idle", or "notify" after a flush
  pics,         \* the picture buffers (Frame)
  front, spares, recent, window_dirty,      \* Scanout's State
  held,         \* the buffer each reader holds
  paint_pending, posted,  \* WM_APP_PAINT: the coalescing flag, and the queue
  win,          \* the window thread: where it is, its size and what it shows
  redrawn,      \* history: the whole scanout as the last present saw it
  transfers, commands, restores

gpuVars == <<res, scanout, present_all, transferred>>
pictureVars == <<pics, front, spares, recent, window_dirty>>
windowVars == <<paint_pending, posted, win>>
countVars == <<transfers, commands, restores>>
vars == <<gpuVars, gpu, pictureVars, held, windowVars, redrawn, countVars>>

Readers == {"window", "recorder"}
NoBuf == 0
Bufs == 1 .. SPARES + 1 + Cardinality(Readers)
Px == 0 .. Width - 1
NoArea == <<0, 0>>
Rects == {<<a, b>> \in (0 .. Width) \X (0 .. Width): a < b}

GpuAssumption == /\ Width \in Nat \ {0} /\ RECENT \in Nat \ {0} /\ SPARES \in Nat
                 /\ {MaxPixels, MaxCommands, MaxTransfers, MaxFlushes, MaxRestores, AfterRestore} \subseteq Nat
                 /\ NoRes \notin Ids

\* The intervals of gpu.rs Rect and scanout.rs Area.
Fits(r, width) == r[1] < r[2] /\ r[2] <= width
Within(r, outer) ==
  LET lo == Max({r[1], outer[1]})
      hi == Min({r[2], outer[2]})
  IN IF lo < hi THEN <<lo - outer[1], hi - outer[1]>> ELSE NoArea
AreaUnion(a, b) == IF a = NoArea THEN b
                   ELSE IF b = NoArea THEN a
                   ELSE <<Min({a[1], b[1]}), Max({a[2], b[2]})>>
Full(width) == <<0, width>>
In(p, a) == a[1] <= p /\ p < a[2]

Blank == [p \in Px |-> 0]
NewFrame == [width |-> 0, seq |-> 0, px |-> Blank]
\* copy_to_bgra of the whole scanout: what a picture of it should show.
Redraw(r, rect) == [p \in Px |-> IF p < rect[2] - rect[1] THEN r.host[rect[1] + p] ELSE 0]

NoResources == [i \in {} |-> 0]
Unbound == [id |-> NoRes, rect |-> NoArea]

\* The device with the guest's resources r and the scanout s, nothing presented yet.
InitWith(r, s) ==
  /\ res = r /\ scanout = s
  /\ present_all = TRUE /\ transferred = NoArea
  /\ gpu = "idle"
  /\ pics = [b \in Bufs |-> NewFrame]
  /\ front = NoBuf /\ spares = <<>> /\ recent = <<>> /\ window_dirty = NoArea
  /\ held = [q \in Readers |-> NoBuf]
  /\ paint_pending = FALSE /\ posted = 0
  /\ win = [pc |-> "idle", size |-> Width, shown |-> Blank,
            invalid |-> NoArea, clip |-> NoArea]
  /\ redrawn = Blank
  /\ transfers = 0 /\ commands = 0 /\ restores = 0

Init == InitWith(NoResources, Unbound)
\* Later on: the guest's driver has created a resource, backed it and bound all of it.
InitBound == \E id \in Ids:
  InitWith(id :> [width |-> Width, host |-> Blank, backing |-> Width],
           [id |-> id, rect |-> Full(Width)])

-----------------------------------------------------------------------------
(* Scanout::flush.                                                         *)

\* Faulty: trusts a spare that is one flush too old.
ChangedSinceLate(seq) ==
  IF recent = <<>> \/ seq = 0 \/ seq + 2 < recent[1].seq THEN NoArea
  ELSE FoldSet(AreaUnion, NoArea,
               {recent[i].area: i \in {j \in 1 .. Len(recent): recent[j].seq > seq}})

\* State::changed_since: what the flushes after seq changed; NoArea when some are
\* forgotten (the caller then takes the whole frame).
ChangedSince(seq) ==
  IF recent = <<>> \/ seq = 0 \/ seq + 1 < recent[1].seq THEN NoArea
  ELSE FoldSet(AreaUnion, NoArea,
               {recent[i].area: i \in {j \in 1 .. Len(recent): recent[j].seq > seq}})

Spared == {spares[i]: i \in 1 .. Len(spares)}
HeldBufs == {held[r]: r \in Readers}

\* Faulty: a flush draws on the newest spare, whoever reads it.
BackAny == IF Spared # {}
           THEN CHOOSE b \in Spared: \A c \in Spared: pics[c].seq <= pics[b].seq
           ELSE Min(Bufs \ (HeldBufs \cup {front}))

\* The newest spare no reader holds, else a new buffer.
Back == LET free == Spared \ HeldBufs
        IN IF free # {}
           THEN CHOOSE b \in free: \A c \in free: pics[c].seq <= pics[b].seq
           ELSE Min(Bufs \ (Spared \cup HeldBufs \cup {front}))
\* A buffer nobody refers to is freed.
Live(p, used) == [b \in Bufs |-> IF b \in used THEN p[b] ELSE NewFrame]

FrontIs(width) == front # NoBuf /\ pics[front].width = width
FrontSeq == IF front = NoBuf THEN 0 ELSE pics[front].seq

\* fill draws `area` of the scanout (the picture `now`) on the back buffer, which first
\* catches up with the front outside the damage.
FlushScanout(width, damage, now) ==
  LET back == Back
      base == IF back \in Spared /\ pics[back].width = width THEN pics[back]
              ELSE [width |-> width, seq |-> 0, px |-> Blank]
      full == Full(width)
      area == IF FrontIs(width) THEN damage ELSE full
      since == ChangedSince(base.seq)
      stale == IF since = NoArea THEN full ELSE since
      copied == IF FrontIs(width) /\ damage # full
                THEN [p \in Px |-> IF In(p, stale) THEN pics[front].px[p] ELSE base.px[p]]
                ELSE base.px
      drawn == [p \in Px |-> IF In(p, area) THEN now[p] ELSE copied[p]]
      seq == FrontSeq + 1
      entry == [seq |-> seq, area |-> area]
      log == IF area = full THEN <<entry>> ELSE Append(recent, entry)
      left == SelectSeq(spares, LAMBDA b: b # back)
      kept == IF front = NoBuf THEN left ELSE Append(left, front)
      oldest == CHOOSE i \in 1 .. Len(kept):
                  \A j \in 1 .. Len(kept): pics[kept[i]].seq <= pics[kept[j]].seq
  IN /\ spares' = IF Len(kept) > SPARES
                  THEN SubSeq(kept, 1, oldest - 1) \o SubSeq(kept, oldest + 1, Len(kept))
                  ELSE kept
     /\ pics' = Live([pics EXCEPT ![back] = [width |-> width, seq |-> seq, px |-> drawn]],
                     HeldBufs \cup {back} \cup {spares'[i]: i \in 1 .. Len(spares')})
     /\ recent' = IF Len(log) > RECENT THEN Tail(log) ELSE log
     /\ window_dirty' = AreaUnion(IF area = full THEN NoArea ELSE window_dirty, area)
     /\ front' = back

-----------------------------------------------------------------------------
(* The control queue: one command at a time, under the device's locks.     *)

\* The vCPU takes the next command off the control queue (drain_control).
Command == /\ gpu = "idle" /\ commands < MaxCommands /\ commands' = commands + 1
\* One that draws nothing.
Setup == /\ Command
         /\ UNCHANGED <<gpu, pictureVars, held, windowVars, redrawn, transfers, restores>>

\* cmd_create_2d, with the cap on the shadows' bytes.
Create2d(id, w) ==
  /\ Setup /\ id \notin DOMAIN res
  /\ FoldSet(LAMBDA i, n: n + res[i].width, 0, DOMAIN res) + w <= MaxPixels
  /\ res' = res @@ (id :> [width |-> w, host |-> Blank, backing |-> 0])
  /\ UNCHANGED <<scanout, present_all, transferred>>

\* cmd_unref: a bound resource takes the binding with it.
Unref(id) ==
  /\ Setup /\ id \in DOMAIN res
  /\ res' = [i \in DOMAIN res \ {id} |-> res[i]]
  /\ scanout' = IF scanout.id = id THEN [scanout EXCEPT !.id = NoRes] ELSE scanout
  /\ UNCHANGED <<present_all, transferred>>

\* cmd_set_scanout; the resource id 0 blanks the scanout and keeps the rest.
SetScanout(id, rect) ==
  /\ Setup /\ id \in DOMAIN res /\ Fits(rect, res[id].width)
  /\ scanout' = [id |-> id, rect |-> rect] /\ present_all' = TRUE
  /\ UNCHANGED <<res, transferred>>
Blanked == /\ Setup /\ scanout.id # NoRes
           /\ scanout' = [scanout EXCEPT !.id = NoRes]
           /\ UNCHANGED <<res, present_all, transferred>>

\* cmd_attach_backing with `n` pixels of guest memory, or cmd_detach_backing (0).
Backing(id, n) == /\ Setup /\ id \in DOMAIN res /\ res[id].backing # n
                  /\ res' = [res EXCEPT ![id].backing = n]
                  /\ UNCHANGED <<scanout, present_all, transferred>>

\* Faulty: a transfer's failure is returned before the changed area is noted.
Transfer2dUnnoted(id, rect) ==
  /\ Command /\ transfers < MaxTransfers
  /\ id \in DOMAIN res /\ rect[2] <= res[id].width
  /\ transfers' = transfers + 1
  /\ res' = [res EXCEPT ![id].host =
               [p \in Px |-> IF In(p, rect) /\ p < res[id].backing THEN transfers + 1 ELSE @[p]]]
  /\ transferred' = IF id = scanout.id /\ rect[2] <= res[id].backing
                    THEN AreaUnion(transferred, Within(rect, scanout.rect))
                    ELSE transferred
  /\ UNCHANGED <<scanout, present_all, gpu, pictureVars, held, windowVars, redrawn, restores>>

\* cmd_transfer_2d: what the backing covers is read (all of it, or the part before the
\* failure), and the scanout's share of the rectangle is noted either way.
Transfer2d(id, rect) ==
  /\ Command /\ transfers < MaxTransfers
  /\ id \in DOMAIN res /\ rect[2] <= res[id].width
  /\ transfers' = transfers + 1
  /\ res' = [res EXCEPT ![id].host =
               [p \in Px |-> IF In(p, rect) /\ p < res[id].backing THEN transfers + 1 ELSE @[p]]]
  /\ transferred' = IF id = scanout.id
                    THEN AreaUnion(transferred, Within(rect, scanout.rect))
                    ELSE transferred
  /\ UNCHANGED <<scanout, present_all, gpu, pictureVars, held, windowVars, redrawn, restores>>
\* present_resource: what the flush names and what transfers changed since.
Present(changed) ==
  LET rect == scanout.rect
      now == Redraw(res[scanout.id], rect)
      width == rect[2] - rect[1]
  IN /\ FlushScanout(width, IF present_all THEN Full(width) ELSE changed, now)
     /\ redrawn' = now
     /\ present_all' = FALSE /\ transferred' = NoArea /\ gpu' = "notify"

\* cmd_flush of the bound resource; a flush of another one changes nothing.
Flush(rect) ==
  LET changed == AreaUnion(Within(rect, scanout.rect), transferred)
  IN /\ Command /\ FrontSeq < MaxFlushes
     /\ scanout.id \in DOMAIN res
     /\ present_all \/ changed # NoArea
     /\ Present(changed)
     /\ UNCHANGED <<res, scanout, held, windowVars, transfers, restores>>

\* reset: the guest's side is forgotten, the picture stays.
Reset == /\ Setup
         /\ res' = NoResources /\ scanout' = Unbound
         /\ present_all' = TRUE /\ transferred' = NoArea

\* A snapshot taken with the vCPUs stopped, restored in a new process: the resources and
\* the binding come back, the scanout and the window start over, and the bound scanout
\* is presented whole.
Restore ==
  /\ gpu = "idle" /\ restores < MaxRestores /\ restores' = restores + 1
  /\ commands' = Max({commands, MaxCommands - AfterRestore})
  /\ scanout.id \in DOMAIN res
  /\ LET rect == scanout.rect
         now == Redraw(res[scanout.id], rect)
         width == rect[2] - rect[1]
     IN /\ pics' = [b \in Bufs |-> IF b = 1 THEN [width |-> width, seq |-> 1, px |-> now]
                                   ELSE NewFrame]
        /\ front' = 1 /\ spares' = <<>>
        /\ recent' = <<[seq |-> 1, area |-> Full(width)]>> /\ window_dirty' = Full(width)
        /\ redrawn' = now
  /\ present_all' = FALSE /\ transferred' = NoArea /\ gpu' = "notify"
  /\ held' = [r \in Readers |-> NoBuf]
  /\ paint_pending' = FALSE /\ posted' = 0
  /\ win' = [pc |-> "idle", size |-> Width, shown |-> Blank,
             invalid |-> NoArea, clip |-> NoArea]
  /\ UNCHANGED <<res, scanout, transfers>>

\* Display::frame_ready, from the present hook: post a repaint unless one is queued.
FrameReady ==
  /\ gpu = "notify" /\ gpu' = "idle"
  /\ paint_pending' = TRUE
  /\ posted' = IF ~paint_pending THEN posted + 1 ELSE posted
  /\ UNCHANGED <<gpuVars, pictureVars, held, win, redrawn, countVars>>

-----------------------------------------------------------------------------
(* The window thread (wnd_proc) and the recorder.                          *)

Idle == win.pc = "idle"
Painting == UNCHANGED <<gpuVars, gpu, redrawn, countVars>>

\* A reader drops its reference; a picture no longer shown or spare goes with it.
Release(r) == /\ held' = [held EXCEPT ![r] = NoBuf]
              /\ pics' = Live(pics, Spared \cup {front} \cup {held[q]: q \in Readers \ {r}})
              /\ UNCHANGED <<front, spares, recent, window_dirty>>

\* Faulty: a repaint leaves the flag set.
AppPaintLate == /\ Idle /\ posted > 0 /\ posted' = posted - 1
                /\ win' = [win EXCEPT !.pc = "update"]
                /\ Painting /\ UNCHANGED <<pictureVars, held, paint_pending>>

\* WM_APP_PAINT: clear the flag, then take what changed.
AppPaint == /\ Idle /\ posted > 0 /\ posted' = posted - 1
            /\ paint_pending' = FALSE
            /\ win' = [win EXCEPT !.pc = "update"]
            /\ Painting /\ UNCHANGED <<pictureVars, held>>
\* Scanout::window_update, SetWindowPos on a new size, InvalidateRect.
WindowUpdate ==
  /\ win.pc = "update"
  /\ LET area == IF pics[front].width = win.size THEN window_dirty ELSE Full(pics[front].width)
     IN win' = IF window_dirty = NoArea \/ front = NoBuf THEN [win EXCEPT !.pc = "idle"]
               ELSE [win EXCEPT !.pc = "idle", !.size = pics[front].width,
                                !.shown = [p \in Px |-> IF p < pics[front].width THEN @[p] ELSE 0],
                                !.invalid = AreaUnion(@, area)]
  /\ window_dirty' = NoArea
  /\ Painting /\ UNCHANGED <<pics, front, spares, recent, held, paint_pending, posted>>
\* WM_PAINT: BeginPaint takes the invalid region, latest() the picture; the blit is
\* clipped to the region and reads the picture while flushes go on.
BeginPaint ==
  /\ Idle /\ win.invalid # NoArea
  /\ win' = [win EXCEPT !.pc = "blit", !.clip = win.invalid, !.invalid = NoArea]
  /\ held' = [held EXCEPT !["window"] = front]
  /\ Painting /\ UNCHANGED <<pictureVars, paint_pending, posted>>
Blit ==
  /\ win.pc = "blit"
  /\ LET f == pics[held["window"]]
     IN win' = [win EXCEPT !.pc = "idle", !.clip = NoArea,
                  !.shown = [p \in Px |-> IF In(p, win.clip) /\ p < f.width /\ p < win.size
                                          THEN f.px[p] ELSE @[p]]]
  /\ Release("window")
  /\ Painting /\ UNCHANGED <<paint_pending, posted>>

\* Encoder::tick holds the latest picture (newer_than) while it converts it.
Convert == /\ held["recorder"] = NoBuf /\ front # NoBuf
           /\ held' = [held EXCEPT !["recorder"] = front]
           /\ Painting /\ UNCHANGED <<pictureVars, windowVars>>
Converted == /\ held["recorder"] # NoBuf
             /\ Release("recorder")
             /\ Painting /\ UNCHANGED windowVars

\* A guest draws on the resources it has; the window and the recorder show the pictures.
Draw == \E rect \in Rects: Flush(rect) \/ \E id \in Ids: Transfer2d(id, rect)
Show == FrameReady \/ AppPaint \/ WindowUpdate \/ BeginPaint \/ Blit \/ Convert \/ Converted
Rebind == \E id \in Ids, rect \in Rects: SetScanout(id, rect)

Next == \/ \E id \in Ids:
             \/ \E w \in 1 .. Width: Create2d(id, w)
             \/ Unref(id)
             \/ \E n \in 0 .. Width: Backing(id, n)
        \/ Rebind \/ Blanked \/ Draw \/ Show \/ Reset \/ Restore
\* The same of a guest that has set its display up: it draws, or changes modes too.
DrawNext == Draw \/ Show
ModeNext == Rebind \/ Draw \/ Show

Spec == Init /\ [][Next]_vars
-----------------------------------------------------------------------------
\* Types: the buffers are distinct, the picture queue is bounded.
TypeOK == /\ DOMAIN res \subseteq Ids
          /\ scanout.id \in Ids \cup {NoRes}
          /\ front \in Bufs \cup {NoBuf}
          /\ Len(spares) <= SPARES /\ Len(recent) <= RECENT
          /\ Cardinality(Spared \cup {front}) = Len(spares) + 1
          /\ posted \in 0 .. 1

\* "so every picture equals the whole scanout redrawn" (gpu.rs GpuState.transferred):
\* however small the flush, whichever spare it drew on and however old that was, the
\* latest picture is the whole scanout as the present saw it.
PictureIsWhole == front # NoBuf => pics[front].px = redrawn

\* A picture a reader holds stays as it took it: flushes draw on other buffers.
HeldStep ==
  \A r \in Readers: held[r] # NoBuf /\ held'[r] = held[r] => pics'[held[r]] = pics[held[r]]
HeldIsStill == [][HeldStep]_vars

\* No repaint is lost to the coalescing of frame_ready with WM_APP_PAINT: once the
\* window's queue is empty and no flush is telling it, it shows the latest picture.
WindowCatchesUp ==
  win.pc = "idle" /\ posted = 0 /\ win.invalid = NoArea /\ gpu = "idle" /\ front # NoBuf
    => win.size = pics[front].width /\ win.shown = pics[front].px
=============================================================================
