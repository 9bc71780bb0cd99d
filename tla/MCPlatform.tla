----------------------------- MODULE MCPlatform ------------------------------
(***************************************************************************)
(* The devices' own state, one component at a time: MSI-X, 9p's pool and    *)
(* its table of files, console, input, sound, display, recording and the    *)
(* legacy devices.                                                          *)
(***************************************************************************)
EXTENDS Msix, MCFocus

P9 == INSTANCE P9Device WITH
    Slots <- {"s1", "s2"}, Workers <- {"w1"}, MaxPosts <- 2, MaxIndex <- 3, MaxResets <- 1,
    Patient <- FALSE,
    avail <- x1, used <- x2, reaped <- x3, irq <- x4, drv <- x5, epoch <- x6, ready <- x7,
    last_avail <- x8, last_used <- x9, event <- x10, chain <- x11, free <- x12, slot <- x13,
    port <- x14, pc <- x15, at <- x16, exhausted <- x17, vm <- x18
P9w == INSTANCE P9Device WITH
    Slots <- {"s1"}, Workers <- {"w1", "w2"}, MaxPosts <- 3, MaxIndex <- 3, MaxResets <- 1,
    Patient <- FALSE,
    avail <- x1, used <- x2, reaped <- x3, irq <- x4, drv <- x5, epoch <- x6, ready <- x7,
    last_avail <- x8, last_used <- x9, event <- x10, chain <- x11, free <- x12, slot <- x13,
    port <- x14, pc <- x15, at <- x16, exhausted <- x17, vm <- x18
Table == INSTANCE P9Fids WITH
    Fids <- {"f1", "f2", "f3"}, Names <- {"a", "b"}, Handles <- 1..5, Runners <- {"r1", "r2"},
    MaxFids <- 2, Budget <- 2, MaxFiles <- 2, MaxAsks <- 4,
    tree <- x1, file <- x2, fids <- x3, job <- x4, files <- x5, asked <- x6
Dirs == INSTANCE P9Fids WITH
    Fids <- {"f1", "f2", "f3"}, Names <- {"a"}, Handles <- 1..5, Runners <- {"r1"}, MaxFids <- 2,
    Budget <- 2, MaxFiles <- 2, MaxAsks <- 7,
    tree <- x1, file <- x2, fids <- x3, job <- x4, files <- x5, asked <- x6
Console == INSTANCE ConsoleDevice WITH
    Size <- 2, Room <- 1, MaxTyped <- 3, MaxPosts <- 3, MaxPrints <- 1,
    typed <- x1, forwarded <- x2, escape <- x3, stopping <- x4, pending <- x5, avail <- x6,
    taken <- x7, availEvent <- x8, filled <- x9, armed <- x10, read <- x11, ready <- x12,
    drvOk <- x13, kick <- x14, irq <- x15, lock <- x16, pc <- x17, any <- x18, prints <- x19,
    shown <- x20, txDone <- x21
Input == INSTANCE HostInput WITH
    Keys <- {30, 31}, Widths <- {1, 3}, AxisMax <- 4, Size <- 4, MaxInput <- 3,
    source <- x1, pressed <- x2, cw <- x3, free <- x4, queue <- x5, guestDown <- x6,
    guestPos <- x7, lastAbs <- x8, leds <- x9, select <- x10, intact <- x11, ready <- x12,
    irq <- x13, inputs <- x14
Sound == INSTANCE SndDevice WITH
    Streams <- {"out", "in"}, PeriodFrames <- 2, MaxTick <- 2, MaxCatchup <- 2, MaxPeriods <- 1,
    MaxControls <- 2,
    running <- x1, wake <- x2, stopEvt <- x3, posted <- x4, taken <- x5, done <- x6, left <- x7,
    lost <- x8, ready <- x9, signal <- x10, worker <- x11, pace <- x12, now <- x13,
    consumed <- x14, ctrl <- x15, controls <- x16, believed <- x17, released <- x18, vm <- x19
Playback == INSTANCE SndDevice WITH
    Streams <- {"out"}, PeriodFrames <- 2, MaxTick <- 3, MaxCatchup <- 3, MaxPeriods <- 3,
    MaxControls <- 3,
    running <- x1, wake <- x2, stopEvt <- x3, posted <- x4, taken <- x5, done <- x6, left <- x7,
    lost <- x8, ready <- x9, signal <- x10, worker <- x11, pace <- x12, now <- x13,
    consumed <- x14, ctrl <- x15, controls <- x16, believed <- x17, released <- x18, vm <- x19
Capture == INSTANCE SndDevice WITH
    Streams <- {"in"}, PeriodFrames <- 2, MaxTick <- 3, MaxCatchup <- 3, MaxPeriods <- 3,
    MaxControls <- 3,
    running <- x1, wake <- x2, stopEvt <- x3, posted <- x4, taken <- x5, done <- x6, left <- x7,
    lost <- x8, ready <- x9, signal <- x10, worker <- x11, pace <- x12, now <- x13,
    consumed <- x14, ctrl <- x15, controls <- x16, believed <- x17, released <- x18, vm <- x19
Display == INSTANCE GpuDisplay WITH
    Ids <- {"i1"}, NoRes <- "none", Width <- 2, MaxPixels <- 3, RECENT <- 1, SPARES <- 2,
    MaxCommands <- 6, MaxTransfers <- 2, MaxFlushes <- 3, MaxRestores <- 1, AfterRestore <- 2,
    res <- x1, scanout <- x2, present_all <- x3, transferred <- x4, gpu <- x5, pics <- x6,
    front <- x7, spares <- x8, recent <- x9, window_dirty <- x10, held <- x11,
    paint_pending <- x12, posted <- x13, win <- x14, redrawn <- x15, transfers <- x16,
    commands <- x17, restores <- x18
Spares == INSTANCE GpuDisplay WITH
    Ids <- {"i1"}, NoRes <- "none", Width <- 2, MaxPixels <- 2, RECENT <- 2, SPARES <- 2,
    MaxCommands <- 6, MaxTransfers <- 1, MaxFlushes <- 5, MaxRestores <- 0, AfterRestore <- 0,
    res <- x1, scanout <- x2, present_all <- x3, transferred <- x4, gpu <- x5, pics <- x6,
    front <- x7, spares <- x8, recent <- x9, window_dirty <- x10, held <- x11,
    paint_pending <- x12, posted <- x13, win <- x14, redrawn <- x15, transfers <- x16,
    commands <- x17, restores <- x18
Modes == INSTANCE GpuDisplay WITH
    Ids <- {"i1"}, NoRes <- "none", Width <- 2, MaxPixels <- 2, RECENT <- 1, SPARES <- 2,
    MaxCommands <- 5, MaxTransfers <- 1, MaxFlushes <- 4, MaxRestores <- 0, AfterRestore <- 0,
    res <- x1, scanout <- x2, present_all <- x3, transferred <- x4, gpu <- x5, pics <- x6,
    front <- x7, spares <- x8, recent <- x9, window_dirty <- x10, held <- x11,
    paint_pending <- x12, posted <- x13, win <- x14, redrawn <- x15, transfers <- x16,
    commands <- x17, restores <- x18
Record == INSTANCE Recorder WITH
    Period <- 2, Lag <- 1, Backlog <- 2, Chunk <- 2, MaxTime <- 4, MaxFlushes <- 1,
    now <- x1, flushes <- x2, queue <- x3, played <- x4, stop_at <- x5, enc <- x6, base <- x7,
    next <- x8, video <- x9, track <- x10
Pic == INSTANCE LegacyIrq WITH
    Lines <- {3, 4, 12}, Com1 <- 4, MaxWrites <- 6,
    irr <- x1, mask <- x2, step <- x3, ier <- x4, tx <- x5, kicked <- x6, window <- x7, bsp <- x8,
    ap <- x9, canTake <- x10, event <- x11, served <- x12, acked <- x13, restarted <- x14,
    writes <- x15
Timer == INSTANCE Pit WITH
    Channels <- {"c0", "c2"}, Gated <- "c2", Byte <- 2, Wrap <- 64, MaxWrites <- 3, MaxTime <- 2,
    MaxRestores <- 1,
    ch <- x1, gate <- x2, now <- x3, ran <- x4, heard <- x5, writes <- x6, restores <- x7
Ports == INSTANCE PortDevices WITH
    Vcpus <- {"v1", "v2"}, MaxWrites <- 3,
    entries <- x1, panicked <- x2, cnt <- x3, request <- x4, vcpu <- x5, stopped <- x6,
    asked <- x7, wrote <- x8, writes <- x9
Clock == INSTANCE CmosClock WITH
    Days <- {0, 58, 364, 730, 789, 10956, 11015, 11016, 20513, 24836, 47481, 47540, 47541},
    Window <- 2,
    index <- x1, clock <- x2, begun <- x3, read <- x4, date <- x5

ASSUME PlatformAssumption ==
    /\ P9!P9Assumption
    /\ P9w!P9Assumption
    /\ Table!FidsAssumption
    /\ Dirs!FidsAssumption
    /\ Console!ConsoleAssumption
    /\ Input!InputAssumption
    /\ Sound!SndAssumption
    /\ Playback!SndAssumption
    /\ Capture!SndAssumption
    /\ Display!GpuAssumption
    /\ Spares!GpuAssumption
    /\ Modes!GpuAssumption
    /\ Record!RecorderAssumption
    /\ Pic!LegacyIrqAssumption
    /\ Timer!PitAssumption
    /\ Ports!PortAssumption
    /\ Clock!CmosAssumption

PlatformInit ==
    /\ Init
    /\ \/ focus = "msix" /\ x1 = 0 /\ Blank2
       \/ focus = "9p" /\ P9!Init /\ Blank19
       \/ focus = "9w" /\ P9w!Init /\ Blank19
       \/ focus = "fids" /\ Table!Init /\ Blank7
       \/ focus = "dirs" /\ Dirs!Init /\ Blank7
       \/ focus = "console" /\ Console!Init /\ Blank22
       \/ focus = "input" /\ Input!Init /\ Blank15
       \/ focus = "sound" /\ Sound!Init /\ Blank20
       \/ focus = "playback" /\ Playback!Init /\ Blank20
       \/ focus = "capture" /\ Capture!Init /\ Blank20
       \/ focus = "display" /\ Display!Init /\ Blank19
       \/ focus = "spares" /\ Spares!InitBound /\ Blank19
       \/ focus = "modes" /\ Modes!InitBound /\ Blank19
       \/ focus = "record" /\ Record!Init /\ Blank11
       \/ focus = "pic" /\ Pic!Init /\ Blank16
       \/ focus = "pit" /\ Timer!Init /\ Blank8
       \/ focus = "ports" /\ Ports!Init /\ Blank10
       \/ focus = "clock" /\ Clock!Init /\ Blank6

PlatformNext ==
    \/ focus = "msix" /\ Next /\ UNCHANGED <<focus, x1, From2>>
    \/ focus = "9p" /\ P9!Next /\ UNCHANGED <<focus, vars, From19>>
    \/ focus = "9w" /\ P9w!Next /\ UNCHANGED <<focus, vars, From19>>
    \/ focus = "fids" /\ Table!Next /\ UNCHANGED <<focus, vars, From7>>
    \/ focus = "dirs" /\ Dirs!Next /\ UNCHANGED <<focus, vars, From7>>
    \/ focus = "console" /\ Console!Next /\ UNCHANGED <<focus, vars, From22>>
    \/ focus = "input" /\ Input!Next /\ UNCHANGED <<focus, vars, From15>>
    \/ focus = "sound" /\ Sound!Next /\ UNCHANGED <<focus, vars, From20>>
    \/ focus = "playback" /\ Playback!Next /\ UNCHANGED <<focus, vars, From20>>
    \/ focus = "capture" /\ Capture!Next /\ UNCHANGED <<focus, vars, From20>>
    \/ focus = "display" /\ Display!Next /\ UNCHANGED <<focus, vars, From19>>
    \/ focus = "spares" /\ Spares!DrawNext /\ UNCHANGED <<focus, vars, From19>>
    \/ focus = "modes" /\ Modes!ModeNext /\ UNCHANGED <<focus, vars, From19>>
    \/ focus = "record" /\ Record!Next /\ UNCHANGED <<focus, vars, From11>>
    \/ focus = "pic" /\ Pic!Next /\ UNCHANGED <<focus, vars, From16>>
    \/ focus = "pit" /\ Timer!Next /\ UNCHANGED <<focus, vars, From8>>
    \/ focus = "ports" /\ Ports!Next /\ UNCHANGED <<focus, vars, From10>>
    \/ focus = "clock" /\ Clock!Next /\ UNCHANGED <<focus, vars, From6>>

PlatformSpec == PlatformInit /\ [][PlatformNext]_<<vars, all>>

-----------------------------------------------------------------------------
(* The components' properties; each module states them.                    *)

\* virtio-9p: a slot is free, posted or a thread's; a request taken is held or
\* answered, once; and RAM is freed when nothing is left to write to it.
P9Safe ==
    (focus = "9p" => P9!P9Safe) /\ (focus = "9w" => P9w!P9Safe)
\* virtio-9p: no request and no interrupt waits for something that never comes.
NothingStrands ==
    (focus = "9p" => P9!NothingStrands) /\ (focus = "9w" => P9w!NothingStrands)

\* virtio-9p: a file operation reaches the file its fid named when the request
\* was taken, and neither the fid table nor the open files pass their limits.
FidsCorrect ==
    /\ focus = "fids" => Table!TypeOK /\ Table!IoHitsItsFile /\ Table!TableBounded
    /\ focus = "dirs" => Dirs!TypeOK /\ Dirs!IoHitsItsFile /\ Dirs!TableBounded

\* virtio-console and virtio-input: what was typed reaches the guest in order,
\* and once it has read its events the guest's keys, pointer and LEDs are the host's.
InputCorrect ==
    /\ focus = "console" => Console!TypeOK /\ Console!TypedArrives
    /\ focus = "input" => Input!TypeOK /\ Input!GuestMirrorsHost

\* virtio-snd: a period the guest posted is answered, played or let go of,
\* whatever the stream's state does meanwhile.
SoundCorrect ==
    /\ focus = "sound" => Sound!TypeOK /\ Sound!StreamsAnswer
    /\ focus = "playback" => Playback!TypeOK /\ Playback!StreamsAnswer
    /\ focus = "capture" => Capture!TypeOK /\ Capture!StreamsAnswer

\* virtio-gpu and the window: a picture is whole whichever spare it was drawn on,
\* one that missed other damage or was of another size included, and the window
\* ends up showing the last one flushed.
DisplayCorrect ==
    /\ focus = "display" => Display!TypeOK /\ Display!PictureIsWhole /\ Display!WindowCatchesUp
    /\ focus = "spares" => Spares!TypeOK /\ Spares!PictureIsWhole /\ Spares!WindowCatchesUp
    /\ focus = "modes" => Modes!TypeOK /\ Modes!PictureIsWhole /\ Modes!WindowCatchesUp
\* Once the queues are disabled, as RAM is about to be freed, no sound worker moves
\* a period, and a picture a reader holds is not drawn into.
OthersAreUntouched ==
    [][/\ focus = "sound" => Sound!OffStep
       /\ focus = "playback" => Playback!OffStep
       /\ focus = "capture" => Capture!OffStep
       /\ focus = "display" => Display!HeldStep
       /\ focus = "spares" => Spares!HeldStep
       /\ focus = "modes" => Modes!HeldStep]_all

\* Recording: sound and picture keep together and end together.
RecordingInSync ==
    focus = "record" => Record!TypeOK /\ Record!AVInSync /\ Record!EndsTogether

\* Legacy devices: no interrupt request is lost on its way to a vCPU, a latched
\* count is one count, ports reach one device and a power request one outcome,
\* and a date read from CMOS existed.
LegacyCorrect ==
    /\ focus = "pic" => Pic!TypeOK /\ Pic!RequestIsNoticed /\ Pic!TxIrqIsHeld
    /\ focus = "pit" => Timer!TypeOK /\ Timer!LatchIsOneCount /\ Timer!CountsGuestTime
    /\ focus = "ports" => Ports!TypeOK /\ Ports!PortsAreApart /\ Ports!PowerIsKnown
    /\ focus = "clock" => Clock!TypeOK /\ Clock!DateIsAMoment
=============================================================================
