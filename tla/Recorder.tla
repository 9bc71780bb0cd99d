------------------------------ MODULE Recorder ------------------------------
(***************************************************************************)
(* The recorder's timeline (record.rs): the encoder thread writes one       *)
(* picture a tick and commits the audio alongside, the playback tap queues  *)
(* PCM at wall-clock positions, and a stall of the encoder is caught up or, *)
(* past MAX_BACKLOG, cut from both tracks.                                  *)
(*                                                                          *)
(* Time is counted in audio frames since t0; a tick is Period of them. A    *)
(* PCM frame is the wall position it was played at, so a frame of the track *)
(* tells where it belongs. Conversion to NV12, the sink's timestamps and    *)
(* the summary's counters are left out.                                     *)
(***************************************************************************)
EXTENDS Integers, SequencesExt

CONSTANTS Period,       \* audio frames a video tick lasts (SAMPLE_RATE / fps)
          Lag,          \* AUDIO_LAG_FRAMES
          Backlog,      \* MAX_BACKLOG; also the tap's queue (AUDIO_QUEUE_MAX_BYTES)
          Chunk,        \* the longest chunk the tap hands over
          MaxTime,      \* bound: how long the recording goes on
          MaxFlushes    \* bound: pictures the guest flushes

VARIABLES now,          \* the host's clock
          flushes,      \* pictures published in the scanout
          queue,        \* AudioQueue: chunks [pos, len] not yet taken
          played,       \* what the tap handed over ends here
          stop_at,      \* when finish was called, or Never
          enc,          \* the encoder thread: pc, the time it read, and its picture
          base, next,   \* Encoder.base, Encoder.next
          video,        \* the ticks written: when each was due, and its picture
          track         \* AudioTrack: written, staged, shift, floor

vars == <<now, flushes, queue, played, stop_at, enc, base, next, video, track>>

MaxStaged == 2 * Backlog
Never == -1
Silence == -1

RecorderAssumption == /\ {Period, Backlog, Chunk} \subseteq Nat \ {0}
                      /\ {Lag, MaxTime, MaxFlushes} \subseteq Nat

Init == /\ now = 0 /\ flushes = 0
        /\ queue = <<>> /\ played = 0
        /\ stop_at = Never
        /\ enc = [pc |-> "top", at |-> 0, seen |-> 0]
        /\ base = 0 /\ next = 0
        /\ video = <<>>
        /\ track = [written |-> <<>>, staged |-> <<>>, shift |-> 0, floor |-> 0]

Clamp(n, lo, hi) == Max({lo, Min({n, hi})})
Silent(n) == [i \in 1 .. n |-> Silence]

-----------------------------------------------------------------------------
(* AudioTrack.                                                             *)

End(t) == Len(t.written) + Len(t.staged)

\* pad_to: silence up to frame pos, staging at most MaxStaged.
PadTo(t, pos) ==
  LET gap == Min({pos, Len(t.written) + MaxStaged}) - End(t)
  IN IF gap > 0 THEN [t EXCEPT !.staged = @ \o Silent(gap)] ELSE t

\* place: what overlaps the track is late, what would stage too much overflows.
Place(t, pos, pcm) ==
  LET skip == Clamp(End(t) - pos, 0, Len(pcm))
      start == pos + skip
      keep == Clamp(Len(t.written) + MaxStaged - start, 0, Len(pcm) - skip)
      padded == PadTo(t, start)
  IN IF keep = 0 THEN t
     ELSE [padded EXCEPT !.staged = @ \o SubSeq(pcm, skip + 1, skip + keep)]

\* add: a chunk at its wall position, less the part before the floor.
Add(t, c) ==
  LET skip == Clamp(t.floor - c.pos, 0, c.len)
  IN IF skip < c.len
     THEN Place(t, c.pos + skip - t.shift, [i \in 1 .. c.len - skip |-> c.pos + skip + i - 1])
     ELSE t

\* take: the tap's queue onto the track.
Take(t) == FoldLeft(Add, t, queue)

Truncate(t, at) ==
  [t EXCEPT !.staged = SubSeq(@, 1, Min({Len(@), Max({at - Len(t.written), 0})}))]

\* commit: pad to `pad`, then write through `limit` (its loop pads and writes pieces
\* of at most MaxStaged until nothing is left to write).
Commit(t, pad, limit) ==
  LET all == t.written \o t.staged \o Silent(Max({pad - End(t), 0}))
      n == Clamp(Len(all), Len(t.written), Max({limit, Len(t.written)}))
  IN [t EXCEPT !.written = SubSeq(all, 1, n), !.staged = SubSeq(all, n + 1, Len(all))]

-----------------------------------------------------------------------------
(* The encoder thread.                                                     *)

Due == base + next * Period
\* tick_at: the tick of a time line that starts at `start`.
TickAt(start, t) == IF t < start THEN 0 ELSE (t - start) \div Period

\* Faulty: a cut leaves the staged audio of the gap on the track.
CutStaged(t, at) ==
  LET late == at - Due
      taken == Take(t)
  IN [taken EXCEPT !.floor = at, !.shift = base + late]

\* cut: what was queued before the gap is placed at the old offset, what that stages past
\* the cut is dropped, later PCM moves by the time cut.
Cut(t, at) ==
  LET late == at - Due
      taken == Truncate(Take(t), next * Period)
  IN [taken EXCEPT !.floor = at, !.shift = base + late]

\* tick, due at or before `at`: cut a long gap; one picture, repeated when behind
\* schedule or when nothing was flushed; then the audio to the end of the video.
Tick(at) ==
  LET late == at - Due
      cut == late > Backlog
      start == IF cut THEN base + late ELSE base
      behind == TickAt(start, at) > next
      pic == IF behind THEN enc.seen ELSE flushes
      end == (next + 1) * Period
      pad == Min({at - start - Lag, end})
      placed == IF cut THEN Cut(track, at) ELSE Take(track)
  IN /\ base' = start
     /\ video' = Append(video, [wall |-> start + next * Period, pic |-> pic])
     /\ next' = next + 1
     /\ track' = Commit(placed, pad, end)
     /\ queue' = <<>>
     /\ enc' = [enc EXCEPT !.pc = IF @ = "tick" THEN "top" ELSE @, !.seen = pic]
     /\ UNCHANGED <<now, flushes, played, stop_at>>

\* encode's loop: the end of the recording, else wait for the tick, else read the clock.
Top == /\ enc.pc = "top"
       /\ \/ stop_at # Never /\ enc' = [enc EXCEPT !.pc = "finish"]
          \/ stop_at = Never /\ now >= Due /\ enc' = [enc EXCEPT !.pc = "tick", !.at = now]
       /\ UNCHANGED <<now, flushes, queue, played, stop_at, base, next, video, track>>
TickNow == enc.pc = "tick" /\ Tick(enc.at)
\* A sample the sink refuses ends the recording.
SinkFails == /\ enc.pc \in {"tick", "finish"} /\ enc' = [enc EXCEPT !.pc = "failed"]
             /\ UNCHANGED <<now, flushes, queue, played, stop_at, base, next, video, track>>

\* Encoder::finish: the ticks through the one showing stop_at, then the audio.
FinishTick == enc.pc = "finish" /\ Due <= stop_at /\ Tick(stop_at)

\* Faulty: no silence is padded.
FinishAudioUnpadded ==
  /\ enc.pc = "finish" /\ Due > stop_at
  /\ track' = Commit(Truncate(Take(track), next * Period), 0, next * Period)
  /\ queue' = <<>> /\ enc' = [enc EXCEPT !.pc = "done"]
  /\ UNCHANGED <<now, flushes, played, stop_at, base, next, video>>

FinishAudio ==
  /\ enc.pc = "finish" /\ Due > stop_at
  /\ track' = Commit(Truncate(Take(track), next * Period), next * Period, next * Period)
  /\ queue' = <<>> /\ enc' = [enc EXCEPT !.pc = "done"]
  /\ UNCHANGED <<now, flushes, played, stop_at, base, next, video>>

-----------------------------------------------------------------------------
(* The threads that feed it.                                               *)

Pass == /\ now < MaxTime /\ now' = now + 1
        /\ UNCHANGED <<flushes, queue, played, stop_at, enc, base, next, video, track>>

\* frame_ready after a flush.
FrameReady == /\ flushes < MaxFlushes /\ flushes' = flushes + 1
              /\ UNCHANGED <<now, queue, played, stop_at, enc, base, next, video, track>>

Queued == FoldLeft(LAMBDA n, c: n + c.len, 0, queue)
\* queue_pcm: playback is clock-paced, so a chunk was due before now; a full queue
\* turns it away.
QueuePcm(pos, len) ==
  /\ pos + len <= now /\ played' = pos + len
  /\ queue' = IF Queued + len > Backlog THEN queue ELSE Append(queue, [pos |-> pos, len |-> len])
  /\ UNCHANGED <<now, flushes, stop_at, enc, base, next, video, track>>

\* Recorder::finish, from the thread that ends the run.
Finish == /\ stop_at = Never /\ stop_at' = now
          /\ UNCHANGED <<now, flushes, queue, played, enc, base, next, video, track>>

Next == \/ Top \/ TickNow \/ SinkFails \/ FinishTick \/ FinishAudio
        \/ Pass \/ FrameReady \/ Finish
        \/ \E pos \in played .. now, len \in 1 .. Chunk: QueuePcm(pos, len)

Spec == Init /\ [][Next]_vars
-----------------------------------------------------------------------------
TypeOK == /\ now \in 0 .. MaxTime
          /\ enc.pc \in {"top", "tick", "finish", "done", "failed"}
          /\ Queued <= Backlog
          /\ Len(track.staged) <= MaxStaged
          /\ next = Len(video)

\* The tracks stay in sync through stalls, cuts and late PCM: a PCM frame on the audio
\* track sits in the video tick whose wall time it was played in, exactly as far into it,
\* and no audio is committed ahead of the video.
AVInSync ==
  /\ Len(track.written) <= next * Period
  /\ \A i \in 1 .. Len(track.written):
       track.written[i] # Silence =>
         LET k == (i - 1) \div Period
         IN track.written[i] - video[k + 1].wall = (i - 1) - k * Period

\* "Both tracks end at the tick showing this moment" (Recorder::finish), however far
\* behind the encoder was.
EndsTogether ==
  enc.pc = "done" =>
    /\ Len(track.written) = Len(video) * Period
    /\ Last(video).wall <= stop_at /\ stop_at < Last(video).wall + Period
=============================================================================
