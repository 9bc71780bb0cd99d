-------------------------- MODULE BarMappingProofs ---------------------------
(***************************************************************************)
(* Proofs about BarMapping, for any number of devices, vCPUs, bases and    *)
(* ranges, under a guest that writes config space one vCPU at a time.      *)
(***************************************************************************)
EXTENDS BarMapping, SequenceTheorems, TLAPS

Places == Gpas \X (1..Parts)
Steps == {"event", "record", "register", "doorbells", "teardown", "unregister"}
Event == [kind : {"mapped", "unmapped"}, gpa : Bases]
Call == [dev : Devices \cup {NoDevice}, events : Seq(Event), step : Steps, part : 1..Parts]
Busy(d) == \E c \in ConfigVcpus : ~Idle(c) /\ Dev(c) = d

\* All of a device's ranges are on the bus, or none is.
Wired(d) == bar_gpa[d] \in Gpas /\ \A s \in Places : entries[s] = d <=> s[1] = bar_gpa[d]
Bare(d) == \A s \in Places : entries[s] # d

\* What is true of a device no config_write is at work on.
Settled(d) ==
  IF bar_mapped[d] THEN mapped[d] /\ bar_gpa[d] = mapped_gpa[d] /\ Wired(d)
                   ELSE Bare(d) /\ ~pump[d]

\* The events a config_write still has to act on end where config space is.
Ahead(c) ==
  LET d == Dev(c)
  IN \/ call[c].events = <<Unmapped>> /\ ~mapped[d]
     \/ call[c].events = <<Mapped(mapped_gpa[d])>> /\ mapped[d]
     \/ call[c].events = <<Unmapped, Mapped(mapped_gpa[d])>> /\ mapped[d]

\* How far the event in hand is, and what it has left on the bus.
Progress(c) ==
  LET d == Dev(c)
      g == mapped_gpa[d]
      n == call[c].part
  IN \/ On(c, "mapped", "event") /\ ~bar_mapped[d] /\ Bare(d) /\ ~pump[d]
     \/ On(c, "mapped", "record") /\ ~bar_mapped[d] /\ Bare(d) /\ ~pump[d] /\ g \in Gpas /\ Free(g)
     \/ /\ On(c, "mapped", "register") /\ bar_mapped[d] /\ bar_gpa[d] = g /\ g \in Gpas
        /\ \A s \in Places : entries[s] = d <=> s[1] = g /\ s[2] < n
        /\ \A s \in Places : s[1] = g /\ s[2] >= n => entries[s] = NoDevice
     \/ On(c, "mapped", "doorbells") /\ bar_mapped[d] /\ bar_gpa[d] = g /\ Wired(d)
     \/ /\ On(c, "unmapped", "event")
        /\ IF bar_mapped[d] THEN Wired(d) ELSE Bare(d) /\ ~pump[d]
     \/ On(c, "unmapped", "teardown") /\ ~bar_mapped[d] /\ Wired(d)
     \/ /\ On(c, "unmapped", "unregister") /\ ~bar_mapped[d] /\ ~pump[d] /\ bar_gpa[d] \in Gpas
        /\ \A s \in Places : entries[s] = d <=> s[1] = bar_gpa[d] /\ s[2] >= n

CallInv ==
  /\ call \in [ConfigVcpus -> Call]
  /\ \A c \in ConfigVcpus : Idle(c) => call[c] = NoCall
  /\ \A c \in ConfigVcpus : ~Idle(c) => Dev(c) \in Devices /\ Ahead(c) /\ Progress(c)
  /\ \A c, o \in ConfigVcpus : ~Idle(c) /\ ~Idle(o) => c = o

SettledInv == \A d \in Devices : Busy(d) \/ Settled(d)

IInv == TypeOK /\ CallInv /\ SettledInv

-----------------------------------------------------------------------------
(* One config_write at a time.                                             *)

\* A step leaves a device alone when it changes none of its bookkeeping and no
\* range of its.
LEMMA LeftAlone ==
  ASSUME TypeOK, NEW e \in Devices, Settled(e),
         bar_mapped'[e] = bar_mapped[e], bar_gpa'[e] = bar_gpa[e], pump'[e] = pump[e],
         mapped'[e] = mapped[e], mapped_gpa'[e] = mapped_gpa[e],
         \A s \in Places : entries'[s] = e <=> entries[s] = e
  PROVE  Settled(e)'
  BY DEF Settled, Wired, Bare

\* Only the device of the vCPU that is in config_write is not settled.
LEMMA OthersSettled ==
  ASSUME CallInv, SettledInv, NEW c \in ConfigVcpus, \A o \in ConfigVcpus : o # c => Idle(o),
         NEW e \in Devices, Idle(c) \/ e # Dev(c)
  PROVE  Settled(e)
  BY DEF SettledInv, Busy

\* It is enough to look at the vCPU that moves.
LEMMA OneMoves ==
  ASSUME CallInv, NEW c \in ConfigVcpus, \A o \in ConfigVcpus : o # c => Idle(o),
         NEW k \in Call, call' = [call EXCEPT ![c] = k],
         \/ k = NoCall /\ \A e \in Devices : Settled(e)'
         \/ /\ k.events # <<>> /\ k.dev \in Devices /\ Ahead(c)' /\ Progress(c)'
            /\ \A e \in Devices : e # k.dev => Settled(e)'
  PROVE  CallInv' /\ SettledInv'
<1>1. /\ call' \in [ConfigVcpus -> Call] /\ call'[c] = k
      /\ \A o \in ConfigVcpus : o # c => call'[o] = call[o] /\ call[o] = NoCall
  BY DEF CallInv, Call
<1>2. \A o \in ConfigVcpus : o # c => Idle(o)'
  BY <1>1 DEF Idle
<1>3. CallInv'
  <2>1. \A o \in ConfigVcpus : Idle(o)' => call'[o] = NoCall
    BY <1>1 DEF Idle
  <2>2. ~Idle(c)' => Dev(c)' \in Devices /\ Ahead(c)' /\ Progress(c)'
    BY <1>1 DEF Idle, Dev, NoCall, CallOn
  <2>3. \A o \in ConfigVcpus : ~Idle(o)' => o = c
    BY <1>2
  <2>4. \A o \in ConfigVcpus : ~Idle(o)' => Dev(o)' \in Devices /\ Ahead(o)' /\ Progress(o)'
    BY <2>2, <2>3
  <2> QED
    BY <1>1, <2>1, <2>3, <2>4 DEF CallInv
<1>4. SettledInv'
  <2>1. CASE k = NoCall /\ \A e \in Devices : Settled(e)'
    BY <2>1 DEF SettledInv
  <2>2. CASE k.events # <<>> /\ \A e \in Devices : e # k.dev => Settled(e)'
    BY <1>1, <2>2 DEF SettledInv, Busy, Idle, Dev
  <2> QED
    BY <2>1, <2>2
<1> QED
  BY <1>3, <1>4

-----------------------------------------------------------------------------
(* A write of COMMAND.                                                     *)

LEMMA ShortSequences ==
  ASSUME NEW S, NEW a \in S, NEW b \in S
  PROVE  /\ <<a>> \in Seq(S) /\ <<a, b>> \in Seq(S)
         /\ Len(<<a>>) = 1 /\ Tail(<<a, b>>) = <<b>>
  OBVIOUS

\* The event recompute_mappings emits takes a settled device from what is wired to
\* what config space now says.
LEMMA BeginStep ==
  ASSUME BarAssumption, TypeOK, CallInv, SettledInv, NEW c \in ConfigVcpus, NEW d \in Devices,
         NEW on \in BOOLEAN, \A o \in ConfigVcpus : Idle(o), Begin(c, d, Recompute(d, on)), Remap(d, on),
         UNCHANGED <<bar_gpa, bar_mapped, pump, entries>>
  PROVE  CallInv' /\ SettledInv'
<1> DEFINE want == on /\ bar[d] # Unset
           events == Recompute(d, on)
           k == IF events = <<>> THEN NoCall ELSE CallOn(d, events)
<1>1. \A e \in Devices : Settled(e)
  BY OthersSettled
<1>2. call' = [call EXCEPT ![c] = k] /\ call'[c] = k
  BY DEF Begin, CallInv
<1>3. /\ mapped'[d] = want /\ mapped_gpa'[d] = IF want THEN bar[d] ELSE mapped_gpa[d]
      /\ \A e \in Devices : e # d => mapped'[e] = mapped[e] /\ mapped_gpa'[e] = mapped_gpa[e]
  BY DEF Remap, TypeOK
<1>4. \A e \in Devices : e # d => Settled(e)'
  BY <1>1, <1>3, LeftAlone
<1>5. bar[d] \in Bases /\ mapped[d] \in BOOLEAN /\ want \in BOOLEAN
  BY DEF TypeOK
<1>6. CASE events = <<>>
  <2>1. k = NoCall
    BY <1>6
  <2>2. NoCall \in Call
    BY EmptySeq DEF NoCall, CallOn, Call, Steps, BarAssumption
  <2>3. mapped'[d] = mapped[d] /\ mapped_gpa'[d] = mapped_gpa[d]
    BY <1>3, <1>5, <1>6 DEF Recompute
  <2>4. Settled(d)'
    BY <1>1, <2>3, LeftAlone
  <2> QED
    BY <1>2, <1>4, <2>1, <2>2, <2>4, OneMoves
<1>7. CASE events # <<>>
  <2>1. /\ k = [dev |-> d, events |-> events, step |-> "event", part |-> 1]
        /\ Dev(c)' = d /\ call'[c].events = events /\ call'[c].step = "event"
    BY <1>2, <1>7 DEF CallOn, Dev
  <2>2. \/ events = <<Mapped(bar[d])>> /\ want /\ ~mapped[d]
        \/ events = <<Unmapped>> /\ ~want /\ mapped[d]
        \/ events = <<Unmapped, Mapped(bar[d])>> /\ want /\ mapped[d]
    BY <1>5, <1>7 DEF Recompute
  <2>3. events \in Seq(Event)
    <3>1. Mapped(bar[d]) \in Event /\ Unmapped \in Event
      BY <1>5 DEF Mapped, Unmapped, Event, Bases
    <3>2. <<Mapped(bar[d])>> \in Seq(Event) /\ <<Unmapped>> \in Seq(Event)
          /\ <<Unmapped, Mapped(bar[d])>> \in Seq(Event)
      BY <3>1, ShortSequences
    <3> HIDE DEF events, want
    <3> QED
      BY <2>2, <3>2
  <2>4. k \in Call
    BY <2>1, <2>3 DEF Call, Steps, BarAssumption
  <2>5. Ahead(c)'
    BY <1>3, <2>1, <2>2 DEF Ahead, Mapped, Unmapped
  <2>6. Settled(d) /\ UNCHANGED <<bar_gpa, bar_mapped, pump, entries>>
    BY <1>1
  <2>7. Progress(c)'
    <3>1. CASE events = <<Mapped(bar[d])>> /\ ~mapped[d]
      <4>1. On(c, "mapped", "event")'
        BY <2>1, <3>1 DEF On, Idle, Mapped
      <4>2. (~bar_mapped[d] /\ Bare(d) /\ ~pump[d])'
        BY <2>6, <3>1 DEF Settled, Bare
      <4> QED
        BY <2>1, <4>1, <4>2 DEF Progress
    <3>2. CASE Head(events) = Unmapped
      <4>1. On(c, "unmapped", "event")'
        BY <1>7, <2>1, <3>2 DEF On, Idle, Unmapped
      <4>2. (IF bar_mapped[d] THEN Wired(d) ELSE Bare(d) /\ ~pump[d])'
        BY <2>6 DEF Settled, Bare, Wired
      <4> QED
        BY <2>1, <4>1, <4>2 DEF Progress
    <3> QED
      BY <2>2, <3>1, <3>2
  <2> HIDE DEF k, events
  <2>8. call' = [call EXCEPT ![c] = k] /\ k.events # <<>> /\ k.dev = d
    BY <1>2, <1>7, <2>1
  <2> QED
    BY <1>4, <2>4, <2>5, <2>7, <2>8, OneMoves
<1> QED
  BY <1>6, <1>7

-----------------------------------------------------------------------------
(* The transport's steps on one event.                                     *)

\* A vCPU that handles an event is the only one, and its events end where config
\* space is.
LEMMA InHand ==
  ASSUME TypeOK, CallInv, SettledInv, NEW c \in ConfigVcpus, ~Idle(c)
  PROVE  /\ \A o \in ConfigVcpus : o # c => Idle(o)
         /\ Dev(c) \in Devices /\ Ahead(c) /\ Progress(c) /\ call[c] \in Call
         /\ \A e \in Devices : e # Dev(c) => Settled(e)
<1>1. /\ \A o \in ConfigVcpus : o # c => Idle(o)
      /\ Dev(c) \in Devices /\ Ahead(c) /\ Progress(c) /\ call[c] \in Call
  BY DEF CallInv
<1> QED
  BY <1>1, OthersSettled

\* A BAR that is being mapped is the last event.
LEMMA MapIsLast ==
  ASSUME NEW c \in ConfigVcpus, ~Idle(c), Ahead(c), Head(call[c].events).kind = "mapped"
  PROVE  /\ call[c].events = <<Mapped(mapped_gpa[Dev(c)])>> /\ mapped[Dev(c)]
         /\ Head(call[c].events).gpa = mapped_gpa[Dev(c)] /\ Len(call[c].events) = 1
  BY DEF Ahead, Mapped, Unmapped

\* Moving on within an event.
LEMMA Moved ==
  ASSUME TypeOK, CallInv, NEW c \in ConfigVcpus, ~Idle(c), call[c] \in Call, NEW step \in Steps,
         NEW n \in 1..Parts, NEW kind, Head(call[c].events).kind = kind,
         call' = [call EXCEPT ![c] = [call[c] EXCEPT !.step = step, !.part = n]]
  PROVE  /\ [call[c] EXCEPT !.step = step, !.part = n] \in Call
         /\ call'[c].dev = call[c].dev /\ call'[c].events = call[c].events
         /\ call'[c].step = step /\ call'[c].part = n
         /\ ~Idle(c)' /\ Dev(c)' = Dev(c)
         /\ On(c, kind, step)'
  BY DEF CallInv, Call, Idle, Dev, On

\* A step within an event that leaves the other devices alone.
LEMMA MovedStep ==
  ASSUME BarAssumption, TypeOK, CallInv, SettledInv, NEW c \in ConfigVcpus, ~Idle(c),
         NEW d \in Devices, d = Dev(c), NEW step \in Steps, NEW n \in 1..Parts,
         call' = [call EXCEPT ![c] = [call[c] EXCEPT !.step = step, !.part = n]],
         UNCHANGED config, Progress(c)',
         \A e \in Devices : e # d =>
            /\ bar_mapped'[e] = bar_mapped[e] /\ bar_gpa'[e] = bar_gpa[e] /\ pump'[e] = pump[e]
            /\ \A s \in Places : entries'[s] = e <=> entries[s] = e
  PROVE  CallInv' /\ SettledInv'
<1> DEFINE k == [call[c] EXCEPT !.step = step, !.part = n]
<1>1. /\ \A o \in ConfigVcpus : o # c => Idle(o)
      /\ Ahead(c) /\ call[c] \in Call
      /\ \A e \in Devices : e # d => Settled(e)
  BY InHand
<1>2. /\ k \in Call /\ k.dev = d /\ k.events # <<>>
      /\ call'[c].events = call[c].events /\ Dev(c)' = d
  BY <1>1 DEF CallInv, Call, Idle, Dev
<1>3. Ahead(c)'
  BY <1>1, <1>2 DEF Ahead, config
<1>4. \A e \in Devices : e # d => Settled(e)'
  BY <1>1, LeftAlone DEF config
<1> HIDE DEF k
<1>5. call' = [call EXCEPT ![c] = k]
  BY DEF k
<1>6. /\ k.events # <<>> /\ k.dev \in Devices /\ Ahead(c)' /\ Progress(c)'
      /\ \A e \in Devices : e # k.dev => Settled(e)'
  BY <1>2, <1>3, <1>4
<1> QED
  BY ZenonT(60), <1>1, <1>2, <1>5, <1>6, OneMoves

\* The end of an event.
LEMMA DoneStep ==
  ASSUME BarAssumption, TypeOK, CallInv, SettledInv, NEW c \in ConfigVcpus, ~Idle(c), EventDone(c),
         NEW d \in Devices, d = Dev(c),
         UNCHANGED config,
         Len(call[c].events) = 1 => Settled(d)',
         Len(call[c].events) # 1 => (~bar_mapped[d] /\ Bare(d) /\ ~pump[d])',
         \A e \in Devices : e # d =>
            /\ bar_mapped'[e] = bar_mapped[e] /\ bar_gpa'[e] = bar_gpa[e] /\ pump'[e] = pump[e]
            /\ \A s \in Places : entries'[s] = e <=> entries[s] = e
  PROVE  CallInv' /\ SettledInv'
<1>1. /\ \A o \in ConfigVcpus : o # c => Idle(o)
      /\ Ahead(c) /\ call[c] \in Call
      /\ \A e \in Devices : e # d => Settled(e)
  BY InHand
<1>2. \A e \in Devices : e # d => Settled(e)'
  BY <1>1, LeftAlone DEF config
<1>3. CASE Len(call[c].events) = 1
  <2>1. NoCall \in Call
    BY EmptySeq DEF NoCall, CallOn, Call, Steps, BarAssumption
  <2>2. call' = [call EXCEPT ![c] = NoCall]
    BY <1>3 DEF EventDone
  <2>3. \A e \in Devices : Settled(e)'
    BY <1>2, <1>3
  <2> QED
    BY <1>1, <2>1, <2>2, <2>3, OneMoves
<1>4. CASE Len(call[c].events) # 1
  <2> DEFINE k == CallOn(d, <<Mapped(mapped_gpa[d])>>)
  <2>1. mapped[d] /\ Tail(call[c].events) = <<Mapped(mapped_gpa[d])>>
    <3>1. \/ call[c].events = <<Unmapped>>
          \/ call[c].events = <<Mapped(mapped_gpa[d])>>
          \/ call[c].events = <<Unmapped, Mapped(mapped_gpa[d])>> /\ mapped[d]
      BY <1>1 DEF Ahead
    <3>2. Len(<<Unmapped>>) = 1 /\ Len(<<Mapped(mapped_gpa[d])>>) = 1
          /\ Tail(<<Unmapped, Mapped(mapped_gpa[d])>>) = <<Mapped(mapped_gpa[d])>>
      BY ShortSequences
    <3>3. call[c].events # <<Unmapped>> /\ call[c].events # <<Mapped(mapped_gpa[d])>>
      BY <1>4, <3>2
    <3> QED
      BY <3>1, <3>2, <3>3
  <2>2. call' = [call EXCEPT ![c] = k] /\ call'[c] = k
    BY ZenonT(60), <1>4, <2>1 DEF EventDone, CallInv
  <2>3. Mapped(mapped_gpa[d]) \in Event
    BY <1>1 DEF Mapped, Event, TypeOK
  <2>4. k \in Call /\ k.events # <<>> /\ k.dev = d
    BY <1>1, <2>3, ShortSequences DEF CallOn, Call, Steps, BarAssumption
  <2>5. Dev(c)' = d /\ On(c, "mapped", "event")' /\ Ahead(c)'
    BY <2>1, <2>2 DEF Dev, On, Idle, Ahead, CallOn, Mapped, config
  <2>6. Progress(c)'
    BY <1>4, <2>5 DEF Progress, Bare
  <2> HIDE DEF k
  <2>7. /\ k.events # <<>> /\ k.dev \in Devices /\ Ahead(c)' /\ Progress(c)'
        /\ \A e \in Devices : e # k.dev => Settled(e)'
    BY <1>2, <2>4, <2>5, <2>6
  <2> QED
    BY <1>1, <2>2, <2>4, <2>7, OneMoves
<1> QED
  BY <1>3, <1>4

\* on_bar_mapped's checks.
LEMMA MapCheckStep ==
  ASSUME BarAssumption, TypeOK, CallInv, SettledInv, NEW c \in ConfigVcpus, NEW d \in Devices,
         d = Dev(c), MapCheck(c)
  PROVE  CallInv' /\ SettledInv'
<1> DEFINE g == mapped_gpa[d]
<1>1. ~Idle(c) /\ UNCHANGED <<config, bar_gpa, bar_mapped, pump, entries>>
  BY DEF MapCheck, On
<1>2. Ahead(c) /\ Progress(c) /\ call[c] \in Call
  BY <1>1, InHand
<1>3. ~bar_mapped[d] /\ Bare(d) /\ ~pump[d]
  BY <1>2 DEF Progress, MapCheck, On
<1>4. Head(call[c].events).gpa = g /\ Len(call[c].events) = 1 /\ Head(call[c].events).kind = "mapped"
  BY <1>1, <1>2, MapIsLast DEF MapCheck, On
<1>5. CASE g \in Gpas /\ Free(g) /\ Goto(c, "record")
  <2>1. call' = [call EXCEPT ![c] = [call[c] EXCEPT !.step = "record", !.part = 1]]
    BY <1>5 DEF Goto, Move
  <2>2. "record" \in Steps /\ 1 \in 1..Parts
    BY DEF Steps, BarAssumption
  <2>3. On(c, "mapped", "record")' /\ Dev(c)' = d
    BY <1>1, <1>2, <1>4, <2>1, <2>2, Moved
  <2>4. Progress(c)'
    BY <1>1, <1>3, <1>5, <2>3 DEF Progress, Bare, Free, config
  <2> QED
    BY <1>1, <2>1, <2>2, <2>4, MovedStep
<1>6. CASE EventDone(c)
  <2>1. Settled(d)'
    BY <1>1, <1>3 DEF Settled, Bare
  <2> QED
    BY <1>1, <1>4, <1>6, <2>1, DoneStep
<1> QED
  BY <1>4, <1>5, <1>6 DEF MapCheck

\* The transport's record of the BAR.
LEMMA MapRecordStep ==
  ASSUME BarAssumption, TypeOK, CallInv, SettledInv, NEW c \in ConfigVcpus, NEW d \in Devices,
         d = Dev(c), MapRecord(c)
  PROVE  CallInv' /\ SettledInv'
<1> DEFINE g == mapped_gpa[d]
<1>1. ~Idle(c) /\ UNCHANGED <<config, pump, entries>>
  BY DEF MapRecord, On
<1>2. Ahead(c) /\ Progress(c) /\ call[c] \in Call
  BY <1>1, InHand
<1>3. Bare(d) /\ g \in Gpas /\ Free(g)
  BY <1>2 DEF Progress, MapRecord, On
<1>4. Head(call[c].events).gpa = g /\ Head(call[c].events).kind = "mapped"
  BY <1>1, <1>2, MapIsLast DEF MapRecord, On
<1>5. call' = [call EXCEPT ![c] = [call[c] EXCEPT !.step = "register", !.part = 1]]
  BY DEF MapRecord, Goto, Move
<1>6. "register" \in Steps /\ 1 \in 1..Parts
  BY DEF Steps, BarAssumption
<1>7. On(c, "mapped", "register")' /\ Dev(c)' = d /\ call'[c].part = 1
  BY ZenonT(60), <1>1, <1>2, <1>4, <1>5, <1>6, Moved
<1>8. /\ bar_gpa'[d] = g /\ bar_mapped'[d]
      /\ \A e \in Devices : e # d => bar_gpa'[e] = bar_gpa[e] /\ bar_mapped'[e] = bar_mapped[e]
  BY <1>4 DEF MapRecord, TypeOK
<1>9. /\ \A s \in Places : entries[s] = d <=> s[1] = g /\ s[2] < 1
      /\ \A s \in Places : s[1] = g /\ s[2] >= 1 => entries[s] = NoDevice
  <2>1. \A s \in Places : s[2] \in 1..Parts /\ s = <<s[1], s[2]>>
    BY DEF Places
  <2>2. \A s \in Places : ~(s[2] < 1)
    BY <2>1 DEF BarAssumption
  <2>3. \A s \in Places : s[1] = g => entries[s] = NoDevice
    BY <1>3, <2>1 DEF Free
  <2> QED
    BY <1>3, <2>2, <2>3 DEF Bare
<1>10. Progress(c)'
  BY <1>1, <1>3, <1>7, <1>8, <1>9 DEF Progress, config
<1> QED
  BY <1>1, <1>5, <1>6, <1>8, <1>10, MovedStep

\* One range goes on the bus.
LEMMA RegisterStep ==
  ASSUME BarAssumption, TypeOK, CallInv, SettledInv, NEW c \in ConfigVcpus, NEW d \in Devices,
         d = Dev(c), Register(c)
  PROVE  CallInv' /\ SettledInv'
<1> DEFINE g == mapped_gpa[d]
           n == call[c].part
<1>1. ~Idle(c) /\ UNCHANGED <<config, bar_gpa, bar_mapped, pump>>
  BY DEF Register, On
<1>2. Ahead(c) /\ Progress(c) /\ call[c] \in Call
  BY <1>1, InHand
<1>3. /\ bar_mapped[d] /\ bar_gpa[d] = g /\ g \in Gpas
      /\ \A s \in Places : entries[s] = d <=> s[1] = g /\ s[2] < n
      /\ \A s \in Places : s[1] = g /\ s[2] >= n => entries[s] = NoDevice
  BY <1>2 DEF Progress, Register, On
<1>4. /\ Head(call[c].events).gpa = g /\ Head(call[c].events).kind = "mapped"
      /\ call[c].step = "register" /\ n \in 1..Parts
  BY <1>1, <1>2, MapIsLast DEF Register, On, Call
<1>5. <<g, n>> \in Places /\ entries[<<g, n>>] = NoDevice /\ d # NoDevice
  <2>1. <<g, n>> \in Places
    BY <1>3, <1>4 DEF Places
  <2>2. n >= n
    BY <1>4
  <2> QED
    BY <1>3, <2>1, <2>2 DEF BarAssumption, NoDevice
<1>6. entries' = [entries EXCEPT ![<<g, n>>] = d]
  BY <1>4, <1>5 DEF Register
<1>7. \A s \in Places : entries'[s] = IF s = <<g, n>> THEN d ELSE entries[s]
  BY <1>5, <1>6 DEF TypeOK, Places
<1>8. \A s \in Places : s = <<s[1], s[2]>> /\ s[2] \in Int
  BY DEF Places
<1>9. /\ \A s \in Places : entries'[s] = d <=> s[1] = g /\ s[2] < n + 1
      /\ \A s \in Places : s[1] = g /\ s[2] >= n + 1 => entries'[s] = NoDevice
  <2>1. n \in Int
    BY <1>4
  <2>2. ASSUME NEW s \in Places
        PROVE  /\ entries'[s] = d <=> s[1] = g /\ s[2] < n + 1
               /\ s[1] = g /\ s[2] >= n + 1 => entries'[s] = NoDevice
    <3>1. CASE s = <<g, n>>
      BY <1>5, <1>7, <2>1, <3>1
    <3>2. CASE s # <<g, n>>
      <4>1. s[1] # g \/ s[2] # n
        BY <1>8, <3>2
      <4>2. s[1] = g => (s[2] < n + 1 <=> s[2] < n) /\ (s[2] >= n + 1 => s[2] >= n)
        BY <1>8, <2>1, <4>1
      <4> QED
        BY <1>3, <1>7, <3>2, <4>2
    <3> QED
      BY <3>1, <3>2
  <2> QED
    BY <2>2
<1>10. \A e \in Devices : e # d => \A s \in Places : entries'[s] = e <=> entries[s] = e
  BY <1>5, <1>7 DEF BarAssumption, NoDevice
<1>11. CASE n < Parts /\ NextPart(c)
  <2>1. call' = [call EXCEPT ![c] = [call[c] EXCEPT !.step = "register", !.part = n + 1]]
    BY <1>4, <1>11 DEF NextPart, Move
  <2>2. "register" \in Steps /\ n + 1 \in 1..Parts
    BY <1>4, <1>11 DEF Steps, BarAssumption
  <2>3. On(c, "mapped", "register")' /\ Dev(c)' = d /\ call'[c].part = n + 1
    BY ZenonT(60), <1>1, <1>2, <1>4, <2>1, <2>2, Moved
  <2>4. Progress(c)'
    BY <1>1, <1>3, <1>9, <2>3 DEF Progress, config
  <2> HIDE DEF n
  <2> QED
    BY <1>1, <1>10, <2>1, <2>2, <2>4, MovedStep
<1>12. CASE ~(n < Parts) /\ Goto(c, "doorbells")
  <2>1. call' = [call EXCEPT ![c] = [call[c] EXCEPT !.step = "doorbells", !.part = 1]]
    BY <1>12 DEF Goto, Move
  <2>2. "doorbells" \in Steps /\ 1 \in 1..Parts
    BY DEF Steps, BarAssumption
  <2>3. On(c, "mapped", "doorbells")' /\ Dev(c)' = d
    BY <1>1, <1>2, <1>4, <2>1, <2>2, Moved
  <2>4. \A s \in Places : s[2] < n + 1
    <3>1. n = Parts
      BY <1>4, <1>12 DEF BarAssumption
    <3>2. \A s \in Places : s[2] \in 1..Parts
      BY DEF Places
    <3> QED
      BY <3>1, <3>2 DEF BarAssumption
  <2>5. Wired(d)'
    BY <1>1, <1>3, <1>9, <2>4 DEF Wired
  <2>6. Progress(c)'
    BY <1>1, <1>3, <2>3, <2>5 DEF Progress, Wired, config
  <2> QED
    BY <1>1, <1>10, <2>1, <2>2, <2>6, MovedStep
<1> QED
  BY <1>11, <1>12 DEF Register

\* The last step of on_bar_mapped.
LEMMA InstallStep ==
  ASSUME BarAssumption, TypeOK, CallInv, SettledInv, NEW c \in ConfigVcpus, NEW d \in Devices,
         d = Dev(c), InstallDoorbells(c)
  PROVE  CallInv' /\ SettledInv'
<1>1. ~Idle(c) /\ EventDone(c) /\ UNCHANGED <<config, bar_gpa, bar_mapped, entries>>
  BY DEF InstallDoorbells, On
<1>2. Ahead(c) /\ Progress(c)
  BY <1>1, InHand
<1>3. bar_mapped[d] /\ bar_gpa[d] = mapped_gpa[d] /\ Wired(d)
  BY <1>2 DEF Progress, InstallDoorbells, On
<1>4. Len(call[c].events) = 1 /\ mapped[d]
  BY <1>1, <1>2, MapIsLast DEF InstallDoorbells, On
<1>5. \A e \in Devices : e # d => pump'[e] = pump[e]
  BY DEF InstallDoorbells, TypeOK
<1>6. Settled(d)'
  BY <1>1, <1>3, <1>4 DEF Settled, Wired, config
<1> QED
  BY <1>1, <1>4, <1>5, <1>6, DoneStep

\* on_bar_unmapped: the transport forgets the BAR first.
LEMMA UnmapStep ==
  ASSUME BarAssumption, TypeOK, CallInv, SettledInv, NEW c \in ConfigVcpus, NEW d \in Devices,
         d = Dev(c), Unmap(c)
  PROVE  CallInv' /\ SettledInv'
<1>1. ~Idle(c) /\ UNCHANGED <<config, bar_gpa, pump, entries>>
  BY DEF Unmap, On
<1>2. Ahead(c) /\ Progress(c) /\ call[c] \in Call
  BY <1>1, InHand
<1>3. IF bar_mapped[d] THEN Wired(d) ELSE Bare(d) /\ ~pump[d]
  BY <1>2 DEF Progress, Unmap, On
<1>4. Head(call[c].events).kind = "unmapped"
  BY DEF Unmap, On
<1>5. ~bar_mapped'[d] /\ \A e \in Devices : e # d => bar_mapped'[e] = bar_mapped[e]
  BY DEF Unmap, TypeOK
<1>6. CASE bar_mapped[d] /\ Goto(c, "teardown")
  <2>1. call' = [call EXCEPT ![c] = [call[c] EXCEPT !.step = "teardown", !.part = 1]]
    BY <1>6 DEF Goto, Move
  <2>2. "teardown" \in Steps /\ 1 \in 1..Parts
    BY DEF Steps, BarAssumption
  <2>3. On(c, "unmapped", "teardown")' /\ Dev(c)' = d
    BY <1>1, <1>2, <1>4, <2>1, <2>2, Moved
  <2>4. Progress(c)'
    BY <1>1, <1>3, <1>5, <1>6, <2>3 DEF Progress, Wired
  <2> QED
    BY <1>1, <1>5, <2>1, <2>2, <2>4, MovedStep
<1>7. CASE ~bar_mapped[d] /\ EventDone(c)
  <2>1. Settled(d)' /\ (~bar_mapped[d] /\ Bare(d) /\ ~pump[d])'
    BY <1>1, <1>3, <1>5, <1>7 DEF Settled, Bare
  <2> QED
    BY <1>1, <1>5, <1>7, <2>1, DoneStep
<1> QED
  BY <1>6, <1>7 DEF Unmap

\* The pump is joined.
LEMMA TeardownStep ==
  ASSUME BarAssumption, TypeOK, CallInv, SettledInv, NEW c \in ConfigVcpus, NEW d \in Devices,
         d = Dev(c), Teardown(c)
  PROVE  CallInv' /\ SettledInv'
<1>1. ~Idle(c) /\ UNCHANGED <<config, bar_gpa, bar_mapped, entries>>
  BY DEF Teardown, On
<1>2. Ahead(c) /\ Progress(c) /\ call[c] \in Call
  BY <1>1, InHand
<1>3. ~bar_mapped[d] /\ Wired(d)
  BY <1>2 DEF Progress, Teardown, On
<1>4. Head(call[c].events).kind = "unmapped"
  BY DEF Teardown, On
<1>5. ~pump'[d] /\ \A e \in Devices : e # d => pump'[e] = pump[e]
  BY DEF Teardown, TypeOK
<1>6. call' = [call EXCEPT ![c] = [call[c] EXCEPT !.step = "unregister", !.part = 1]]
  BY DEF Teardown, Goto, Move
<1>7. "unregister" \in Steps /\ 1 \in 1..Parts
  BY DEF Steps, BarAssumption
<1>8. On(c, "unmapped", "unregister")' /\ Dev(c)' = d /\ call'[c].part = 1
  BY <1>1, <1>2, <1>4, <1>6, <1>7, Moved, ZenonT(90)
<1>9. \A s \in Places : s[2] >= 1
  <2>1. \A s \in Places : s[2] \in 1..Parts
    BY DEF Places
  <2> QED
    BY <2>1 DEF BarAssumption
<1>10. Progress(c)'
  BY <1>1, <1>3, <1>5, <1>8, <1>9 DEF Progress, Wired
<1> QED
  BY <1>1, <1>5, <1>6, <1>7, <1>10, MovedStep

\* One range leaves the bus.
LEMMA UnregisterStep ==
  ASSUME BarAssumption, TypeOK, CallInv, SettledInv, NEW c \in ConfigVcpus, NEW d \in Devices,
         d = Dev(c), Unregister(c)
  PROVE  /\ CallInv' /\ SettledInv'
         /\ \A e \in Devices : e # d => \A s \in Places : entries'[s] = e <=> entries[s] = e
<1> DEFINE g == bar_gpa[d]
           n == call[c].part
<1>1. ~Idle(c) /\ UNCHANGED <<config, bar_gpa, bar_mapped, pump>>
  BY DEF Unregister, On
<1>2. Ahead(c) /\ Progress(c) /\ call[c] \in Call
  BY <1>1, InHand
<1>3. /\ ~bar_mapped[d] /\ ~pump[d] /\ g \in Gpas
      /\ \A s \in Places : entries[s] = d <=> s[1] = g /\ s[2] >= n
  BY <1>2 DEF Progress, Unregister, On
<1>4. /\ Head(call[c].events).kind = "unmapped" /\ call[c].step = "unregister" /\ n \in 1..Parts
  BY <1>2 DEF Unregister, On, Call
<1>5. <<g, n>> \in Places /\ entries[<<g, n>>] = d /\ d # NoDevice
  <2>1. <<g, n>> \in Places
    BY <1>3, <1>4 DEF Places
  <2>2. n >= n
    BY <1>4
  <2> QED
    BY <1>3, <2>1, <2>2 DEF BarAssumption, NoDevice
<1>6. \A s \in Places : entries'[s] = IF s = <<g, n>> THEN NoDevice ELSE entries[s]
  BY DEF Unregister, TypeOK, Places
<1>7. \A s \in Places : s = <<s[1], s[2]>> /\ s[2] \in Int /\ s[2] <= Parts
  BY DEF Places, BarAssumption
<1>8. \A s \in Places : entries'[s] = d <=> s[1] = g /\ s[2] >= n + 1
  <2>1. n \in Int
    BY <1>4
  <2>2. ASSUME NEW s \in Places PROVE entries'[s] = d <=> s[1] = g /\ s[2] >= n + 1
    <3>1. CASE s = <<g, n>>
      BY <1>5, <1>6, <2>1, <3>1
    <3>2. CASE s # <<g, n>>
      <4>1. s[1] # g \/ s[2] # n
        BY <1>7, <3>2
      <4>2. s[1] = g => (s[2] >= n + 1 <=> s[2] >= n)
        BY <1>7, <2>1, <4>1
      <4> QED
        BY <1>3, <1>6, <3>2, <4>2
    <3> QED
      BY <3>1, <3>2
  <2> QED
    BY <2>2
<1>9. \A e \in Devices : e # d => \A s \in Places : entries'[s] = e <=> entries[s] = e
  BY <1>5, <1>6 DEF BarAssumption, NoDevice
<1>10. CASE n < Parts /\ NextPart(c)
  <2>1. call' = [call EXCEPT ![c] = [call[c] EXCEPT !.step = "unregister", !.part = n + 1]]
    BY <1>4, <1>10 DEF NextPart, Move
  <2>2. "unregister" \in Steps /\ n + 1 \in 1..Parts
    BY <1>4, <1>10 DEF Steps, BarAssumption
  <2>3. On(c, "unmapped", "unregister")' /\ Dev(c)' = d /\ call'[c].part = n + 1
    BY <1>1, <1>2, <1>4, <2>1, <2>2, Moved, ZenonT(90)
  <2>4. Progress(c)'
    BY <1>1, <1>3, <1>8, <2>3 DEF Progress
  <2> HIDE DEF n
  <2> QED
    BY <1>1, <1>9, <2>1, <2>2, <2>4, MovedStep
<1>11. CASE ~(n < Parts) /\ EventDone(c)
  <2>1. \A s \in Places : ~(s[2] >= n + 1)
    BY <1>4, <1>7, <1>11 DEF BarAssumption
  <2>2. (~bar_mapped[d] /\ Bare(d) /\ ~pump[d])' /\ Settled(d)'
    BY <1>1, <1>3, <1>8, <2>1 DEF Bare, Settled
  <2> QED
    BY <1>1, <1>9, <1>11, <2>2, DoneStep
<1> QED
  BY <1>9, <1>10, <1>11 DEF Unregister

-----------------------------------------------------------------------------
(* Every step.                                                             *)

\* What a vCPU is in the middle of is of its type.
LEMMA CallTypes ==
  ASSUME BarAssumption, CallInv', NEW c \in ConfigVcpus
  PROVE  (/\ call[c].dev \in Devices \cup {NoDevice}
          /\ Len(call[c].events) \in 0..2 /\ call[c].part \in 1..Parts
          /\ Idle(c) <=> call[c] = NoCall)'
<1>1. call'[c] \in Call
  BY DEF CallInv
<1>2. CASE Idle(c)'
  BY <1>1, <1>2 DEF Idle, Call, CallInv
<1>3. CASE ~Idle(c)'
  <2>1. Ahead(c)'
    BY <1>3 DEF CallInv
  <2>2. Len(call'[c].events) \in 1..2
    <3> DEFINE m == Mapped(mapped_gpa'[Dev(c)'])
    <3>1. Len(<<Unmapped>>) = 1 /\ Len(<<m>>) = 1 /\ Len(<<Unmapped, m>>) = 2
      OBVIOUS
    <3>2. call'[c].events \in {<<Unmapped>>, <<m>>, <<Unmapped, m>>}
      BY <2>1 DEF Ahead
    <3> HIDE DEF m
    <3> QED
      BY <3>1, <3>2
  <2> QED
    BY <1>1, <1>3, <2>2 DEF Idle, Call, NoCall, CallOn
<1> QED
  BY <1>2, <1>3

\* The rest of the types.
LEMMA TypeStep ==
  ASSUME BarAssumption, TypeOK, CallInv, SettledInv, [Next]_vars, CallInv'
  PROVE  TypeOK'
<1> DEFINE Rest == /\ bar \in [Devices -> Bases] /\ mem \in [Devices -> BOOLEAN]
                   /\ master \in [Devices -> BOOLEAN] /\ mapped \in [Devices -> BOOLEAN]
                   /\ mapped_gpa \in [Devices -> Bases]
                   /\ bar_gpa \in [Devices -> Gpas \cup {Unset}] /\ bar_mapped \in [Devices -> BOOLEAN]
                   /\ pump \in [Devices -> BOOLEAN]
                   /\ entries \in [Gpas \X (1..Parts) -> Devices \cup {NoDevice}]
                   /\ writes \in 0..MaxWrites
<1> USE DEF TypeOK, config
<1>1. ASSUME NEW c \in ConfigVcpus, NEW d \in Devices, NEW g \in Bases, WriteBar(c, d, g) PROVE Rest'
  BY <1>1 DEF WriteBar, MayWrite, BarAssumption
<1>2. ASSUME NEW c \in ConfigVcpus, NEW d \in Devices, NEW m \in BOOLEAN, NEW b \in BOOLEAN,
             WriteCommand(c, d, m, b)
      PROVE  Rest'
  <2>1. writes' \in 0..MaxWrites
    BY <1>2 DEF WriteCommand, MayWrite, BarAssumption
  <2>2. mapped' \in [Devices -> BOOLEAN] /\ mapped_gpa' \in [Devices -> Bases]
    BY <1>2 DEF WriteCommand, Remap
  <2> QED
    BY <1>2, <2>1, <2>2 DEF WriteCommand
<1>3. ASSUME NEW c \in ConfigVcpus, NEW d \in Devices, Restore(c, d) PROVE Rest'
  BY <1>3 DEF Restore, Remap
<1>4. ASSUME NEW c \in ConfigVcpus, MapCheck(c) PROVE Rest'
  BY <1>4 DEF MapCheck
<1>5. ASSUME NEW c \in ConfigVcpus, MapRecord(c) PROVE Rest'
  <2>1. ~Idle(c)
    BY <1>5 DEF MapRecord, On
  <2>2. Dev(c) \in Devices /\ Ahead(c) /\ Progress(c)
    BY <2>1, InHand
  <2>3. Head(call[c].events).gpa \in Gpas
    BY <1>5, <2>1, <2>2, MapIsLast DEF Progress, MapRecord, On
  <2> QED
    BY <1>5, <2>3 DEF MapRecord
<1>6. ASSUME NEW c \in ConfigVcpus, Register(c) PROVE Rest'
  <2>1. Dev(c) \in Devices
    BY <1>6, InHand DEF Register, On
  <2> QED
    BY <1>6, <2>1 DEF Register
<1>7. ASSUME NEW c \in ConfigVcpus, InstallDoorbells(c) PROVE Rest'
  BY <1>7 DEF InstallDoorbells
<1>8. ASSUME NEW c \in ConfigVcpus, Unmap(c) PROVE Rest'
  BY <1>8 DEF Unmap
<1>9. ASSUME NEW c \in ConfigVcpus, Teardown(c) PROVE Rest'
  BY <1>9 DEF Teardown
<1>10. ASSUME NEW c \in ConfigVcpus, Unregister(c) PROVE Rest'
  BY <1>10 DEF Unregister
<1>11. ASSUME UNCHANGED vars PROVE Rest'
  BY <1>11 DEF vars
<1>12. Rest'
  <2> HIDE DEF Rest
  <2> QED
    BY <1>1, <1>2, <1>3, <1>4, <1>5, <1>6, <1>7, <1>8, <1>9, <1>10, <1>11
       DEF Next, ConfigWrite, Handle
<1> QED
  BY <1>12, CallTypes

\* A step that leaves the mappings and the calls alone.
LEMMA StayStep ==
  ASSUME CallInv, SettledInv,
         UNCHANGED <<mapped, mapped_gpa, bar_gpa, bar_mapped, pump, entries, call>>
  PROVE  CallInv' /\ SettledInv'
<1>1. /\ \A c : Idle(c)' <=> Idle(c)
      /\ \A c : Dev(c)' = Dev(c)
  BY DEF Idle, Dev
<1>2. \A d : /\ Bare(d)' <=> Bare(d)
             /\ Wired(d)' <=> Wired(d)
             /\ Free(d)' <=> Free(d)
  BY DEF Bare, Wired, Free
<1>3. \A c, k, s : On(c, k, s)' <=> On(c, k, s)
  BY <1>1 DEF On
<1>4. \A c : Ahead(c)' <=> Ahead(c)
  BY <1>1 DEF Ahead
<1>5. \A c : Progress(c)' <=> Progress(c)
  BY <1>1, <1>2, <1>3 DEF Progress
<1>6. \A d : (Settled(d)' <=> Settled(d)) /\ (Busy(d)' <=> Busy(d))
  BY <1>1, <1>2 DEF Settled, Busy
<1>7. CallInv'
  BY <1>1, <1>4, <1>5 DEF CallInv
<1> QED
  BY <1>6, <1>7 DEF SettledInv

\* One config_write at a time, each leaving its device settled.
LEMMA BusStep ==
  ASSUME BarAssumption, Serialised, TypeOK, CallInv, SettledInv, [Next]_vars
  PROVE  CallInv' /\ SettledInv'
<1>1. ASSUME NEW c \in ConfigVcpus, NEW d \in Devices, NEW g \in Bases, WriteBar(c, d, g)
      PROVE  CallInv' /\ SettledInv'
  BY <1>1, StayStep DEF WriteBar
<1>2. ASSUME NEW c \in ConfigVcpus, NEW d \in Devices, NEW m \in BOOLEAN, NEW b \in BOOLEAN,
             WriteCommand(c, d, m, b)
      PROVE  CallInv' /\ SettledInv'
  <2>1. /\ \A o \in ConfigVcpus : Idle(o)
        /\ Begin(c, d, Recompute(d, m)) /\ Remap(d, m)
        /\ UNCHANGED <<bar_gpa, bar_mapped, pump, entries>>
    BY <1>2 DEF WriteCommand, MayWrite
  <2> QED
    BY <2>1, BeginStep
<1>3. ASSUME NEW c \in ConfigVcpus, NEW d \in Devices, Restore(c, d) PROVE CallInv' /\ SettledInv'
  <2>1. /\ \A o \in ConfigVcpus : Idle(o)
        /\ Begin(c, d, Recompute(d, TRUE)) /\ Remap(d, TRUE)
        /\ UNCHANGED <<bar_gpa, bar_mapped, pump, entries>>
    BY <1>3 DEF Restore
  <2> QED
    BY <2>1, BeginStep
<1>4. ASSUME NEW c \in ConfigVcpus, Handle(c) PROVE CallInv' /\ SettledInv'
  <2>1. Dev(c) \in Devices
    BY <1>4, InHand DEF Handle, MapCheck, MapRecord, Register, InstallDoorbells, Unmap, Teardown,
                        Unregister, On
  <2> QED
    BY <1>4, <2>1, MapCheckStep, MapRecordStep, RegisterStep, InstallStep, UnmapStep, TeardownStep,
       UnregisterStep DEF Handle
<1>5. ASSUME UNCHANGED vars PROVE CallInv' /\ SettledInv'
  BY <1>5, StayStep DEF vars, config
<1> QED
  BY <1>1, <1>2, <1>3, <1>4, <1>5 DEF Next, ConfigWrite

\* The parts are inductive together.
THEOREM Invariance ==
  ASSUME BarAssumption, Serialised
  PROVE  Spec => []IInv
<1>1. Init => IInv
  <2> SUFFICES ASSUME Init PROVE IInv
    OBVIOUS
  <2>1. \A c \in ConfigVcpus : call[c] = NoCall /\ Idle(c)
    BY DEF Init, Idle, NoCall, CallOn
  <2>2. NoCall \in Call
    BY EmptySeq DEF NoCall, CallOn, Call, Steps, BarAssumption
  <2>3. CallInv
    BY <2>1, <2>2 DEF CallInv, Init
  <2>4. SettledInv
    BY DEF SettledInv, Settled, Bare, Init, Places, BarAssumption, NoDevice
  <2>5. TypeOK
    <3>1. \A c \in ConfigVcpus : /\ call[c].dev \in Devices \cup {NoDevice}
                           /\ Len(call[c].events) \in 0..2 /\ call[c].part \in 1..Parts
                           /\ Idle(c) <=> call[c] = NoCall
      BY <2>1 DEF NoCall, CallOn, BarAssumption
    <3>2. writes \in 0..MaxWrites
      BY DEF Init, BarAssumption
    <3> QED
      BY <3>1, <3>2 DEF TypeOK, Init, Bases
  <2> QED
    BY <2>3, <2>4, <2>5 DEF IInv
<1>2. IInv /\ [Next]_vars => IInv'
  BY TypeStep, BusStep DEF IInv
<1> QED
  BY <1>1, <1>2, PTL DEF Spec

\* Between config writes the bus serves exactly the BARs that are wired, every part
\* of them and at the base config space has, however often the guest moves, disables
\* and overlaps them.
THEOREM BusIsConfig ==
  ASSUME BarAssumption, Serialised
  PROVE  Spec => []BusFollowsConfig
<1>1. IInv => BusFollowsConfig
  <2> SUFFICES ASSUME IInv, Quiet, NEW d \in Devices
               PROVE  IF bar_mapped[d]
                      THEN /\ mapped[d] /\ bar_gpa[d] = mapped_gpa[d]
                           /\ Served(d) = {bar_gpa[d]} \X (1..Parts)
                      ELSE Served(d) = {} /\ ~pump[d]
    BY DEF BusFollowsConfig, IInv
  <2>1. Settled(d)
    BY DEF IInv, SettledInv, Busy, Quiet
  <2>2. DOMAIN entries = Places
    BY DEF IInv, TypeOK, Places
  <2>3. CASE bar_mapped[d]
    <3>1. \A s \in Places : entries[s] = d <=> s \in {bar_gpa[d]} \X (1..Parts)
      BY <2>1, <2>3 DEF Settled, Wired, Places
    <3>2. {bar_gpa[d]} \X (1..Parts) \subseteq Places
      BY <2>1, <2>3 DEF Settled, Wired, Places
    <3> QED
      BY <2>1, <2>2, <2>3, <3>1, <3>2 DEF Settled, Served
  <2>4. CASE ~bar_mapped[d]
    BY <2>1, <2>2, <2>4 DEF Settled, Bare, Served
  <2> QED
    BY <2>3, <2>4
<1> QED
  BY <1>1, Invariance, PTL

\* on_bar_mapped's "just leaves this device's MMIO unwired": a range leaves the bus
\* only while its own device is being unmapped.
THEOREM NoDeviceLosesARange ==
  ASSUME BarAssumption, Serialised
  PROVE  Spec => OthersStayWired
<1>1. IInv /\ [Next]_vars => StaysWired \/ UNCHANGED vars
  <2> SUFFICES ASSUME IInv, Next, NEW s \in DOMAIN entries, entries[s] # NoDevice,
                      entries'[s] # entries[s]
               PROVE  \E c \in ConfigVcpus : Dev(c) = entries[s] /\ On(c, "unmapped", "unregister")
    BY DEF StaysWired
  <2>1. s \in Places
    BY DEF IInv, TypeOK, Places
  <2>2. entries[s] \in Devices
    BY <2>1 DEF IInv, TypeOK, Places
  <2>3. ASSUME NEW c \in ConfigVcpus, Register(c) PROVE FALSE
    BY <2>1, <2>2, <2>3 DEF Register, IInv, TypeOK, BarAssumption, NoDevice, Places
  <2>4. PICK c \in ConfigVcpus : Unregister(c)
    BY ZenonT(60), <2>2, <2>3 DEF Next, ConfigWrite, Handle, WriteBar, WriteCommand, Restore, MapCheck,
                      MapRecord, InstallDoorbells, Unmap, Teardown
  <2>5. On(c, "unmapped", "unregister") /\ Dev(c) \in Devices
    BY <2>4, InHand DEF Unregister, On, IInv
  <2>6. Dev(c) = entries[s]
    BY <2>1, <2>2, <2>4, <2>5, UnregisterStep DEF IInv
  <2> QED
    BY <2>5, <2>6
<1> QED
  BY <1>1, Invariance, PTL DEF Spec, OthersStayWired

=============================================================================
