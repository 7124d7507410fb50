------------------------------ MODULE MediaProofs ------------------------------
(***************************************************************************)
(* What the pictures and the sound come to: proofs about the frame store   *)
(* and its viewers (FrameStore), about the splitter of the MJPEG stream    *)
(* (Splitter) and about the time signal (TimeSignal).                      *)
(***************************************************************************)
EXTENDS FrameStore, TimeSignal, Splitter, ListLemmas

\* A token nobody has asked for is in the invariant.
LEMMA InitIInv == Init => IInv
  BY FrameStoreAssumption
     DEF Init, IInv, TypeOK, ChannelInv, FrameInv, OpenChannel, NoLostWakeup, Chan, NoEntry

\* The entry's channel is closed and replaced, or closed and dropped.
LEMMA StoreStep ==
  ASSUME IInv, Publish \/ Forget
  PROVE  IInv'
  <1> USE FrameStoreAssumption DEF IInv, TypeOK, Chan, NoEntry, viewerVars
  <1>1. CASE Publish
    <2> DEFINE old == IF notify = NoEntry THEN made + 1 ELSE notify
    <2> DEFINE new == IF notify = NoEntry THEN made + 2 ELSE made + 1
    <2>1. /\ old \in Nat /\ new \in Nat /\ 0 < old /\ old < new /\ new <= MaxChans
          /\ closed' = closed \cup {old} /\ notify' = new /\ made' = new
      BY <1>1 DEF Publish, ChannelInv
    <2>2. \A n \in closed : n < new
      BY <2>1 DEF ChannelInv
    <2> HIDE DEF old, new
    <2>3. TypeOK'
      BY <1>1, <2>1 DEF Publish, FrameInv
    <2>4. ChannelInv' /\ OpenChannel'
      BY <1>1, <2>1, <2>2 DEF Publish, ChannelInv, OpenChannel
    <2>5. FrameInv'
      BY <1>1 DEF Publish, FrameInv
    <2>6. \A v \in Viewer : step[v] = "wait" => next[v] \in closed'
      BY <2>1 DEF ChannelInv, NoLostWakeup, old
    <2>7. NoLostWakeup'
      BY <1>1, <2>6 DEF Publish, NoLostWakeup
    <2>8. QED
      BY <2>3, <2>4, <2>5, <2>7
  <1>2. CASE Forget
    <2>1. TypeOK' /\ FrameInv'
      BY <1>2 DEF Forget, FrameInv
    <2>2. ChannelInv' /\ OpenChannel'
      BY <1>2 DEF Forget, ChannelInv, OpenChannel
    <2>3. NoLostWakeup'
      BY <1>2 DEF Forget, ChannelInv, NoLostWakeup
    <2>4. QED
      BY <2>1, <2>2, <2>3
  <1>3. QED
    BY <1>1, <1>2

\* A viewer takes the frame and the channel it will wait for, or stops waiting.
LEMMA ViewerStep ==
  ASSUME IInv, NEW v \in Viewer, Latest(v) \/ Wakes(v) \/ Keepalive(v) \/ Leaves(v)
  PROVE  IInv'
  <1> USE FrameStoreAssumption DEF IInv, TypeOK, Chan, NoEntry
  <1>1. CASE Latest(v)
    <2> DEFINE chan == IF notify = NoEntry THEN made + 1 ELSE notify
    <2>1. chan \in Chan /\ chan \notin closed /\ (notify # NoEntry => chan = notify)
      BY <1>1 DEF Latest, ChannelInv, OpenChannel
    <2>2. /\ notify' = chan /\ made' \in 0 .. MaxChans /\ made <= made' /\ chan <= made'
          /\ next' = [next EXCEPT ![v] = chan] /\ step' = [step EXCEPT ![v] = "wait"]
      BY <1>1, <2>1 DEF Latest, ChannelInv
    <2>3. shown' = [shown EXCEPT ![v] = IF seq > 0 THEN image ELSE @]
      BY <1>1 DEF Latest
    <2>4. UNCHANGED <<seq, image, closed, published>>
      BY <1>1 DEF Latest
    <2> HIDE DEF chan
    <2>5. TypeOK' /\ FrameInv'
      BY <2>1, <2>2, <2>3, <2>4 DEF FrameInv
    <2>6. ChannelInv' /\ OpenChannel'
      BY <2>1, <2>2, <2>4 DEF ChannelInv, OpenChannel
    <2>7. NoLostWakeup'
      BY <2>1, <2>2, <2>3, <2>4 DEF ChannelInv, FrameInv, NoLostWakeup
    <2>8. QED
      BY <2>5, <2>6, <2>7
  <1>2. CASE Wakes(v) \/ Keepalive(v) \/ Leaves(v)
    BY <1>2 DEF Wakes, Keepalive, Leaves, ChannelInv, FrameInv, OpenChannel, NoLostWakeup
  <1>3. QED
    BY <1>1, <1>2

\* The inductive invariant holds in every reachable state.
THEOREM FrameStoreInvariant == Spec => []IInv
  <1>1. IInv /\ [Next]_vars => IInv'
    <2> SUFFICES ASSUME IInv, [Next]_vars PROVE IInv'
      OBVIOUS
    <2>1. CASE Next
      BY <2>1, StoreStep, ViewerStep DEF Next
    <2>2. CASE UNCHANGED vars
      BY <2>2 DEF vars, viewerVars, IInv, TypeOK, ChannelInv, FrameInv, OpenChannel, NoLostWakeup
    <2>3. QED
      BY <2>1, <2>2
  <1>2. QED
    BY <1>1, InitIInv, PTL DEF Spec

\* Whoever waits has been sent the newest image or has a closed channel, also when
\* the profile was deleted and created again in between.
THEOREM WakeupsAreKept == Spec => []NoLostWakeup
  <1>1. IInv => NoLostWakeup
    BY DEF IInv
  <1>2. QED
    BY <1>1, FrameStoreInvariant, PTL

\* No channel is closed twice, which would be a panic.
THEOREM ChannelIsOpen == Spec => []OpenChannel
  <1>1. IInv => OpenChannel
    BY DEF IInv
  <1>2. QED
    BY <1>1, FrameStoreInvariant, PTL

-----------------------------------------------------------------------------
(* The time signal.                                                        *)

\* What a second belongs to, told in blocks of ten seconds.
LEMMA TenSeconds ==
  ASSUME NEW t \in Nat
  PROVE  /\ AnnouncementFor(t).mark = 10 * (t \div 10) + 10
         /\ AnnouncementFor(t).key =
              <<((t \div 10) \div 360) % 24, ((t \div 10) \div 6) % 60, (t \div 10) % 6>>
         /\ AnnouncementFor(t).open = ((t % 60) % 10 \in 1 .. 3)
<1>1. t % 60 \in 0 .. 59 /\ t \div 3600 = (t \div 10) \div 360 /\ t \div 60 = (t \div 10) \div 6
  OBVIOUS
<1>2. (t % 60) \div 10 = (t \div 10) % 6
  OBVIOUS
<1>3. (t - (t % 60)) + 10 * (((t % 60) \div 10) + 1) = 10 * (t \div 10) + 10
  OBVIOUS
<1> QED BY <1>1, <1>2, <1>3 DEF AnnouncementFor, Hour, Minute, Second

\* A later second of another block: a later mark.
LEMMA LaterMark ==
  ASSUME NEW t \in Nat, NEW u \in Nat, t <= u, AnnouncementFor(t).key # AnnouncementFor(u).key
  PROVE  AnnouncementFor(t).mark < AnnouncementFor(u).mark
<1> DEFINE a == t \div 10
           b == u \div 10
<1>1. a \in Nat /\ b \in Nat /\ a <= b
  OBVIOUS
<1>2. /\ AnnouncementFor(t).mark = 10 * a + 10 /\ AnnouncementFor(u).mark = 10 * b + 10
      /\ AnnouncementFor(t).key = <<(a \div 360) % 24, (a \div 6) % 60, a % 6>>
      /\ AnnouncementFor(u).key = <<(b \div 360) % 24, (b \div 6) % 60, b % 6>>
  BY TenSeconds
<1> HIDE DEF a, b
<1>3. a # b
  BY <1>2
<1> QED BY <1>1, <1>2, <1>3

\* The windows are at the beginning of the blocks.
LEMMA WindowIsEarly ==
  ASSUME NEW t \in Nat
  PROVE  /\ AnnouncementFor(t).mark \in Nat /\ AnnouncementFor(t).mark > t
         /\ AnnouncementFor(t).open => AnnouncementFor(t).mark >= t + 7
<1>1. 10 * (t \div 10) + 10 \in Nat /\ 10 * (t \div 10) + 10 > t
  OBVIOUS
<1>2. (t % 60) % 10 \in 1 .. 3 => 10 * (t \div 10) + 10 >= t + 7
  OBVIOUS
<1> QED BY <1>1, <1>2, TenSeconds

\* The chime stands at the end of every chain and nowhere else.
LEMMA ChimeIsLast ==
  ASSUME NEW l
  PROVE  /\ Len(Chain(l)) \in Nat \ {0}
         /\ \A e \in 1 .. Len(Chain(l)) : Chain(l)[e] = "chime" <=> e = Len(Chain(l))
<1> DEFINE I == {i \in 1 .. 3 : Engines[i] \in Installed /\ Supports(Engines[i], l)}
           t == Selected(Engines, I)
           E == {"open_jtalk", "sapi", "espeak"}
<1>1. Engines \in Seq(E)
  BY DEF Engines
<1> HIDE DEF I, E
<1>2. t \in Seq(E)
  BY <1>1, SelectedComes
<1>3. Chain(l) = t \o <<"chime">>
  BY DEF Chain, I
<1> HIDE DEF t
<1>4. Len(t) \in Nat /\ Len(Chain(l)) = Len(t) + 1 /\ Chain(l)[Len(t) + 1] = "chime"
      /\ \A e \in 1 .. Len(t) : Chain(l)[e] = t[e] /\ t[e] \in E
  BY <1>2, <1>3
<1>5. "chime" \notin E
  BY DEF E
<1> QED BY <1>4, <1>5

\* Before the first request the invariant holds.
LEMMA InitTimeSignalInv == TimeSignalInit => TimeSignalInv
<1> USE TimeSignalAssumption DEF TimeSignalInv
<1> SUFFICES ASSUME TimeSignalInit PROVE TimeSignalInv
  OBVIOUS
<1>1. NoSound \in Sounds
  BY DEF NoSound, Sounds, SampleRate
<1>2. TimeSignalTypeOK
  BY <1>1 DEF TimeSignalInit, TimeSignalTypeOK
<1>3. CacheInv
  BY DEF TimeSignalInit, CacheInv
<1>4. \A s \in Stream : AnnouncedInv(s) /\ PreparedInv(s) /\ MissedInv(s)
  BY DEF TimeSignalInit, AnnouncedInv, PreparedInv, MissedInv
<1> QED BY <1>2, <1>3, <1>4

\* A stream whose own state stays keeps its part of the invariant.
LEMMA StreamRests ==
  ASSUME NEW t, AnnouncedInv(t), PreparedInv(t),
         now' = now, UNCHANGED <<pc[t], lang[t], lastKey[t], asked[t], heard[t], spoken[t]>>,
         pc[t] = "synthesis" => UNCHANGED <<engine[t], elapsed[t]>>
  PROVE  AnnouncedInv(t)' /\ PreparedInv(t)'
BY DEF AnnouncedInv, PreparedInv

\* As long as nothing is stored, nothing is missed.
LEMMA NothingMissed ==
  ASSUME NEW t, MissedInv(t), cache' = cache,
         UNCHANGED <<pc[t], lang[t], asked[t], overtaken[t]>>
  PROVE  MissedInv(t)'
BY DEF MissedInv, Text

\* A request, a client that leaves, and the end of a stream.
LEMMA ComeAndGo ==
  ASSUME TimeSignalInv, NEW s \in Stream, NewStreamer(s) \/ Leave(s) \/ Close(s)
  PROVE  TimeSignalInv'
<1> USE DEF TimeSignalInv
<1>1. TimeSignalTypeOK'
  BY DEF TimeSignalTypeOK, Announcements, NewStreamer, Leave, Close
<1>2. CacheInv'
  BY DEF CacheInv, NewStreamer, Leave, Close
<1>3. ASSUME NEW t \in Stream PROVE AnnouncedInv(t)' /\ PreparedInv(t)' /\ MissedInv(t)'
  <2>1. now' = now /\ cache' = cache /\ UNCHANGED <<engine, elapsed>>
        /\ UNCHANGED <<lang[t], lastKey[t], asked[t], heard[t], spoken[t], overtaken[t]>>
    BY DEF NewStreamer, Leave, Close
  <2>2. pc'[t] = pc[t] \/ pc'[t] \in {"ready", "closed"}
    BY DEF NewStreamer, Leave, Close, TimeSignalTypeOK
  <2>3. CASE pc'[t] = pc[t]
    BY <2>1, <2>3, StreamRests, NothingMissed
  <2>4. CASE pc'[t] \in {"ready", "closed"}
    BY <2>1, <2>4 DEF AnnouncedInv, PreparedInv, MissedInv
  <2> QED BY <2>2, <2>3, <2>4
<1> QED BY <1>1, <1>2, <1>3

\* A chunk: the announcement it begins is of a later block than the last one.
LEMMA ChunkStep ==
  ASSUME TimeSignalInv, NEW s \in Stream, Chunk(s)
  PROVE  TimeSignalInv'
<1> USE TimeSignalAssumption DEF TimeSignalInv
<1> DEFINE a == AnnouncementFor(now)
<1>1. now \in Nat /\ now \in Begin .. now /\ a \in Announcements
  BY DEF TimeSignalTypeOK, Announcements
<1>2. TimeSignalTypeOK'
  <2>1. now' = now /\ Announcements' = Announcements
    BY DEF Announcements, Chunk
  <2>2. asked' \in [Stream -> {Nothing} \cup Announcements]
        /\ lastKey' \in [Stream -> {NoKey} \cup {b.key : b \in Announcements}]
    <3>1. \/ asked' = asked /\ lastKey' = lastKey
          \/ asked' = [asked EXCEPT ![s] = a] /\ lastKey' = [lastKey EXCEPT ![s] = a.key]
      BY DEF Chunk
    <3> HIDE DEF a
    <3>2. a.key \in {b.key : b \in Announcements}
      BY <1>1
    <3> DEFINE A == {Nothing} \cup Announcements
               K == {NoKey} \cup {b.key : b \in Announcements}
    <3>3. a \in A /\ a.key \in K /\ asked \in [Stream -> A] /\ lastKey \in [Stream -> K]
      BY <1>1, <3>2 DEF TimeSignalTypeOK
    <3> HIDE DEF A, K
    <3>4. asked' \in [Stream -> A] /\ lastKey' \in [Stream -> K]
      BY <3>1, <3>3
    <3> QED BY <3>4 DEF A, K
  <2>3. pc' \in [Stream -> {"closed", "ready", "lookup", "synthesis", "store"}]
        /\ heard' \in [Stream -> Nat]
    BY <1>1 DEF TimeSignalTypeOK, Chunk
  <2> HIDE DEF a
  <2> QED BY <2>1, <2>2, <2>3 DEF TimeSignalTypeOK, Chunk
<1>3. CacheInv'
  BY DEF CacheInv, Chunk
<1>4. ASSUME NEW t \in Stream, t # s PROVE AnnouncedInv(t)' /\ PreparedInv(t)' /\ MissedInv(t)'
  <2>1. now' = now /\ cache' = cache /\ UNCHANGED <<engine, elapsed>>
        /\ UNCHANGED <<pc[t], lang[t], lastKey[t], asked[t], heard[t], spoken[t], overtaken[t]>>
    BY <1>4 DEF Chunk, TimeSignalTypeOK
  <2> QED BY <2>1, StreamRests, NothingMissed
<1>5. CASE ~Announces(s)
  <2>1. AnnouncedInv(s)'
    <3>1. now' = now /\ heard'[s] = now /\ lastKey'[s] = lastKey[s] /\ spoken'[s] = spoken[s]
      BY <1>5 DEF Chunk, TimeSignalTypeOK
    <3>2. \A t \in Begin .. heard[s] : t \in Begin .. now
      BY <1>1 DEF AnnouncedInv, TimeSignalTypeOK
    <3> QED BY <1>1, <3>1, <3>2 DEF AnnouncedInv
  <2>2. PreparedInv(s)' /\ MissedInv(s)'
    BY <1>5 DEF PreparedInv, MissedInv, Chunk, TimeSignalTypeOK
  <2> QED BY <1>2, <1>3, <1>4, <2>1, <2>2
<1>6. CASE Announces(s)
  <2>1. /\ now' = now /\ heard'[s] = now /\ pc'[s] = "lookup" /\ lastKey'[s] = a.key
        /\ asked'[s] = a /\ spoken'[s] = spoken[s] /\ cache' = cache
    BY <1>6 DEF Chunk, TimeSignalTypeOK
  <2>2. spoken[s] < a.mark /\ spoken[s] \in Nat /\ a.mark \in Nat
    <3>1. spoken[s] \in Nat /\ heard[s] \in Nat /\ a.mark \in Nat /\ 0 < a.mark
      BY <1>1, WindowIsEarly DEF TimeSignalTypeOK
    <3>2. CASE lastKey[s] = NoKey /\ spoken[s] = 0
      BY <3>1, <3>2
    <3>3. ASSUME NEW t \in Begin .. heard[s],
                 lastKey[s] = AnnouncementFor(t).key, spoken[s] <= AnnouncementFor(t).mark
          PROVE  spoken[s] < a.mark
      <4>1. t \in Nat /\ t <= now /\ AnnouncementFor(t).key # a.key
        BY <1>1, <1>6, <3>1, <3>3 DEF Announces, AnnouncedInv
      <4>2. AnnouncementFor(t).mark < a.mark /\ AnnouncementFor(t).mark \in Nat
        BY <1>1, <4>1, LaterMark, WindowIsEarly
      <4> QED BY <3>1, <3>3, <4>2
    <3> QED BY <3>1, <3>2, <3>3 DEF AnnouncedInv
  <2>3. AnnouncedInv(s)'
    BY <1>1, <2>1, <2>2 DEF AnnouncedInv
  <2>4. a.open
    BY <1>6 DEF Announces
  <2>5. PreparedInv(s)' /\ MissedInv(s)'
    BY <1>1, <2>1, <2>2, <2>4 DEF PreparedInv, MissedInv
  <2> QED BY <1>2, <1>3, <1>4, <2>3, <2>5
<1> QED BY <1>5, <1>6

\* A phrase that starts is the one that was announced.
LEMMA PhraseStarts ==
  ASSUME TimeSignalTypeOK, NEW s \in Stream, AnnouncedInv(s), PreparedInv(s),
         pc[s] \in {"lookup", "store"}, Starts(s), UNCHANGED <<now, lastKey, heard>>
  PROVE  AnnouncedInv(s)' /\ PreparedInv(s)' /\ MissedInv(s)'
<1>1. /\ now' = now /\ heard'[s] = heard[s] /\ lastKey'[s] = AnnouncementFor(heard[s]).key
      /\ spoken'[s] = AnnouncementFor(heard[s]).mark /\ pc'[s] = "ready"
  BY DEF PreparedInv, Starts, TimeSignalTypeOK
<1>2. heard[s] \in Begin .. heard[s]
  BY TimeSignalAssumption DEF TimeSignalTypeOK, AnnouncedInv, PreparedInv
<1>3. AnnouncementFor(heard[s]).mark <= AnnouncementFor(heard[s]).mark
  BY <1>2, WindowIsEarly DEF TimeSignalTypeOK
<1>4. AnnouncedInv(s)'
  BY <1>1, <1>2, <1>3 DEF AnnouncedInv
<1>5. PreparedInv(s)' /\ MissedInv(s)'
  BY <1>1 DEF PreparedInv, MissedInv
<1> QED BY <1>4, <1>5

\* The start of a phrase keeps the types.
LEMMA StartsType ==
  ASSUME TimeSignalTypeOK, NEW s \in Stream, Starts(s), pcm' \in [Stream -> Sounds],
         elapsed' \in [Stream -> 0 .. SynthTimeout], engine' \in [Stream -> Nat],
         overtaken' \in [Stream -> BOOLEAN], UNCHANGED <<now, lang, lastKey, gone, heard>>
  PROVE  TimeSignalTypeOK'
<1>1. asked[s].mark \in Nat
  <2>1. \A t \in Begin .. now : AnnouncementFor(t).mark \in Nat
    BY TimeSignalAssumption, WindowIsEarly DEF TimeSignalTypeOK
  <2>2. Nothing.mark \in Nat
    BY DEF Nothing
  <2> QED BY <2>1, <2>2 DEF TimeSignalTypeOK, Announcements
<1>2. Announcements' = Announcements
  BY DEF Announcements
<1>3. asked' \in [Stream -> {Nothing} \cup Announcements]
  BY DEF TimeSignalTypeOK, Starts
<1> QED BY <1>1, <1>2, <1>3 DEF TimeSignalTypeOK, Starts

\* The first lock section: a phrase that is found starts, one that is missed is begun.
LEMMA LookupStep ==
  ASSUME TimeSignalInv, NEW s \in Stream, Lookup(s)
  PROVE  TimeSignalInv'
<1> USE TimeSignalAssumption DEF TimeSignalInv
<1>1. CacheInv'
  BY DEF CacheInv, Lookup
<1>2. ASSUME NEW t \in Stream, t # s PROVE AnnouncedInv(t)' /\ PreparedInv(t)' /\ MissedInv(t)'
  <2>1. now' = now /\ cache' = cache
        /\ UNCHANGED <<pc[t], lang[t], lastKey[t], asked[t], heard[t], spoken[t], overtaken[t],
                       engine[t], elapsed[t]>>
    BY <1>2 DEF Lookup, Starts, TimeSignalTypeOK
  <2> QED BY <2>1, StreamRests, NothingMissed
<1>3. CASE Starts(s)
  <2>1. UNCHANGED <<now, lang, lastKey, heard, gone, engine, elapsed, pcm, overtaken>>
    BY <1>3 DEF Lookup, Starts, TimeSignalTypeOK
  <2>2. AnnouncedInv(s)' /\ PreparedInv(s)' /\ MissedInv(s)'
    BY <1>3, <2>1, PhraseStarts DEF Lookup
  <2>3. TimeSignalTypeOK'
    BY <1>3, <2>1, StartsType DEF TimeSignalTypeOK
  <2> QED BY <1>1, <1>2, <2>2, <2>3
<1>4. CASE ~Cached(s)
  <2>1. /\ pc' = [pc EXCEPT ![s] = "synthesis"]
        /\ engine' = [engine EXCEPT ![s] = 1] /\ elapsed' = [elapsed EXCEPT ![s] = 0]
        /\ overtaken' = [overtaken EXCEPT ![s] = FALSE]
        /\ UNCHANGED <<asked, spoken, now, cache, lang, lastKey, gone, pcm, heard>>
    BY <1>4 DEF Lookup
  <2>2. TimeSignalTypeOK'
    <3>1. Announcements' = Announcements
      BY <2>1 DEF Announcements
    <3> QED BY <2>1, <3>1 DEF TimeSignalTypeOK
  <2>3. AnnouncedInv(s)'
    BY <2>1 DEF AnnouncedInv
  <2>4. PreparedInv(s)'
    <3> DEFINE n == Len(Chain(lang[s]))
    <3>1. n \in Nat \ {0}
      BY ChimeIsLast
    <3> HIDE DEF n
    <3>2. pc[s] = "lookup" /\ now \in Nat /\ now <= now + (1 - 1) * SynthTimeout + 0
      BY DEF Lookup, TimeSignalTypeOK
    <3>3. /\ engine'[s] \in 1 .. n /\ elapsed'[s] = 0 /\ pc'[s] = "synthesis"
          /\ now' <= heard'[s] + (engine'[s] - 1) * SynthTimeout + elapsed'[s]
      BY <2>1, <3>1, <3>2 DEF PreparedInv, TimeSignalTypeOK
    <3>4. Len(Chain(lang[s]))' = n
      BY <2>1 DEF n
    <3> QED BY <2>1, <3>2, <3>3, <3>4 DEF PreparedInv
  <2>5. MissedInv(s)'
    BY <1>4, <2>1 DEF MissedInv, Cached, Text
  <2> QED BY <1>1, <1>2, <2>2, <2>3, <2>4, <2>5
<1> QED BY <1>3, <1>4 DEF Lookup

\* The quotient of two integers is an integer.
LEMMA QuotientIsNumber ==
  ASSUME NEW a \in Int, NEW b \in Nat \ {0}
  PROVE  Quot(a, b) \in Int
BY DEF Quot

\* ParseWAV makes a sound of whatever an engine wrote.
LEMMA EngineSound ==
  ASSUME NEW w \in WAVs
  PROVE  ParseWAV(w) \in Sounds
<1>1. CASE w.format = "pcm" /\ w.bits \in {8, 16} /\ w.rate > 0
  <2> DEFINE F == w.frames
             mean == [f \in DOMAIN F |-> Quot(Total(F[f]), Len(F[f]))]
  <2>1. F \in Seq(Seq(Int) \ {<< >>}) /\ w.rate \in Nat \ {0}
    BY <1>1, TimeSignalAssumption
  <2>2. ParseWAV(w) = [rate |-> w.rate, samples |-> mean]
    BY <1>1 DEF ParseWAV
  <2> HIDE DEF F
  <2>3. ASSUME NEW f \in 1 .. Len(F) PROVE Quot(Total(F[f]), Len(F[f])) \in Int
    <3> DEFINE n == Len(F[f])
    <3>1. F[f] \in Seq(Int) /\ F[f] # << >>
      BY <2>1
    <3>2. n \in Nat \ {0}
      BY <3>1
    <3> HIDE DEF n
    <3>3. Quot(Total(F[f]), n) \in Int
      BY <3>1, <3>2, TotalIsNumber, QuotientIsNumber
    <3> QED BY <3>3 DEF n
  <2>4. mean \in Seq(Int)
    <3>1. DOMAIN F = 1 .. Len(F) /\ Len(F) \in Nat
      BY <2>1
    <3>2. mean \in [1 .. Len(F) -> Int]
      BY <2>3, <3>1
    <3> HIDE DEF mean
    <3> QED BY <3>1, <3>2
  <2> HIDE DEF mean
  <2> QED BY <2>1, <2>2, <2>4 DEF Sounds
<1>2. CASE ~(w.format = "pcm" /\ w.bits \in {8, 16} /\ w.rate > 0)
  BY <1>2 DEF ParseWAV, NoSound, Sounds, SampleRate
<1> QED BY <1>1, <1>2

\* So does the chime.
LEMMA ChimeSound == Chime \in Sounds
BY TimeSignalAssumption DEF Chime, Sounds, SampleRate

\* An engine speaks, or the next one takes over within the time they have.
LEMMA SynthesizeStep ==
  ASSUME TimeSignalInv, NEW s \in Stream, Synthesize(s)
  PROVE  TimeSignalInv'
<1> USE TimeSignalAssumption DEF TimeSignalInv
<1> DEFINE n == Len(Chain(lang[s]))
           e == engine[s]
<1>1. n \in Nat \ {0} /\ e \in 1 .. n /\ (Running(s) = "chime" <=> e = n)
  BY ChimeIsLast DEF PreparedInv, Synthesize, Running
<1>2. UNCHANGED <<now, cache, extreme, lang, lastKey, asked, gone, heard, spoken, overtaken>>
  BY DEF Synthesize
<1>3. /\ pc[s] = "synthesis" /\ now \in Nat /\ heard[s] \in Nat
      /\ elapsed[s] \in 0 .. SynthTimeout /\ (e = n => elapsed[s] = 0)
      /\ now <= heard[s] + (e - 1) * SynthTimeout + elapsed[s]
  BY DEF PreparedInv, Synthesize, TimeSignalTypeOK
<1>4. CacheInv'
  BY <1>2 DEF CacheInv
<1>5. \A t \in Stream : AnnouncedInv(t)'
  BY <1>2 DEF AnnouncedInv
<1>6. Announcements' = Announcements
  BY <1>2 DEF Announcements
<1>7. CASE \E p \in Sounds : Synthesised(s, p)
  <2>1. PICK p \in Sounds : Synthesised(s, p)
    BY <1>7
  <2>2. TimeSignalTypeOK'
    BY <1>2, <1>6, <2>1 DEF TimeSignalTypeOK, Synthesised
  <2>3. \A t \in Stream : MissedInv(t)'
    BY <1>2, <1>3, <2>1 DEF MissedInv, Text, Synthesised, TimeSignalTypeOK
  <2>4. ASSUME NEW t \in Stream, t # s PROVE PreparedInv(t)'
    BY <1>2, <2>1, <2>4, StreamRests DEF Synthesised, TimeSignalTypeOK
  <2>5. now <= heard[s] + (n - 1) * SynthTimeout
    <3> HIDE DEF n, e
    <3>1. CASE e = n
      BY <1>1, <1>3, <3>1
    <3>2. CASE e < n
      <4>1. e * SynthTimeout <= (n - 1) * SynthTimeout
            /\ (e - 1) * SynthTimeout + elapsed[s] <= e * SynthTimeout
        BY <1>1, <1>3, <3>2
      <4>2. (e - 1) * SynthTimeout \in Int /\ e * SynthTimeout \in Int
            /\ (n - 1) * SynthTimeout \in Int
        BY <1>1
      <4> QED BY <1>3, <4>1, <4>2
    <3> QED BY <1>1, <3>1, <3>2
  <2>6. PreparedInv(s)'
    <3>1. pc'[s] = "store" /\ n' = n
      BY <1>2, <2>1 DEF Synthesised, TimeSignalTypeOK
    <3> HIDE DEF n, e
    <3>2. now' <= heard'[s] + (Len(Chain(lang[s]))' - 1) * SynthTimeout
      BY <1>2, <2>5, <3>1 DEF n
    <3> QED BY <1>2, <1>3, <3>1, <3>2 DEF PreparedInv
  <2> QED BY <1>4, <1>5, <2>2, <2>3, <2>4, <2>6
<1>8. CASE /\ Running(s) # "chime"
           /\ engine' = [engine EXCEPT ![s] = @ + 1] /\ elapsed' = [elapsed EXCEPT ![s] = 0]
           /\ UNCHANGED <<pc, pcm>>
  <2>1. TimeSignalTypeOK'
    BY <1>2, <1>6, <1>8 DEF TimeSignalTypeOK
  <2>2. \A t \in Stream : MissedInv(t)'
    BY <1>2, <1>8, NothingMissed
  <2>3. ASSUME NEW t \in Stream, t # s PROVE PreparedInv(t)'
    BY <1>2, <1>8, <2>3, StreamRests DEF TimeSignalTypeOK
  <2>4. PreparedInv(s)'
    <3>1. engine'[s] = e + 1 /\ elapsed'[s] = 0 /\ n' = n /\ pc'[s] = "synthesis"
      BY <1>2, <1>3, <1>8 DEF TimeSignalTypeOK
    <3> HIDE DEF n, e
    <3>2. e + 1 \in 1 .. n
      BY <1>1, <1>8
    <3>3. now <= heard[s] + ((e + 1) - 1) * SynthTimeout + 0
      <4>1. (e - 1) * SynthTimeout + elapsed[s] <= e * SynthTimeout
        BY <1>1, <1>3
      <4>2. (e - 1) * SynthTimeout \in Int /\ e * SynthTimeout \in Int /\ (e + 1) - 1 = e
        BY <1>1
      <4> QED BY <1>3, <4>1, <4>2
    <3>4. /\ engine'[s] \in 1 .. Len(Chain(lang[s]))' /\ elapsed'[s] = 0
          /\ now' <= heard'[s] + (engine'[s] - 1) * SynthTimeout + elapsed'[s]
      BY <1>2, <3>1, <3>2, <3>3 DEF n
    <3> QED BY <1>2, <1>3, <3>1, <3>4 DEF PreparedInv
  <2> QED BY <1>4, <1>5, <2>1, <2>2, <2>3, <2>4
<1> QED BY <1>7, <1>8, EngineSound, ChimeSound DEF Synthesize

\* A finite set has an element before which no other comes, in any order.
LEMMA FirstOne ==
  ASSUME NEW S, IsFiniteSet(S), S # {}, NEW R,
         \A x, y, z \in S : <<x, y>> \in R /\ <<y, z>> \in R => <<x, z>> \in R,
         \A x \in S : <<x, x>> \notin R
  PROVE  \E m \in S : \A x \in S : <<x, m>> \notin R
<1> DEFINE before(m) == {x \in S : <<x, m>> \in R}
           U == {before(m) : m \in S}
<1>1. U \subseteq FiniteSubsetsOf(S) /\ U # {}
  <2>1. \A m \in S : before(m) \in SUBSET S
    OBVIOUS
  <2> HIDE DEF before
  <2>2. \A m \in S : IsFiniteSet(before(m))
    BY <2>1, FS_Subset
  <2> QED BY <2>1, <2>2 DEF FiniteSubsetsOf
<1>2. PICK u \in U : \A v \in U : ~ (<<v, u>> \in StrictSubsetOrdering(S))
  <2> HIDE DEF U
  <2> QED BY <1>1, FS_StrictSubsetOrderingWellFounded, WFMin
<1>3. PICK m \in S : u = before(m)
  OBVIOUS
<1>4. ASSUME NEW x \in S, <<x, m>> \in R PROVE FALSE
  <2> DEFINE v == before(x)
  <2>1. v \subseteq u /\ x \in u /\ x \notin v /\ v \in SUBSET S /\ u \in SUBSET S /\ v \in U
    BY <1>3, <1>4
  <2> HIDE DEF v, U
  <2>2. <<v, u>> \in StrictSubsetOrdering(S)
    BY <2>1 DEF StrictSubsetOrdering
  <2> QED BY <1>2, <2>1, <2>2
<1> QED BY <1>4

\* The largest and the smallest number of a finite set are in it and bound it.
LEMMA MinMax ==
  ASSUME NEW S \in SUBSET Int, IsFiniteSet(S), S # {}
  PROVE  /\ Max(S) \in S /\ \A x \in S : x <= Max(S)
         /\ Min(S) \in S /\ \A x \in S : Min(S) <= x
<1> DEFINE Less == {p \in Int \X Int : p[1] < p[2]}
           More == {p \in Int \X Int : p[1] > p[2]}
<1>1. \A x, y \in Int : (<<x, y>> \in Less <=> x < y) /\ (<<x, y>> \in More <=> x > y)
  OBVIOUS
<1> HIDE DEF Less, More
<1>2. \A x, y \in S : (<<x, y>> \in Less <=> x < y) /\ (<<x, y>> \in More <=> x > y)
  BY <1>1
<1>3. \E m \in S : \A x \in S : <<x, m>> \notin Less
  <2>1. /\ \A x, y, z \in S : <<x, y>> \in Less /\ <<y, z>> \in Less => <<x, z>> \in Less
        /\ \A x \in S : <<x, x>> \notin Less
    BY <1>2
  <2> QED BY <2>1, FirstOne
<1>4. \E m \in S : \A x \in S : <<x, m>> \notin More
  <2>1. /\ \A x, y, z \in S : <<x, y>> \in More /\ <<y, z>> \in More => <<x, z>> \in More
        /\ \A x \in S : <<x, x>> \notin More
    BY <1>2
  <2> QED BY <2>1, FirstOne
<1>5. (\E m \in S : \A x \in S : m <= x) /\ (\E m \in S : \A x \in S : m >= x)
  <2>1. PICK m \in S : \A x \in S : <<x, m>> \notin Less
    BY <1>3
  <2>2. PICK k \in S : \A x \in S : <<x, k>> \notin More
    BY <1>4
  <2>3. \A x \in S : ~(x < m) /\ ~(x > k) /\ x \in Int
    BY <1>2, <2>1, <2>2
  <2>4. \A x \in S : m <= x /\ k >= x
    BY <2>3
  <2> QED BY <2>4
<1> QED BY <1>5 DEF Max, Min

\* A clamped sample is a number.
LEMMA ClampedIsNumber ==
  ASSUME NEW v \in Int
  PROVE  clampSample(v) \in Int
BY TimeSignalAssumption DEF clampSample

\* The number of samples that resampling makes, rounded to the nearest.
LEMMA Rounded ==
  ASSUME NEW a \in Nat, NEW b \in Nat \ {0}, NEW n, n = (2 * a * SampleRate + b) \div (2 * b)
  PROVE  n \in Nat /\ 2 * b * n <= 2 * a * SampleRate + b
<1> DEFINE x == 2 * a * SampleRate + b
           y == 2 * b
<1>1. x \in Nat /\ y \in Nat \ {0} /\ n = x \div y
  BY DEF SampleRate
<1> HIDE DEF x, y
<1>2. n \in Nat /\ y * n <= x
  BY <1>1
<1> QED BY <1>2 DEF x, y

\* The number of samples that one sample covers.
LEMMA WindowIsNumber ==
  ASSUME NEW b \in Nat
  PROVE  (b + SampleRate - 1) \div SampleRate \in Nat
BY DEF SampleRate

\* No sample is read beyond the end of the sound.
LEMMA StaysInside ==
  ASSUME NEW a \in Nat \ {0}, NEW b \in Nat \ {0}, NEW n \in Nat,
         2 * b * n <= 2 * a * SampleRate + b, NEW i \in 1 .. n
  PROVE  ((i - 1) * b) \div SampleRate \in 0 .. a - 1 /\ ((i - 1) * b) % SampleRate \in Int
<1> DEFINE x == (i - 1) * b
<1>1. x \in Nat
  OBVIOUS
<1>2. x + b <= n * b
  <2>1. i * b <= n * b /\ x + b = i * b
    OBVIOUS
  <2> QED BY <2>1
<1>3. x < a * SampleRate
  <2>1. 2 * b * n = 2 * (n * b) /\ n * b \in Nat /\ 2 * a * SampleRate = 2 * (a * SampleRate)
    BY DEF SampleRate
  <2> DEFINE y == n * b
             z == a * SampleRate
  <2>2. y \in Nat /\ z \in Nat /\ 2 * y <= 2 * z + b /\ x + b <= y
    BY <1>2, <2>1 DEF SampleRate
  <2> HIDE DEF x, y
  <2> QED BY <1>1, <2>2
<1> HIDE DEF x
<1>4. x \div SampleRate \in Nat /\ (x \div SampleRate) * SampleRate <= x
  BY <1>1 DEF SampleRate
<1> DEFINE q == x \div SampleRate
<1>5. q \in Nat /\ q * 48000 <= x /\ x < a * 48000
  BY <1>3, <1>4 DEF SampleRate
<1> HIDE DEF q
<1>6. q \in 0 .. a - 1
  BY <1>1, <1>5
<1>7. x % SampleRate \in Int
  BY <1>1 DEF SampleRate
<1> QED BY <1>6, <1>7 DEF q, x

\* Resampling makes samples of samples.
LEMMA ResampledSound ==
  ASSUME NEW p \in Sounds
  PROVE  Resample(p) \in Seq(Int)
<1> DEFINE in == p.samples
           rate == p.rate
           n == (2 * Len(in) * SampleRate + rate) \div (2 * rate)
           at(i) == ((i - 1) * rate) \div SampleRate
           rest(i) == ((i - 1) * rate) % SampleRate
           following(i) == IF at(i) + 2 <= Len(in) THEN in[at(i) + 2] ELSE in[at(i) + 1]
           between(i) == Quot(in[at(i) + 1] * SampleRate + (following(i) - in[at(i) + 1]) * rest(i), SampleRate)
           window == (rate + SampleRate - 1) \div SampleRate
           last(i) == IF at(i) + window > Len(in) THEN Len(in) ELSE at(i) + window
           mean(i) == Quot(Total(SubSeq(in, at(i) + 1, last(i))), last(i) - at(i))
           value(i) == IF rate < SampleRate THEN clampSample(between(i))
                       ELSE IF at(i) >= last(i) THEN in[Len(in)] ELSE mean(i)
<1>1. Resample(p) = IF rate = SampleRate \/ in = << >> THEN in ELSE [i \in 1 .. n |-> value(i)]
  BY DEF Resample
<1>2. in \in Seq(Int) /\ Len(in) \in Nat /\ rate \in Nat \ {0} /\ SampleRate \in Nat \ {0}
  BY DEF Sounds, SampleRate
<1> DEFINE len == Len(in)
<1> SUFFICES ASSUME in # << >> PROVE [i \in 1 .. n |-> value(i)] \in Seq(Int)
  BY <1>1, <1>2
<1>3. len \in Nat \ {0} /\ \A k \in 1 .. len : in[k] \in Int
  BY <1>2
<1> HIDE DEF in, rate, len
<1>4. n \in Nat /\ 2 * rate * n <= 2 * len * SampleRate + rate
  BY <1>2, <1>3, Rounded DEF len
<1> HIDE DEF n
<1>5. ASSUME NEW i \in 1 .. n PROVE at(i) \in 0 .. len - 1 /\ rest(i) \in Int
  BY <1>2, <1>3, <1>4, StaysInside
<1> HIDE DEF at, rest
<1>6. ASSUME NEW i \in 1 .. n PROVE value(i) \in Int
  <2>1. CASE rate < SampleRate
    <3>1. in[at(i) + 1] \in Int /\ following(i) \in Int
      BY <1>3, <1>5 DEF len
    <3> HIDE DEF following
    <3>2. in[at(i) + 1] * SampleRate + (following(i) - in[at(i) + 1]) * rest(i) \in Int
      BY <1>2, <1>5, <3>1
    <3>3. between(i) \in Int
      BY <1>2, <3>2, QuotientIsNumber
    <3> HIDE DEF between
    <3> QED BY <2>1, <3>3, ClampedIsNumber
  <2>2. CASE ~(rate < SampleRate)
    <3>1. window \in Nat
      BY <1>2, WindowIsNumber
    <3> HIDE DEF window
    <3>2. last(i) \in 0 .. len
      BY <1>2, <1>3, <1>5, <3>1 DEF len
    <3> HIDE DEF last
    <3>3. CASE at(i) >= last(i)
      BY <1>3, <2>2, <3>3 DEF len
    <3>4. CASE ~(at(i) >= last(i))
      <4> DEFINE part == SubSeq(in, at(i) + 1, last(i))
                 many == last(i) - at(i)
      <4>1. many \in Nat \ {0} /\ part \in Seq(Int)
        BY <1>2, <1>3, <1>5, <3>2, <3>4 DEF len
      <4> HIDE DEF many, part
      <4>2. Quot(Total(part), many) \in Int
        BY <4>1, TotalIsNumber, QuotientIsNumber
      <4> QED BY <2>2, <3>4, <4>2 DEF many, part
    <3> QED BY <3>3, <3>4
  <2> QED BY <2>1, <2>2
<1> HIDE DEF value
<1>7. [i \in 1 .. n |-> value(i)] \in [1 .. n -> Int]
  BY <1>6
<1> QED BY <1>4, <1>7

\* Trimming keeps samples of the sound and invents none.
LEMMA TrimmedSound ==
  ASSUME NEW s \in Seq(Int)
  PROVE  /\ TrimSilence(s) \in Seq(Int)
         /\ \A i \in 1 .. Len(TrimSilence(s)) : \E j \in 1 .. Len(s) : TrimSilence(s)[i] = s[j]
<1> DEFINE loud == {i \in DOMAIN s : Magnitude(s[i]) > Silence}
<1>1. loud \in SUBSET (1 .. Len(s)) /\ Len(s) \in Nat
  OBVIOUS
<1>2. TrimSilence(s) = IF loud = {} THEN << >> ELSE SubSeq(s, Min(loud), Max(loud))
  BY DEF TrimSilence
<1> HIDE DEF loud
<1>3. CASE loud = {}
  BY <1>2, <1>3
<1>4. CASE loud # {}
  <2>1. IsFiniteSet(loud) /\ loud \in SUBSET Int
    <3>1. IsFiniteSet(1 .. Len(s)) /\ 1 .. Len(s) \in SUBSET Int
      BY <1>1, FS_Interval
    <3> QED BY <1>1, <3>1, FS_Subset
  <2>2. Min(loud) \in 1 .. Len(s) /\ Max(loud) \in 1 .. Len(s)
    BY <1>1, <1>4, <2>1, MinMax
  <2> DEFINE m == Min(loud)
             k == Max(loud)
  <2> HIDE DEF m, k
  <2>3. m \in 1 .. Len(s) /\ k \in 1 .. Len(s) /\ TrimSilence(s) = SubSeq(s, m, k)
    BY <1>2, <1>4, <2>2 DEF m, k
  <2>4. SubSeq(s, m, k) \in Seq(Int)
    BY <2>3
  <2>5. ASSUME NEW i \in 1 .. Len(SubSeq(s, m, k))
        PROVE  \E j \in 1 .. Len(s) : SubSeq(s, m, k)[i] = s[j]
    <3>1. i + m - 1 \in 1 .. Len(s) /\ SubSeq(s, m, k)[i] = s[i + m - 1]
      BY <1>1, <2>3
    <3> QED BY <3>1
  <2> QED BY <2>3, <2>4, <2>5
<1> QED BY <1>3, <1>4

\* The peak is what Normalize scales to: nothing comes out louder than voicePeak.
LEMMA Scaled ==
  ASSUME NEW v \in Int, NEW peak \in Nat \ {0}, -peak <= v, v <= peak
  PROVE  LET q == Quot(v * 6 * FullScale, 10 * peak)
         IN  q \in Int /\ 10 * q <= 6 * FullScale /\ -(6 * FullScale) <= 10 * q
<1> DEFINE f == 6 * FullScale
           b == 10 * peak
<1>1. f \in Nat \ {0} /\ b \in Nat \ {0} /\ v * 6 * FullScale = v * f
  BY TimeSignalAssumption
<1>2. b * f = 10 * (peak * f) /\ peak * f \in Nat
  BY <1>1
<1> HIDE DEF f
<1>3. ASSUME NEW x \in Nat, x <= peak PROVE (x * f) \div b \in Nat /\ 10 * ((x * f) \div b) <= f
  <2> DEFINE y == x * f
             q == y \div b
  <2>1. y \in Nat /\ y <= peak * f
    BY <1>1, <1>3
  <2> HIDE DEF y
  <2>2. q \in Nat /\ q * b <= y
    BY <1>1, <2>1
  <2> HIDE DEF q
  <2>3. (10 * q) * peak <= f * peak
    BY <2>1, <2>2, <1>1, <1>2
  <2>4. 10 * q <= f
    BY <1>1, <2>2, <2>3
  <2> QED BY <2>2, <2>4 DEF q, y
<1> HIDE DEF b
<1>4. CASE v * f >= 0
  <2>1. v \in Nat
    BY <1>1, <1>4
  <2>2. Quot(v * f, b) = (v * f) \div b
    BY <1>4 DEF Quot
  <2> QED BY <1>1, <1>3, <2>1, <2>2 DEF f, b
<1>5. CASE ~(v * f >= 0)
  <2>1. -v \in Nat /\ -v <= peak /\ -(v * f) = (-v) * f
    BY <1>1, <1>5
  <2>2. Quot(v * f, b) = -(((-v) * f) \div b)
    BY <1>5, <2>1 DEF Quot
  <2> QED BY <1>1, <1>3, <2>1, <2>2 DEF f, b
<1> QED BY <1>4, <1>5

\* A sound without the smallest sample comes out no louder than voicePeak.
LEMMA NormalizedSound ==
  ASSUME NEW s \in Seq(Int), \A i \in 1 .. Len(s) : s[i] # -FullScale - 1
  PROVE  \A i \in DOMAIN Normalize(s) :
           Normalize(s)[i] \in Int /\ 10 * Magnitude(Normalize(s)[i]) <= 6 * FullScale
<1> DEFINE n == Len(s)
           size == [i \in 1 .. n |-> Magnitude(s[i])]
           T == {size[i] : i \in 1 .. n}
           peak == Max({0} \cup T)
<1>1. n \in Nat /\ DOMAIN s = 1 .. n /\ \A i \in 1 .. n : s[i] \in Int
  OBVIOUS
<1>2. \A i \in 1 .. n : size[i] \in Nat /\ -size[i] <= s[i] /\ s[i] <= size[i]
  BY <1>1, TimeSignalAssumption DEF Magnitude, Negated
<1> HIDE DEF n
<1>3. IsFiniteSet({0} \cup T)
  <2>1. size \in Surjection(1 .. n, T)
    BY DEF Surjection
  <2>2. IsFiniteSet(1 .. n)
    BY <1>1, FS_Interval
  <2> HIDE DEF T, size
  <2>3. IsFiniteSet(T)
    BY <2>1, <2>2, FS_Surjection
  <2> QED BY <2>3, FS_Singleton, FS_Union
<1>4. peak \in Nat /\ \A i \in 1 .. n : size[i] <= peak
  <2>1. {0} \cup T \in SUBSET Int
    BY <1>2
  <2>2. peak \in {0} \cup T /\ \A x \in {0} \cup T : x <= peak
    <3> HIDE DEF T
    <3> QED BY <1>3, <2>1, MinMax
  <2> HIDE DEF peak
  <2> QED BY <1>2, <2>2
<1>5. Normalize(s) = IF peak <= 0 THEN s
                     ELSE [i \in 1 .. n |-> clampSample(Quot(s[i] * 6 * FullScale, 10 * peak))]
  <2>1. {Magnitude(s[i]) : i \in DOMAIN s} = T
    BY <1>1
  <2> HIDE DEF T
  <2> QED BY <1>1, <2>1 DEF Normalize
<1> HIDE DEF peak, size
<1>6. CASE peak = 0
  <2>1. Normalize(s) = s
    BY <1>5, <1>6
  <2>2. \A i \in 1 .. n : s[i] = 0
    BY <1>1, <1>2, <1>4, <1>6
  <2> QED BY <1>1, <2>1, <2>2, TimeSignalAssumption DEF Magnitude
<1>7. CASE peak # 0
  <2>1. Normalize(s) = [i \in 1 .. n |-> clampSample(Quot(s[i] * 6 * FullScale, 10 * peak))]
    BY <1>4, <1>5, <1>7
  <2>2. ASSUME NEW i \in 1 .. n
        PROVE  LET q == Quot(s[i] * 6 * FullScale, 10 * peak)
               IN  q \in Int /\ 10 * q <= 6 * FullScale /\ -(6 * FullScale) <= 10 * q
    <3>1. s[i] \in Int /\ peak \in Nat \ {0} /\ -peak <= s[i] /\ s[i] <= peak
      BY <1>1, <1>2, <1>4, <1>7
    <3> QED BY <3>1, Scaled
  <2>3. ASSUME NEW q \in Int, 10 * q <= 6 * FullScale, -(6 * FullScale) <= 10 * q
        PROVE  clampSample(q) \in Int /\ 10 * Magnitude(clampSample(q)) <= 6 * FullScale
    BY <2>3, TimeSignalAssumption DEF clampSample, Magnitude, Negated
  <2>4. \A i \in 1 .. n : Normalize(s)[i] = clampSample(Quot(s[i] * 6 * FullScale, 10 * peak))
    BY <2>1
  <2>5. ASSUME NEW i \in DOMAIN Normalize(s)
        PROVE  Normalize(s)[i] \in Int /\ 10 * Magnitude(Normalize(s)[i]) <= 6 * FullScale
    <3>1. i \in 1 .. n
      BY <2>1
    <3> QED BY <2>2, <2>3, <2>4, <3>1
  <2> QED BY <2>5
<1> QED BY <1>4, <1>6, <1>7

\* So does a phrase, whatever was synthesised.
LEMMA PhraseIsSoft ==
  ASSUME NEW p \in Sounds, -FullScale - 1 \notin Range(Resample(p))
  PROVE  \A i \in DOMAIN Phrase(p) :
           Phrase(p)[i] \in Int /\ 10 * Magnitude(Phrase(p)[i]) <= 6 * FullScale
<1> DEFINE r == Resample(p)
           t == TrimSilence(r)
<1>1. r \in Seq(Int)
  BY ResampledSound
<1>2. Phrase(p) = Normalize(t)
  BY DEF Phrase
<1>3. \A j \in 1 .. Len(r) : r[j] # -FullScale - 1
  BY <1>1 DEF Range
<1> HIDE DEF r
<1>4. t \in Seq(Int) /\ \A i \in 1 .. Len(t) : \E j \in 1 .. Len(r) : t[i] = r[j]
  BY <1>1, TrimmedSound
<1> HIDE DEF t
<1> QED BY <1>2, <1>3, <1>4, NormalizedSound

\* The second lock section: what is stored keeps to voicePeak, and the others have missed it.
LEMMA StorePhraseStep ==
  ASSUME TimeSignalInv, NEW s \in Stream, Store(s)
  PROVE  TimeSignalInv'
<1> USE TimeSignalAssumption DEF TimeSignalInv
<1> DEFINE x == Text(s)
           r == Phrase(pcm[s])
<1>1. /\ pc[s] = "store" /\ Starts(s) /\ UNCHANGED <<now, lang, lastKey, gone, heard>>
      /\ cache' = [text \in DOMAIN cache \cup {x} |-> IF text = x THEN r ELSE cache[text]]
  BY DEF Store
<1>2. TimeSignalTypeOK'
  <2>1. pcm' \in [Stream -> Sounds]
    BY DEF Store, TimeSignalTypeOK, NoSound, Sounds, SampleRate
  <2>2. overtaken' \in [Stream -> BOOLEAN]
    <3>1. \A t \in Stream : overtaken[t] \in BOOLEAN
      BY DEF TimeSignalTypeOK
    <3>2. overtaken' = [t \in Stream |->
            IF t = s THEN FALSE
            ELSE overtaken[t] \/ (pc[t] \in {"synthesis", "store"} /\ Text(t) = Text(s))]
      BY DEF Store
    <3> QED BY <3>1, <3>2
  <2>3. elapsed' \in [Stream -> 0 .. SynthTimeout] /\ engine' \in [Stream -> Nat]
    BY DEF Store, TimeSignalTypeOK
  <2> QED BY <1>1, <2>1, <2>2, <2>3, StartsType
<1>3. CacheInv'
  <2> SUFFICES ASSUME NEW text \in DOMAIN cache', text \notin extreme', NEW i \in DOMAIN cache'[text]
               PROVE  cache'[text][i] \in Int /\ 10 * Magnitude(cache'[text][i]) <= 6 * FullScale
    BY DEF CacheInv
  <2>1. CASE text = x
    <3>1. pcm[s] \in Sounds
      BY DEF TimeSignalTypeOK
    <3>2. -FullScale - 1 \notin Range(Resample(pcm[s]))
      BY <2>1 DEF Store
    <3>3. cache'[text] = r
      BY <1>1, <2>1
    <3> QED BY <3>1, <3>2, <3>3, PhraseIsSoft
  <2>2. CASE text # x
    <3>1. text \in DOMAIN cache \ extreme /\ cache'[text] = cache[text]
      BY <1>1, <2>2 DEF Store
    <3> QED BY <3>1 DEF CacheInv
  <2> QED BY <2>1, <2>2
<1>4. AnnouncedInv(s)' /\ PreparedInv(s)' /\ MissedInv(s)'
  BY <1>1, PhraseStarts
<1>5. ASSUME NEW t \in Stream, t # s PROVE AnnouncedInv(t)' /\ PreparedInv(t)' /\ MissedInv(t)'
  <2>1. now' = now /\ UNCHANGED <<pc[t], lang[t], lastKey[t], asked[t], heard[t], spoken[t],
                                  engine[t], elapsed[t]>>
    BY <1>5 DEF Store, Starts, TimeSignalTypeOK
  <2>2. AnnouncedInv(t)' /\ PreparedInv(t)'
    BY <2>1, StreamRests
  <2>3. overtaken'[t] = (overtaken[t] \/ (pc[t] \in {"synthesis", "store"} /\ Text(t) = x))
    BY <1>5 DEF Store
  <2>4. Text(t)' = Text(t)
    BY <2>1 DEF Text
  <2>5. MissedInv(t)'
    BY <1>1, <2>1, <2>3, <2>4 DEF MissedInv
  <2> QED BY <2>2, <2>5
<1> QED BY <1>2, <1>3, <1>4, <1>5

\* A second passes, and the engines have used it.
LEMMA TickStep ==
  ASSUME TimeSignalInv, Tick
  PROVE  TimeSignalInv'
<1> USE TimeSignalAssumption DEF TimeSignalInv
<1>1. /\ now' = now + 1 /\ now \in Nat
      /\ elapsed' = [s \in Stream |-> IF pc[s] = "synthesis" THEN elapsed[s] + 1 ELSE 0]
      /\ UNCHANGED <<cache, extreme, pc, lang, lastKey, asked, gone, engine, pcm, heard, spoken, overtaken>>
  BY DEF Tick, TimeSignalTypeOK
<1>2. TimeSignalTypeOK'
  <2>1. Announcements \subseteq Announcements'
    BY <1>1 DEF Announcements
  <2>2. asked' \in [Stream -> {Nothing} \cup Announcements']
        /\ lastKey' \in [Stream -> {NoKey} \cup {a.key : a \in Announcements'}]
    BY <1>1, <2>1 DEF TimeSignalTypeOK
  <2>3. elapsed' \in [Stream -> 0 .. SynthTimeout]
    BY <1>1 DEF Tick, TimeSignalTypeOK
  <2> QED BY <1>1, <2>2, <2>3 DEF TimeSignalTypeOK
<1>3. CacheInv'
  BY <1>1 DEF CacheInv
<1>4. ASSUME NEW s \in Stream PROVE AnnouncedInv(s)' /\ PreparedInv(s)' /\ MissedInv(s)'
  <2>1. AnnouncedInv(s)'
    BY <1>1 DEF AnnouncedInv, TimeSignalTypeOK
  <2>2. MissedInv(s)'
    BY <1>1, NothingMissed
  <2>3. pc[s] \notin {"lookup", "store"}
    BY DEF Tick
  <2>4. CASE pc[s] = "synthesis"
    <3> DEFINE n == Len(Chain(lang[s]))
               e == engine[s]
    <3>1. n \in Nat \ {0} /\ e \in 1 .. n /\ (Running(s) = "chime" <=> e = n)
      BY <2>4, ChimeIsLast DEF PreparedInv, Running
    <3>2. e # n /\ elapsed[s] < SynthTimeout
      BY <2>4, <3>1 DEF Tick
    <3>3. elapsed'[s] = elapsed[s] + 1 /\ elapsed[s] \in Nat /\ heard[s] \in Nat
      BY <1>1, <2>4 DEF TimeSignalTypeOK
    <3>4. now <= heard[s] + (e - 1) * SynthTimeout + elapsed[s]
      BY <2>4 DEF PreparedInv
    <3>5. n' = n /\ e' = e
      BY <1>1
    <3> HIDE DEF n, e
    <3>6. now + 1 <= heard[s] + (e - 1) * SynthTimeout + (elapsed[s] + 1)
      <4>1. (e - 1) * SynthTimeout \in Int
        BY <3>1
      <4> QED BY <1>1, <3>3, <3>4, <4>1
    <3>7. /\ engine'[s] \in 1 .. Len(Chain(lang[s]))' /\ engine'[s] # Len(Chain(lang[s]))'
          /\ elapsed'[s] <= SynthTimeout
          /\ now' <= heard'[s] + (engine'[s] - 1) * SynthTimeout + elapsed'[s]
      BY <1>1, <3>1, <3>2, <3>3, <3>5, <3>6 DEF n, e
    <3> QED BY <1>1, <2>1, <2>2, <2>4, <3>7 DEF PreparedInv
  <2>5. CASE pc[s] # "synthesis"
    BY <1>1, <2>1, <2>2, <2>3, <2>5 DEF PreparedInv
  <2> QED BY <2>4, <2>5
<1> QED BY <1>2, <1>3, <1>4

\* The inductive invariant of the speaking clock holds in every reachable state.
THEOREM TimeSignalInvariant == TimeSignalSpec => []TimeSignalInv
<1>1. TimeSignalInv /\ [TimeSignalNext]_timeSignalVars => TimeSignalInv'
  <2> SUFFICES ASSUME TimeSignalInv, [TimeSignalNext]_timeSignalVars PROVE TimeSignalInv'
    OBVIOUS
  <2>1. CASE TimeSignalNext
    BY <2>1, ComeAndGo, ChunkStep, LookupStep, SynthesizeStep, StorePhraseStep, TickStep
       DEF TimeSignalNext
  <2>2. CASE UNCHANGED timeSignalVars
    BY <2>2 DEF timeSignalVars, streamVars, TimeSignalInv, TimeSignalTypeOK, Announcements,
                CacheInv, AnnouncedInv, PreparedInv, MissedInv, Text
  <2> QED BY <2>1, <2>2
<1> QED BY <1>1, InitTimeSignalInv, PTL DEF TimeSignalSpec

\* Voice and tone together stay within full scale, for every sound an engine can write
\* and every scale.
THEOREM MixStaysWithinScale == TimeSignalSpec => []MixNeverClips
<1>1. TimeSignalInv => MixNeverClips
  <2> SUFFICES ASSUME TimeSignalInv, NEW text \in DOMAIN cache \ extreme, NEW i \in DOMAIN cache[text]
               PROVE  100 * Magnitude(cache[text][i]) + TonePeak(now) * FullScale <= 100 * FullScale
    BY DEF MixNeverClips
  <2> DEFINE m == Magnitude(cache[text][i])
  <2>1. m \in Int /\ 10 * m <= 6 * FullScale
    BY TimeSignalAssumption DEF TimeSignalInv, CacheInv, Magnitude, Negated
  <2>2. TonePeak(now) \in {28, 32}
    BY DEF TonePeak
  <2> HIDE DEF m
  <2> QED BY <2>1, <2>2, TimeSignalAssumption DEF m
<1> QED BY <1>1, TimeSignalInvariant, PTL

\* Only the lookup and the store start a phrase.
LEMMA WhoSpeaks ==
  ASSUME TimeSignalTypeOK, TimeSignalNext, NEW s \in Stream,
         pc[s] \in {"lookup", "store"}, pc'[s] = "ready"
  PROVE  Starts(s) /\ now' = now
<1>1. PICK t \in Stream : \/ NewStreamer(t) \/ Leave(t) \/ Close(t) \/ Chunk(t)
                          \/ Lookup(t) \/ Synthesize(t) \/ Store(t)
  BY DEF TimeSignalNext, Tick
<1>2. CASE NewStreamer(t) \/ Leave(t) \/ Close(t) \/ Chunk(t) \/ Synthesize(t)
  BY <1>2 DEF NewStreamer, Leave, Close, Chunk, Synthesize, Synthesised, TimeSignalTypeOK
<1>3. CASE Lookup(t) \/ Store(t)
  <2>1. t = s
    BY <1>3 DEF Lookup, Store, Starts, TimeSignalTypeOK
  <2> QED BY <1>3, <2>1 DEF Lookup, Store, Starts, TimeSignalTypeOK
<1> QED BY <1>1, <1>2, <1>3

\* A stream speaks the marks in their order, none twice and none later than the engines
\* of its chain may take, whatever engines there are.
THEOREM MarksAreInOrder == TimeSignalSpec => MarksInOrder
<1>1. TimeSignalInv /\ [TimeSignalNext]_timeSignalVars =>
        [\A s \in Stream : pc[s] \in {"lookup", "store"} /\ pc'[s] = "ready" =>
           /\ spoken'[s] > spoken[s]
           /\ pc[s] = "lookup" => spoken'[s] > now
           /\ spoken'[s] + SynthTimeout * (Len(Chain(lang[s])) - 1) >= now + 7]_timeSignalVars
  <2> SUFFICES ASSUME TimeSignalInv, TimeSignalNext, NEW s \in Stream,
                      pc[s] \in {"lookup", "store"}, pc'[s] = "ready"
               PROVE  /\ spoken'[s] > spoken[s]
                      /\ pc[s] = "lookup" => spoken'[s] > now
                      /\ spoken'[s] + SynthTimeout * (Len(Chain(lang[s])) - 1) >= now + 7
    OBVIOUS
  <2> USE TimeSignalAssumption DEF TimeSignalInv
  <2> DEFINE n == Len(Chain(lang[s])) - 1
             mark == AnnouncementFor(heard[s]).mark
  <2>1. spoken'[s] = mark
    BY WhoSpeaks DEF PreparedInv, Starts, TimeSignalTypeOK
  <2>2. now \in Nat /\ heard[s] \in Nat /\ spoken[s] < mark
    BY DEF PreparedInv, TimeSignalTypeOK
  <2>3. mark \in Nat /\ mark > heard[s] /\ mark >= heard[s] + 7
    BY <2>2, WindowIsEarly DEF PreparedInv
  <2>4. n \in Nat
    BY ChimeIsLast
  <2>5. pc[s] = "lookup" => heard[s] = now
    BY DEF PreparedInv
  <2>6. pc[s] = "store" => now <= heard[s] + n * SynthTimeout
    BY DEF PreparedInv
  <2> HIDE DEF n, mark
  <2>7. n * SynthTimeout \in Nat /\ n * SynthTimeout = SynthTimeout * n
    BY <2>4
  <2>8. mark + SynthTimeout * n >= now + 7
    BY <2>2, <2>3, <2>5, <2>6, <2>7
  <2> QED BY <2>1, <2>2, <2>3, <2>5, <2>8 DEF n
<1> QED BY <1>1, TimeSignalInvariant, PTL DEF TimeSignalSpec, MarksInOrder

\* A phrase that was in the cache when it was asked for is never synthesised again, however
\* many streams share the cache.
THEOREM PhrasesStay == TimeSignalSpec => CachedPhraseStays
<1>1. TimeSignalInv /\ [TimeSignalNext]_timeSignalVars =>
        [\A s \in Stream :
           pc[s] = "store" /\ pc'[s] = "ready" /\ Text(s) \in DOMAIN cache => overtaken[s]]_timeSignalVars
  BY DEF TimeSignalInv, MissedInv
<1> QED BY <1>1, TimeSignalInvariant, PTL DEF TimeSignalSpec, CachedPhraseStays

-----------------------------------------------------------------------------
(* The splitter.                                                           *)

\* Lists as the loops take them apart.
LEMMA OneMore ==
  ASSUME NEW S, NEW b \in Seq(S), NEW k \in Nat, k < Len(b)
  PROVE  /\ SubSeq(b, 1, k) \in Seq(S) /\ Len(SubSeq(b, 1, k)) = k /\ b[k + 1] \in S
         /\ SubSeq(b, 1, k + 1) = Append(SubSeq(b, 1, k), b[k + 1])
<1>1. SubSeq(b, 1, k) \in Seq(S) /\ Len(SubSeq(b, 1, k)) = k /\ b[k + 1] \in S
  OBVIOUS
<1> DEFINE x == SubSeq(b, 1, k + 1)
           y == Append(SubSeq(b, 1, k), b[k + 1])
<1>2. x \in Seq(S) /\ y \in Seq(S) /\ Len(x) = k + 1 /\ Len(y) = k + 1
  BY <1>1
<1>3. \A i \in 1 .. k + 1 : x[i] = y[i]
  BY <1>1
<1> HIDE DEF x, y
<1>4. x = y
  BY <1>2, <1>3
<1> QED BY <1>1, <1>4 DEF x, y

\* A list is its own first part.
LEMMA AllOfIt ==
  ASSUME NEW S, NEW b \in Seq(S)
  PROVE  SubSeq(b, 1, Len(b)) = b /\ Len(b) \in Nat /\ SubSeq(b, 1, 0) = << >>
OBVIOUS

\* To append to the second of two lists is to append to both.
LEMMA AppendToConcat ==
  ASSUME NEW S, NEW a \in Seq(S), NEW b \in Seq(S), NEW x \in S
  PROVE  a \o Append(b, x) = Append(a \o b, x) /\ a \o << >> = a /\ a \o b \in Seq(S)
<1> DEFINE u == a \o Append(b, x)
           v == Append(a \o b, x)
<1>1. u \in Seq(S) /\ v \in Seq(S) /\ Len(u) = Len(a) + Len(b) + 1 /\ Len(v) = Len(u)
  OBVIOUS
<1>2. \A i \in 1 .. Len(a) + Len(b) + 1 : u[i] = v[i]
  OBVIOUS
<1> HIDE DEF u, v
<1>3. u = v
  BY <1>1, <1>2
<1> QED BY <1>3 DEF u, v

-----------------------------------------------------------------------------

\* The states of the reader.
Reader == [frames : Seq(Seq(Byte)), frame : Seq(Byte)]

\* Reading a byte makes a reader of a reader.
LEMMA StepIsReader ==
  ASSUME NEW r \in Reader, NEW x \in Byte
  PROVE  Step(r, x) \in Reader
<1> DEFINE f == Append(r.frame, x)
<1>1. f \in Seq(Byte) /\ Append(r.frames, f) \in Seq(Seq(Byte)) /\ <<"FF">> \in Seq(Byte)
      /\ << >> \in Seq(Byte) /\ r.frames \in Seq(Seq(Byte))
      /\ r = [frames |-> r.frames, frame |-> r.frame]
  BY DEF Reader, Byte
<1> HIDE DEF f
<1>2. \A y \in Seq(Byte) : [r EXCEPT !.frame = y] \in Reader
  BY DEF Reader
<1>3. [frames |-> Append(r.frames, f), frame |-> << >>] \in Reader
  BY <1>1 DEF Reader
<1> QED BY <1>1, <1>2, <1>3 DEF Step, f

\* The reader reads byte after byte.
Reading(f, r, b) ==
  /\ f \in [0 .. Len(b) -> Reader] /\ f[0] = r
  /\ \A i \in 1 .. Len(b) : f[i] = Step(f[i - 1], b[i])

\* Read runs through the bytes.
LEMMA ReadLoop ==
  ASSUME NEW r \in Reader, NEW b \in Seq(Byte)
  PROVE  \E f : Reading(f, r, b) /\ Read(r, b) = f[Len(b)]
<1> DEFINE body(f, i) == IF i = 0 THEN r ELSE Step(f[i - 1], b[i])
           Defines(f) == f = [i \in 0 .. Len(b) |-> body(f, i)]
<1>1. Len(b) \in Nat
  OBVIOUS
<1>2. \E f : Defines(f) /\ f \in [0 .. Len(b) -> Reader]
  <2> DEFINE round == [i \in Nat |-> [v \in Reader |-> IF i \in 1 .. Len(b) THEN Step(v, b[i]) ELSE v]]
  <2>1. round \in [Nat -> [Reader -> Reader]]
    <3>1. \A i \in 1 .. Len(b) : b[i] \in Byte
      OBVIOUS
    <3> QED BY <3>1, StepIsReader
  <2> HIDE DEF round, body
  <2>2. PICK f : Loop(f, Len(b), Reader, r, round)
    BY <1>1, <2>1, LoopRuns
  <2>3. ASSUME NEW i \in 0 .. Len(b) PROVE f[i] = body(f, i)
    <3>1. CASE i = 0
      BY <2>2, <3>1 DEF body, Loop
    <3>2. CASE i # 0
      <4>1. f[i - 1] \in Reader /\ f[i] = round[i][f[i - 1]] /\ i \in 1 .. Len(b) /\ i \in Nat
        BY <2>2, <3>2 DEF Loop
      <4> QED BY <3>2, <4>1 DEF round, body
    <3> QED BY <3>1, <3>2
  <2>4. f = [i \in 0 .. Len(b) |-> body(f, i)]
    BY <2>2, <2>3 DEF Loop
  <2>5. f \in [0 .. Len(b) -> Reader]
    BY <2>2 DEF Loop
  <2> QED BY <2>4, <2>5
<1> DEFINE h == CHOOSE f : Defines(f)
<1>3. Defines(h)
  BY <1>2
<1>4. Read(r, b) = h[Len(b)]
  BY DEF Read
<1> HIDE DEF h
<1>5. \A i \in 0 .. Len(b) : h[i] = IF i = 0 THEN r ELSE Step(h[i - 1], b[i])
  BY <1>3
<1> DEFINE T == {n \in Nat : n <= Len(b) => h[n] \in Reader}
<1>6. 0 \in T
  BY <1>1, <1>5
<1>7. ASSUME NEW n \in Nat, n \in T PROVE n + 1 \in T
  <2>1. SUFFICES ASSUME n + 1 <= Len(b) PROVE h[n + 1] \in Reader
    OBVIOUS
  <2> DEFINE i == n + 1
  <2>2. i \in 0 .. Len(b) /\ i # 0 /\ i - 1 = n /\ h[n] \in Reader /\ b[i] \in Byte
    BY <1>7, <2>1
  <2> HIDE DEF i
  <2>3. h[i] = Step(h[n], b[i])
    BY <1>5, <2>2
  <2> QED BY <2>2, <2>3, StepIsReader DEF i
<1> HIDE DEF T
<1>8. Nat \subseteq T
  BY <1>6, <1>7, SetInduction
<1>9. \A n \in 0 .. Len(b) : h[n] \in Reader
  BY <1>8 DEF T
<1>10. h \in [0 .. Len(b) -> Reader]
  <2>1. h = [i \in 0 .. Len(b) |-> body(h, i)]
    BY <1>3
  <2> HIDE DEF body
  <2>2. DOMAIN h = 0 .. Len(b) /\ h = [i \in 0 .. Len(b) |-> h[i]]
    BY <2>1
  <2> QED BY <1>9, <2>2
<1>11. Reading(h, r, b)
  BY <1>1, <1>5, <1>10 DEF Reading
<1> QED BY <1>4, <1>11

\* There is one way to read.
LEMMA OneReading ==
  ASSUME NEW r, NEW b \in Seq(Byte), NEW f, NEW g, Reading(f, r, b), Reading(g, r, b)
  PROVE  f[Len(b)] = g[Len(b)]
<1> DEFINE T == {n \in Nat : n <= Len(b) => f[n] = g[n]}
<1>1. 0 \in T
  BY DEF Reading
<1>2. ASSUME NEW n \in Nat, n \in T PROVE n + 1 \in T
  <2>1. SUFFICES ASSUME n + 1 <= Len(b) PROVE f[n + 1] = g[n + 1]
    OBVIOUS
  <2> DEFINE i == n + 1
  <2>2. i \in 1 .. Len(b) /\ i - 1 = n /\ f[n] = g[n]
    BY <1>2, <2>1
  <2> HIDE DEF i
  <2> QED BY <2>2 DEF Reading, i
<1> HIDE DEF T
<1>3. Nat \subseteq T
  BY <1>1, <1>2, SetInduction
<1> QED BY <1>3 DEF T

\* Reading nothing changes nothing.
LEMMA ReadNothing ==
  ASSUME NEW r \in Reader
  PROVE  Read(r, << >>) = r
<1>1. << >> \in Seq(Byte) /\ Len(<< >>) = 0
  OBVIOUS
<1> QED BY <1>1, ReadLoop DEF Reading

\* One byte more.
LEMMA ReadMore ==
  ASSUME NEW r \in Reader, NEW b \in Seq(Byte), NEW x \in Byte
  PROVE  Read(r, b) \in Reader /\ Read(r, Append(b, x)) = Step(Read(r, b), x)
<1> DEFINE c == Append(b, x)
           n == Len(b)
<1>1. PICK f : Reading(f, r, b) /\ Read(r, b) = f[n]
  BY ReadLoop
<1>2. c \in Seq(Byte) /\ Len(c) = n + 1 /\ n \in Nat /\ c[n + 1] = x /\ \A i \in 1 .. n : c[i] = b[i]
  OBVIOUS
<1>3. PICK g : Reading(g, r, c) /\ Read(r, c) = g[Len(c)]
  BY <1>2, ReadLoop
<1> DEFINE h == [i \in 0 .. n |-> g[i]]
<1>4. Reading(h, r, b)
  <2> HIDE DEF c
  <2>1. g \in [0 .. n + 1 -> Reader] /\ g[0] = r /\ \A i \in 1 .. n + 1 : g[i] = Step(g[i - 1], c[i])
    BY <1>2, <1>3 DEF Reading
  <2>2. h \in [0 .. n -> Reader] /\ h[0] = r
    BY <1>2, <2>1
  <2>3. ASSUME NEW i \in 1 .. n PROVE h[i] = Step(h[i - 1], b[i])
    <3>1. h[i] = g[i] /\ h[i - 1] = g[i - 1] /\ c[i] = b[i] /\ i \in 1 .. n + 1
      BY <1>2
    <3> HIDE DEF h
    <3> QED BY <2>1, <3>1
  <2> HIDE DEF h
  <2> QED BY <2>2, <2>3 DEF Reading
<1>5. h[n] = f[n] /\ f[n] \in Reader
  <2> HIDE DEF h
  <2>1. h[Len(b)] = f[Len(b)]
    BY <1>1, <1>4, OneReading
  <2>2. f[n] \in Reader
    BY <1>1, <1>2 DEF Reading
  <2> QED BY <2>1, <2>2
<1>6. g[n + 1] = Step(g[n], x)
  <2> DEFINE i == n + 1
  <2>1. i \in 1 .. Len(c) /\ i - 1 = n
    BY <1>2
  <2> HIDE DEF i, c
  <2>2. g[i] = Step(g[n], c[i])
    BY <1>3, <2>1 DEF Reading
  <2> QED BY <1>2, <2>2 DEF i
<1> QED BY <1>1, <1>2, <1>3, <1>5, <1>6

\* Reading in two goes.
LEMMA ReadConcat ==
  ASSUME NEW r \in Reader, NEW a \in Seq(Byte), NEW b \in Seq(Byte)
  PROVE  Read(r, a \o b) = Read(Read(r, a), b) /\ Read(r, b) \in Reader
<1>1. ASSUME NEW c \in Seq(Byte) PROVE Read(r, c) \in Reader
  BY ReadLoop, AllOfIt DEF Reading
<1> DEFINE T == {n \in Nat : n <= Len(b) =>
                   Read(r, a \o SubSeq(b, 1, n)) = Read(Read(r, a), SubSeq(b, 1, n))}
<1>2. 0 \in T
  <2>1. SubSeq(b, 1, 0) = << >> /\ a \o << >> = a
    OBVIOUS
  <2>2. Read(r, a) \in Reader
    BY <1>1
  <2>3. Read(Read(r, a), << >>) = Read(r, a)
    BY <2>2, ReadNothing
  <2>4. Read(r, a \o SubSeq(b, 1, 0)) = Read(Read(r, a), SubSeq(b, 1, 0))
    BY <2>1, <2>3
  <2> QED BY <2>4
<1>3. ASSUME NEW n \in Nat, n \in T PROVE n + 1 \in T
  <2>1. SUFFICES ASSUME n + 1 <= Len(b)
                 PROVE  Read(r, a \o SubSeq(b, 1, n + 1)) = Read(Read(r, a), SubSeq(b, 1, n + 1))
    OBVIOUS
  <2> DEFINE c == SubSeq(b, 1, n)
             x == b[n + 1]
  <2>2. c \in Seq(Byte) /\ x \in Byte /\ SubSeq(b, 1, n + 1) = Append(c, x)
    BY <2>1, OneMore, AllOfIt
  <2>3. Read(r, a \o c) = Read(Read(r, a), c)
    BY <1>3, <2>1, AllOfIt
  <2> HIDE DEF c, x
  <2>4. a \o Append(c, x) = Append(a \o c, x) /\ a \o c \in Seq(Byte)
    BY <2>2, AppendToConcat
  <2>5. Read(r, Append(a \o c, x)) = Step(Read(r, a \o c), x)
    BY <2>2, <2>4, ReadMore
  <2>6. Read(Read(r, a), Append(c, x)) = Step(Read(Read(r, a), c), x)
    BY <1>1, <2>2, ReadMore
  <2> QED BY <2>2, <2>3, <2>4, <2>5, <2>6
<1> HIDE DEF T
<1>4. Nat \subseteq T
  BY <1>2, <1>3, SetInduction
<1>5. Len(b) \in T /\ Len(b) \in Nat /\ SubSeq(b, 1, Len(b)) = b
  BY <1>4, AllOfIt
<1>6. Read(r, a \o SubSeq(b, 1, Len(b))) = Read(Read(r, a), SubSeq(b, 1, Len(b)))
  <2> DEFINE z == Len(b)
  <2>1. z \in T /\ z <= Len(b)
    BY <1>5
  <2> HIDE DEF z
  <2>2. Read(r, a \o SubSeq(b, 1, z)) = Read(Read(r, a), SubSeq(b, 1, z))
    BY <2>1 DEF T
  <2> QED BY <2>2 DEF z
<1> QED BY <1>1, <1>5, <1>6

-----------------------------------------------------------------------------

\* Between frames: the marker mark does not begin at the places lo .. hi of b.
NoMarker(b, mark, lo, hi) == \A i \in lo .. hi : ~(b[i] = mark[1] /\ b[i + 1] = mark[2])

\* A reader that has made the frames F and is between two frames.
Emitted(F) == [frames |-> F, frame |-> << >>]

\* A reader between two frames, and one inside a frame.
LEMMA EmittedIsReader ==
  ASSUME NEW F \in Seq(Seq(Byte))
  PROVE  Emitted(F) \in Reader /\ \A x \in Seq(Byte) : [frames |-> F, frame |-> x] \in Reader
BY DEF Emitted, Reader

\* A list of two elements, made in two steps.
LEMMA Pair == \A x, y : Append(<<x>>, y) = <<x, y>> /\ Len(<<x, y>>) = 2 /\ Append(<< >>, x) = <<x>>
<1> SUFFICES ASSUME NEW x, NEW y
             PROVE  Append(<<x>>, y) = <<x, y>> /\ Len(<<x, y>>) = 2 /\ Append(<< >>, x) = <<x>>
  OBVIOUS
<1> DEFINE S == {x, y}
           u == Append(<<x>>, y)
           v == <<x, y>>
<1>1. u \in Seq(S) /\ v \in Seq(S) /\ Len(u) = 2 /\ Len(v) = 2
  OBVIOUS
<1>2. u[1] = v[1] /\ u[2] = v[2]
  OBVIOUS
<1>3. Append(<< >>, x) = <<x>>
  OBVIOUS
<1> HIDE DEF u, v, S
<1>4. u = v
  <2>1. \A i \in 1 .. Len(u) : u[i] = v[i]
    BY <1>1, <1>2
  <2> QED BY <1>1, <2>1
<1> QED BY <1>1, <1>3, <1>4 DEF u, v

\* Outside a frame a byte that does not complete a start marker may begin one.
LEMMA StepOutside ==
  ASSUME NEW F, NEW x
  PROVE  /\ x # "D8" => Step([frames |-> F, frame |-> <<"FF">>], x) =
                        [frames |-> F, frame |-> IF x = "FF" THEN <<"FF">> ELSE << >>]
         /\ Step(Emitted(F), x) = [frames |-> F, frame |-> IF x = "FF" THEN <<"FF">> ELSE << >>]
<1>1. x # "D8" => Step([frames |-> F, frame |-> <<"FF">>], x) =
                    [frames |-> F, frame |-> IF x = "FF" THEN <<"FF">> ELSE << >>]
  <2> DEFINE f == <<"FF", x>>
  <2>1. Append(<<"FF">>, x) = f /\ Len(f) = 2
    BY Pair
  <2> HIDE DEF f
  <2> QED BY <2>1 DEF Step
<1>2. Step(Emitted(F), x) = [frames |-> F, frame |-> IF x = "FF" THEN <<"FF">> ELSE << >>]
  <2> DEFINE f == <<x>>
  <2>1. Append(<< >>, x) = f /\ Len(f) = 1
    BY Pair
  <2> HIDE DEF f
  <2>2. x = "FF" => f = <<"FF">>
    BY DEF f
  <2> QED BY <2>1, <2>2 DEF Step, Emitted
<1> QED BY <1>1, <1>2

\* Without a start marker, nothing but a last 0xFF is remembered.
LEMMA Skips ==
  ASSUME NEW F \in Seq(Seq(Byte)), NEW b \in Seq(Byte), NEW k \in 0 .. Len(b),
         NoMarker(b, SOI, 1, k - 1)
  PROVE  Read(Emitted(F), SubSeq(b, 1, k)) =
           [frames |-> F, frame |-> IF k > 0 /\ b[k] = "FF" THEN <<"FF">> ELSE << >>]
<1> DEFINE state(n) == [frames |-> F, frame |-> IF n > 0 /\ b[n] = "FF" THEN <<"FF">> ELSE << >>]
           Holds(n) == Read(Emitted(F), SubSeq(b, 1, n)) = state(n)
           T == {n \in Nat : n <= k => Holds(n)}
<1>1. 0 \in T
  <2>1. Holds(0)
    <3>1. SubSeq(b, 1, 0) = << >>
      OBVIOUS
    <3>2. Read(Emitted(F), << >>) = Emitted(F)
      BY ReadNothing, EmittedIsReader
    <3>3. state(0) = Emitted(F)
      BY DEF Emitted
    <3> HIDE DEF state
    <3> QED BY <3>1, <3>2, <3>3
  <2> QED BY <2>1
<1>2. ASSUME NEW n \in Nat, n \in T PROVE n + 1 \in T
  <2>1. SUFFICES ASSUME n + 1 <= k PROVE Holds(n + 1)
    OBVIOUS
  <2> DEFINE x == b[n + 1]
  <2>2. x \in Byte /\ Read(Emitted(F), SubSeq(b, 1, n + 1)) = Step(Read(Emitted(F), SubSeq(b, 1, n)), x)
    <3>1. n < Len(b)
      BY <2>1
    <3>2. SubSeq(b, 1, n) \in Seq(Byte) /\ x \in Byte
          /\ SubSeq(b, 1, n + 1) = Append(SubSeq(b, 1, n), x)
      BY <3>1, OneMore
    <3> HIDE DEF x
    <3> QED BY <3>2, ReadMore, EmittedIsReader
  <2>3. Read(Emitted(F), SubSeq(b, 1, n)) = state(n)
    BY <1>2, <2>1
  <2>4. ~(n > 0 /\ b[n] = "FF" /\ x = "D8")
    BY <2>1 DEF NoMarker, SOI
  <2>5. Step(state(n), x) = [frames |-> F, frame |-> IF x = "FF" THEN <<"FF">> ELSE << >>]
    <3>1. CASE n > 0 /\ b[n] = "FF"
      <4>1. state(n) = [frames |-> F, frame |-> <<"FF">>] /\ x # "D8"
        BY <2>4, <3>1
      <4> QED BY <4>1, StepOutside
    <3>2. CASE ~(n > 0 /\ b[n] = "FF")
      <4>1. state(n) = [frames |-> F, frame |-> << >>]
        BY <3>2
      <4> QED BY <4>1, StepOutside DEF Emitted
    <3> QED BY <3>1, <3>2
  <2> HIDE DEF Holds, state, x
  <2>6. state(n + 1) = [frames |-> F, frame |-> IF x = "FF" THEN <<"FF">> ELSE << >>]
    BY DEF state, x
  <2> QED BY <2>2, <2>3, <2>5, <2>6 DEF Holds
<1> HIDE DEF T
<1>3. Nat \subseteq T
  BY <1>1, <1>2, SetInduction
<1>4. Holds(k)
  BY <1>3 DEF T
<1> QED BY <1>4

\* Where a list is cut, its parts make it up.
LEMMA CutInTwo ==
  ASSUME NEW b \in Seq(Byte), NEW i \in 1 .. Len(b) + 1
  PROVE  /\ From(b, i) \in Seq(Byte) /\ Len(From(b, i)) = Len(b) - i + 1
         /\ \A j \in 1 .. Len(b) - i + 1 : From(b, i)[j] = b[i + j - 1]
         /\ SubSeq(b, 1, i - 1) \in Seq(Byte) /\ Len(SubSeq(b, 1, i - 1)) = i - 1
         /\ b = SubSeq(b, 1, i - 1) \o From(b, i)
<1> DEFINE x == SubSeq(b, 1, i - 1)
           y == SubSeq(b, i, Len(b))
           z == x \o y
<1>1. Len(b) \in Nat /\ x \in Seq(Byte) /\ Len(x) = i - 1 /\ \A j \in 1 .. i - 1 : x[j] = b[j]
  OBVIOUS
<1>2. y \in Seq(Byte) /\ Len(y) = Len(b) - i + 1 /\ \A j \in 1 .. Len(b) - i + 1 : y[j] = b[i + j - 1]
  OBVIOUS
<1> HIDE DEF x, y
<1>3. z \in Seq(Byte) /\ Len(z) = Len(b)
  BY <1>1, <1>2
<1>4. \A j \in 1 .. Len(b) : z[j] = b[j]
  <2> SUFFICES ASSUME NEW j \in 1 .. Len(b) PROVE z[j] = b[j]
    OBVIOUS
  <2>1. CASE j <= i - 1
    BY <1>1, <1>2, <2>1
  <2>2. CASE j > i - 1
    <3>1. z[j] = y[j - (i - 1)] /\ j - (i - 1) \in 1 .. Len(b) - i + 1
      BY <1>1, <1>2, <2>2
    <3> DEFINE m == j - (i - 1)
    <3>2. i + m - 1 = j
      BY <1>1
    <3> HIDE DEF m
    <3>3. y[m] = b[i + m - 1]
      BY <1>2, <3>1 DEF m
    <3> QED BY <3>1, <3>2, <3>3 DEF m
  <2> HIDE DEF z
  <2>3. j <= i - 1 \/ j > i - 1
    BY <1>1
  <2> QED BY <2>1, <2>2, <2>3
<1> HIDE DEF z
<1>5. z = b
  BY <1>3, <1>4
<1> QED BY <1>1, <1>2, <1>5 DEF x, y, z, From

\* Index finds the first marker, or there is none.
LEMMA IndexFinds ==
  ASSUME NEW b \in Seq(Byte), NEW mark
  PROVE  \/ Index(b, mark) = 0 /\ NoMarker(b, mark, 1, Len(b) - 1)
         \/ /\ Index(b, mark) \in 1 .. Len(b) - 1
            /\ b[Index(b, mark)] = mark[1] /\ b[Index(b, mark) + 1] = mark[2]
            /\ NoMarker(b, mark, 1, Index(b, mark) - 1)
<1> DEFINE at == {i \in 1 .. Len(b) - 1 : b[i] = mark[1] /\ b[i + 1] = mark[2]}
           m == CHOOSE i \in at : \A j \in at : i <= j
<1>1. Len(b) \in Nat
  OBVIOUS
<1>2. Index(b, mark) = IF at = {} THEN 0 ELSE m
  BY DEF Index
<1>3. CASE at = {}
  BY <1>2, <1>3 DEF NoMarker
<1>4. CASE at # {}
  <2>1. at \subseteq Nat
    OBVIOUS
  <2>2. \E i \in at : \A j \in at : i <= j
    <3> HIDE DEF at
    <3> QED BY <1>4, <2>1, LeastNumber
  <2>3. m \in at /\ \A j \in at : m <= j
    <3> HIDE DEF at
    <3> QED BY <2>2
  <2> HIDE DEF m
  <2>4. NoMarker(b, mark, 1, m - 1)
    <3> SUFFICES ASSUME NEW i \in 1 .. m - 1, b[i] = mark[1], b[i + 1] = mark[2] PROVE FALSE
      BY DEF NoMarker
    <3>1. i \in at
      BY <1>1, <2>3
    <3>2. m <= i
      BY <2>3, <3>1
    <3> QED BY <1>1, <2>3, <3>2
  <2> QED BY <1>2, <1>4, <2>3, <2>4
<1> QED BY <1>3, <1>4

\* Reading one byte is a step.
LEMMA ReadByte ==
  ASSUME NEW r \in Reader, NEW x \in Byte
  PROVE  Read(r, <<x>>) = Step(r, x)
<1>1. << >> \in Seq(Byte) /\ Append(<< >>, x) = <<x>>
  BY Pair
<1> QED BY <1>1, ReadMore, ReadNothing

\* A list begins with its first element.
LEMMA FirstByte ==
  ASSUME NEW c \in Seq(Byte), Len(c) >= 1
  PROVE  \E d \in Seq(Byte) : c = <<c[1]>> \o d /\ c[1] \in Byte /\ <<c[1]>> \in Seq(Byte)
<1>1. 2 \in 1 .. Len(c) + 1 /\ c[1] \in Byte
  OBVIOUS
<1>2. SubSeq(c, 1, 2 - 1) = <<c[1]>>
  <2> DEFINE x == SubSeq(c, 1, 2 - 1)
             y == <<c[1]>>
  <2>1. x \in Seq(Byte) /\ y \in Seq(Byte) /\ Len(x) = 1 /\ Len(y) = 1 /\ x[1] = y[1]
    BY <1>1
  <2> HIDE DEF x, y
  <2>2. x = y
    <3>1. \A i \in 1 .. Len(x) : x[i] = y[i]
      BY <2>1
    <3> QED BY <2>1, <3>1
  <2> QED BY <2>2 DEF x, y
<1>3. <<c[1]>> \in Seq(Byte)
  BY <1>1
<1>4. c = SubSeq(c, 1, 2 - 1) \o From(c, 2) /\ From(c, 2) \in Seq(Byte)
  BY <1>1, CutInTwo
<1> QED BY <1>1, <1>2, <1>3, <1>4

\* A first byte of a marker that is remembered and the same byte again.
LEMMA Restarts ==
  ASSUME NEW F \in Seq(Seq(Byte)), NEW c \in Seq(Byte), Len(c) >= 1, c[1] = "FF"
  PROVE  Read([frames |-> F, frame |-> <<"FF">>], c) = Read(Emitted(F), c)
<1> DEFINE r == [frames |-> F, frame |-> <<"FF">>]
<1>1. PICK d \in Seq(Byte) : c = <<"FF">> \o d /\ "FF" \in Byte /\ <<"FF">> \in Seq(Byte)
  BY FirstByte
<1>2. r \in Reader /\ Emitted(F) \in Reader
  BY <1>1, EmittedIsReader
<1>3. Step(r, "FF") = r /\ Step(Emitted(F), "FF") = r
  BY <1>1, StepOutside
<1> HIDE DEF r
<1>4. Read(r, <<"FF">>) = r /\ Read(Emitted(F), <<"FF">>) = r
  BY <1>1, <1>2, <1>3, ReadByte
<1>5. Read(r, c) = Read(r, d) /\ Read(Emitted(F), c) = Read(r, d)
  <2>1. Read(r, <<"FF">> \o d) = Read(Read(r, <<"FF">>), d)
        /\ Read(Emitted(F), <<"FF">> \o d) = Read(Read(Emitted(F), <<"FF">>), d)
    BY <1>1, <1>2, ReadConcat
  <2> QED BY <1>1, <1>4, <2>1
<1> QED BY <1>5 DEF r

\* What stands before the first start marker does not matter.
LEMMA GarbageIsSkipped ==
  ASSUME NEW F \in Seq(Seq(Byte)), NEW b \in Seq(Byte), NEW i \in 1 .. Len(b),
         NoMarker(b, SOI, 1, i - 1), b[i] = "FF"
  PROVE  Read(Emitted(F), b) = Read(Emitted(F), From(b, i))
<1> DEFINE a == SubSeq(b, 1, i - 1)
           c == From(b, i)
<1>1. i \in 1 .. Len(b) + 1 /\ i - 1 \in 0 .. Len(b)
  OBVIOUS
<1>2. b = a \o c /\ a \in Seq(Byte) /\ c \in Seq(Byte) /\ Len(c) >= 1 /\ c[1] = "FF"
  BY <1>1, CutInTwo
<1>3. NoMarker(b, SOI, 1, (i - 1) - 1)
  BY DEF NoMarker
<1>4. Read(Emitted(F), a) =
        [frames |-> F, frame |-> IF i - 1 > 0 /\ b[i - 1] = "FF" THEN <<"FF">> ELSE << >>]
  BY <1>1, <1>3, Skips
<1> HIDE DEF a, c
<1>5. Read(Emitted(F), b) = Read(Read(Emitted(F), a), c)
  BY <1>2, EmittedIsReader, ReadConcat
<1>6. Read(Emitted(F), a) = Emitted(F) \/ Read(Emitted(F), a) = [frames |-> F, frame |-> <<"FF">>]
  BY <1>4 DEF Emitted
<1>7. Read([frames |-> F, frame |-> <<"FF">>], c) = Read(Emitted(F), c)
  BY <1>2, Restarts
<1> QED BY <1>5, <1>6, <1>7 DEF c

-----------------------------------------------------------------------------

\* Inside a frame everything up to the first end marker is kept.
LEMMA StepInside ==
  ASSUME NEW F, NEW c \in Seq(Byte), Len(c) >= 2, NEW x \in Byte,
         ~(Len(c) >= 3 /\ c[Len(c)] = "FF" /\ x = "D9")
  PROVE  Step([frames |-> F, frame |-> c], x) = [frames |-> F, frame |-> Append(c, x)]
<1> DEFINE f == Append(c, x)
<1>1. Len(f) = Len(c) + 1 /\ Len(c) \in Nat /\ f[Len(f) - 1] = c[Len(c)]
  OBVIOUS
<1> HIDE DEF f
<1>2. Len(f) # 1 /\ Len(f) # 2 /\ ~(Len(f) >= 4 /\ f[Len(f) - 1] = "FF" /\ x = "D9")
  BY <1>1
<1> QED BY <1>2 DEF Step, f

\* All bytes up to the end marker belong to the frame.
LEMMA Collects ==
  ASSUME NEW F \in Seq(Seq(Byte)), NEW c \in Seq(Byte), NEW k \in 2 .. Len(c),
         c[1] = "FF", c[2] = "D8", NoMarker(c, EOI, 3, k - 1)
  PROVE  Read(Emitted(F), SubSeq(c, 1, k)) = [frames |-> F, frame |-> SubSeq(c, 1, k)]
<1> DEFINE Holds(n) == Read(Emitted(F), SubSeq(c, 1, n)) = [frames |-> F, frame |-> SubSeq(c, 1, n)]
           T == {n \in Nat : n + 2 <= k => Holds(n + 2)}
<1>1. Len(c) \in Nat /\ k \in Nat
  OBVIOUS
<1>2. 0 \in T
  <2> DEFINE d == SubSeq(c, 1, 2)
  <2>1. d = <<"FF", "D8">>
    <3> DEFINE e == <<"FF", "D8">>
    <3>1. d \in Seq(Byte) /\ Len(d) = 2 /\ d[1] = "FF" /\ d[2] = "D8"
      BY <1>1
    <3>2. e \in Seq(Byte) /\ Len(e) = 2 /\ e[1] = "FF" /\ e[2] = "D8"
      BY DEF Byte
    <3> HIDE DEF d, e
    <3>3. d = e
      <4>1. \A i \in 1 .. Len(d) : d[i] = e[i]
        BY <3>1, <3>2
      <4> QED BY <3>1, <3>2, <4>1
    <3> QED BY <3>3 DEF e
  <2>2. "FF" \in Byte /\ "D8" \in Byte /\ <<"FF">> \in Seq(Byte) /\ Append(<<"FF">>, "D8") = <<"FF", "D8">>
    BY Pair DEF Byte
  <2>3. Read(Emitted(F), <<"FF">>) = [frames |-> F, frame |-> <<"FF">>]
    BY <2>2, ReadByte, StepOutside, EmittedIsReader
  <2>4. Read(Emitted(F), <<"FF", "D8">>) = Step([frames |-> F, frame |-> <<"FF">>], "D8")
    BY <2>2, <2>3, ReadMore, EmittedIsReader
  <2>5. Step([frames |-> F, frame |-> <<"FF">>], "D8") = [frames |-> F, frame |-> <<"FF", "D8">>]
    <3> DEFINE f == <<"FF", "D8">>
    <3>1. Append(<<"FF">>, "D8") = f /\ Len(f) = 2
      BY Pair
    <3> HIDE DEF f
    <3> QED BY <3>1 DEF Step, f
  <2> HIDE DEF d
  <2>6. Read(Emitted(F), d) = [frames |-> F, frame |-> d]
    BY <2>1, <2>4, <2>5
  <2>7. Holds(0 + 2)
    BY <2>6 DEF d
  <2> HIDE DEF Holds
  <2> QED BY <2>7
<1>3. ASSUME NEW n \in Nat, n \in T PROVE n + 1 \in T
  <2>1. SUFFICES ASSUME (n + 1) + 2 <= k PROVE Holds((n + 1) + 2)
    <3> HIDE DEF Holds
    <3> QED OBVIOUS
  <2> DEFINE m == n + 2
             d == SubSeq(c, 1, m)
             x == c[m + 1]
  <2>2. m \in Nat /\ m >= 2 /\ m + 1 <= k /\ m < Len(c)
    BY <1>1, <2>1
  <2>3. Holds(m)
    <3> HIDE DEF Holds
    <3> QED BY <1>3, <2>1
  <2> HIDE DEF m
  <2>4. d \in Seq(Byte) /\ Len(d) = m /\ x \in Byte /\ SubSeq(c, 1, m + 1) = Append(d, x)
    BY <2>2, OneMore
  <2>5. d[m] = c[m]
    BY <1>1, <2>2
  <2>6. Read(Emitted(F), d) = [frames |-> F, frame |-> d]
    BY <2>3
  <2>7. ~(m >= 3 /\ c[m] = "FF" /\ x = "D9")
    BY <1>1, <2>2 DEF NoMarker, EOI
  <2> HIDE DEF d, x
  <2>8. Read(Emitted(F), Append(d, x)) = Step([frames |-> F, frame |-> d], x)
    BY <2>4, <2>6, ReadMore, EmittedIsReader
  <2>9. Step([frames |-> F, frame |-> d], x) = [frames |-> F, frame |-> Append(d, x)]
    BY <2>2, <2>4, <2>5, <2>7, StepInside
  <2>10. Holds(m + 1)
    BY <2>4, <2>8, <2>9
  <2>11. m + 1 = (n + 1) + 2
    BY DEF m
  <2> HIDE DEF Holds
  <2> QED BY <2>10, <2>11
<1> HIDE DEF T
<1>4. Nat \subseteq T
  BY <1>2, <1>3, SetInduction
<1>5. Holds(k)
  <2> HIDE DEF Holds
  <2>1. k - 2 \in T /\ (k - 2) + 2 = k
    BY <1>1, <1>4
  <2> QED BY <2>1 DEF T
<1> QED BY <1>5

\* The first end marker completes the frame.
LEMMA Completes ==
  ASSUME NEW F \in Seq(Seq(Byte)), NEW c \in Seq(Byte), NEW k \in 3 .. Len(c) - 1,
         c[1] = "FF", c[2] = "D8", NoMarker(c, EOI, 3, k - 1), c[k] = "FF", c[k + 1] = "D9"
  PROVE  Read(Emitted(F), SubSeq(c, 1, k + 1)) = Emitted(Append(F, SubSeq(c, 1, k + 1)))
<1> DEFINE d == SubSeq(c, 1, k)
           f == Append(d, "D9")
<1>1. Len(c) \in Nat /\ k \in Nat /\ k < Len(c) /\ k \in 2 .. Len(c) /\ k >= 3
  OBVIOUS
<1>2. d \in Seq(Byte) /\ Len(d) = k /\ SubSeq(c, 1, k + 1) = f /\ "D9" \in Byte
  BY <1>1, OneMore DEF Byte
<1>3. d[k] = "FF"
  BY <1>1
<1>4. Read(Emitted(F), d) = [frames |-> F, frame |-> d]
  BY <1>1, Collects
<1> HIDE DEF d
<1>5. Read(Emitted(F), f) = Step([frames |-> F, frame |-> d], "D9")
  BY <1>2, <1>4, ReadMore, EmittedIsReader
<1>6. Len(f) = k + 1 /\ f[Len(f) - 1] = "FF"
  BY <1>1, <1>2, <1>3
<1>7. Step([frames |-> F, frame |-> d], "D9") = [frames |-> Append(F, f), frame |-> << >>]
  <2> DEFINE r == [frames |-> F, frame |-> d]
  <2>1. Append(r.frame, "D9") = f /\ r.frames = F
    OBVIOUS
  <2> HIDE DEF f, r
  <2>2. Len(f) # 1 /\ Len(f) # 2 /\ Len(f) >= 4
    BY <1>1, <1>6
  <2>3. Step(r, "D9") = [frames |-> Append(F, f), frame |-> << >>]
    BY <1>6, <2>1, <2>2 DEF Step
  <2> QED BY <2>3 DEF r
<1> HIDE DEF f
<1> QED BY <1>2, <1>5, <1>7 DEF Emitted

-----------------------------------------------------------------------------

\* The states of the loop of Write.
Work == [frames : Seq(Seq(Byte)), pending : Seq(Byte), dropped : BOOLEAN, done : BOOLEAN]

\* A start marker at i and no earlier one.
StartAt(b, i) ==
  i \in 1 .. Len(b) - 1 /\ b[i] = "FF" /\ b[i + 1] = "D8" /\ NoMarker(b, SOI, 1, i - 1)

\* A frame that begins with c has its end marker at k.
EndAt(c, k) ==
  k \in 3 .. Len(c) - 1 /\ c[k] = "FF" /\ c[k + 1] = "D9" /\ NoMarker(c, EOI, 3, k - 1)

\* An end marker is looked for behind the start marker.
LEMMA BehindTheStart ==
  ASSUME NEW c \in Seq(Byte), Len(c) >= 2, NEW n \in Int, n <= Len(c) - 3,
         NoMarker(From(c, 3), EOI, 1, n)
  PROVE  NoMarker(c, EOI, 3, n + 2)
<1> DEFINE d == From(c, 3)
<1>1. Len(c) \in Nat /\ 3 \in 1 .. Len(c) + 1
  OBVIOUS
<1>2. \A j \in 1 .. Len(c) - 3 + 1 : d[j] = c[3 + j - 1]
  BY <1>1, CutInTwo
<1> HIDE DEF d
<1>3. SUFFICES ASSUME NEW j \in 3 .. n + 2, c[j] = EOI[1], c[j + 1] = EOI[2] PROVE FALSE
  BY DEF NoMarker
<1> DEFINE m == j - 2
<1>4. m \in 1 .. n /\ 3 + m - 1 = j /\ 3 + (m + 1) - 1 = j + 1
      /\ m \in 1 .. Len(c) - 3 + 1 /\ m + 1 \in 1 .. Len(c) - 3 + 1
  BY <1>1
<1> HIDE DEF m
<1>5. d[m] = c[j] /\ d[m + 1] = c[j + 1]
  BY <1>2, <1>4
<1>6. NoMarker(d, EOI, 1, n)
  BY DEF d
<1> QED BY <1>3, <1>4, <1>5, <1>6 DEF NoMarker

\* The ways a round goes.
LEMMA RoundCases ==
  ASSUME NEW w \in Work, ~w.done, NEW b \in Seq(Byte), b = w.pending
  PROVE  \/ /\ NoMarker(b, SOI, 1, Len(b) - 1)
            /\ Round(w) = [w EXCEPT !.pending = KeepTail(b), !.done = TRUE]
         \/ \E i : /\ StartAt(b, i)
                   /\ \/ Round(w) = [w EXCEPT !.pending = << >>, !.dropped = TRUE, !.done = TRUE]
                      \/ /\ NoMarker(From(b, i), EOI, 3, Len(From(b, i)) - 1)
                         /\ Round(w) = [w EXCEPT !.pending = From(b, i), !.dropped = FALSE, !.done = TRUE]
                      \/ \E k : /\ EndAt(From(b, i), k)
                                /\ Round(w) =
                                     [w EXCEPT !.pending = From(From(b, i), k + 2),
                                               !.frames = Append(@, SubSeq(From(b, i), 1, k + 1))]
<1> DEFINE i == Index(b, SOI)
           c == From(b, i)
           e == Index(From(c, 3), EOI)
           long == Len(c) > MaxPendingBytes
<1>1. Round(w) = IF i = 0 THEN [w EXCEPT !.pending = KeepTail(b), !.done = TRUE]
                 ELSE IF e = 0
                 THEN [w EXCEPT !.pending = IF long THEN << >> ELSE c, !.dropped = long, !.done = TRUE]
                 ELSE [w EXCEPT !.pending = From(c, e + 4), !.frames = Append(@, SubSeq(c, 1, e + 3))]
  BY DEF Round
<1>2. (i = 0 /\ NoMarker(b, SOI, 1, Len(b) - 1)) \/ (i # 0 /\ StartAt(b, i))
  <2>1. SOI[1] = "FF" /\ SOI[2] = "D8"
    BY DEF SOI
  <2>2. \/ i = 0 /\ NoMarker(b, SOI, 1, Len(b) - 1)
        \/ /\ i \in 1 .. Len(b) - 1 /\ b[i] = SOI[1] /\ b[i + 1] = SOI[2]
           /\ NoMarker(b, SOI, 1, i - 1)
    BY IndexFinds
  <2>3. Len(b) \in Nat
    OBVIOUS
  <2> HIDE DEF i
  <2>4. CASE i \in 1 .. Len(b) - 1
    BY <2>1, <2>2, <2>3, <2>4 DEF StartAt
  <2> QED BY <2>2, <2>4
<1> HIDE DEF i
<1>3. CASE i = 0
  BY <1>1, <1>2, <1>3
<1>4. CASE i # 0
  <2>1. StartAt(b, i)
    BY <1>2, <1>4
  <2>2. i \in 1 .. Len(b) + 1 /\ Len(b) \in Nat /\ i <= Len(b) - 1
    BY <2>1 DEF StartAt
  <2>3. c \in Seq(Byte) /\ Len(c) \in Nat /\ Len(c) >= 2
    BY <2>2, CutInTwo
  <2> HIDE DEF c
  <2>4. CASE e = 0
    <3> DEFINE d == From(c, 3)
    <3>2. 3 \in 1 .. Len(c) + 1
      BY <2>3
    <3>3. d \in Seq(Byte) /\ Len(d) = Len(c) - 3 + 1
      BY <2>3, <3>2, CutInTwo
    <3>4. NoMarker(d, EOI, 1, Len(d) - 1)
      <4> HIDE DEF d
      <4>1. Index(d, EOI) = 0 /\ Len(d) \in Nat
        BY <2>4, <3>3 DEF d
      <4> QED BY <3>3, <4>1, IndexFinds
    <3>5. NoMarker(c, EOI, 3, Len(c) - 1)
      <4> DEFINE n == Len(d) - 1
      <4>1. n \in Int /\ n <= Len(c) - 3 /\ n + 2 = Len(c) - 1
        BY <2>3, <3>3
      <4>2. NoMarker(d, EOI, 1, n)
        BY <3>4
      <4> HIDE DEF n
      <4>3. NoMarker(c, EOI, 3, n + 2)
        BY <2>3, <4>1, <4>2, BehindTheStart
      <4> QED BY <4>1, <4>3
    <3>1. \/ Round(w) = [w EXCEPT !.pending = << >>, !.dropped = TRUE, !.done = TRUE]
          \/ Round(w) = [w EXCEPT !.pending = c, !.dropped = FALSE, !.done = TRUE]
      <4>1. CASE long
        <5>1. long = TRUE
          BY <4>1
        <5> HIDE DEF long
        <5> QED BY <1>1, <1>4, <2>4, <5>1
      <4>2. CASE ~long
        <5>1. long = FALSE
          BY <4>2
        <5> HIDE DEF long
        <5> QED BY <1>1, <1>4, <2>4, <5>1
      <4> QED BY <4>1, <4>2
    <3> QED BY <2>1, <3>1, <3>5 DEF c
  <2>5. CASE e # 0
    <3> DEFINE d == From(c, 3)
               k == e + 2
    <3>1. 3 \in 1 .. Len(c) + 1
      BY <2>3
    <3>2. d \in Seq(Byte) /\ Len(d) = Len(c) - 3 + 1 /\ \A j \in 1 .. Len(c) - 3 + 1 : d[j] = c[3 + j - 1]
      BY <2>3, <3>1, CutInTwo
    <3>3. EOI[1] = "FF" /\ EOI[2] = "D9"
      BY DEF EOI
    <3> HIDE DEF d
    <3>4. e = Index(d, EOI)
      BY DEF d
    <3> HIDE DEF e
    <3>5. e \in 1 .. Len(d) - 1 /\ d[e] = "FF" /\ d[e + 1] = "D9" /\ NoMarker(d, EOI, 1, e - 1)
      BY <2>5, <3>2, <3>3, <3>4, IndexFinds
    <3>6. d[e] = c[k] /\ d[e + 1] = c[k + 1] /\ k \in 3 .. Len(c) - 1
      BY <2>3, <3>2, <3>5
    <3>7. NoMarker(c, EOI, 3, k - 1)
      <4> DEFINE n == e - 1
      <4>1. n \in Int /\ n <= Len(c) - 3 /\ n + 2 = k - 1
        BY <2>3, <3>2, <3>5
      <4>2. NoMarker(From(c, 3), EOI, 1, n)
        BY <3>5 DEF d
      <4> HIDE DEF n
      <4>3. NoMarker(c, EOI, 3, n + 2)
        BY <2>3, <4>1, <4>2, BehindTheStart
      <4> QED BY <4>1, <4>3
    <3>8. EndAt(c, k)
      BY <3>5, <3>6, <3>7 DEF EndAt
    <3>9. e + 4 = k + 2 /\ e + 3 = k + 1
      BY <3>5
    <3> HIDE DEF k
    <3>10. Round(w) = [w EXCEPT !.pending = From(c, k + 2), !.frames = Append(@, SubSeq(c, 1, k + 1))]
      BY <1>1, <1>4, <2>5, <3>9
    <3> QED BY <2>1, <3>8, <3>10 DEF c
  <2> QED BY <2>4, <2>5
<1> QED BY <1>3, <1>4

\* What is kept of bytes without a start marker is read like them.
LEMMA TailIsEnough ==
  ASSUME NEW F \in Seq(Seq(Byte)), NEW b \in Seq(Byte), NoMarker(b, SOI, 1, Len(b) - 1)
  PROVE  /\ KeepTail(b) \in Seq(Byte) /\ Read(Emitted(F), KeepTail(b)) = Read(Emitted(F), b)
         /\ Read(Emitted(F), KeepTail(b)).frames = F /\ Suffix(KeepTail(b), b)
<1> DEFINE n == Len(b)
<1>1. n \in Nat /\ SubSeq(b, 1, n) = b /\ n \in 0 .. Len(b)
  BY AllOfIt
<1>2. CASE n <= 1
  <2>1. Read(Emitted(F), SubSeq(b, 1, n)).frames = F
    <3>1. Read(Emitted(F), SubSeq(b, 1, n)) =
            [frames |-> F, frame |-> IF n > 0 /\ b[n] = "FF" THEN <<"FF">> ELSE << >>]
      BY <1>1, Skips
    <3> HIDE DEF n
    <3> QED BY <3>1
  <2>2. Read(Emitted(F), b).frames = F
    BY <1>1, <2>1
  <2> QED BY <1>1, <1>2, <2>2 DEF KeepTail, Suffix
<1>3. CASE n > 1
  <2>1. Read(Emitted(F), SubSeq(b, 1, n)) =
          [frames |-> F, frame |-> IF n > 0 /\ b[n] = "FF" THEN <<"FF">> ELSE << >>]
    BY <1>1, Skips
  <2>2. CASE b[n] = "FF"
    <3>1. KeepTail(b) = <<"FF">> /\ "FF" \in Byte
      BY <1>3, <2>2 DEF KeepTail, Byte
    <3>2. Read(Emitted(F), <<"FF">>) = [frames |-> F, frame |-> <<"FF">>]
      BY <3>1, ReadByte, StepOutside, EmittedIsReader
    <3>3. Len(<<"FF">>) = 1 /\ <<"FF">>[1] = "FF" /\ <<"FF">> \in Seq(Byte)
      BY <3>1
    <3>4. Suffix(<<"FF">>, b)
      BY <1>1, <1>3, <2>2, <3>3 DEF Suffix
    <3>5. Read(Emitted(F), b) = [frames |-> F, frame |-> <<"FF">>]
      <4>1. n > 0 /\ (IF n > 0 /\ b[n] = "FF" THEN <<"FF">> ELSE << >>) = <<"FF">>
        BY <1>1, <1>3, <2>2
      <4> HIDE DEF n
      <4> QED BY <1>1, <2>1, <4>1
    <3> QED BY <3>1, <3>2, <3>3, <3>4, <3>5
  <2>3. CASE b[n] # "FF"
    <3>1. KeepTail(b) = << >> /\ << >> \in Seq(Byte) /\ Suffix(<< >>, b)
      BY <1>1, <1>3, <2>3 DEF KeepTail, Suffix
    <3>2. Read(Emitted(F), << >>) = Emitted(F)
      BY ReadNothing, EmittedIsReader
    <3>3. Emitted(F).frames = F /\ Emitted(F) = [frames |-> F, frame |-> << >>]
      BY DEF Emitted
    <3>4. Read(Emitted(F), SubSeq(b, 1, n)) = [frames |-> F, frame |-> << >>]
      BY <2>1, <2>3
    <3> HIDE DEF n
    <3> QED BY <1>1, <3>1, <3>2, <3>3, <3>4
  <2> QED BY <2>2, <2>3
<1> QED BY <1>1, <1>2, <1>3

\* An unfinished frame is no frame.
LEMMA Unfinished ==
  ASSUME NEW F \in Seq(Seq(Byte)), NEW c \in Seq(Byte), Len(c) >= 2, c[1] = "FF", c[2] = "D8",
         NoMarker(c, EOI, 3, Len(c) - 1)
  PROVE  Read(Emitted(F), c).frames = F
<1> DEFINE k == Len(c)
<1>1. SubSeq(c, 1, k) = c /\ k \in 2 .. Len(c) /\ NoMarker(c, EOI, 3, k - 1)
  BY AllOfIt
<1>2. Read(Emitted(F), SubSeq(c, 1, k)) = [frames |-> F, frame |-> SubSeq(c, 1, k)]
  BY <1>1, Collects
<1> HIDE DEF k
<1>3. Read(Emitted(F), c) = [frames |-> F, frame |-> c]
  BY <1>1, <1>2
<1> QED BY <1>3

\* An end of an end.
LEMMA SuffixOfSuffix ==
  ASSUME NEW x \in Seq(Byte), NEW y \in Seq(Byte), NEW z \in Seq(Byte), Suffix(x, y), Suffix(y, z)
  PROVE  Suffix(x, z)
<1>1. Len(x) \in Nat /\ Len(y) \in Nat /\ Len(z) \in Nat /\ Len(x) <= Len(y) /\ Len(y) <= Len(z)
  BY DEF Suffix
<1>2. ASSUME NEW j \in 1 .. Len(x) PROVE x[j] = z[Len(z) - Len(x) + j]
  <2> DEFINE m == Len(y) - Len(x) + j
  <2>1. m \in 1 .. Len(y) /\ Len(z) - Len(y) + m = Len(z) - Len(x) + j
    BY <1>1
  <2>2. x[j] = y[m]
    BY DEF Suffix
  <2> HIDE DEF m
  <2>3. y[m] = z[Len(z) - Len(y) + m]
    BY <2>1 DEF Suffix
  <2> QED BY <2>1, <2>2, <2>3
<1> QED BY <1>1, <1>2 DEF Suffix

\* What follows a place is an end.
LEMMA FromIsSuffix ==
  ASSUME NEW b \in Seq(Byte), NEW i \in 1 .. Len(b) + 1
  PROVE  Suffix(From(b, i), b)
<1>1. /\ Len(From(b, i)) = Len(b) - i + 1
      /\ \A j \in 1 .. Len(b) - i + 1 : From(b, i)[j] = b[i + j - 1]
  BY CutInTwo
<1>2. Len(b) \in Nat /\ \A j \in 1 .. Len(b) - i + 1 : i + j - 1 = Len(b) - (Len(b) - i + 1) + j
  OBVIOUS
<1> QED BY <1>1, <1>2 DEF Suffix

\* What stands in an end stands in the whole.
LEMMA WithinSuffix ==
  ASSUME NEW x \in Seq(Byte), NEW y \in Seq(Byte), NEW z \in Seq(Byte), Within(x, y), Suffix(y, z)
  PROVE  Within(x, z)
<1>1. PICK k \in 0 .. Len(y) - Len(x) : \A j \in 1 .. Len(x) : x[j] = y[k + j]
  BY DEF Within
<1> DEFINE m == Len(z) - Len(y) + k
<1>2. Len(x) \in Nat /\ Len(y) \in Nat /\ Len(z) \in Nat /\ Len(y) <= Len(z) /\ m \in 0 .. Len(z) - Len(x)
  BY DEF Suffix
<1>3. ASSUME NEW j \in 1 .. Len(x) PROVE x[j] = z[m + j]
  <2> DEFINE l == k + j
  <2>1. l \in 1 .. Len(y) /\ Len(z) - Len(y) + l = m + j
    BY <1>2
  <2> HIDE DEF l
  <2>2. y[l] = z[Len(z) - Len(y) + l]
    BY <2>1 DEF Suffix
  <2> QED BY <1>1, <2>1, <2>2 DEF l
<1> HIDE DEF m
<1> QED BY <1>2, <1>3 DEF Within

\* A frame that is cut off is whole, and stands in what it is cut from.
LEMMA CutIsWhole ==
  ASSUME NEW c \in Seq(Byte), NEW k, EndAt(c, k), c[1] = "FF", c[2] = "D8"
  PROVE  /\ SubSeq(c, 1, k + 1) \in Seq(Byte) /\ Len(SubSeq(c, 1, k + 1)) = k + 1
         /\ Whole(SubSeq(c, 1, k + 1)) /\ Within(SubSeq(c, 1, k + 1), c)
<1> DEFINE x == SubSeq(c, 1, k + 1)
<1>1. Len(c) \in Nat /\ k \in 3 .. Len(c) - 1
  BY DEF EndAt
<1>2. x \in Seq(Byte) /\ Len(x) = k + 1 /\ \A j \in 1 .. k + 1 : x[j] = c[j]
  BY <1>1
<1> HIDE DEF x
<1>3. Whole(x)
  <2>1. x[1] = c[1] /\ x[2] = c[2] /\ x[k] = c[k] /\ x[k + 1] = c[k + 1] /\ Len(x) - 1 = k
    BY <1>1, <1>2
  <2> QED BY <1>1, <1>2, <2>1 DEF Whole, EndAt
<1>4. Within(x, c)
  <2>1. 0 \in 0 .. Len(c) - Len(x)
    BY <1>1, <1>2
  <2>2. \A j \in 1 .. Len(x) : x[j] = c[0 + j]
    BY <1>1, <1>2
  <2> QED BY <2>1, <2>2 DEF Within
<1> QED BY <1>2, <1>3, <1>4 DEF x

-----------------------------------------------------------------------------

\* The fields after a round that goes on.
LEMMA WorkFields ==
  ASSUME NEW w \in Work, NEW p \in Seq(Byte), NEW x \in Seq(Byte), NEW d \in BOOLEAN
  PROVE  /\ [w EXCEPT !.pending = p, !.dropped = d, !.done = TRUE] \in Work
         /\ [w EXCEPT !.pending = p, !.done = TRUE] \in Work
         /\ [w EXCEPT !.pending = p, !.frames = Append(@, x)] \in Work
         /\ w.frames \in Seq(Seq(Byte)) /\ w.pending \in Seq(Byte)
         /\ Append(w.frames, x) \in Seq(Seq(Byte))
<1>1. w.frames \in Seq(Seq(Byte)) /\ w.pending \in Seq(Byte) /\ Append(w.frames, x) \in Seq(Seq(Byte))
  BY DEF Work
<1>2. [w EXCEPT !.pending = p, !.dropped = d, !.done = TRUE] \in Work
      /\ [w EXCEPT !.pending = p, !.done = TRUE] \in Work
  BY DEF Work
<1> DEFINE t == Append(w.frames, x)
<1>3. [w EXCEPT !.pending = p, !.frames = t] \in Work
  <2> HIDE DEF t
  <2>1. t \in Seq(Seq(Byte))
    BY <1>1 DEF t
  <2> QED BY <2>1 DEF Work
<1> QED BY <1>1, <1>2, <1>3

\* A round keeps the types.
LEMMA RoundIsWork ==
  ASSUME NEW w \in Work
  PROVE  Round(w) \in Work
<1>1. CASE w.done
  BY <1>1 DEF Round
<1>2. CASE ~w.done
  <2> DEFINE b == w.pending
  <2>1. b \in Seq(Byte) /\ Len(b) \in Nat
    BY DEF Work
  <2> HIDE DEF b
  <2>2. b = w.pending
    BY DEF b
  <2>3. CASE /\ NoMarker(b, SOI, 1, Len(b) - 1)
             /\ Round(w) = [w EXCEPT !.pending = KeepTail(b), !.done = TRUE]
    <3>1. << >> \in Seq(Seq(Byte)) /\ << >> \in Seq(Byte)
      OBVIOUS
    <3>2. KeepTail(b) \in Seq(Byte)
      BY <2>1, <2>3, <3>1, TailIsEnough
    <3> QED BY <2>3, <3>1, <3>2, WorkFields
  <2>4. ASSUME NEW i, StartAt(b, i),
               \/ Round(w) = [w EXCEPT !.pending = << >>, !.dropped = TRUE, !.done = TRUE]
               \/ Round(w) = [w EXCEPT !.pending = From(b, i), !.dropped = FALSE, !.done = TRUE]
        PROVE  Round(w) \in Work
    <3>1. i \in 1 .. Len(b) + 1 /\ << >> \in Seq(Byte)
      BY <2>1, <2>4 DEF StartAt
    <3>2. From(b, i) \in Seq(Byte)
      BY <2>1, <3>1, CutInTwo
    <3>3. [w EXCEPT !.pending = << >>, !.dropped = TRUE, !.done = TRUE] \in Work
      BY <3>1, WorkFields
    <3>4. [w EXCEPT !.pending = From(b, i), !.dropped = FALSE, !.done = TRUE] \in Work
      BY <3>2, WorkFields
    <3> QED BY <2>4, <3>3, <3>4
  <2>5. ASSUME NEW i, StartAt(b, i), NEW k, EndAt(From(b, i), k),
               Round(w) = [w EXCEPT !.pending = From(From(b, i), k + 2),
                                    !.frames = Append(@, SubSeq(From(b, i), 1, k + 1))]
        PROVE  Round(w) \in Work
    <3> DEFINE c == From(b, i)
    <3>1. i \in 1 .. Len(b) + 1 /\ i + 1 <= Len(b)
      BY <2>1, <2>5 DEF StartAt
    <3>2. c \in Seq(Byte) /\ Len(c) \in Nat /\ c[1] = b[i + 1 - 1] /\ c[2] = b[i + 2 - 1]
      BY <2>1, <3>1, CutInTwo
    <3> HIDE DEF c
    <3>3. EndAt(c, k) /\ k + 2 \in 1 .. Len(c) + 1
      BY <2>5, <3>2 DEF EndAt, c
    <3>4. From(c, k + 2) \in Seq(Byte)
      BY <3>2, <3>3, CutInTwo
    <3>5. SubSeq(c, 1, k + 1) \in Seq(Byte)
      BY <3>2, <3>3 DEF EndAt
    <3>6. [w EXCEPT !.pending = From(c, k + 2), !.frames = Append(@, SubSeq(c, 1, k + 1))] \in Work
      BY <3>4, <3>5, WorkFields
    <3> QED BY <2>5, <3>6 DEF c
  <2> QED BY <1>2, <2>1, <2>2, <2>3, <2>4, <2>5, RoundCases
<1> QED BY <1>1, <1>2

\* What a round keeps: it has taken whole frames from the bytes b0, in front of the
\* bytes it has left, and has read what they are.
Good(w, b0, F) ==
  /\ w \in Work
  /\ Suffix(w.pending, b0)
  /\ \A i \in 1 .. Len(w.frames) : Whole(w.frames[i]) /\ Within(w.frames[i], b0)
  /\ ~w.dropped => Read(Emitted(F), b0) = Read(Emitted(F \o w.frames), w.pending)
  /\ IF w.done THEN Read(Emitted(F \o w.frames), w.pending).frames = F \o w.frames
               ELSE ~w.dropped

\* A round that does not return takes bytes off, and a round that does leaves no frame behind.
LEMMA RoundKeeps ==
  ASSUME NEW F \in Seq(Seq(Byte)), NEW b0 \in Seq(Byte), NEW w, Good(w, b0, F)
  PROVE  /\ Good(Round(w), b0, F)
         /\ ~Round(w).done => ~w.done /\ Len(Round(w).pending) < Len(w.pending)
<1> DEFINE v == Round(w)
<1>1. w \in Work /\ v \in Work
  BY RoundIsWork DEF Good
<1>2. CASE w.done
  BY <1>2 DEF Round
<1>3. CASE ~w.done
  <2> DEFINE b == w.pending
             G == F \o w.frames
  <2>1. b \in Seq(Byte) /\ Len(b) \in Nat /\ w.frames \in Seq(Seq(Byte)) /\ G \in Seq(Seq(Byte))
    BY <1>1 DEF Work
  <2>2. Read(Emitted(F), b0) = Read(Emitted(G), b) /\ Suffix(b, b0)
    BY <1>3 DEF Good
  <2> HIDE DEF b, G
  <2>3. b = w.pending /\ G = F \o w.frames
    BY DEF b, G
  <2>4. ASSUME NoMarker(b, SOI, 1, Len(b) - 1),
               v = [w EXCEPT !.pending = KeepTail(b), !.done = TRUE]
        PROVE  Good(v, b0, F) /\ v.done
    <3>1. KeepTail(b) \in Seq(Byte) /\ Read(Emitted(G), KeepTail(b)) = Read(Emitted(G), b)
          /\ Read(Emitted(G), KeepTail(b)).frames = G /\ Suffix(KeepTail(b), b)
      BY <2>1, <2>4, TailIsEnough
    <3>2. v.pending = KeepTail(b) /\ v.done = TRUE /\ v.dropped = w.dropped /\ v.frames = w.frames
      BY <1>1, <2>4 DEF Work
    <3>3. Suffix(v.pending, b0)
      BY <2>1, <2>2, <3>1, <3>2, SuffixOfSuffix
    <3> HIDE DEF v
    <3>4. Good(v, b0, F)
      BY <1>1, <2>2, <2>3, <3>1, <3>2, <3>3 DEF Good
    <3> QED BY <3>2, <3>4
  <2>5. ASSUME NEW i, StartAt(b, i),
               \/ v = [w EXCEPT !.pending = << >>, !.dropped = TRUE, !.done = TRUE]
               \/ /\ NoMarker(From(b, i), EOI, 3, Len(From(b, i)) - 1)
                  /\ v = [w EXCEPT !.pending = From(b, i), !.dropped = FALSE, !.done = TRUE]
        PROVE  Good(v, b0, F) /\ v.done
    <3>1. i \in 1 .. Len(b) + 1 /\ i \in 1 .. Len(b) /\ b[i] = "FF" /\ NoMarker(b, SOI, 1, i - 1)
      BY <2>1, <2>5 DEF StartAt
    <3>2. From(b, i) \in Seq(Byte) /\ Suffix(From(b, i), b)
      BY <2>1, <3>1, CutInTwo, FromIsSuffix
    <3>3. Read(Emitted(G), b) = Read(Emitted(G), From(b, i))
      BY <2>1, <3>1, GarbageIsSkipped
    <3>4. Suffix(From(b, i), b0)
      BY <2>1, <2>2, <3>2, SuffixOfSuffix
    <3>5. v.done = TRUE /\ v.frames = w.frames
      BY <1>1, <2>5 DEF Work
    <3>6. \/ v.pending = << >> /\ v.dropped = TRUE
          \/ /\ v.pending = From(b, i) /\ v.dropped = FALSE
             /\ NoMarker(From(b, i), EOI, 3, Len(From(b, i)) - 1)
      BY <1>1, <2>5 DEF Work
    <3>9. Read(Emitted(G), << >>).frames = G
      BY <2>1, ReadNothing, EmittedIsReader DEF Emitted
    <3>10. NoMarker(From(b, i), EOI, 3, Len(From(b, i)) - 1) => Read(Emitted(G), From(b, i)).frames = G
      <4> DEFINE c == From(b, i)
      <4>1. i \in 1 .. Len(b) - 1 /\ b[i + 1] = "D8"
        BY <2>5 DEF StartAt
      <4>2. c \in Seq(Byte) /\ Len(c) = Len(b) - i + 1
            /\ \A j \in 1 .. Len(b) - i + 1 : c[j] = b[i + j - 1]
        BY <2>1, <3>1, CutInTwo
      <4> HIDE DEF c
      <4>3. Len(c) >= 2 /\ 1 \in 1 .. Len(b) - i + 1 /\ 2 \in 1 .. Len(b) - i + 1
            /\ i + 1 - 1 = i /\ i + 2 - 1 = i + 1
        BY <2>1, <3>1, <4>1, <4>2
      <4>4. c[1] = "FF" /\ c[2] = "D8"
        BY <3>1, <4>1, <4>2, <4>3
      <4>5. NoMarker(c, EOI, 3, Len(c) - 1) => Read(Emitted(G), c).frames = G
        BY <2>1, <4>2, <4>3, <4>4, Unfinished
      <4> QED BY <4>5 DEF c
    <3>7. Suffix(<< >>, b0)
      BY DEF Suffix
    <3> HIDE DEF v
    <3>8. Good(v, b0, F)
      BY <1>1, <2>2, <2>3, <3>3, <3>4, <3>5, <3>6, <3>7, <3>9, <3>10 DEF Good
    <3> QED BY <3>5, <3>8
  <2>6. ASSUME NEW i, StartAt(b, i), NEW k, EndAt(From(b, i), k),
               v = [w EXCEPT !.pending = From(From(b, i), k + 2),
                             !.frames = Append(@, SubSeq(From(b, i), 1, k + 1))]
        PROVE  Good(v, b0, F) /\ Len(v.pending) < Len(b)
    <3> DEFINE c == From(b, i)
               x == SubSeq(c, 1, k + 1)
               d == From(c, k + 2)
    <3>1. i \in 1 .. Len(b) + 1 /\ i \in 1 .. Len(b) - 1 /\ b[i] = "FF" /\ b[i + 1] = "D8"
          /\ NoMarker(b, SOI, 1, i - 1)
      BY <2>1, <2>6 DEF StartAt
    <3>2. c \in Seq(Byte) /\ Len(c) = Len(b) - i + 1
          /\ \A j \in 1 .. Len(b) - i + 1 : c[j] = b[i + j - 1]
      BY <2>1, <3>1, CutInTwo
    <3>3. c[1] = "FF" /\ c[2] = "D8"
      <4>1. 1 \in 1 .. Len(b) - i + 1 /\ 2 \in 1 .. Len(b) - i + 1 /\ i + 1 - 1 = i /\ i + 2 - 1 = i + 1
        BY <2>1, <3>1
      <4> HIDE DEF c
      <4> QED BY <3>1, <3>2, <4>1
    <3>4. i \in 1 .. Len(b) /\ Read(Emitted(G), b) = Read(Emitted(G), c)
      BY <2>1, <3>1, GarbageIsSkipped
    <3>5. Suffix(c, b0)
      BY <2>1, <2>2, <3>1, <3>2, FromIsSuffix, SuffixOfSuffix
    <3>6. EndAt(c, k)
      BY <2>6
    <3>7. v.pending = d /\ v.frames = Append(w.frames, x) /\ v.done = w.done /\ v.dropped = w.dropped
      BY <1>1, <2>6 DEF Work
    <3> HIDE DEF c, v
    <3>8. Len(c) \in Nat /\ k + 2 \in 1 .. Len(c) + 1 /\ (k + 2) - 1 = k + 1 /\ k \in 3 .. Len(c) - 1
      BY <3>2, <3>6 DEF EndAt
    <3>9. x \in Seq(Byte) /\ Whole(x) /\ Within(x, c)
      BY <3>2, <3>3, <3>6, CutIsWhole
    <3>10. d \in Seq(Byte) /\ Len(d) = Len(c) - (k + 2) + 1 /\ c = SubSeq(c, 1, (k + 2) - 1) \o d
      BY <3>2, <3>8, CutInTwo
    <3>11. Suffix(d, c)
      BY <3>2, <3>8, FromIsSuffix
    <3>12. Read(Emitted(G), x) = Emitted(Append(G, x))
      BY <2>1, <3>2, <3>3, <3>6, Completes DEF EndAt
    <3>13. c = x \o d
      BY <3>8, <3>10
    <3> HIDE DEF x, d
    <3>14. Read(Emitted(G), c) = Read(Emitted(Append(G, x)), d)
      BY <2>1, <3>9, <3>10, <3>12, <3>13, ReadConcat, EmittedIsReader
    <3>15. F \o v.frames = Append(G, x)
      BY <2>1, <2>3, <3>7, <3>9, AppendToConcat
    <3>16. Suffix(d, b0) /\ Within(x, b0)
      BY <3>2, <3>5, <3>9, <3>10, <3>11, SuffixOfSuffix, WithinSuffix
    <3>17. \A j \in 1 .. Len(v.frames) : Whole(v.frames[j]) /\ Within(v.frames[j], b0)
      <4>1. \A j \in 1 .. Len(w.frames) : Whole(w.frames[j]) /\ Within(w.frames[j], b0)
        BY DEF Good
      <4>2. Len(v.frames) = Len(w.frames) + 1 /\ Len(w.frames) \in Nat
            /\ \A j \in 1 .. Len(w.frames) + 1 :
                 v.frames[j] = IF j <= Len(w.frames) THEN w.frames[j] ELSE x
        BY <2>1, <3>7, <3>9
      <4> SUFFICES ASSUME NEW j \in 1 .. Len(w.frames) + 1
                   PROVE  Whole(v.frames[j]) /\ Within(v.frames[j], b0)
        BY <4>2
      <4> QED BY <3>9, <3>16, <4>1, <4>2
    <3>18. Good(v, b0, F)
      <4>1. Read(Emitted(F), b0) = Read(Emitted(F \o v.frames), v.pending)
        BY <2>2, <3>4, <3>7, <3>14, <3>15
      <4>2. Suffix(v.pending, b0) /\ ~v.done /\ ~v.dropped /\ v \in Work
        BY <1>1, <1>3, <3>7, <3>16 DEF Good
      <4> QED BY <3>17, <4>1, <4>2 DEF Good
    <3>19. Len(v.pending) < Len(b)
      <4>1. Len(v.pending) = Len(d) /\ Len(d) = Len(c) - (k + 2) + 1 /\ Len(c) = Len(b) - i + 1
        BY <3>2, <3>7, <3>10
      <4> QED BY <2>1, <3>1, <3>8, <4>1
    <3> QED BY <3>18, <3>19
  <2>7. \/ /\ NoMarker(b, SOI, 1, Len(b) - 1)
           /\ Round(w) = [w EXCEPT !.pending = KeepTail(b), !.done = TRUE]
        \/ \E i : /\ StartAt(b, i)
                  /\ \/ Round(w) = [w EXCEPT !.pending = << >>, !.dropped = TRUE, !.done = TRUE]
                     \/ /\ NoMarker(From(b, i), EOI, 3, Len(From(b, i)) - 1)
                        /\ Round(w) = [w EXCEPT !.pending = From(b, i), !.dropped = FALSE, !.done = TRUE]
                     \/ \E k : /\ EndAt(From(b, i), k)
                               /\ Round(w) = [w EXCEPT !.pending = From(From(b, i), k + 2),
                                                       !.frames = Append(@, SubSeq(From(b, i), 1, k + 1))]
    BY <1>1, <1>3, <2>1, <2>3, RoundCases
  <2> HIDE DEF v
  <2>8. Good(v, b0, F) /\ (~v.done => Len(v.pending) < Len(b))
    BY <2>4, <2>5, <2>6, <2>7 DEF v
  <2> QED BY <1>3, <2>3, <2>8 DEF v
<1> QED BY <1>2, <1>3

\* The loop of Write: it returns, and what it keeps of its rounds.
LEMMA DrainKeeps ==
  ASSUME NEW F \in Seq(Seq(Byte)), NEW b \in Seq(Byte)
  PROVE  Good(Drain(b), b, F) /\ Drain(b).done
<1> DEFINE w0 == [frames |-> << >>, pending |-> b, dropped |-> FALSE, done |-> FALSE]
           N == Len(b) + 1
           body(f, n) == IF n = 0 THEN w0 ELSE Round(f[n - 1])
           Defines(f) == f = [n \in 0 .. N |-> body(f, n)]
<1>1. Len(b) \in Nat /\ N \in Nat /\ << >> \in Seq(Seq(Byte))
  OBVIOUS
<1>2. w0 \in Work
  BY DEF Work
<1> HIDE DEF w0, N
<1>3. \E f : Defines(f)
  <2> DEFINE round == [i \in Nat |-> [v \in Work |-> Round(v)]]
  <2>1. round \in [Nat -> [Work -> Work]]
    BY RoundIsWork
  <2> HIDE DEF round, body
  <2>2. PICK f : Loop(f, N, Work, w0, round)
    BY <1>1, <1>2, <2>1, LoopRuns
  <2>3. ASSUME NEW i \in 0 .. N PROVE f[i] = body(f, i)
    <3>1. CASE i = 0
      BY <2>2, <3>1 DEF body, Loop
    <3>2. CASE i # 0
      <4>1. f[i - 1] \in Work /\ f[i] = round[i][f[i - 1]] /\ i \in Nat
        BY <1>1, <2>2, <3>2 DEF Loop
      <4> QED BY <3>2, <4>1 DEF round, body
    <3> QED BY <3>1, <3>2
  <2>4. f = [i \in 0 .. N |-> body(f, i)]
    BY <2>2, <2>3 DEF Loop
  <2> QED BY <2>4
<1> DEFINE h == CHOOSE f : Defines(f)
<1>4. Defines(h)
  BY <1>3
<1>5. Drain(b) = h[N]
  BY DEF Drain, w0, N
<1> HIDE DEF h
<1>6. h[0] = w0 /\ \A i \in 1 .. N : h[i] = Round(h[i - 1])
  <2>1. \A i \in 0 .. N : h[i] = IF i = 0 THEN w0 ELSE Round(h[i - 1])
    BY <1>4
  <2> QED BY <1>1, <2>1
<1> DEFINE Left(n) == ~h[n].done => Len(h[n].pending) + n <= Len(b)
           T == {n \in Nat : n <= N => Good(h[n], b, F) /\ Left(n)}
<1>7. 0 \in T
  <2>1. w0.frames = << >> /\ w0.pending = b /\ w0.dropped = FALSE /\ w0.done = FALSE
    BY DEF w0
  <2>2. F \o << >> = F
    OBVIOUS
  <2>3. Suffix(b, b)
    BY <1>1 DEF Suffix
  <2>4. Good(w0, b, F)
    BY <1>2, <2>1, <2>2, <2>3 DEF Good
  <2>5. Left(0)
    BY <1>1, <1>6, <2>1
  <2> HIDE DEF Left
  <2> QED BY <1>6, <2>4, <2>5
<1>8. ASSUME NEW n \in Nat, n \in T PROVE n + 1 \in T
  <2>1. SUFFICES ASSUME n + 1 <= N PROVE Good(h[n + 1], b, F) /\ Left(n + 1)
    <3> HIDE DEF Left
    <3> QED OBVIOUS
  <2> DEFINE m == n + 1
             w == h[n]
             v == h[m]
  <2>2. m \in 1 .. N /\ m - 1 = n /\ m = n + 1
    BY <1>1, <2>1
  <2>3. Good(w, b, F) /\ (~w.done => Len(w.pending) + n <= Len(b))
    BY <1>1, <1>8, <2>1
  <2> HIDE DEF m
  <2>4. v = Round(w)
    BY <1>6, <2>2
  <2> HIDE DEF w, v
  <2>5. Good(v, b, F) /\ (~v.done => ~w.done /\ Len(v.pending) < Len(w.pending))
    BY <2>3, <2>4, RoundKeeps
  <2>6. Len(w.pending) \in Nat /\ Len(v.pending) \in Nat
    BY <2>3, <2>5 DEF Good, Work
  <2>7. ~v.done => Len(v.pending) + m <= Len(b)
    <3> SUFFICES ASSUME ~v.done PROVE Len(v.pending) + m <= Len(b)
      OBVIOUS
    <3>1. Len(w.pending) + n <= Len(b) /\ Len(v.pending) < Len(w.pending)
      BY <2>3, <2>5
    <3> DEFINE y == Len(w.pending)
               z == Len(v.pending)
    <3>2. y \in Nat /\ z \in Nat /\ y + n <= Len(b) /\ z < y
      BY <2>6, <3>1
    <3> HIDE DEF y, z
    <3>3. z + m <= Len(b)
      BY <1>1, <2>2, <3>2
    <3> QED BY <3>3 DEF z
  <2> QED BY <2>5, <2>7 DEF m, v
<1> HIDE DEF T
<1>9. Nat \subseteq T
  BY <1>7, <1>8, SetInduction
<1>10. Good(h[N], b, F) /\ Left(N)
  <2> HIDE DEF Left
  <2> QED BY <1>1, <1>9 DEF T
<1>11. h[N].done
  <2>1. Len(h[N].pending) \in Nat
    BY <1>10 DEF Good, Work
  <2> DEFINE z == Len(h[N].pending)
  <2>2. z \in Nat /\ (~h[N].done => z + N <= Len(b))
    BY <1>10, <2>1
  <2> HIDE DEF z
  <2>3. N = Len(b) + 1
    BY DEF N
  <2>4. ~(z + N <= Len(b))
    BY <1>1, <2>2, <2>3
  <2> QED BY <2>2, <2>4
<1> QED BY <1>5, <1>10, <1>11

-----------------------------------------------------------------------------

\* A write keeps the invariant.
LEMMA WriteStep ==
  ASSUME SplitterInv, NEW p \in Seq(Byte), Write(p)
  PROVE  SplitterInv'
<1> DEFINE b == pending \o p
           d == Drain(b)
           s == stream \o p
<1>1. /\ stream' = s /\ out' = out \o d.frames /\ pending' = d.pending
      /\ dropped' = (dropped \/ d.dropped)
  BY DEF Write
<1>2. /\ pending \in Seq(Byte) /\ stream \in Seq(Byte) /\ out \in Seq(Seq(Byte)) /\ dropped \in BOOLEAN
      /\ b \in Seq(Byte) /\ s \in Seq(Byte)
  BY DEF SplitterInv, SplitterTypeOK
<1>3. Good(d, b, out)
  BY <1>2, DrainKeeps
<1> HIDE DEF d
<1>4. d.frames \in Seq(Seq(Byte)) /\ d.pending \in Seq(Byte) /\ d.dropped \in BOOLEAN
  BY <1>3 DEF Good, Work
<1>10. d.done /\ NoFrameLeft'
  <2>1. d.done
    BY <1>2, DrainKeeps DEF d
  <2> HIDE DEF b
  <2>2. Read(Emitted(out \o d.frames), d.pending).frames = out \o d.frames
    BY <1>3, <2>1 DEF Good
  <2> QED BY <1>1, <2>1, <2>2 DEF NoFrameLeft, Emitted
<1>5. SplitterTypeOK'
  BY <1>1, <1>2, <1>4 DEF SplitterTypeOK
<1>6. Suffix(b, s)
  <2>1. Len(pending) <= Len(stream) /\ \A j \in 1 .. Len(pending) : pending[j] = stream[Len(stream) - Len(pending) + j]
    BY DEF SplitterInv, Suffix
  <2>2. /\ Len(pending) \in Nat /\ Len(stream) \in Nat /\ Len(p) \in Nat
        /\ Len(b) = Len(pending) + Len(p) /\ Len(s) = Len(stream) + Len(p)
    BY <1>2
  <2>3. ASSUME NEW j \in 1 .. Len(b) PROVE b[j] = s[Len(s) - Len(b) + j]
    <3> DEFINE i == Len(s) - Len(b) + j
    <3>1. i = Len(stream) - Len(pending) + j /\ i \in 1 .. Len(stream) + Len(p)
      BY <2>1, <2>2
    <3>2. CASE j <= Len(pending)
      <4>1. b[j] = pending[j] /\ i \in 1 .. Len(stream)
        BY <1>2, <2>1, <2>2, <3>1, <3>2
      <4> HIDE DEF i
      <4>2. s[i] = stream[i]
        BY <1>2, <4>1
      <4>3. pending[j] = stream[i]
        BY <2>1, <2>2, <3>1, <3>2
      <4> QED BY <4>1, <4>2, <4>3 DEF i
    <3>3. CASE j > Len(pending)
      <4> DEFINE k == j - Len(pending)
      <4>1. k \in 1 .. Len(p) /\ i - Len(stream) = k /\ i > Len(stream)
        BY <2>2, <3>1, <3>3
      <4>2. b[j] = p[k]
        BY <1>2, <2>2, <3>3
      <4> HIDE DEF i, k
      <4>3. s[i] = p[i - Len(stream)]
        BY <1>2, <2>2, <3>1, <4>1
      <4>4. i = Len(s) - Len(b) + j
        BY DEF i
      <4> HIDE DEF s, b
      <4> QED BY <4>1, <4>2, <4>3, <4>4
    <3>4. j <= Len(pending) \/ j > Len(pending)
      BY <2>2
    <3> HIDE DEF b, s
    <3> QED BY <3>2, <3>3, <3>4
  <2> HIDE DEF b, s
  <2> QED BY <2>1, <2>2, <2>3 DEF Suffix
<1>7. Suffix(d.pending, s)
  BY <1>2, <1>3, <1>4, <1>6, SuffixOfSuffix DEF Good
<1>8. SameReading'
  <2> SUFFICES ASSUME ~dropped, ~d.dropped
               PROVE  Read(Idle, s) = Read(Emitted(out \o d.frames), d.pending)
    BY <1>1 DEF SameReading, Emitted
  <2>1. Read(Idle, stream) = Read(Emitted(out), pending)
    BY DEF SplitterInv, SameReading, Emitted
  <2>2. Idle \in Reader /\ Emitted(out) \in Reader
    <3>1. Idle = Emitted(<< >>) /\ << >> \in Seq(Seq(Byte))
      BY DEF Idle, Emitted
    <3> QED BY <1>2, <3>1, EmittedIsReader
  <2>3. Read(Idle, s) = Read(Read(Idle, stream), p)
    BY <1>2, <2>2, ReadConcat
  <2>4. Read(Emitted(out), b) = Read(Read(Emitted(out), pending), p)
    BY <1>2, <2>2, ReadConcat
  <2>5. Read(Emitted(out), b) = Read(Emitted(out \o d.frames), d.pending)
    BY <1>3 DEF Good
  <2> QED BY <2>1, <2>3, <2>4, <2>5
<1>9. ASSUME NEW i \in 1 .. Len(out') PROVE Whole(out'[i]) /\ Within(out'[i], stream')
  <2>1. Len(out') = Len(out) + Len(d.frames) /\ Len(out) \in Nat /\ Len(d.frames) \in Nat
    BY <1>1, <1>2, <1>4
  <2>2. CASE i <= Len(out)
    <3> DEFINE x == out[i]
    <3>1. out'[i] = x /\ x \in Seq(Byte) /\ Whole(x) /\ Within(x, stream)
      BY <1>1, <1>2, <1>4, <2>1, <2>2 DEF SplitterInv
    <3> HIDE DEF x
    <3>2. Within(x, s)
      <4>1. PICK k \in 0 .. Len(stream) - Len(x) : \A j \in 1 .. Len(x) : x[j] = stream[k + j]
        BY <3>1 DEF Within
      <4>2. Len(x) \in Nat /\ Len(stream) \in Nat /\ Len(p) \in Nat /\ Len(s) = Len(stream) + Len(p)
        BY <1>2, <3>1
      <4>3. ASSUME NEW j \in 1 .. Len(x) PROVE x[j] = s[k + j]
        <5> DEFINE l == k + j
        <5>1. l \in 1 .. Len(stream) /\ x[j] = stream[l]
          BY <4>1, <4>2
        <5> HIDE DEF l
        <5>2. s[l] = stream[l]
          BY <1>2, <4>2, <5>1
        <5>3. l = k + j
          BY DEF l
        <5> HIDE DEF s
        <5> QED BY <5>1, <5>2, <5>3
      <4>4. k \in 0 .. Len(s) - Len(x)
        BY <4>2
      <4> HIDE DEF s
      <4> QED BY <4>3, <4>4 DEF Within
    <3> QED BY <1>1, <3>1, <3>2
  <2>3. CASE i > Len(out)
    <3> DEFINE k == i - Len(out)
               x == d.frames[k]
    <3>1. k \in 1 .. Len(d.frames) /\ out'[i] = x
      BY <1>1, <1>2, <1>4, <2>1, <2>3
    <3> HIDE DEF k
    <3>2. x \in Seq(Byte) /\ Whole(x) /\ Within(x, b)
      BY <1>3, <1>4, <3>1 DEF Good
    <3> HIDE DEF x
    <3>3. Within(x, s)
      BY <1>2, <1>6, <3>2, WithinSuffix
    <3> QED BY <1>1, <3>1, <3>2, <3>3
  <2> QED BY <2>1, <2>2, <2>3
<1> QED BY <1>1, <1>5, <1>7, <1>8, <1>9, <1>10 DEF SplitterInv

\* The inductive invariant of the splitter holds in every reachable state.
THEOREM SplitterInvariant == SplitterSpec => []SplitterInv
<1>1. SplitterInit => SplitterInv
  <2> SUFFICES ASSUME SplitterInit PROVE SplitterInv
    OBVIOUS
  <2> DEFINE e == << >>
  <2>1. pending = e /\ out = e /\ stream = e /\ dropped = FALSE
    BY DEF SplitterInit
  <2>2. e \in Seq(Byte) /\ e \in Seq(Seq(Byte)) /\ Len(e) = 0
    OBVIOUS
  <2>3. [frames |-> out, frame |-> << >>] = Idle /\ pending = stream /\ Idle = Emitted(e)
    BY <2>1 DEF Idle, Emitted
  <2> HIDE DEF e
  <2>4. SplitterTypeOK
    BY <2>1, <2>2 DEF SplitterTypeOK
  <2>5. SameReading
    BY <2>1, <2>3 DEF SameReading
  <2>6. NoFrameLeft
    <3>1. Emitted(e).frames = e
      BY DEF Emitted
    <3>2. Read(Emitted(e), e) = Emitted(e)
      BY <2>2, ReadNothing, EmittedIsReader DEF e
    <3>3. Read([frames |-> out, frame |-> << >>], pending) = Emitted(e)
      BY <2>1, <2>3, <3>2
    <3> QED BY <2>1, <3>1, <3>3 DEF NoFrameLeft
  <2> QED BY <2>1, <2>2, <2>4, <2>5, <2>6 DEF SplitterInv, Suffix
<1>2. SplitterInv /\ [SplitterNext]_splitterVars => SplitterInv'
  <2> SUFFICES ASSUME SplitterInv, [SplitterNext]_splitterVars PROVE SplitterInv'
    OBVIOUS
  <2>1. CASE SplitterNext
    <3>1. PICK n \in 1 .. MaxChunk : \E p \in [1 .. n -> Byte] : Write(p)
      BY <2>1 DEF SplitterNext
    <3>2. PICK p \in [1 .. n -> Byte] : Write(p)
      BY <3>1
    <3>3. p \in Seq(Byte)
      BY SplitterAssumption
    <3> QED BY <3>2, <3>3, WriteStep
  <2>2. CASE UNCHANGED splitterVars
    <3>1. pending' = pending /\ out' = out /\ stream' = stream /\ dropped' = dropped
      BY <2>2 DEF splitterVars
    <3> QED BY <3>1 DEF SplitterInv, SplitterTypeOK, SameReading, NoFrameLeft
  <2> QED BY <2>1, <2>2
<1> QED BY <1>1, <1>2, PTL DEF SplitterSpec

\* However the pipe cuts the stream, Write emits the frames of the stream, with none
\* lost, invented or cut short.
THEOREM ChunksAreJoined == SplitterSpec => []ChunksDoNotMatter
<1>1. SplitterInv => ChunksDoNotMatter
  <2> SUFFICES ASSUME SplitterInv, ~dropped PROVE out = Frames(stream)
    BY DEF ChunksDoNotMatter
  <2>1. Read(Idle, stream) = Read([frames |-> out, frame |-> << >>], pending)
    BY DEF SplitterInv, SameReading
  <2> QED BY <2>1 DEF SplitterInv, NoFrameLeft, Frames
<1> QED BY <1>1, SplitterInvariant, PTL

\* Two bytes of a list.
LEMMA TwoBytes ==
  ASSUME NEW x \in Seq(Byte), NEW m \in 1 .. Len(x) - 1, NEW n, n = m + 1, NEW u, u = x[m], NEW v, v = x[n]
  PROVE  SubSeq(x, m, n) = <<u, v>>
<1> DEFINE y == SubSeq(x, m, n)
           z == <<u, v>>
<1>1. Len(x) \in Nat /\ u \in Byte /\ v \in Byte
  OBVIOUS
<1>2. y \in Seq(Byte) /\ Len(y) = 2 /\ y[1] = u /\ y[2] = v
  BY <1>1
<1>3. z \in Seq(Byte) /\ Len(z) = 2 /\ z[1] = u /\ z[2] = v
  BY <1>1
<1> HIDE DEF y, z
<1>4. \A i \in 1 .. Len(y) : y[i] = z[i]
  BY <1>2, <1>3
<1>5. y = z
  BY <1>2, <1>3, <1>4
<1> QED BY <1>5 DEF y, z

\* Everything that Write emits is a whole image that stands in the stream.
THEOREM WholeFrames == SplitterSpec => []FramesAreWhole
<1>1. SplitterInv => FramesAreWhole
  <2> SUFFICES ASSUME SplitterInv, NEW i \in DOMAIN out
               PROVE  /\ SubSeq(out[i], 1, 2) = SOI
                      /\ SubSeq(out[i], Len(out[i]) - 1, Len(out[i])) = EOI
                      /\ \E k \in 0 .. Len(stream) - Len(out[i]) :
                           SubSeq(stream, k + 1, k + Len(out[i])) = out[i]
    BY DEF FramesAreWhole
  <2> DEFINE x == out[i]
  <2>1. out \in Seq(Seq(Byte)) /\ stream \in Seq(Byte)
    BY DEF SplitterInv, SplitterTypeOK
  <2>2. x \in Seq(Byte) /\ Whole(x) /\ Within(x, stream)
    BY <2>1 DEF SplitterInv
  <2> HIDE DEF x
  <2>3. Len(x) \in Nat /\ Len(x) >= 4 /\ Len(stream) \in Nat
    BY <2>1, <2>2 DEF Whole
  <2>4. SubSeq(x, 1, 2) = SOI
    <3>1. 1 \in 1 .. Len(x) - 1 /\ x[1] = "FF" /\ x[2] = "D8"
      BY <2>2, <2>3 DEF Whole
    <3> QED BY <2>2, <3>1, TwoBytes DEF SOI
  <2>5. SubSeq(x, Len(x) - 1, Len(x)) = EOI
    <3> DEFINE m == Len(x) - 1
    <3>1. m \in 1 .. Len(x) - 1 /\ Len(x) = m + 1 /\ x[m] = "FF" /\ x[Len(x)] = "D9"
      BY <2>2, <2>3 DEF Whole
    <3> HIDE DEF m
    <3>2. SubSeq(x, m, Len(x)) = <<"FF", "D9">>
      BY <2>2, <3>1, TwoBytes
    <3> QED BY <3>2 DEF m, EOI
  <2>6. PICK k \in 0 .. Len(stream) - Len(x) : \A j \in 1 .. Len(x) : x[j] = stream[k + j]
    BY <2>2 DEF Within
  <2> DEFINE y == SubSeq(stream, k + 1, k + Len(x))
  <2>7. y \in Seq(Byte) /\ Len(y) = Len(x) /\ \A j \in 1 .. Len(x) : y[j] = x[j]
    <3>1. y \in Seq(Byte) /\ Len(y) = Len(x)
      BY <2>1, <2>3, <2>6
    <3>2. ASSUME NEW j \in 1 .. Len(x) PROVE y[j] = stream[k + j]
      <4>1. (k + 1) + j - 1 = k + j /\ j \in 1 .. (k + Len(x)) - (k + 1) + 1
        BY <2>3, <2>6
      <4> QED BY <2>1, <2>3, <2>6, <4>1
    <3> QED BY <2>6, <3>1, <3>2
  <2> HIDE DEF y
  <2>8. y = x
    BY <2>2, <2>7
  <2> QED BY <2>4, <2>5, <2>6, <2>8 DEF x, y
<1> QED BY <1>1, SplitterInvariant, PTL

\* The loop of Write comes to its end on any bytes that are kept and written, whatever
\* they are.
THEOREM WriteReturns ==
  ASSUME NEW b \in Seq(Byte)
  PROVE  Drain(b).done
<1>1. << >> \in Seq(Seq(Byte))
  OBVIOUS
<1> QED BY <1>1, DrainKeeps
=============================================================================
