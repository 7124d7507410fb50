------------------------------ MODULE TimeSignal ------------------------------
(***************************************************************************)
(* The speaking clock (src/internal/timesignal): streams that announce the *)
(* next ten-second mark, over a cache of synthesised phrases they share.   *)
(*                                                                         *)
(* A stream hands out a chunk of sound every tick.  In the window of a     *)
(* block it looks up the phrase of the coming mark; a phrase that is not   *)
(* in the cache is synthesised by the engines of this host, one after the  *)
(* other, while the stream waits.  The mutex covers the lookup and the     *)
(* store, never the synthesis between them.                                *)
(*                                                                         *)
(* The clock counts seconds since a midnight.  A chunk of a stream that is *)
(* not waiting for a synthesis is handed out in every second: one of the   *)
(* ten that the code hands out.                                            *)
(***************************************************************************)
EXTENDS Integers, Lists, FiniteSetsExt, Functions

CONSTANTS
  Stream,       \* connections of /api/audio/timesignal
  Lang,         \* "ja", "en"
  Installed,    \* engines of this host: "open_jtalk", "sapi", "espeak"
  WAVs,         \* what an engine may write
  SynthTimeout, \* seconds an engine may take
  Begin, End,   \* bound: the seconds of a behaviour
  FullScale,    \* largest sample, 32767 in the code
  Silence       \* silenceThreshold on that scale

ASSUME TimeSignalAssumption ==
  /\ Lang \subseteq {"ja", "en"} /\ Installed \subseteq {"open_jtalk", "sapi", "espeak"}
  /\ SynthTimeout \in Nat /\ Begin \in Nat /\ End \in Nat
  /\ FullScale \in Nat \ {0} /\ Silence \in Nat
  /\ \A w \in WAVs : w.rate \in Nat /\ w.frames \in Seq(Seq(Int) \ {<< >>})

VARIABLES
  now,      \* the wall clock
  cache,    \* s.cache: samples of a phrase, for the phrases that have been asked for
  pc,       \* pc[s]: "closed", "ready", "lookup", "synthesis" or "store"
  lang,     \* lang[s]
  lastKey,  \* lastKey[s]: the block announced last, or NoKey
  asked,    \* asked[s]: the announcement that is being prepared
  gone,     \* gone[s]: the client has left, the context is cancelled
  engine,   \* engine[s]: place in the chain of the engine that runs
  elapsed,  \* elapsed[s]: seconds it has taken
  pcm,      \* pcm[s]: what was synthesised
  heard,    \* heard[s]: the second of the last chunk
  spoken,   \* history: the mark of the phrase that started last in s
  overtaken,\* history: the phrase s prepares was stored by another stream meanwhile
  extreme   \* history: phrases synthesised with the smallest sample in them

streamVars == <<pc, lang, lastKey, asked, gone, engine, elapsed, pcm, heard, spoken, overtaken>>
timeSignalVars == <<now, cache, extreme, streamVars>>

NoKey == << >>

-----------------------------------------------------------------------------
(* Numbers as Go has them.                                                 *)

\* Integer division, and conversion of a quotient to an integer, toward zero.
Quot(a, b) == IF a >= 0 THEN a \div b ELSE -((-a) \div b)

\* The smallest sample is its own negation.
Negated(v) == IF v = -FullScale - 1 THEN v ELSE -v
Magnitude(v) == IF v < 0 THEN Negated(v) ELSE v

clampSample(v) == IF v > FullScale THEN FullScale ELSE IF v < -FullScale - 1 THEN -FullScale - 1 ELSE v

-----------------------------------------------------------------------------
(* From an engine's output to a phrase: pcm.go.                            *)

SampleRate == 48000

NoSound == [rate |-> SampleRate, samples |-> << >>]

\* A file that cannot be read as 8 or 16 bit PCM is an error, as is no sound at all.
\* The channels of a frame are averaged.
ParseWAV(w) ==
  IF w.format = "pcm" /\ w.bits \in {8, 16} /\ w.rate > 0
  THEN [rate |-> w.rate,
        samples |-> [f \in DOMAIN w.frames |->
                       Quot(Total(w.frames[f]), Len(w.frames[f]))]]
  ELSE NoSound

\* Upwards between two samples, downwards the mean of those a sample covers.
Resample(p) ==
  LET in == p.samples
      n == (2 * Len(in) * SampleRate + p.rate) \div (2 * p.rate)
      at(i) == ((i - 1) * p.rate) \div SampleRate
      rest(i) == ((i - 1) * p.rate) % SampleRate
      following(i) == IF at(i) + 2 <= Len(in) THEN in[at(i) + 2] ELSE in[at(i) + 1]
      between(i) == Quot(in[at(i) + 1] * SampleRate + (following(i) - in[at(i) + 1]) * rest(i), SampleRate)
      window == (p.rate + SampleRate - 1) \div SampleRate
      last(i) == IF at(i) + window > Len(in) THEN Len(in) ELSE at(i) + window
      mean(i) == Quot(Total(SubSeq(in, at(i) + 1, last(i))), last(i) - at(i))
  IN IF p.rate = SampleRate \/ in = << >> THEN in
     ELSE [i \in 1 .. n |-> IF p.rate < SampleRate THEN clampSample(between(i))
                            ELSE IF at(i) >= last(i) THEN in[Len(in)] ELSE mean(i)]

\* The fade at both ends, which makes nothing louder, is left out.
TrimSilence(s) ==
  LET loud == {i \in DOMAIN s : Magnitude(s[i]) > Silence}
  IN IF loud = {} THEN << >> ELSE SubSeq(s, Min(loud), Max(loud))

\* Mutant: aims at full scale and not at voicePeak.
Normalize_Full(s) ==
  LET peak == Max({0} \cup {Magnitude(s[i]) : i \in DOMAIN s})
  IN IF peak <= 0 THEN s ELSE [i \in DOMAIN s |-> clampSample(Quot(s[i] * FullScale, peak))]

\* To a peak of voicePeak, 0.6 of full scale.
Normalize(s) ==
  LET peak == Max({0} \cup {Magnitude(s[i]) : i \in DOMAIN s})
  IN IF peak <= 0 THEN s ELSE [i \in DOMAIN s |-> clampSample(Quot(s[i] * 6 * FullScale, 10 * peak))]

Phrase(p) == Normalize(TrimSilence(Resample(p)))

-----------------------------------------------------------------------------
(* The engines: tts.go.                                                    *)

Supports(e, l) == e = "open_jtalk" => l = "ja"

\* DetectSynthesizers: those that are installed, in this order, and the chime.
Engines == <<"open_jtalk", "sapi", "espeak">>
Chain(l) ==
  Selected(Engines, {i \in 1 .. 3 : Engines[i] \in Installed /\ Supports(Engines[i], l)})
  \o <<"chime">>

\* A tone at full swing: what matters of it is that it is never empty or too loud.
Chime == [rate |-> SampleRate, samples |-> <<FullScale \div 2, -(FullScale \div 2)>>]

-----------------------------------------------------------------------------
(* The schedule: phrase.go and tones.go.                                   *)

Hour(t) == (t \div 3600) % 24
Minute(t) == (t \div 60) % 60
Second(t) == t % 60

\* The mark is told in seconds of the clock; key names the block.
AnnouncementFor(t) ==
  [open |-> Second(t) % 10 \in 1 .. 3, key |-> <<Hour(t), Minute(t), Second(t) \div 10>>,
   mark |-> (t - Second(t)) + 10 * ((Second(t) \div 10) + 1)]

to12Hour(h) == IF h % 12 = 0 THEN 12 ELSE h % 12

\* The words that tell two sentences apart: a full minute is told with its hour.
BuildPhrase(l, mark) ==
  IF Second(mark) # 0 THEN <<l, Minute(mark), Second(mark)>>
  ELSE <<l, to12Hour(Hour(mark)), Hour(mark) >= 12, Minute(mark)>>

\* The loudest a tone gets in a second, in hundredths of full scale.
TonePeak(t) == IF Second(t) % 10 = 0 THEN 32 ELSE 28

-----------------------------------------------------------------------------
(* The streams: service.go.                                                *)

Nothing == [open |-> FALSE, key |-> NoKey, mark |-> 0]

TimeSignalInit ==
  /\ now = Begin /\ cache = << >> /\ extreme = {}
  /\ pc = [s \in Stream |-> "closed"] /\ lang \in [Stream -> Lang]
  /\ lastKey = [s \in Stream |-> NoKey] /\ asked = [s \in Stream |-> Nothing]
  /\ gone = [s \in Stream |-> FALSE]
  /\ engine = [s \in Stream |-> 0] /\ elapsed = [s \in Stream |-> 0]
  /\ pcm = [s \in Stream |-> NoSound]
  /\ heard = [s \in Stream |-> 0] /\ spoken = [s \in Stream |-> 0]
  /\ overtaken = [s \in Stream |-> FALSE]

\* A request makes a Streamer.
NewStreamer(s) ==
  /\ pc[s] = "closed" /\ spoken[s] = 0
  /\ pc' = [pc EXCEPT ![s] = "ready"]
  /\ UNCHANGED <<now, cache, extreme, lang, lastKey, asked, gone, engine, elapsed, pcm, heard, spoken, overtaken>>

\* The client goes away.
Leave(s) ==
  /\ pc[s] # "closed" /\ ~gone[s]
  /\ gone' = [gone EXCEPT ![s] = TRUE]
  /\ UNCHANGED <<now, cache, extreme, pc, lang, lastKey, asked, engine, elapsed, pcm, heard, spoken, overtaken>>

\* Mutant: announces a block as often as it has chunks.
Announces_Again(s) == AnnouncementFor(now).open
Announces(s) == AnnouncementFor(now).open /\ AnnouncementFor(now).key # lastKey[s]

\* A tick: Chunk begins, with or without an announcement to prepare.
Chunk(s) ==
  LET a == AnnouncementFor(now) IN
  /\ pc[s] = "ready" /\ ~gone[s] /\ heard[s] < now
  /\ heard' = [heard EXCEPT ![s] = now]
  /\ \/ /\ Announces(s)
        /\ pc' = [pc EXCEPT ![s] = "lookup"]
        /\ lastKey' = [lastKey EXCEPT ![s] = a.key] /\ asked' = [asked EXCEPT ![s] = a]
     \/ ~Announces(s) /\ UNCHANGED <<pc, lastKey, asked>>
  /\ UNCHANGED <<now, cache, extreme, lang, gone, engine, elapsed, pcm, spoken, overtaken>>

Text(s) == BuildPhrase(lang[s], asked[s].mark)

\* What prepares a phrase is done, and the phrase starts.
Starts(s) ==
  /\ pc' = [pc EXCEPT ![s] = "ready"]
  /\ spoken' = [spoken EXCEPT ![s] = asked[s].mark]
  /\ asked' = [asked EXCEPT ![s] = Nothing]

\* Mutant: does not look into the cache.
Cached_Never(s) == FALSE
Cached(s) == Text(s) \in DOMAIN cache

\* The first lock section of Phrase.
Lookup(s) ==
  /\ pc[s] = "lookup"
  /\ \/ Cached(s) /\ Starts(s) /\ UNCHANGED <<engine, elapsed, overtaken>>
     \/ /\ ~Cached(s)
        /\ pc' = [pc EXCEPT ![s] = "synthesis"]
        /\ engine' = [engine EXCEPT ![s] = 1] /\ elapsed' = [elapsed EXCEPT ![s] = 0]
        /\ overtaken' = [overtaken EXCEPT ![s] = FALSE]
        /\ UNCHANGED <<asked, spoken>>
  /\ UNCHANGED <<now, cache, extreme, lang, lastKey, gone, pcm, heard>>

Running(s) == Chain(lang[s])[engine[s]]

Synthesised(s, p) ==
  /\ pc' = [pc EXCEPT ![s] = "store"] /\ pcm' = [pcm EXCEPT ![s] = p]
  /\ UNCHANGED <<engine, elapsed>>

\* Chain.Synthesize: an engine speaks, or it fails, takes too long or is killed
\* because the client has left, and the next one tries.  The chime comes last.
Synthesize(s) ==
  /\ pc[s] = "synthesis"
  /\ \/ /\ Running(s) # "chime" /\ ~gone[s]
        /\ \E w \in WAVs : ParseWAV(w).samples # << >> /\ Synthesised(s, ParseWAV(w))
     \/ /\ Running(s) # "chime"
        /\ engine' = [engine EXCEPT ![s] = @ + 1] /\ elapsed' = [elapsed EXCEPT ![s] = 0]
        /\ UNCHANGED <<pc, pcm>>
     \/ Running(s) = "chime" /\ Synthesised(s, Chime)
  /\ UNCHANGED <<now, cache, extreme, lang, lastKey, asked, gone, heard, spoken, overtaken>>

\* The second lock section of Phrase: the last one to store wins.
Store(s) ==
  /\ pc[s] = "store"
  /\ cache' = [text \in DOMAIN cache \cup {Text(s)} |->
                IF text = Text(s) THEN Phrase(pcm[s]) ELSE cache[text]]
  /\ extreme' = IF -FullScale - 1 \in Range(Resample(pcm[s])) THEN extreme \cup {Text(s)}
                ELSE extreme \ {Text(s)}
  /\ overtaken' = [t \in Stream |->
       IF t = s THEN FALSE
       ELSE overtaken[t] \/ (pc[t] \in {"synthesis", "store"} /\ Text(t) = Text(s))]
  /\ pcm' = [pcm EXCEPT ![s] = NoSound]
  /\ engine' = [engine EXCEPT ![s] = 0] /\ elapsed' = [elapsed EXCEPT ![s] = 0]
  /\ Starts(s)
  /\ UNCHANGED <<now, lang, lastKey, gone, heard>>

\* Stream returns: the context is done, or the chunk cannot be written.
Close(s) ==
  /\ pc[s] = "ready" /\ gone[s]
  /\ pc' = [pc EXCEPT ![s] = "closed"]
  /\ UNCHANGED <<now, cache, extreme, lang, lastKey, asked, gone, engine, elapsed, pcm, heard, spoken, overtaken>>

\* A second passes, with or without a chunk of every stream: the write of one waits
\* for a client that reads slowly.  An engine is killed when its time is over.
Tick ==
  /\ now < End /\ now' = now + 1
  /\ \A s \in Stream :
       /\ pc[s] \notin {"lookup", "store"}
       /\ pc[s] = "synthesis" => Running(s) # "chime" /\ elapsed[s] < SynthTimeout
  /\ elapsed' = [s \in Stream |-> IF pc[s] = "synthesis" THEN elapsed[s] + 1 ELSE 0]
  /\ UNCHANGED <<cache, extreme, pc, lang, lastKey, asked, gone, engine, pcm, heard, spoken, overtaken>>

TimeSignalNext ==
  \/ \E s \in Stream :
       \/ NewStreamer(s) \/ Leave(s) \/ Close(s)
       \/ Chunk(s) \/ Lookup(s) \/ Synthesize(s) \/ Store(s)
  \/ Tick

TimeSignalSpec == TimeSignalInit /\ [][TimeSignalNext]_timeSignalVars

-----------------------------------------------------------------------------
(* Properties.                                                             *)

Sounds == [rate : Nat \ {0}, samples : Seq(Int)]
Announcements == {AnnouncementFor(t) : t \in Begin .. now}

TimeSignalTypeOK ==
  /\ now \in Nat /\ Begin <= now
  /\ pc \in [Stream -> {"closed", "ready", "lookup", "synthesis", "store"}]
  /\ lang \in [Stream -> Lang]
  /\ lastKey \in [Stream -> {NoKey} \cup {a.key : a \in Announcements}]
  /\ asked \in [Stream -> {Nothing} \cup Announcements]
  /\ gone \in [Stream -> BOOLEAN]
  /\ engine \in [Stream -> Nat] /\ elapsed \in [Stream -> 0 .. SynthTimeout]
  /\ pcm \in [Stream -> Sounds]
  /\ heard \in [Stream -> Nat] /\ spoken \in [Stream -> Nat]
  /\ overtaken \in [Stream -> BOOLEAN]

\* A stream speaks the marks in their order and none twice.  A phrase it finds in
\* the cache starts before its mark; one it has to have synthesised may come too
\* late, by no more than what slow engines take: it was begun in the first three
\* seconds of a block.
MarksInOrder ==
  [][\A s \in Stream : pc[s] \in {"lookup", "store"} /\ pc'[s] = "ready" =>
       /\ spoken'[s] > spoken[s]
       /\ pc[s] = "lookup" => spoken'[s] > now
       /\ spoken'[s] + SynthTimeout * (Len(Chain(lang[s])) - 1) >= now + 7]_timeSignalVars

\* A phrase stays what it is once it is in the cache, except that streams which
\* missed it at the same time overwrite one another: a voice can give way to the
\* chime of a client that left, but a phrase that was there for the asking is
\* never synthesised again.
CachedPhraseStays ==
  [][\A s \in Stream :
       pc[s] = "store" /\ pc'[s] = "ready" /\ Text(s) \in DOMAIN cache => overtaken[s]]_timeSignalVars

\* Voice and tone together stay within full scale, whatever an engine wrote,
\* unless it wrote the smallest sample: it is its own negation, so Normalize does
\* not see it and TrimSilence takes it for silence.
MixNeverClips ==
  \A text \in DOMAIN cache \ extreme : \A i \in DOMAIN cache[text] :
    100 * Magnitude(cache[text][i]) + TonePeak(now) * FullScale <= 100 * FullScale

-----------------------------------------------------------------------------
(* The inductive invariant.                                                *)

\* What a stream announced last is a block it has lived through, and it has
\* spoken of no later one.
AnnouncedInv(s) ==
  /\ heard[s] <= now
  /\ \/ lastKey[s] = NoKey /\ spoken[s] = 0
     \/ \E t \in Begin .. heard[s] :
          lastKey[s] = AnnouncementFor(t).key /\ spoken[s] <= AnnouncementFor(t).mark

\* The announcement that is being prepared is the one of the last chunk, and it is
\* not older than the engines took.
PreparedInv(s) ==
  /\ pc[s] \in {"lookup", "synthesis", "store"} =>
       /\ Begin <= heard[s] /\ asked[s] = AnnouncementFor(heard[s]) /\ asked[s].open
       /\ lastKey[s] = asked[s].key /\ spoken[s] < asked[s].mark
  /\ pc[s] = "lookup" => now = heard[s]
  /\ pc[s] = "synthesis" =>
       /\ engine[s] \in 1 .. Len(Chain(lang[s]))
       /\ elapsed[s] <= SynthTimeout /\ (engine[s] = Len(Chain(lang[s])) => elapsed[s] = 0)
       /\ now <= heard[s] + (engine[s] - 1) * SynthTimeout + elapsed[s]
  /\ pc[s] = "store" => now <= heard[s] + (Len(Chain(lang[s])) - 1) * SynthTimeout

\* A stream that prepares a phrase which is in the cache missed it before.
MissedInv(s) ==
  pc[s] \in {"synthesis", "store"} /\ Text(s) \in DOMAIN cache => overtaken[s]

\* The phrases without the smallest sample keep to the peak of voicePeak.
CacheInv ==
  \A text \in DOMAIN cache \ extreme : \A i \in DOMAIN cache[text] :
    cache[text][i] \in Int /\ 10 * Magnitude(cache[text][i]) <= 6 * FullScale

TimeSignalInv ==
  TimeSignalTypeOK /\ CacheInv /\ \A s \in Stream : AnnouncedInv(s) /\ PreparedInv(s) /\ MissedInv(s)
=============================================================================
