---------------------------- MODULE FFmpegCommand ----------------------------
(***************************************************************************)
(* From the settings of a profile to the command line of its FFmpeg worker *)
(* (src/internal/supervisor/ffmpeg_cmd.go), and which settings are let     *)
(* into the configuration (src/internal/config/validate.go).               *)
(*                                                                         *)
(* A text of the configuration is a word and the way it is spelt: exactly, *)
(* with letters of the other case, or with blanks around it.  An argument  *)
(* list is a record of what it tells FFmpeg; the word "none" stands for an *)
(* argument that is not there.                                             *)
(***************************************************************************)
EXTENDS Integers, Sequences, FiniteSets, TLC

validAuthTypes   == {"digest", "basic", "none", ""}
validSourceModes == {"generate", "file", ""}
validVideoCodecs == {"H264", "H265", "HEVC", "VP9", "AV1", ""}
validAudioCodecs == {"AAC", "G711A", "PCMA", "ALAW", "G711U", "PCMU", "MULAW", "G726", "ADPCM_G726", ""}
validAudioModes  == {"time_signal", "time_signal_ja", "time_signal_en", "silent", "noise", "chime", ""}
validPatterns    == {"testsrc2", "smptebars", "allrgb", "mptestsrc", ""}
validBitrateMode == {"CBR", "VBR", ""}

Spelling == {"exact", "other case", "blanks"}
Text(words) == [word : words, spelt : Spelling]
Plain(w) == [word |-> w, spelt |-> "exact"]

\* The comparisons of the code: trimmed and folded, folded, and none of these.
Trimmed(t) == t.word
Folded(t) == IF t.spelt = "blanks" THEN "unknown" ELSE t.word
Exactly(t) == IF t.spelt = "exact" THEN t.word ELSE "unknown"

oneOf(t, allowed) == Trimmed(t) \in allowed

validPort(p) == 1 <= p /\ p <= 65535
upTo(n, limit) == 0 <= n /\ n <= limit

-----------------------------------------------------------------------------
(* Validation.  A settings record has the fields of ProfileConfig.         *)

ValidSize(w, h) == upTo(w, 7680) /\ upTo(h, 4320) /\ (w = 0) = (h = 0)

\* The path is "blank", or there is such a file ("present") or there is none ("missing").
ValidateProfile(p) ==
  /\ oneOf(p.source, validSourceModes)
  /\ Folded(p.source) = "file" => p.path # "blank"
  /\ ValidSize(p.width, p.height)
  /\ upTo(p.fps, 240) /\ upTo(p.gop, 1000) /\ upTo(p.kbps, 200000)
  /\ oneOf(p.rateMode, validBitrateMode) /\ oneOf(p.codec, validVideoCodecs)
  /\ oneOf(p.pattern, validPatterns)
  /\ oneOf(p.audio.mode, validAudioModes) /\ oneOf(p.audio.codec, validAudioCodecs)
  /\ upTo(p.audio.kbps, 1024) /\ upTo(p.audio.rate, 192000)

ValidateServer(s) ==
  /\ validPort(s.rtsp) /\ validPort(s.http) /\ validPort(s.onvif) /\ s.rtsp # s.http
  /\ oneOf(s.auth, validAuthTypes)
  /\ Trimmed(s.auth) \notin {"none", ""} => s.user # "" /\ s.pass # ""
  /\ oneOf(s.log, {"DEBUG", "INFO", "WARN", "ERROR", ""})

Validate(c) ==
  /\ ValidateServer(c.server)
  /\ c.profiles # << >>
  /\ \A i \in 1 .. Len(c.profiles) : ValidateProfile(c.profiles[i])
  /\ \A i, j \in 1 .. Len(c.profiles) : c.profiles[i].token = c.profiles[j].token => i = j

-----------------------------------------------------------------------------
(* The command line.                                                       *)

Default(value, default) == IF value <= 0 THEN default ELSE value

useFile(p) == Exactly(p.source) = "file" /\ p.path = "present"

generatorSize(p) ==
  IF p.width <= 0 \/ p.height <= 0 THEN <<1920, 1080>> ELSE <<p.width, p.height>>

generatorPattern(p) ==
  IF Trimmed(p.pattern) \in {"smptebars", "allrgb", "mptestsrc"} THEN Trimmed(p.pattern) ELSE "testsrc2"

\* The filters over the picture, in their order.
overlays(p) ==
  LET when(c, f) == IF c THEN <<f>> ELSE << >>
  IN when(p.noise, "noise") \o when(p.box, "drawbox")
     \o when(p.clock \/ ~p.osd, "clock") \o when(p.osd, "osd") \o <<"setpts">>

\* A file plays as it is: neither its size nor its rate is changed.
videoInput(p) ==
  IF useFile(p) THEN [from |-> "file"]
  ELSE [from |-> generatorPattern(p), size |-> generatorSize(p), fps |-> Default(p.fps, 30),
        filters |-> overlays(p)]

sampleRate(p) == Default(p.audio.rate, 44100)

\* The spoken time comes over HTTP from this program, at the rate of timesignal.SampleRate.
audioInput(p, httpPort) ==
  LET mode == Trimmed(p.audio.mode)
  IN IF ~p.audio.enabled THEN [from |-> "none"]
     ELSE IF mode \in {"time_signal_ja", "time_signal_en"} THEN 
       [from |-> "timesignal", rate |-> 48000, port |-> Default(httpPort, 8080)]
     ELSE IF mode = "time_signal" THEN [from |-> "beep 880", rate |-> sampleRate(p)]
     ELSE IF mode = "chime" THEN [from |-> "beep 1046.5", rate |-> sampleRate(p)]
     ELSE IF mode = "noise" THEN [from |-> "noise", rate |-> sampleRate(p)]
     ELSE [from |-> "silence", rate |-> sampleRate(p)]

\* CBR holds the rate at the limit; everything else may stay below it.
rateControl(p) ==
  LET kbps == Default(p.kbps, 4000)
  IN IF Folded(p.rateMode) = "CBR" THEN [minrate |-> kbps, maxrate |-> kbps, bufsize |-> 2 * kbps]
     ELSE [crf |-> 23, maxrate |-> kbps, bufsize |-> 2 * kbps]

\* Mutant: HEVC, the other name of H265, is not known.
videoEncoder_NoAlias(p) ==
  LET c == Trimmed(p.codec) IN IF c \in {"H265", "VP9", "AV1"} THEN c ELSE "H264"

\* The encoder, under the name of what it makes.
videoEncoder(p) ==
  LET c == Trimmed(p.codec)
  IN IF c \in {"H265", "HEVC"} THEN "H265" ELSE IF c \in {"VP9", "AV1"} THEN c ELSE "H264"

audioEncoder(p) ==
  LET c == Trimmed(p.audio.codec)
      telephone(name) == [codec |-> name, kbps |-> 0, rate |-> 8000]
  IN IF ~p.audio.enabled THEN [codec |-> "none"]
     ELSE IF c \in {"G711A", "PCMA", "ALAW"} THEN telephone("alaw")
     ELSE IF c \in {"G711U", "PCMU", "MULAW"} THEN telephone("mulaw")
     ELSE IF c \in {"G726", "ADPCM_G726"} THEN [telephone("g726") EXCEPT !.kbps = 32]
     ELSE [codec |-> "aac", kbps |-> Default(p.audio.kbps, 128), rate |-> sampleRate(p)]

\* The MJPEG side output on stdout.
previewArgs(o) ==
  [fps |-> Default(o.fps, 5), width |-> Default(o.width, 1280), quality |-> Default(o.quality, 5)]

BuildFFmpegArgsWith(p, rtspPort, httpPort, preview) ==
  [video |-> videoInput(p), audioIn |-> audioInput(p, httpPort), gop |-> Default(p.gop, 30),
   rate |-> rateControl(p), vcodec |-> videoEncoder(p), acodec |-> audioEncoder(p),
   url |-> [port |-> rtspPort, path |-> <<"live", p.token>>],
   preview |-> previewArgs(preview)]

DefaultPreview == [fps |-> 5, width |-> 1280, quality |-> 5]
BuildFFmpegArgs(p, rtspPort, httpPort) ==
  BuildFFmpegArgsWith(p, rtspPort, httpPort, DefaultPreview)
=============================================================================
