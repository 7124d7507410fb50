----------------------------- MODULE OnvifService -----------------------------
(***************************************************************************)
(* What the ONVIF services answer (src/internal/onvif: server.go,          *)
(* device.go, media.go and the descriptive half of ptz_service.go).        *)
(*                                                                         *)
(* Every handler reads one copy of the configuration and keeps nothing, so *)
(* it is an operator from the request and the configuration to an answer.  *)
(* An answer carries a fault, or handles by which a client may ask on, and *)
(* what it says of the picture and the sound.  A handle is a kind, the     *)
(* prefix the code puts before a token, and the token.  The PTZ actions    *)
(* that change something are in Ptz and in Presets.                        *)
(***************************************************************************)
EXTENDS FFmpegCommand, Lists

CONSTANTS
  Token,       \* tokens of profiles
  Node,        \* node tokens that a configuration may have
  MaxProfiles  \* bound: profiles of a configuration

VARIABLE config  \* what cfgMgr.Get() returns

\* A tag the request does not have, or an empty one.
Absent == "absent"

Handle(kind, token) == [kind |-> kind, token |-> token]
Answer(handles, told) == [fault |-> "none", handles |-> handles, told |-> told]
Fault(code) == [fault |-> code, handles |-> {}, told |-> << >>]

ProfilesCalled(cfg, token) ==
  Selected(cfg.profiles, {i \in DOMAIN cfg.profiles : cfg.profiles[i].token = token})

\* The answer about the first profile that is found, or a fault.
About(found, Render(_), code) == IF found = << >> THEN Fault(code) ELSE Render(Head(found))

\* The answer that puts together what is said of each profile of a sequence.
List(profiles, Render(_)) ==
  LET of == [i \in DOMAIN profiles |-> Render(profiles[i])]
  IN Answer(UNION {of[i].handles : i \in DOMAIN of}, [i \in DOMAIN of |-> of[i].told])

WithSound(profiles) == Selected(profiles, {i \in DOMAIN profiles : profiles[i].audio.enabled})
Sounding(cfg) == WithSound(cfg.profiles)

\* A request that names no profile means the first one.
lookupProfile(q, cfg) ==
  IF q.profile = Absent /\ cfg.profiles # << >> THEN <<Head(cfg.profiles)>>
  ELSE ProfilesCalled(cfg, q.profile)

profileByConfigToken(q, prefix, cfg) ==
  IF q.config.kind = prefix THEN ProfilesCalled(cfg, q.config.token) ELSE << >>

-----------------------------------------------------------------------------
(* The descriptions of media.go.                                           *)

\* The names are folded and, unlike in FFmpegCommand, not trimmed.
onvifVideoEncoding(t) ==
  LET c == Folded(t) IN IF c \in {"", "H264"} THEN "H264" ELSE IF c \in {"HEVC", "H265"} THEN "H265" ELSE c

onvifAudioEncoding(t) ==
  LET c == Folded(t)
  IN IF c \in {"G711A", "PCMA", "ALAW", "G711U", "PCMU", "MULAW", "G711"} THEN "G711"
     ELSE IF c \in {"G726", "ADPCM_G726"} THEN "G726" ELSE "AAC"

VideoSourceConfiguration(p) ==
  Answer({Handle("VSC_", p.token)}, [width |-> p.width, height |-> p.height])

AudioSourceConfiguration(p) == Answer({Handle("ASC_", p.token)}, << >>)

VideoEncoderConfiguration(p) ==
  LET encoding == onvifVideoEncoding(p.codec)
  IN Answer({Handle("VEC_", p.token)},
            [encoding |-> encoding, width |-> p.width, height |-> p.height, fps |-> p.fps,
             kbps |-> p.kbps, gop |-> IF encoding = "H264" THEN p.gop ELSE 0])

AudioEncoderConfiguration(p) ==
  Answer({Handle("AEC_", p.token)},
         [encoding |-> onvifAudioEncoding(p.audio.codec), kbps |-> p.audio.kbps, rate |-> p.audio.rate])

PTZConfiguration(cfg) ==
  Answer({Handle("", "PTZConfig_1"), Handle("node", cfg.ptz.node)}, [uses |-> Len(cfg.profiles)])

\* Mutant: the sound of a profile is described whether it is enabled or not.
ProfileHandles_Silent(p, cfg) ==
  UNION {VideoSourceConfiguration(p).handles, VideoEncoderConfiguration(p).handles,
         AudioSourceConfiguration(p).handles, AudioEncoderConfiguration(p).handles,
         IF cfg.ptz.enabled THEN PTZConfiguration(cfg).handles ELSE {}}

\* The configurations written inside a profile.
ProfileHandles(p, cfg) ==
  UNION {VideoSourceConfiguration(p).handles, VideoEncoderConfiguration(p).handles,
         IF p.audio.enabled
         THEN AudioSourceConfiguration(p).handles \cup AudioEncoderConfiguration(p).handles ELSE {},
         IF cfg.ptz.enabled THEN PTZConfiguration(cfg).handles ELSE {}}

renderProfileXML(p, cfg) == Answer({Handle("profile", p.token)} \cup ProfileHandles(p, cfg), p.token)

-----------------------------------------------------------------------------
(* The handlers of media.go.                                               *)

NoProfile == "ter:NoProfile"
NoConfig == "ter:NoConfig"

HandleGetProfiles(cfg) == List(cfg.profiles, LAMBDA p : renderProfileXML(p, cfg))
HandleGetProfile(q, cfg) ==
  About(lookupProfile(q, cfg), LAMBDA p : renderProfileXML(p, cfg), NoProfile)

MediaUri(scheme, port, path) == Answer({}, [scheme |-> scheme, port |-> port, path |-> path])
HandleGetStreamUri(q, cfg) ==
  About(lookupProfile(q, cfg), LAMBDA p : MediaUri("rtsp", cfg.server.rtsp, <<"live", p.token>>), NoProfile)
HandleGetSnapshotUri(q, cfg) ==
  About(lookupProfile(q, cfg),
        LAMBDA p : MediaUri("http", cfg.server.http, <<"api", "snapshot", p.token>>), NoProfile)

HandleGetVideoSourceConfigurations(cfg) == List(cfg.profiles, VideoSourceConfiguration)
HandleGetVideoSourceConfiguration(q, cfg) ==
  About(profileByConfigToken(q, "VSC_", cfg), VideoSourceConfiguration, NoConfig)

HandleGetVideoEncoderConfigurations(cfg) == List(cfg.profiles, VideoEncoderConfiguration)
HandleGetVideoEncoderConfiguration(q, cfg) ==
  About(profileByConfigToken(q, "VEC_", cfg), VideoEncoderConfiguration, NoConfig)

\* A configuration that is named goes before a profile that is.
HandleGetVideoEncoderConfigurationOptions(q, cfg) ==
  LET options(p) == Answer({}, [width |-> p.width, height |-> p.height, maxFps |-> p.fps])
  IN IF q.config.token # Absent
     THEN About(profileByConfigToken(q, "VEC_", cfg), options, NoConfig)
     ELSE About(lookupProfile(q, cfg), options, NoProfile)

\* The one source looks like the first profile.
HandleGetVideoSources(cfg) ==
  Answer({}, IF cfg.profiles = << >> THEN [width |-> 1920, height |-> 1080, fps |-> 30]
             ELSE [width |-> Head(cfg.profiles).width, height |-> Head(cfg.profiles).height,
                   fps |-> Head(cfg.profiles).fps])

HandleGetAudioSources(cfg) == Answer({}, Sounding(cfg) # << >>)
HandleGetAudioSourceConfigurations(cfg) == List(Sounding(cfg), AudioSourceConfiguration)
HandleGetAudioEncoderConfigurations(cfg) == List(Sounding(cfg), AudioEncoderConfiguration)

HandleGetAudioEncoderConfiguration(q, cfg) ==
  About(WithSound(profileByConfigToken(q, "AEC_", cfg)), AudioEncoderConfiguration, NoConfig)

-----------------------------------------------------------------------------
(* The handlers of device.go that depend on the configuration.             *)

Service(name, cfg) == [name |-> name, port |-> cfg.server.http]

HandleGetCapabilities(cfg) ==
  Answer({}, {Service("device", cfg), Service("media", cfg)}
             \cup (IF cfg.ptz.enabled THEN {Service("ptz", cfg)} ELSE {}))

HandleGetServices(cfg) ==
  Answer({}, {Service(name, cfg) : name \in {"device", "media"} \cup
                                            (IF cfg.ptz.enabled THEN {"ptz"} ELSE {})})

HandleGetNetworkProtocols(cfg) ==
  Answer({}, [HTTP |-> cfg.server.http, RTSP |-> cfg.server.rtsp])

HandleGetDeviceInformation(cfg) == Answer({}, cfg.server.device)
HandleGetScopes(cfg) == Answer({}, cfg.server.device.model)
HandleGetUsers(cfg) == Answer({}, cfg.server.user)

-----------------------------------------------------------------------------
(* The descriptive handlers of ptz_service.go.                             *)

renderNodeXML(token) == Answer({Handle("node", token)}, [presets |-> 32])
HandleGetNodes(cfg) == renderNodeXML(cfg.ptz.node)
HandleGetNode(q, cfg) ==
  IF q.node = cfg.ptz.node THEN renderNodeXML(cfg.ptz.node) ELSE Fault("ter:NoEntity")

HandleGetConfigurations(cfg) == PTZConfiguration(cfg)
HandleGetConfiguration(q, cfg) ==
  IF q.ptzConfig = Handle("", "PTZConfig_1") THEN PTZConfiguration(cfg) ELSE Fault(NoConfig)
HandleGetConfigurationOptions(q) ==
  IF q.config = Handle("", "PTZConfig_1") THEN Answer({}, <<"PT1S", "PT60S">>) ELSE Fault(NoConfig)

-----------------------------------------------------------------------------
(* The dispatch of server.go.  The answers that never change are one.      *)

Constant == Answer({}, << >>)

handleDeviceService(action, cfg) ==
  CASE action = "GetDeviceInformation" -> HandleGetDeviceInformation(cfg)
    [] action = "GetCapabilities" -> HandleGetCapabilities(cfg)
    [] action = "GetServices" -> HandleGetServices(cfg)
    [] action = "GetScopes" -> HandleGetScopes(cfg)
    [] action = "GetNetworkProtocols" -> HandleGetNetworkProtocols(cfg)
    [] action = "GetUsers" -> HandleGetUsers(cfg)
    [] action \in {"GetSystemDateAndTime", "GetServiceCapabilities", "GetHostname", "GetDNS", "GetNTP",
                   "GetNetworkInterfaces", "GetDiscoveryMode", "GetWsdlUrl"} -> Constant
    [] OTHER -> Fault("ter:ActionNotSupported")

handleMediaService(action, q, cfg) ==
  CASE action = "GetProfiles" -> HandleGetProfiles(cfg)
    [] action = "GetProfile" -> HandleGetProfile(q, cfg)
    [] action = "GetStreamUri" -> HandleGetStreamUri(q, cfg)
    [] action = "GetSnapshotUri" -> HandleGetSnapshotUri(q, cfg)
    [] action = "GetVideoSources" -> HandleGetVideoSources(cfg)
    [] action = "GetVideoSourceConfigurations" -> HandleGetVideoSourceConfigurations(cfg)
    [] action = "GetVideoSourceConfiguration" -> HandleGetVideoSourceConfiguration(q, cfg)
    [] action = "GetVideoEncoderConfigurations" -> HandleGetVideoEncoderConfigurations(cfg)
    [] action = "GetVideoEncoderConfiguration" -> HandleGetVideoEncoderConfiguration(q, cfg)
    [] action = "GetVideoEncoderConfigurationOptions" -> HandleGetVideoEncoderConfigurationOptions(q, cfg)
    [] action = "GetAudioSources" -> HandleGetAudioSources(cfg)
    [] action = "GetAudioSourceConfigurations" -> HandleGetAudioSourceConfigurations(cfg)
    [] action = "GetAudioEncoderConfigurations" -> HandleGetAudioEncoderConfigurations(cfg)
    [] action = "GetAudioEncoderConfiguration" -> HandleGetAudioEncoderConfiguration(q, cfg)
    [] action = "GetServiceCapabilities" -> Constant
    [] OTHER -> Fault("ter:ActionNotSupported")

handlePTZService(action, q, cfg) ==
  CASE action = "GetNodes" -> HandleGetNodes(cfg)
    [] action = "GetNode" -> HandleGetNode(q, cfg)
    [] action = "GetConfigurations" -> HandleGetConfigurations(cfg)
    [] action = "GetConfiguration" -> HandleGetConfiguration(q, cfg)
    [] action = "GetConfigurationOptions" -> HandleGetConfigurationOptions(q)
    [] action = "GetServiceCapabilities" -> Constant
    [] OTHER -> Fault("ter:ActionNotSupported")
-----------------------------------------------------------------------------
(* The configurations the properties range over, as settings.json may hold *)
(* them.                                                                   *)

MainStream ==
  [token |-> "Profile_1", source |-> Plain("generate"), path |-> "blank",
   codec |-> Plain("H264"), width |-> 1920, height |-> 1080, fps |-> 30, gop |-> 30,
   kbps |-> 4000, rateMode |-> Plain("CBR"), pattern |-> Plain(""), osd |-> FALSE,
   clock |-> FALSE, noise |-> FALSE, box |-> FALSE,
   audio |-> [enabled |-> TRUE, mode |-> Plain("time_signal"), codec |-> Plain("AAC"),
              kbps |-> 128, rate |-> 44100]]

SubStream ==
  [MainStream EXCEPT !.token = "Profile_2", !.width = 1280, !.height = 720, !.fps = 15,
                     !.kbps = 1000, !.rateMode = Plain("VBR"),
                     !.audio.mode = Plain("silent"), !.audio.kbps = 64]

PictureSettings ==
  {[SubStream EXCEPT !.codec = codec, !.width = size[1], !.height = size[2], !.fps = fps,
                   !.gop = gop, !.kbps = kbps, !.source = source, !.path = path] :
     codec \in Text(validVideoCodecs \cup {"MPEG4"}),
     size \in {<<640, 480>>, <<0, 0>>, <<0, 480>>, <<-2, -2>>, <<7681, 480>>},
     fps \in {-1, 0, 240}, gop \in {0, 1000}, kbps \in {0, 200001, 200000},
     source \in Text(validSourceModes), path \in {"blank", "missing", "present"}}

SoundSettings ==
  {[SubStream EXCEPT !.audio = [enabled |-> enabled, mode |-> mode, codec |-> codec,
                              kbps |-> kbps, rate |-> rate]] :
     enabled \in BOOLEAN, mode \in Text(validAudioModes), codec \in Text(validAudioCodecs),
     kbps \in {0, 64, 1025}, rate \in {-1, 0, 8000, 192000}}

Server ==
  [rtsp |-> 8554, http |-> 8080, onvif |-> 3702, auth |-> Plain("digest"), user |-> "admin",
   pass |-> "admin1234", log |-> Plain(""), device |-> [model |-> "MC-Pro-S"]]

Configuration(profiles, ptz) == [server |-> Server, profiles |-> profiles, ptz |-> ptz]

DefaultConfig == Configuration(<<MainStream, SubStream>>, [enabled |-> TRUE, node |-> "PTZNode_1"])

\* One profile of any settings; or some tokens in any order, each with sound or
\* without it, with and without PTZ.
OneProfile ==
  {[DefaultConfig EXCEPT !.profiles = <<p>>] : p \in PictureSettings \cup SoundSettings}
ManyProfiles ==
  UNION {{Configuration([i \in 1 .. n |-> [SubStream EXCEPT !.token = token[i], !.audio.enabled = sound[i]]],
                        [enabled |-> enabled, node |-> node]) :
            token \in [1 .. n -> Token], sound \in [1 .. n -> BOOLEAN], enabled \in BOOLEAN, node \in Node} :
         n \in 1 .. MaxProfiles}

\* What the program holds: settings of these types that were let in, whose tokens
\* match a pattern, which an empty one does not.
Settings ==
  [token : STRING \ {Absent}, source : Text(STRING), path : STRING, codec : Text(STRING),
   width : Int, height : Int, fps : Int, gop : Int, kbps : Int, rateMode : Text(STRING),
   pattern : Text(STRING), osd : BOOLEAN, clock : BOOLEAN, noise : BOOLEAN, box : BOOLEAN,
   audio : [enabled : BOOLEAN, mode : Text(STRING), codec : Text(STRING), kbps : Int, rate : Int]]

Configured ==
  /\ config.profiles \in Seq(Settings)
  /\ Validate(config)

\* The configuration changes as a whole, to any other that is let in.
ConfigSpec == Configured /\ [][Configured']_config

-----------------------------------------------------------------------------
(* Properties.                                                             *)

\* What a client can list, and the answers it gets by asking on with a handle.
Listed(cfg) ==
  UNION {HandleGetProfiles(cfg).handles, HandleGetVideoSourceConfigurations(cfg).handles,
         HandleGetVideoEncoderConfigurations(cfg).handles,
         HandleGetAudioSourceConfigurations(cfg).handles,
         HandleGetAudioEncoderConfigurations(cfg).handles,
         HandleGetNodes(cfg).handles, HandleGetConfigurations(cfg).handles}

NoTags ==
  [profile |-> Absent, config |-> Handle(Absent, Absent), node |-> Absent,
   ptzConfig |-> Handle(Absent, Absent)]

AskedWith(h, cfg) ==
  LET named == [NoTags EXCEPT !.config = h]
      profile == [NoTags EXCEPT !.profile = h.token]
      media(actions, q) == {handleMediaService(a, q, cfg) : a \in actions}
  IN CASE h.kind = "profile" ->
            media({"GetProfile", "GetStreamUri", "GetSnapshotUri",
                   "GetVideoEncoderConfigurationOptions"}, profile)
       [] h.kind = "VSC_" -> media({"GetVideoSourceConfiguration"}, named)
       [] h.kind = "VEC_" ->
            media({"GetVideoEncoderConfiguration", "GetVideoEncoderConfigurationOptions"}, named)
       [] h.kind = "ASC_" -> media({"GetAudioSourceConfigurations"}, NoTags)
       [] h.kind = "AEC_" -> media({"GetAudioEncoderConfiguration"}, named)
       [] h.kind = "node" -> {handlePTZService("GetNode", [NoTags EXCEPT !.node = h.token], cfg)}
       [] OTHER -> {handlePTZService("GetConfiguration", [NoTags EXCEPT !.ptzConfig = h], cfg),
                    handlePTZService("GetConfigurationOptions", named, cfg)}

\* Whatever one answer hands out, the others accept: a token a client has listed,
\* of a profile or of any of the configurations inside it, is answered without a
\* fault by every action that takes it, and the answer is about that same thing.
\* The two answers that list the services list the same ones.
HandlesResolve ==
  /\ \A h \in Listed(config) : \A a \in AskedWith(h, config) :
       a.fault = "none" /\ (a.handles # {} => h \in a.handles)
  /\ HandleGetCapabilities(config) = HandleGetServices(config)

\* What is described is what is used, or nothing (0) where FFmpeg gets a default.
Agree(described, used, default) ==
  described = used \/ (described = 0 /\ used = default)

Family(encoder) ==
  CASE encoder \in {"alaw", "mulaw"} -> "G711" [] encoder = "g726" -> "G726" [] OTHER -> "AAC"

\* All that differs is listed here: a codec name with blanks around it, a zero, ...
PictureTold(p, picture, ffmpeg) ==
  /\ p.codec.spelt # "blanks" => picture.encoding = ffmpeg.vcodec
  /\ Agree(picture.kbps, ffmpeg.rate.maxrate, 4000)
  /\ picture.encoding = "H264" => Agree(picture.gop, ffmpeg.gop, 30)
  /\ ffmpeg.video.from # "file" =>
       /\ Agree(picture.fps, ffmpeg.video.fps, 30)
       /\ Agree(picture.width, ffmpeg.video.size[1], 1920)
       /\ Agree(picture.height, ffmpeg.video.size[2], 1080)

\* ... the size and rate of a file, and the rates of the telephone codecs.
SoundTold(p, sound, ffmpeg) ==
  /\ p.audio.codec.spelt # "blanks" => sound.encoding = Family(ffmpeg.acodec.codec)
  /\ ffmpeg.acodec.codec = "aac" =>
       /\ Agree(sound.kbps, ffmpeg.acodec.kbps, 128)
       /\ Agree(sound.rate, ffmpeg.acodec.rate, 44100)

\* ONVIF tells a client of the stream what FFmpeg is told to make, for every
\* setting that validation lets in: codec, size, rates and the path to the
\* stream.
DescribedAsEncoded ==
  \A i \in DOMAIN config.profiles :
    LET p == config.profiles[i]
        ffmpeg == BuildFFmpegArgs(p, config.server.rtsp, config.server.http)
        sound == HandleGetAudioEncoderConfiguration([NoTags EXCEPT !.config = Handle("AEC_", p.token)], config)
        uri == HandleGetStreamUri([NoTags EXCEPT !.profile = p.token], config).told
    IN /\ uri.port = ffmpeg.url.port /\ uri.path = ffmpeg.url.path
       /\ PictureTold(p, VideoEncoderConfiguration(p).told, ffmpeg)
       /\ (sound.fault = "none") = (ffmpeg.acodec.codec # "none")
       /\ sound.fault = "none" => SoundTold(p, sound.told, ffmpeg)
=============================================================================
