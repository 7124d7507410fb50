# MockCam: a verification development

MockCam is a virtual network camera in one Go process. It answers ONVIF
(SOAP and WS-Discovery), serves RTSP streams that FFmpeg child processes encode
from a test pattern or a file, shows MJPEG previews and snapshots over HTTP, and
is managed through a web UI, a REST API, WebSockets and MCP. This directory keeps
TLA+ models of the parts where several goroutines, child processes, clients or
restarts meet, the TLC configurations that check them on small instances, and
TLAPS proofs for every size of the instances. Paths and lines below are those of
`src/`.

- [1. The system](#1-the-system)
- [2. Modules](#2-modules)
- [3. How state and actions correspond to the code](#3-how-state-and-actions-correspond-to-the-code)
- [4. Runs, bounds and what they show](#4-runs-bounds-and-what-they-show)
- [5. Fairness](#5-fairness)
- [6. Proofs](#6-proofs)
- [7. Disagreements found](#7-disagreements-found)
- [8. What is not modelled](#8-what-is-not-modelled)
- [9. Plan](#9-plan)

To check: `tlc -config <file>.cfg <module>` for the runs of section 4 and
`tlapm <module>.tla` for `ListLemmas` and each of the seven modules `...Proofs`. `PROJECT.json`
lists the runs, the source lines behind every definition, a mutation of the code model
that breaks each property, the hazards and the theorems.

## 1. The system

```
 REST / web UI / WebSocket / MCP        ONVIF SOAP clients     WS-Discovery probes
            |                                   |                      |
   web.Server, mcpserver                 onvif.Server           onvif.Discovery
            |                                   |
            +--------> camera.Controller        +---> PTZController
                        |    |    |    |                  |
        config.Manager -+    |    |    +- frames.Store    +-> config.Manager
         settings.json   supervisor  rtsp.Server   ^
                             |         ^   |       |  JPEG images cut from a pipe
                             +- FFmpeg-+   |       |
                             |  (RTSP      +-> RTSP readers
                             |  ANNOUNCE)          |
                             +---------------------+
```

### Supervisor (`internal/supervisor/supervisor.go`)

- State: the map token -> worker under `s.mu`; per worker a context, `stopping`,
  the handle of the process under `w.mu`, and the channel `done`; a wait group.
- Operations: `Start`, `RestartProfile`, `StopProfile`, `StopAll`, and
  `runWorkerLoop`, one goroutine per worker that starts FFmpeg, waits for it and starts it again.
- Interacts with: the configuration manager (reads the profile), the operating
  system (fork, SIGTERM, SIGKILL, wait), the frame store (FFmpeg's second
  output), the RTSP server (FFmpeg announces its stream there).
- Hard: a stop racing with a start that has not published its handle yet; FFmpeg
  that ignores SIGTERM; two timers (`stopGrace`, `killGrace`) racing with the exit;
  `StopAll` cancels before it takes the mutex and waits after it gave it back;
  `s.mu` is held during a stop that takes seconds.
- Correct when: a profile has at most one worker, no process outlives its worker
  unreported, nothing runs after `StopAll`, stops and `StopAll` return, a process
  that died is replaced, a hot reload touches one profile only.

### RTSP server (`internal/rtsp/server.go`, `stats.go`, `auth.go`)

- State: `streams`, `publishers`, `readers`, connections and counters under `s.mu`.
- Operations: the gortsplib callbacks (session open and close, DESCRIBE, ANNOUNCE,
  SETUP, PLAY, RECORD), `CloseStream`, `Close`, the statistics.
- Interacts with: FFmpeg as publisher, players as readers, the controller, which
  closes streams on a change.
- Hard: callbacks of different sessions run in parallel; a publisher is replaced
  while the old one's end is still to be reported; SETUP returns a stream that is
  closed before the session is attached to it.
- Correct when: a stream is either served or closed, what is served has a
  publisher, readers of a dead stream are let go, the client list is exact.

### Camera controller (`internal/camera/controller.go`)

- State: none of its own; the rules of which component hears of which change.
- Operations: create, update and delete a profile, factory reset, server settings,
  log level, PTZ and preset calls, snapshots and diagnostics.
- Interacts with: every part that keeps state; REST, MCP and the dashboards call it.
- Hard: it has no lock, so concurrent requests interleave between the calls it
  makes to components that each have theirs; one call of several may fail.
- Correct when: at rest, workers, streams and previews match the configuration.

### Configuration manager (`internal/config`)

- State: the configuration in memory under `m.mu`, `settings.json`.
- Operations: load or initialise at the start, a dozen changes that save at once,
  the save at shutdown.
- Hard: `os.WriteFile` truncates first; writes fail; the process is killed between
  two steps; goroutines that persist PTZ positions outlive the shutdown.
- Correct when: what could be loaded is never older than what was reported saved,
  and a good save repairs what a bad one left.

### PTZ controller (`internal/onvif/ptz.go`, `ptz_service.go`)

- State: position, velocity, `isMoving`, `stopChan` under `c.mu`; a goroutine per
  continuous move; a goroutine per position to persist; presets in the configuration.
- Operations: absolute, relative and continuous moves, stop, home, presets.
- Hard: a tick that waits for the mutex while the move is stopped or replaced;
  closing a channel twice is a panic; positions are persisted in no order; presets
  are read and written back in two lock sections.
- Correct when: a stop stops, a move arrives, replaced goroutines end, names of
  presets (which are ONVIF tokens) stay unique.

### Frames (`internal/frames`) and the MJPEG handlers (`internal/web/api_media.go`)

- State: the splitter's unfinished bytes; per token the latest frame and a channel
  that is closed on the next one.
- Operations: `Write`, `Publish`, `Latest`, `Forget`, `Infos`; handlers that wait.
- Hard: markers cut in two by the pipe; frames without an end; a viewer that is
  between taking the channel and waiting on it; entries that vanish and come back.
- Correct when: images are those of the stream however it is cut, no wakeup is lost, no
  channel is closed twice. (The splitter drops what outgrows `MaxPendingBytes`; that is in the
  model, and no property asks for a bound on memory.)

### FFmpeg command line and validation (`supervisor/ffmpeg_cmd.go`, `config/validate.go`, `types.go`)

- State: none. A profile becomes an argument list; validation says which settings a
  request or `settings.json` may bring.
- Hard: the same settings are read by FFmpeg's table and by ONVIF's, each with its
  own defaults and its own way to compare names.
- Correct when: what ONVIF describes is what FFmpeg is told to make.

### Time signal (`internal/timesignal`)

- State: a cache of synthesised phrases under `s.mu`; per stream the block announced last
  and the phrase being played.
- Operations: a stream per HTTP connection that hands out a chunk ten times a second: tones,
  and in the first seconds of each block of ten the phrase of the coming mark. A phrase
  that is not cached is synthesised by a chain of engines, the chime at its end.
- Hard: the cache is read and written in two lock sections around a synthesis of seconds, which
  ends early when its client leaves; the time was read before it; 16-bit samples.
- Correct when: marks are announced in order and once, a cached phrase stays, voice and tone
  together do not overflow.

### Logger and WebSocket hub (`internal/logger`, `internal/web/api_ws.go`)

- State: a ring of entries and subscribers under `r.mu`; the connected clients under `wsMu`.
- Operations: log, set the level, recent entries; connect, greet, broadcast, disconnect.
- Interacts with: everything that logs, in its own goroutine, sometimes under its own locks;
  the PTZ controller, whose positions are broadcast too.
- Hard: entries are broadcast after the unlock; positions by a goroutine each; a greeting is
  computed before it waits for `wsMu`; writes happen under `wsMu`, one client after the other,
  without a deadline.
- Correct when: a dashboard misses nothing, an older entry or position comes after a newer one
  only when the two overlapped, and the hub's mutex is given back.

### Authentication (`internal/auth`, `internal/rtsp/auth.go`, `onvif/server.go`)

- State: nonces with their age under a mutex, a cleaner goroutine; the account in the
  configuration.
- Operations: Basic, Digest, UsernameToken, none; the 401 that offers a nonce.
- Hard: the account is read several times in a request and may change in between; a
  nonce expires between challenge and answer, beside the cleaner.
- Correct when: nobody gets in on credentials that were never right, a right answer to a live
  nonce is accepted, nonces nobody answers are forgotten.

### ONVIF services (`internal/onvif/server.go`, `device.go`, `media.go`, `ptz_service.go`)

- State: none; each answer renders a copy of the configuration.
- Operations: some forty SOAP actions, of which the PTZ ones change state.
- Hard: clients go from answer to answer by tokens that the answers hand out.
- Correct when: every token handed out is accepted, and descriptions are true.

### WS-Discovery (`internal/onvif/discovery.go`)

- State: one socket, one buffer.
- Operations: the listen loop, a goroutine per probe, `Close`.
- Hard: the goroutine parses its probe where the loop reads the next datagram to.
- Correct when: a probe is answered to its sender and under its own identity.

### Web server, MCP, life cycle

- `internal/web` and `internal/mcpserver` decode requests and call the controller.
- `cmd/mockcam/main.go` starts the parts in order and stops them on a signal.

## 2. Modules

| Module | Models | Composes |
| --- | --- | --- |
| `Supervisor` | supervisor, its goroutines and processes | operating system, configured tokens |
| `WorkerPool` | what a supervisor promises | abstract |
| `SupervisorRefinement` | the mapping of the first to the second | both |
| `SupervisorProofs` | theorems about `Supervisor`, and that it implements `WorkerPool` | `SupervisorRefinement` |
| `RtspServer` | RTSP server and sessions | gortsplib's callbacks |
| `RtspServerProofs` | theorems about `RtspServer` | |
| `Camera` | controller operations | configuration, worker pool, RTSP server, frame store |
| `ConfigManager` | configuration and `settings.json` | the process and its end |
| `Ptz` | PTZ motion | goroutines, persisted position |
| `Presets` | preset operations | REST, MCP and ONVIF entrances |
| `PresetBook` | what presets promise | abstract |
| `Splitter` | MJPEG splitter | a reference reader, byte by byte |
| `FrameStore` | frame store | MJPEG handlers |
| `Access` | who is let in | ONVIF and RTSP doors, nonces, an account that changes |
| `FFmpegCommand` | validation and FFmpeg's arguments | functions, no state |
| `OnvifService` | the answers of the ONVIF services | `FFmpegCommand`, for what they should agree with |
| `Discovery` | WS-Discovery | the network, which repeats and reorders |
| `TimeSignal` | the speaking clock | streams, phrase cache, engines |
| `Events` | logger and WebSocket hub | callers that log, PTZ listeners, dashboards |
| `Lists` | the loops over lists: some of the elements, the sum | used by `Presets`, `OnvifService`, `TimeSignal` |
| `ListLemmas` | lemmas about `Lists` and about loops, by induction | |
| `EventsProofs` | theorems about `Events` | |
| `CameraProofs` | theorems about `Camera` and `ConfigManager` | |
| `PtzProofs` | theorems about `Ptz` and `Presets`, and that the latter implements `PresetBook` | |
| `OnvifProofs` | theorems about `Access`, `Discovery` and `OnvifService` | |
| `MediaProofs` | theorems about `FrameStore`, `Splitter` and `TimeSignal` | |
| `MC...` | symmetry and constants for TLC; `MCOnvif` runs `Access`, `OnvifService` and `Discovery` | |

`Camera` takes the parts it composes by what they promise, and the promise is what
their own modules show: the worker of a profile is a single value because
`Supervisor` implements `WorkerPool` (theorem `SupervisorIsWorkerPool`); a stream is a single value per token because
of `ServedXorClosed` of `RtspServer` (theorem `NoLeakedStream`).

## 3. How state and actions correspond to the code

**Supervisor.** `workers` is `s.workers`; a worker is numbered by its creation, so
that a stale goroutine can be told from the current one. `pc[w]` stands for the
place of the goroutine: `top` is the loop head with its check, `command` the
construction of the command, `forking` inside `cmd.Start`, `publish` between
`Start` and the lock section that stores the handle, `selfKill` the branch that
kills because a stop came first, `wait` inside `cmd.Wait`, `reaped` before the
handle is cleared, `sleep` in `sleepCtx`. `os[w]` is the process: `alive`, `termed`
(SIGTERM was sent, it may ignore it), `killed`, `dead` (a zombie until the wait).
`op` is the holder of `s.mu` with its step in `stopWorker`: `mark` sets `stopping`
and copies the handle, `cancel`, `term`, `grace` (select on `done` and
`stopGrace`), `last` (select on `done` and `killGrace`), `after`. `closing` is
`StopAll`, which cancels without the mutex, then locks, then waits. `ContextKill` is
the goroutine of `exec.CommandContext`, which kills as soon as the context is done.

**RtspServer.** A stream is named by the session that announced it. `state[s]` is
the state of gortsplib refined by how far a callback is: `initialized` is between
`stream.Initialize` and the lock section of `OnAnnounce`, `found` between
`OnSetup`'s return and gortsplib's attachment. `sink[s]` records which stream RECORD
found. Every lock section is one action.

**Camera.** Each request is a program counter over the calls the controller makes.
A profile's settings are a revision number; `run`, `stream` and `frame` hold what the
worker, the served stream and the frame store have. `publisher[p]` is how far the session of
the running FFmpeg is: `announcing` is from its ANNOUNCE on to the lock section of
`OnAnnounce`, which `AnnounceStore` is. When FFmpeg goes away before that, its announcement joins
`late[p]`, and `LateAnnounce` still stores its stream, or it is lost with the connection;
`ended[p]` counts the sessions that stored a stream and whose end `OnSessionClose` has still to
be told. `apart` and `revived` are history: the profiles that one operation is known to leave
apart (section 4), and those whose stream was stored after its FFmpeg had gone.

**ConfigManager.** `saver` is the holder of `m.mu` and says whose save it is;
`opened` is the moment between the truncation and the write. `acked` and `later` are
history: what was last reported as saved and what came into memory since. Changes may come until
the process ends: `web.Server.Close` waits two seconds for requests and goes on, and nobody waits
for a call of MCP.

**Ptz.** One axis stands for three. `chan` numbers `stopChan` by the move it was
made for, `loop[i]` is the goroutine of the i-th move: `select`, or `tick` when the
ticker fired and it waits for the mutex. NaN is one of the inputs and takes the
code's path through `clamp`.

**Presets.** A name is a number n standing for `Preset_n`, the generated names. A
request is split at each access to the configuration: the check of ONVIF, the read
of the list, the read of the position, the write.

**Splitter.** Four byte values are enough: 0xFF, the two marker bytes, another.
`Drain` is the loop of `Write`: `Round` is what it does once, and it is given as many rounds as
there are bytes, and one, which theorem `WriteReturns` shows to be enough.

**FrameStore.** Channels are numbered; `Latest` creates the entry as the code does.
One token, as entries share nothing but the mutex.

**Access.** `pc[c]` is how far the request of a client has come: at one of the two doors
(`onvif`, `rtsp`), in `CheckHTTP` (`header`), in `ValidateUsernameToken` (`token`), with its
credentials parsed (`basic`, `digest`), on its way to a 401 (`challenge`), or at its end. Each
step reads the account once, where the code calls `cfgMgr.Get()`; `seen[c]` is the copy that a
door goes on with. `offered[c]` are the nonces of all the challenges a client has kept, any of
which it may answer. A response of Digest, or of a PasswordDigest, is represented by the
user, the password and the nonce it was made from, as hashes are taken to be free of
collisions. Minutes are the unit of time. `entitled` and `spoiled` are history.

**FFmpegCommand.** A text is a word and its spelling: exact, in the other case, or with
blanks around it, which is what the comparisons of the code tell apart (`==`, `ToUpper`,
`ToUpper` of `TrimSpace`). The argument list is a record; the value of a field is what the
arguments mean.

**OnvifService.** One operator per handler, from the request and the configuration to an
answer: a fault, or the tokens it hands out (`handles`: a prefix of the code and a profile's
token) and what it tells. The dispatch of `server.go` is three operators over the action.

**Discovery.** `buf` is the buffer, `payload[i]` the slice the i-th goroutine was given. While
`ReadFromUDP` copies (`copying`), a goroutine that parses may see the old datagram, the new
one or a mixture: the data race of the code as a choice. The first `n` bytes of a
datagram that is longer than `n` do not parse.

**TimeSignal.** `now` counts seconds since a midnight, which pass whether a stream hands out its chunk or waits
for a slow client to take it; a chunk, the lookup, the synthesis and
the store are actions, and the second in between them is what the engines take.
`engine[s]` is the place in the chain; a failure, a time-out and a context that is
cancelled all go on to the next one, as in `Chain.Synthesize`. Sound is a short sequence
of samples of a small width with Go's arithmetic (`FullScale` stands for 32767; the smallest
sample is its own negation). `ParseWAV`, `Resample`, `TrimSilence` and `Normalize` work on it
as the code does.

**Events.** `pc[w]` is the place of a goroutine: a caller of `Log`, a listener started by a
move, or the handler of a connection. `hub` is the holder of `wsMu` and `todo` the
connections it has still to write to, in any order, as Go ranges over a map. `unread[d]` counts
the messages in the buffers of the sockets; a full one makes the writer wait.
`told`, `sent`, `since`, `before` and `passed` are history; `passed[k][d]` are the positions that
nobody was telling `d` when the k-th move was made.

Action names are the names of the Go functions, with a suffix where one is split. An
operator whose name ends in `_Something` and whose comment says "Mutant" is not
part of a specification: it is a plausible mistake, kept to show which property
would notice it.

## 4. Runs, bounds and what they show

| Run | Module, configuration | States | Shows |
| --- | --- | --- | --- |
| `supervisor` | `MCSupervisor`, `Supervisor.cfg` | 2.7 x 10^6 | safety and the refinement of `WorkerPool` |
| `supervisor_live` | `MCSupervisor`, `SupervisorLive.cfg` | 83 000 | stops return, stopped workers end, dead processes are replaced |
| `rtsp` | `MCRtspServer`, `RtspServer.cfg` | 14 000 | the stream map under three sessions, readers are let go |
| `camera` | `MCCamera`, `Camera.cfg` | 2.4 x 10^6 | two overlapping requests of every kind |
| `config` | `MCConfigManager`, `ConfigManager.cfg` | 106 000 | failed writes, kills, two releases |
| `ptz` | `MCPtz`, `Ptz.cfg` | 78 000 | three continuous moves with stops and other moves |
| `presets` | `MCPresets`, `Presets.cfg` | 100 000 | two requests, refinement of `PresetBook` |
| `splitter` | `MCSplitter`, `Splitter.cfg` | 540 000 | all streams of up to nine bytes in all pieces of up to three |
| `frame_store` | `MCFrameStore`, `FrameStore.cfg` | 55 000 | two viewers, publications, deletions |
| `onvif` | `MCOnvif`, `Onvif.cfg` | 3.2 x 10^6 | credentials and nonces; handles and descriptions for every valid configuration; discovery |
| `time_signal` | `MCTimeSignal`, `TimeSignal.cfg` | 6.1 x 10^6 | two streams across midnight over one cache |
| `events` | `MCEvents`, `Events.cfg` | 1.9 x 10^6 | two callers that log, a move, two dashboards |

The type invariants (`TypeOK`, `AccessTypeOK`, `DiscoveryTypeOK`) say what values the
variables take; they are parts of the inductive invariants and proved with them. They and the inductive invariants of section 6
were checked by TLC on the same instances when they were written; the runs are kept for the
properties.

### The properties and their bounds

`supervisor`: two profiles, three workers. Three workers let one profile be
restarted while the other one runs, and a stopped worker's goroutine be
alive together with its successor. `StoppedProcessIsDoomed` is the race between a
stop and an unpublished handle; `NoOrphanWorker` is "one FFmpeg per profile" with the one
way out the code logs; `NoProcessAfterStopAll` covers restarts that come after or
during `StopAll`; `SignalsStayWithTheStop` is the isolation of a hot reload. `ImplementsWorkerPool` is the refinement.

`supervisor_live`: one profile and three workers without symmetry, since symmetry
is not sound for liveness. Profiles interact through `s.mu` only, and the competing calls
are there with one profile too.

`rtsp`: three sessions over two tokens are a publisher, its successor and a reader, or
two publishers of different tokens. `ServedXorClosed` is the absence of leaks,
`PacketsStayWithToken` relates what RECORD found to what ANNOUNCE stored;
`ReadersLeaveDeadStream` is the promise of the comment on `OnSessionClose`. The sessions are not reused, as in gortsplib.

`camera`: two requests in parallel, two profiles of which one is a default, three
revisions (the first configuration and two changes; a delete uses none up), saves that may fail. Two
callers are all pairs of overlapping operations; two changes are enough for a
create, a delete and another create of one token. `MaxEnded` 1 bounds the FFmpegs that die by
themselves while the end of one is unreported or its announcement unhandled; those that are stopped
come on top. `RestMatchesConfig` says what holds
at rest, `StreamHasCurrentSettings` what players get, also while operations are under way.
The first exempts the profiles in `apart`, which the run shows to be the only
ones: a save that failed after the change was made in memory; a reset that
removed a profile; a create that came between a delete's save and its stop. Of a profile that is
not apart and was deleted, a stream may be left at rest: one that was announced before FFmpeg was
stopped and stored after the delete had closed the stream there was. The run shows that this is the
only way (`revived`) and that the end of its session, which closes it, is still to be reported.

`config`: three settings of which one is the default, two releases, two waiting PTZ
goroutines; every write may fail at the open or at the write, and the process may
be killed anywhere. There is no bound on restarts.

`ptz`: five positions, three continuous moves: the third replaces a move whose
predecessor may still run. `MaxPending` 1 bounds the goroutines that persist one
position; those of different positions overlap freely. Factory resets come at any time, with
no bound.

`presets`: two requests, names 1 and 2, a maximum of one preset. The list still
exceeds the maximum, through the REST API.

`splitter`: nine bytes hold two frames and a start of a third, or one frame that
outgrows the buffer of four bytes and what follows it; pieces of up to three bytes cut each
marker in every way. Frames longer than `MaxPendingBytes` are thrown away or kept
depending on the cuts, as in the code, which is why `ChunksDoNotMatter` holds
up to the first one thrown away; `FramesAreWhole` holds after it as well.

`frame_store`: two viewers, four publications, seven channels. A viewer may hold a
channel of an entry that was forgotten and created again twice.

`onvif`: for the doors, one client whose requests follow one another, two users, two
passwords, "none", "digest" and "basic" in both spellings, two
changes of the account, and clocks that are off by 0, 2 and 3 minutes with a lifetime
of 2: exactly at and beyond the limit. Clients meet only in the nonces and in the account: what
another one does to a request in between is an account that changes and a
cleaner that runs, which are there. Two nonces let a client that was challenged again answer the
older challenge. `AdmittedWereEntitled` is the soundness of both doors under a changing account,
`GoodAnswerAdmitted` that a right answer to a live nonce is accepted, and
`NoncesForgotten` that refusals do not pile up. For the services, `HandlesResolve` and
`DescribedAsEncoded` range over one profile with every combination of the picture's settings
or of the sound's, at and beyond their limits and in each spelling, and over one to three
profiles with any tokens, with and without sound and PTZ: those that `Validate` accepts, 15 000
configurations. No setting of the picture and of the sound meet in the code.
Handlers keep nothing, so the requests interleave under one small configuration and the
datagrams under another. For discovery, two probers and two datagrams of two sizes, readable or
not: a probe is overtaken before, after and while it is parsed. `AnswersRelate`
exempts the probes that were overtaken from the identity, not from the address.

`time_signal`: two streams, each in Japanese or in English, and two engines of which one speaks
Japanese only, so that the chain has two or three places with the chime; with a time-out of
five seconds both engines together miss the mark they were started for. The clock runs
from nine seconds before midnight to five seconds after it, so that the block, the minute,
the hour and the day change. The sounds are silent,
loud, soft, at another rate, and one with the smallest sample; a full scale of 127 keeps the
arithmetic of the code small. `MarksInOrder` has the lateness that slow engines
cause as its bound, `CachedPhraseStays` allows only streams that missed a phrase together to
overwrite one another, and `MixNeverClips` exempts the one sample that `Normalize` does not see.

`events`: two callers and one move at a time make a broadcast wait for another; a ring of one
entry overflows; buffers that hold one message fill up; each dashboard connects once, in
the middle of anything. `DashboardsFollow` is what a dashboard may rely on from its greeting
on; `HubIsReleased` is checked with fairness, without symmetry. One move and one greeting are
told in either order; several listeners that overtake one another are left to the theorem, which
holds for any number of moves.

`CHECK_DEADLOCK FALSE` stands where the program or the bound ends a behaviour: after
`StopAll` every goroutine is done; sessions, viewers and dashboards may all have left; the
discovery loop ends; revisions, seconds, log entries and the stream of bytes are bounded.

## 5. Fairness

- Supervisor: goroutines are scheduled (`WF` of `Goroutine(w)`), timers fire (they
  are disjuncts of `StopWorker`), a killed process dies, `s.mu` is handed to a
  waiter in the end (`SF` of `StopAll`; `sync.Mutex` goes into its starvation mode
  after 1 ms), and a fork does not fail for ever (`SF` of `ForkOk`, without which
  no supervisor could replace a process). No fairness for requests, nor for FFmpeg
  to exit on SIGTERM.
- RtspServer: a callback that has begun returns, and gortsplib ends the sessions
  that read from a closed stream. Clients owe nothing.
- Ptz: tickers fire, goroutines run, persisting goroutines get the mutex; a
  `select` with both channels ready chooses at random, so that a closed channel is
  not overlooked for ever (`SF` of `SeesStop`).
- FrameStore: a handler whose channel is closed runs on. The keepalive timer is
  deliberately not fair: `ViewersCatchUp` holds without it.
- Events: goroutines run (`WF` of `Unlock`, `Write`, `WriteFails`), and a dashboard with
  messages in its buffers reads one or its connection breaks. The last is an assumption about
  the environment and no promise of the code: it sets no deadline, so a peer that keeps
  the connection open and reads nothing holds `wsMu` until TCP gives it up (section 7).
- Camera, ConfigManager, Presets, Splitter, Access, OnvifService, Discovery and TimeSignal are
  checked for safety only.

## 6. Proofs

The theorems hold for all values of the constants under the named assumptions of the modules
(`SupervisorAssumption`, `RtspAssumption`, `CameraAssumption`, `ConfigAssumption`,
`PtzAssumption`, `PresetsAssumption`, `FrameStoreAssumption`, `SplitterAssumption`,
`TimeSignalAssumption`, `AccessAssumption`, `DiscoveryAssumption`, `EventsAssumption`): any
number of profiles, workers, sessions, requests, dashboards and streams, any
settings, positions, byte streams and sounds, any bound. The assumptions say what kind of value a constant is, and
that different things are different: `NaN` is no integer, no nonce is `NoNonce`, no
goroutine that logs is a connection. What an engine of the time signal writes is assumed to be
what `ParseWAV` can be handed: frames of one sample or more (`pcm.go:81` refuses others).
`OnvifService` has no assumption; `ConfigSpec` lets the configuration be, at every moment, any
that `Validate` accepts with tokens that are not empty. That is what the REST API, MCP and ONVIF
let in; of a `settings.json` that somebody has edited by hand a start only warns (`main.go:51`),
and the two theorems say nothing of it.

Each module has an invariant that every step keeps, from which its properties follow. It is
needed because no property is kept by every step on its own: what a step does depends on where
the others are. The inductive invariants stand at the end of the modules; that
every step keeps them is proved with one step per action.

| Component | Theorems | The inductive invariant adds |
| --- | --- | --- |
| supervisor | `StopIsFinal`, `NoOrphan`, `ShutdownIsComplete`, `StopsAreIsolated`, `SupervisorIsWorkerPool` | who will kill the process of a stopped worker |
| RTSP server | `NoLeakedStream`, `PublisherFeedsItsToken`, `ReaderListIsExact`, `ServedHasPublisher` | how a session stands to the stream it announced |
| controller | `OperationsComeToRest`, `PlayersGetCurrentSettings` | who has still to bring a profile in line |
| configuration | `OldSettingsStayGone`, `SaveHealsFile` | that memory is known at every moment it may be written |
| PTZ presets | `PresetNamesUnique`, `PresetsImplementBook` | what a request has read and is about to write |
| PTZ motion | `MovesCanBeStopped`, `PositionIsPersisted`, `StopIsObeyed` | whose channels are closed; what waits to be persisted |
| frame store | `WakeupsAreKept`, `ChannelIsOpen` | that channels and frames are numbered as they are made |
| splitter | `ChunksAreJoined`, `WholeFrames`, `WriteReturns` | that what is kept is the unread end of the stream, without a frame |
| time signal | `MixStaysWithinScale`, `MarksAreInOrder`, `PhrasesStay` | how old the announcement is that a stream prepares |
| authentication | `OnlyTheEntitledEnter`, `RightAnswersEnter`, `NoncesDoNotPileUp` | what a door that has read the account may still conclude |
| ONVIF services | `ListedHandlesResolve`, `SettingsDescribedAsEncoded` | nothing: the answers are functions of the configuration |
| discovery | `ProbersAreAnswered` | what the shared buffer holds for each goroutine |
| logger and hub | `NothingIsMissed` | who will still tell a dashboard what it does not know |

**Supervisor** (`SupervisorProofs`). The safety properties are not inductive: a
stopped worker's process is doomed because of where the stopping call is and what
it has seen of the handle. The invariant `IInv` says so in parts. `ProcessInv` ties
handle and process to the place of the goroutine. `CallInv` ties the call that
holds `s.mu` to the worker it stops. `StopInv` is the heart: a worker that is marked and
waits for a process nobody has killed yet is the target of a call that has copied
its handle and still has SIGKILL to send. If the goroutine published after the mark,
it has killed its process itself; if before, the call has the handle.
`ReturnedInv` and `MapInv` carry the knowledge over the return of the stop, and
`ClosedInv` keeps goroutines of workers created after `StopAll` at the loop head.
`SupervisorIsWorkerPool` is the refinement: the initial states map to initial ones,
and each step of a call, of a goroutine or of a process is a step of the pool or leaves it as it is
(`ProcessMapsToPool`, `StopMapsToPool`, `InstallMapsToPool`, `CallMapsToPool`). It rests on
`IInv`, since a stopped worker that is no longer shown must have become quiet first
(`StoppedIsQuiet`).

**RtspServer** (`RtspServerProofs`). `IInv` adds to the properties `PublisherInv`, how a
session stands to the stream it announced, and `StreamInv`, that the map refers to stored
streams under their own tokens.

**Camera** (`CameraProofs`). `RestMatchesConfig` speaks of the moment when no request
is under way; the invariant says what is owed meanwhile. `PresentInv`: a worker that does not run
what is configured is about to be given it by the holder of `s.mu`, which has read it
(`Swapping`), or some request has still to restart it (`WillRestart`). `AbsentInv`: what is
left of a deleted profile is in the hands of the request that deletes it. `LockInv` is the
mutual exclusion of `s.mu`, without which two requests could install what each of them read;
`DeletedInv` says that a profile cannot come back unnoticed while its stop is outstanding.
The stream of a deleted profile is the one thing nobody may be at hand for: it may be stored
after the delete is over, and then the profile is in `revived`. `PublisherInv` and `StreamInv`, which are
not about requests at all, say whose stream it is: that of the FFmpeg that runs, or of one whose
end is unreported. The first cannot be when the worker is gone, so that such a stream goes with
its session; and `StreamInv` gives `StreamHasCurrentSettings`.

**ConfigManager** (`CameraProofs`). The properties are about the file;
`MemoryIsKnown` says of memory that it holds nothing older than what was last reported as saved, from
the load on, `SaverInv` that an open file has a saver. It is proved for each of the three
strengths of `Crashes`, and with failing writes.

**Ptz** (`PtzProofs`). `ChannelInv` orders the stop channels by their moves, so that a new
move's channel is open; `OnlyCurrentPending` says that without a race only the current
position waits to be persisted, once. That a tick cannot move a stopped camera
(`StopIsObeyed`) follows from `MovingHasLoop`: a camera that moves has an open channel.

**Loops** (`ListLemmas`). A loop over data is a recursive function in the modules, and the
library's induction theorems cannot be used, as they take an operator. What takes their place is
`LeastNumber`: a set of natural numbers that is not empty has a smallest element, from the
well-foundedness of the strict subset relation on finite sets. `SetInduction` states induction
for a set of numbers, and the proofs choose the set of those at which the claim holds.
`LoopRuns` says that a loop which is defined step by step exists and keeps to its type. On these rest
`SelectedComes` (every element that is kept comes from a place of the list, in order),
`SelectedElements`, `SelectedOne` and `TotalIsNumber`.

**Presets** (`PtzProofs`). `NamesUnique` is kept by `Put` and by a removal of any list without
duplicates (`PutPreset`, `WithoutPreset`), so `RequestsInv` need only say that what a request
has read is such a list, however old it is. For `PresetsImplementBook` a write over the list that was
read is an entry or a removal in the book (`BookSaved`, `BookErased`).

**FrameStore** (`MediaProofs`). `ChannelInv` bounds channels by the number made, so that
a new one was never closed; `FrameInv` ties the image to its number.

**Splitter** (`MediaProofs`). The property compares what `Write` searches for with a reader that takes
one byte at a time. `SameReading` says that the reader comes to the same state from the whole stream as
from the bytes that are kept, behind the frames that were emitted; `NoFrameLeft`, that there is none
among those bytes. A round of the loop keeps both, as bytes before a start marker are skipped
(`GarbageIsSkipped`, `TailIsEnough`, with a 0xFF at the end of a piece), bytes up to the first end
marker are collected (`Collects`) and with it they are a frame (`Completes`). A round that
does not return makes the bytes fewer, so that the loop returns. `Suffix` and `Within` trace
what is kept and emitted to its place in the stream, also after bytes were thrown away.

**TimeSignal** (`MediaProofs`). `AnnouncedInv` ties the block that was announced last to a second the
stream has lived through, so that a new block is a later one (`LaterMark`). `PreparedInv` bounds
the age of the announcement that is being prepared by the time-outs of the engines that were
tried. `MissedInv` says that a phrase which is in the cache and is being prepared was missed by both.
`CacheInv` bounds the samples: the loudest sample is the peak, which `Normalize` brings to
`voicePeak` with a division that rounds toward zero (`Scaled`), and nothing else becomes louder.
`Resample` reads no sample beyond the end of the sound (`StaysInside`), for any rates and lengths.

**OnvifService** (`OnvifProofs`). A profile is found by its token, and only that one, since
`Validate` lets no two have the same (`CalledAlone`); one lemma for each kind of handle says which
answers take it and that they return it. `SettingsDescribedAsEncoded` goes through the codecs,
with their spelling, as the two packages read them.

**Access and Discovery** (`OnvifProofs`). `EntitledInv` is about credentials at each place of a
request: right now, and against the copy of the account that a door goes on with. `AnswerInv`,
`OfferInv` and `UnspoiledInv` follow a nonce from the challenge to the answer, and `AgeInv` says
how old the cleaner lets one become. Of discovery, `BufferInv` says
that what a goroutine has still to parse lies in the buffer unless it was overtaken, and
`GoroutineInv` when it may start. `DiscoverySpec` is discovery by itself; in the run its
steps interleave with those of the doors, of which they share nothing.

**Events** (`EventsProofs`). `PositionInv` and `EntriesInv` say what a registered dashboard
knows or will be told, and by whom (`Owes`): a writer that waits for the mutex, or that has it
and this dashboard still to write to. `HubInv` ties the mutex to the one writer,
`MessageInv` to what it brings, `HandlerInv` registration to the place of the handler.
`OrderInv` says that an entry whose call was over when another one was logged is not
broadcast again, from which the order of `sent` follows, and `PassedInv` says the same of a
position and a dashboard, whose greeting counts beside the listeners.

Only model-checked:

- liveness (`StoppedWorkerEnds`, `StopAllReturns`, `DeadProcessIsReplaced`,
  `ReadersLeaveDeadStream`, `OldLoopsEnd`, `MoveArrives`, `ViewersCatchUp`, `HubIsReleased`),
  which needs `ENABLED`.

Every safety property of the runs is a theorem as well.

## 7. Disagreements found

What the code does and a comment, a document or a plain reading of it does not say. None of these
is needed as an assumption: each is in the model as the code has it, and the properties are
stated around it; where a property exempts the case, it says so here.

- The comment of `stopWorker` promises SIGTERM and, after `stopGrace`, SIGKILL
  (`supervisor.go:257`). `w.cancel()` comes first (`supervisor.go:264`), and
  `exec.CommandContext` kills at once when the context is done: FFmpeg is normally killed
  without a chance to end its session (`ContextKill` in `Supervisor`).
- "FactoryReset restores defaults and restarts every worker" (`controller.go:271`): it
  does not stop workers of profiles it has removed; FFmpeg goes on for a profile that no
  longer exists, which `apart` records in `Camera`.
- `main` returns after its last save (`main.go:124`) without waiting for the goroutines that
  persist PTZ positions (`WaitSync` is not called); one of them may have truncated
  `settings.json`, so that settings reported as saved are lost without any crash or I/O error.
  `NoOldSettings` holds all the same: nothing older comes back.
- `web.Server.Close` waits two seconds for requests (`web/server.go:125`), and MCP calls over stdio
  are not waited for: a request may change the configuration while `main` saves it, and be cut off.

Met while modelling and visible in the models:

- A stream is closed by its token: when the end of a replaced publisher is reported
  late, `OnSessionClose` closes the stream of its successor
  (`rtsp/server.go:184`, against the comment at line 172). In `RtspServer` this is
  `OnSessionClose` closing `streams[t]` whoever announced it.
- `OnRecord` takes the stream its token has by then (`rtsp/server.go:282`): a publisher that was
  replaced after its ANNOUNCE records into the stream of its successor.
  `PacketsStayWithToken` says that this is the only way to feed another stream.
- An announcement is handled outside the supervisor's locks (`rtsp/server.go:214`): when `StopProfile`
  stops FFmpeg while its ANNOUNCE is in the socket or before the lock (`rtsp/server.go:229`), the stream
  is stored after `DeleteProfile` has closed the stream of the token (`controller.go:364`), and a
  deleted profile has one, without packets, until gortsplib reports the end of that session. In
  `Camera` this is `LateAnnounce`.
- A create that comes between the save and the stop of a delete of the same token is
  overtaken by the stop: the profile is configured and has no worker (`controller.go:365`).
- A create whose save fails is answered as a conflict (`controller.go:325`;
  `rest_api.md:88` reserves 409 for a token in use).
- `PUT /api/config` overwrites the firmware version with the client's
  (`config.go:163`), until the next start sets it again (`README.md:264`).
- Positions are persisted by one goroutine each, in any order (`ptz.go:59`): after two quick
  moves the older position may be the stored one, against `README.md:297`.
  `PersistsCurrent` holds for moves that do not overlap, which `raced` records.
- Two preset operations that overlap can lose one (`ptz.go:136`, `ptz.go:155`);
  `ImplementsPresetBook` exempts writes over a list that has changed, and `NamesUnique`
  holds all the same.
- The maximum number of presets is checked by ONVIF only (`ptz.go:135` against
  `onvif_profile_s.md:137`).
- `SetPreset` without a name takes the last of the list as the token of the new
  preset (`ptz_service.go:155`); with two requests it may be another one's, and
  after a removal the generated name may be that of a preset that exists, which is
  then overwritten.
- The time signal keeps the chime as the phrase of a minute when the client that asked
  for the synthesis goes away (`timesignal/service.go:78`), until another stream that missed
  the phrase at the same time overwrites it, or for good.
- "Starting later than :03 would let the voice overlap the preview pips" (`phrase.go:12`): the
  window is looked at before the synthesis, so with slow engines a phrase starts after it, and
  even after its own mark. `MarksInOrder` bounds how much.
- The peak levels are chosen "so that the mixed voice + tone never clips" (`tones.go:18`). A
  voice with the sample -32768 is not seen by `Normalize`, and trimmed as silence by
  `TrimSilence` (`pcm.go:163`, `pcm.go:201`), since its negation is itself in 16 bits: what
  remains may be scaled up until `clampSample` cuts it. `extreme` in `TimeSignal` records it, and
  `MixNeverClips` exempts it.
- `wsMu` is held while messages are written without a deadline (`api_ws.go:93`): a dashboard that
  keeps its connection and reads nothing stops every goroutine that logs, some of which hold
  `s.mu` of the RTSP server, until TCP gives the connection up.
- Log entries are broadcast after the ring's mutex is given back (`logger.go:113`): of two
  calls that overlap, the later entry may reach a dashboard first. `DashboardsFollow` promises
  the order of calls that do not overlap.
- Positions come out of order as well: each is broadcast by a goroutine of its own (`ptz.go:55`), and
  the greeting is computed before it waits for `wsMu` (`api_ws.go:35`). A dashboard may be told the
  older of two positions last and show it until the next move. `DashboardsFollow` promises
  that the newer one was told, and that the older was still under way when the camera moved on.
- A goroutine that answers a probe parses the buffer that the loop is reading into
  (`discovery.go:96`): a second datagram gives the answer its own identity or none, and the
  accesses race. The comment at `discovery.go:127` has the reply refer to the probe.
  `AnswersRelate` exempts the probes whose buffer was written over, which `overtaken` records.
- `source_mode` may be "FILE" for validation (`validate.go:45`) and generates a picture all the
  same (`ffmpeg_cmd.go:51` compares exactly).
- A codec with blanks around its name is accepted (`validate.go:25`) and used trimmed
  (`ffmpeg_cmd.go:180`); ONVIF folds its case and does not trim it (`media.go:59`), so that it
  describes another one. A setting of zero is described as zero where FFmpeg gets a default.
  `DescribedAsEncoded` lists both.
- HTTP offers Basic only when `auth_type` is exactly "basic" (`auth.go:97`), RTSP in any case
  (`rtsp/auth.go`), and validation accepts any case: with "Basic" ONVIF's 401 offers Digest.
- `UpdateServer` (`controller.go:258`) changes the ports in the configuration while the listeners
  stay where they are until the next start: ONVIF hands out addresses with the new ports at
  once. The models of `OnvifService` hold the ports fixed.
- A factory reset resets the stored PTZ position, not the controller's (`FactoryReset` in `Ptz`).

## 8. What is not modelled

- FFmpeg itself and the TTS engines, the wave forms of tones and chime, preview rendering, the
  spelling of arguments, of SOAP, JSON and WAV headers, licence texts, the web UI: data without
  control of interest here.
- Status, statistics and diagnostics: they read, or count for being read (`rtsp/stats.go`).
- The pattern a token must match (`validate.go:42`), and ports that change while the program runs.
- The PTZ home position, which is one more coordinate to move to; GotoPreset, likewise.
- The MCP tools and the REST handlers, which decode a request and call the controller. `Camera`,
  `Presets` and `Ptz` let such calls overlap whoever makes them.
- The order in which `main` closes discovery, web server, supervisor and RTSP server, each of
  which ends on its own in its module.
- gortsplib, `os/exec`, `os.WriteFile`, WebSockets and UDP are external and modelled by how the
  code uses them; the definitions concerned are marked so in `PROJECT.json`.

`PROJECT.json` lists every part with its status, and under `hazards` what is hard to test at
its line, with the properties that cover it or the reason why none does. Several have none: what
the code gets wrong by its own words, which section 7 describes, no property of it can promise.

## 9. Plan

Done, in this order, the most important first: `Supervisor` with `WorkerPool`, its invariant
and proofs; `RtspServer` and its proofs; `Camera`; `ConfigManager`; `Ptz` and `Presets` with
`PresetBook`; `Splitter`; `FrameStore`; `Access`; `FFmpegCommand` and `OnvifService`;
`TimeSignal`; `Events`; `Discovery`. Then the proofs of `ConfigManager`, `FrameStore`, `Ptz`,
`Access` and `Discovery`, of the refinement of `WorkerPool`, of `Camera` and of `Events`; then,
over the lemmas about loops, those of `Presets` with the refinement of `PresetBook`, of
`OnvifService`, of `TimeSignal` and of `Splitter`.

Next, models: the order of the shutdown in `main`; the packet meter and counters of the RTSP
server; ports that change under running listeners; the limit on presets over all entrances.
