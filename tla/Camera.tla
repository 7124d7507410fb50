------------------------------- MODULE Camera -------------------------------
(***************************************************************************)
(* The controller (src/internal/camera/controller.go) composed with the    *)
(* parts it drives: the configuration manager, the supervisor, the RTSP    *)
(* server and the frame store.  REST and MCP handlers call the controller  *)
(* concurrently; it has no lock of its own, so its operations interleave   *)
(* between the calls they make.                                            *)
(*                                                                         *)
(* The parts appear by what they promise.  A profile's settings are a      *)
(* revision number.  The supervisor is the worker pool of WorkerPool:      *)
(* RestartProfile holds s.mu from reading the profile to installing the    *)
(* new worker, and the stops it waits for all succeed in time.  The RTSP   *)
(* server learns of FFmpeg through its session, later than FFmpeg acts: as *)
(* in RtspServer an announcement is handled in two steps, the second of    *)
(* which may come when its FFmpeg is gone and even stopped for good, and   *)
(* the end of a session is reported after that.                            *)
(***************************************************************************)
EXTENDS Naturals, FiniteSets

CONSTANTS
  Profile,     \* profile tokens
  Default,     \* the tokens of DefaultConfig()
  Caller,      \* concurrent REST and MCP requests
  Ops,         \* the operations they call
  SaveFails,   \* whether writing settings.json may fail
  MaxRev,      \* bound: revisions of profile settings
  MaxEnded     \* bound: FFmpegs of a profile that died by themselves unreported

ASSUME CameraAssumption ==
  /\ Default \subseteq Profile /\ Default # {}
  /\ Ops \subseteq {"create", "update", "delete", "reset"}
  /\ SaveFails \in BOOLEAN
  /\ MaxRev \in Nat \ {0} /\ MaxEnded \in Nat

Rev == 1 .. MaxRev
Absent == 0
DefaultRev == 1

VARIABLES
  cfg,        \* the configuration in memory: revision of each profile
  rev,        \* revisions given out
  step,       \* step[c]: what request c does next
  arg,        \* arg[c]: its profile
  todo,       \* todo[c]: profiles it has still to restart
  locked,     \* s.mu is held by a RestartProfile
  snapshot,   \* snapshot[c]: revision of the profile that c's call has read
  run,        \* revision the installed worker of each profile runs
  stream,     \* revision of the stream served for each profile
  publisher,  \* session of the FFmpeg that runs: "none", "announcing", "announced"
  late,       \* late[p][r]: FFmpegs gone whose announcement of r is still to be handled
  ended,      \* publisher sessions of the profile that ended unreported
  revived,    \* history: profiles whose stream was stored after its FFmpeg had gone
  frame,      \* the frame store has a frame of the profile
  apart       \* history: profiles whose worker and settings an operation left apart

requestVars == <<step, arg, todo>>
sessionVars == <<stream, publisher, late, ended, revived>>
vars == <<cfg, rev, requestVars, locked, snapshot, run, sessionVars, frame, apart>>
mediaVars == <<run, sessionVars, frame>>
poolVars == <<locked, snapshot>>

Steps == {"idle", "create", "update", "updateClose", "delete", "deleteStop", "deleteClose",
          "deleteForget", "reset", "resetGet", "restart", "swap"}
Configured == {p \in Profile : cfg[p] # Absent}
Quiet == \A c \in Caller : step[c] = "idle"

Goto(c, s) == step' = [step EXCEPT ![c] = s]

\* main() has loaded the defaults and started the supervisor.
Init ==
  /\ cfg = [p \in Profile |-> IF p \in Default THEN DefaultRev ELSE Absent]
  /\ rev = DefaultRev
  /\ step = [c \in Caller |-> "idle"]
  /\ arg \in [Caller -> {CHOOSE p \in Default : TRUE}]
  /\ todo = [c \in Caller |-> {}]
  /\ locked = FALSE
  /\ snapshot = [c \in Caller |-> Absent]
  /\ run = cfg
  /\ stream = [p \in Profile |-> Absent]
  /\ publisher = [p \in Profile |-> "none"]
  /\ late = [p \in Profile |-> [r \in Rev |-> 0]]
  /\ ended = [p \in Profile |-> 0]
  /\ revived = {}
  /\ frame = [p \in Profile |-> FALSE]
  /\ apart = {}

Request(c, op, p) ==
  /\ step[c] = "idle" /\ op \in Ops /\ rev < MaxRev
  /\ Goto(c, op)
  /\ arg' = [arg EXCEPT ![c] = p]
  /\ UNCHANGED <<cfg, rev, todo, poolVars, mediaVars, apart>>

-----------------------------------------------------------------------------
(* The configuration manager: every change is made in memory first and     *)
(* then saved, under its mutex.  A save that fails is reported, the change *)
(* in memory stays.                                                        *)

BeingDeleted(p) == \E c \in Caller : step[c] = "deleteStop" /\ arg[c] = p

\* c sets the configuration to new and goes to next, or gives up when the save
\* fails; the workers are as before then.  left are the profiles that next will
\* not bring in line again.
ChangeAndSave(c, new, next, left) ==
  /\ cfg' = new
  /\ \/ Goto(c, next) /\ apart' = apart \cup left
     \/ /\ SaveFails /\ Goto(c, "idle")
        /\ apart' = apart \cup {p \in Profile : new[p] # cfg[p]}
  /\ UNCHANGED <<arg, poolVars, mediaVars>>

Refuse(c) ==
  /\ Goto(c, "idle")
  /\ UNCHANGED <<cfg, rev, arg, todo, poolVars, mediaVars, apart>>

\* CreateProfile.  The stop of an earlier delete may still be to come.
Create(c) ==
  /\ step[c] = "create"
  /\ \/ cfg[arg[c]] # Absent /\ Refuse(c)
     \/ /\ cfg[arg[c]] = Absent
        /\ rev < MaxRev /\ rev' = rev + 1
        /\ todo' = [todo EXCEPT ![c] = {arg[c]}]
        /\ ChangeAndSave(c, [cfg EXCEPT ![arg[c]] = rev + 1], "restart",
                         {p \in {arg[c]} : BeingDeleted(p)})

Update(c) ==
  /\ step[c] = "update"
  /\ \/ cfg[arg[c]] = Absent /\ Refuse(c)
     \/ /\ cfg[arg[c]] # Absent
        /\ rev < MaxRev /\ rev' = rev + 1
        /\ todo' = [todo EXCEPT ![c] = {arg[c]}]
        /\ ChangeAndSave(c, [cfg EXCEPT ![arg[c]] = rev + 1], "updateClose", {})

\* DeleteProfile.  The last profile stays, whatever token is asked for.
Delete(c) ==
  /\ step[c] = "delete"
  /\ \/ (Cardinality(Configured) <= 1 \/ cfg[arg[c]] = Absent) /\ Refuse(c)
     \/ /\ Cardinality(Configured) > 1 /\ cfg[arg[c]] # Absent
        /\ UNCHANGED <<rev, todo>>
        /\ ChangeAndSave(c, [cfg EXCEPT ![arg[c]] = Absent], "deleteStop", {})

\* FactoryReset, up to the save; then it reads the profiles to restart.  Nothing
\* stops the worker of a profile that is no default.  It uses a revision up only
\* to bound the number of resets.
Reset(c) ==
  /\ step[c] = "reset"
  /\ rev < MaxRev /\ rev' = rev + 1
  /\ UNCHANGED todo
  /\ ChangeAndSave(c, [p \in Profile |-> IF p \in Default THEN DefaultRev ELSE Absent],
                   "resetGet", {p \in Profile : IF p \in Default THEN BeingDeleted(p) ELSE cfg[p] # Absent})

ResetGet(c) ==
  /\ step[c] = "resetGet"
  /\ todo' = [todo EXCEPT ![c] = Configured]
  /\ Goto(c, "restart")
  /\ UNCHANGED <<cfg, rev, arg, poolVars, mediaVars, apart>>

-----------------------------------------------------------------------------
(* The supervisor.                                                         *)

\* The FFmpeg of p goes away, and with it, sooner or later, its session: first its
\* announcement is handled, if that is still to be done.
EndPublisher(p) ==
  /\ publisher' = [publisher EXCEPT ![p] = "none"]
  /\ late' = IF publisher[p] = "announcing" THEN [late EXCEPT ![p][run[p]] = @ + 1] ELSE late
  /\ ended' = IF publisher[p] = "announced" THEN [ended EXCEPT ![p] = @ + 1] ELSE ended

\* The worker of p now runs r: that ends what an earlier operation left apart,
\* unless the settings have moved on or a delete is about to stop it.
Settled(p, r) ==
  apart' = IF cfg[p] = r /\ ~BeingDeleted(p) THEN apart \ {p} ELSE apart

\* Mutant: reads the profile without s.mu.
RestartRead_Unlocked(c, p) ==
  /\ step[c] = "restart" /\ p \in todo[c]
  /\ todo' = [todo EXCEPT ![c] = @ \ {p}]
  /\ \/ cfg[p] = Absent /\ UNCHANGED <<step, arg, poolVars>>
     \/ /\ cfg[p] # Absent
        /\ arg' = [arg EXCEPT ![c] = p]
        /\ snapshot' = [snapshot EXCEPT ![c] = cfg[p]]
        /\ Goto(c, "swap")
        /\ UNCHANGED locked
  /\ UNCHANGED <<cfg, rev, mediaVars, apart>>

\* RestartProfile takes s.mu, reads the profile (an unknown one is an error the
\* callers ignore) and stops the old worker ...
RestartRead(c, p) ==
  /\ step[c] = "restart" /\ p \in todo[c] /\ ~locked
  /\ todo' = [todo EXCEPT ![c] = @ \ {p}]
  /\ \/ cfg[p] = Absent /\ UNCHANGED <<step, arg, poolVars>>
     \/ /\ cfg[p] # Absent
        /\ arg' = [arg EXCEPT ![c] = p]
        /\ locked' = TRUE /\ snapshot' = [snapshot EXCEPT ![c] = cfg[p]]
        /\ Goto(c, "swap")
  /\ UNCHANGED <<cfg, rev, mediaVars, apart>>

\* ... and, once that has gone, installs the new one.
RestartSwap(c) ==
  /\ step[c] = "swap"
  /\ run' = [run EXCEPT ![arg[c]] = snapshot[c]]
  /\ EndPublisher(arg[c])
  /\ locked' = FALSE
  /\ snapshot' = [snapshot EXCEPT ![c] = Absent]
  /\ Settled(arg[c], snapshot[c])
  /\ Goto(c, "restart")
  /\ UNCHANGED <<cfg, rev, arg, todo, stream, revived, frame>>

Return(c) ==
  /\ step[c] = "restart" /\ todo[c] = {}
  /\ Goto(c, "idle")
  /\ UNCHANGED <<cfg, rev, arg, todo, poolVars, mediaVars, apart>>

DeleteStop(c) ==
  /\ step[c] = "deleteStop" /\ ~locked
  /\ run' = [run EXCEPT ![arg[c]] = Absent]
  /\ EndPublisher(arg[c])
  /\ apart' = IF cfg[arg[c]] = Absent THEN apart \ {arg[c]} ELSE apart
  /\ Goto(c, "deleteClose")
  /\ UNCHANGED <<cfg, rev, arg, todo, poolVars, stream, revived, frame>>

-----------------------------------------------------------------------------
(* The RTSP server and the frame store.                                    *)

\* Nothing is served for p any more.
Close(p) ==
  /\ stream' = [stream EXCEPT ![p] = Absent]
  /\ revived' = revived \ {p}

\* Mutants: a deleted profile's frame is not forgotten; its stream stays.
CloseStream_KeepsFrame(c) ==
  /\ \/ step[c] = "updateClose" /\ Goto(c, "restart")
     \/ step[c] = "deleteClose" /\ Goto(c, "idle")
  /\ Close(arg[c])
  /\ UNCHANGED <<cfg, rev, arg, todo, poolVars, run, publisher, late, ended, frame, apart>>
CloseStream_OnUpdate(c) ==
  \/ /\ step[c] = "updateClose" /\ Goto(c, "restart") /\ Close(arg[c])
     /\ UNCHANGED <<cfg, rev, arg, todo, poolVars, run, publisher, late, ended, frame, apart>>
  \/ /\ step[c] = "deleteClose" /\ Goto(c, "deleteForget")
     /\ UNCHANGED <<cfg, rev, arg, todo, poolVars, mediaVars, apart>>

CloseStream(c) ==
  /\ \/ step[c] = "updateClose" /\ Goto(c, "restart")
     \/ step[c] = "deleteClose" /\ Goto(c, "deleteForget")
  /\ Close(arg[c])
  /\ UNCHANGED <<cfg, rev, arg, todo, poolVars, run, publisher, late, ended, frame, apart>>

Forget(c) ==
  /\ step[c] = "deleteForget"
  /\ frame' = [frame EXCEPT ![arg[c]] = FALSE]
  /\ Goto(c, "idle")
  /\ UNCHANGED <<cfg, rev, arg, todo, poolVars, run, sessionVars, apart>>

\* FFmpeg announces its stream: the server has the request to handle, and prepares
\* the stream without its mutex, ...
Announce(p) ==
  /\ run[p] # Absent /\ publisher[p] = "none"
  /\ publisher' = [publisher EXCEPT ![p] = "announcing"]
  /\ UNCHANGED <<cfg, rev, requestVars, poolVars, run, stream, late, ended, revived, frame, apart>>

\* ... which then takes the place of what the token had.
AnnounceStore(p) ==
  /\ publisher[p] = "announcing"
  /\ publisher' = [publisher EXCEPT ![p] = "announced"]
  /\ stream' = [stream EXCEPT ![p] = run[p]] /\ revived' = revived \ {p}
  /\ UNCHANGED <<cfg, rev, requestVars, poolVars, run, late, ended, frame, apart>>

\* So it does when its FFmpeg has gone in the meantime, unless the request is lost
\* with the connection.  Only then the end of the session can be reported.
LateAnnounce(p, r) ==
  /\ late[p][r] > 0
  /\ late' = [late EXCEPT ![p][r] = @ - 1]
  /\ \/ /\ stream' = [stream EXCEPT ![p] = r] /\ revived' = revived \cup {p}
        /\ ended' = [ended EXCEPT ![p] = @ + 1]
     \/ UNCHANGED <<stream, revived, ended>>
  /\ UNCHANGED <<cfg, rev, requestVars, poolVars, run, publisher, frame, apart>>

\* FFmpeg delivers a preview frame, or dies and is started again with the settings
\* its worker was given.
Publish(p) ==
  /\ run[p] # Absent
  /\ frame' = [frame EXCEPT ![p] = TRUE]
  /\ UNCHANGED <<cfg, rev, requestVars, poolVars, run, sessionVars, apart>>

Die(p) ==
  /\ publisher[p] # "none" /\ ended[p] < MaxEnded /\ late[p][run[p]] < MaxEnded
  /\ EndPublisher(p)
  /\ UNCHANGED <<cfg, rev, requestVars, poolVars, run, stream, revived, frame, apart>>

\* Mutant: the callback closes nothing.
OnSessionClose_KeepsStream(p) ==
  /\ ended[p] > 0
  /\ ended' = [ended EXCEPT ![p] = @ - 1]
  /\ UNCHANGED <<cfg, rev, requestVars, poolVars, run, stream, publisher, late, revived, frame, apart>>

\* OnSessionClose of a publisher: closes whatever stream its token has by now.
OnSessionClose(p) ==
  /\ ended[p] > 0
  /\ ended' = [ended EXCEPT ![p] = @ - 1]
  /\ Close(p)
  /\ UNCHANGED <<cfg, rev, requestVars, poolVars, run, publisher, late, frame, apart>>

-----------------------------------------------------------------------------

Operation(c) ==
  \/ Create(c) \/ Update(c) \/ Delete(c) \/ Reset(c) \/ ResetGet(c)
  \/ (\E p \in Profile : RestartRead(c, p)) \/ RestartSwap(c) \/ Return(c)
  \/ DeleteStop(c) \/ CloseStream(c) \/ Forget(c)

Media(p) ==
  \/ Announce(p) \/ AnnounceStore(p) \/ (\E r \in Rev : LateAnnounce(p, r))
  \/ Publish(p) \/ Die(p) \/ OnSessionClose(p)

Next ==
  \/ \E c \in Caller, op \in Ops, p \in Profile : Request(c, op, p)
  \/ \E c \in Caller : Operation(c)
  \/ \E p \in Profile : Media(p)

Spec == Init /\ [][Next]_vars

-----------------------------------------------------------------------------
(* Properties.                                                             *)

\* What the server knows and will be told of publishers.
SessionsTypeOK ==
  /\ publisher \in [Profile -> {"none", "announcing", "announced"}]
  /\ late \in [Profile -> [Rev -> Nat]]
  /\ ended \in [Profile -> Nat]

StateTypeOK ==
  /\ cfg \in [Profile -> Rev \cup {Absent}]
  /\ rev \in Rev
  /\ step \in [Caller -> Steps]
  /\ arg \in [Caller -> Profile]
  /\ todo \in [Caller -> SUBSET Profile]
  /\ locked \in BOOLEAN
  /\ snapshot \in [Caller -> Rev \cup {Absent}]
  /\ run \in [Profile -> Rev \cup {Absent}]
  /\ stream \in [Profile -> Rev \cup {Absent}]
  /\ revived \subseteq Profile
  /\ frame \in [Profile -> BOOLEAN]
  /\ apart \subseteq Profile

TypeOK == StateTypeOK /\ SessionsTypeOK

\* However creates, updates, deletes and resets overlap: when the last of them has
\* returned, every worker runs exactly the settings that are configured for its
\* profile, and a deleted profile has left no worker and no snapshot behind, except
\* where one operation is known to leave them apart: its save failed, a reset
\* removed a profile that is no default, or a profile came back before the stop of
\* its delete.  The next restart or delete mends that.  The stream of a deleted
\* profile is gone as well, but one that the stopped FFmpeg had announced may be
\* stored after the delete has closed what there was: that one stays until the end
\* of its session is reported.
RestMatchesConfig ==
  Quiet => \A p \in Profile \ apart :
    /\ run[p] = cfg[p]
    /\ cfg[p] = Absent => ~frame[p]
    /\ cfg[p] = Absent => stream[p] = Absent \/ (p \in revived /\ ended[p] > 0)

\* Players get the SDP of the settings that run: once the ends of all earlier
\* publishers are reported, a stream with older settings is not served, also while
\* operations are under way.
StreamHasCurrentSettings ==
  \A p \in Profile : ended[p] = 0 /\ stream[p] # Absent => stream[p] = run[p]

-----------------------------------------------------------------------------
(* The inductive invariant.                                                *)

Swapping(c, p) == step[c] = "swap" /\ arg[c] = p
WillRestart(c, p) ==
  step[c] = "resetGet" \/ (step[c] \in {"updateClose", "restart", "swap"} /\ p \in todo[c])
Deleting(c, p) == step[c] \in {"deleteClose", "deleteForget"} /\ arg[c] = p

\* s.mu: one call at a time installs a worker, for settings that it has read.
LockInv ==
  \A c \in Caller : step[c] = "swap" =>
    locked /\ snapshot[c] # Absent /\ \A d \in Caller : step[d] = "swap" => d = c

\* A profile that came back before the stop of its delete is known to be apart.
DeletedInv == \A p \in Profile : cfg[p] # Absent /\ BeingDeleted(p) => p \in apart

\* The worker of a configured profile has its settings, or is being given them, or
\* some request has still to restart it.
PresentInv ==
  \A p \in Profile \ apart : cfg[p] # Absent =>
    \/ \E c \in Caller : WillRestart(c, p)
    \/ \E c \in Caller : Swapping(c, p) /\ snapshot[c] = cfg[p]
    \/ run[p] = cfg[p] /\ \A c \in Caller : ~Swapping(c, p)

\* A profile that is not configured has no worker, and neither frame nor stream
\* unless the request that deleted it has still to remove them, or the stream came
\* late; or its worker is about to be stopped.
AbsentInv ==
  \A p \in Profile \ apart : cfg[p] = Absent =>
    \/ BeingDeleted(p)
    \/ /\ run[p] = Absent /\ \A c \in Caller : ~Swapping(c, p)
       /\ stream[p] = Absent \/ p \in revived \/ \E c \in Caller : Deleting(c, p) /\ step[c] = "deleteClose"
       /\ ~frame[p] \/ \E c \in Caller : Deleting(c, p)

\* A session that is not reported as ended has an FFmpeg that runs.
PublisherInv == \A p \in Profile : publisher[p] # "none" => run[p] # Absent

\* The stream that is served was announced by the FFmpeg that runs, or by one whose
\* end is still to be reported.
StreamInv ==
  \A p \in Profile :
    ended[p] = 0 /\ stream[p] # Absent => publisher[p] = "announced" /\ stream[p] = run[p]

IInv == TypeOK /\ LockInv /\ DeletedInv /\ PresentInv /\ AbsentInv /\ PublisherInv /\ StreamInv

=============================================================================
