---------------------------- MODULE CameraProofs ----------------------------
(***************************************************************************)
(* Proofs about the controller and about the configuration manager, which  *)
(* Camera knows by what it promises: Camera for all profiles, defaults,    *)
(* requests and operations, with saves that fail or not, ConfigManager for *)
(* all settings and releases, with writes that fail or not and a process   *)
(* that is killed anywhere or not.                                         *)
(***************************************************************************)
EXTENDS Camera, ConfigManager, TLAPS

-----------------------------------------------------------------------------
(* Camera.                                                                 *)

\* The parts of the invariant that mention the configuration and the requests.
SettingsInv == LockInv /\ DeletedInv /\ PresentInv /\ AbsentInv

\* Before the first operation the invariant holds.
LEMMA InitIInv == Init => IInv
  <1> SUFFICES ASSUME Init PROVE IInv
    OBVIOUS
  <1> USE CameraAssumption DEF Init, Absent, DefaultRev
  <1>1. cfg \in [Profile -> Rev \cup {Absent}] /\ rev \in Rev
    BY DEF Rev
  <1>2. arg \in [Caller -> Profile]
    OBVIOUS
  <1>3. TypeOK
    BY <1>1, <1>2 DEF TypeOK, StateTypeOK, SessionsTypeOK, Steps
  <1>4. SettingsInv
    BY <1>1 DEF SettingsInv, LockInv, DeletedInv, PresentInv, AbsentInv, Swapping, BeingDeleted
  <1>5. PublisherInv /\ StreamInv
    BY DEF PublisherInv, StreamInv
  <1>6. QED
    BY <1>3, <1>4, <1>5 DEF IInv, SettingsInv

-----------------------------------------------------------------------------
(* The types.                                                              *)

\* A change of settings has a revision to give out.
LEMMA NextRev ==
  ASSUME StateTypeOK, rev < MaxRev
  PROVE  rev + 1 \in Rev /\ rev + 1 # Absent
  BY CameraAssumption DEF StateTypeOK, Rev, Absent

\* One more session to be told of.
LEMMA EndType ==
  ASSUME TypeOK, PublisherInv, NEW p \in Profile, EndPublisher(p)
  PROVE  SessionsTypeOK'
  <1> USE DEF TypeOK, StateTypeOK, SessionsTypeOK, PublisherInv, EndPublisher
  <1>1. publisher' \in [Profile -> {"none", "announcing", "announced"}] /\ ended' \in [Profile -> Nat]
    OBVIOUS
  <1>2. late' \in [Profile -> [Rev -> Nat]]
    <2>1. CASE publisher[p] = "announcing"
      <3>1. run[p] \in Rev
        BY <2>1
      <3> DEFINE more == [late[p] EXCEPT ![run[p]] = @ + 1]
      <3>2. more \in [Rev -> Nat]
        BY <3>1
      <3>3. late' = [late EXCEPT ![p] = more]
        BY <2>1
      <3> HIDE DEF more
      <3>4. QED
        BY <3>2, <3>3
    <2>2. QED
      BY <2>1
  <1>3. QED
    BY <1>1, <1>2

\* Operations and the workers they drive keep the types of what they change.
LEMMA OperationStateType ==
  ASSUME StateTypeOK, NEW c \in Caller, Operation(c)
  PROVE  StateTypeOK'
  <1> USE CameraAssumption
      DEF StateTypeOK, Steps, Absent, Goto, poolVars, mediaVars, sessionVars
  <1>1. CASE Create(c)
    BY <1>1, NextRev DEF Create, ChangeAndSave, Refuse
  <1>2. CASE Update(c)
    BY <1>2, NextRev DEF Update, ChangeAndSave, Refuse
  <1>3. CASE Delete(c)
    BY <1>3 DEF Delete, ChangeAndSave, Refuse
  <1>4. CASE Reset(c)
    <2>1. cfg' \in [Profile -> Rev \cup {Absent}] /\ rev' \in Rev
      BY <1>4, NextRev DEF Reset, ChangeAndSave, DefaultRev, Rev
    <2>2. step' \in [Caller -> Steps] /\ apart' \subseteq Profile
      BY <1>4 DEF Reset, ChangeAndSave
    <2>3. QED
      BY <1>4, <2>1, <2>2 DEF Reset, ChangeAndSave
  <1>5. CASE ResetGet(c)
    BY <1>5 DEF ResetGet, Configured
  <1>6. ASSUME NEW p \in Profile, RestartRead(c, p) PROVE StateTypeOK'
    <2>1. todo' \in [Caller -> SUBSET Profile] /\ locked' \in BOOLEAN
      BY <1>6 DEF RestartRead
    <2>2. snapshot' \in [Caller -> Rev \cup {Absent}] /\ step' \in [Caller -> Steps]
      BY <1>6 DEF RestartRead
    <2>3. QED
      BY <1>6, <2>1, <2>2 DEF RestartRead
  <1>7. CASE RestartSwap(c)
    <2>1. run' \in [Profile -> Rev \cup {Absent}] /\ snapshot' \in [Caller -> Rev \cup {Absent}]
      BY <1>7 DEF RestartSwap
    <2>2. step' \in [Caller -> Steps] /\ apart' \subseteq Profile
      BY <1>7 DEF RestartSwap, Settled
    <2>3. QED
      BY <1>7, <2>1, <2>2 DEF RestartSwap
  <1>8. CASE Return(c)
    BY <1>8 DEF Return
  <1>9. CASE DeleteStop(c)
    BY <1>9 DEF DeleteStop
  <1>10. CASE CloseStream(c)
    BY <1>10 DEF CloseStream, Close
  <1>11. CASE Forget(c)
    BY <1>11 DEF Forget
  <1>12. QED
    BY <1>1, <1>2, <1>3, <1>4, <1>5, <1>6, <1>7, <1>8, <1>9, <1>10, <1>11 DEF Operation

\* So they do those of the sessions.
LEMMA OperationType ==
  ASSUME TypeOK, PublisherInv, NEW c \in Caller, Operation(c)
  PROVE  TypeOK'
  <1>1. CASE RestartSwap(c) \/ DeleteStop(c)
    <2>1. arg[c] \in Profile
      BY DEF TypeOK, StateTypeOK
    <2>2. SessionsTypeOK'
      BY <1>1, <2>1, EndType DEF RestartSwap, DeleteStop
    <2>3. QED
      BY <2>2, OperationStateType DEF TypeOK
  <1>2. CASE UNCHANGED <<publisher, late, ended>>
    BY <1>2, OperationStateType DEF TypeOK, SessionsTypeOK
  <1>3. QED
    BY <1>1, <1>2 DEF Operation, Create, Update, Delete, Reset, ResetGet, RestartRead, Return, CloseStream,
       Forget, ChangeAndSave, Refuse, mediaVars, sessionVars

\* What the RTSP server does keeps the types.
LEMMA MediaType ==
  ASSUME TypeOK, PublisherInv, NEW p \in Profile, Media(p)
  PROVE  TypeOK'
  <1> USE CameraAssumption DEF TypeOK, StateTypeOK, SessionsTypeOK, Absent, requestVars, poolVars, sessionVars
  <1>1. CASE Announce(p)
    BY <1>1 DEF Announce
  <1>2. CASE AnnounceStore(p)
    BY <1>2 DEF AnnounceStore
  <1>3. ASSUME NEW r \in Rev, LateAnnounce(p, r) PROVE TypeOK'
    <2> DEFINE fewer == [late[p] EXCEPT ![r] = @ - 1]
    <2>1. fewer \in [Rev -> Nat]
      BY <1>3 DEF LateAnnounce
    <2>2. late' \in [Profile -> [Rev -> Nat]]
      <3>1. late' = [late EXCEPT ![p] = fewer]
        BY <1>3 DEF LateAnnounce
      <3> HIDE DEF fewer
      <3>2. QED
        BY <2>1, <3>1
    <2>3. stream' \in [Profile -> Rev \cup {Absent}] /\ revived' \subseteq Profile /\ ended' \in [Profile -> Nat]
      <3>1. CASE UNCHANGED <<stream, revived, ended>>
        BY <3>1
      <3>2. CASE /\ stream' = [stream EXCEPT ![p] = r] /\ revived' = revived \cup {p}
                 /\ ended' = [ended EXCEPT ![p] = @ + 1]
        BY <3>2
      <3>3. QED
        BY <1>3, <3>1, <3>2 DEF LateAnnounce
    <2>4. QED
      BY <1>3, <2>2, <2>3 DEF LateAnnounce
  <1>4. CASE Publish(p)
    BY <1>4 DEF Publish
  <1>5. CASE Die(p)
    BY <1>5, EndType DEF Die
  <1>6. CASE OnSessionClose(p)
    BY <1>6 DEF OnSessionClose, Close
  <1>7. QED
    BY <1>1, <1>2, <1>3, <1>4, <1>5, <1>6 DEF Media

-----------------------------------------------------------------------------
(* The operations.                                                         *)

\* A change of the configuration that is saved, or fails to be.
LEMMA ChangeStep ==
  ASSUME IInv, NEW c \in Caller, Create(c) \/ Update(c) \/ Delete(c) \/ Reset(c)
  PROVE  SettingsInv'
  <1> USE CameraAssumption
      DEF IInv, TypeOK, StateTypeOK, Steps, Absent, DefaultRev, Goto, poolVars, mediaVars, sessionVars, SettingsInv, LockInv,
          DeletedInv, PresentInv, AbsentInv, Swapping, WillRestart, Deleting, BeingDeleted
  <1>1. CASE Refuse(c) /\ step[c] \in {"create", "update", "delete"}
    BY <1>1 DEF Refuse
  <1>2. CASE Create(c) /\ ~Refuse(c)
    <2>1. /\ step[c] = "create" /\ cfg[arg[c]] = Absent
          /\ cfg' = [cfg EXCEPT ![arg[c]] = rev + 1]
          /\ todo' = [todo EXCEPT ![c] = {arg[c]}]
          /\ UNCHANGED <<arg, locked, snapshot, run, stream, revived, frame>>
      BY <1>2 DEF Create, ChangeAndSave, sessionVars
    <2>2. \/ /\ step' = [step EXCEPT ![c] = "restart"]
             /\ apart' = apart \cup {p \in {arg[c]} : BeingDeleted(p)}
          \/ step' = [step EXCEPT ![c] = "idle"] /\ apart' = apart \cup {p \in Profile : cfg'[p] # cfg[p]}
      BY <1>2 DEF Create, ChangeAndSave
    <2>3. rev + 1 # Absent
      BY DEF Rev
    <2>4. LockInv' /\ DeletedInv'
      BY <2>1, <2>2
    <2>5. PresentInv'
      BY <2>1, <2>2
    <2>6. AbsentInv'
      BY <2>1, <2>2, <2>3
    <2>7. QED
      BY <2>4, <2>5, <2>6
  <1>3. CASE Update(c) /\ ~Refuse(c)
    <2>1. /\ step[c] = "update" /\ cfg[arg[c]] # Absent
          /\ cfg' = [cfg EXCEPT ![arg[c]] = rev + 1]
          /\ todo' = [todo EXCEPT ![c] = {arg[c]}]
          /\ UNCHANGED <<arg, locked, snapshot, run, stream, revived, frame>>
      BY <1>3 DEF Update, sessionVars, ChangeAndSave
    <2>2. \/ step' = [step EXCEPT ![c] = "updateClose"] /\ apart' = apart
          \/ step' = [step EXCEPT ![c] = "idle"] /\ apart' = apart \cup {p \in Profile : cfg'[p] # cfg[p]}
      BY <1>3 DEF Update, ChangeAndSave
    <2>3. rev + 1 # Absent
      BY DEF Rev
    <2>4. LockInv' /\ DeletedInv'
      BY <2>1, <2>2
    <2>5. PresentInv'
      BY <2>1, <2>2
    <2>6. AbsentInv'
      BY <2>1, <2>2, <2>3
    <2>7. QED
      BY <2>4, <2>5, <2>6
  <1>4. CASE Delete(c) /\ ~Refuse(c)
    BY <1>4 DEF Delete, ChangeAndSave
  <1>5. CASE Reset(c)
    <2>1. /\ step[c] = "reset"
          /\ \A p \in Profile : cfg'[p] = IF p \in Default THEN DefaultRev ELSE Absent
          /\ UNCHANGED <<arg, todo, locked, snapshot, run, stream, revived, frame>>
      BY <1>5 DEF Reset, sessionVars, ChangeAndSave
    <2>2. CASE /\ step' = [step EXCEPT ![c] = "resetGet"]
               /\ \A p \in Profile :
                    p \in apart' <=> p \in apart \/ IF p \in Default THEN BeingDeleted(p) ELSE cfg[p] # Absent
      <3>1. LockInv' /\ DeletedInv'
        BY <2>1, <2>2
      <3>2. PresentInv'
        BY <2>1, <2>2
      <3>3. AbsentInv'
        BY <2>1, <2>2
      <3>4. QED
        BY <3>1, <3>2, <3>3
    <2>3. CASE /\ step' = [step EXCEPT ![c] = "idle"]
               /\ \A p \in Profile : p \in apart' <=> p \in apart \/ cfg'[p] # cfg[p]
      <3>1. LockInv' /\ DeletedInv'
        BY <2>1, <2>3
      <3>2. PresentInv'
        BY <2>1, <2>3
      <3>3. AbsentInv'
        BY <2>1, <2>3
      <3>4. QED
        BY <3>1, <3>2, <3>3
    <2>4. QED
      BY <1>5, <2>2, <2>3 DEF Reset, ChangeAndSave
  <1>6. QED
    BY <1>1, <1>2, <1>3, <1>4, <1>5 DEF Create, Update, Delete

\* A restart, and the steps of the requests around it.
LEMMA RestartStep ==
  ASSUME IInv, NEW c \in Caller,
         ResetGet(c) \/ (\E p \in Profile : RestartRead(c, p)) \/ RestartSwap(c) \/ Return(c)
  PROVE  SettingsInv'
  <1> USE CameraAssumption
      DEF IInv, TypeOK, StateTypeOK, Steps, Absent, Goto, poolVars, mediaVars, sessionVars, SettingsInv, LockInv,
          DeletedInv, PresentInv, AbsentInv, Swapping, WillRestart, Deleting, BeingDeleted
  <1>1. CASE ResetGet(c)
    BY <1>1 DEF ResetGet, Configured
  <1>2. ASSUME NEW p \in Profile, RestartRead(c, p) PROVE SettingsInv'
    BY <1>2 DEF RestartRead
  <1>3. CASE RestartSwap(c)
    BY <1>3 DEF RestartSwap, EndPublisher, Settled
  <1>4. CASE Return(c)
    BY <1>4 DEF Return
  <1>5. QED
    BY <1>1, <1>2, <1>3, <1>4

\* What follows on a delete or an update.
LEMMA RemoveStep ==
  ASSUME IInv, NEW c \in Caller, DeleteStop(c) \/ CloseStream(c) \/ Forget(c)
  PROVE  SettingsInv'
  <1> USE CameraAssumption
      DEF IInv, TypeOK, StateTypeOK, Steps, Absent, Goto, poolVars, mediaVars, sessionVars, SettingsInv, LockInv,
          DeletedInv, PresentInv, AbsentInv, Swapping, WillRestart, Deleting, BeingDeleted
  <1>1. CASE DeleteStop(c)
    BY <1>1 DEF DeleteStop, EndPublisher
  <1>2. CASE CloseStream(c)
    BY <1>2 DEF CloseStream, Close
  <1>3. CASE Forget(c)
    BY <1>3 DEF Forget
  <1>4. QED
    BY <1>1, <1>2, <1>3

\* Requests come in, and media flow, without the configuration changing.
LEMMA MediaStep ==
  ASSUME IInv, (\E c \in Caller, op \in Ops, p \in Profile : Request(c, op, p))
               \/ \E p \in Profile : Media(p)
  PROVE  SettingsInv'
  <1> USE CameraAssumption
      DEF IInv, TypeOK, StateTypeOK, Steps, Absent, Goto, requestVars, poolVars, mediaVars, sessionVars, SettingsInv, LockInv,
          DeletedInv, PresentInv, AbsentInv, Swapping, WillRestart, Deleting, BeingDeleted
  <1>1. ASSUME NEW c \in Caller, NEW op \in Ops, NEW p \in Profile, Request(c, op, p) PROVE SettingsInv'
    BY <1>1 DEF Request
  <1>2. ASSUME NEW p \in Profile, Announce(p) \/ AnnounceStore(p) PROVE SettingsInv'
    BY <1>2 DEF Announce, AnnounceStore, PublisherInv
  <1>3. ASSUME NEW p \in Profile, NEW r \in Rev, LateAnnounce(p, r) PROVE SettingsInv'
    BY <1>3 DEF LateAnnounce
  <1>4. ASSUME NEW p \in Profile, Publish(p) \/ Die(p) \/ OnSessionClose(p) PROVE SettingsInv'
    BY <1>4 DEF Publish, Die, OnSessionClose, Close, EndPublisher
  <1>5. QED
    BY <1>1, <1>2, <1>3, <1>4 DEF Media

-----------------------------------------------------------------------------

\* A stream outlives its publisher only until that one's end is reported.
LEMMA StreamStep ==
  ASSUME IInv, Next
  PROVE  PublisherInv' /\ StreamInv'
  <1> USE CameraAssumption
      DEF IInv, TypeOK, StateTypeOK, SessionsTypeOK, Absent, requestVars, poolVars, mediaVars, sessionVars, PublisherInv, StreamInv
  <1> DEFINE Goal == PublisherInv' /\ StreamInv'
  <1>1. ASSUME NEW c \in Caller, Operation(c) PROVE Goal
    <2>1. CASE RestartSwap(c)
      BY <2>1 DEF RestartSwap, EndPublisher, LockInv
    <2>2. CASE DeleteStop(c)
      BY <2>2 DEF DeleteStop, EndPublisher
    <2>3. CASE CloseStream(c)
      BY <2>3 DEF CloseStream, Close
    <2>4. CASE UNCHANGED <<run, stream, publisher, ended>>
      BY <2>4
    <2>5. QED
      BY <1>1, <2>1, <2>2, <2>3, <2>4 DEF Operation, Create, Update, Delete, Reset, ResetGet, RestartRead,
         Return, Forget, ChangeAndSave, Refuse
  <1>2. ASSUME NEW p \in Profile, Announce(p) \/ AnnounceStore(p) PROVE Goal
    BY <1>2 DEF Announce, AnnounceStore
  <1>3. ASSUME NEW p \in Profile, NEW r \in Rev, LateAnnounce(p, r) PROVE Goal
    BY <1>3 DEF LateAnnounce
  <1>4. ASSUME NEW p \in Profile, Publish(p) \/ Die(p) \/ OnSessionClose(p) PROVE Goal
    BY <1>4 DEF Publish, Die, OnSessionClose, Close, EndPublisher
  <1>5. CASE \E c \in Caller, op \in Ops, p \in Profile : Request(c, op, p)
    BY <1>5 DEF Request
  <1>6. QED
    BY <1>1, <1>2, <1>3, <1>4, <1>5 DEF Next, Media

-----------------------------------------------------------------------------

\* The inductive invariant holds in every reachable state.
THEOREM CameraInvariant == Spec => []IInv
  <1>1. IInv /\ [Next]_vars => IInv'
    <2> SUFFICES ASSUME IInv, [Next]_vars PROVE IInv'
      OBVIOUS
    <2>1. CASE Next
      <3>1. TypeOK'
        <4>1. CASE \E c \in Caller, op \in Ops, p \in Profile : Request(c, op, p)
          BY <4>1, CameraAssumption DEF IInv, TypeOK, StateTypeOK, SessionsTypeOK, Request, Goto, Steps, poolVars, mediaVars, sessionVars
        <4>2. QED
          BY <2>1, <4>1, OperationType, MediaType DEF IInv, Next
      <3>2. SettingsInv'
        BY <2>1, ChangeStep, RestartStep, RemoveStep, MediaStep DEF Next, Operation
      <3>3. QED
        BY <2>1, <3>1, <3>2, StreamStep DEF IInv, SettingsInv
    <2>2. CASE UNCHANGED vars
      BY <2>2 DEF vars, requestVars, IInv, TypeOK, StateTypeOK, SessionsTypeOK, LockInv, DeletedInv, PresentInv, AbsentInv, PublisherInv, StreamInv,
         sessionVars, Swapping, WillRestart, Deleting, BeingDeleted
    <2>3. QED
      BY <2>1, <2>2
  <1>2. QED
    BY <1>1, InitIInv, PTL DEF Spec

\* However many creates, updates, deletes and resets overlap and whatever saves
\* fail: at rest every worker runs what is configured, and nothing is left of a
\* profile that was deleted, but for the profiles that are known to be apart and
\* for a stream whose announcement was handled after its FFmpeg had been stopped
\* and whose session has not been reported as ended yet.
THEOREM OperationsComeToRest == Spec => []RestMatchesConfig
  <1>1. IInv => RestMatchesConfig
    <2> SUFFICES ASSUME IInv, Quiet, NEW p \in Profile \ apart
                 PROVE  /\ run[p] = cfg[p]
                        /\ cfg[p] = Absent => ~frame[p]
                        /\ cfg[p] = Absent => stream[p] = Absent \/ (p \in revived /\ ended[p] > 0)
      BY DEF RestMatchesConfig
    <2>1. run[p] = cfg[p] /\ (cfg[p] = Absent => ~frame[p] /\ (stream[p] = Absent \/ p \in revived))
      BY DEF IInv, PresentInv, AbsentInv, Quiet, WillRestart, Swapping, Deleting, BeingDeleted, Absent
    <2>2. cfg[p] = Absent /\ stream[p] # Absent => ended[p] > 0
      BY <2>1 DEF IInv, TypeOK, SessionsTypeOK, StreamInv, PublisherInv
    <2>3. QED
      BY <2>1, <2>2
  <1>2. QED
    BY <1>1, CameraInvariant, PTL

\* Once the ends of all earlier publishers are reported, the stream that players
\* are served is the one of the worker that runs.
THEOREM PlayersGetCurrentSettings == Spec => []StreamHasCurrentSettings
  <1>1. IInv => StreamHasCurrentSettings
    BY DEF IInv, StreamInv, StreamHasCurrentSettings
  <1>2. QED
    BY <1>1, CameraInvariant, PTL

-----------------------------------------------------------------------------
(* ConfigManager.                                                          *)

\* A machine is found with a file it can load, or with none.
LEMMA ManagerInitInv == ManagerInit => ManagerInv
  <1> SUFFICES ASSUME ManagerInit PROVE ManagerInv
    OBVIOUS
  <1>1. ManagerTypeOK
    <2>1. mem \in Config /\ disk \in Config /\ disk.set \in Setting
      BY DEF ManagerInit, Config
    <2>2. acked \subseteq Setting
      BY <2>1 DEF ManagerInit
    <2>3. async \in 0 .. MaxAsync
      BY ConfigAssumption DEF ManagerInit
    <2>4. QED
      BY <2>1, <2>2, <2>3 DEF ManagerInit, ManagerTypeOK
  <1>2. SaverInv /\ MemoryIsKnown /\ NoOldSettings /\ SaveHeals
    BY DEF ManagerInit, SaverInv, MemoryIsKnown, NoOldSettings, SaveHeals
  <1>3. QED
    BY <1>1, <1>2 DEF ManagerInv

\* A start, with whatever an earlier process has left behind.
LEMMA LoadStep ==
  ASSUME ManagerInv, (\E r \in Release : Start(r)) \/ LoadAbsent \/ LoadTorn \/ LoadFile
  PROVE  ManagerInv'
  <1> USE ConfigAssumption DEF ManagerInv, ManagerTypeOK, Config, SaverInv, MemoryIsKnown, NoOldSettings, SaveHeals,
          historyVars
  <1>1. ASSUME NEW r \in Release, Start(r) PROVE ManagerInv'
    BY <1>1 DEF Start
  <1>2. CASE LoadAbsent
    BY <1>2 DEF LoadAbsent, Defaults
  <1>3. CASE LoadTorn
    BY <1>3 DEF LoadTorn
  <1>4. CASE LoadFile
    <2>1. mem' \in Config /\ mem'.set = disk.set /\ (disk.fw = release => mem' = disk)
      BY <1>4 DEF LoadFile
    <2>2. disk.set \in acked \cup later
      BY <1>4 DEF LoadFile
    <2>3. CASE disk.fw = release
      BY <1>4, <2>1, <2>2, <2>3 DEF LoadFile
    <2>4. CASE disk.fw # release
      BY <1>4, <2>1, <2>2, <2>4 DEF LoadFile
    <2>5. QED
      BY <2>3, <2>4
  <1>5. QED
    BY <1>1, <1>2, <1>3, <1>4

\* A change in memory, of the settings or of the PTZ position.
LEMMA SettingChangeStep ==
  ASSUME ManagerInv, UpdateServerConfig \/ ChangeList \/ ResetToDefaults \/ Move \/ UpdatePTZ
  PROVE  ManagerInv'
  <1> USE ConfigAssumption DEF ManagerInv, ManagerTypeOK, Config, SaverInv, MemoryIsKnown, NoOldSettings, SaveHeals,
          historyVars
  <1>1. ASSUME NEW new \in Config, Change(new) PROVE ManagerInv'
    BY <1>1 DEF Change
  <1>2. CASE UpdateServerConfig
    BY <1>1, <1>2 DEF UpdateServerConfig
  <1>3. ASSUME NEW set \in Setting, Change([mem EXCEPT !.set = set]) PROVE ManagerInv'
    <2>1. [mem EXCEPT !.set = set] \in Config
      OBVIOUS
    <2>2. QED
      BY <1>1, <1>3, <2>1
  <1>4. CASE ResetToDefaults
    <2>1. Defaults \in Config
      BY DEF Defaults
    <2>2. QED
      BY <1>1, <1>4, <2>1 DEF ResetToDefaults
  <1>5. CASE Move
    BY <1>5 DEF Move
  <1>6. CASE UpdatePTZ
    BY <1>6 DEF UpdatePTZ
  <1>7. QED
    BY <1>2, <1>3, <1>4, <1>5, <1>6 DEF ChangeList

\* One step of a save, which may fail at each of them.
LEMMA SaveStep ==
  ASSUME ManagerInv, OpenFile \/ OpenFails \/ WriteFile \/ WriteFails
  PROVE  ManagerInv'
  <1> USE ConfigAssumption DEF ManagerInv, ManagerTypeOK, Config, SaverInv, MemoryIsKnown, NoOldSettings, SaveHeals,
          historyVars
  <1>1. CASE OpenFile
    BY <1>1 DEF OpenFile
  <1>2. CASE OpenFails
    BY <1>2 DEF OpenFails, SaveEnds
  <1>3. CASE WriteFile
    BY <1>3 DEF WriteFile, SaveEnds
  <1>4. CASE WriteFails
    BY <1>4 DEF WriteFails, SaveEnds
  <1>5. QED
    BY <1>1, <1>2, <1>3, <1>4

\* The end of the process, asked for or not.
LEMMA EndStep ==
  ASSUME ManagerInv, Shutdown \/ Save \/ MainReturns \/ Crash
  PROVE  ManagerInv'
  <1> USE ConfigAssumption DEF ManagerInv, ManagerTypeOK, Config, SaverInv, MemoryIsKnown, NoOldSettings, SaveHeals,
          historyVars
  <1>1. CASE Shutdown
    BY <1>1 DEF Shutdown
  <1>2. CASE Save
    BY <1>2 DEF Save
  <1>3. CASE ProcessEnds
    <2>1. file' \in {file, "empty", "torn"}
      BY <1>3 DEF ProcessEnds
    <2>2. async' \in 0 .. MaxAsync
      BY <1>3 DEF ProcessEnds
    <2>3. QED
      BY <1>3, <2>1, <2>2 DEF ProcessEnds
  <1>4. QED
    BY <1>1, <1>2, <1>3 DEF MainReturns, Crash

\* The inductive invariant holds in every reachable state.
THEOREM ConfigInvariant == ManagerSpec => []ManagerInv
  <1>1. ManagerInv /\ [ManagerNext]_managerVars => ManagerInv'
    <2> SUFFICES ASSUME ManagerInv, [ManagerNext]_managerVars PROVE ManagerInv'
      OBVIOUS
    <2>1. CASE ManagerNext
      BY <2>1, LoadStep, SettingChangeStep, SaveStep, EndStep DEF ManagerNext
    <2>2. CASE UNCHANGED managerVars
      BY <2>2 DEF managerVars, ManagerInv, ManagerTypeOK, Config, SaverInv, MemoryIsKnown, NoOldSettings, SaveHeals
    <2>3. QED
      BY <2>1, <2>2
  <1>2. QED
    BY <1>1, ManagerInitInv, PTL DEF ManagerSpec

\* Wherever the process is killed and whatever write fails, a file that can be
\* loaded never holds settings older than the ones last reported as saved.
THEOREM OldSettingsStayGone == ManagerSpec => []NoOldSettings
  <1>1. ManagerInv => NoOldSettings
    BY DEF ManagerInv
  <1>2. QED
    BY <1>1, ConfigInvariant, PTL

\* After a save that succeeds the file is what is in memory, whatever it was before.
THEOREM SaveHealsFile == ManagerSpec => []SaveHeals
  <1>1. ManagerInv => SaveHeals
    BY DEF ManagerInv
  <1>2. QED
    BY <1>1, ConfigInvariant, PTL

=============================================================================
