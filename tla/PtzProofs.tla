------------------------------ MODULE PtzProofs ------------------------------
(***************************************************************************)
(* Proofs about the PTZ controller: Ptz, for every coordinate space and    *)
(* any number of moves and of goroutines, and Presets, for any requests,   *)
(* names and positions.                                                    *)
(***************************************************************************)
EXTENDS Ptz, Presets, ListLemmas

-----------------------------------------------------------------------------
(* Ptz.                                                                    *)

\* Whatever a client sends, also what is not a number, ends up where the camera can go.
LEMMA TargetsInRange ==
  /\ \A target \in Input : Clamp(target, Lo, Hi) \in Pos
  /\ \A p \in Pos, delta \in Delta : Clamp(Plus(p, delta), Lo, Hi) \in Pos
  /\ \A velocity \in Delta : Clamp(velocity, -1, 1) \in -1 .. 1
  <1> USE PtzAssumption
  <1>1. ASSUME NEW target \in Input PROVE Clamp(target, Lo, Hi) \in Pos
    <2>1. target \in Int \cup {NaN}
      BY DEF Input
    <2>2. QED
      BY <2>1 DEF Clamp, Pos
  <1>2. ASSUME NEW p \in Pos, NEW delta \in Delta PROVE Clamp(Plus(p, delta), Lo, Hi) \in Pos
    <2>1. Plus(p, delta) \in Int \cup {NaN}
      BY DEF Plus, Delta, Pos
    <2>2. QED
      BY <2>1 DEF Clamp, Pos
  <1>3. ASSUME NEW velocity \in Delta PROVE Clamp(velocity, -1, 1) \in -1 .. 1
    <2>1. velocity \in Int \cup {NaN}
      BY DEF Delta
    <2>2. QED
      BY <2>1 DEF Clamp
  <1>4. QED
    BY <1>1, <1>2, <1>3

\* The controller starts where the configuration says.
LEMMA InitIInv == Init => IInv
  <1> SUFFICES ASSUME Init PROVE IInv
    OBVIOUS
  <1> USE PtzAssumption DEF Init
  <1>1. TypeOK
    <2>1. pos \in Pos /\ stored \in Pos /\ vel \in -1 .. 1 /\ chan \in 0 .. MaxMoves
      BY DEF Pos
    <2>2. closed \subseteq 0 .. MaxMoves /\ pending \in [Pos -> 0 .. MaxPending]
      OBVIOUS
    <2>3. moving \in BOOLEAN /\ raced \in BOOLEAN /\ loop \in [Move -> {"none", "select", "tick", "done"}]
      OBVIOUS
    <2>4. QED
      BY <2>1, <2>2, <2>3 DEF TypeOK
  <1>2. ChannelInv /\ MovingHasLoop /\ OnlyCurrentPending /\ PersistsCurrent
    BY DEF ChannelInv, MovingHasLoop, OnlyCurrentPending, PersistsCurrent
  <1>3. QED
    BY <1>1, <1>2 DEF IInv

\* A position that was current until now has been persisted or races with this one.
LEMMA NotifyKeepsTrack ==
  ASSUME IInv, NEW p \in Pos, Notify(p), pos' = p, UNCHANGED stored
  PROVE  /\ pending' \in [Pos -> 0 .. MaxPending] /\ raced' \in BOOLEAN
         /\ OnlyCurrentPending' /\ PersistsCurrent'
  <1> USE PtzAssumption DEF IInv, TypeOK, Notify
  <1>1. pending' \in [Pos -> 0 .. MaxPending]
    OBVIOUS
  <1>2. raced' \in BOOLEAN
    OBVIOUS
  <1>3. ASSUME ~raced' PROVE \A q \in Pos : pending'[q] = IF q = p THEN 1 ELSE 0
    BY <1>3
  <1>4. OnlyCurrentPending'
    BY <1>3 DEF OnlyCurrentPending
  <1>5. PersistsCurrent'
    BY <1>3 DEF PersistsCurrent
  <1>6. QED
    BY <1>1, <1>2, <1>4, <1>5

\* A stop leaves the velocity and the channels well typed.
LEMMA StopTypes ==
  ASSUME TypeOK, StopContinuousMove
  PROVE  closed' \subseteq 0 .. MaxMoves /\ vel' \in -1 .. 1 /\ moving' \in BOOLEAN
  <1>1. closed' \subseteq 0 .. MaxMoves
    BY DEF TypeOK, StopContinuousMove, CloseStopChan
  <1>2. vel' \in -1 .. 1
    BY DEF TypeOK, StopContinuousMove
  <1>3. moving' \in BOOLEAN
    BY DEF StopContinuousMove
  <1>4. QED
    BY <1>1, <1>2, <1>3

\* An absolute or a relative move, a stop, a continuous move and a factory reset.
LEMMA CommandStep ==
  ASSUME IInv, Command
  PROVE  IInv'
  <1> USE PtzAssumption DEF IInv, TypeOK
  <1>1. ASSUME NEW p \in Pos, MoveTo(p) PROVE IInv'
    <2>1. /\ pending' \in [Pos -> 0 .. MaxPending] /\ raced' \in BOOLEAN
          /\ OnlyCurrentPending' /\ PersistsCurrent'
      BY <1>1, NotifyKeepsTrack DEF MoveTo
    <2>2. TypeOK'
      BY <1>1, <2>1, StopTypes DEF MoveTo
    <2>3. ChannelInv' /\ MovingHasLoop'
      BY <1>1 DEF MoveTo, StopContinuousMove, CloseStopChan, ChannelInv, MovingHasLoop, Move
    <2>4. QED
      BY <2>1, <2>2, <2>3
  <1>2. ASSUME NEW target \in Input, AbsoluteMove(target) PROVE IInv'
    BY <1>1, <1>2, TargetsInRange DEF AbsoluteMove
  <1>3. ASSUME NEW delta \in Delta, RelativeMove(delta) PROVE IInv'
    BY <1>1, <1>3, TargetsInRange DEF RelativeMove
  <1>4. ASSUME NEW delta \in Delta, ContinuousMove(delta) PROVE IInv'
    <2>1. vel' \in -1 .. 1
      BY <1>4, TargetsInRange DEF ContinuousMove
    <2>2. TypeOK'
      BY <1>4, <2>1 DEF ContinuousMove, CloseStopChan, Move
    <2>3. ChannelInv' /\ MovingHasLoop'
      BY <1>4 DEF ContinuousMove, CloseStopChan, ChannelInv, MovingHasLoop, Move
    <2>4. OnlyCurrentPending' /\ PersistsCurrent'
      BY <1>4 DEF ContinuousMove, OnlyCurrentPending, PersistsCurrent
    <2>5. QED
      BY <2>2, <2>3, <2>4
  <1>5. CASE Stop
    <2>1. /\ pending' \in [Pos -> 0 .. MaxPending] /\ raced' \in BOOLEAN
          /\ OnlyCurrentPending' /\ PersistsCurrent'
      BY <1>5, NotifyKeepsTrack DEF Stop
    <2>2. TypeOK'
      BY <1>5, <2>1, StopTypes DEF Stop
    <2>3. ChannelInv' /\ MovingHasLoop'
      BY <1>5 DEF Stop, StopContinuousMove, CloseStopChan, ChannelInv, MovingHasLoop, Move
    <2>4. QED
      BY <2>1, <2>2, <2>3
  <1>6. CASE FactoryReset
    <2>1. TypeOK'
      BY <1>6 DEF FactoryReset, Pos
    <2>2. ChannelInv' /\ MovingHasLoop' /\ OnlyCurrentPending' /\ PersistsCurrent'
      BY <1>6 DEF FactoryReset, ChannelInv, MovingHasLoop, OnlyCurrentPending, PersistsCurrent
    <2>3. QED
      BY <2>1, <2>2
  <1>7. QED
    BY <1>2, <1>3, <1>4, <1>5, <1>6 DEF Command

\* A step of the goroutine of a continuous move.
LEMMA GoroutineStep ==
  ASSUME IInv, NEW i \in Move, Goroutine(i)
  PROVE  IInv'
  <1> USE PtzAssumption DEF IInv, TypeOK
  <1>1. CASE SeesStop(i)
    BY <1>1 DEF SeesStop, ChannelInv, MovingHasLoop, OnlyCurrentPending, PersistsCurrent
  <1>2. CASE TickFires(i)
    BY <1>2 DEF TickFires, ChannelInv, MovingHasLoop, OnlyCurrentPending, PersistsCurrent
  <1>3. CASE FindsStopped(i)
    BY <1>3 DEF FindsStopped, ChannelInv, MovingHasLoop, OnlyCurrentPending, PersistsCurrent
  <1>4. CASE Tick(i)
    <2>1. pos' \in Pos
      <3>1. pos + vel \in Int
        BY DEF Pos
      <3>2. Clamp(pos + vel, Lo, Hi) \in Pos
        BY <3>1 DEF Clamp, Pos
      <3>3. QED
        BY <1>4, <3>2 DEF Tick
    <2>2. /\ pending' \in [Pos -> 0 .. MaxPending] /\ raced' \in BOOLEAN
          /\ OnlyCurrentPending' /\ PersistsCurrent'
      <3>1. CASE pos' = pos
        BY <1>4, <3>1 DEF Tick, OnlyCurrentPending, PersistsCurrent
      <3>2. CASE pos' # pos
        BY <1>4, <3>2, <2>1, NotifyKeepsTrack DEF Tick
      <3>3. QED
        BY <3>1, <3>2
    <2>3. TypeOK'
      BY <1>4, <2>1, <2>2 DEF Tick
    <2>4. ChannelInv' /\ MovingHasLoop'
      BY <1>4 DEF Tick, ChannelInv, MovingHasLoop
    <2>5. QED
      BY <2>2, <2>3, <2>4
  <1>5. QED
    BY <1>1, <1>2, <1>3, <1>4 DEF Goroutine

\* A goroutine persists its position.
LEMMA UpdateStep ==
  ASSUME IInv, NEW p \in Pos, UpdatePTZ(p)
  PROVE  IInv'
  <1> USE PtzAssumption DEF IInv, TypeOK, UpdatePTZ
  <1>1. TypeOK'
    OBVIOUS
  <1>2. ChannelInv' /\ MovingHasLoop'
    BY DEF ChannelInv, MovingHasLoop
  <1>3. OnlyCurrentPending' /\ PersistsCurrent'
    BY DEF OnlyCurrentPending, PersistsCurrent
  <1>4. QED
    BY <1>1, <1>2, <1>3

\* The inductive invariant holds in every reachable state.
THEOREM PtzInvariant == Spec => []IInv
  <1>1. IInv /\ [Next]_vars => IInv'
    <2> SUFFICES ASSUME IInv, [Next]_vars PROVE IInv'
      OBVIOUS
    <2>1. CASE Next
      BY <2>1, CommandStep, GoroutineStep, UpdateStep DEF Next
    <2>2. CASE UNCHANGED vars
      BY <2>2 DEF vars, IInv, TypeOK, ChannelInv, MovingHasLoop, OnlyCurrentPending, PersistsCurrent
    <2>3. QED
      BY <2>1, <2>2
  <1>2. QED
    BY <1>1, InitIInv, PTL DEF Spec

\* A camera that moves has the goroutine that moves it, with an open stop channel.
THEOREM MovesCanBeStopped == Spec => []MovingHasLoop
  <1>1. IInv => MovingHasLoop
    BY DEF IInv
  <1>2. QED
    BY <1>1, PtzInvariant, PTL

\* Without a race or a reset, what is persisted in the end is where the camera is.
THEOREM PositionIsPersisted == Spec => []PersistsCurrent
  <1>1. IInv => PersistsCurrent
    BY DEF IInv
  <1>2. QED
    BY <1>1, PtzInvariant, PTL

\* Once the current move is stopped, only a new command changes the position: a
\* tick that waited for the mutex finds that the camera does not move, because a
\* camera that moves has an open channel.
THEOREM StopIsObeyed == Spec => StoppedStaysPut
  <1>1. IInv /\ [Next]_vars => [(chan \in closed) /\ pos' # pos => \E p \in Pos : MoveTo(p)]_vars
    <2> SUFFICES ASSUME IInv, Next, chan \in closed, pos' # pos
                 PROVE  \E p \in Pos : MoveTo(p)
      BY DEF vars
    <2> USE PtzAssumption DEF IInv, TypeOK
    <2>1. ASSUME NEW target \in Input, AbsoluteMove(target) PROVE \E p \in Pos : MoveTo(p)
      BY <2>1, TargetsInRange DEF AbsoluteMove
    <2>2. ASSUME NEW delta \in Delta, RelativeMove(delta) PROVE \E p \in Pos : MoveTo(p)
      BY <2>2, TargetsInRange DEF RelativeMove
    <2>3. ~ \E i \in Move : Tick(i)
      BY DEF MovingHasLoop, Tick
    <2>4. QED
      BY <2>1, <2>2, <2>3 DEF Next, Command, Goroutine, ContinuousMove, Stop, FactoryReset,
         SeesStop, TickFires, FindsStopped, UpdatePTZ
  <1>2. QED
    BY <1>1, PtzInvariant, PTL DEF Spec, StoppedStaysPut

-----------------------------------------------------------------------------
(* Presets.                                                                *)

\* A preset is somewhere in a list.
Holds(list, x) == \E i \in 1 .. Len(list) : list[i] = x

\* In a list without duplicates a name leads to the position saved under it.
LEMMA EntryFound ==
  ASSUME NEW list \in Seq(Preset), UniqueNames(list), NEW x, Holds(list, x)
  PROVE  Entry(list, x.name) = x.pos
  <1>1. PICK i \in 1 .. Len(list) : list[i] = x
    BY DEF Holds
  <1>2. DOMAIN list = 1 .. Len(list)
    OBVIOUS
  <1>3. x.name \in Names(list)
    BY <1>1, <1>2 DEF Names
  <1> DEFINE j == CHOOSE k \in DOMAIN list : list[k].name = x.name
  <1>4. j \in DOMAIN list /\ list[j].name = x.name
    BY <1>1, <1>2
  <1>5. j = i
    BY <1>1, <1>2, <1>4 DEF UniqueNames
  <1> QED
    BY <1>1, <1>3, <1>5 DEF Entry

\* A name under which nothing is saved leads nowhere.
LEMMA EntryMissing ==
  ASSUME NEW list \in Seq(Preset), NEW n, \A i \in 1 .. Len(list) : list[i].name # n
  PROVE  Entry(list, n) = Unnamed
  <1>1. n \notin Names(list)
    BY DEF Names
  <1> QED BY <1>1 DEF Entry

\* Two lists that hold the same under a name agree on it.
LEMMA EntrySame ==
  ASSUME NEW list \in Seq(Preset), UniqueNames(list), NEW other \in Seq(Preset), UniqueNames(other),
         NEW n, \A x : x.name = n => (Holds(list, x) <=> Holds(other, x))
  PROVE  Entry(list, n) = Entry(other, n)
  <1>1. CASE \E i \in 1 .. Len(list) : list[i].name = n
    <2>1. PICK i \in 1 .. Len(list) : list[i].name = n
      BY <1>1
    <2>2. Holds(list, list[i])
      BY DEF Holds
    <2>3. Holds(other, list[i])
      BY <2>1, <2>2
    <2> QED BY <2>1, <2>2, <2>3, EntryFound
  <1>2. CASE ~ \E i \in 1 .. Len(list) : list[i].name = n
    <2>1. ASSUME NEW i \in 1 .. Len(other), other[i].name = n PROVE FALSE
      <3>1. Holds(other, other[i])
        BY DEF Holds
      <3>2. Holds(list, other[i])
        BY <2>1, <3>1
      <3> QED BY <1>2, <2>1, <3>2 DEF Holds
    <2> QED BY <1>2, <2>1, EntryMissing
  <1> QED BY <1>1, <1>2

\* Saving keeps names unique, keeps the preset that is saved, and changes nothing
\* under another name.
LEMMA PutPreset ==
  ASSUME NEW list \in Seq(Preset), UniqueNames(list), NEW p \in Preset
  PROVE  /\ Put(list, p) \in Seq(Preset) /\ UniqueNames(Put(list, p))
         /\ Holds(Put(list, p), p)
         /\ \A x : x.name # p.name => (Holds(Put(list, p), x) <=> Holds(list, x))
  <1> DEFINE new == Put(list, p)
  <1>0. DOMAIN list = 1 .. Len(list) /\ Len(list) \in Nat
    OBVIOUS
  <1>1. CASE p.name \in Names(list)
    <2>1. new = [i \in 1 .. Len(list) |-> IF list[i].name = p.name THEN p ELSE list[i]]
      BY <1>0, <1>1 DEF Put
    <2>2. \A i \in 1 .. Len(list) : list[i] \in Preset
      OBVIOUS
    <2> HIDE DEF new
    <2>3. new \in [1 .. Len(list) -> Preset]
      BY <2>1, <2>2
    <2>4. new \in Seq(Preset) /\ Len(new) = Len(list) /\ DOMAIN new = DOMAIN list
      BY <1>0, <2>3
    <2>5. \A i \in 1 .. Len(list) : new[i].name = list[i].name
      BY <2>1
    <2>6. UniqueNames(new)
      BY <1>0, <2>4, <2>5 DEF UniqueNames
    <2>7. PICK k \in 1 .. Len(list) : list[k].name = p.name
      BY <1>0, <1>1 DEF Names
    <2>8. Holds(new, p)
      BY <2>1, <2>4, <2>7 DEF Holds
    <2>9. \A x : x.name # p.name => (Holds(new, x) <=> Holds(list, x))
      BY <2>1, <2>4, <2>5 DEF Holds
    <2> QED BY <2>4, <2>6, <2>8, <2>9 DEF new
  <1>2. CASE p.name \notin Names(list)
    <2>1. new = Append(list, p)
      BY <1>2 DEF Put
    <2>2. new \in Seq(Preset) /\ Len(new) = Len(list) + 1
      BY <2>1
    <2>3. \A i \in 1 .. Len(list) : new[i] = list[i]
      BY <2>1
    <2>4. new[Len(list) + 1] = p
      BY <2>1
    <2>5. \A i \in 1 .. Len(list) : list[i].name # p.name
      BY <1>0, <1>2 DEF Names
    <2> DEFINE n == Len(list)
    <2> HIDE DEF new, n
    <2>6. DOMAIN new = 1 .. n + 1 /\ n \in Nat /\ n + 1 \in 1 .. n + 1
      BY <1>0, <2>2 DEF n
    <2>7. UniqueNames(new)
      <3> SUFFICES ASSUME NEW i \in 1 .. n + 1, NEW j \in 1 .. n + 1, new[i].name = new[j].name PROVE i = j
        BY <2>6 DEF UniqueNames
      <3>1. CASE i \in 1 .. n /\ j \in 1 .. n
        BY <1>0, <2>3, <3>1 DEF UniqueNames, n
      <3>2. CASE i = n + 1 /\ j \in 1 .. n
        BY <2>3, <2>4, <2>5, <3>2 DEF n
      <3>3. CASE i \in 1 .. n /\ j = n + 1
        BY <2>3, <2>4, <2>5, <3>3 DEF n
      <3> QED BY <2>6, <3>1, <3>2, <3>3
    <2>8. Holds(new, p)
      BY <2>2, <2>4, <2>6 DEF Holds, n
    <2>9. ASSUME NEW x, x.name # p.name PROVE Holds(new, x) <=> Holds(list, x)
      <3>1. Holds(list, x) => Holds(new, x)
        BY <1>0, <2>2, <2>3 DEF Holds
      <3>2. ASSUME NEW i \in 1 .. n + 1, new[i] = x PROVE Holds(list, x)
        <4>1. i # n + 1
          BY <2>4, <2>9, <3>2 DEF n
        <4>2. i \in 1 .. n
          BY <2>6, <4>1
        <4> QED BY <2>3, <3>2, <4>2 DEF Holds, n
      <3> QED BY <2>2, <3>1, <3>2 DEF Holds, n
    <2> QED BY <2>2, <2>7, <2>8, <2>9 DEF new
  <1> QED BY <1>1, <1>2

\* Removing keeps names unique and takes away what has the name, and nothing else.
LEMMA WithoutPreset ==
  ASSUME NEW list \in Seq(Preset), UniqueNames(list), NEW n
  PROVE  /\ Without(list, n) \in Seq(Preset) /\ UniqueNames(Without(list, n))
         /\ \A x : Holds(Without(list, n), x) <=> (Holds(list, x) /\ x.name # n)
  <1> DEFINE I == {i \in DOMAIN list : list[i].name # n}
             new == Selected(list, I)
  <1>1. \A i \in 1 .. Len(list) : i \in I <=> list[i].name # n
    OBVIOUS
  <1>2. DOMAIN list = 1 .. Len(list) /\ Without(list, n) = new
    BY DEF Without
  <1> HIDE DEF I
  <1>3. new \in Seq(Preset) /\ \E m : Comes(m, new, list, I, Len(list))
    BY SelectedComes
  <1> HIDE DEF new
  <1>5. PICK m : Comes(m, new, list, I, Len(list))
    BY <1>3
  <1>4. \A x : (\E k \in 1 .. Len(new) : new[k] = x) <=> \E i \in 1 .. Len(list) : i \in I /\ list[i] = x
    BY <1>5 DEF Comes
  <1>6. DOMAIN new = 1 .. Len(new) /\ Len(new) \in Nat
    BY <1>3
  <1>7. UniqueNames(new)
    <2> SUFFICES ASSUME NEW i \in 1 .. Len(new), NEW j \in 1 .. Len(new), new[i].name = new[j].name, i # j
                 PROVE FALSE
      BY <1>6 DEF UniqueNames
    <2>1. m[i] \in 1 .. Len(list) /\ m[j] \in 1 .. Len(list) /\ new[i] = list[m[i]] /\ new[j] = list[m[j]]
      BY <1>5 DEF Comes
    <2>2. m[i] = m[j]
      BY <1>2, <2>1 DEF UniqueNames
    <2>3. i < j \/ j < i
      BY <1>6
    <2>4. m[i] < m[j] \/ m[j] < m[i]
      BY <1>5, <2>3 DEF Comes
    <2> QED BY <2>1, <2>2, <2>4
  <1>8. \A x : Holds(new, x) <=> (Holds(list, x) /\ x.name # n)
    BY <1>1, <1>4 DEF Holds
  <1> QED BY <1>2, <1>3, <1>7, <1>8

\* A request that returns leaves its local variables empty.
LEMMA ReturnKeeps ==
  ASSUME PresetsInv, NEW c \in Caller, Return(c), presets' \in Seq(Preset), UniqueNames(presets'),
         camera' \in Position
  PROVE  PresetsInv'
  <1> USE DEF PresetsInv, PresetsTypeOK, Return, Goto
  <1>1. UniqueNames(<< >>) /\ << >> \in Seq(Preset)
    BY DEF UniqueNames
  <1>2. PresetsTypeOK'
    BY <1>1 DEF Steps, Unnamed, Unread
  <1>3. RequestsInv'
    BY <1>1 DEF RequestsInv
  <1> QED BY <1>2, <1>3 DEF NamesUnique

\* A save has read a list without duplicates and has a name to save under.
LEMMA SavePresetKeeps ==
  ASSUME PresetsInv, NEW c \in Caller, SavePreset(c)
  PROVE  PresetsInv'
  <1> USE DEF PresetsInv, PresetsTypeOK, SavePreset, Goto
  <1>1. PresetsTypeOK'
    <2>1. saved'[c] \in Name /\ saved' \in [Caller -> Name \cup {Unnamed}]
      OBVIOUS
    <2> QED BY <2>1 DEF Steps
  <1>2. RequestsInv'
    BY DEF RequestsInv, NamesUnique
  <1> QED BY <1>1, <1>2 DEF NamesUnique

\* Every operation, and every move of the camera.
LEMMA PresetsStep ==
  ASSUME PresetsInv, PresetsNext
  PROVE  PresetsInv'
  <1> USE PresetsAssumption DEF PresetsInv, PresetsTypeOK
  <1>1. ASSUME NEW c \in Caller, NEW op \in Operations, NEW n \in Name \cup {Unnamed}, Request(c, op, n)
        PROVE PresetsInv'
    <2>1. PresetsTypeOK'
      BY <1>1 DEF Request, Goto, Operations, Steps
    <2>2. RequestsInv'
      BY <1>1 DEF Request, Goto, RequestsInv, Operations
    <2> QED BY <1>1, <2>1, <2>2 DEF Request, NamesUnique
  <1>2. ASSUME NEW c \in Caller, Save(c) PROVE PresetsInv'
    BY <1>2, SavePresetKeeps DEF Save
  <1>3. ASSUME NEW c \in Caller, SetPresetSave(c) PROVE PresetsInv'
    BY <1>3, SavePresetKeeps DEF SetPresetSave
  <1>4. ASSUME NEW c \in Caller, SetPreset(c) PROVE PresetsInv'
    <2>1. CASE Return(c)
      BY <1>4, <2>1, ReturnKeeps DEF SetPreset, NamesUnique
    <2>2. CASE Goto(c, "savePreset") /\ UNCHANGED <<name, read, saved, at>>
      BY <1>4, <2>2 DEF SetPreset, Goto, Steps, RequestsInv, NamesUnique
    <2> QED BY <1>4, <2>1, <2>2 DEF SetPreset
  <1>5. ASSUME NEW c \in Caller, GetStatus(c) PROVE PresetsInv'
    <2>1. PresetsTypeOK'
      BY <1>5 DEF GetStatus, Goto, Steps
    <2>2. RequestsInv'
      BY <1>5 DEF GetStatus, Goto, RequestsInv
    <2> QED BY <1>5, <2>1, <2>2 DEF GetStatus, NamesUnique
  <1>6. ASSUME NEW c \in Caller, WriteSave(c) PROVE PresetsInv'
    <2> DEFINE p == [name |-> saved[c], pos |-> at[c]]
    <2>1. p \in Preset /\ read[c] \in Seq(Preset) /\ UniqueNames(read[c])
      BY <1>6 DEF WriteSave, RequestsInv, Preset
    <2>2. Put(read[c], p) \in Seq(Preset) /\ UniqueNames(Put(read[c], p))
      BY <2>1, PutPreset
    <2> QED BY <1>6, <2>2, ReturnKeeps DEF WriteSave
  <1>7. ASSUME NEW c \in Caller, RemovePreset(c) PROVE PresetsInv'
    <2>1. CASE Return(c)
      BY <1>7, <2>1, ReturnKeeps DEF RemovePreset, NamesUnique
    <2>2. CASE Goto(c, "delete") /\ UNCHANGED <<name, read, saved, at>>
      BY <1>7, <2>2 DEF RemovePreset, Goto, Steps, Operations, RequestsInv, NamesUnique
    <2> QED BY <1>7, <2>1, <2>2 DEF RemovePreset
  <1>8. ASSUME NEW c \in Caller, Delete(c) PROVE PresetsInv'
    BY <1>8 DEF Delete, Goto, Steps, RequestsInv, NamesUnique
  <1>9. ASSUME NEW c \in Caller, WriteDelete(c) PROVE PresetsInv'
    <2>1. read[c] \in Seq(Preset) /\ UniqueNames(read[c])
      BY DEF RequestsInv
    <2>2. Without(read[c], name[c]) \in Seq(Preset) /\ UniqueNames(Without(read[c], name[c]))
      BY <2>1, WithoutPreset
    <2> QED BY <1>9, <2>2, ReturnKeeps DEF WriteDelete
  <1>10. ASSUME NEW c \in Caller, ResetToDefaults(c) PROVE PresetsInv'
    <2>1. << >> \in Seq(Preset) /\ UniqueNames(<< >>)
      BY DEF UniqueNames
    <2> QED BY <1>10, <2>1, ReturnKeeps DEF ResetToDefaults
  <1>11. CASE MoveCamera
    BY <1>11 DEF MoveCamera, requestVars, RequestsInv, NamesUnique
  <1> QED
    BY <1>1, <1>2, <1>3, <1>4, <1>5, <1>6, <1>7, <1>8, <1>9, <1>10, <1>11 DEF PresetsNext

\* The inductive invariant holds in every reachable state: what a request has read
\* has no duplicates, so that writing it back, however late, makes none.
THEOREM PresetsInvariant == PresetsSpec => []PresetsInv
  <1>1. PresetsInit => PresetsInv
    <2> SUFFICES ASSUME PresetsInit PROVE PresetsInv
      OBVIOUS
    <2>1. << >> \in Seq(Preset) /\ UniqueNames(<< >>)
      BY DEF UniqueNames
    <2>2. PresetsTypeOK
      BY <2>1 DEF PresetsInit, PresetsTypeOK, Steps, Unnamed, Unread
    <2>3. RequestsInv /\ NamesUnique
      BY <2>1 DEF PresetsInit, RequestsInv, NamesUnique
    <2> QED BY <2>2, <2>3 DEF PresetsInv
  <1>2. PresetsInv /\ UNCHANGED presetsVars => PresetsInv'
    BY DEF presetsVars, requestVars, PresetsInv, PresetsTypeOK, NamesUnique, RequestsInv
  <1> QED BY <1>1, <1>2, PresetsStep, PTL DEF PresetsSpec

\* No interleaving of saves, removals and resets gives two presets one name, which
\* ONVIF uses as their token.
THEOREM PresetNamesUnique == PresetsSpec => []NamesUnique
  <1>1. PresetsInv => NamesUnique
    BY DEF PresetsInv
  <1> QED BY <1>1, PresetsInvariant, PTL


\* In the book, a save writes one entry, ...
LEMMA BookSaved ==
  ASSUME NEW list \in Seq(Preset), UniqueNames(list), NEW p \in Preset
  PROVE  BookOf(Put(list, p)) = [BookOf(list) EXCEPT ![p.name] = p.pos]
  <1> DEFINE new == Put(list, p)
  <1>1. new \in Seq(Preset) /\ UniqueNames(new) /\ Holds(new, p)
    BY PutPreset
  <1>2. \A x : x.name # p.name => (Holds(new, x) <=> Holds(list, x))
    BY PutPreset
  <1> HIDE DEF new
  <1>3. Entry(new, p.name) = p.pos
    BY <1>1, EntryFound
  <1>4. ASSUME NEW n \in Name, n # p.name PROVE Entry(new, n) = Entry(list, n)
    BY <1>1, <1>2, <1>4, EntrySame
  <1>5. BookOf(new) = [BookOf(list) EXCEPT ![p.name] = p.pos]
    BY <1>3, <1>4 DEF BookOf
  <1> QED BY <1>5 DEF new

\* ... and a removal erases one.
LEMMA BookErased ==
  ASSUME NEW list \in Seq(Preset), UniqueNames(list), NEW n
  PROVE  BookOf(Without(list, n)) = [BookOf(list) EXCEPT ![n] = Unnamed]
  <1> DEFINE new == Without(list, n)
  <1>1. new \in Seq(Preset) /\ UniqueNames(new)
    BY WithoutPreset
  <1>2. \A x : Holds(new, x) <=> (Holds(list, x) /\ x.name # n)
    BY WithoutPreset
  <1> HIDE DEF new
  <1>3. Entry(new, n) = Unnamed
    <2>1. \A i \in 1 .. Len(new) : new[i].name # n
      BY <1>2 DEF Holds
    <2> QED BY <1>1, <2>1, EntryMissing
  <1>4. ASSUME NEW k \in Name, k # n PROVE Entry(new, k) = Entry(list, k)
    <2>1. \A x : x.name = k => (Holds(new, x) <=> Holds(list, x))
      BY <1>2, <1>4
    <2> QED BY <1>1, <2>1, EntrySame
  <1>5. BookOf(new) = [BookOf(list) EXCEPT ![n] = Unnamed]
    BY <1>3, <1>4 DEF BookOf
  <1> QED BY <1>5 DEF new

\* The step is one of the book, or leaves it alone, and what a request writes is
\* the entry of its own name.
KeepsBook ==
  /\ Book!Next \/ UNCHANGED BookOfPresets
  /\ \A c \in Caller :
       /\ Writes(c, "writeSave") => Book!Save(saved[c], at[c])
       /\ Writes(c, "writeDelete") /\ name[c] \in Name => Book!Erase(name[c])

\* A step in which no request writes, and the list stays or is cleared.
LEMMA NothingWritten ==
  ASSUME PresetsInv, \A c \in Caller : ~Writes(c, "writeSave") /\ ~Writes(c, "writeDelete"),
         presets' = presets \/ presets' = << >>
  PROVE  KeepsBook
  <1>1. CASE presets' = presets
    <2>1. BookOfPresets' = BookOfPresets
      BY <1>1 DEF BookOfPresets, BookOf, Entry, Names
    <2> QED BY <2>1 DEF KeepsBook
  <1>2. CASE presets' = << >>
    <2>1. \A n : Entry(<< >>, n) = Unnamed
      BY DEF Entry, Names
    <2>2. BookOf(<< >>) = [n \in Name |-> Unnamed]
      BY <2>1 DEF BookOf
    <2>3. BookOfPresets' = [n \in Name |-> Unnamed]
      BY <1>2, <2>2 DEF BookOfPresets
    <2>4. Book!Clear
      BY <2>3 DEF Book!Clear
    <2> QED BY <2>4 DEF KeepsBook, Book!Next
  <1> QED BY <1>1, <1>2

\* A save writes, and the list is still the one it has read.
LEMMA SaveWritten ==
  ASSUME PresetsInv, NEW c \in Caller, WriteSave(c), read[c] = presets
  PROVE  KeepsBook
  <1> DEFINE p == [name |-> saved[c], pos |-> at[c]]
  <1>1. saved[c] \in Name /\ at[c] \in Position
    BY DEF WriteSave, PresetsInv, RequestsInv
  <1>2. p \in Preset /\ presets \in Seq(Preset) /\ UniqueNames(presets)
    BY <1>1 DEF Preset, PresetsInv, PresetsTypeOK, NamesUnique
  <1>3. BookOf(Put(presets, p)) = [BookOf(presets) EXCEPT ![saved[c]] = at[c]]
    BY <1>2, BookSaved
  <1>4. Book!Save(saved[c], at[c])
    BY <1>3 DEF WriteSave, BookOfPresets, Book!Save
  <1>5. Book!Next
    BY <1>1, <1>4 DEF Book!Next
  <1>6. \A d \in Caller : ~Writes(d, "writeDelete") /\ (Writes(d, "writeSave") => d = c)
    BY DEF WriteSave, Return, Goto, Writes, PresetsInv, PresetsTypeOK
  <1> QED BY <1>4, <1>5, <1>6 DEF KeepsBook

\* A removal writes, and the list is still the one it has read.
LEMMA DeleteWritten ==
  ASSUME PresetsInv, NEW c \in Caller, WriteDelete(c), read[c] = presets
  PROVE  KeepsBook
  <1>1. presets \in Seq(Preset) /\ UniqueNames(presets) /\ name[c] \in Name \cup {Unnamed}
    BY DEF PresetsInv, PresetsTypeOK, NamesUnique
  <1>2. BookOf(Without(presets, name[c])) = [BookOf(presets) EXCEPT ![name[c]] = Unnamed]
    BY <1>1, BookErased
  <1>3. Book!Erase(name[c])
    BY <1>2 DEF WriteDelete, BookOfPresets, Book!Erase
  <1>4. Book!Next \/ UNCHANGED BookOfPresets
    <2>1. CASE name[c] \in Name
      BY <1>3, <2>1 DEF Book!Next
    <2>2. CASE name[c] \notin Name
      BY <1>3, <2>2 DEF Book!Erase, BookOfPresets, BookOf
    <2> QED BY <2>1, <2>2
  <1>5. \A d \in Caller : ~Writes(d, "writeSave") /\ (Writes(d, "writeDelete") => d = c)
    BY DEF WriteDelete, Return, Goto, Writes, PresetsInv, PresetsTypeOK
  <1> QED BY <1>3, <1>4, <1>5 DEF KeepsBook

\* Requests that do not overtake one another keep the book of positions: a step of
\* the controller is a step of PresetBook or none, unless it writes over a change.
THEOREM PresetsImplementBook == PresetsSpec => ImplementsPresetBook
  <1>1. PresetsInv /\ [PresetsNext]_presetsVars => [Overtaken \/ KeepsBook]_presetsVars
    <2> SUFFICES ASSUME PresetsInv, PresetsNext, ~Overtaken PROVE KeepsBook
      OBVIOUS
    <2> USE DEF PresetsInv, PresetsTypeOK
    <2>1. ASSUME NEW c \in Caller, WriteSave(c) PROVE KeepsBook
      <3>1. Writes(c, "writeSave")
        BY <2>1 DEF WriteSave, Writes, Return, Goto
      <3> QED BY <2>1, <3>1, SaveWritten DEF Overtaken
    <2>2. ASSUME NEW c \in Caller, WriteDelete(c) PROVE KeepsBook
      <3>1. Writes(c, "writeDelete")
        BY <2>2 DEF WriteDelete, Writes, Return, Goto
      <3> QED BY <2>2, <3>1, DeleteWritten DEF Overtaken
    <2>3. ASSUME NEW c \in Caller, NEW s \in Steps, step[c] \notin {"writeSave", "writeDelete"}, Goto(c, s),
                 presets' = presets \/ presets' = << >>
          PROVE  KeepsBook
      BY <2>3, NothingWritten DEF Goto, Writes
    <2>4. ASSUME NEW c \in Caller, NEW op \in Operations, NEW n \in Name \cup {Unnamed}, Request(c, op, n)
          PROVE KeepsBook
      BY <2>3, <2>4 DEF Request, Operations, Steps
    <2>5. ASSUME NEW c \in Caller,
                 Save(c) \/ SetPreset(c) \/ SetPresetSave(c) \/ GetStatus(c) \/ RemovePreset(c) \/ Delete(c)
                 \/ ResetToDefaults(c)
          PROVE KeepsBook
      BY <2>3, <2>5 DEF Save, SavePreset, SetPreset, SetPresetSave, GetStatus, RemovePreset, Delete,
         ResetToDefaults, Return, Operations, Steps
    <2>6. CASE MoveCamera
      BY <2>6, NothingWritten DEF MoveCamera, requestVars, Writes
    <2> QED BY <2>1, <2>2, <2>4, <2>5, <2>6 DEF PresetsNext
  <1>2. [][Overtaken \/ KeepsBook]_presetsVars => ImplementsPresetBook
    BY PTL DEF ImplementsPresetBook, KeepsBook
  <1> QED BY <1>1, <1>2, PresetsInvariant, PTL DEF PresetsSpec

=============================================================================
