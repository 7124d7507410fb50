--------------------------------- MODULE Ptz ---------------------------------
(***************************************************************************)
(* The motion of the virtual camera (src/internal/onvif/ptz.go):           *)
(* absolute, relative and continuous moves and Stop under c.mu, one        *)
(* goroutine per continuous move, and one goroutine per change of position *)
(* that persists it.                                                       *)
(*                                                                         *)
(* Pan, tilt and zoom are treated alike; one axis stands for the three,    *)
(* with integers for the coordinates.  A move to the home position or to a *)
(* preset is an AbsoluteMove to a coordinate read earlier.                 *)
(***************************************************************************)
EXTENDS Integers

CONSTANTS
  Lo, Hi,      \* the coordinate space
  NaN,         \* the coordinate that is not a number
  MaxMoves,    \* bound: continuous moves in a behaviour
  MaxPending   \* bound: goroutines that wait to persist one and the same position

ASSUME PtzAssumption ==
  /\ Lo \in Int /\ Hi \in Int /\ Lo <= 0 /\ 0 <= Hi
  /\ NaN \notin Int
  /\ MaxMoves \in Nat /\ MaxPending \in Nat \ {0}

VARIABLES
  pos,       \* c.pan, c.tilt, c.zoom
  vel,       \* the velocity of the continuous move
  moving,    \* c.isMoving
  chan,      \* c.stopChan: the number of the continuous move it was made for
  closed,    \* the stop channels that were closed
  loop,      \* loop[i]: the goroutine of the i-th continuous move
  pending,   \* pending[p]: goroutines that will persist position p
  stored,    \* the position the configuration manager holds
  raced      \* history: the last of those goroutines was started beside others, or a
             \* factory reset came after it

vars == <<pos, vel, moving, chan, closed, loop, pending, stored, raced>>

Pos  == Lo .. Hi
Move == 1 .. MaxMoves
Input == ((Lo - 1) .. (Hi + 1)) \cup {NaN}
Delta == (-1 .. 1) \cup {NaN}

Clamp(val, min, max) ==
  IF val = NaN \/ val < min THEN min ELSE IF val > max THEN max ELSE val

Plus(a, d) == IF d = NaN THEN NaN ELSE a + d

\* Channel 0 is the one NewPTZController makes, which no goroutine reads.
Init ==
  /\ stored \in Pos /\ pos = stored
  /\ vel = 0 /\ moving = FALSE
  /\ chan = 0 /\ closed = {}
  /\ loop = [i \in Move |-> "none"]
  /\ pending = [p \in Pos |-> 0] /\ raced = FALSE

-----------------------------------------------------------------------------
(* What the operations share, each under c.mu.                             *)

\* notifyListenersLocked starts a goroutine that persists the new position.
Notify(p) ==
  /\ pending[p] < MaxPending
  /\ pending' = [pending EXCEPT ![p] = @ + 1]
  /\ raced' = \E q \in Pos : pending[q] > 0

\* Mutant: the goroutine of the move is not told.
CloseStopChan_Untold == UNCHANGED closed

CloseStopChan == closed' = IF moving THEN closed \cup {chan} ELSE closed

\* Mutant: the move stays active.
StopContinuousMove_Active == CloseStopChan /\ UNCHANGED <<vel, moving>>

StopContinuousMove ==
  /\ CloseStopChan
  /\ vel' = IF moving THEN 0 ELSE vel
  /\ moving' = FALSE

-----------------------------------------------------------------------------
(* The operations.                                                         *)

MoveTo(p) ==
  /\ StopContinuousMove
  /\ pos' = p
  /\ Notify(p)
  /\ UNCHANGED <<chan, loop, stored>>

AbsoluteMove(target) == MoveTo(Clamp(target, Lo, Hi))

RelativeMove(delta) == MoveTo(Clamp(Plus(pos, delta), Lo, Hi))

\* Mutant: the goroutine gets the stop channel of the move before.
ContinuousMove_OldChannel(velocity) ==
  /\ chan < MaxMoves
  /\ CloseStopChan
  /\ vel' = Clamp(velocity, -1, 1) /\ moving' = TRUE
  /\ loop' = [loop EXCEPT ![chan + 1] = "select"]
  /\ UNCHANGED <<pos, chan, pending, stored, raced>>

ContinuousMove(velocity) ==
  /\ chan < MaxMoves
  /\ CloseStopChan
  /\ vel' = Clamp(velocity, -1, 1) /\ moving' = TRUE
  /\ chan' = chan + 1
  /\ loop' = [loop EXCEPT ![chan + 1] = "select"]
  /\ UNCHANGED <<pos, pending, stored, raced>>

Stop ==
  /\ StopContinuousMove
  /\ Notify(pos)
  /\ UNCHANGED <<pos, chan, loop, stored>>

-----------------------------------------------------------------------------
(* runContinuousLoop: a select over the stop channel and the ticker, which *)
(* takes either when both are ready, and a tick that waits for c.mu.       *)

SeesStop(i) ==
  /\ loop[i] = "select" /\ i \in closed
  /\ loop' = [loop EXCEPT ![i] = "done"]
  /\ UNCHANGED <<pos, vel, moving, chan, closed, pending, stored, raced>>

TickFires(i) ==
  /\ loop[i] = "select"
  /\ loop' = [loop EXCEPT ![i] = "tick"]
  /\ UNCHANGED <<pos, vel, moving, chan, closed, pending, stored, raced>>

FindsStopped(i) ==
  /\ loop[i] = "tick" /\ ~moving
  /\ loop' = [loop EXCEPT ![i] = "done"]
  /\ UNCHANGED <<pos, vel, moving, chan, closed, pending, stored, raced>>

\* Mutant: one step and no more.
Tick_Once(i) ==
  /\ loop[i] = "tick" /\ moving
  /\ pos' = Clamp(pos + vel, Lo, Hi)
  /\ IF pos' = pos THEN UNCHANGED <<pending, raced>> ELSE Notify(pos')
  /\ loop' = [loop EXCEPT ![i] = "done"]
  /\ UNCHANGED <<vel, moving, chan, closed, stored>>

\* Mutant: the new position is not persisted.
Tick_Unsaved(i) ==
  /\ loop[i] = "tick" /\ moving
  /\ pos' = Clamp(pos + vel, Lo, Hi)
  /\ loop' = [loop EXCEPT ![i] = "select"]
  /\ UNCHANGED <<vel, moving, chan, closed, pending, stored, raced>>

Tick(i) ==
  /\ loop[i] = "tick" /\ moving
  /\ pos' = Clamp(pos + vel, Lo, Hi)
  /\ IF pos' = pos THEN UNCHANGED <<pending, raced>> ELSE Notify(pos')
  /\ loop' = [loop EXCEPT ![i] = "select"]
  /\ UNCHANGED <<vel, moving, chan, closed, stored>>

\* The goroutines that persist get m.mu in any order.
UpdatePTZ(p) ==
  /\ pending[p] > 0
  /\ pending' = [pending EXCEPT ![p] = @ - 1]
  /\ stored' = p
  /\ UNCHANGED <<pos, vel, moving, chan, closed, loop, raced>>

\* A factory reset puts the stored position back to the origin and leaves the
\* camera, and its motion, as they are.
FactoryReset ==
  /\ stored' = 0
  /\ raced' = (raced \/ pos # 0)
  /\ UNCHANGED <<pos, vel, moving, chan, closed, loop, pending>>

-----------------------------------------------------------------------------

Command ==
  \/ \E target \in Input : AbsoluteMove(target)
  \/ \E delta \in Delta : RelativeMove(delta) \/ ContinuousMove(delta)
  \/ Stop \/ FactoryReset

Goroutine(i) == SeesStop(i) \/ TickFires(i) \/ FindsStopped(i) \/ Tick(i)

Next ==
  \/ Command
  \/ \E i \in Move : Goroutine(i)
  \/ \E p \in Pos : UpdatePTZ(p)

\* Tickers fire and goroutines run; a select that finds both channels ready
\* chooses at random, so it does not miss a closed channel for ever.
Fairness ==
  /\ \A i \in Move :
       /\ WF_vars(TickFires(i)) /\ WF_vars(FindsStopped(i) \/ Tick(i))
       /\ SF_vars(SeesStop(i))
  /\ \A p \in Pos : WF_vars(UpdatePTZ(p))

Spec == Init /\ [][Next]_vars
FairSpec == Spec /\ Fairness

-----------------------------------------------------------------------------
(* Properties.                                                             *)

TypeOK ==
  /\ pos \in Pos /\ stored \in Pos
  /\ vel \in -1 .. 1
  /\ moving \in BOOLEAN
  /\ chan \in 0 .. MaxMoves
  /\ closed \subseteq 0 .. MaxMoves
  /\ loop \in [Move -> {"none", "select", "tick", "done"}]
  /\ pending \in [Pos -> 0 .. MaxPending] /\ raced \in BOOLEAN

\* A camera that moves has a goroutine that moves it, whose stop channel is
\* open: the next stop reaches it and never closes a channel twice.
MovingHasLoop ==
  moving => chan \in Move /\ loop[chan] \in {"select", "tick"} /\ chan \notin closed

\* After a stop, or a move that replaces the continuous one, no goroutine that
\* was already waiting for the mutex moves the camera.
StoppedStaysPut ==
  [][(chan \in closed) /\ pos' # pos => \E p \in Pos : MoveTo(p)]_vars

\* The goroutine of a continuous move that another one replaced ends.
OldLoopsEnd ==
  \A i \in Move : (chan > i) ~> (loop[i] = "done")

\* A continuous move reaches the end of the coordinate space unless another
\* command takes over.
MoveArrives ==
  \A i \in Move : (moving /\ chan = i /\ vel = 1) ~> (pos = Hi \/ chan # i \/ ~moving)

\* "The current position is persisted on every move": when no goroutine is left
\* that would persist one, the position persisted is the current one.  It is not
\* so when two of them were under way at a time, since they run in any order, nor
\* after a factory reset, until the next position is persisted.
PersistsCurrent == (\A p \in Pos : pending[p] = 0) /\ ~raced => stored = pos

-----------------------------------------------------------------------------
(* The inductive invariant.                                                *)

\* The stop channels that are closed are those of moves that were made, and the
\* goroutines there are belong to such moves.
ChannelInv ==
  /\ \A n \in closed : n <= chan
  /\ \A i \in Move : loop[i] # "none" => i <= chan

\* As long as nothing has raced, only the current position waits to be persisted,
\* and it waits once.
OnlyCurrentPending ==
  ~raced => \A p \in Pos : pending[p] > 0 => p = pos /\ pending[p] = 1

IInv == TypeOK /\ ChannelInv /\ MovingHasLoop /\ OnlyCurrentPending /\ PersistsCurrent

=============================================================================
