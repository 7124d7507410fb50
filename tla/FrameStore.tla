------------------------------ MODULE FrameStore ------------------------------
(***************************************************************************)
(* The frame store (src/internal/frames/store.go) and the MJPEG handlers   *)
(* that wait on it (src/internal/web/api_media.go): Publish by the worker  *)
(* of a profile, Forget when the profile is deleted, and viewers that take *)
(* the latest frame with a channel and wait for the channel to be closed.  *)
(*                                                                         *)
(* The entries of different tokens share nothing but the mutex: the model  *)
(* follows one token.  Every operation of the store is one lock section.   *)
(* Snapshots take the latest frame and do not wait.                        *)
(***************************************************************************)
EXTENDS Naturals

CONSTANTS
  Viewer,     \* requests of handleMJPEG
  MaxFrames,  \* bound: frames published
  MaxChans    \* bound: channels made

ASSUME FrameStoreAssumption == MaxFrames \in Nat /\ MaxChans \in Nat

NoEntry == 0

VARIABLES
  notify,     \* the entry's channel, or NoEntry
  seq,        \* the entry's frame.Seq
  image,      \* the image of that frame: the number of its publication, or 0
  made,       \* channels made so far
  closed,     \* channels closed
  published,  \* history: images published so far
  step,       \* step[v]: "latest", "wait" or "gone"
  next,       \* next[v]: the channel v was given
  shown       \* shown[v]: the last live image v was sent, or 0

viewerVars == <<step, next, shown>>
vars == <<notify, seq, image, made, closed, published, viewerVars>>

Chan == 1 .. MaxChans

Init ==
  /\ notify = NoEntry /\ seq = 0 /\ image = 0
  /\ made = 0 /\ closed = {} /\ published = 0
  /\ step = [v \in Viewer |-> "latest"]
  /\ next = [v \in Viewer |-> NoEntry]
  /\ shown = [v \in Viewer |-> 0]

\* Mutant: the channel stays in the entry after it has been closed.
Publish_KeepsChannel ==
  /\ published < MaxFrames
  /\ published' = published + 1 /\ image' = published + 1
  /\ seq' = seq + 1
  /\ LET chan == IF notify = NoEntry THEN made + 1 ELSE notify
     IN  /\ chan <= MaxChans
         /\ closed' = closed \cup {chan}
         /\ notify' = chan
         /\ made' = IF notify = NoEntry THEN chan ELSE made
  /\ UNCHANGED viewerVars

\* An entry that exists has its channel closed and replaced; without one, a
\* channel is made and closed at once, and made again.
Publish ==
  /\ published < MaxFrames
  /\ published' = published + 1 /\ image' = published + 1
  /\ seq' = seq + 1
  /\ LET old == IF notify = NoEntry THEN made + 1 ELSE notify
         new == IF notify = NoEntry THEN made + 2 ELSE made + 1
     IN  /\ new <= MaxChans
         /\ closed' = closed \cup {old}
         /\ notify' = new /\ made' = new
  /\ UNCHANGED viewerVars

\* Mutant: goes without waking up the waiters.
Forget_Silent ==
  /\ notify # NoEntry
  /\ notify' = NoEntry /\ seq' = 0 /\ image' = 0
  /\ UNCHANGED <<made, closed, published, viewerVars>>

Forget ==
  /\ notify # NoEntry
  /\ closed' = closed \cup {notify}
  /\ notify' = NoEntry /\ seq' = 0 /\ image' = 0
  /\ UNCHANGED <<made, published, viewerVars>>

\* Mutant: a channel of its own for a token without an entry.
Latest_NoEntry(v) ==
  /\ step[v] = "latest"
  /\ IF notify = NoEntry
     THEN made < MaxChans /\ made' = made + 1 /\ next' = [next EXCEPT ![v] = made + 1]
     ELSE next' = [next EXCEPT ![v] = notify] /\ UNCHANGED made
  /\ shown' = [shown EXCEPT ![v] = IF seq > 0 THEN image ELSE @]
  /\ step' = [step EXCEPT ![v] = "wait"]
  /\ UNCHANGED <<notify, seq, image, closed, published>>

\* handleMJPEG takes the latest frame, making an entry if there is none, and
\* sends it: the live image, or a synthetic one while there is none.
Latest(v) ==
  LET chan == IF notify = NoEntry THEN made + 1 ELSE notify IN
  /\ step[v] = "latest" /\ chan \in Chan
  /\ notify' = chan
  /\ made' = IF notify = NoEntry THEN chan ELSE made
  /\ next' = [next EXCEPT ![v] = chan]
  /\ shown' = [shown EXCEPT ![v] = IF seq > 0 THEN image ELSE @]
  /\ step' = [step EXCEPT ![v] = "wait"]
  /\ UNCHANGED <<seq, image, closed, published>>

\* The select: the channel, the keepalive timer or the end of the request.
Wakes(v) ==
  /\ step[v] = "wait" /\ next[v] \in closed
  /\ step' = [step EXCEPT ![v] = "latest"]
  /\ UNCHANGED <<notify, seq, image, made, closed, published, next, shown>>

Keepalive(v) ==
  /\ step[v] = "wait"
  /\ step' = [step EXCEPT ![v] = "latest"]
  /\ UNCHANGED <<notify, seq, image, made, closed, published, next, shown>>

Leaves(v) ==
  /\ step[v] # "gone"
  /\ step' = [step EXCEPT ![v] = "gone"]
  /\ UNCHANGED <<notify, seq, image, made, closed, published, next, shown>>

Next ==
  \/ Publish \/ Forget
  \/ \E v \in Viewer : Latest(v) \/ Wakes(v) \/ Keepalive(v) \/ Leaves(v)

\* A handler whose channel is closed runs on; timers and clients owe nothing.
Fairness == \A v \in Viewer : WF_vars(Wakes(v)) /\ WF_vars(Latest(v))

Spec == Init /\ [][Next]_vars
FairSpec == Spec /\ Fairness

-----------------------------------------------------------------------------
(* Properties.                                                             *)

TypeOK ==
  /\ notify \in Chan \cup {NoEntry}
  /\ seq \in 0 .. MaxFrames /\ image \in 0 .. MaxFrames /\ published \in 0 .. MaxFrames
  /\ made \in 0 .. MaxChans
  /\ closed \subseteq Chan
  /\ step \in [Viewer -> {"latest", "wait", "gone"}]
  /\ next \in [Viewer -> Chan \cup {NoEntry}]
  /\ shown \in [Viewer -> 0 .. MaxFrames]

\* A viewer that waits has been sent the newest image, or a synthetic one while
\* there is none, unless its channel is closed: no wakeup is lost, also when the
\* profile is deleted and created again meanwhile.
NoLostWakeup ==
  \A v \in Viewer : step[v] = "wait" /\ next[v] \notin closed =>
    next[v] = notify /\ (image # 0 => shown[v] = image)

\* The entry's channel is open: Publish and Forget never close one twice, which
\* would be a panic.
OpenChannel == notify \notin closed

\* A viewer that stays is shown the live image, unless there is none any more:
\* publications, deletions and the viewer's own rounds may interleave anyhow, and
\* the keepalive timer is not needed for it.
ViewersCatchUp ==
  \A v \in Viewer : image # 0 /\ step[v] # "gone" ~>
    image = 0 \/ step[v] = "gone" \/ shown[v] = image

-----------------------------------------------------------------------------
(* The inductive invariant.                                                *)

\* Channels are numbered as they are made, so that a new one has never been closed;
\* whoever waits was given one.
ChannelInv ==
  /\ notify <= made
  /\ \A n \in closed : n <= made
  /\ \A v \in Viewer : step[v] = "wait" => next[v] # NoEntry

\* A live image has a number, and the numbers do not outrun the publications.
FrameInv == (image # 0 => seq > 0) /\ seq <= published

IInv == TypeOK /\ ChannelInv /\ FrameInv /\ OpenChannel /\ NoLostWakeup

=============================================================================
