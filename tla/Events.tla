-------------------------------- MODULE Events --------------------------------
(***************************************************************************)
(* How log entries and camera positions reach the dashboards: the ring     *)
(* logger (src/internal/logger/logger.go), the hub of WebSocket            *)
(* connections (src/internal/web/api_ws.go) and the listener of the PTZ    *)
(* controller that feeds it (src/internal/web/api.go).                     *)
(*                                                                         *)
(* A call of Log puts its entry into the ring under the logger's mutex and *)
(* broadcasts it afterwards, in the goroutine of its caller.  A position   *)
(* is broadcast by a goroutine of its own.  The hub writes a message to    *)
(* one connection after the other, under its mutex, and waits while the    *)
(* buffers towards a dashboard are full.                                   *)
(*                                                                         *)
(* A log entry is its number, a position the number of the move that led   *)
(* to it.  The hub is the one subscriber of the logger, for good.          *)
(***************************************************************************)
EXTENDS Naturals, Sequences, Functions

CONSTANTS
  Caller,     \* goroutines that log
  Level,      \* levels of entries and of the logger
  Client,     \* dashboards; each connects once
  Capacity,   \* entries of the ring
  Room,       \* messages the buffers towards a dashboard hold
  MaxEntries, \* bound: log entries
  MaxMoves    \* bound: changes of the position

Listener == 1 .. MaxMoves       \* the goroutine that broadcasts a move
Writer == Caller \cup Client \cup Listener
Nobody == 0

ASSUME EventsAssumption ==
  /\ Level \subseteq {"DEBUG", "INFO", "WARN", "ERROR"}
  /\ Capacity \in Nat \ {0} /\ Room \in Nat \ {0} /\ MaxEntries \in Nat /\ MaxMoves \in Nat
  /\ Caller \cap Client = {} /\ (Caller \cup Client) \cap Listener = {} /\ Nobody \notin Writer

VARIABLES
  entries,   \* r.entries
  minLevel,  \* r.minLevel
  logged,    \* number of entries so far
  position,  \* the position of the PTZ controller
  pc,        \* pc[w]: what a caller, a connection's handler or a listener does
  msg,       \* msg[w]: the message it brings
  hub,       \* who holds wsMu while messages are written
  todo,      \* connections still to be written to
  wsClients, \* h.wsClients
  link,      \* link[d]: "away", "open" or "broken"
  unread,    \* unread[d]: number of messages in the buffers towards d
  told,      \* history: positions written to d, until its link breaks
  passed,    \* history: passed[k][d]: positions nobody was telling d when move k was made
  sent,      \* history: log entries written to d, until its link breaks
  since,     \* history: number of entries when d was registered
  before     \* history: before[n]: entries whose calls were over when n was logged

logVars == <<entries, minLevel, logged, before>>
hubVars == <<hub, todo, wsClients>>
linkVars == <<link, unread, told, sent, since>>
ptzVars == <<position, passed>>
vars == <<logVars, ptzVars, pc, msg, hubVars, linkVars>>

Silent == <<"none", 0>>
LogMessage(n) == <<"log", n>>
PtzMessage(k) == <<"ptz", k>>

Init ==
  /\ entries = << >> /\ minLevel = "INFO" /\ logged = 0 /\ before = << >>
  /\ position = 0 /\ passed = << >>
  /\ pc = [w \in Writer |-> "idle"] /\ msg = [w \in Writer |-> Silent]
  /\ hub = Nobody /\ todo = {} /\ wsClients = {}
  /\ link = [d \in Client |-> "away"] /\ since = [d \in Client |-> 0]
  /\ unread = [d \in Client |-> 0]
  /\ told = [d \in Client |-> << >>] /\ sent = [d \in Client |-> << >>]

Goto(w, step) == pc' = [pc EXCEPT ![w] = step]

-----------------------------------------------------------------------------
(* The logger.                                                             *)

levelSeverity(l) == CASE l = "DEBUG" -> 1 [] l = "INFO" -> 2 [] l = "WARN" -> 3 [] l = "ERROR" -> 4

SetMinLevel(l) ==
  /\ l # minLevel /\ minLevel' = l
  /\ UNCHANGED <<entries, logged, before, ptzVars, pc, msg, hubVars, linkVars>>

Broadcasting == {msg[c] : c \in {b \in Caller : pc[b] # "idle"}}

Enabled(l) == l = "ERROR" \/ levelSeverity(l) >= levelSeverity(minLevel)

\* Debug, Info or Warn is called and the level is enabled, or Error is: the locked
\* section of Log.
Log(c, l) ==
  LET n == logged + 1 IN
  /\ pc[c] = "idle" /\ logged < MaxEntries /\ Enabled(l)
  /\ entries' = Append(IF Len(entries) >= Capacity THEN Tail(entries) ELSE entries, n)
  /\ logged' = n
  /\ before' = Append(before, {m \in 1 .. logged : LogMessage(m) \notin Broadcasting})
  /\ msg' = [msg EXCEPT ![c] = LogMessage(n)]
  /\ Goto(c, "waiting")
  /\ UNCHANGED <<minLevel, ptzVars, hubVars, linkVars>>

\* A limit that is zero or too large asks for all there is.
GetRecentLogs(limit) ==
  LET n == IF limit = 0 \/ limit > Len(entries) THEN Len(entries) ELSE limit
  IN SubSeq(entries, Len(entries) - n + 1, Len(entries))

-----------------------------------------------------------------------------
(* The hub.                                                                *)

\* What is under way to d: the messages of the listeners and its own greeting.
Telling(d) == {msg[w] : w \in Listener \cup {d}}

\* The PTZ controller moves and starts a goroutine that tells the new position.
Move ==
  /\ position < MaxMoves
  /\ position' = position + 1
  /\ passed' = Append(passed, [d \in Client |-> {m \in 0 .. position : PtzMessage(m) \notin Telling(d)}])
  /\ msg' = [msg EXCEPT ![position + 1] = PtzMessage(position + 1)]
  /\ Goto(position + 1, "waiting")
  /\ UNCHANGED <<logVars, hubVars, linkVars>>

\* The mutex is taken to write a message, by a handler to its own connection only.
Lock(w) ==
  /\ pc[w] = "waiting" /\ hub = Nobody
  /\ hub' = w
  /\ todo' = IF w \in Client THEN {w} ELSE wsClients
  /\ Goto(w, "writing")
  /\ UNCHANGED <<logVars, ptzVars, msg, wsClients, linkVars>>

\* A message fits into the buffers towards a dashboard.
Write(d) ==
  /\ hub # Nobody /\ d \in todo /\ link[d] = "open" /\ unread[d] < Room
  /\ unread' = [unread EXCEPT ![d] = @ + 1]
  /\ LET m == msg[hub] IN
       \/ m[1] = "ptz" /\ told' = [told EXCEPT ![d] = Append(@, m[2])] /\ UNCHANGED sent
       \/ m[1] = "log" /\ sent' = [sent EXCEPT ![d] = Append(@, m[2])] /\ UNCHANGED told
  /\ todo' = todo \ {d}
  /\ UNCHANGED <<logVars, ptzVars, pc, msg, hub, wsClients, link, since>>

\* Mutant: the write is tried again.
AfterFailure_Retry(d) == todo
AfterFailure(d) == todo \ {d}

\* It does not: broadcast closes and forgets the connection, the greeting of a
\* handler leaves that to the handler.
WriteFails(d) ==
  /\ hub # Nobody /\ d \in todo /\ link[d] = "broken"
  /\ wsClients' = IF hub \in Client THEN wsClients ELSE wsClients \ {d}
  /\ todo' = AfterFailure(d)
  /\ UNCHANGED <<logVars, ptzVars, pc, msg, hub, linkVars>>

\* Everybody has been written to.
Unlock(w) ==
  /\ hub = w /\ todo = {}
  /\ hub' = Nobody
  /\ Goto(w, IF w \in Client THEN "reading" ELSE "idle")
  /\ msg' = [msg EXCEPT ![w] = Silent]
  /\ UNCHANGED <<logVars, ptzVars, todo, wsClients, linkVars>>

-----------------------------------------------------------------------------
(* The dashboards and the handlers of their connections.                   *)

Upgrade(d) ==
  /\ link[d] = "away"
  /\ link' = [link EXCEPT ![d] = "open"]
  /\ Goto(d, "adding")
  /\ UNCHANGED <<logVars, ptzVars, msg, hubVars, unread, told, sent, since>>

addWSClient(d) ==
  /\ pc[d] = "adding" /\ hub = Nobody
  /\ wsClients' = wsClients \cup {d}
  /\ since' = [since EXCEPT ![d] = IF link[d] = "open" THEN logged ELSE 0]
  /\ Goto(d, "greeting")
  /\ UNCHANGED <<logVars, ptzVars, msg, hub, todo, link, unread, told, sent>>

\* Mutant: the first message holds the position at which the program started.
Greet_Initial(d) ==
  /\ pc[d] = "greeting"
  /\ msg' = [msg EXCEPT ![d] = PtzMessage(0)]
  /\ Goto(d, "waiting")
  /\ UNCHANGED <<logVars, ptzVars, hubVars, linkVars>>

\* The first message holds the position of this moment.
Greet(d) ==
  /\ pc[d] = "greeting"
  /\ msg' = [msg EXCEPT ![d] = PtzMessage(position)]
  /\ Goto(d, "waiting")
  /\ UNCHANGED <<logVars, ptzVars, hubVars, linkVars>>

\* Nothing more can be read from the connection.
ReadFails(d) ==
  /\ pc[d] = "reading" /\ link[d] = "broken"
  /\ Goto(d, "removing")
  /\ UNCHANGED <<logVars, ptzVars, msg, hubVars, linkVars>>

removeWSClient(d) ==
  /\ pc[d] = "removing" /\ hub = Nobody
  /\ wsClients' = wsClients \ {d}
  /\ Goto(d, "gone")
  /\ UNCHANGED <<logVars, ptzVars, msg, hub, todo, linkVars>>

\* The dashboard reads a message, ...
Receive(d) ==
  /\ link[d] = "open" /\ unread[d] > 0
  /\ unread' = [unread EXCEPT ![d] = @ - 1]
  /\ UNCHANGED <<logVars, ptzVars, pc, msg, hubVars, link, told, sent, since>>

\* ... or it or the network ends the connection.
Break(d) ==
  /\ link[d] = "open"
  /\ link' = [link EXCEPT ![d] = "broken"] /\ unread' = [unread EXCEPT ![d] = 0]
  /\ told' = [told EXCEPT ![d] = << >>] /\ sent' = [sent EXCEPT ![d] = << >>]
  /\ since' = [since EXCEPT ![d] = 0]
  /\ UNCHANGED <<logVars, ptzVars, pc, msg, hubVars>>

-----------------------------------------------------------------------------

Next ==
  \/ \E l \in Level : SetMinLevel(l)
  \/ \E c \in Caller, l \in Level : Log(c, l)
  \/ Move
  \/ \E w \in Writer : Lock(w) \/ Unlock(w)
  \/ \E d \in Client :
       \/ Write(d) \/ WriteFails(d)
       \/ Upgrade(d) \/ addWSClient(d) \/ Greet(d) \/ ReadFails(d) \/ removeWSClient(d)
       \/ Receive(d) \/ Break(d)

Spec == Init /\ [][Next]_vars

\* Goroutines run, and a dashboard reads on or its connection breaks: the last is no
\* promise of the code, which sets no deadline.
Fairness ==
  /\ \A w \in Writer : WF_vars(Unlock(w))
  /\ \A d \in Client : WF_vars(Write(d)) /\ WF_vars(WriteFails(d)) /\ WF_vars(Receive(d) \/ Break(d))

FairSpec == Spec /\ Fairness

-----------------------------------------------------------------------------
(* Properties.                                                             *)

Greeted(d) == d \in wsClients /\ pc[d] = "reading" /\ link[d] = "open"

PositionsInOrder(d) ==
  \A i, j \in DOMAIN told[d] : i < j /\ told[d][i] > 0 => told[d][j] \notin passed[told[d][i]][d]

\* A dashboard that has been greeted misses nothing: when no notification is under
\* way it has been sent the position of the camera, and of the recent entries all
\* were logged since it was registered and whose calls are over.  It was sent
\* both in the order in which they came about, unless they overlapped: an older entry
\* or position follows a newer one only if its call of Log, its listener or the
\* greeting was not yet over when the newer one was made.
DashboardsFollow ==
  \A d \in Client : Greeted(d) =>
    /\ (\A k \in Listener : pc[k] = "idle") => position \in Range(told[d])
    /\ \A n \in Range(GetRecentLogs(0)) :
         n > since[d] /\ LogMessage(n) \notin Broadcasting => n \in Range(sent[d])
    /\ \A i, j \in DOMAIN sent[d] : i < j => sent[d][j] \notin before[sent[d][i]]
    /\ PositionsInOrder(d)

\* Whoever has the hub's mutex gives it back: no dashboard holds up what logs, and
\* with it the locks under which the RTSP server logs, as long as each reads on or
\* breaks off.
HubIsReleased == hub # Nobody ~> hub = Nobody

-----------------------------------------------------------------------------
(* The inductive invariant.                                                *)

TypeOK ==
  /\ entries \in Seq(Nat) /\ minLevel \in {"DEBUG", "INFO", "WARN", "ERROR"}
  /\ logged \in Nat /\ position \in 0 .. MaxMoves
  /\ before \in Seq(SUBSET Nat) /\ Len(before) = logged
  /\ passed \in Seq([Client -> SUBSET Nat]) /\ Len(passed) = position
  /\ pc \in [Writer -> {"idle", "adding", "greeting", "waiting", "writing", "reading", "removing", "gone"}]
  /\ msg \in [Writer -> {"none", "log", "ptz"} \X Nat]
  /\ hub \in Writer \cup {Nobody}
  /\ todo \subseteq Client /\ wsClients \subseteq Client
  /\ link \in [Client -> {"away", "open", "broken"}]
  /\ unread \in [Client -> Nat] /\ since \in [Client -> Nat]
  /\ told \in [Client -> Seq(Nat)] /\ sent \in [Client -> Seq(Nat)]

\* The holder of the mutex is the writer that writes, a handler to its own
\* connection only, and it leaves nobody out.
HubInv ==
  /\ \A w \in Writer : pc[w] = "writing" <=> hub = w
  /\ hub = Nobody => todo = {}
  /\ hub \in Client => todo \subseteq {hub}

\* What each of them brings.
MessageInv ==
  /\ \A c \in Caller : /\ pc[c] \in {"idle", "waiting", "writing"}
                       /\ pc[c] # "idle" => \E n \in 1 .. logged : msg[c] = LogMessage(n)
  /\ \A k \in Listener : /\ pc[k] \in {"idle", "waiting", "writing"}
                         /\ pc[k] # "idle" => k <= position /\ msg[k] = PtzMessage(k)
  /\ \A d \in Client : pc[d] \in {"waiting", "writing"} =>
                        \E k \in 0 .. position : msg[d] = PtzMessage(k)

\* A handler registers its connection and removes it again.
HandlerInv ==
  \A d \in Client :
    /\ link[d] = "away" => pc[d] = "idle"
    /\ d \in wsClients => pc[d] \in {"greeting", "waiting", "writing", "reading", "removing"}

\* w has its message still to write to d.
Owes(w, d) == pc[w] = "waiting" \/ (hub = w /\ d \in todo)

\* A registered dashboard that is past its greeting knows the position, or it will
\* be told by its handler or by the listener of the last move.
KnowsPosition(d) ==
  \/ position \in Range(told[d])
  \/ \E w \in Listener \cup {d} : Owes(w, d) /\ msg[w] = PtzMessage(position)

PositionInv == \A d \in wsClients : link[d] = "open" /\ pc[d] # "greeting" => KnowsPosition(d)

\* So with the entries logged since it was registered.
KnowsEntry(d, n) ==
  \/ n \in Range(sent[d])
  \/ \E c \in Caller : Owes(c, d) /\ msg[c] = LogMessage(n)

EntriesInv ==
  \A d \in wsClients : link[d] = "open" => \A n \in 1 .. logged : n > since[d] => KnowsEntry(d, n)

\* An entry whose call was over when another one was logged stays behind it.
OrderInv ==
  /\ Range(entries) \subseteq 1 .. logged
  /\ \A n \in 1 .. logged : \A m \in before[n] : m \in 1 .. logged /\ LogMessage(m) \notin Broadcasting
  /\ \A d \in Client : /\ Range(sent[d]) \subseteq 1 .. logged
                       /\ \A i, j \in DOMAIN sent[d] : i < j => sent[d][j] \notin before[sent[d][i]]

\* So with the positions: what nobody was telling d is not told it again.
PassedInv ==
  \A d \in Client :
    /\ \A k \in 1 .. position : \A m \in passed[k][d] :
         m \in 0 .. position - 1 /\ PtzMessage(m) \notin Telling(d)
    /\ Range(told[d]) \subseteq 0 .. position
    /\ PositionsInOrder(d)

IInv == TypeOK /\ HubInv /\ MessageInv /\ HandlerInv /\ PositionInv /\ EntriesInv /\ OrderInv /\ PassedInv

=============================================================================
