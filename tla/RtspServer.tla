----------------------------- MODULE RtspServer -----------------------------
(***************************************************************************)
(* The RTSP server (src/internal/rtsp/server.go): one stream per token,    *)
(* announced by a publisher session (FFmpeg), fanned out to reader         *)
(* sessions.                                                               *)
(*                                                                         *)
(* A session announces at most one stream (gortsplib refuses ANNOUNCE      *)
(* outside the initial state), so a stream is named by the session that    *)
(* announced it.  gortsplib runs the callbacks of one session one after    *)
(* another, OnSessionClose last, and those of different sessions in        *)
(* parallel: a callback is split where it works outside s.mu.              *)
(*                                                                         *)
(* Left out: authentication, the texts of the log, and the packet and      *)
(* connection counters.                                                    *)
(***************************************************************************)
EXTENDS Naturals

CONSTANTS
  Session,   \* RTSP sessions over the life of the server
  Token,     \* stream names
  None       \* no stream, no token

ASSUME RtspAssumption == None \notin Session \cup Token

VARIABLES
  state,       \* state[s]: the session as gortsplib and the callbacks see it
  path,        \* path[s]: the token of the session's current request
  streams,     \* s.streams: token -> stream
  publishers,  \* s.publishers: session -> token
  readers,     \* sessions in s.readers
  source,      \* source[s]: the stream a reader was given, or found
  sink,        \* sink[s]: the stream the packet callbacks of a publisher write to
  closed,      \* streams on which Close() was called
  stored       \* history: streams OnAnnounce has put into the map

vars == <<state, path, streams, publishers, readers, source, sink, closed, stored>>

Fresh == {"open", "initialized", "found"}
Publishing == {"announced", "recording"}
Reading == {"ready", "playing"}
StateSet == {"new", "gone"} \cup Fresh \cup Publishing \cup Reading

\* stream.Close() on what the map holds for t, if anything.
CloseCurrent(t) == closed' = closed \cup ({streams[t]} \ {None})

Init ==
  /\ state = [s \in Session |-> "new"]
  /\ path = [s \in Session |-> None]
  /\ streams = [t \in Token |-> None]
  /\ publishers = [s \in Session |-> None]
  /\ readers = {}
  /\ source = [s \in Session |-> None]
  /\ sink = [s \in Session |-> None]
  /\ closed = {}
  /\ stored = {}

SessionOpen(s) ==
  /\ state[s] = "new"
  /\ state' = [state EXCEPT ![s] = "open"]
  /\ UNCHANGED <<path, streams, publishers, readers, source, sink, closed, stored>>

-----------------------------------------------------------------------------
(* Publishers: ANNOUNCE, then RECORD.                                      *)

\* OnAnnounce up to stream.Initialize(), which may fail (status 500).
AnnounceInitialize(s, t) ==
  /\ state[s] = "open"
  /\ state' = [state EXCEPT ![s] = "initialized"]
  /\ path' = [path EXCEPT ![s] = t]
  /\ UNCHANGED <<streams, publishers, readers, source, sink, closed, stored>>

\* Mutant: the stream that is replaced is not closed.
AnnounceStore_NoClose(s) ==
  /\ state[s] = "initialized"
  /\ streams' = [streams EXCEPT ![path[s]] = s]
  /\ publishers' = [publishers EXCEPT ![s] = path[s]]
  /\ state' = [state EXCEPT ![s] = "announced"]
  /\ stored' = stored \cup {s}
  /\ UNCHANGED <<path, readers, source, sink, closed>>

\* The lock section of OnAnnounce.
AnnounceStore(s) ==
  /\ state[s] = "initialized"
  /\ CloseCurrent(path[s])
  /\ streams' = [streams EXCEPT ![path[s]] = s]
  /\ publishers' = [publishers EXCEPT ![s] = path[s]]
  /\ state' = [state EXCEPT ![s] = "announced"]
  /\ stored' = stored \cup {s}
  /\ UNCHANGED <<path, readers, source, sink>>

\* OnRecord: refused (status 400) when the map holds no stream by now.
Record(s) ==
  /\ state[s] = "announced"
  /\ streams[publishers[s]] # None
  /\ sink' = [sink EXCEPT ![s] = streams[publishers[s]]]
  /\ state' = [state EXCEPT ![s] = "recording"]
  /\ UNCHANGED <<path, streams, publishers, readers, source, closed, stored>>

-----------------------------------------------------------------------------
(* Readers: SETUP, then PLAY.                                              *)

\* OnSetup reads the map and returns the stream it found (404 otherwise) ...
SetupFind(s, t) ==
  /\ state[s] = "open" /\ streams[t] # None
  /\ state' = [state EXCEPT ![s] = "found"]
  /\ path' = [path EXCEPT ![s] = t]
  /\ source' = [source EXCEPT ![s] = streams[t]]
  /\ UNCHANGED <<streams, publishers, readers, sink, closed, stored>>

\* ... to which gortsplib then attaches the session, unless it was closed
\* in the meantime: the request fails and the session starts over.
SetupAttach(s) ==
  /\ state[s] = "found"
  /\ \/ /\ source[s] \notin closed
        /\ state' = [state EXCEPT ![s] = "ready"]
        /\ UNCHANGED source
     \/ /\ source[s] \in closed
        /\ state' = [state EXCEPT ![s] = "open"]
        /\ source' = [source EXCEPT ![s] = None]
  /\ UNCHANGED <<path, streams, publishers, readers, sink, closed, stored>>

Play(s) ==
  /\ state[s] = "ready"
  /\ readers' = readers \cup {s}
  /\ state' = [state EXCEPT ![s] = "playing"]
  /\ UNCHANGED <<path, streams, publishers, source, sink, closed, stored>>

-----------------------------------------------------------------------------
(* The end of a session and of a stream.                                   *)

\* Mutants: the stream of a publisher that leaves stays; a reader that leaves
\* stays in s.readers.
OnSessionClose_KeepsStream(s) ==
  /\ state[s] \in {"open"} \cup Publishing \cup Reading
  /\ state' = [state EXCEPT ![s] = "gone"]
  /\ readers' = readers \ {s}
  /\ source' = [source EXCEPT ![s] = None]
  /\ publishers' = [publishers EXCEPT ![s] = None]
  /\ UNCHANGED <<path, streams, sink, closed, stored>>

OnSessionClose_KeepsReader(s) ==
  LET t == publishers[s] IN
  /\ state[s] \in {"open"} \cup Publishing \cup Reading
  /\ state' = [state EXCEPT ![s] = "gone"]
  /\ source' = [source EXCEPT ![s] = None]
  /\ publishers' = [publishers EXCEPT ![s] = None]
  /\ IF t # None
     THEN CloseCurrent(t) /\ streams' = [streams EXCEPT ![t] = None]
     ELSE UNCHANGED <<closed, streams>>
  /\ UNCHANGED <<path, readers, sink, stored>>

\* The callback OnSessionClose, once no other callback of s is running.
OnSessionClose(s) ==
  LET t == publishers[s] IN
  /\ state[s] \in {"open"} \cup Publishing \cup Reading
  /\ state' = [state EXCEPT ![s] = "gone"]
  /\ readers' = readers \ {s}
  /\ source' = [source EXCEPT ![s] = None]
  /\ publishers' = [publishers EXCEPT ![s] = None]
  /\ IF t # None
     THEN CloseCurrent(t) /\ streams' = [streams EXCEPT ![t] = None]
     ELSE UNCHANGED <<closed, streams>>
  /\ UNCHANGED <<path, sink, stored>>

\* gortsplib ends the sessions that read from a closed stream.
DropReader(s) ==
  /\ state[s] \in Reading /\ source[s] \in closed
  /\ OnSessionClose(s)

\* CloseStream, called by the controller when a profile changes or goes.
CloseStream(t) ==
  /\ streams[t] # None
  /\ CloseCurrent(t)
  /\ streams' = [streams EXCEPT ![t] = None]
  /\ UNCHANGED <<state, path, publishers, readers, source, sink, stored>>

\* Close, at shutdown: gortsplib then ends the sessions, announcements that were
\* under way included.
Close ==
  /\ closed' = closed \cup ({streams[t] : t \in Token} \ {None})
  /\ streams' = [t \in Token |-> None]
  /\ UNCHANGED <<state, path, publishers, readers, source, sink, stored>>

Callback(s) ==
  \/ AnnounceStore(s) \/ SetupAttach(s) \/ Play(s) \/ Record(s)
  \/ \E t \in Token : AnnounceInitialize(s, t) \/ SetupFind(s, t)

Next ==
  \/ \E s \in Session : SessionOpen(s) \/ Callback(s) \/ OnSessionClose(s)
  \/ \E t \in Token : CloseStream(t)
  \/ Close

\* A callback that has begun returns, and gortsplib closes the readers of a
\* closed stream.  Nothing obliges a client to send a request or to leave.
Fairness ==
  \A s \in Session :
    WF_vars(AnnounceStore(s)) /\ WF_vars(SetupAttach(s)) /\ WF_vars(DropReader(s))

Spec == Init /\ [][Next]_vars
FairSpec == Spec /\ Fairness

-----------------------------------------------------------------------------
(* Properties.                                                             *)

TypeOK ==
  /\ state \in [Session -> StateSet]
  /\ path \in [Session -> Token \cup {None}]
  /\ streams \in [Token -> Session \cup {None}]
  /\ publishers \in [Session -> Token \cup {None}]
  /\ readers \subseteq Session
  /\ source \in [Session -> Session \cup {None}]
  /\ sink \in [Session -> Session \cup {None}]
  /\ closed \subseteq Session
  /\ stored \subseteq Session

\* A stream that was stored is either the one the map serves for its token or
\* closed, never both and never neither: replacing it, closing it on a hot
\* reload and losing its publisher in any order leave no reader attached to a
\* stream nobody can reach, and no closed stream to be handed out.
ServedXorClosed ==
  \A s \in stored : (streams[path[s]] = s) # (s \in closed)

\* The map serves the stream of a publisher that is still there.
ServedStreamHasPublisher ==
  \A t \in Token : streams[t] # None =>
    state[streams[t]] \in Publishing /\ publishers[streams[t]] = t

\* A publisher's packets go to the stream it announced.  Only one that was
\* replaced or closed between its ANNOUNCE and its RECORD feeds another stream,
\* its successor's, and never one of another token.
PacketsStayWithToken ==
  \A s \in Session : sink[s] # None =>
    path[sink[s]] = path[s] /\ (sink[s] = s \/ s \in closed)

\* s.readers, which the client list and the reader count are made of, holds
\* exactly the sessions that play.
ReadersArePlaying == readers = {s \in Session : state[s] = "playing"}

\* "When a publisher disappears its stream is closed so that readers reconnect
\* instead of waiting on a dead stream": nobody keeps reading from a publisher
\* that is gone.
ReadersLeaveDeadStream ==
  \A s, r \in Session : (state[s] = "gone" /\ source[r] = s) ~> (source[r] # s)

-----------------------------------------------------------------------------
(* The inductive invariant; RtspServerProofs proves it.                    *)

\* Where a session stands with respect to the stream it announced.
PublisherInv ==
  \A s \in Session :
    /\ state[s] = "initialized" => path[s] \in Token
    /\ s \in stored => path[s] \in Token /\ state[s] \in Publishing \cup {"gone"}
    /\ state[s] \in Publishing => s \in stored /\ publishers[s] = path[s]
    /\ publishers[s] # None => state[s] \in Publishing
    /\ sink[s] # None => s \in stored /\ sink[s] \in stored

\* The map refers to stored streams only, each under the token it was announced
\* for, and only those are ever closed.
StreamInv ==
  /\ \A t \in Token : streams[t] # None => streams[t] \in stored /\ path[streams[t]] = t
  /\ closed \subseteq stored

IInv ==
  /\ TypeOK /\ PublisherInv /\ StreamInv
  /\ ServedXorClosed /\ ServedStreamHasPublisher /\ PacketsStayWithToken /\ ReadersArePlaying

=============================================================================
