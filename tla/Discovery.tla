------------------------------ MODULE Discovery ------------------------------
(***************************************************************************)
(* WS-Discovery (src/internal/onvif/discovery.go): one goroutine reads     *)
(* datagrams into one buffer, and starts a goroutine for every probe.      *)
(*                                                                         *)
(* That goroutine is handed the bytes where they lie and its sender.  It   *)
(* reads the configuration and looks for an address of this host before it *)
(* parses the probe, while the loop may read the next datagram over it.    *)
(*                                                                         *)
(* UDP loses, repeats and reorders: any datagram may come at any time.  A  *)
(* datagram is who sent it, its size and whether it reads as a probe; its  *)
(* identity is its sender's.                                               *)
(***************************************************************************)
EXTENDS Naturals, FiniteSets

CONSTANTS
  Prober,       \* clients that look for cameras
  Placeholder,  \* the message identity of zeros
  MaxDatagrams  \* bound: datagrams read

ASSUME DiscoveryAssumption == Placeholder \notin Prober /\ MaxDatagrams \in Nat

Size == {1, 2}
\* "broken" has the words of a probe and no identity that can be read; "other" has
\* an identity and is no probe.
Datagram == [from : Prober, size : Size, is : {"probe", "broken", "other"}]

VARIABLES
  listen,    \* the loop: "reading", "copying" into the buffer, "deciding" or "ended"
  buf,       \* what the buffer holds
  incoming,  \* what is being copied into it
  count,     \* datagrams read so far
  conn,      \* the socket is open
  answering, \* answering[i]: the goroutine for the i-th datagram
  payload,   \* payload[i]: the datagram it was started for
  relates,   \* relates[i]: the message identity it has parsed
  replies,   \* what was sent: <<datagram, to, relates to>>
  overtaken  \* history: datagrams whose buffer was written again before they were parsed

discoveryVars ==
  <<listen, buf, incoming, count, conn, answering, payload, relates, replies, overtaken>>

Number == 1 .. MaxDatagrams
Blank == [from |-> Placeholder, size |-> 1, is |-> "other"]

DiscoveryInit ==
  /\ listen = "reading" /\ buf = Blank /\ incoming = Blank /\ count = 0 /\ conn = TRUE
  /\ answering = [i \in Number |-> "none"] /\ payload = [i \in Number |-> Blank]
  /\ relates = [i \in Number |-> Placeholder] /\ replies = {} /\ overtaken = {}

Step(i, step) == answering' = [answering EXCEPT ![i] = step]

\* ReadFromUDP starts to copy a datagram.
Read(d) ==
  /\ listen = "reading" /\ conn /\ count < MaxDatagrams
  /\ listen' = "copying" /\ incoming' = d /\ count' = count + 1
  /\ overtaken' = overtaken \cup {i \in Number : answering[i] = "started"}
  /\ UNCHANGED <<buf, conn, answering, payload, relates, replies>>

Copied ==
  /\ listen = "copying"
  /\ listen' = "deciding" /\ buf' = incoming /\ incoming' = Blank
  /\ UNCHANGED <<count, conn, answering, payload, relates, replies, overtaken>>

IsProbe(d) == d.is # "other"

Decide ==
  /\ listen = "deciding"
  /\ listen' = "reading"
  /\ IF IsProbe(buf)
     THEN Step(count, "started") /\ payload' = [payload EXCEPT ![count] = buf]
     ELSE UNCHANGED <<answering, payload>>
  /\ UNCHANGED <<buf, incoming, count, conn, relates, replies, overtaken>>

\* What the first n bytes of the buffer are parsed as when d lies there.
ParsedAs(d, n) == IF d.is # "broken" /\ d.size <= n THEN d.from ELSE Placeholder

\* ProbeMessageID of a buffer that may just be written: the old datagram, the new
\* one, or a mixture, whose identity is nobody's.
ProbeMessageID(n) ==
  IF listen = "copying" THEN {ParsedAs(buf, n), ParsedAs(incoming, n), Placeholder}
  ELSE {ParsedAs(buf, n)}

BuildProbeMatches(i) ==
  /\ answering[i] = "started"
  /\ relates' \in {[relates EXCEPT ![i] = id] : id \in ProbeMessageID(payload[i].size)}
  /\ Step(i, "sending")
  /\ UNCHANGED <<listen, buf, incoming, count, conn, payload, replies, overtaken>>

\* Mutant: the goroutine sees the loop's variable and not its argument.
Sender_Latest(i) == buf.from
Sender(i) == payload[i].from

\* A closed socket sends nothing.
WriteToUDP(i) ==
  /\ answering[i] = "sending"
  /\ replies' = IF conn THEN replies \cup {<<i, Sender(i), relates[i]>>} ELSE replies
  /\ Step(i, "done")
  /\ UNCHANGED <<listen, buf, incoming, count, conn, payload, relates, overtaken>>

\* Close waits for the loop, not for the goroutines it has started.
CloseDiscovery ==
  /\ conn /\ conn' = FALSE
  /\ UNCHANGED <<listen, buf, incoming, count, answering, payload, relates, replies, overtaken>>

LoopEnds ==
  /\ listen = "reading" /\ ~conn /\ listen' = "ended"
  /\ UNCHANGED <<buf, incoming, count, conn, answering, payload, relates, replies, overtaken>>

DiscoveryNext ==
  \/ \E d \in Datagram : Read(d)
  \/ Copied \/ Decide \/ CloseDiscovery \/ LoopEnds
  \/ \E i \in Number : BuildProbeMatches(i) \/ WriteToUDP(i)

DiscoverySpec == DiscoveryInit /\ [][DiscoveryNext]_discoveryVars

-----------------------------------------------------------------------------
(* Properties.                                                             *)

\* Whoever sent a probe is sent the answer to it, and the answer is related to
\* that probe: by its identity, or by none when the probe has none that can be
\* read.  Only a probe whose bytes were written over before they were parsed may
\* be answered under another identity, and then still to its own sender.
AnswersRelate ==
  \A r \in replies :
    LET probe == payload[r[1]] IN
    /\ r[2] = probe.from
    /\ r[1] \notin overtaken => r[3] = ParsedAs(probe, probe.size)

-----------------------------------------------------------------------------
(* The inductive invariant.                                                *)

DiscoveryTypeOK ==
  /\ listen \in {"reading", "copying", "deciding", "ended"}
  /\ buf \in Datagram \cup {Blank} /\ incoming \in Datagram \cup {Blank}
  /\ count \in 0 .. MaxDatagrams /\ conn \in BOOLEAN
  /\ answering \in [Number -> {"none", "started", "sending", "done"}]
  /\ payload \in [Number -> Datagram \cup {Blank}]
  /\ relates \in [Number -> Prober \cup {Placeholder}]
  /\ overtaken \subseteq Number

\* A goroutine starts after its datagram was read, and answers once.
GoroutineInv ==
  /\ \A i \in Number :
       answering[i] # "none" => i < count \/ (i = count /\ listen \in {"reading", "ended"})
  /\ \A r \in replies : r[1] \in Number /\ answering[r[1]] = "done"

\* What a goroutine that is not overtaken has still to parse lies in the buffer, and
\* what it has parsed is what it was started for.
BufferInv ==
  \A i \in Number \ overtaken :
    /\ answering[i] = "started" => listen \in {"reading", "ended"} /\ buf = payload[i]
    /\ answering[i] = "sending" => relates[i] = ParsedAs(payload[i], payload[i].size)

DiscoveryInv == DiscoveryTypeOK /\ GoroutineInv /\ BufferInv /\ AnswersRelate

=============================================================================
