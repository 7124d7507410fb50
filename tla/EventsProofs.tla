---------------------------- MODULE EventsProofs ----------------------------
(***************************************************************************)
(* Proofs about Events, for all callers and dashboards, any size of the    *)
(* ring and of the buffers, and any number of entries and moves.           *)
(***************************************************************************)
EXTENDS Events, TLAPS

\* Before the first caller the invariant holds.
LEMMA InitIInv == Init => IInv
  <1> SUFFICES ASSUME Init PROVE IInv
    OBVIOUS
  <1> USE EventsAssumption DEF Init
  <1>1. TypeOK
    BY DEF TypeOK, Silent
  <1>2. HubInv /\ HandlerInv
    BY DEF HubInv, HandlerInv, Writer
  <1>3. MessageInv
    BY DEF MessageInv, Writer
  <1>4. PositionInv /\ EntriesInv
    BY DEF PositionInv, EntriesInv
  <1>5. OrderInv
    BY DEF OrderInv, Range
  <1>6. PassedInv
    BY DEF PassedInv, PositionsInOrder, Range
  <1>7. QED
    BY <1>1, <1>2, <1>3, <1>4, <1>5, <1>6 DEF IInv

-----------------------------------------------------------------------------
(* The types.                                                              *)

\* Every step keeps the types.
LEMMA StepType ==
  ASSUME TypeOK, Next
  PROVE  TypeOK'
  <1> USE EventsAssumption DEF TypeOK, Writer, Goto, logVars, ptzVars, hubVars, linkVars
  <1>1. ASSUME NEW l \in Level, SetMinLevel(l) PROVE TypeOK'
    BY <1>1 DEF SetMinLevel
  <1>2. ASSUME NEW c \in Caller, NEW l \in Level, Log(c, l) PROVE TypeOK'
    BY <1>2 DEF Log, LogMessage
  <1>3. CASE Move
    <2> DEFINE quiet == [d \in Client |-> {m \in 0 .. position : PtzMessage(m) \notin Telling(d)}]
    <2>1. quiet \in [Client -> SUBSET Nat]
      OBVIOUS
    <2>2. passed' = Append(passed, quiet)
      BY <1>3 DEF Move
    <2> HIDE DEF quiet
    <2>3. passed' \in Seq([Client -> SUBSET Nat]) /\ Len(passed') = position + 1
      BY <2>1, <2>2
    <2>4. position' = position + 1 /\ position' \in 0 .. MaxMoves
      BY <1>3 DEF Move
    <2>5. msg' \in [Writer -> {"none", "log", "ptz"} \X Nat]
      BY <1>3 DEF Move, PtzMessage, Listener
    <2>6. QED
      BY <1>3, <2>3, <2>4, <2>5 DEF Move, Listener
  <1>4. ASSUME NEW w \in Writer, Lock(w) PROVE TypeOK'
    BY <1>4 DEF Lock
  <1>5. ASSUME NEW w \in Writer, Unlock(w) PROVE TypeOK'
    BY <1>5 DEF Unlock, Silent
  <1>6. ASSUME NEW d \in Client, Write(d) PROVE TypeOK'
    <2>1. msg[hub] \in {"none", "log", "ptz"} \X Nat
      BY <1>6 DEF Write
    <2>2. msg[hub][2] \in Nat
      BY <2>1
    <2>3. told' \in [Client -> Seq(Nat)]
      <3>1. Append(told[d], msg[hub][2]) \in Seq(Nat)
        BY <2>2
      <3>2. told' \in {told, [told EXCEPT ![d] = Append(told[d], msg[hub][2])]}
        BY <1>6 DEF Write
      <3>3. CASE told' = told
        BY <3>3
      <3>4. CASE told' = [told EXCEPT ![d] = Append(told[d], msg[hub][2])]
        BY <3>1, <3>4
      <3>5. QED
        BY <3>2, <3>3, <3>4
    <2>4. sent' \in [Client -> Seq(Nat)]
      <3>1. Append(sent[d], msg[hub][2]) \in Seq(Nat)
        BY <2>2
      <3>2. sent' \in {sent, [sent EXCEPT ![d] = Append(sent[d], msg[hub][2])]}
        BY <1>6 DEF Write
      <3>3. CASE sent' = sent
        BY <3>3
      <3>4. CASE sent' = [sent EXCEPT ![d] = Append(sent[d], msg[hub][2])]
        BY <3>1, <3>4
      <3>5. QED
        BY <3>2, <3>3, <3>4
    <2>5. unread' \in [Client -> Nat] /\ todo' \subseteq Client
      BY <1>6 DEF Write
    <2>6. QED
      BY <1>6, <2>3, <2>4, <2>5 DEF Write
  <1>7. ASSUME NEW d \in Client, WriteFails(d) PROVE TypeOK'
    BY <1>7 DEF WriteFails, AfterFailure
  <1>8. ASSUME NEW d \in Client, Upgrade(d) PROVE TypeOK'
    BY <1>8 DEF Upgrade
  <1>9. ASSUME NEW d \in Client, addWSClient(d) PROVE TypeOK'
    <2>1. since' \in [Client -> Nat]
      BY <1>9 DEF addWSClient
    <2>2. QED
      BY <1>9, <2>1 DEF addWSClient
  <1>10. ASSUME NEW d \in Client, ReadFails(d) \/ removeWSClient(d) PROVE TypeOK'
    <2>1. CASE ReadFails(d)
      BY <2>1 DEF ReadFails
    <2>2. CASE removeWSClient(d)
      BY <2>2 DEF removeWSClient
    <2>3. QED
      BY <1>10, <2>1, <2>2
  <1>11. ASSUME NEW d \in Client, Greet(d) PROVE TypeOK'
    BY <1>11 DEF Greet, PtzMessage
  <1>12. ASSUME NEW d \in Client, Receive(d) PROVE TypeOK'
    BY <1>12 DEF Receive
  <1>13. ASSUME NEW d \in Client, Break(d) PROVE TypeOK'
    <2>1. link' \in [Client -> {"away", "open", "broken"}] /\ unread' \in [Client -> Nat]
      BY <1>13 DEF Break
    <2>2. told' \in [Client -> Seq(Nat)] /\ sent' \in [Client -> Seq(Nat)] /\ since' \in [Client -> Nat]
      BY <1>13 DEF Break
    <2>3. QED
      BY <1>13, <2>1, <2>2 DEF Break
  <1>14. QED
    BY <1>1, <1>2, <1>3, <1>4, <1>5, <1>6, <1>7, <1>8, <1>9, <1>10, <1>11, <1>12, <1>13 DEF Next

-----------------------------------------------------------------------------
(* Who holds the mutex, what everybody brings, and who is registered.      *)

ControlInv == HubInv /\ MessageInv /\ HandlerInv

\* The messages of the logger and of the controller, and their tags.
LEMMA Messages ==
  ASSUME NEW m \in Nat, NEW n \in Nat
  PROVE  /\ LogMessage(m) = LogMessage(n) <=> m = n
         /\ PtzMessage(m) = PtzMessage(n) <=> m = n
         /\ LogMessage(m) # PtzMessage(n)
         /\ LogMessage(m)[1] = "log" /\ LogMessage(m)[2] = m
         /\ PtzMessage(m)[1] = "ptz" /\ PtzMessage(m)[2] = m
  BY DEF LogMessage, PtzMessage

\* What a message adds to those a dashboard was sent.
LEMMA AppendRange ==
  ASSUME NEW s \in Seq(Nat), NEW x \in Nat
  PROVE  Range(Append(s, x)) = Range(s) \cup {x}
  <1>1. DOMAIN Append(s, x) = DOMAIN s \cup {Len(s) + 1}
    OBVIOUS
  <1>2. Append(s, x)[Len(s) + 1] = x /\ \A i \in DOMAIN s : Append(s, x)[i] = s[i]
    OBVIOUS
  <1>3. QED
    BY <1>1, <1>2 DEF Range

\* Every step leaves the mutex, the messages and the handlers in order.
LEMMA ControlStep ==
  ASSUME IInv, Next
  PROVE  ControlInv'
  <1> USE EventsAssumption
      DEF IInv, TypeOK, Writer, Goto, logVars, ptzVars, hubVars, linkVars, ControlInv, HubInv, MessageInv,
          HandlerInv
  <1>1. ASSUME NEW l \in Level, SetMinLevel(l) PROVE ControlInv'
    BY <1>1 DEF SetMinLevel
  <1>2. ASSUME NEW c \in Caller, NEW l \in Level, Log(c, l) PROVE ControlInv'
    BY <1>2 DEF Log
  <1>3. CASE Move
    <2>1. position + 1 \in Listener
      BY <1>3 DEF Move, Listener
    <2>2. pc[position + 1] = "idle"
      <3>1. ~(position + 1 <= position)
        OBVIOUS
      <3>2. QED
        BY <2>1, <3>1
    <2>3. HubInv'
      BY <1>3, <2>1, <2>2 DEF Move
    <2>4. \A k \in Listener : k <= position => k <= position'
      BY <1>3 DEF Move, Listener
    <2>5. \A k \in Listener : /\ pc'[k] \in {"idle", "waiting", "writing"}
                             /\ pc'[k] # "idle" => k <= position' /\ msg'[k] = PtzMessage(k)
      BY <1>3, <2>1, <2>4 DEF Move
    <2>6. MessageInv'
      BY <1>3, <2>1, <2>5 DEF Move
    <2>7. HandlerInv'
      BY <1>3, <2>1 DEF Move
    <2>8. QED
      BY <2>3, <2>6, <2>7
  <1>4. ASSUME NEW w \in Writer, Lock(w) PROVE ControlInv'
    BY <1>4 DEF Lock
  <1>5. ASSUME NEW w \in Writer, Unlock(w) PROVE ControlInv'
    BY <1>5 DEF Unlock
  <1>6. ASSUME NEW d \in Client, Write(d) \/ WriteFails(d) PROVE ControlInv'
    <2>1. /\ UNCHANGED <<logged, position, pc, msg, hub, link>>
          /\ wsClients' \subseteq wsClients /\ todo' \subseteq todo
      BY <1>6 DEF Write, WriteFails, AfterFailure
    <2>2. hub # Nobody
      BY <1>6 DEF Write, WriteFails
    <2>3. QED
      BY <2>1, <2>2
  <1>7. ASSUME NEW d \in Client, Upgrade(d) \/ addWSClient(d) \/ ReadFails(d) \/ removeWSClient(d)
        PROVE ControlInv'
    <2>1. d \notin Caller /\ d \notin Listener /\ d # Nobody
      OBVIOUS
    <2>2. CASE Upgrade(d)
      BY <2>1, <2>2 DEF Upgrade
    <2>3. CASE addWSClient(d)
      <3>1. HubInv'
        BY <2>1, <2>3 DEF addWSClient
      <3>2. MessageInv'
        BY <2>1, <2>3 DEF addWSClient
      <3>3. HandlerInv'
        BY <2>1, <2>3 DEF addWSClient
      <3>4. QED
        BY <3>1, <3>2, <3>3
    <2>4. CASE ReadFails(d)
      BY <2>1, <2>4 DEF ReadFails
    <2>5. CASE removeWSClient(d)
      BY <2>1, <2>5 DEF removeWSClient
    <2>6. QED
      BY <1>7, <2>2, <2>3, <2>4, <2>5
  <1>8. ASSUME NEW d \in Client, Greet(d) PROVE ControlInv'
    BY <1>8 DEF Greet
  <1>9. ASSUME NEW d \in Client, Receive(d) \/ Break(d) PROVE ControlInv'
    <2>1. UNCHANGED <<logged, position, pc, msg, hub, todo, wsClients>>
      BY <1>9 DEF Receive, Break
    <2>2. \A e \in Client : link'[e] = link[e] \/ link'[e] = "broken"
      BY <1>9 DEF Receive, Break
    <2>3. QED
      BY <2>1, <2>2
  <1>10. QED
    BY <1>1, <1>2, <1>3, <1>4, <1>5, <1>6, <1>7, <1>8, <1>9 DEF Next

-----------------------------------------------------------------------------
(* The position.                                                           *)

\* A dashboard goes on to know the position while no message for it is dropped.
LEMMA PositionKept ==
  ASSUME NEW d \in Client, KnowsPosition(d), UNCHANGED <<position, told>>,
         \A w \in Listener \cup {d} : Owes(w, d) => Owes(w, d)' /\ msg'[w] = msg[w]
  PROVE  KnowsPosition(d)'
  BY DEF KnowsPosition

\* Every step leaves an open dashboard with the last position sent or on its way.
LEMMA PositionStep ==
  ASSUME IInv, Next
  PROVE  PositionInv'
  <1> SUFFICES ASSUME NEW e \in wsClients', link'[e] = "open", pc'[e] # "greeting"
               PROVE  KnowsPosition(e)'
    BY DEF PositionInv
  <1> USE EventsAssumption
      DEF IInv, TypeOK, Writer, Goto, logVars, ptzVars, hubVars, linkVars, HubInv, HandlerInv, PositionInv, Owes
  <1>1. ASSUME NEW l \in Level, SetMinLevel(l) PROVE KnowsPosition(e)'
    BY <1>1, PositionKept DEF SetMinLevel
  <1>2. ASSUME NEW c \in Caller, NEW l \in Level, Log(c, l) PROVE KnowsPosition(e)'
    <2>1. \A w \in Listener \cup {e} : w # c
      BY <1>2 DEF Log
    <2>2. QED
      BY <1>2, <2>1, PositionKept DEF Log
  <1>3. CASE Move
    <2>1. position + 1 \in Listener
      BY <1>3 DEF Move, Listener
    <2>2. pc'[position + 1] = "waiting" /\ msg'[position + 1] = PtzMessage(position')
      BY <1>3, <2>1 DEF Move
    <2>3. QED
      BY <1>3, <2>1, <2>2 DEF Move, KnowsPosition
  <1>4. ASSUME NEW w \in Writer, Lock(w) PROVE KnowsPosition(e)'
    <2>1. e \in wsClients /\ link[e] = "open" /\ pc[e] # "greeting"
      BY <1>4 DEF Lock
    <2>2. \A v \in Listener \cup {e} : Owes(v, e) => Owes(v, e)' /\ msg'[v] = msg[v]
      BY <1>4, <2>1 DEF Lock
    <2>3. QED
      BY <1>4, <2>1, <2>2, PositionKept DEF Lock
  <1>5. ASSUME NEW w \in Writer, Unlock(w) PROVE KnowsPosition(e)'
    <2>1. e \in wsClients /\ link[e] = "open" /\ pc[e] # "greeting"
      BY <1>5 DEF Unlock
    <2>2. \A v \in Listener \cup {e} : Owes(v, e) => Owes(v, e)' /\ msg'[v] = msg[v]
      BY <1>5, <2>1 DEF Unlock
    <2>3. QED
      BY <1>5, <2>1, <2>2, PositionKept DEF Unlock
  <1>6. ASSUME NEW d \in Client, Write(d) PROVE KnowsPosition(e)'
    <2>1. e \in wsClients /\ link[e] = "open" /\ pc[e] # "greeting" /\ KnowsPosition(e)
      BY <1>6 DEF Write
    <2>0. msg[hub][2] \in Nat /\ told[e] \in Seq(Nat) /\ position' = position
      <3>1. msg[hub] \in {"none", "log", "ptz"} \X Nat
        BY <1>6 DEF Write
      <3>2. QED
        BY <1>6, <2>1, <3>1 DEF Write
    <2>2. CASE position \in Range(told[e])
      <3>1. told'[e] = told[e] \/ told'[e] = Append(told[e], msg[hub][2])
        <4>1. told' \in {told, [told EXCEPT ![d] = Append(told[d], msg[hub][2])]}
          BY <1>6 DEF Write
        <4>2. QED
          BY <2>1, <4>1
      <3>2. Range(Append(told[e], msg[hub][2])) = Range(told[e]) \cup {msg[hub][2]}
        BY <2>0, AppendRange
      <3>3. position \in Range(told'[e])
        BY <2>2, <3>1, <3>2
      <3>4. QED
        BY <2>0, <3>3 DEF KnowsPosition
    <2>3. ASSUME NEW w \in Listener \cup {e}, Owes(w, e), msg[w] = PtzMessage(position)
          PROVE  KnowsPosition(e)'
      <3>1. CASE hub = w /\ e = d
        <4>1. msg[hub][1] = "ptz" /\ msg[hub][2] = position
          BY <2>3, <3>1 DEF PtzMessage
        <4>2. told'[e] = Append(told[e], position)
          BY <1>6, <3>1, <4>1 DEF Write
        <4>3. position \in Range(told'[e])
          BY <2>0, <4>1, <4>2, AppendRange
        <4>4. QED
          BY <2>0, <4>3 DEF KnowsPosition
      <3>2. CASE ~(hub = w /\ e = d)
        <4>1. Owes(w, e)' /\ msg'[w] = PtzMessage(position')
          BY <1>6, <2>3, <3>2 DEF Write
        <4>2. QED
          BY <4>1 DEF KnowsPosition
      <3>3. QED
        BY <3>1, <3>2
    <2>4. QED
      BY <2>1, <2>2, <2>3 DEF KnowsPosition
  <1>7. ASSUME NEW d \in Client, WriteFails(d) PROVE KnowsPosition(e)'
    BY <1>7, PositionKept DEF WriteFails, AfterFailure
  <1>8. ASSUME NEW d \in Client, Upgrade(d) \/ addWSClient(d) \/ ReadFails(d) \/ removeWSClient(d)
        PROVE KnowsPosition(e)'
    <2>1. e \in wsClients /\ link[e] = "open" /\ pc[e] # "greeting" /\ e # d
      <3>1. CASE Upgrade(d)
        BY <3>1 DEF Upgrade
      <3>2. CASE addWSClient(d)
        BY <3>2 DEF addWSClient
      <3>3. CASE ReadFails(d)
        BY <3>3 DEF ReadFails
      <3>4. CASE removeWSClient(d)
        BY <3>4 DEF removeWSClient
      <3>5. QED
        BY <1>8, <3>1, <3>2, <3>3, <3>4
    <2>2. \A v \in Listener \cup {e} : Owes(v, e) => Owes(v, e)' /\ msg'[v] = msg[v]
      BY <1>8, <2>1 DEF Upgrade, addWSClient, ReadFails, removeWSClient
    <2>3. UNCHANGED <<position, told>>
      BY <1>8 DEF Upgrade, addWSClient, ReadFails, removeWSClient
    <2>4. QED
      BY <2>1, <2>2, <2>3, PositionKept
  <1>9. ASSUME NEW d \in Client, Greet(d) PROVE KnowsPosition(e)'
    <2>1. CASE e = d
      BY <1>9, <2>1 DEF Greet, KnowsPosition
    <2>2. CASE e # d
      BY <1>9, <2>2, PositionKept DEF Greet
    <2>3. QED
      BY <2>1, <2>2
  <1>10. ASSUME NEW d \in Client, Receive(d) PROVE KnowsPosition(e)'
    BY <1>10, PositionKept DEF Receive
  <1>11. ASSUME NEW d \in Client, Break(d) PROVE KnowsPosition(e)'
    <2>1. e \in wsClients /\ e # d /\ link[e] = "open" /\ pc[e] # "greeting" /\ KnowsPosition(e)
      BY <1>11 DEF Break
    <2>2. told'[e] = told[e] /\ UNCHANGED <<position, pc, msg, hub, todo>>
      BY <1>11, <2>1 DEF Break
    <2>3. QED
      BY <2>1, <2>2 DEF KnowsPosition
  <1>12. QED
    BY <1>1, <1>2, <1>3, <1>4, <1>5, <1>6, <1>7, <1>8, <1>9, <1>10, <1>11 DEF Next

-----------------------------------------------------------------------------
(* The entries.                                                            *)

\* An entry is not lost on a dashboard while no call that brings it is dropped.
LEMMA EntryKept ==
  ASSUME NEW d \in Client, NEW n \in Nat, KnowsEntry(d, n), UNCHANGED sent,
         \A c \in Caller : Owes(c, d) => Owes(c, d)' /\ msg'[c] = msg[c]
  PROVE  KnowsEntry(d, n)'
  BY DEF KnowsEntry

\* Every step leaves an open dashboard with each entry sent, on its way or still to be.
LEMMA EntriesStep ==
  ASSUME IInv, Next
  PROVE  EntriesInv'
  <1> SUFFICES ASSUME NEW e \in wsClients', link'[e] = "open", NEW n \in 1 .. logged', n > since'[e]
               PROVE  KnowsEntry(e, n)'
    BY DEF EntriesInv
  <1>0. logged \in Nat /\ n \in Nat /\ e \in Client
    <2>1. e \in Client
      BY StepType DEF IInv, TypeOK
    <2>2. logged' \in Nat
      BY StepType DEF IInv, TypeOK
    <2>3. QED
      BY <2>1, <2>2 DEF IInv, TypeOK
  <1> USE <1>0, EventsAssumption
      DEF IInv, TypeOK, Writer, Goto, logVars, ptzVars, hubVars, linkVars, HubInv, HandlerInv, EntriesInv, Owes
  <1>1. ASSUME NEW l \in Level, SetMinLevel(l) PROVE KnowsEntry(e, n)'
    BY <1>1, EntryKept DEF SetMinLevel
  <1>2. ASSUME NEW c \in Caller, NEW l \in Level, Log(c, l) PROVE KnowsEntry(e, n)'
    <2>1. CASE n = logged + 1
      <3>1. Owes(c, e)' /\ msg'[c] = LogMessage(n)
        BY <1>2, <2>1 DEF Log
      <3>2. QED
        BY <3>1 DEF KnowsEntry
    <2>2. CASE n # logged + 1
      <3>1. n \in 1 .. logged
        BY <1>2, <2>2 DEF Log
      <3>2. KnowsEntry(e, n)
        BY <1>2, <3>1 DEF Log
      <3>3. \A b \in Caller : Owes(b, e) => Owes(b, e)' /\ msg'[b] = msg[b]
        BY <1>2 DEF Log
      <3>4. QED
        BY <1>2, <3>2, <3>3, EntryKept DEF Log
    <2>3. QED
      BY <2>1, <2>2
  <1>3. CASE Move
    <2>1. position + 1 \in Listener
      BY <1>3 DEF Move, Listener
    <2>2. \A c \in Caller : Owes(c, e) => Owes(c, e)' /\ msg'[c] = msg[c]
      BY <1>3, <2>1 DEF Move
    <2>3. QED
      BY <1>3, <2>2, EntryKept DEF Move
  <1>4. ASSUME NEW w \in Writer, Lock(w) PROVE KnowsEntry(e, n)'
    <2>1. KnowsEntry(e, n) /\ e \in wsClients
      BY <1>4 DEF Lock
    <2>2. \A c \in Caller : Owes(c, e) => Owes(c, e)' /\ msg'[c] = msg[c]
      BY <1>4, <2>1 DEF Lock
    <2>3. QED
      BY <1>4, <2>1, <2>2, EntryKept DEF Lock
  <1>5. ASSUME NEW w \in Writer, Unlock(w) PROVE KnowsEntry(e, n)'
    <2>1. KnowsEntry(e, n)
      BY <1>5 DEF Unlock
    <2>2. \A c \in Caller : Owes(c, e) => Owes(c, e)' /\ msg'[c] = msg[c]
      BY <1>5, <2>1 DEF Unlock
    <2>3. QED
      BY <1>5, <2>1, <2>2, EntryKept DEF Unlock
  <1>6. ASSUME NEW d \in Client, Write(d) PROVE KnowsEntry(e, n)'
    <2>1. KnowsEntry(e, n)
      BY <1>6 DEF Write
    <2>2. CASE n \in Range(sent[e])
      <3>1. sent'[e] = sent[e] \/ sent'[e] = Append(sent[e], msg[hub][2])
        <4>1. sent' \in {sent, [sent EXCEPT ![d] = Append(sent[d], msg[hub][2])]}
          BY <1>6 DEF Write
        <4>2. QED
          BY <4>1
      <3>2. msg[hub][2] \in Nat /\ sent[e] \in Seq(Nat)
        <4>1. msg[hub] \in {"none", "log", "ptz"} \X Nat
          BY <1>6 DEF Write
        <4>2. QED
          BY <4>1
      <3>3. n \in Range(sent'[e])
        <4>1. Range(Append(sent[e], msg[hub][2])) = Range(sent[e]) \cup {msg[hub][2]}
          BY <3>2, AppendRange
        <4>2. QED
          BY <2>2, <3>1, <4>1
      <3>4. QED
        BY <3>3 DEF KnowsEntry
    <2>3. ASSUME NEW c \in Caller, Owes(c, e), msg[c] = LogMessage(n)
          PROVE  KnowsEntry(e, n)'
      <3>1. CASE hub = c /\ e = d
        <4>1. msg[hub][1] = "log" /\ msg[hub][2] = n
          BY <2>3, <3>1 DEF LogMessage
        <4>2. sent'[e] = Append(sent[e], n)
          BY <1>6, <3>1, <4>1 DEF Write
        <4>3. QED
          BY <4>2, AppendRange DEF KnowsEntry
      <3>2. CASE ~(hub = c /\ e = d)
        <4>1. Owes(c, e)' /\ msg'[c] = LogMessage(n)
          BY <1>6, <2>3, <3>2 DEF Write
        <4>2. QED
          BY <4>1 DEF KnowsEntry
      <3>3. QED
        BY <3>1, <3>2
    <2>4. QED
      BY <2>1, <2>2, <2>3 DEF KnowsEntry
  <1>7. ASSUME NEW d \in Client, WriteFails(d) PROVE KnowsEntry(e, n)'
    <2>1. KnowsEntry(e, n)
      BY <1>7 DEF WriteFails
    <2>2. \A c \in Caller : Owes(c, e) => Owes(c, e)' /\ msg'[c] = msg[c]
      BY <1>7 DEF WriteFails, AfterFailure
    <2>3. QED
      BY <1>7, <2>1, <2>2, EntryKept DEF WriteFails
  <1>8. ASSUME NEW d \in Client, Upgrade(d) \/ addWSClient(d) \/ ReadFails(d) \/ removeWSClient(d)
        PROVE KnowsEntry(e, n)'
    <2>1. e # d
      <3>1. CASE Upgrade(d)
        BY <3>1 DEF Upgrade
      <3>2. CASE addWSClient(d)
        BY <3>2 DEF addWSClient
      <3>3. CASE ReadFails(d) \/ removeWSClient(d)
        BY <3>3 DEF ReadFails, removeWSClient
      <3>4. QED
        BY <1>8, <3>1, <3>2, <3>3
    <2>2. e \in wsClients /\ link[e] = "open" /\ UNCHANGED <<logged, sent>> /\ since'[e] = since[e]
      BY <1>8, <2>1 DEF Upgrade, addWSClient, ReadFails, removeWSClient
    <2>3. KnowsEntry(e, n)
      BY <2>2
    <2>4. \A c \in Caller : Owes(c, e) => Owes(c, e)' /\ msg'[c] = msg[c]
      BY <1>8 DEF Upgrade, addWSClient, ReadFails, removeWSClient
    <2>5. QED
      BY <2>2, <2>3, <2>4, EntryKept
  <1>9. ASSUME NEW d \in Client, Greet(d) PROVE KnowsEntry(e, n)'
    <2>1. KnowsEntry(e, n)
      BY <1>9 DEF Greet
    <2>2. \A c \in Caller : Owes(c, e) => Owes(c, e)' /\ msg'[c] = msg[c]
      BY <1>9 DEF Greet
    <2>3. QED
      BY <1>9, <2>1, <2>2, EntryKept DEF Greet
  <1>10. ASSUME NEW d \in Client, Receive(d) PROVE KnowsEntry(e, n)'
    BY <1>10, EntryKept DEF Receive
  <1>11. ASSUME NEW d \in Client, Break(d) PROVE KnowsEntry(e, n)'
    <2>1. e \in wsClients /\ e # d /\ link[e] = "open" /\ since'[e] = since[e] /\ UNCHANGED logged
      BY <1>11 DEF Break
    <2>2. KnowsEntry(e, n)
      BY <2>1
    <2>3. sent'[e] = sent[e] /\ UNCHANGED <<pc, msg, hub, todo>>
      BY <1>11, <2>1 DEF Break
    <2>4. QED
      BY <2>2, <2>3 DEF KnowsEntry
  <1>12. QED
    BY <1>1, <1>2, <1>3, <1>4, <1>5, <1>6, <1>7, <1>8, <1>9, <1>10, <1>11 DEF Next

-----------------------------------------------------------------------------
(* The order.                                                              *)

\* The calls that are under way after a step were so before, or it begins one.
LEMMA BroadcastingShrinks ==
  ASSUME \A c \in Caller : pc'[c] # "idle" => pc[c] # "idle" /\ msg'[c] = msg[c]
  PROVE  Broadcasting' \subseteq Broadcasting
  BY DEF Broadcasting

\* Every step leaves the entries of a dashboard in the order of the calls.
LEMMA OrderStep ==
  ASSUME IInv, Next
  PROVE  OrderInv'
  <1> USE EventsAssumption
      DEF IInv, TypeOK, Writer, Goto, logVars, ptzVars, hubVars, linkVars, HubInv, MessageInv, OrderInv
  <1>0. ASSUME UNCHANGED <<entries, logged, before, sent>>, Broadcasting' \subseteq Broadcasting
        PROVE  OrderInv'
    BY <1>0
  <1>1. ASSUME NEW c \in Caller, NEW l \in Level, Log(c, l) PROVE OrderInv'
    <2>1. logged' = logged + 1 /\ logged' \in Nat /\ UNCHANGED sent
      BY <1>1 DEF Log
    <2>2. Range(entries') \subseteq 1 .. logged'
      <3> DEFINE old == IF Len(entries) >= Capacity THEN Tail(entries) ELSE entries
      <3>1. old \in Seq(Nat) /\ Range(old) \subseteq Range(entries)
        BY DEF Range
      <3>2. entries' = Append(old, logged + 1)
        BY <1>1 DEF Log
      <3> HIDE DEF old
      <3>3. Range(entries') = Range(old) \cup {logged + 1}
        <4>1. logged + 1 \in Nat
          OBVIOUS
        <4>2. QED
          BY <3>1, <3>2, <4>1, AppendRange
      <3>4. QED
        BY <2>1, <3>1, <3>3
    <2>3. Broadcasting' = Broadcasting \cup {LogMessage(logged + 1)}
      BY <1>1 DEF Log, Broadcasting
    <2> DEFINE over == {m \in 1 .. logged : LogMessage(m) \notin Broadcasting}
    <2>4. before' = Append(before, over)
      BY <1>1 DEF Log
    <2>5. Len(before) = logged /\ before \in Seq(SUBSET Nat) /\ over \in SUBSET Nat
      OBVIOUS
    <2>6. \A n \in 1 .. logged : before'[n] = before[n]
      BY <2>4, <2>5
    <2>7. before'[logged + 1] = over
      BY <2>4, <2>5
    <2>8. ASSUME NEW n \in 1 .. logged', NEW m \in before'[n]
          PROVE  m \in 1 .. logged /\ LogMessage(m) \notin Broadcasting
      <3>1. n \in 1 .. logged \/ n = logged + 1
        BY <2>1
      <3>2. QED
        BY <2>6, <2>7, <2>8, <3>1
    <2>9. ASSUME NEW n \in 1 .. logged', NEW m \in before'[n]
          PROVE  m \in 1 .. logged' /\ LogMessage(m) \notin Broadcasting'
      <3>1. m \in 1 .. logged /\ LogMessage(m) \notin Broadcasting
        BY <2>8
      <3>2. m \in Nat /\ logged + 1 \in Nat /\ m # logged + 1 /\ m \in 1 .. logged'
        BY <2>1, <3>1
      <3>3. LogMessage(m) # LogMessage(logged + 1)
        BY <3>2, Messages
      <3>4. QED
        BY <2>3, <3>1, <3>2, <3>3
    <2>10. ASSUME NEW d \in Client
          PROVE  /\ Range(sent'[d]) \subseteq 1 .. logged'
                 /\ \A i, j \in DOMAIN sent'[d] : i < j => sent'[d][j] \notin before'[sent'[d][i]]
      <3>1. Range(sent[d]) \subseteq 1 .. logged /\ sent'[d] = sent[d]
        BY <2>1
      <3>2. \A i \in DOMAIN sent[d] : before'[sent[d][i]] = before[sent[d][i]]
        BY <2>6, <3>1 DEF Range
      <3>3. Range(sent'[d]) \subseteq 1 .. logged'
        BY <2>1, <3>1
      <3>4. ASSUME NEW i \in DOMAIN sent'[d], NEW j \in DOMAIN sent'[d], i < j
            PROVE  sent'[d][j] \notin before'[sent'[d][i]]
        <4>1. sent[d][j] \notin before[sent[d][i]]
          BY <3>1, <3>4
        <4>2. before'[sent[d][i]] = before[sent[d][i]]
          BY <3>1, <3>2, <3>4
        <4>3. QED
          BY <3>1, <4>1, <4>2
      <3>5. QED
        BY <3>3, <3>4
    <2>11. QED
      BY <2>2, <2>9, <2>10
  <1>2. ASSUME NEW d \in Client, Write(d) PROVE OrderInv'
    <2>1. UNCHANGED <<entries, logged, before, pc, msg, hub>>
      BY <1>2 DEF Write
    <2>2. CASE sent' = sent
      <3>1. Broadcasting' = Broadcasting
        BY <2>1 DEF Broadcasting
      <3>2. UNCHANGED <<entries, logged, before, sent>>
        BY <2>1, <2>2
      <3>3. QED
        BY <1>0, <3>1, <3>2
    <2>3. ASSUME NEW n \in 1 .. logged, LogMessage(n) \in Broadcasting,
                 sent' = [sent EXCEPT ![d] = Append(sent[d], n)]
          PROVE  OrderInv'
      <3>1. \A m \in 1 .. logged : n \notin before[m]
        BY <2>3
      <3>2. sent[d] \in Seq(Nat) /\ n \in Nat
        OBVIOUS
      <3>3. Range(sent'[d]) \subseteq 1 .. logged
        BY <2>3, <3>2, AppendRange
      <3>4. ASSUME NEW i \in DOMAIN sent'[d], NEW j \in DOMAIN sent'[d], i < j
            PROVE  sent'[d][j] \notin before[sent'[d][i]]
        <4>1. DOMAIN sent'[d] = 1 .. Len(sent[d]) + 1 /\ DOMAIN sent[d] = 1 .. Len(sent[d])
          BY <2>3, <3>2
        <4>2. i \in DOMAIN sent[d]
          BY <3>2, <3>4, <4>1
        <4>3. sent'[d][i] = sent[d][i] /\ sent[d][i] \in 1 .. logged
          <5>1. sent'[d][i] = sent[d][i]
            BY <2>3, <3>2, <4>1, <4>2
          <5>2. sent[d][i] \in Range(sent[d])
            BY <4>2 DEF Range
          <5>3. QED
            BY <5>1, <5>2
        <4>4. CASE j \in DOMAIN sent[d]
          <5>1. sent'[d][j] = sent[d][j]
            BY <2>3, <3>2, <4>1, <4>4
          <5>2. QED
            BY <3>4, <4>2, <4>3, <4>4, <5>1
        <4>5. CASE j = Len(sent[d]) + 1
          <5>1. sent'[d][j] = n
            BY <2>3, <3>2, <4>5
          <5>2. QED
            BY <3>1, <4>3, <5>1
        <4>6. QED
          BY <3>2, <4>1, <4>4, <4>5
      <3>5. \A e \in Client : e # d => sent'[e] = sent[e]
        BY <2>3
      <3>6. ASSUME NEW e \in Client
            PROVE  /\ Range(sent'[e]) \subseteq 1 .. logged
                   /\ \A i, j \in DOMAIN sent'[e] : i < j => sent'[e][j] \notin before[sent'[e][i]]
        <4>1. CASE e = d
          BY <3>3, <3>4, <4>1
        <4>2. CASE e # d
          <5>1. sent'[e] = sent[e]
            BY <3>5, <4>2
          <5>2. QED
            BY <5>1
        <4>3. QED
          BY <4>1, <4>2
      <3>7. Broadcasting' = Broadcasting
        BY <2>1 DEF Broadcasting
      <3>8. QED
        BY <2>1, <3>6, <3>7
    <2>4. CASE msg[hub][1] = "log"
      <3>1. hub \in Caller /\ pc[hub] # "idle"
        <4>1. hub \in Writer /\ pc[hub] = "writing"
          BY <1>2 DEF Write
        <4>2. ASSUME hub \in Listener PROVE FALSE
          <5>1. msg[hub] = PtzMessage(hub)
            BY <4>1, <4>2
          <5>2. QED
            BY <2>4, <5>1 DEF PtzMessage
        <4>3. hub \notin Client
          BY <2>4, <4>1 DEF PtzMessage
        <4>4. QED
          BY <4>1, <4>2, <4>3
      <3>2. PICK n \in 1 .. logged : msg[hub] = LogMessage(n)
        BY <3>1
      <3>3. LogMessage(n) \in Broadcasting
        BY <3>1, <3>2 DEF Broadcasting
      <3>4. sent' = [sent EXCEPT ![d] = Append(sent[d], n)]
        BY <1>2, <2>4, <3>2 DEF Write, LogMessage
      <3>5. QED
        BY <2>3, <3>3, <3>4
    <2>5. QED
      BY <1>2, <2>2, <2>4 DEF Write
  <1>3. ASSUME NEW d \in Client, Break(d) PROVE OrderInv'
    <2>1. UNCHANGED <<entries, logged, before, pc, msg>> /\ sent' = [sent EXCEPT ![d] = << >>]
      BY <1>3 DEF Break
    <2>2. \A e \in Client : sent'[e] = sent[e] \/ sent'[e] = << >>
      BY <2>1
    <2>3. Range(<< >>) = {}
      BY DEF Range
    <2>4. ASSUME NEW e \in Client
          PROVE  /\ Range(sent'[e]) \subseteq 1 .. logged
                 /\ \A i, j \in DOMAIN sent'[e] : i < j => sent'[e][j] \notin before[sent'[e][i]]
      <3>1. CASE sent'[e] = sent[e]
        BY <3>1
      <3>2. CASE sent'[e] = << >>
        BY <2>3, <3>2
      <3>3. QED
        BY <2>2, <3>1, <3>2
    <2>5. Broadcasting' = Broadcasting
      BY <2>1 DEF Broadcasting
    <2>6. QED
      BY <2>1, <2>4, <2>5
  <1>4. CASE Move
    <2>1. position + 1 \in Listener
      BY <1>4 DEF Move, Listener
    <2>2. QED
      BY <1>0, <1>4, <2>1, BroadcastingShrinks DEF Move
  <1>5. ASSUME NEW w \in Writer, Lock(w) \/ Unlock(w) PROVE OrderInv'
    BY <1>0, <1>5, BroadcastingShrinks DEF Lock, Unlock
  <1>6. ASSUME NEW d \in Client, Upgrade(d) \/ addWSClient(d) \/ Greet(d) \/ ReadFails(d) \/ removeWSClient(d)
        PROVE OrderInv'
    BY <1>0, <1>6, BroadcastingShrinks DEF Upgrade, addWSClient, Greet, ReadFails, removeWSClient
  <1>7. ASSUME NEW d \in Client, WriteFails(d) \/ Receive(d) PROVE OrderInv'
    BY <1>0, <1>7, BroadcastingShrinks DEF WriteFails, Receive
  <1>8. ASSUME NEW l \in Level, SetMinLevel(l) PROVE OrderInv'
    BY <1>0, <1>8, BroadcastingShrinks DEF SetMinLevel
  <1>9. QED
    BY <1>1, <1>2, <1>3, <1>4, <1>5, <1>6, <1>7, <1>8 DEF Next

\* A message brought anew is the only one that comes to be under way to a dashboard.
LEMMA TellingGrows ==
  ASSUME NEW e \in Client, NEW x,
         \A w \in Listener \cup {e} : msg'[w] = msg[w] \/ msg'[w] = x
  PROVE  Telling(e)' \subseteq Telling(e) \cup {x}
  BY DEF Telling

\* What is not under way to a dashboard any more does not come back by a step that
\* only greets it with the position, or ends a message.
LEMMA PassedKept ==
  ASSUME IInv, NEW e \in Client, UNCHANGED position,
         Telling(e)' \subseteq Telling(e) \cup {Silent, PtzMessage(position)}
  PROVE  \A k \in 1 .. position : \A m \in passed[k][e] :
           m \in 0 .. position - 1 /\ PtzMessage(m) \notin Telling(e)'
  <1> SUFFICES ASSUME NEW k \in 1 .. position, NEW m \in passed[k][e]
               PROVE  m \in 0 .. position - 1 /\ PtzMessage(m) \notin Telling(e)'
    OBVIOUS
  <1>1. m \in 0 .. position - 1 /\ PtzMessage(m) \notin Telling(e)
    BY DEF IInv, PassedInv
  <1>2. position \in Nat /\ m \in Nat /\ m # position
    BY <1>1, EventsAssumption DEF IInv, TypeOK
  <1>3. PtzMessage(m) # PtzMessage(position) /\ PtzMessage(m) # Silent
    BY <1>2 DEF PtzMessage, Silent
  <1>4. QED
    BY <1>1, <1>3

\* Every step leaves the positions a dashboard is told in the order of the moves.
LEMMA PassedStep ==
  ASSUME IInv, Next
  PROVE  PassedInv'
  <1> USE EventsAssumption
      DEF IInv, TypeOK, Writer, Goto, logVars, ptzVars, hubVars, linkVars, HubInv, MessageInv, PassedInv
  <1>0. ASSUME UNCHANGED <<position, passed, told>>,
               \A e \in Client : Telling(e)' \subseteq Telling(e) \cup {Silent, PtzMessage(position)}
        PROVE  PassedInv'
    <2> SUFFICES ASSUME NEW e \in Client
                 PROVE  /\ \A k \in 1 .. position : \A m \in passed[k][e] :
                             m \in 0 .. position - 1 /\ PtzMessage(m) \notin Telling(e)'
                        /\ Range(told[e]) \subseteq 0 .. position /\ PositionsInOrder(e)
      BY <1>0 DEF PositionsInOrder
    <2>1. QED
      BY <1>0, PassedKept
  <1>1. ASSUME UNCHANGED <<position, passed, msg>>, NEW d \in Client,
               \A e \in Client : e # d => told'[e] = told[e],
               Range(told'[d]) \subseteq 0 .. position, PositionsInOrder(d)'
        PROVE  PassedInv'
    <2> SUFFICES ASSUME NEW e \in Client
                 PROVE  /\ \A k \in 1 .. position : \A m \in passed[k][e] :
                             m \in 0 .. position - 1 /\ PtzMessage(m) \notin Telling(e)'
                        /\ Range(told'[e]) \subseteq 0 .. position /\ PositionsInOrder(e)'
      BY <1>1
    <2>1. Telling(e)' = Telling(e)
      BY <1>1 DEF Telling
    <2>2. CASE e = d
      BY <1>1, <2>1, <2>2
    <2>3. CASE e # d
      <3>1. told'[e] = told[e] /\ PositionsInOrder(e)
        BY <1>1, <2>3
      <3>2. PositionsInOrder(e)'
        BY <1>1, <3>1 DEF PositionsInOrder
      <3>3. QED
        BY <2>1, <3>1, <3>2
    <2>4. QED
      BY <2>2, <2>3
  <1>2. CASE Move
    <2> DEFINE quiet == [d \in Client |-> {m \in 0 .. position : PtzMessage(m) \notin Telling(d)}]
    <2>1. position' = position + 1 /\ position \in Nat /\ told' = told /\ passed' = Append(passed, quiet)
      BY <1>2 DEF Move
    <2>2. quiet \in [Client -> SUBSET Nat]
      OBVIOUS
    <2>3. \A e \in Client : \A m \in quiet[e] : m \in 0 .. position /\ PtzMessage(m) \notin Telling(e)
      OBVIOUS
    <2> HIDE DEF quiet
    <2>4. passed'[position + 1] = quiet /\ \A k \in 1 .. position : passed'[k] = passed[k]
      BY <2>1, <2>2
    <2>5. ASSUME NEW e \in Client PROVE Telling(e)' \subseteq Telling(e) \cup {PtzMessage(position + 1)}
      <3>1. \A w \in Listener \cup {e} : msg'[w] = msg[w] \/ msg'[w] = PtzMessage(position + 1)
        BY <1>2 DEF Move
      <3>2. QED
        BY <3>1, TellingGrows
    <2>6. ASSUME NEW e \in Client, NEW k \in 1 .. position', NEW m \in passed'[k][e]
          PROVE  m \in 0 .. position /\ PtzMessage(m) \notin Telling(e)
      <3>1. CASE k = position + 1
        BY <2>3, <2>4, <2>6, <3>1
      <3>2. CASE k # position + 1
        <4>1. k \in 1 .. position /\ m \in passed[k][e]
          BY <2>1, <2>4, <2>6, <3>2
        <4>2. m \in 0 .. position - 1 /\ PtzMessage(m) \notin Telling(e)
          BY <4>1
        <4>3. QED
          BY <2>1, <4>2
      <3>3. QED
        BY <3>1, <3>2
    <2>7. ASSUME NEW e \in Client, NEW k \in 1 .. position', NEW m \in passed'[k][e]
          PROVE  m \in 0 .. position' - 1 /\ PtzMessage(m) \notin Telling(e)'
      <3>1. m \in 0 .. position /\ PtzMessage(m) \notin Telling(e)
        BY <2>6, <2>7
      <3>2. m \in Nat /\ position + 1 \in Nat /\ m # position + 1 /\ m \in 0 .. position' - 1
        BY <2>1, <3>1
      <3>3. PtzMessage(m) # PtzMessage(position + 1)
        BY <3>2, Messages
      <3>4. QED
        BY <2>5, <3>1, <3>2, <3>3
    <2>8. ASSUME NEW e \in Client
          PROVE  Range(told'[e]) \subseteq 0 .. position' /\ PositionsInOrder(e)'
      <3>1. told'[e] = told[e] /\ Range(told[e]) \subseteq 0 .. position /\ PositionsInOrder(e)
        BY <2>1
      <3>2. Range(told'[e]) \subseteq 0 .. position'
        BY <2>1, <3>1
      <3>3. ASSUME NEW i \in DOMAIN told[e], NEW j \in DOMAIN told[e], i < j, told[e][i] > 0
            PROVE  told[e][j] \notin passed'[told[e][i]][e]
        <4>1. told[e][i] \in 1 .. position
          <5>1. told[e][i] \in Range(told[e])
            BY DEF Range
          <5>2. told[e][i] \in 0 .. position
            BY <3>1, <5>1
          <5>3. QED
            BY <2>1, <3>3, <5>2
        <4>2. told[e][j] \notin passed[told[e][i]][e]
          BY <3>1, <3>3 DEF PositionsInOrder
        <4>3. QED
          BY <2>4, <4>1, <4>2
      <3>4. QED
        BY <3>1, <3>2, <3>3 DEF PositionsInOrder
    <2>9. QED
      BY <2>7, <2>8
  <1>3. ASSUME NEW d \in Client, Write(d) PROVE PassedInv'
    <2>1. UNCHANGED <<position, passed, pc, msg, hub>>
      BY <1>3 DEF Write
    <2>2. CASE told' = told
      <3>1. \A e \in Client : Telling(e)' = Telling(e)
        BY <2>1 DEF Telling
      <3>2. QED
        BY <1>0, <2>1, <2>2, <3>1
    <2>3. ASSUME NEW n \in 0 .. position, PtzMessage(n) \in Telling(d),
                 told' = [told EXCEPT ![d] = Append(told[d], n)]
          PROVE  PassedInv'
      <3>1. \A k \in 1 .. position : n \notin passed[k][d]
        BY <2>3
      <3>2. told[d] \in Seq(Nat) /\ n \in Nat /\ Range(told[d]) \subseteq 0 .. position
        OBVIOUS
      <3>3. told'[d] = Append(told[d], n) /\ \A e \in Client : e # d => told'[e] = told[e]
        BY <2>3
      <3>4. Range(told'[d]) \subseteq 0 .. position
        BY <3>2, <3>3, AppendRange
      <3>5. ASSUME NEW i \in DOMAIN told'[d], NEW j \in DOMAIN told'[d], i < j, told'[d][i] > 0
            PROVE  told'[d][j] \notin passed[told'[d][i]][d]
        <4>1. DOMAIN told'[d] = 1 .. Len(told[d]) + 1 /\ DOMAIN told[d] = 1 .. Len(told[d])
          BY <3>2, <3>3
        <4>2. i \in DOMAIN told[d]
          BY <3>2, <3>5, <4>1
        <4>3. told'[d][i] = told[d][i]
          BY <3>2, <3>3, <4>1, <4>2
        <4>4. told[d][i] \in 1 .. position
          <5>1. told[d][i] \in Range(told[d])
            BY <4>2 DEF Range
          <5>2. told[d][i] \in 0 .. position
            BY <3>2, <5>1
          <5>3. QED
            BY <3>5, <4>3, <5>2
        <4>5. CASE j \in DOMAIN told[d]
          <5>1. told'[d][j] = told[d][j]
            BY <3>2, <3>3, <4>1, <4>5
          <5>2. PositionsInOrder(d) /\ told[d][i] > 0
            BY <3>5, <4>3
          <5>3. QED
            BY <3>5, <4>2, <4>3, <4>5, <5>1, <5>2 DEF PositionsInOrder
        <4>6. CASE j = Len(told[d]) + 1
          <5>1. told'[d][j] = n
            BY <3>2, <3>3, <4>6
          <5>2. QED
            BY <3>1, <4>3, <4>4, <5>1
        <4>7. QED
          BY <3>2, <4>1, <4>5, <4>6
      <3>6. PositionsInOrder(d)'
        BY <2>1, <3>5 DEF PositionsInOrder
      <3>7. QED
        BY <1>1, <2>1, <3>3, <3>4, <3>6
    <2>4. CASE msg[hub][1] = "ptz"
      <3>1. hub \in Writer /\ pc[hub] = "writing" /\ d \in todo
        BY <1>3 DEF Write
      <3>2. PICK n \in 0 .. position : hub \in Listener \cup {d} /\ msg[hub] = PtzMessage(n)
        <4>1. CASE hub \in Listener
          <5>1. hub <= position /\ msg[hub] = PtzMessage(hub)
            BY <3>1, <4>1
          <5>2. hub \in 0 .. position
            BY <4>1, <5>1 DEF Listener
          <5>3. QED
            BY <4>1, <5>1, <5>2
        <4>2. CASE hub \in Client
          <5>1. hub = d
            BY <3>1, <4>2
          <5>2. QED
            BY <3>1, <4>2, <5>1
        <4>3. ASSUME hub \in Caller PROVE FALSE
          <5>1. \E m \in 1 .. logged : msg[hub] = LogMessage(m)
            BY <3>1, <4>3
          <5>2. QED
            BY <2>4, <5>1 DEF LogMessage
        <4>4. QED
          BY <3>1, <4>1, <4>2, <4>3
      <3>3. PtzMessage(n) \in Telling(d)
        BY <3>2 DEF Telling
      <3>4. told' = [told EXCEPT ![d] = Append(told[d], n)]
        BY <1>3, <2>4, <3>2 DEF Write, PtzMessage
      <3>5. QED
        BY <2>3, <3>3, <3>4
    <2>5. QED
      BY <1>3, <2>2, <2>4 DEF Write
  <1>4. ASSUME NEW d \in Client, Break(d) PROVE PassedInv'
    <2>1. UNCHANGED <<position, passed, msg>> /\ told' = [told EXCEPT ![d] = << >>]
      BY <1>4 DEF Break
    <2>2. told'[d] = << >> /\ \A e \in Client : e # d => told'[e] = told[e]
      BY <2>1
    <2>3. Range(told'[d]) \subseteq 0 .. position
      BY <2>2 DEF Range
    <2>4. PositionsInOrder(d)'
      BY <2>2 DEF PositionsInOrder
    <2>5. QED
      BY <1>1, <2>1, <2>2, <2>3, <2>4
  <1>5. ASSUME NEW w \in Writer, Lock(w) \/ Unlock(w) PROVE PassedInv'
    <2>1. UNCHANGED <<position, passed, told>>
      BY <1>5 DEF Lock, Unlock
    <2>2. \A v \in Writer : msg'[v] = msg[v] \/ msg'[v] = Silent
      BY <1>5 DEF Lock, Unlock
    <2>3. QED
      BY <1>0, <2>1, <2>2 DEF Telling
  <1>6. ASSUME NEW d \in Client, Greet(d) PROVE PassedInv'
    <2>1. UNCHANGED <<position, passed, told>>
      BY <1>6 DEF Greet
    <2>2. \A v \in Writer : msg'[v] = msg[v] \/ msg'[v] = PtzMessage(position)
      BY <1>6 DEF Greet
    <2>3. QED
      BY <1>0, <2>1, <2>2 DEF Telling
  <1>7. ASSUME NEW c \in Caller, NEW l \in Level, Log(c, l) PROVE PassedInv'
    <2>1. UNCHANGED <<position, passed, told>>
      BY <1>7 DEF Log
    <2>2. \A v \in Listener \cup Client : msg'[v] = msg[v]
      BY <1>7 DEF Log
    <2>3. QED
      BY <1>0, <2>1, <2>2 DEF Telling
  <1>8. ASSUME UNCHANGED <<position, passed, told, msg>> PROVE PassedInv'
    BY <1>0, <1>8 DEF Telling
  <1>9. ASSUME NEW d \in Client, Upgrade(d) \/ addWSClient(d) \/ ReadFails(d) \/ removeWSClient(d)
        PROVE PassedInv'
    BY <1>8, <1>9 DEF Upgrade, addWSClient, ReadFails, removeWSClient
  <1>10. ASSUME NEW d \in Client, WriteFails(d) \/ Receive(d) PROVE PassedInv'
    BY <1>8, <1>10 DEF WriteFails, Receive
  <1>11. ASSUME NEW l \in Level, SetMinLevel(l) PROVE PassedInv'
    BY <1>8, <1>11 DEF SetMinLevel
  <1>12. QED
    BY <1>2, <1>3, <1>4, <1>5, <1>6, <1>7, <1>9, <1>10, <1>11 DEF Next

-----------------------------------------------------------------------------

\* The inductive invariant holds in every reachable state.
THEOREM EventsInvariant == Spec => []IInv
  <1>1. IInv /\ [Next]_vars => IInv'
    <2> SUFFICES ASSUME IInv, [Next]_vars PROVE IInv'
      OBVIOUS
    <2>1. CASE Next
      BY <2>1, StepType, ControlStep, PositionStep, EntriesStep, OrderStep, PassedStep DEF IInv, ControlInv
    <2>2. CASE UNCHANGED vars
      BY <2>2 DEF vars, logVars, ptzVars, hubVars, linkVars, IInv, TypeOK, HubInv, MessageInv, HandlerInv,
         PositionInv, KnowsPosition, EntriesInv, KnowsEntry, Owes, OrderInv, Broadcasting,
         PassedInv, PositionsInOrder, Telling
    <2>3. QED
      BY <2>1, <2>2
  <1>2. QED
    BY <1>1, InitIInv, PTL DEF Spec

\* However calls of the logger, moves, greetings and broken connections overlap: a
\* dashboard that has been greeted has been sent the position and every entry since
\* it came, each in their order unless they overlapped, as soon as the calls that bring them are over.
THEOREM NothingIsMissed == Spec => []DashboardsFollow
  <1>1. ASSUME IInv PROVE DashboardsFollow
    <2> SUFFICES ASSUME NEW d \in Client, Greeted(d)
                 PROVE  /\ (\A k \in Listener : pc[k] = "idle") => position \in Range(told[d])
                        /\ \A n \in Range(GetRecentLogs(0)) :
                             n > since[d] /\ LogMessage(n) \notin Broadcasting => n \in Range(sent[d])
                        /\ \A i, j \in DOMAIN sent[d] : i < j => sent[d][j] \notin before[sent[d][i]]
                        /\ PositionsInOrder(d)
      BY DEF DashboardsFollow
    <2> USE <1>1, EventsAssumption DEF IInv, TypeOK, HubInv, Greeted, Writer
    <2>1. (\A k \in Listener : pc[k] = "idle") => position \in Range(told[d])
      BY DEF PositionInv, KnowsPosition, Owes
    <2>2. Range(GetRecentLogs(0)) \subseteq Range(entries)
      BY DEF GetRecentLogs, Range
    <2>3. ASSUME NEW n \in 1 .. logged, n > since[d], LogMessage(n) \notin Broadcasting
          PROVE  n \in Range(sent[d])
      <3>1. KnowsEntry(d, n)
        BY <2>3 DEF EntriesInv
      <3>2. ASSUME NEW c \in Caller, Owes(c, d) PROVE msg[c] \in Broadcasting
        <4>1. pc[c] # "idle"
          BY <3>2 DEF Owes
        <4>2. QED
          BY <4>1 DEF Broadcasting
      <3>3. QED
        BY <2>3, <3>1, <3>2 DEF KnowsEntry
    <2>4. QED
      BY <2>1, <2>2, <2>3 DEF OrderInv, PassedInv
  <1>2. QED
    BY <1>1, EventsInvariant, PTL

=============================================================================
