--------------------------- MODULE RtspServerProofs ---------------------------
(***************************************************************************)
(* Proofs about RtspServer, for every set of sessions and tokens.          *)
(***************************************************************************)
EXTENDS RtspServer, TLAPS

\* The server starts in the invariant.
LEMMA InitIInv == Init => IInv
  BY RtspAssumption DEF Init, IInv, TypeOK, StateSet, Fresh, Publishing, PublisherInv, StreamInv,
     ServedXorClosed, ServedStreamHasPublisher, PacketsStayWithToken, ReadersArePlaying

\* Every callback of a session keeps the invariant.
LEMMA SessionStep ==
  ASSUME IInv, NEW s \in Session, SessionOpen(s) \/ Callback(s) \/ OnSessionClose(s)
  PROVE  IInv'
  <1> USE RtspAssumption DEF IInv
  <1>1. CASE SessionOpen(s)
    <2>1. TypeOK'
      BY <1>1 DEF SessionOpen, TypeOK, StateSet, Fresh, Publishing, Reading, PublisherInv
    <2>2. PublisherInv' /\ StreamInv'
      BY <1>1 DEF SessionOpen, TypeOK, PublisherInv, StreamInv, Fresh, Publishing, Reading
    <2>3. ServedXorClosed'
      BY <1>1 DEF SessionOpen, TypeOK, PublisherInv, StreamInv, ServedXorClosed, Publishing
    <2>4. ServedStreamHasPublisher' /\ ReadersArePlaying'
      BY <1>1 DEF SessionOpen, TypeOK, PublisherInv, StreamInv, ServedStreamHasPublisher, ReadersArePlaying, Fresh, Publishing, Reading
    <2>5. PacketsStayWithToken'
      BY <1>1 DEF SessionOpen, TypeOK, PublisherInv, StreamInv, ServedXorClosed, PacketsStayWithToken, Publishing
    <2>6. QED
      BY <2>1, <2>2, <2>3, <2>4, <2>5
  <1>2. CASE \E t \in Token : AnnounceInitialize(s, t)
    <2>1. TypeOK'
      BY <1>2 DEF AnnounceInitialize, TypeOK, StateSet, Fresh, Publishing, Reading, PublisherInv
    <2>2. PublisherInv' /\ StreamInv'
      BY <1>2 DEF AnnounceInitialize, TypeOK, PublisherInv, StreamInv, Fresh, Publishing, Reading
    <2>3. ServedXorClosed'
      BY <1>2 DEF AnnounceInitialize, TypeOK, PublisherInv, StreamInv, ServedXorClosed, Publishing
    <2>4. ServedStreamHasPublisher' /\ ReadersArePlaying'
      BY <1>2 DEF AnnounceInitialize, TypeOK, PublisherInv, StreamInv, ServedStreamHasPublisher, ReadersArePlaying, Fresh, Publishing, Reading
    <2>5. PacketsStayWithToken'
      BY <1>2 DEF AnnounceInitialize, TypeOK, PublisherInv, StreamInv, ServedXorClosed, PacketsStayWithToken, Publishing
    <2>6. QED
      BY <2>1, <2>2, <2>3, <2>4, <2>5
  <1>3. CASE AnnounceStore(s)
    <2>1. TypeOK'
      BY <1>3 DEF AnnounceStore, CloseCurrent, TypeOK, StateSet, Fresh, Publishing, Reading, PublisherInv
    <2>2. PublisherInv' /\ StreamInv'
      BY <1>3 DEF AnnounceStore, CloseCurrent, TypeOK, PublisherInv, StreamInv, Fresh, Publishing, Reading
    <2>3. ServedXorClosed'
      BY <1>3 DEF AnnounceStore, CloseCurrent, TypeOK, PublisherInv, StreamInv, ServedXorClosed, Publishing
    <2>4. ServedStreamHasPublisher' /\ ReadersArePlaying'
      BY <1>3 DEF AnnounceStore, CloseCurrent, TypeOK, PublisherInv, StreamInv, ServedStreamHasPublisher, ReadersArePlaying, Fresh, Publishing, Reading
    <2>5. PacketsStayWithToken'
      BY <1>3 DEF AnnounceStore, CloseCurrent, TypeOK, PublisherInv, StreamInv, ServedXorClosed, PacketsStayWithToken, Publishing
    <2>6. QED
      BY <2>1, <2>2, <2>3, <2>4, <2>5
  <1>4. CASE Record(s)
    <2>1. TypeOK'
      BY <1>4 DEF Record, TypeOK, StateSet, Fresh, Publishing, Reading, PublisherInv
    <2>2. PublisherInv' /\ StreamInv'
      BY <1>4 DEF Record, TypeOK, PublisherInv, StreamInv, Fresh, Publishing, Reading
    <2>3. ServedXorClosed'
      BY <1>4 DEF Record, TypeOK, PublisherInv, StreamInv, ServedXorClosed, Publishing
    <2>4. ServedStreamHasPublisher' /\ ReadersArePlaying'
      BY <1>4 DEF Record, TypeOK, PublisherInv, StreamInv, ServedStreamHasPublisher, ReadersArePlaying, Fresh, Publishing, Reading
    <2>5. PacketsStayWithToken'
      BY <1>4 DEF Record, TypeOK, PublisherInv, StreamInv, ServedXorClosed, PacketsStayWithToken, Publishing
    <2>6. QED
      BY <2>1, <2>2, <2>3, <2>4, <2>5
  <1>5. CASE \E t \in Token : SetupFind(s, t)
    <2>1. TypeOK'
      BY <1>5 DEF SetupFind, TypeOK, StateSet, Fresh, Publishing, Reading, PublisherInv
    <2>2. PublisherInv' /\ StreamInv'
      BY <1>5 DEF SetupFind, TypeOK, PublisherInv, StreamInv, Fresh, Publishing, Reading
    <2>3. ServedXorClosed'
      BY <1>5 DEF SetupFind, TypeOK, PublisherInv, StreamInv, ServedXorClosed, Publishing
    <2>4. ServedStreamHasPublisher' /\ ReadersArePlaying'
      BY <1>5 DEF SetupFind, TypeOK, PublisherInv, StreamInv, ServedStreamHasPublisher, ReadersArePlaying, Fresh, Publishing, Reading
    <2>5. PacketsStayWithToken'
      BY <1>5 DEF SetupFind, TypeOK, PublisherInv, StreamInv, ServedXorClosed, PacketsStayWithToken, Publishing
    <2>6. QED
      BY <2>1, <2>2, <2>3, <2>4, <2>5
  <1>6. CASE SetupAttach(s)
    <2>1. TypeOK'
      BY <1>6 DEF SetupAttach, TypeOK, StateSet, Fresh, Publishing, Reading, PublisherInv
    <2>2. PublisherInv' /\ StreamInv'
      BY <1>6 DEF SetupAttach, TypeOK, PublisherInv, StreamInv, Fresh, Publishing, Reading
    <2>3. ServedXorClosed'
      BY <1>6 DEF SetupAttach, TypeOK, PublisherInv, StreamInv, ServedXorClosed, Publishing
    <2>4. ServedStreamHasPublisher' /\ ReadersArePlaying'
      BY <1>6 DEF SetupAttach, TypeOK, PublisherInv, StreamInv, ServedStreamHasPublisher, ReadersArePlaying, Fresh, Publishing, Reading
    <2>5. PacketsStayWithToken'
      BY <1>6 DEF SetupAttach, TypeOK, PublisherInv, StreamInv, ServedXorClosed, PacketsStayWithToken, Publishing
    <2>6. QED
      BY <2>1, <2>2, <2>3, <2>4, <2>5
  <1>7. CASE Play(s)
    <2>1. TypeOK'
      BY <1>7 DEF Play, TypeOK, StateSet, Fresh, Publishing, Reading, PublisherInv
    <2>2. PublisherInv' /\ StreamInv'
      BY <1>7 DEF Play, TypeOK, PublisherInv, StreamInv, Fresh, Publishing, Reading
    <2>3. ServedXorClosed'
      BY <1>7 DEF Play, TypeOK, PublisherInv, StreamInv, ServedXorClosed, Publishing
    <2>4. ServedStreamHasPublisher' /\ ReadersArePlaying'
      BY <1>7 DEF Play, TypeOK, PublisherInv, StreamInv, ServedStreamHasPublisher, ReadersArePlaying, Fresh, Publishing, Reading
    <2>5. PacketsStayWithToken'
      BY <1>7 DEF Play, TypeOK, PublisherInv, StreamInv, ServedXorClosed, PacketsStayWithToken, Publishing
    <2>6. QED
      BY <2>1, <2>2, <2>3, <2>4, <2>5
  <1>8. CASE OnSessionClose(s)
    <2>1. TypeOK'
      BY <1>8 DEF OnSessionClose, CloseCurrent, TypeOK, StateSet, Fresh, Publishing, Reading, PublisherInv
    <2>2. PublisherInv' /\ StreamInv'
      BY <1>8 DEF OnSessionClose, CloseCurrent, TypeOK, PublisherInv, StreamInv, Fresh, Publishing, Reading
    <2>3. ServedXorClosed'
      BY <1>8 DEF OnSessionClose, CloseCurrent, TypeOK, PublisherInv, StreamInv, ServedXorClosed, Publishing
    <2>4. ServedStreamHasPublisher' /\ ReadersArePlaying'
      BY <1>8 DEF OnSessionClose, CloseCurrent, TypeOK, PublisherInv, StreamInv, ServedStreamHasPublisher, ReadersArePlaying, Fresh, Publishing, Reading
    <2>5. PacketsStayWithToken'
      BY <1>8 DEF OnSessionClose, CloseCurrent, TypeOK, PublisherInv, StreamInv, ServedXorClosed, PacketsStayWithToken, Publishing
    <2>6. QED
      BY <2>1, <2>2, <2>3, <2>4, <2>5
  <1>9. QED
    BY <1>1, <1>2, <1>3, <1>4, <1>5, <1>6, <1>7, <1>8 DEF Callback

\* So do the two ways in which the program itself closes streams.
LEMMA CloseStep ==
  ASSUME IInv, Close \/ \E t \in Token : CloseStream(t)
  PROVE  IInv'
  <1> USE RtspAssumption DEF IInv
  <1>1. CASE Close
    BY <1>1 DEF Close, TypeOK, PublisherInv, StreamInv, ServedXorClosed, ServedStreamHasPublisher, PacketsStayWithToken, ReadersArePlaying, Publishing
  <1>2. ASSUME NEW t \in Token, CloseStream(t) PROVE IInv'
    BY <1>2 DEF CloseStream, CloseCurrent, TypeOK, PublisherInv, StreamInv, ServedXorClosed, ServedStreamHasPublisher, PacketsStayWithToken, ReadersArePlaying, Publishing
  <1>3. QED
    BY <1>1, <1>2

\* Every step of the specification keeps the invariant: the cases above.
LEMMA StepIInv == IInv /\ [Next]_vars => IInv'
  <1> SUFFICES ASSUME IInv, [Next]_vars PROVE IInv'
    OBVIOUS
  <1>1. CASE UNCHANGED vars
    BY <1>1 DEF vars, IInv, TypeOK, PublisherInv, StreamInv, ServedXorClosed, ServedStreamHasPublisher, PacketsStayWithToken, ReadersArePlaying, Publishing
  <1>2. CASE Next
    BY <1>2, SessionStep, CloseStep DEF Next
  <1>3. QED
    BY <1>1, <1>2

\* The inductive invariant holds in every reachable state.
THEOREM RtspInvariant == Spec => []IInv
  BY InitIInv, StepIInv, PTL DEF Spec

\* Every announced stream is either the one served for its token or closed.
THEOREM NoLeakedStream == Spec => []ServedXorClosed
  <1>1. IInv => ServedXorClosed
    BY DEF IInv
  <1>2. QED
    BY <1>1, RtspInvariant, PTL

\* What is served has a publisher session that is still there.
THEOREM ServedHasPublisher == Spec => []ServedStreamHasPublisher
  <1>1. IInv => ServedStreamHasPublisher
    BY DEF IInv
  <1>2. QED
    BY <1>1, RtspInvariant, PTL

\* A publisher feeds its own stream, or one of its token that replaced it.
THEOREM PublisherFeedsItsToken == Spec => []PacketsStayWithToken
  <1>1. IInv => PacketsStayWithToken
    BY DEF IInv
  <1>2. QED
    BY <1>1, RtspInvariant, PTL

\* The client list is exactly the sessions that play.
THEOREM ReaderListIsExact == Spec => []ReadersArePlaying
  <1>1. IInv => ReadersArePlaying
    BY DEF IInv
  <1>2. QED
    BY <1>1, RtspInvariant, PTL

=============================================================================
