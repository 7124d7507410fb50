------------------------------- MODULE Splitter -------------------------------
(***************************************************************************)
(* The splitter (src/internal/frames/splitter.go) that cuts FFmpeg's MJPEG *)
(* byte stream into JPEG images.  The pipe delivers the stream in pieces   *)
(* of any size; Write handles one piece under the splitter's mutex.        *)
(*                                                                         *)
(* Four bytes are enough: 0xFF, the second bytes of the start and of the   *)
(* end marker, and any other.                                              *)
(***************************************************************************)
EXTENDS Integers, Sequences

CONSTANTS
  MaxPendingBytes,  \* maxPendingBytes, 8 MiB in the code
  MaxChunk,         \* bound: bytes in one write
  MaxStream         \* bound: bytes in a behaviour

ASSUME SplitterAssumption ==
  MaxPendingBytes \in Nat /\ MaxChunk \in Nat /\ MaxStream \in Nat

Byte == {"FF", "D8", "D9", "00"}
SOI == <<"FF", "D8">>
EOI == <<"FF", "D9">>

VARIABLES
  pending,  \* s.pending
  out,      \* the frames given to the sink so far
  stream,   \* history: all the bytes written
  dropped   \* history: a corrupt stream has been thrown away

splitterVars == <<pending, out, stream, dropped>>

\* bytes.Index, counted from 1; 0 if the marker does not occur.
Index(b, marker) ==
  LET at == {i \in 1 .. Len(b) - 1 : b[i] = marker[1] /\ b[i + 1] = marker[2]}
  IN  IF at = {} THEN 0 ELSE CHOOSE i \in at : \A j \in at : i <= j

From(b, i) == SubSeq(b, i, Len(b))

\* Mutant: forgets a marker that the end of a write cuts in two.
KeepTail_Nothing(b) == <<>>

\* Keeps a last byte that may be the first of a marker.
KeepTail(b) ==
  IF Len(b) <= 1 THEN b
  ELSE IF b[Len(b)] = "FF" THEN <<"FF">> ELSE <<>>

\* A round of the loop of Write: it cuts a frame off, or keeps what may become
\* one, or throws away an unfinished one, and then returns.
Round(w) ==
  LET start == Index(w.pending, SOI)
      rest  == From(w.pending, start)
      end   == Index(From(rest, 3), EOI)
      long  == Len(rest) > MaxPendingBytes
  IN  IF w.done THEN w
      ELSE IF start = 0 THEN [w EXCEPT !.pending = KeepTail(@), !.done = TRUE]
      ELSE IF end = 0
      THEN [w EXCEPT !.pending = IF long THEN <<>> ELSE rest, !.dropped = long, !.done = TRUE]
      ELSE [w EXCEPT !.pending = From(rest, end + 4), !.frames = Append(@, SubSeq(rest, 1, end + 3))]

\* The loop: a round that does not return takes bytes off, so that there are not
\* more rounds than bytes, and one.
Drain(b) ==
  LET loop[n \in 0 .. Len(b) + 1] ==
        IF n = 0 THEN [frames |-> <<>>, pending |-> b, dropped |-> FALSE, done |-> FALSE]
        ELSE Round(loop[n - 1])
  IN  loop[Len(b) + 1]

SplitterInit ==
  /\ pending = <<>> /\ out = <<>>
  /\ stream = <<>> /\ dropped = FALSE

\* Mutant: emits what it gives up on.
Write_Emits(p) ==
  LET b == pending \o p
      d == Drain(b)
  IN
  /\ Len(stream) + Len(p) <= MaxStream
  /\ stream' = stream \o p
  /\ out' = out \o d.frames \o (IF d.dropped THEN <<From(b, Index(b, SOI))>> ELSE <<>>)
  /\ pending' = d.pending
  /\ dropped' = (dropped \/ d.dropped)

Write(p) ==
  LET d == Drain(pending \o p) IN
  /\ Len(stream) + Len(p) <= MaxStream
  /\ stream' = stream \o p
  /\ out' = out \o d.frames
  /\ pending' = d.pending
  /\ dropped' = (dropped \/ d.dropped)

SplitterNext == \E n \in 1 .. MaxChunk : \E p \in [1 .. n -> Byte] : Write(p)

SplitterSpec == SplitterInit /\ [][SplitterNext]_splitterVars

-----------------------------------------------------------------------------
(* The reference: one byte at a time, outside a frame until a start marker *)
(* and inside it until the first end marker that follows.                  *)

Idle == [frames |-> <<>>, frame |-> <<>>]

Step(r, byte) ==
  LET f == Append(r.frame, byte) IN
  CASE Len(f) = 1 -> [r EXCEPT !.frame = IF byte = "FF" THEN f ELSE <<>>]
    [] Len(f) = 2 -> [r EXCEPT !.frame = IF byte = "D8" THEN f
                                         ELSE IF byte = "FF" THEN <<"FF">> ELSE <<>>]
    [] Len(f) >= 4 /\ f[Len(f) - 1] = "FF" /\ byte = "D9"
                  -> [frames |-> Append(r.frames, f), frame |-> <<>>]
    [] OTHER      -> [r EXCEPT !.frame = f]

\* The reader after the bytes of b, when it is r before.
Read(r, b) ==
  LET read[n \in 0 .. Len(b)] == IF n = 0 THEN r ELSE Step(read[n - 1], b[n])
  IN  read[Len(b)]

Frames(b) == Read(Idle, b).frames

-----------------------------------------------------------------------------
(* Properties.                                                             *)

\* However the pipe cuts the stream, the frames are those that reading it byte
\* by byte would find, with none lost, invented or cut short, as long as no frame
\* outgrew the buffer.
ChunksDoNotMatter == ~dropped => out = Frames(stream)

\* Also after unfinished frames were thrown away: what is emitted are whole
\* images, whose bytes follow one another in the stream.
FramesAreWhole ==
  \A i \in DOMAIN out :
    /\ SubSeq(out[i], 1, 2) = SOI /\ SubSeq(out[i], Len(out[i]) - 1, Len(out[i])) = EOI
    /\ \E k \in 0 .. Len(stream) - Len(out[i]) : SubSeq(stream, k + 1, k + Len(out[i])) = out[i]

-----------------------------------------------------------------------------
(* The inductive invariant.                                                *)

SplitterTypeOK ==
  /\ pending \in Seq(Byte) /\ stream \in Seq(Byte) /\ out \in Seq(Seq(Byte))
  /\ dropped \in BOOLEAN

\* Reading the bytes that are kept after the frames that were emitted comes to
\* the same as reading the stream.
SameReading == ~dropped => Read(Idle, stream) = Read([frames |-> out, frame |-> <<>>], pending)

\* They hold no complete frame.
NoFrameLeft == Read([frames |-> out, frame |-> <<>>], pending).frames = out

\* What is kept is the end of the stream.
Suffix(x, s) ==
  Len(x) <= Len(s) /\ \A j \in 1 .. Len(x) : x[j] = s[Len(s) - Len(x) + j]

\* x stands somewhere in s.
Within(x, s) ==
  \E k \in 0 .. Len(s) - Len(x) : \A j \in 1 .. Len(x) : x[j] = s[k + j]

Whole(x) ==
  /\ Len(x) >= 4 /\ x[1] = "FF" /\ x[2] = "D8"
  /\ x[Len(x) - 1] = "FF" /\ x[Len(x)] = "D9"

SplitterInv ==
  /\ SplitterTypeOK /\ SameReading /\ NoFrameLeft /\ Suffix(pending, stream)
  /\ \A i \in 1 .. Len(out) : Whole(out[i]) /\ Within(out[i], stream)
=============================================================================
