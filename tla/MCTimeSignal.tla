---------------------------- MODULE MCTimeSignal ----------------------------
(* Instances of TimeSignal for TLC.                                        *)
EXTENDS TimeSignal, TLC

Symmetry == Permutations(Stream)

Sound(rate, frames) == [format |-> "pcm", bits |-> 16, rate |-> rate, frames |-> frames]

\* A loud voice that is sampled up, a soft one in stereo that is sampled down, one
\* that holds the smallest sample, silence, and a file that is not PCM.
MCWAVs ==
  {Sound(24000, <<<<100>>, <<-127>>>>),
   Sound(96000, <<<<0, 1>>, <<30, -5>>, <<9, 9>>, <<1, 0>>>>),
   Sound(48000, <<<<90>>, <<-128>>, <<90>>>>),
   Sound(48000, <<<<0>>, <<1>>>>),
   [format |-> "float", bits |-> 32, rate |-> 48000, frames |-> <<<<1>>>>]}
=============================================================================
