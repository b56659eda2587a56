--------------------------- MODULE MCCallTimeline ---------------------------
(* A small instance of CallTimeline: the bounds are in CallTimeline.cfg.     *)
EXTENDS CallTimeline

(* A phantom; a question that was measured, with a pause, a silent point and *)
(* a hold in its pitch; the same without a pause; one whose recording is     *)
(* padded at both ends; one the analysis failed on.                          *)
Voice(text, edges, length, pauses, loudness, pitch) ==
    [text |-> text, lead |-> edges[1], length |-> length, trail |-> edges[2], pauses |-> pauses,
     loudness |-> loudness, pitch |-> pitch, measured |-> TRUE]
Phantom == Voice(<<>>, <<0, 0>>, 1, <<>>, <<>>, <<>>)
Question(edges, length, pauses) ==
    Voice(<<"greeting", "what", "?">>, edges, length, pauses, <<0, 6, 9>>, <<4, 0, 4, 5, 5>>)
Fluent == Question(<<0, 0>>, 1, <<>>)
Halting == Question(<<0, 0>>, 2, <<<<1, 1>>>>)
Padded == Question(<<1, 1>>, 2, <<>>)
Unmeasured == [Voice(<<"offer", ".">>, <<0, 0>>, 1, <<>>, <<>>, <<>>) EXCEPT !.measured = FALSE]

MixedFragments == {Phantom, Fluent, Halting, Padded, Unmeasured}
=============================================================================
