--------------------------- MODULE MCAudioTracks ---------------------------
(* Instances of AudioTracks for TLC.                                       *)
EXTENDS AudioTracks

CONSTANTS a, b, none

MCPlaylists == {<<b, a>>}
MCAdditions == {<<a>>, <<none, b>>}

\* A shuffle of two: each cycle turns the order of the other one around.
MCShuffle ==
    [seed \in Seeds |-> [size \in 1..MaxTracks |-> [n \in 0..(2 * size - 1) |->
        IF n < size THEN (n + seed) % size ELSE size - 1 - ((n + seed) % size)]]]
=============================================================================
