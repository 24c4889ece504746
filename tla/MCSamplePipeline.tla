-------------------------- MODULE MCSamplePipeline --------------------------
(* Instances of SamplePipeline for TLC.                                    *)
EXTENDS SamplePipeline

\* Rates in kHz; that of the output is 48.  In one playlist a mono stream follows
\* a stereo one of the same rate, in the other a stream of the output's rate
\* follows one that has to be resampled and is longer than the stream buffer.
CD(units) == [rate |-> 44, channels |-> 2, units |-> units]
CDMono(units) == [rate |-> 44, channels |-> 1, units |-> units]
DAT(units) == [rate |-> 48, channels |-> 2, units |-> units]
TwoPlaylists == {<<CD(1), CDMono(2)>>, <<CDMono(3), DAT(2)>>}
=============================================================================
