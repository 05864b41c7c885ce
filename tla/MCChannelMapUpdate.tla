------------------------ MODULE MCChannelMapUpdate ------------------------
(* Instances of ChannelMapUpdate and ChannelHops for TLC, and the sample     *)
(* data of lll_chan_sel_2_ut, which the selection operators must reproduce.  *)
EXTENDS ChannelHops

\* Five channels; a map with every channel but one, and a map of two.
MCMap == {{0, 1, 2, 4}, {1, 3}}

Full == INSTANCE ChannelSelection WITH NumChannels <- 37

\* lll_chan.c 350-377: 37 used channels, and 9 used channels (00 06 E0 00 1E).
SampleMap == {9, 10, 21, 22, 23, 33, 34, 35, 36}

ASSUME SampleData ==
  LET Chosen(e, chm) == Full!Sel2(Full!PrnE(e, 12383), chm) IN
    /\ <<Chosen(0, 0 .. 36), Chosen(1, 0 .. 36), Chosen(2, 0 .. 36), Chosen(3, 0 .. 36)>>
         = <<25, 20, 6, 21>>
    /\ <<Chosen(6, SampleMap), Chosen(7, SampleMap), Chosen(8, SampleMap)>> = <<23, 9, 34>>
=============================================================================
