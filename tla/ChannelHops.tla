---------------------------- MODULE ChannelHops ----------------------------
(***************************************************************************)
(* The channel map update procedure together with the channel selection:   *)
(* every prepare that runs picks the channel of its event.  Algorithm #1   *)
(* keeps an accumulator that must advance over skipped and aborted events; *)
(* algorithm #2 works on the event counter alone.                          *)
(***************************************************************************)
EXTENDS ChannelMapUpdate, ChannelSelection

CONSTANTS
  Hop,        \* hop increments of CONNECT_IND, 5..16 in the code
  ChanId      \* lll_chan_id of the access address

ASSUME HopsAssumption ==
  /\ Map \subseteq (SUBSET Channel) \ {{}}
  /\ Hop \subseteq Nat /\ ChanId \in 0 .. Word - 1 /\ CounterMod <= Word

\* The pseudo-random word of each event.
Prn == [e \in Counter |-> PrnE(e, ChanId)]

VARIABLES
  data_chan_sel,      \* 1 when both sides support algorithm #2
  data_chan_hop,
  data_chan_use       \* per side: the unmapped channel of algorithm #1

hopping == <<data_chan_sel, data_chan_hop, data_chan_use>>
hopVars == <<vars, hopping>>

HopInit ==
  /\ Init
  /\ data_chan_sel \in {0, 1} /\ data_chan_hop \in Hop
  /\ data_chan_use = [s \in Side |-> 0]

\* The channel selection in prepare_cb of either role: the accumulator moves
\* by the event and the ones before it that were skipped or aborted.
Selects(s) ==
  /\ data_chan_use' =
       IF attending'[s] /\ data_chan_sel = 0
       THEN [data_chan_use EXCEPT ![s] = Unmapped(@, data_chan_hop, latency_prepare[s] + lazy[s])]
       ELSE data_chan_use
  /\ UNCHANGED <<data_chan_sel, data_chan_hop>>

HopReconnect ==
  /\ Reconnect
  /\ data_chan_sel' \in {0, 1} /\ data_chan_hop' \in Hop
  /\ data_chan_use' = [s \in Side |-> 0]

HopNext ==
  \/ CentralStage /\ Selects(Central)
  \/ PeripheralStage /\ Selects(Peripheral)
  \/ (\E m \in Map : Request(m)) /\ UNCHANGED hopping
  \/ RxInd /\ UNCHANGED hopping
  \/ NextAnchor /\ UNCHANGED hopping
  \/ SupervisionTimeout /\ UNCHANGED hopping
  \/ HopReconnect

HopSpec == HopInit /\ [][HopNext]_hopVars

HopFairSpec == HopSpec /\ Fairness

-----------------------------------------------------------------------------
(* Properties. *)

\* The channel side s has prepared its event on.
SelectedChannel(s) ==
  IF data_chan_sel = 0 THEN Sel1(data_chan_use[s], data_chan_map[s])
                       ELSE Sel2(Prn[Plus(event_counter[s], -1)], data_chan_map[s])

\* In an event both attend, over the same map, both sides meet on one channel
\* and the map has it: whatever each skipped or had aborted before, and on
\* either side of the counter's wrap.
SidesMeet ==
  Open /\ stage = "event" /\ (\A s \in Side : attending[s])
  /\ data_chan_map[Central] = data_chan_map[Peripheral]
    => /\ SelectedChannel(Central) = SelectedChannel(Peripheral)
       /\ SelectedChannel(Central) \in data_chan_map[Central]
=============================================================================
