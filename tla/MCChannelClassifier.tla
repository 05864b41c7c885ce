------------------------ MODULE MCChannelClassifier ------------------------
(* Instances of ChannelClassifier for TLC. *)
EXTENDS ChannelClassifier, TLC

\* The channels are interchangeable as far as the Host's maps are.
MCSymmetry ==
  {p \in Permutations(Channel) : \A m \in HostMaps : {p[c] : c \in m} \in HostMaps}
=============================================================================
