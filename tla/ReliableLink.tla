---------------------------- MODULE ReliableLink ----------------------------
(***************************************************************************)
(* What the acknowledged link between two connected controllers promises   *)
(* to the layer above, in both directions: what one side queues arrives at *)
(* the other once and in order, and nothing is reported as acknowledged    *)
(* before it has arrived.  LinkArq.tla implements it.                      *)
(***************************************************************************)
EXTENDS Naturals, Sequences

CONSTANTS Side, Data

VARIABLES
  sent,        \* per side: everything queued for transmission
  received,    \* per side: everything delivered to it
  confirmed    \* per side: how much of sent has been reported acknowledged

linkVars == <<sent, received, confirmed>>

Init ==
  /\ sent = [s \in Side |-> <<>>]
  /\ received = [s \in Side |-> <<>>]
  /\ confirmed = [s \in Side |-> 0]

Send(s, d) ==
  /\ sent' = [sent EXCEPT ![s] = Append(@, d)]
  /\ UNCHANGED <<received, confirmed>>

\* The next element of the other side's sent arrives at s.
Arrives(s, r) ==
  /\ Len(received[s]) < Len(sent[r])
  /\ received' = [received EXCEPT ![s] = Append(@, sent[r][Len(received[s]) + 1])]

\* The next element s has sent is reported acknowledged.
Confirms(s, r) ==
  /\ confirmed[s] < Len(received[r])
  /\ confirmed' = [confirmed EXCEPT ![s] = @ + 1]

\* One packet from r may both bring data to s and acknowledge data of s.
Exchange(s, r) ==
  /\ UNCHANGED sent
  /\ Arrives(s, r) \/ UNCHANGED received
  /\ Confirms(s, r) \/ UNCHANGED confirmed

Next ==
  \/ \E s \in Side, d \in Data : Send(s, d)
  \/ \E s \in Side, r \in Side : r # s /\ Exchange(s, r)

Spec == Init /\ [][Next]_linkVars
=============================================================================
