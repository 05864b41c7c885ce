-------------------------- MODULE ChannelSelection --------------------------
(***************************************************************************)
(* Channel selection algorithms #1 and #2 of lll_chan.c: which data        *)
(* channel a connection event uses.  A channel map is the set of used      *)
(* channels; words are 16 bits wide.                                       *)
(***************************************************************************)
EXTENDS Integers, FiniteSetsExt

CONSTANT NumChannels     \* 37 in the code

ASSUME NumChannelsAssumption == NumChannels \in Nat \ {0}

Channel == 0 .. NumChannels - 1

Word == 65536

Bit(x, i) == (x \div 2^i) % 2

SumOf(f) == MapThenSumSet(LAMBDA i : f[i], DOMAIN f)

Xor(a, b) == SumOf([i \in 0 .. 15 |-> ((Bit(a, i) + Bit(b, i)) % 2) * 2^i])

\* chan_rev_8, chan_perm: the bits of each byte are reversed.
Rev8(b) == SumOf([i \in 0 .. 7 |-> Bit(b, i) * 2^(7 - i)])

Perm(x) == Rev8(x \div 256) * 256 + Rev8(x % 256)

Mam(a, b) == (a * 17 + b) % Word

\* chan_prn_s: three rounds of permutation, multiplication and addition.
PrnS(counter, id) ==
  LET Round(x) == Mam(Perm(x), id) IN Round(Round(Round(Xor(counter, id))))

PrnE(counter, id) == Xor(PrnS(counter, id), id)

\* chan_sel_remap: the used channel with the given index, lowest first.
Remap(chm, index) == CHOOSE c \in chm : Cardinality({d \in chm : d < c}) = index

\* lll_chan_sel_1: the unmapped channel, kept in data_chan_use, advances by one
\* hop per event, those that were not attended included.
\* Faulty variant: by one hop per event attended.
UnmappedIfAttended(use, hop, latency) == (use + hop) % NumChannels

Unmapped(use, hop, latency) == (use + hop * (1 + latency)) % NumChannels

Sel1(use, chm) == IF use \in chm THEN use ELSE Remap(chm, use % Cardinality(chm))

\* lll_chan_sel_2, with prn = PrnE(event counter, channel identifier).
Sel2(prn, chm) ==
  LET c == prn % NumChannels IN
    IF c \in chm THEN c ELSE Remap(chm, (Cardinality(chm) * prn) \div Word)
=============================================================================
