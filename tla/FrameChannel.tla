---------------------------- MODULE FrameChannel ----------------------------
(***************************************************************************)
(* What the edge gateway promises its consumers, with no queue, no policy  *)
(* and no task in sight: an ordered, lossy, at-most-once channel.  Frames  *)
(* of one source carry the source's sequence number; a frame may be lost   *)
(* at any time, but a frame that is dispatched was received, is dispatched *)
(* once, and never after a later frame of the same source.                 *)
(***************************************************************************)
EXTENDS Naturals

CONSTANT Source

VARIABLES
  sent,     \* sent[s]: the sequence number of the last frame s produced
  transit,  \* the frames received and neither dispatched nor lost
  got       \* got[s]: the sequence number of the last frame of s dispatched

channelVars == <<sent, transit, got>>

Frame == [src: Source, seq: Nat]

ChannelInit ==
  /\ sent = [s \in Source |-> 0]
  /\ transit = {}
  /\ got = [s \in Source |-> 0]

\* A source produces its next frame; the channel keeps it or not, and may
\* lose older frames to make room.
Send(s) ==
  /\ sent' = [sent EXCEPT ![s] = @ + 1]
  /\ transit' \subseteq transit \union {[src |-> s, seq |-> sent[s] + 1]}
  /\ UNCHANGED got

Lose ==
  /\ transit' \subseteq transit
  /\ UNCHANGED <<sent, got>>

Deliver(f) ==
  /\ got[f.src] < f.seq
  /\ got' = [got EXCEPT ![f.src] = f.seq]
  /\ transit' = transit \ {f}
  /\ UNCHANGED sent

ChannelNext ==
  \/ \E s \in Source : Send(s)
  \/ Lose
  \/ \E f \in transit : Deliver(f)

ChannelSpec == ChannelInit /\ [][ChannelNext]_channelVars
=============================================================================
