----------------------------- MODULE Subscribers -----------------------------
(***************************************************************************)
(* What the WebSocket hub keeps, whatever indexes it keeps it in: which    *)
(* registered client follows which twin.                                   *)
(***************************************************************************)
CONSTANTS Client, Twin

VARIABLES
  registered,  \* the clients that can be reached
  follows      \* pairs of a client and a twin it follows

hubVars == <<registered, follows>>

HubInit == registered = {} /\ follows = {}

Register(c) ==
  /\ c \notin registered
  /\ registered' = registered \union {c}
  /\ follows' \in {follows} \union {follows \union {<<c, y>>} : y \in Twin}

Follow(c, y) ==
  /\ c \in registered
  /\ follows' = follows \union {<<c, y>>}
  /\ UNCHANGED registered

Unfollow(c, y) ==
  /\ follows' = follows \ {<<c, y>>}
  /\ UNCHANGED registered

\* Clients found dead go with everything they followed.
Forget(gone) ==
  /\ registered' = registered \ gone
  /\ follows' = {p \in follows : p[1] \notin gone}

HubNext ==
  \/ \E c \in Client : Register(c)
  \/ \E c \in Client, y \in Twin : Follow(c, y) \/ Unfollow(c, y)
  \/ \E gone \in SUBSET Client : Forget(gone)

HubSpec == HubInit /\ [][HubNext]_hubVars
=============================================================================
