------------------------------- MODULE RxPath -------------------------------
(***************************************************************************)
(* What a receive path promises: buffers are posted, a packet arrives in a *)
(* posted buffer on one of several rings, and the packets of a ring are    *)
(* taken one by one in the order of their arrival.  A buffer is posted     *)
(* again only after it was taken.                                          *)
(***************************************************************************)
EXTENDS Naturals, Sequences

CONSTANTS Skbs,    \* buffers
          Rings    \* rings on which packets arrive

VARIABLES posted,   \* buffers into which a packet may be written
          arrived   \* per ring: buffers with a packet, oldest first

pathVars == <<posted, arrived>>

\* The buffers that are posted or hold a packet.
Outstanding ==
  posted \cup UNION {{arrived[r][k] : k \in 1 .. Len(arrived[r])} : r \in Rings}

PathInit == posted = {} /\ arrived = [r \in Rings |-> <<>>]

Post(bufs) ==
  /\ bufs \cap Outstanding = {}
  /\ posted' = posted \cup bufs
  /\ UNCHANGED arrived

Arrive(r, s) ==
  /\ s \in posted
  /\ posted' = posted \ {s}
  /\ arrived' = [arrived EXCEPT ![r] = Append(@, s)]

Take(r) ==
  /\ arrived[r] # <<>>
  /\ arrived' = [arrived EXCEPT ![r] = Tail(@)]
  /\ UNCHANGED posted

PathNext ==
  \/ \E bufs \in SUBSET Skbs : Post(bufs)
  \/ \E r \in Rings : Take(r) \/ \E s \in Skbs : Arrive(r, s)

PathSafety == PathInit /\ [][PathNext]_pathVars

PathSpec == PathSafety /\ \A r \in Rings : WF_pathVars(Take(r))
=============================================================================
