------------------------------- MODULE TxPath -------------------------------
(***************************************************************************)
(* What a transmit path promises the network stack: the packets it accepts *)
(* are handed to the wire in the order of acceptance, at most Depth wait   *)
(* at a time, each is sent exactly once, and the buffer of a packet is     *)
(* released exactly once, after the hardware has reported the packet.      *)
(* Nothing is said of how buffers are found again or of who runs when.     *)
(***************************************************************************)
EXTENDS Naturals, Sequences

CONSTANTS Skbs,   \* packets, with their buffers
          Depth   \* how many accepted packets may wait

VARIABLES waiting,    \* accepted packets, oldest first
          sending,    \* packets that the hardware is sending
          reported    \* packets reported by the hardware, not yet released

pathVars == <<waiting, sending, reported>>

\* The packets whose buffers the path holds.
Outstanding ==
  {waiting[k] : k \in 1 .. Len(waiting)} \cup sending \cup reported

PathInit == waiting = <<>> /\ sending = {} /\ reported = {}

Accept(s) ==
  /\ s \notin Outstanding
  /\ Len(waiting) < Depth
  /\ waiting' = Append(waiting, s)
  /\ UNCHANGED <<sending, reported>>

Send ==
  /\ waiting # <<>>
  /\ sending' = sending \cup {Head(waiting)}
  /\ waiting' = Tail(waiting)
  /\ UNCHANGED reported

Report(s) ==
  /\ s \in sending
  /\ sending' = sending \ {s}
  /\ reported' = reported \cup {s}
  /\ UNCHANGED waiting

Release(s) ==
  /\ s \in reported
  /\ reported' = reported \ {s}
  /\ UNCHANGED <<waiting, sending>>

PathNext ==
  \/ Send
  \/ \E s \in Skbs : Accept(s) \/ Report(s) \/ Release(s)

PathSpec == PathInit /\ [][PathNext]_pathVars
=============================================================================
