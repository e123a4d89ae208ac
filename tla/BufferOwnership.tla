-------------------------- MODULE BufferOwnership --------------------------
(* What an AudioSessionOutALSA promises about the BUFFER_COUNT period       *)
(* buffers it maps from the driver: each one is free for the decoder, or is *)
(* in flight to the driver and comes back in the order it was given, or has *)
(* been lost until the next flush takes all of them back.  Threads, locks,  *)
(* flags and the driver are those of the module SessionOut.                 *)
EXTENDS Naturals, Sequences

CONSTANT Buffers      \* mBufPool

VARIABLES free,       \* what mEmptyQueue holds
          inFlight    \* mFilledQueue, oldest first

Init == free = Buffers /\ inFlight = << >>

\* The decoder hands a free buffer to the driver.
Give(b) ==
  /\ b \in free
  /\ free' = free \ {b}
  /\ inFlight' = Append(inFlight, b)

\* An end-of-stream or a failed write takes a buffer that nobody will return.
Lose(b) ==
  /\ b \in free
  /\ free' = free \ {b}
  /\ UNCHANGED inFlight

\* The driver is done with the oldest buffer in flight.
Return ==
  /\ inFlight # << >>
  /\ free' = free \cup {Head(inFlight)}
  /\ inFlight' = Tail(inFlight)

\* A flush takes every buffer back, the lost ones too.
Reclaim == free' = Buffers /\ inFlight' = << >>

Next == (\E b \in free : Give(b) \/ Lose(b)) \/ Return \/ Reclaim

Spec == Init /\ [][Next]_<<free, inFlight>>
=============================================================================
