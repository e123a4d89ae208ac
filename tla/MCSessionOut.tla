---------------------------- MODULE MCSessionOut ----------------------------
(* Values of the constants of SessionOut for TLC.                           *)
EXTENDS SessionOut

Playback    == {"start", "pause", "flush"}
Stopping    == {"start", "pause", "flush", "stop"}
Ending      == {"start", "pause", "destroy"}
SeekAndEnd  == {"start", "flush", "destroy"}
Everything  == {"start", "pause", "flush", "standby", "stop", "ONLINE",
                "OFFLINE", "destroy"}

AllWrites   == {"none", "short", "full"}

NoFault     == {}
\* Those of writing and of the event thread, and those of the calls that
\* SeekAndEnd makes: with a write, drain or poll that fails, liveness is gone.
WriteFaults == {"write", "drain", "poll", "resume"}
CallFaults  == {"start", "pause", "prepare"}
=============================================================================
