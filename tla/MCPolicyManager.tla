--------------------------- MODULE MCPolicyManager ---------------------------
(* Values of PolicyManager for TLC: two pieces of music, one of which may    *)
(* open the low-power output with either parameters and the other share it   *)
(* or play on the mixer, a ring and a voice call, a microphone and a capture *)
(* of what is played.                                                        *)
EXTENDS PolicyManager

MCStreams == {"MUSIC", "RING", "VOICE_CALL"}
MCProfiles == {"primary", "fast", "lpa", "submix"}
MCClients == {"song", "tune", "ring", "voice"}
MCStreamOf == [c \in MCClients |-> CASE c = "ring" -> "RING" [] c = "voice" -> "VOICE_CALL"
                                     [] OTHER -> "MUSIC"]
Want(flag, params) == [flag |-> flag, params |-> params]
MCWants == [c \in MCClients |-> CASE c = "song" -> {Want("lpa", "p"), Want("lpa", "q")}
                                  [] c = "tune" -> {Want("lpa", "p"), Want("none", "p")}
                                  [] OTHER -> {Want("none", "p")}]
MCCompatible == {"lpa"} \X {"p", "q"}
MCPlugs == {"WIRED_HEADSET", "SCO"}
MCForces == {"COMMUNICATION"} \X {"NONE", "BT_SCO"}
MCPhones == {"NORMAL", "IN_CALL"}
MCRecords == {"mic", "cast"}
MCSourceOf == [i \in MCRecords |-> IF i = "cast" THEN "REMOTE_SUBMIX" ELSE "MIC"]
=============================================================================
