---------------------------- MODULE PolicyDevices ----------------------------
(* Which device the audio policy manager selects (AudioPolicyManagerALSA.cpp *)
(* and the profiles of audio_policy.conf).  The selection is a function of   *)
(* the conditions q: the devices that are connected, the phone state, the    *)
(* forced uses, the suspension of A2DP, the open outputs and the streams     *)
(* that play on them.  A set of devices is a set of names: the code's masks. *)
EXTENDS Naturals, FiniteSets, Sequences, SequencesExt

CONSTANTS Streams,    \* stream types in use
          Profiles    \* output profiles of the configuration in use

ASSUME StreamsAssumption ==
  /\ Streams \subseteq {"VOICE_CALL", "BLUETOOTH_SCO", "RING", "DTMF",
                        "SYSTEM", "MUSIC", "ENFORCED_AUDIBLE"}
  /\ "MUSIC" \in Streams
ASSUME ProfilesAssumption ==
  /\ Profiles \subseteq {"primary", "fast", "lpa", "tunnel", "voip_rx", "hdmi", "submix"}
  /\ {"primary", "fast"} \subseteq Profiles

Outputs == Profiles \cup {"dup"}    \* "dup" duplicates primary and submix
Sco  == {"SCO", "SCO_HEADSET", "SCO_CARKIT"}
A2dp == {"A2DP", "A2DP_HEADPHONES", "A2DP_SPEAKER"}
Usb  == {"USB_ACCESSORY", "USB_DEVICE"}
Wired == {"WIRED_HEADSET", "WIRED_HEADPHONE"}
OutDevices ==
  Sco \cup A2dp \cup Usb \cup Wired
    \cup {"SPEAKER", "EARPIECE", "ANC_HEADPHONE", "ANC_HEADSET", "DGTL_DOCK",
          "ANLG_DOCK", "AUX_DIGITAL", "FM", "FM_TX", "PROXY", "REMOTE_SUBMIX"}
InDevices == {"BUILTIN_MIC", "WIRED_HEADSET", "SCO_HEADSET", "ANLG_DOCK", "ANC_HEADSET",
              "BACK_MIC", "AUX_DIGITAL", "VOICE_CALL", "COMMUNICATION", "FM_RX",
              "FM_RX_A2DP", "REMOTE_SUBMIX"}
Usages == {"COMMUNICATION", "MEDIA", "RECORD", "DOCK", "SYSTEM"}
PhoneStates == {"NORMAL", "RINGTONE", "IN_CALL", "IN_COMMUNICATION"}

Mixed == {"SPEAKER", "EARPIECE", "ANLG_DOCK", "AUX_DIGITAL", "PROXY", "FM_TX"} \cup Wired
           \cup Sco \cup A2dp \cup Usb
Supported(o) ==
  CASE o \in {"primary", "fast"} -> Mixed \cup {"FM"}
    [] o \in {"lpa", "tunnel"}   -> Mixed
    [] o = "voip_rx" -> {"SPEAKER", "EARPIECE", "ANLG_DOCK"} \cup Wired \cup Usb
    [] o = "hdmi"    -> {"AUX_DIGITAL"}
    [] o = "submix"  -> {"REMOTE_SUBMIX"}
    [] o = "dup"     -> Mixed \cup {"FM", "REMOTE_SUBMIX"}
Counted == {"lpa", "tunnel", "voip_rx"}    \* closed when their last client leaves
Direct  == Counted \cup {"hdmi"}
Parts(o) == IF o = "dup" THEN {"primary", "submix"} ELSE {o}
SharesModule(o, p) == (Parts(o) \ {"submix"} # {} /\ Parts(p) \ {"submix"} # {})
                        \/ ("submix" \in Parts(o) /\ "submix" \in Parts(p))
----------------------------------------------------------------------------
Strategy(s) ==
  CASE s \in {"VOICE_CALL", "BLUETOOTH_SCO"} -> "PHONE"
    [] s = "RING"         -> "SONIFICATION"
    [] s = "DTMF"         -> "DTMF"
    [] s \in {"SYSTEM", "MUSIC"} -> "MEDIA"
    [] s = "ENFORCED_AUDIBLE" -> "ENFORCED_AUDIBLE"
Strategies == {"PHONE", "SONIFICATION", "DTMF", "MEDIA", "ENFORCED_AUDIBLE"}

isInCall(q) == q.phone \in {"IN_CALL", "IN_COMMUNICATION"}
isActive(q, o) == \E s \in Streams : q.refs[o][s] > 0
isStrategyActive(q, o, t) == \E s \in Streams : Strategy(s) = t /\ q.refs[o][s] > 0
A2dpUsable(q) == q.force["MEDIA"] # "NO_BT_A2DP" /\ ~q.suspended
When(c, ds) == IF c THEN ds ELSE <<>>
\* The first device of a list that is connected, as a mask.
FirstIn(available, ds) ==
  {ds[n] : n \in {k \in DOMAIN ds : ds[k] \in available /\ \A j \in 1..k - 1 : ds[j] \notin available}}
First(q, ds) == FirstIn(q.available, ds)
OrDefault(d) == IF d = {} THEN {"SPEAKER"} ELSE d
Headphones == <<"WIRED_HEADPHONE", "WIRED_HEADSET", "ANC_HEADPHONE", "ANC_HEADSET">>

FmOnSpeaker(q, d) == IF "FM" \in q.available /\ q.force["MEDIA"] = "SPEAKER"
                     THEN (d \ (Wired \cup {"ANLG_DOCK"})) \cup {"SPEAKER"} ELSE d
PhoneDevice(q, dtmf) ==
  LET calling == isInCall(q)
      sco == When(~calling \/ ~dtmf, <<"SCO_CARKIT">>) \o <<"SCO_HEADSET", "SCO">>
      usual == When(~calling /\ A2dpUsable(q), <<"A2DP", "A2DP_HEADPHONES">>)
                 \o Headphones
                 \o When(q.phone # "IN_CALL", <<"USB_ACCESSORY", "USB_DEVICE", "DGTL_DOCK">>)
                 \o <<"ANLG_DOCK", "EARPIECE">>
      loud == When(~calling /\ A2dpUsable(q), <<"A2DP_SPEAKER">>)
                \o When(~calling, <<"USB_ACCESSORY", "USB_DEVICE", "DGTL_DOCK", "ANLG_DOCK">>)
                \o <<"SPEAKER">>
      list == IF q.force["COMMUNICATION"] = "SPEAKER" THEN loud
              ELSE IF q.force["COMMUNICATION"] = "BT_SCO" THEN sco \o usual ELSE usual
  IN FmOnSpeaker(q, OrDefault(First(q, list)))

SecondDevice(q, t) ==
  LET media == t # "SONIFICATION"
  IN First(q, When(media, <<"REMOTE_SUBMIX">>)
                \o When(A2dpUsable(q), <<"A2DP", "A2DP_HEADPHONES", "A2DP_SPEAKER">>)
                \o Headphones \o <<"USB_ACCESSORY", "USB_DEVICE", "DGTL_DOCK">>
                \o When(media, <<"AUX_DIGITAL">>) \o <<"ANLG_DOCK", "FM_TX">>
                \o When(media, <<"PROXY">>) \o <<"SPEAKER">>)
MediaDevice(q, t) ==
  LET enforced == t = "SONIFICATION"
                    \/ (t = "ENFORCED_AUDIBLE" /\ q.force["SYSTEM"] = "SYSTEM_ENFORCED")
      speaker == {"SPEAKER"} \cap q.available
  IN IF isInCall(q) THEN PhoneDevice(q, FALSE)
     ELSE IF q.force["MEDIA"] # "SPEAKER" \/ t = "SONIFICATION"
     THEN OrDefault((IF enforced THEN speaker ELSE {}) \cup SecondDevice(q, t))
     ELSE speaker
\* getDeviceForStrategy() without the cache
Device(q, t) ==
  IF t = "DTMF" THEN IF isInCall(q) THEN PhoneDevice(q, TRUE) ELSE MediaDevice(q, "MEDIA")
  ELSE IF t = "PHONE" THEN PhoneDevice(q, FALSE) ELSE MediaDevice(q, t)
Fresh(q) == [t \in Strategies |-> Device(q, t)]

NewStrategy(q, o) ==
  LET Active(t) == isStrategyActive(q, o, t)
      ringing == /\ isStrategyActive(q, "primary", "SONIFICATION")
                 /\ ~isStrategyActive(q, "primary", "MEDIA")
  IN IF Active("ENFORCED_AUDIBLE") THEN "ENFORCED_AUDIBLE"
     ELSE IF isInCall(q) \/ Active("PHONE") THEN "PHONE"
     ELSE IF Active("SONIFICATION") \/ ringing THEN "SONIFICATION"
     ELSE IF Active("MEDIA") THEN "MEDIA"
     ELSE IF Active("DTMF") THEN "DTMF" ELSE "NONE"
\* Mutant: an output without tracks is never routed.
getNewDeviceActive(q, cache, o) ==
  LET t == NewStrategy(q, o) IN IF t = "NONE" \/ ~isActive(q, o) THEN {} ELSE cache[t]
\* getNewDevice(o, TRUE); with the cache just computed it is getNewDevice(o, FALSE)
getNewDevice(q, cache, o) == LET t == NewStrategy(q, o) IN IF t = "NONE" THEN {} ELSE cache[t]
----------------------------------------------------------------------------
InputDevice(q, source) ==
  LET mic == When(q.force["RECORD"] = "BT_SCO", <<"SCO_HEADSET">>)
               \o <<"WIRED_HEADSET", "ANC_HEADSET", "ANLG_DOCK", "BUILTIN_MIC">>
      list == CASE source \in {"DEFAULT", "MIC", "VOICE_RECOGNITION", "HOTWORD"} -> mic
                [] source = "VOICE_UPLINK" -> <<"VOICE_CALL">> \o mic
                [] source = "CAMCORDER" -> <<"BACK_MIC", "SCO_HEADSET", "WIRED_HEADSET",
                                             "AUX_DIGITAL", "BUILTIN_MIC">>
                [] source \in {"VOICE_DOWNLINK", "VOICE_CALL"} -> <<"VOICE_CALL">>
                [] source = "REMOTE_SUBMIX" -> <<"REMOTE_SUBMIX">>
                [] OTHER -> <<>>
      found == FirstIn(q.inputs, list)
  IN CASE source = "VOICE_COMMUNICATION" -> "COMMUNICATION"
       [] source \in {"FM_RX", "FM_RX_A2DP"} -> source
       [] OTHER -> IF found = {} THEN "NONE" ELSE CHOOSE d \in found : TRUE
=============================================================================
