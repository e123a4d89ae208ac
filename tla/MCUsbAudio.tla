----------------------------- MODULE MCUsbAudio -----------------------------
(* Values of UsbAudio for TLC.                                               *)
EXTENDS UsbAudio

MCMusic == {"music"}
MCRecs == {"rec"}
MCListable == {"lpa", "voice", "voip", "capture"}
MCOutputs == {"speaker", "analog"}
MCInputs == {"mic"}
MCFaults == {<<"playback", "usb">>, <<"playback", "proxy">>, <<"playback", "error">>,
              <<"recording", "gone">>}
=============================================================================
