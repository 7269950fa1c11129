------------------------------ MODULE MCSpeechPump ------------------------------
(* SpeechPump for audio of up to two bytes, one more than a frame may have, that look like tags. *)
EXTENDS SpeechPump

Audio == {<<>>, <<1>>, <<3, 1>>}
=============================================================================
