------------------------------- MODULE MCRtc -------------------------------
(* Instances of RTCWork for TLC.                                            *)
EXTENDS RTCWork

OnlyAutomatic == {"Automatic"}
Both == {"Reminder", "Automatic"}
==============================================================================
