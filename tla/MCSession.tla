----------------------------- MODULE MCSession -----------------------------
(***************************************************************************)
(* Instances of a session for TLC.  The QoS sequences are the traffic of a *)
(* run; everything else is set in the .cfg files.                          *)
(***************************************************************************)
EXTENDS SessionProperties

NoMsgs  == << >>
Qos1    == <<1>>
Qos11   == <<1, 1>>
Qos12   == <<1, 2>>
Qos201  == <<2, 0, 1>>
Qos210  == <<2, 1, 0>>
=============================================================================
