---------------------------- MODULE MCSonyDevice ----------------------------
(* The profiles of the checked instance: a V1 headset, and the WF-1000XM4. *)
EXTENDS SonyDevice

OverEar == [version |-> "V1", features |-> {"noiseControl", "speakToChat"}, earbuds |-> FALSE]
Earbuds == [version |-> "V2", features |-> {"battery", "noiseControl"}, earbuds |-> TRUE]
BothProfiles == {OverEar, Earbuds}

=============================================================================
