--------------------------- MODULE MCLegacyClient ---------------------------
EXTENDS LegacyClient

MCReads == <<"battery", "batterySides">>
MCProbes == <<"autoPowerOff">>
V1Headset == [v2 |-> FALSE, answers |-> {"ambientV1"}]
V2Headset == [v2 |-> TRUE, answers |-> {"init", "ambient", "battery", "dsee", "autoPowerOff"}]
MCHeadsets == {V1Headset, V2Headset}
=============================================================================
