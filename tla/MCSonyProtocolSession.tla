----------------------- MODULE MCSonyProtocolSession -----------------------
(* SonyProtocolSession on small instances. *)
EXTENDS SonySessionProperties
=============================================================================
