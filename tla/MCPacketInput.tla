--------------------------- MODULE MCPacketInput ---------------------------
(* A hello and four messages; a turn has room for two. *)
EXTENDS PacketInput

FivePackets == <<1, 1, 2, 1, 1>>
=============================================================================
