------------------------- MODULE MC_PanelTransfer -------------------------
(* PanelTransfer with a marker that begins and ends alike, as ##PNL_ACK##  *)
(* does, and texts that hold pieces of it.                                 *)
EXTENDS PanelTransfer

CONSTANTS hash, ack, x

MCMarker == <<hash, ack, hash>>
MCTexts == {<<>>, <<x>>, <<x, hash>>, <<hash, x, x>>, <<x, hash, hash, x>>}
MCMemory == {<<>>, <<x, x>>, <<hash, ack>>, MCMarker}
=============================================================================
