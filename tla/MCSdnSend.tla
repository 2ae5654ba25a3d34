----------------------------- MODULE MCSdnSend -----------------------------
(* A node with a queue of two packets, a window of two and room in the pool
   for one more: every full and empty case occurs. *)
EXTENDS SdnSend

CONSTANTS me, peer, fc, f1

MCAddrs == {me, peer}
MCFlows == {fc, f1}

Request == MakeRequest("DATA_REQUEST", me, f1)
Forwarded == [MakeData(peer, f1) EXCEPT !.seq = 0]

RequestAndForwarded == {Request, Forwarded}
AllSeqs == 0..(SeqMod - 1)
=============================================================================
