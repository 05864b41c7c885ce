----------------------------- MODULE MCLinkArq -----------------------------
(* The instance of LinkArq for TLC: a link that is either up or closed for    *)
(* good, where only the closed one may stop.  Two PDUs each way, so that the  *)
(* one-bit numbers of both directions wrap.                                   *)
EXTENDS LinkArq
=============================================================================
