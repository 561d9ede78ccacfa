-------------------------- MODULE MCPaymentIdScan ---------------------------
(* PaymentIdScan for TLC: ids of two bits, two view keys, two public keys  *)
(* with pads that differ and one that is not a point.  The null key is a   *)
(* point of small order: it gives everybody the same pad.                  *)
EXTENDS PaymentIdScan

CONSTANTS b1, b2, k1, k2, p1, p2, bad

MCBits == {b1, b2}
MCKeys == {k1, k2}
MCPubs == {p1, p2, bad}
MCValid == {p1, p2, NullPub}
MCPad ==
    [c \in (MCPubs \cup {NullPub}) \X MCKeys |->
        CASE c = <<p1, k1>> -> {b1}
          [] c = <<p1, k2>> -> {b2}
          [] c = <<p2, k1>> -> {b1, b2}
          [] c = <<p2, k2>> -> {}
          [] OTHER -> {b2}]
MCPubFields == {<<>>, <<p1>>, <<p2>>, <<bad>>, <<p1, p2>>, <<bad, p1>>, <<p2, bad>>}
=============================================================================
