-------------------------- MODULE MCAccountFactory --------------------------
(* AccountFactory for TLC: 2-bit words, a lookahead of 1 account with 2    *)
(* addresses each, one wallet and one of its subaddresses.                 *)
EXTENDS AccountFactory

Position(idx) == idx[1] * (UINT32_MAX + 1) + idx[2] + 1

(* The wallet's keys are 1, 2, ...; 2 is that of 0/1.  An account made of  *)
(* that subaddress derives other keys from it, except for itself.          *)
MCDeviceKey ==
    [spend \in {1, 2} |->
        [idx \in Index |-> IF idx = <<0, 0>> THEN spend
                           ELSE IF spend = 1 THEN Position(idx)
                           ELSE 100 + Position(idx)]]

MCPrefix ==
    [a \in {"MAINNET", "STAGENET"} \X
           {"REGULAR", "INTEGRATED", "SUBADDRESS"} |->
        (IF a[1] = "MAINNET" THEN 10 ELSE 20)
            + CASE a[2] = "REGULAR" -> 1 [] a[2] = "INTEGRATED" -> 2
                [] OTHER -> 3]

Text(prefix, spend, intact) ==
    [prefix |-> prefix, spend |-> spend, intact |-> intact]

MCTexts == {Text(11, 1, TRUE), Text(22, 1, TRUE), Text(13, 2, TRUE),
            Text(11, 1, FALSE), Text(0, 1, FALSE)}

MCInfos == {[spend |-> 1, is_subaddress |-> FALSE, valid |-> FALSE]}

MCIndexTexts == {<<0, 0>>, <<0, 1>>, <<2, 1>>, <<-1, 0>>, <<1>>,
                 <<UINT32_MAX + 1, 0>>}

MCIndices == {<<0, 1>>, <<2, 0>>}
=============================================================================
