---------------------------- MODULE MCQuasiUART -----------------------------
(***************************************************************************)
(* Messages for QuasiUART: bytes have four values, so that four of them    *)
(* can look like the marker; lengths go around one and two words.          *)
(***************************************************************************)
EXTENDS QuasiUART

MCMessages ==
    {<<a, b>> : a, b \in Bytes} \cup {<<1>>, <<0>>, <<3, 3, 3, 3>>, <<3, 3, 3, 3, 0>>,
     <<1, 2, 3>>, <<0, 1, 0, 2, 3, 3, 3, 3>>, <<3, 3, 3, 3, 3, 3, 3, 3, 3>>}

MCWithEmpty == MCMessages \cup {<<>>}
=============================================================================
