--------------------------- MODULE MCPayloadCodec ---------------------------
(***************************************************************************)
(* Instance of PayloadCodec for TLC: elements of seven bytes, one of them  *)
(* the last byte of the header.  Inputs combine headers that are right and *)
(* wrong in each field with bodies of up to three elements and a byte or   *)
(* a part of an element too many.                                          *)
(***************************************************************************)
EXTENDS PayloadCodec, SequencesExt

\* first byte, version, claimed length, padding
Headers ==
    {<<a, v>> \o len \o <<z>> :
        a \in {0, 1}, v \in {0, 1}, z \in {0, 1},
        len \in {ToBeBytes(n) : n \in (0..19) \cup {256, 65536, 16777216}}}

Elements ==
    {Zeros(7), <<0, 5, 0, 0, 0, 0, 0>>, <<0, 0, 0, 0, 0, 0, 5>>, <<1, 0, 0, 0, 0, 0, 0>>,
     <<0, 0, 0, 0, 0, 5, 0>>}

Bodies == {FlattenSeq(s) : s \in UNION {[1..n -> Elements] : n \in 0..3}}

MCInputs ==
    {h \o b \o t : h \in Headers, b \in Bodies, t \in {<< >>, <<0>>}}
        \cup {SubSeq(h, 1, n) : h \in Headers, n \in 0..6}

\* Every length up to a full blob of four elements.
MCRollupData ==
    UNION {{[i \in 1..n |-> IF i \in ones THEN 5 ELSE 0] :
              ones \in {{}, {1}, {n}, 1..n}} : n \in 0..18}

=============================================================================
