----------------------------- MODULE MCCodecServer -----------------------------
(* The codec server for TLC. *)
EXTENDS CodecServer, TLC

CONSTANTS k1, k2

plainText   == Payload("plain", "absent", Text("t1"))
bare        == Payload("absent", "absent", EmptyData)
foreign     == Payload("encrypted", "test", Cipher(k1, Payload("plain", "absent", Text("t2"))))
garbage     == Payload("encrypted", defaultKeyId, Text("t1"))
dataless    == Payload("encrypted", defaultKeyId, EmptyData)
malformed   == Payload("malformed", "absent", NoData)

RaceSamples    == { plainText, foreign, dataless }
HistorySamples == { bare, foreign, garbage, malformed }

Symmetry == Permutations(Requests)
=============================================================================
