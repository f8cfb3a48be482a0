---------------------------- MODULE EncryptionCodec ----------------------------
(***************************************************************************)
(* The payload codec of the TypeScript worker and of its codec server:     *)
(* what encoding and decoding make of one payload.  A payload is its       *)
(* encoding (in the metadata), the id of the key it names (there too) and  *)
(* its data.  A ciphertext is the key it was made with and the payload     *)
(* inside: AES-GCM is authenticated, so that nothing but this key opens it.*)
(***************************************************************************)
EXTENDS Sequences, Naturals

\* The key id the worker and the server hand to EncryptionCodec.create.
defaultKeyId == "test-key-id"

\* Data that is missing, present but empty, a text, and a ciphertext.
NoData         == [ kind |-> "absent" ]
EmptyData      == [ kind |-> "empty" ]
Text(t)        == [ kind |-> "text", text |-> t ]
Cipher(key, p) == [ kind |-> "cipher", key |-> key, payload |-> p ]

\* The encoding is "absent" when there is no metadata at all, and "none" when
\* the metadata has no entry for it.  A "malformed" payload has a metadata
\* value that is not a string.
Payload(encoding, keyId, data) ==
    [ encoding |-> encoding, keyId |-> keyId, data |-> data ]

\* JSON that is not a payload makes fromJSON throw.
IsJSONPayload(p) == p.encoding # "malformed"

\* Data that is the empty string is taken for missing data.
fromJSON(p) == IF p.data.kind = "empty" THEN [p EXCEPT !.data = NoData] ELSE p

\* What a payload has become when it went through the proto encoding: there is
\* no missing metadata or data any more, only empty ones.
ThroughProto(p) ==
    [p EXCEPT !.encoding = IF @ = "absent" THEN "none" ELSE @,
              !.data     = IF @.kind = "absent" THEN EmptyData ELSE @]

-----------------------------------------------------------------------------

\* Mutant: only the data is encrypted, and the metadata is lost.
encodeDataOnly(p, key) ==
    Payload("encrypted", defaultKeyId,
            Cipher(key, ThroughProto([p EXCEPT !.encoding = "none"])))

\* The payload as a whole is encrypted, also when it is encrypted already.
encode(p, key) ==
    Payload("encrypted", defaultKeyId, Cipher(key, ThroughProto(p)))

\* A payload that decode leaves alone.
IsPlain(p) == p.encoding # "encrypted"

\* decode throws before it asks for a key.
LacksParts(p) == p.data.kind = "absent" \/ p.keyId = "absent"

\* Mutant: the authentication tag is not looked at.
decryptUnchecked(p, key) == p.data.kind = "cipher"

\* The key opens the data; otherwise decrypt throws.
decrypt(p, key) == p.data.kind = "cipher" /\ p.data.key = key

\* decode takes off one layer of encryption.
decode(p) == IF IsPlain(p) THEN p ELSE p.data.payload
=============================================================================
