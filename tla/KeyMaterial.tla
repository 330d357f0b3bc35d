------------------------------ MODULE KeyMaterial ------------------------------
(***************************************************************************)
(* integrations/ondc/ondc-util.service.ts: how a pair of signing keys      *)
(* becomes the strings kept in the database and sent to the registry, and  *)
(* what libsodium makes of them.  A value is the term that made it; two    *)
(* are equal when the same conversions were applied to the same half of    *)
(* the same pair.                                                          *)
(***************************************************************************)

(* What Node and libsodium have (external): the two standard exports of a  *)
(* half, "PRIVATE KEY" or "PUBLIC KEY", of a pair; the bytes of a text;    *)
(* and libsodium's own layout, the seed or the point itself.               *)
Der(half, pair) == <<"der", half, pair>>
Pem(half, pair) == <<"pem", half, pair>>
Raw(half, pair) == <<"raw", half, pair>>
Utf8(text)      == <<"utf8", text>>
Base64(bytes)   == <<"base64", bytes>>

from_base64(text) == text[2]

(* String.replace of the two marker lines of a PEM text, which leaves the  *)
(* base64 of the DER export; markers of another label are not found.       *)
StripMarkers(label, pem) == IF pem[2] = label THEN Base64(Der(pem[2], pem[3])) ELSE pem

(* generateSigningAndEncryptionKeyPairs.  Both halves lose the markers of  *)
(* a private key, and the text that is left is encoded again.              *)
signingPrivateKey(pair) ==
  Base64(Utf8(StripMarkers("PRIVATE KEY", Pem("PRIVATE KEY", pair))))
signingPublicKey(pair) ==
  Base64(Utf8(StripMarkers("PRIVATE KEY", Pem("PUBLIC KEY", pair))))

(* signMessage: libsodium takes any 64 bytes for a secret key, and the     *)
(* text above has 64; the signature is that of a pair only if they are its *)
(* secret key.                                                             *)
signMessage(privateKey) == [secretKey |-> from_base64(privateKey)]

(* A receiver who decoded the public key, from either export the registry  *)
(* could take, finds the signature valid.                                  *)
Verifies(signature, publicKey, pair) ==
  /\ from_base64(publicKey) \in {Raw("PUBLIC KEY", pair), Der("PUBLIC KEY", pair)}
  /\ signature.secretKey = Raw("PRIVATE KEY", pair)
================================================================================
