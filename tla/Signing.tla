-------------------------------- MODULE Signing --------------------------------
(***************************************************************************)
(* Keys, addresses and signatures (utils.cc, and Message in bft_node.cc):  *)
(* what the code puts around OpenSSL.  Everything that is stored or sent   *)
(* is hexadecimal text: the address of an account is its public key, and a *)
(* signature travels in the transaction or message it signs.               *)
(***************************************************************************)
EXTENDS Integers, Sequences, SequencesExt

CONSTANTS
    HexBase,   \* 16: a byte is two digits in this base
    Keys,      \* the private keys there are, numbers of one or two bytes
    Width      \* 32: as many bytes of a digest as the curve secp256k1 has a use for

Bytes == 0 .. (HexBase * HexBase - 1)

ASSUME SigningAssumption ==
    /\ HexBase \in Nat /\ HexBase >= 3
    /\ \A k \in Keys : k \in Nat \ {0} /\ k \div (HexBase * HexBase) \in Bytes
    /\ Width \in Nat \ {0}

\* Faulty: written with "%x" in place of "%02x", a small byte is one digit.
Hex_Unpadded(bytes) ==
    FlattenSeq([i \in DOMAIN bytes |->
        IF bytes[i] < HexBase THEN <<bytes[i]>> ELSE <<bytes[i] \div HexBase, bytes[i] % HexBase>>])

\* sprintf("%02x") of every byte, and exportPublicKeyHex.
Hex(bytes) ==
    FlattenSeq([i \in DOMAIN bytes |-> <<bytes[i] \div HexBase, bytes[i] % HexBase>>])

\* sscanf("%02x") at every second digit; an odd one at the end is not read.
Unhex(text) ==
    [i \in 1 .. (Len(text) \div 2) |-> text[2 * i - 1] * HexBase + text[2 * i]]

\* exportPrivateKeyHex: BN_bn2hex leaves leading bytes out that are zero.
PrivateHex(k) ==
    IF k \in Bytes THEN Hex(<<k>>)
    ELSE Hex(<<k \div (HexBase * HexBase), k % (HexBase * HexBase)>>)

\* hexToPrivateKey: BN_hex2bn reads a number.
HexToPrivate(text) == FoldLeft(LAMBDA n, d : n * HexBase + d, 0, text)

(***************************************************************************)
(* OpenSSL.  The public key of a private one is a point, 4 and a fixed     *)
(* number of bytes.  A signature has a random part r, and a part s that is *)
(* determined by r, the key and the leftmost bytes of the digest, as many  *)
(* as the order of the curve has: what the code hands over for a digest is *)
(* a text, and what is behind these bytes of it is not signed.             *)
(***************************************************************************)
Point(k) == <<4, k \div (HexBase * HexBase), k % (HexBase * HexBase)>>

Leftmost(dgst) == SubSeq(dgst, 1, IF Len(dgst) < Width THEN Len(dgst) ELSE Width)

ECDSA_sign(k, dgst, r) == [r |-> r, s |-> <<r, k, Leftmost(dgst)>>]

ECDSA_verify(dgst, sig, point) ==
    \E k \in Keys : Point(k) = point /\ sig.s = <<sig.r, k, Leftmost(dgst)>>

-----------------------------------------------------------------------------
\* A signature as text, and read back.
SigText(sig) == [sig EXCEPT !.r = Hex(@)]
SigBytes(text) == [text EXCEPT !.r = Unhex(@)]

\* GenAddr makes a pair of a private key and an address, both as text.
GenAddr(k) == [priv |-> PrivateHex(k), addr |-> Hex(Point(k))]

\* getHash, of the fields but the signature; a value is written with a few
\* significant digits, which are those of the values here.  The text of a hash is
\* one symbol: two hashes differ in the half of their 64 digits that is signed.
GetHash(tx) == <<<<tx.time_stamp, tx.from, tx.to, tx.value>>>>

\* CalSignature, with the random part r.
CalSignature(tx, priv, r) == SigText(ECDSA_sign(HexToPrivate(priv), GetHash(tx), r))

\* ValidateSignature: the key is the address the transaction is from.
ValidateSignature(tx) ==
    ECDSA_verify(GetHash(tx), SigBytes(tx.signature), Unhex(tx.from))

-----------------------------------------------------------------------------
ToInt(mtype) == CASE mtype = "Preprepare" -> 1 [] mtype = "Prepare" -> 2 [] mtype = "Commit" -> 3

\* The decimal digits of a number.
Decimal(n) ==
    LET digits[k \in 0 .. n] == IF k < 10 THEN <<k>> ELSE Append(digits[k \div 10], k % 10)
    IN  digits[n]

\* Faulty: the type of the message is not signed.
SignedText_Untyped(m) == Decimal(m.view_id) \o Decimal(m.seq) \o m.digest

(***************************************************************************)
(* What a PBFT message signs: type, view and number in decimal, and the    *)
(* digest, with nothing between them.  This text is not hashed again.      *)
(***************************************************************************)
SignedText(m) ==
    <<ToInt(m.mtype)>> \o Decimal(m.view_id) \o Decimal(m.seq) \o m.digest

\* Message::Signate and Message::CheckSignature: the key is the one the message
\* names as its sender's.
Signate(m, priv, r) == SigText(ECDSA_sign(HexToPrivate(priv), SignedText(m), r))

CheckSignature(m) ==
    ECDSA_verify(SignedText(m), SigBytes(m.signature), Unhex(m.pub_key))
=============================================================================
