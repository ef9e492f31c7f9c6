------------------------------ MODULE Prelude ------------------------------
(***************************************************************************)
(* How the main password travels from the PAM module to the service        *)
(* (src/pam/security.rs): the service hands out a SessionPrelude with its  *)
(* public key and a one-time token; `encrypt` pads the password, mixes it  *)
(* with the token, encrypts it under a fresh AES key and sends that key    *)
(* under RSA, behind a header that says how long the RSA block is;         *)
(* `decrypt` takes the message apart again.                                *)
(*                                                                         *)
(* The lengths of the code (255 bytes of token, an 8-byte header, a nonce  *)
(* of 12, a tag of 16, an RSA block of 512) are constants here. Ciphertext *)
(* is symbolic: each cell of a block tells what was encrypted, with which  *)
(* key, and where in the block it stands, so that a block opens only whole *)
(* and with its own key and nonce.                                         *)
(***************************************************************************)
EXTENDS Integers, Sequences

CONSTANTS
    TOKEN_LEN,           \* 255: length of the token and of the padded password
    ENCRYPTED_KEY_LEN,   \* 8: bytes of the header, and bits of a byte
    NONCE_LEN,           \* 12
    TAG_LEN,             \* 16: what AES-GCM adds to its plaintext
    RSA_LEN,             \* length of an RSA block
    PrivKeys,            \* RSA keys the service may have
    AesKeys,             \* AES keys that may be drawn
    Nonces,              \* nonces that may be drawn
    Passwords,           \* the main passwords that are sent
    OneTimeTokens,       \* the tokens that may be drawn
    None

\* A shift by n bits.
Pow2[n \in Nat] == IF n = 0 THEN 1 ELSE 2 * Pow2[n - 1]

Byte == 0 .. Pow2[ENCRYPTED_KEY_LEN] - 1

ASSUME PreludeAssumption ==
    /\ TOKEN_LEN \in Nat \ {0} /\ ENCRYPTED_KEY_LEN \in Nat \ {0}
    /\ NONCE_LEN \in Nat /\ TAG_LEN \in Nat /\ RSA_LEN \in Nat \ {0}
    /\ RSA_LEN < Pow2[ENCRYPTED_KEY_LEN * ENCRYPTED_KEY_LEN]
    /\ Passwords \subseteq Seq(Byte \ {0})   \* C strings hold no NUL
    /\ OneTimeTokens \subseteq {t \in Seq(Byte) : Len(t) = TOKEN_LEN}
    /\ None \notin AesKeys /\ None \notin Seq(Byte)

VARIABLES
    prelude,    \* the SessionPrelude the client has received, or None
    typed,      \* the password the client sends, or None
    message,    \* what encrypt returned, as it is on the bus
    result      \* what encrypt, when it fails, or decrypt returned

vars == <<prelude, typed, message, result>>

-----------------------------------------------------------------------------
(* Helpers of the code.                                                    *)

\* The password, cut or padded with zeros to the length of the token.
string_to_vec_u8(input) ==
    [i \in 1 .. TOKEN_LEN |-> IF i <= Len(input) THEN input[i] ELSE 0]

\* The bytes of data, each followed by one of the token.
combine(otp, data) ==
    [i \in 1 .. 2 * Len(data) |->
        IF i % 2 = 1 THEN data[(i + 1) \div 2]
        ELSE otp[((i \div 2 - 1) % Len(otp)) + 1]]

split(combined) ==
    [otp |-> [i \in 1 .. Len(combined) \div 2 |-> combined[2 * i]],
     data |-> [i \in 1 .. (Len(combined) + 1) \div 2 |-> combined[2 * i - 1]]]

\* Shifts by i * ENCRYPTED_KEY_LEN bits.
Shift(i) == Pow2[ENCRYPTED_KEY_LEN * i]

\* Mutant: the bytes of the length are not cut to a byte.
header_unreduced(len) ==
    [i \in 1 .. ENCRYPTED_KEY_LEN |-> len \div Shift(i - 1)]

\* The length of the RSA block, lowest byte first.
header(len) ==
    [i \in 1 .. ENCRYPTED_KEY_LEN |->
        (len \div Shift(i - 1)) % Pow2[ENCRYPTED_KEY_LEN]]

\* Mutant: the highest byte is taken to come first.
header_value_big_endian(bytes) ==
    LET value[i \in 0 .. Len(bytes)] ==
            IF i = 0 THEN 0 ELSE value[i - 1] + bytes[i] * Shift(Len(bytes) - i)
    IN  value[Len(bytes)]

\* The bytes put together again, one after the other.
header_value(bytes) ==
    LET value[i \in 0 .. Len(bytes)] ==
            IF i = 0 THEN 0 ELSE value[i - 1] + bytes[i] * Shift(i - 1)
    IN  value[Len(bytes)]

\* The bytes that are not zero, in their order.
filter_map(bytes) ==
    LET kept[i \in 0 .. Len(bytes)] ==
            IF i = 0 THEN <<>>
            ELSE IF bytes[i] = 0 THEN kept[i - 1]
            ELSE Append(kept[i - 1], bytes[i])
    IN  kept[Len(bytes)]

-----------------------------------------------------------------------------
(* The ciphers.                                                            *)

Block(kind, key, nonce, text, len) ==
    [i \in 1 .. len |->
        [kind |-> kind, key |-> key, nonce |-> nonce, text |-> text, at |-> i]]

rsa_encrypt(key, text) == Block("rsa", key, None, text, RSA_LEN)
aes_encrypt(key, nonce, text) == Block("aes", key, nonce, text, Len(text) + TAG_LEN)

rsa_decrypt(key, block) ==
    IF block # <<>> /\ block = rsa_encrypt(key, block[1].text)
    THEN block[1].text ELSE None

aes_decrypt(key, nonce, block) ==
    IF block # <<>> /\ block = aes_encrypt(key, nonce, block[1].text)
    THEN block[1].text ELSE None

-----------------------------------------------------------------------------
(* SessionPrelude::encrypt and ::decrypt.                                  *)

MIXED_LEN == 2 * TOKEN_LEN

nonce_slice(n) == Block("nonce", None, n, None, NONCE_LEN)

\* Mutant: a password that is too long is sent as far as it fits.
encrypt_error_any_length(p, plaintext) ==
    IF Len(p.one_time_token) # TOKEN_LEN THEN "InvalidOTP"
    ELSE IF p.pub_pkcs1_pem \notin PrivKeys THEN "PubKeyImportError"
    ELSE "none"

\* The early returns of encrypt.
encrypt_error(p, plaintext) ==
    IF Len(plaintext) > TOKEN_LEN THEN "PlaintextTooLong"
    ELSE IF Len(p.one_time_token) # TOKEN_LEN THEN "InvalidOTP"
    ELSE IF p.pub_pkcs1_pem \notin PrivKeys THEN "PubKeyImportError"
    ELSE "none"

\* A public key stands for its private key.
encrypt(p, plaintext, key, nonce) ==
    header(RSA_LEN)
        \o nonce_slice(nonce)
        \o rsa_encrypt(p.pub_pkcs1_pem, key)
        \o aes_encrypt(key, nonce_slice(nonce),
                       combine(p.one_time_token, string_to_vec_u8(plaintext)))

Outcome(err) == [err |-> err, otp |-> <<>>, password |-> <<>>]

\* The bytes from .. to - 1 of the code, counted from 0.
Slice(m, from, to) == SubSeq(m, from + 1, to)

\* Mutant: the message is not required to hold all its parts.
long_enough_header(m) == Len(m) >= ENCRYPTED_KEY_LEN

rsa_encrypted_key_len(m) == header_value(Slice(m, 0, ENCRYPTED_KEY_LEN))

\* Where the message proper begins.
body(m) == ENCRYPTED_KEY_LEN + NONCE_LEN + rsa_encrypted_key_len(m)

long_enough(m) ==
    Len(m) >= ENCRYPTED_KEY_LEN /\ Len(m) >= body(m) + MIXED_LEN

\* No slice that decrypt takes is out of range; else it panics.
in_range(m) == ENCRYPTED_KEY_LEN + NONCE_LEN <= Len(m) /\ body(m) <= Len(m)

\* split, and without the padding.
unmix(mixed) ==
    [err |-> "none", otp |-> split(mixed).otp,
     password |-> filter_map(split(mixed).data)]

\* An AES key of another length, KeyTooLong, is not among the ones encrypt uses.
decrypt(priv_key, m) ==
    IF ~ long_enough(m) THEN Outcome("InvalidCiphertext")
    ELSE LET nonce == Slice(m, ENCRYPTED_KEY_LEN, ENCRYPTED_KEY_LEN + NONCE_LEN)
             sealed == Slice(m, ENCRYPTED_KEY_LEN + NONCE_LEN, body(m))
             text == Slice(m, body(m), Len(m))
             key == rsa_decrypt(priv_key, sealed)
             mixed == aes_decrypt(key, nonce, text)
         IN  IF ~ in_range(m) THEN Outcome("panic")
             ELSE IF key = None THEN Outcome("RSAError")
             ELSE IF mixed = None THEN Outcome("AESError")
             ELSE IF Len(mixed) # MIXED_LEN THEN Outcome("InvalidCiphertext")
             ELSE unmix(mixed)

-----------------------------------------------------------------------------
Init == prelude = None /\ typed = None /\ message = <<>> /\ result = None

\* SessionPrelude::new at the service; a key that does not parse is None.
New(pem, token) ==
    /\ prelude = None
    /\ prelude' = [pub_pkcs1_pem |-> pem, one_time_token |-> token]
    /\ UNCHANGED <<typed, message, result>>

Encrypt(plaintext, key, nonce) ==
    /\ prelude # None /\ typed = None
    /\ typed' = plaintext
    /\ IF encrypt_error(prelude, plaintext) = "none"
       THEN message' = encrypt(prelude, plaintext, key, nonce) /\ UNCHANGED result
       ELSE result' = Outcome(encrypt_error(prelude, plaintext)) /\ UNCHANGED message
    /\ UNCHANGED prelude

\* Only the beginning of the message arrives.
Cut(n) ==
    /\ result = None /\ n < Len(message)
    /\ message' = SubSeq(message, 1, n)
    /\ UNCHANGED <<prelude, typed, result>>

\* The service, whose key may be another by now, decrypts.
Decrypt(priv_key) ==
    /\ typed # None /\ result = None
    /\ result' = decrypt(priv_key, message)
    /\ UNCHANGED <<prelude, typed, message>>

\* The next login.
Again ==
    /\ result # None
    /\ prelude' = None /\ typed' = None /\ message' = <<>> /\ result' = None

FULL_LEN == ENCRYPTED_KEY_LEN + NONCE_LEN + RSA_LEN + MIXED_LEN + TAG_LEN

Next ==
    \/ \E pem \in PrivKeys \cup {None}, token \in OneTimeTokens : New(pem, token)
    \/ \E plaintext \in Passwords, key \in AesKeys, nonce \in Nonces :
          Encrypt(plaintext, key, nonce)
    \/ \E n \in 0 .. FULL_LEN : Cut(n)
    \/ \E priv_key \in PrivKeys : Decrypt(priv_key)
    \/ Again

Spec == Init /\ [][Next]_vars

-----------------------------------------------------------------------------
(* Properties.                                                             *)

\* The message is no longer than encrypt makes it, and its header is of bytes.
TypeOK ==
    /\ prelude # None => prelude.one_time_token \in OneTimeTokens
    /\ typed \in Passwords \cup {None}
    /\ Len(message) <= FULL_LEN
    /\ \A i \in 1 .. ENCRYPTED_KEY_LEN : i <= Len(message) => message[i] \in Byte

\* security.rs:120, 65, 76, 233: what decrypt returns is the token that was
\* handed out and the very password that was typed: padding, mixing and the
\* removal of the zeros lose nothing, a password that does not fit is refused
\* and never shortened, and no other key opens the message.
DeliveredAsSent ==
    result # None /\ result.err = "none" =>
        result.otp = prelude.one_time_token /\ result.password = typed

\* security.rs:151, 184: every password that fits arrives at the service that
\* handed the prelude out: encrypt and decrypt agree on the layout.
HonestArrives ==
    \A k \in PrivKeys :
        /\ typed # None /\ Len(message) = FULL_LEN
        /\ k = prelude.pub_pkcs1_pem
        => decrypt(k, message).err = "none"

\* security.rs:180, 190: a message that is not whole is refused with an error,
\* for every length it may have been cut to; decrypt reads no byte it lacks.
CutIsRefused ==
    \A k \in PrivKeys :
        typed # None /\ result = None /\ Len(message) < FULL_LEN =>
            decrypt(k, message).err \notin {"none", "panic"}
============================================================================
