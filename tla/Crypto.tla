------------------------------- MODULE Crypto -------------------------------
(***************************************************************************)
(* The encryption of passwords in flash: AES in counter mode under a key   *)
(* read from eFuse BLOCK3, with PKCS7 padding.  A text is a sequence of    *)
(* bytes.  A stored text that starts with EncPrefix is encrypted; the hex  *)
(* digits after the prefix stand for bytes one for one and are left out.   *)
(* The block is BlockSize bytes (16) of which NonceSize (12) are the nonce.*)
(***************************************************************************)
EXTENDS Integers, Sequences

CONSTANTS BlockSize, NonceSize

ASSUME BlockAssumption ==
    BlockSize \in Nat /\ BlockSize < 256 /\ NonceSize \in 1 .. BlockSize - 1

EncPrefix == 1000
IsEncrypted(value) == value # <<>> /\ value[1] = EncPrefix

(* XOR of two bytes, as a table of those of half a byte. *)
Bit(x, k) == (x \div 2 ^ k) % 2
Differ(x, y, k) == IF Bit(x, k) # Bit(y, k) THEN 2 ^ k ELSE 0
XorHalf == [x \in 0 .. 15 |-> [y \in 0 .. 15 |->
    Differ(x, y, 0) + Differ(x, y, 1) + Differ(x, y, 2) + Differ(x, y, 3)]]
XorByte(x, y) == 16 * XorHalf[x \div 16][y \div 16] + XorHalf[x % 16][y % 16]
XorBytes(s, t) == [i \in 1 .. Len(s) |-> XorByte(s[i], t[i])]

(* read_key: the four words of the block, one byte each here, mixed. *)
ReadKey(efuse) == XorBytes(efuse, <<165, 60, 150, 240>>)

(* The hardware's AES: some function of the key and the counter block. *)
AesBlock(key, counter) ==
    [i \in 1 .. BlockSize |->
        (key[1 + (i % Len(key))] + 31 * counter[i] + 7 * counter[NonceSize] + counter[BlockSize]) % 256]

(* The block after a carry from its last byte on. *)
IncrementCounter(counter) ==
    LET Carry[i \in 1 .. BlockSize + 1] ==
            i = BlockSize + 1 \/ (Carry[i + 1] /\ counter[i] = 255)
    IN  [i \in 1 .. BlockSize |-> IF Carry[i + 1] THEN (counter[i] + 1) % 256 ELSE counter[i]]
CounterBlocks(n, counter) ==
    LET Counter[k \in 0 .. n] ==
            IF k = 0 THEN counter
            ELSE CHOOSE c \in {IncrementCounter(b) : b \in {Counter[k - 1]}} : TRUE
    IN  Counter
CtrCrypt(buf, key, counter) ==
    LET counters == CounterBlocks(Len(buf) \div BlockSize, counter)
    IN  [i \in 1 .. Len(buf) |->
            XorByte(buf[i], AesBlock(key, counters[(i - 1) \div BlockSize])
                               [1 + ((i - 1) % BlockSize)])]
Counter0(nonce) == nonce \o [i \in 1 .. BlockSize - NonceSize |-> 0]

Padded(text) ==
    LET pad == BlockSize - (Len(text) % BlockSize) IN text \o [i \in 1 .. pad |-> pad]
Unpadded(buf) ==
    LET pad == buf[Len(buf)]
    IN  IF pad > 0 /\ pad <= BlockSize /\ \A i \in Len(buf) - pad + 1 .. Len(buf) : buf[i] = pad
        THEN SubSeq(buf, 1, Len(buf) - pad) ELSE buf

EncryptUnpadded(text, efuse, nonce) ==
    IF text = <<>> THEN <<>>
    ELSE <<EncPrefix>> \o nonce \o CtrCrypt(text, ReadKey(efuse), Counter0(nonce))
Encrypt(text, efuse, nonce) ==
    IF text = <<>> THEN <<>>
    ELSE <<EncPrefix>> \o nonce \o CtrCrypt(Padded(text), ReadKey(efuse), Counter0(nonce))

(* Anything that is not prefix, nonce and whole blocks, or that does not   *)
(* decrypt to text, is returned as it is.  The texts here are ASCII.       *)
IsUtf8(bytes) == \A i \in 1 .. Len(bytes) : bytes[i] < 128
MaybeDecrypt(value, efuse) ==
    LET cipher == SubSeq(value, NonceSize + 2, Len(value))
        nonce == SubSeq(value, 2, NonceSize + 1)
    IN  IF ~IsEncrypted(value) \/ Len(value) < 1 + NonceSize + BlockSize \/ Len(cipher) % BlockSize # 0
        THEN value
        ELSE CHOOSE text \in {IF IsUtf8(Unpadded(b)) THEN Unpadded(b) ELSE value :
                                b \in {CtrCrypt(cipher, ReadKey(efuse), Counter0(nonce))}} : TRUE
=============================================================================
