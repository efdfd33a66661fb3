-------------------------------- MODULE Aes ---------------------------------
(***************************************************************************)
(* The block cipher of the security engine: aes_core.c, its table-driven   *)
(* implementation of AES as it is built (FULL_UNROLL and AES_ASM are not   *)
(* defined), and the CBC mode of aes_cbc.c.                                *)
(*                                                                         *)
(* A 32-bit word is its four bytes, the high one first.  Words, blocks and *)
(* tables are sequences; At(T, x) is the element of the table T at x.      *)
(***************************************************************************)
EXTENDS Integers, Sequences

AES_BLOCK_SIZE == 16

(* A sequence given element by element, evaluated once for all. *)
Stored(f) == SubSeq(f, 1, Len(f))

Table(size, Entry(_)) == Stored([i \in 1 .. size |-> Entry(i - 1)])
At(T, x) == T[x + 1]

(* x ^ y, by the sixteen values of a half byte. *)
XorBits(x, y) ==
    LET Differ(k) == IF (x \div k) % 2 = (y \div k) % 2 THEN 0 ELSE k
    IN  Differ(1) + Differ(2) + Differ(4) + Differ(8)

XorHalf == Table(256, LAMBDA xy : XorBits(xy \div 16, xy % 16))

XorByte(x, y) ==
    16 * At(XorHalf, 16 * (x \div 16) + (y \div 16)) + At(XorHalf, 16 * (x % 16) + (y % 16))

Xor(v, w) == <<XorByte(v[1], w[1]), XorByte(v[2], w[2]),
               XorByte(v[3], w[3]), XorByte(v[4], w[4])>>

(* The words of a sequence of bytes. *)
GETU32(bytes) ==
    Stored([i \in 1 .. Len(bytes) \div 4 |-> SubSeq(bytes, 4 * i - 3, 4 * i)])

PUTU32(words) ==
    Stored([i \in 1 .. 4 * Len(words) |-> words[(i + 3) \div 4][((i - 1) % 4) + 1]])

-----------------------------------------------------------------------------
(* The tables.  Te4 and Td4 are given by the byte that every word of them  *)
(* repeats.  A word of the others is a column of the (inverse) MixColumns      *)
(* matrix times that byte, which is how the source states the tables and   *)
(* what their 2048 literals contain.                                       *)

Te4 ==
    << 99, 124, 119, 123, 242, 107, 111, 197,  48,   1, 103,  43, 254, 215, 171, 118,
      202, 130, 201, 125, 250,  89,  71, 240, 173, 212, 162, 175, 156, 164, 114, 192,
      183, 253, 147,  38,  54,  63, 247, 204,  52, 165, 229, 241, 113, 216,  49,  21,
        4, 199,  35, 195,  24, 150,   5, 154,   7,  18, 128, 226, 235,  39, 178, 117,
        9, 131,  44,  26,  27, 110,  90, 160,  82,  59, 214, 179,  41, 227,  47, 132,
       83, 209,   0, 237,  32, 252, 177,  91, 106, 203, 190,  57,  74,  76,  88, 207,
      208, 239, 170, 251,  67,  77,  51, 133,  69, 249,   2, 127,  80,  60, 159, 168,
       81, 163,  64, 143, 146, 157,  56, 245, 188, 182, 218,  33,  16, 255, 243, 210,
      205,  12,  19, 236,  95, 151,  68,  23, 196, 167, 126,  61, 100,  93,  25, 115,
       96, 129,  79, 220,  34,  42, 144, 136,  70, 238, 184,  20, 222,  94,  11, 219,
      224,  50,  58,  10,  73,   6,  36,  92, 194, 211, 172,  98, 145, 149, 228, 121,
      231, 200,  55, 109, 141, 213,  78, 169, 108,  86, 244, 234, 101, 122, 174,   8,
      186, 120,  37,  46,  28, 166, 180, 198, 232, 221, 116,  31,  75, 189, 139, 138,
      112,  62, 181, 102,  72,   3, 246,  14,  97,  53,  87, 185, 134, 193,  29, 158,
      225, 248, 152,  17, 105, 217, 142, 148, 155,  30, 135, 233, 206,  85,  40, 223,
      140, 161, 137,  13, 191, 230,  66, 104,  65, 153,  45,  15, 176,  84, 187,  22>>

Td4 ==
    << 82,   9, 106, 213,  48,  54, 165,  56, 191,  64, 163, 158, 129, 243, 215, 251,
      124, 227,  57, 130, 155,  47, 255, 135,  52, 142,  67,  68, 196, 222, 233, 203,
       84, 123, 148,  50, 166, 194,  35,  61, 238,  76, 149,  11,  66, 250, 195,  78,
        8,  46, 161, 102,  40, 217,  36, 178, 118,  91, 162,  73, 109, 139, 209,  37,
      114, 248, 246, 100, 134, 104, 152,  22, 212, 164,  92, 204,  93, 101, 182, 146,
      108, 112,  72,  80, 253, 237, 185, 218,  94,  21,  70,  87, 167, 141, 157, 132,
      144, 216, 171,   0, 140, 188, 211,  10, 247, 228,  88,   5, 184, 179,  69,   6,
      208,  44,  30, 143, 202,  63,  15,   2, 193, 175, 189,   3,   1,  19, 138, 107,
       58, 145,  17,  65,  79, 103, 220, 234, 151, 242, 207, 206, 240, 180, 230, 115,
      150, 172, 116,  34, 231, 173,  53, 133, 226, 249,  55, 232,  28, 117, 223, 110,
       71, 241,  26, 113,  29,  41, 197, 137, 111, 183,  98,  14, 170,  24, 190,  27,
      252,  86,  62,  75, 198, 210, 121,  32, 154, 219, 192, 254, 120, 205,  90, 244,
       31, 221, 168,  51, 136,   7, 199,  49, 177,  18,  16,  89,  39, 128, 236,  95,
       96,  81, 127, 169,  25, 181,  74,  13,  45, 229, 122, 159, 147, 201, 156, 239,
      160, 224,  59,  77, 174,  42, 245, 176, 200, 235, 187,  60, 131,  83, 153,  97,
       23,  43,   4, 126, 186, 119, 214,  38, 225, 105,  20,  99,  85,  33,  12, 125>>

(* 2 * x in the field of 256 elements, and k * x for k below 16. *)
Twice(x) == IF x < 128 THEN 2 * x ELSE XorByte(2 * x - 256, 27)

Times(k, x) ==
    LET Part(bit, y) == IF (k \div bit) % 2 = 1 THEN y ELSE 0
        x2 == Twice(x)
        x4 == Twice(x2)
    IN  XorByte(XorByte(Part(1, x), Part(2, x2)), XorByte(Part(4, x4), Part(8, Twice(x4))))

Column(a, b, c, d, x) == <<Times(a, x), Times(b, x), Times(c, x), Times(d, x)>>

Te0 == Table(256, LAMBDA x : Column(2, 1, 1, 3, At(Te4, x)))
Te1 == Table(256, LAMBDA x : Column(3, 2, 1, 1, At(Te4, x)))
Te2 == Table(256, LAMBDA x : Column(1, 3, 2, 1, At(Te4, x)))
Te3 == Table(256, LAMBDA x : Column(1, 1, 3, 2, At(Te4, x)))

Td0 == Table(256, LAMBDA x : Column(14, 9, 13, 11, At(Td4, x)))
Td1 == Table(256, LAMBDA x : Column(11, 14, 9, 13, At(Td4, x)))
Td2 == Table(256, LAMBDA x : Column(13, 11, 14, 9, At(Td4, x)))
Td3 == Table(256, LAMBDA x : Column(9, 13, 11, 14, At(Td4, x)))

rcon == <<1, 2, 4, 8, 16, 32, 64, 128, 27, 54>>

-----------------------------------------------------------------------------
(* Key schedules: AES_KEY is the sequence rd_key and the number of rounds. *)

AesRounds(bits) == CASE bits = 128 -> 10 [] bits = 192 -> 12 [] bits = 256 -> 14

(* The word that is mixed with rk[i - nk] to give rk[i] (i from 0). *)
KeyWord(temp, i, nk) ==
    LET s == [k \in 1 .. 4 |-> At(Te4, temp[k])]
    IN  IF i % nk = 0 THEN <<XorByte(s[2], rcon[i \div nk]), s[3], s[4], s[1]>>
        ELSE IF nk = 8 /\ i % nk = 4 THEN <<s[1], s[2], s[3], s[4]>>
        ELSE temp

RECURSIVE ExpandTo(_, _, _)
ExpandTo(rk, nk, size) ==
    LET i == Len(rk)
    IN  IF i >= size THEN rk
        ELSE ExpandTo(Append(rk, Xor(rk[i + 1 - nk], KeyWord(rk[i], i, nk))), nk, size)

AES_set_encrypt_key(userKey, bits) ==
    IF bits \notin {128, 192, 256} THEN [ret |-> -2]
    ELSE [ret    |-> 0,
          rounds |-> AesRounds(bits),
          rd_key |-> ExpandTo(GETU32(SubSeq(userKey, 1, bits \div 8)), bits \div 32,
                              4 * (AesRounds(bits) + 1))]

(* The inverse MixColumns of a word: the tables undo a substitution first. *)
InvMixColumn(w) ==
    Xor(Xor(At(Td0, At(Te4, w[1])), At(Td1, At(Te4, w[2]))),
        Xor(At(Td2, At(Te4, w[3])), At(Td3, At(Te4, w[4]))))

EncryptKeyInverted(userKey, bits) ==
    LET key == AES_set_encrypt_key(userKey, bits)
        n   == Len(key.rd_key)
    IN  [key EXCEPT !.rd_key = Stored([i \in 1 .. n |->
            key.rd_key[n - 4 * ((i - 1) \div 4) - 4 + ((i - 1) % 4) + 1]])]

AES_set_decrypt_key(userKey, bits) ==
    LET key == AES_set_encrypt_key(userKey, bits)
        n   == Len(key.rd_key)
        Inverted(i) == key.rd_key[n - 4 * ((i - 1) \div 4) - 4 + ((i - 1) % 4) + 1]
    IN  IF key.ret < 0 THEN key
        ELSE [key EXCEPT !.rd_key = Stored([i \in 1 .. n |->
                 IF i <= 4 \/ i > n - 4 THEN Inverted(i) ELSE InvMixColumn(Inverted(i))])]

-----------------------------------------------------------------------------
(* One block *)

(* The word j (from 0) of a state, counted cyclically. *)
WordAt(s, j) == s[(j % 4) + 1]

RoundKey(key, r) == SubSeq(key.rd_key, 4 * r + 1, 4 * r + 4)

AddRoundKey(s, k) == <<Xor(s[1], k[1]), Xor(s[2], k[2]), Xor(s[3], k[3]), Xor(s[4], k[4])>>

EncryptWord(s, j) ==
    Xor(Xor(At(Te0, WordAt(s, j)[1]), At(Te1, WordAt(s, j + 1)[2])),
        Xor(At(Te2, WordAt(s, j + 2)[3]), At(Te3, WordAt(s, j + 3)[4])))

DecryptWord(s, j) ==
    Xor(Xor(At(Td0, WordAt(s, j)[1]), At(Td1, WordAt(s, j + 3)[2])),
        Xor(At(Td2, WordAt(s, j + 2)[3]), At(Td3, WordAt(s, j + 1)[4])))

LastEncryptWord(s, j) ==
    <<At(Te4, WordAt(s, j)[1]), At(Te4, WordAt(s, j + 1)[2]),
      At(Te4, WordAt(s, j + 2)[3]), At(Te4, WordAt(s, j + 3)[4])>>

LastDecryptWord(s, j) ==
    <<At(Td4, WordAt(s, j)[1]), At(Td4, WordAt(s, j + 3)[2]),
      At(Td4, WordAt(s, j + 2)[3]), At(Td4, WordAt(s, j + 1)[4])>>

(* The states before the last round, one for each round key used; the code *)
(* does two rounds in one pass.                                            *)
RECURSIVE EncryptStates(_, _)
EncryptStates(states, key) ==
    LET r == Len(states)
    IN  IF r = key.rounds THEN states
        ELSE EncryptStates(Append(states, AddRoundKey(
                 [j \in 1 .. 4 |-> EncryptWord(states[r], j - 1)], RoundKey(key, r))), key)

RECURSIVE DecryptStates(_, _)
DecryptStates(states, key) ==
    LET r == Len(states)
    IN  IF r = key.rounds THEN states
        ELSE DecryptStates(Append(states, AddRoundKey(
                 [j \in 1 .. 4 |-> DecryptWord(states[r], j - 1)], RoundKey(key, r))), key)

AES_encrypt(in, key) ==
    LET first  == AddRoundKey(GETU32(in), RoundKey(key, 0))
        states == EncryptStates(<<first>>, key)
    IN  PUTU32(AddRoundKey([j \in 1 .. 4 |-> LastEncryptWord(states[key.rounds], j - 1)],
                           RoundKey(key, key.rounds)))

AES_decrypt(in, key) ==
    LET first  == AddRoundKey(GETU32(in), RoundKey(key, 0))
        states == DecryptStates(<<first>>, key)
    IN  PUTU32(AddRoundKey([j \in 1 .. 4 |-> LastDecryptWord(states[key.rounds], j - 1)],
                           RoundKey(key, key.rounds)))

-----------------------------------------------------------------------------
(* CBC.  The code encrypts and decrypts a buffer of which length bytes are *)
(* the message; a block read at the end of it may go beyond that.          *)

XorBlock(v, w) == Stored([i \in 1 .. Len(v) |-> XorByte(v[i], w[i])])

Block(buf, n) == SubSeq(buf, n * AES_BLOCK_SIZE + 1, (n + 1) * AES_BLOCK_SIZE)

FillLastBlock(length) ==
    IF length = 0 THEN AES_BLOCK_SIZE ELSE (-length) % AES_BLOCK_SIZE

(* Every message is padded, a whole number of blocks with a whole block. *)
PaddingLen(length) == AES_BLOCK_SIZE - (length % AES_BLOCK_SIZE)

Padded(in, length) ==
    SubSeq(in, 1, length) \o [i \in 1 .. PaddingLen(length) |-> PaddingLen(length)]

RECURSIVE CbcEncryptBlocks(_, _, _)
CbcEncryptBlocks(in, key, iv) ==
    LET c == AES_encrypt(XorBlock(Block(in, 0), iv), key)
    IN  IF in = <<>> THEN <<>>
        ELSE c \o CbcEncryptBlocks(SubSeq(in, AES_BLOCK_SIZE + 1, Len(in)), key, c)

AES_cbc_encrypt(in, length, key, ivec) ==
    LET out == CbcEncryptBlocks(Padded(in, length), key, ivec)
    IN  [out |-> out, outlength |-> length + PaddingLen(length), ivec |-> ivec]

(* The plain bytes of block n: its decryption, and the block before it. *)
CbcPlainBlock(in, n, key, ivec) ==
    XorBlock(AES_decrypt(Block(in, n), key), IF n = 0 THEN ivec ELSE Block(in, n - 1))

CbcPlain(in, length, key, ivec) ==
    LET blocks == (length + AES_BLOCK_SIZE - 1) \div AES_BLOCK_SIZE
        plain  == Table(blocks, LAMBDA n : CbcPlainBlock(in, n, key, ivec))
    IN  Table(length, LAMBDA i : At(At(plain, i \div AES_BLOCK_SIZE), i % AES_BLOCK_SIZE))

(* in # out: bytes beyond length are not written, and ivec is kept. *)
AES_cbc_decrypt(in, length, key, ivec) ==
    LET out == CbcPlain(in, length, key, ivec)
    IN  [out |-> out, outlength |-> length - out[length], ivec |-> ivec]

(* in = out: the rest of the last block is filled with its cipher bytes,   *)
(* and ivec ends as the last block read.                                   *)
AES_cbc_decrypt_in_place(in, length, key, ivec) ==
    LET out  == CbcPlain(in, length, key, ivec)
        last == (length - 1) \div AES_BLOCK_SIZE
    IN  [out       |-> out \o SubSeq(in, length + 1, (last + 1) * AES_BLOCK_SIZE),
         outlength |-> length - out[length],
         ivec      |-> Block(in, last)]

AES_CBC_Encrypt(PlainText, PlainTextLength, Key, KeyLength, IV) ==
    AES_cbc_encrypt(PlainText, PlainTextLength, AES_set_encrypt_key(Key, KeyLength * 8), IV)

AES_CBC_Decrypt(CipherText, CipherTextLength, Key, KeyLength, IV) ==
    AES_cbc_decrypt(CipherText, CipherTextLength, AES_set_decrypt_key(Key, KeyLength * 8), IV)

=============================================================================
