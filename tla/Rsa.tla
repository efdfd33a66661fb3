-------------------------------- MODULE Rsa ---------------------------------
(***************************************************************************)
(* The RSA layer (rsa.c) and the text functions of the security engine     *)
(* (zc_sec_engine.c) that use it for the first message of a session.       *)
(*                                                                         *)
(* A byte has biL \div ciL bits here; lengths in bytes and in limbs are    *)
(* those of the program, and so are the limits on them.                    *)
(***************************************************************************)
EXTENDS ModArith

CONSTANT ZC_SEC_RSA_KEY_LEN   \* bits of the modulus, eight to a byte

RSA_CRYPT == 2
KeyBytes == ZC_SEC_RSA_KEY_LEN \div 8
PadOverhead == 11
BufSize == 64

RsaNames == {"N", "E", "P", "Q", "DP", "DQ", "QP", "RN", "RP", "RQ", "rsa.T", "T1", "T2"}
LibraryNames ==
    {"X", "Y", "Z", "O_T1", "O_T2", "_B", "sub.TB", "mul.TA", "mul.TB", "O_RR", "O_T",
     "O_W1", "gcd.TA", "gcd.TB", "gen.Y", "W", "R", "T", "A", "RR"} \cup InvNames

EmptyContext == Memory([v \in RsaNames \cup LibraryNames |-> mpi_init])

(* SEC_InitRsaContextWithPublicKey, SEC_InitRsaContextWithPrivateKey: the  *)
(* numbers of a key stand one after the other, N first.                    *)
RECURSIVE ReadNumbers(_, _, _)
ReadNumbers(m, key, parts) ==
    IF parts = <<>> THEN m
    ELSE LET name == parts[1][1]
             len  == parts[1][2]
         IN  ReadNumbers(mpi_read_binary(m, name, SubSeq(key, 1, len)),
                         SubSeq(key, len + 1, Len(key)), Tail(parts))

PublicContext(key) == ReadNumbers(EmptyContext, key, <<<<"N", KeyBytes>>, <<"E", 3>>>>)
PrivateContext(key) ==
    LET h == KeyBytes \div 2
    IN  ReadNumbers(EmptyContext, key,
            <<<<"N", KeyBytes>>, <<"P", h>>, <<"Q", h>>, <<"DP", h>>, <<"DQ", h>>, <<"QP", h>>>>)

(* input, as the number T of the context. *)
Input(m, input) == mpi_read_binary(Set(m, "rsa.T", mpi_init), "rsa.T", input)

Output(m) ==
    IF Ret(m) # "ok" THEN [ret |-> Ret(m), m |-> m, out |-> <<>>]
    ELSE IF mpi_size(m.mpi["rsa.T"]) > KeyBytes
    THEN [ret |-> "buffer too small", m |-> m, out |-> <<>>]
    ELSE [ret |-> "ok", m |-> m, out |-> mpi_write_binary(m.mpi["rsa.T"], KeyBytes)]

BadInput(m) == [ret |-> "bad input", m |-> m, out |-> <<>>]

rsa_public(m, input) ==
    LET t == Input(m, input)
    IN  IF mpi_cmp_mpi(t.mpi["rsa.T"], t.mpi["N"]) >= 0 THEN BadInput(t)
        ELSE Output(mpi_exp_mod(t, "rsa.T", "rsa.T", "E", "N", "RN"))

(* By the Chinese remainder theorem:                                       *)
(* T = T2 + ((T1 - T2) * QP mod P) * Q.                                    *)
rsa_private(m, input) ==
    LET t  == Input(Set(Set(m, "T1", mpi_init), "T2", mpi_init), input)
        m1 == mpi_exp_mod(t, "T1", "rsa.T", "DP", "P", "RP")
        m2 == mpi_exp_mod(m1, "T2", "rsa.T", "DQ", "Q", "RQ")
        m3 == mpi_mul_mpi(mpi_sub_mpi(m2, "rsa.T", "T1", "T2"), "T1", "rsa.T", "QP")
        m4 == mpi_mul_mpi(mpi_mod_mpi(m3, "rsa.T", "T1", "P"), "T1", "rsa.T", "Q")
    IN  IF mpi_cmp_mpi(t.mpi["rsa.T"], t.mpi["N"]) >= 0 THEN BadInput(t)
        ELSE IF Ret(m1) # "ok" THEN Output(m1)
        ELSE IF Ret(m2) # "ok" THEN Output(m2)
        ELSE Output(mpi_add_mpi(m4, "rsa.T", "T2", "T1"))

(* 0, RSA_CRYPT, random bytes other than 0, 0, then the text. *)
rsa_pkcs1_encrypt(m, input, rand) ==
    LET nb_pad == KeyBytes - 3 - Len(input)
    IN  IF KeyBytes < Len(input) + PadOverhead THEN BadInput(m)
        ELSE rsa_public(m, <<0, RSA_CRYPT>> \o SubSeq(rand, 1, nb_pad) \o <<0>> \o input)

rsa_pkcs1_decrypt(m, input, output_max_len) ==
    LET r   == rsa_private(m, input)
        end == {k \in 3 .. KeyBytes : r.out[k] = 0}
        k   == CHOOSE e \in end : \A f \in end : e <= f
        Error(why) == [r EXCEPT !.ret = why, !.out = <<>>]
    IN  IF KeyBytes < 16 \/ KeyBytes > BufSize THEN BadInput(m)
        ELSE IF r.ret # "ok" THEN r
        ELSE IF r.out[1] # 0 \/ r.out[2] # RSA_CRYPT \/ end = {} THEN Error("invalid padding")
        ELSE IF KeyBytes - k > output_max_len THEN Error("output too large")
        ELSE [r EXCEPT !.out = SubSeq(r.out, k + 1, KeyBytes)]

-----------------------------------------------------------------------------
(* SEC_EncryptTextByRsa, SEC_DecryptTextByRsa: a text too long for one     *)
(* block is cut into as many full blocks as it has, and a last one if      *)
(* something is left.                                                      *)

Join(r, rest) == IF r.ret # "ok" THEN r ELSE [rest EXCEPT !.out = r.out \o @]

RECURSIVE EncryptBlocks(_, _, _)
EncryptBlocks(m, text, rand) ==
    LET full == KeyBytes - PadOverhead
        r    == rsa_pkcs1_encrypt(m, SubSeq(text, 1, full), rand)
    IN  IF text = <<>> THEN [ret |-> "ok", m |-> m, out |-> <<>>]
        ELSE IF Len(text) >= full
        THEN Join(r, EncryptBlocks(r.m, SubSeq(text, full + 1, Len(text)), rand))
        ELSE rsa_pkcs1_encrypt(m, text, rand)

SEC_EncryptTextByRsa(key, text, rand) ==
    LET m == PublicContext(key)
    IN  IF Len(text) + PadOverhead > KeyBytes THEN EncryptBlocks(m, text, rand)
        ELSE rsa_pkcs1_encrypt(m, text, rand)

RECURSIVE DecryptBlocks(_, _, _)
DecryptBlocks(m, text, max) ==
    LET r == rsa_pkcs1_decrypt(m, SubSeq(text, 1, KeyBytes), max)
    IN  IF text = <<>> THEN [ret |-> "ok", m |-> m, out |-> <<>>]
        ELSE Join(r, DecryptBlocks(r.m, SubSeq(text, KeyBytes + 1, Len(text)), max))

SEC_DecryptTextByRsa(key, text) == DecryptBlocks(PrivateContext(key), text, Len(text))

=============================================================================
