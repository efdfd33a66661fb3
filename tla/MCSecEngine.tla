---------------------------- MODULE MCSecEngine -----------------------------
(***************************************************************************)
(* Arguments for SecEngine and Messages.  Limbs have 8 bits and a byte 2,  *)
(* so that a limb is four bytes and a key of 256 bits eight limbs, as in   *)
(* the program; the array of an mpi is 20 limbs long, as there.            *)
(***************************************************************************)
EXTENDS Messages

(* The prime numbers of small_prime that fit half a limb. *)
MCSmallPrimes == <<3, 5, 7, 11, 13>>
MCFRng == <<17, 201, 83, 144, 250, 9, 66, 131, 77, 222, 190>>

Edges == {0, 1, 128, 255}

MCMagnitudes ==
    {<<>>} \cup {<<a>> : a \in Edges} \cup {<<a, b>> : a \in {1, 255}, b \in {0, 255}}
    \cup {<<0, 0, 1>>, <<255, 255, 255>>, <<1, 128, 0, 0>>}

(* The last three are given too low an estimate by some of the divisors.   *)
MCDividends ==
    {<<a, b>> : a \in {0, 7}, b \in {0, 200}} \cup {<<112, 9>>, <<160, 31>>, <<9, 0, 160, 9>>}
    \cup {<<a, b, c, d>> : a \in {0, 255}, b \in Edges, c \in {0, 127, 255}, d \in Edges}

MCDivisors == {<<3>>, <<79>>, <<77>>, <<255>>, <<0, 78>>, <<0, 1>>, <<255, 255>>, <<129, 128>>, <<1, 0, 128>>, <<255, 0, 128>>,
               <<255, 255, 128>>, <<0, 1, 1>>, <<2, 0, 0, 1>>}

MCModuli == {<<3>>, <<91>>, <<255>>, <<1, 1>>, <<255, 127>>, <<5, 180, 0>>}
MCBases == {<<1>>, <<2>>, <<90>>, <<255>>, <<0, 100>>, <<254, 127>>, <<3, 180>>}
MCExponents ==
    {<<0>>, <<1>>, <<2>>, <<255>>, <<254, 127>>, <<1, 0, 1>>, <<255, 255, 255, 127>>,
     <<85, 0, 170, 0, 255, 1, 0, 0, 3, 77>>}

MCCandidates ==
    {<<a, b>> : a \in {1, 3, 5, 7, 9, 11, 13, 15, 17}, b \in {0, 1, 100}} \ {<<1, 0>>}

MCPrimeBits == {3, 8, 10}

MCRsaPair ==
    [public |->
        <<2, 2, 2, 1, 0, 3, 0, 0, 0, 1, 1, 3, 1, 3, 2, 0, 0, 0, 2, 2, 2, 0,
        3, 2, 0, 3, 2, 0, 3, 3, 3, 1, 1, 0, 1>>,
     private |->
        <<2, 2, 2, 1, 0, 3, 0, 0, 0, 1, 1, 3, 1, 3, 2, 0, 0, 0, 2, 2, 2, 0,
        3, 2, 0, 3, 2, 0, 3, 3, 3, 1, 3, 1, 1, 3, 0, 1, 0, 0, 3, 0, 3, 3, 1,
        1, 0, 3, 3, 0, 2, 1, 1, 2, 0, 3, 3, 1, 3, 0, 1, 2, 3, 3, 0, 3, 3, 3,
        1, 0, 0, 1, 0, 2, 3, 1, 3, 2, 2, 3, 2, 3, 3, 1, 2, 0, 2, 3, 0, 2, 2,
        1, 3, 1, 0, 1, 1, 3, 0, 2, 3, 0, 2, 3, 2, 2, 0, 2, 0, 2, 3, 0>>]

MCRand == [i \in 1 .. 40 |-> 1 + (i % 3)]

(* One block of RSA holds 21 bytes. *)
MCTexts == {[i \in 1 .. n |-> (i * i) % 4] : n \in {0, 1, 15, 16, 17, 20, 21, 22, 31, 32, 42, 43}}

MCSessionKey == [i \in 1 .. 16 |-> (91 * i) % 256]
MCIV == [i \in 1 .. 16 |-> 200 - i]

Counting(n) == [i \in 1 .. n |-> i - 1]
Doubled == [i \in 1 .. 16 |-> 17 * (i - 1)]

(* FIPS 197, appendix C. *)
MCPublished ==
    {[key |-> Counting(16), bits |-> 128, plain |-> Doubled,
      cipher |-> <<105, 196, 224, 216, 106, 123, 4, 48, 216, 205, 183, 128,
                   112, 180, 197, 90>>],
     [key |-> Counting(24), bits |-> 192, plain |-> Doubled,
      cipher |-> <<221, 169, 124, 164, 134, 76, 223, 224, 110, 175, 112,
                   160, 236, 13, 113, 145>>],
     [key |-> Counting(32), bits |-> 256, plain |-> Doubled,
      cipher |-> <<142, 162, 183, 202, 81, 103, 69, 191, 234, 252, 73, 144,
                   75, 73, 96, 137>>]}

(* Blocks of no particular form. *)
Block16(a, b) == [i \in 1 .. 16 |-> (a * i * i + b * i + a * b) % 256]

MCBlocks ==
    {[key |-> v.key, bits |-> v.bits, plain |-> v.plain] : v \in MCPublished}
    \cup {[key |-> Counting(32), bits |-> bits, plain |-> Block16(a, b)] :
             bits \in {128, 192, 256}, a \in {3, 50, 101}, b \in {1, 44, 207}}

-----------------------------------------------------------------------------

(* Lengths around a block, around what 8 bits hold, and around the buffer. *)
Text(n) == [i \in 1 .. n |-> (7 * i * i + n) % 256]
MCPayloads == {Text(n) : n \in {0, 3, 211, 212, 231, 232, 583, 584}}

(* A burst of 16 bits lies in three bytes. *)
MCBursts ==
    {<<w \div 65536, (w \div 256) % 256, w % 256>> :
        w \in {pattern * 2 ^ shift : pattern \in {1, 255, 32769, 65535, 4129},
                                     shift \in {0, 5, 8}}}

MCSessions == {<<0, 1, 255, 2>>}
MCTransports == {Counting(16)}
MCStale == {<<7, 7, 7, 7>>, <<0, 3, 0, 0>>}
MCMacs == {<<0, 3, 127, 10, 171, 255>>, <<160, 159, 16, 9, 254, 1>>}
MCDeviceIds == {[i \in 1 .. 16 |-> 96 + i]}
MCDomains == {Counting(8), <<0, 1, 2, 3, 4, 5, 9, 9>>, <<0, 1, 2, 3, 4, 9, 6, 7>>}
MCRandWords == [i \in 1 .. 8 |-> <<255, 31 * i, 128 + i, i * i>>]
MCLocalIp == <<192, 168, 1, 20>>

=============================================================================
