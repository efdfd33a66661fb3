------------------------ MODULE MCProtocolController ------------------------
(* Values of the constants for TLC.                                         *)
EXTENDS ProtocolControllerRefinement

Msg(c, s, crc, rand) == [code |-> c, sec |-> s, crcOk |-> crc, randOk |-> rand]

(* Handshake messages good and bad, one that cannot be decrypted before the *)
(* key is there (AES) or at all (RSA), and every kind of online message.    *)
MCCloudMsgs ==
  {Msg(c, "RSA", crc, rand) : c \in {"HANDSHAKE_2", "ACCESS_POINT_RSP"},
                              crc \in BOOLEAN, rand \in BOOLEAN}
  \cup {Msg("HANDSHAKE_4", "AES", crc, rand) : crc \in BOOLEAN, rand \in BOOLEAN}
  \cup {Msg(c, "AES", TRUE, FALSE) : c \in Codes \ {"HANDSHAKE_2", "ACCESS_POINT_RSP",
                                                    "HANDSHAKE_4"}}
  \cup {Msg("OTHER", "AES", FALSE, FALSE)}
=============================================================================
