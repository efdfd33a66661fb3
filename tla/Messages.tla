------------------------------ MODULE Messages ------------------------------
(***************************************************************************)
(* The messages of the protocol, byte by byte: the builders and the        *)
(* parsers of zc_cloud_event.c, the CRC of crc.c, and what is made of a    *)
(* message on its way between a client of the LAN and the MCU.  A client's *)
(* message arrives sealed with the token key, goes to the MCU in clear     *)
(* with the client's session as its first option, and the MCU's answer     *)
(* goes back sealed, without that option.  Also the names the module gives *)
(* itself and tells the LAN.                                               *)
(*                                                                         *)
(* As in SecEngine, a behaviour makes one call after another, and what the *)
(* code returns is a function of the call.                                 *)
(***************************************************************************)
EXTENDS SecEngine

CONSTANTS Payloads,   \* of messages
          Bursts,     \* differences of 16 bits, <<high, low>>, not both 0
          TokenKey,   \* u8TokenKey
          Sessions,   \* descriptors of clients, 4 bytes
          Transports, \* ZC_TransportInfo of a message, 16 bytes
          Stale,      \* bytes 8 to 11 of g_u8MsgBuildBuffer, before an answer
          Macs,       \* addresses of the WLAN chip, 6 bytes
          DeviceIds, Domains,
          RandWords,  \* what rand() returns, words of 4 bytes
          LocalIp     \* g_u32GloablIp, 4 bytes

NoInfo == <<>>
NoMessage == <<>>

-----------------------------------------------------------------------------
(* crc.c *)

U16(high, low) == 256 * high + low
High(n) == n \div 256
Low(n) == n % 256

XorShort(x, y) == U16(XorByte(High(x), High(y)), XorByte(Low(x), Low(y)))

CRC_CCITT == 4129

(* One round of the inner loop of crc_cal_by_bit. *)
AddBit(crc, bit) ==
    LET shifted == (2 * crc) % 65536
        reduced == IF crc >= 32768 THEN XorShort(shifted, CRC_CCITT) ELSE shifted
    IN  IF bit = 1 THEN XorShort(reduced, CRC_CCITT) ELSE reduced

(* The state after the bytes of a message, given that after one more.  It   *)
(* is reckoned half by half.                                                *)
CrcOf(bytes, AddByte(_, _)) ==
    LET Offsets == 0 .. Len(bytes)
        after[crc \in 0 .. 65535, from \in Offsets, to \in Offsets] ==
            LET mid == (from + to) \div 2
            IN  IF from = to THEN crc
                ELSE IF to = from + 1 THEN AddByte(crc, bytes[to])
                ELSE after[after[crc, from, mid], mid, to]
    IN  after[0, 0, Len(bytes)]

ByteBitByBit(crc, byte) ==
    LET after[k \in 0 .. 8] ==
            IF k = 0 THEN crc ELSE AddBit(after[k - 1], (byte \div 2 ^ (8 - k)) % 2)
    IN  after[8]

crc_cal_by_bit(bytes) == CrcOf(bytes, ByteBitByBit)

crc_ta_8 == <<
    0, 4129, 8258, 12387, 16516, 20645, 24774, 28903, 33032, 37161, 41290,
    45419, 49548, 53677, 57806, 61935, 4657, 528, 12915, 8786, 21173,
    17044, 29431, 25302, 37689, 33560, 45947, 41818, 54205, 50076, 62463,
    58334, 9314, 13379, 1056, 5121, 25830, 29895, 17572, 21637, 42346,
    46411, 34088, 38153, 58862, 62927, 50604, 54669, 13907, 9842, 5649,
    1584, 30423, 26358, 22165, 18100, 46939, 42874, 38681, 34616, 63455,
    59390, 55197, 51132, 18628, 22757, 26758, 30887, 2112, 6241, 10242,
    14371, 51660, 55789, 59790, 63919, 35144, 39273, 43274, 47403, 23285,
    19156, 31415, 27286, 6769, 2640, 14899, 10770, 56317, 52188, 64447,
    60318, 39801, 35672, 47931, 43802, 27814, 31879, 19684, 23749, 11298,
    15363, 3168, 7233, 60846, 64911, 52716, 56781, 44330, 48395, 36200,
    40265, 32407, 28342, 24277, 20212, 15891, 11826, 7761, 3696, 65439,
    61374, 57309, 53244, 48923, 44858, 40793, 36728, 37256, 33193, 45514,
    41451, 53516, 49453, 61774, 57711, 4224, 161, 12482, 8419, 20484,
    16421, 28742, 24679, 33721, 37784, 41979, 46042, 49981, 54044, 58239,
    62302, 689, 4752, 8947, 13010, 16949, 21012, 25207, 29270, 46570,
    42443, 38312, 34185, 62830, 58703, 54572, 50445, 13538, 9411, 5280,
    1153, 29798, 25671, 21540, 17413, 42971, 47098, 34713, 38840, 59231,
    63358, 50973, 55100, 9939, 14066, 1681, 5808, 26199, 30326, 17941,
    22068, 55628, 51565, 63758, 59695, 39368, 35305, 47498, 43435, 22596,
    18533, 30726, 26663, 6336, 2273, 14466, 10403, 52093, 56156, 60223,
    64286, 35833, 39896, 43963, 48026, 19061, 23124, 27191, 31254, 2801,
    6864, 10931, 14994, 64814, 60687, 56684, 52557, 48554, 44427, 40424,
    36297, 31782, 27655, 23652, 19525, 15522, 11395, 7392, 3265, 61215,
    65342, 53085, 57212, 44955, 49082, 36825, 40952, 28183, 32310, 20053,
    24180, 11923, 16050, 3793, 7920>>

ByteAtOnce(crc, byte) ==
    XorShort(256 * Low(crc), At(crc_ta_8, XorByte(High(crc), byte)))

crc_cal_by_byte(bytes) == CrcOf(bytes, ByteAtOnce)

crc_ta_4 == SubSeq(crc_ta_8, 1, 16)

HalfAtOnce(crc, half) ==
    XorShort(16 * (crc % 4096), At(crc_ta_4, XorByte(crc \div 4096, half)))

ByteByHalves(crc, byte) == HalfAtOnce(HalfAtOnce(crc, byte \div 16), byte % 16)

crc_cal_by_halfbyte(bytes) == CrcOf(bytes, ByteByHalves)

crc16_ccitt(bytes) == crc_cal_by_bit(bytes)

-----------------------------------------------------------------------------
(* zc_cloud_event.c *)

ZC_VERSION == 1
ZC_CODE_HEARTBEAT == 13
ZC_CODE_EMPTY == 14
ZC_CODE_ACK == 15
ZC_CODE_BC_INFO == 27
ZC_CODE_CLIENT_QUERY_REQ == 30
ZC_CODE_CLIENT_QUERY_RSP == 31
ZC_OPT_TRANSPORT == 0
ZC_OPT_SSESSION == 1
HeadLen == 8
OptHeadLen == 4
SessionLen == 4
TransportLen == 16
ZC_HS_DEVICE_ID_LEN == 16
MSG_BULID_BUFFER_MAXLEN == 600

Short(n) == <<High(n), Low(n)>>
Take(bytes, from, len) == SubSeq(bytes, from + 1, from + len)

(* ZC_MessageHead; the CRC is meant to be that of the bytes after it. *)
HeadOf(version, id, code, optNum, len, crc) ==
    <<version, id, code, optNum>> \o Short(len) \o Short(crc)

MsgHead(version, id, code, optNum, body) ==
    HeadOf(version, id, code, optNum, Len(body), crc16_ccitt(body))

MsgCode(msg) == msg[3]
Payloadlen(msg) == U16(msg[5], msg[6])
Body(msg) == Take(msg, HeadLen, Payloadlen(msg))

PCT_CheckCrc(msg) == U16(msg[7], msg[8]) = crc16_ccitt(Body(msg))

EVENT_BuildMsg(code, id, payload) ==
    MsgHead(ZC_VERSION, id, code, 0, payload) \o payload
EVENT_BuildEmptyMsg(id) == EVENT_BuildMsg(ZC_CODE_EMPTY, id, <<>>)
EVENT_BuildHeartMsg == EVENT_BuildMsg(ZC_CODE_HEARTBEAT, 0, <<>>)

(* deviceId is followed by the domain, as in g_struRegisterInfo. *)
EVENT_BuildBcMsg(randMsg, deviceId, domain) ==
    EVENT_BuildMsg(ZC_CODE_BC_INFO, 0, domain \o deviceId \o randMsg)

Option(code, info) == Short(code) \o Short(Len(info)) \o info

(* The options before offset len, and the bytes they take; of two options  *)
(* with the same code the last one counts, others are passed over.         *)
NoOptions == [transport |-> NoInfo, session |-> NoInfo, len |-> 0]

ParseOne(msg, list) ==
    LET at   == HeadLen + list.len
        code == U16(msg[at + 1], msg[at + 2])
        len  == U16(msg[at + 3], msg[at + 4])
        Info(n) == Take(msg, at + OptHeadLen, n)
    IN  [transport |-> IF code = ZC_OPT_TRANSPORT THEN Info(TransportLen) ELSE list.transport,
         session   |-> IF code = ZC_OPT_SSESSION THEN Info(SessionLen) ELSE list.session,
         len       |-> list.len + OptHeadLen + len]

EVENT_ParseOption(msg) ==
    LET list[k \in 0 .. 255] == IF k = 0 THEN NoOptions ELSE ParseOne(msg, list[k - 1])
    IN  list[msg[4]]

(* The session is written where the buffer begins, over a transport option  *)
(* if there is one; the callers in the program give at most one of the two. *)
EVENT_BuildOption(transport, session, buffer) ==
    LET first  == IF transport = NoInfo THEN <<>> ELSE Option(ZC_OPT_TRANSPORT, transport)
        second == IF session = NoInfo THEN <<>> ELSE Option(ZC_OPT_SSESSION, session)
        Over(bytes, old) == bytes \o SubSeq(old, Len(bytes) + 1, Len(old))
        len    == (Len(first) + Len(second)) % 256
    IN  [num   |-> (IF first = <<>> THEN 0 ELSE 1) + (IF second = <<>> THEN 0 ELSE 1),
         len   |-> len,
         bytes |-> SubSeq(Over(second, Over(first, buffer)), 1, len)]

-----------------------------------------------------------------------------
(* Between a client and the MCU *)

(* What goes over TCP: ZC_SecHead (without its reserved byte, which is not  *)
(* set and not read) and the bytes after it.                                *)
SecHeadLen == 4
Packet(cipher) == [total |-> Len(cipher), type |-> ZC_SEC_ALG_AES, body |-> cipher]

WithToken(msg) == AES_CBC_Encrypt(msg, Len(msg), TokenKey, 16, TokenKey).out
FromToken(cipher) == AES_CBC_Decrypt(cipher, Len(cipher), TokenKey, 16, TokenKey).out

(* The same message, given to the MCU with one option more. *)
InsertSession(msg, session) ==
    LET body == Option(ZC_OPT_SSESSION, session) \o Body(msg)
    IN  MsgHead(msg[1], msg[2], msg[3], msg[4] + 1, body) \o body

(* ZC_RecvDataFromClient, when it has a whole packet. *)
RecvDataFromClient(session, packet) ==
    LET msg == FromToken(packet.body)
    IN  IF packet.total >= MSG_BULID_BUFFER_MAXLEN THEN NoMessage
        ELSE IF ~PCT_CheckCrc(msg) THEN NoMessage
        ELSE IF Payloadlen(msg) + OptHeadLen + SessionLen > MSG_BULID_BUFFER_MAXLEN THEN NoMessage
        ELSE InsertSession(msg, session)

(* What is sent of an answer: its length goes through g_u8ClientSendLen,    *)
(* which has 8 bits.                                                        *)
Cut(packet) ==
    LET g_u8ClientSendLen == (packet.total + SecHeadLen) % 256
    IN  [packet EXCEPT !.body = SubSeq(@, 1, g_u8ClientSendLen - SecHeadLen)]

(* The head of an answer.  The CRC is taken over as many bytes as the body  *)
(* has, but from offset 8 of g_u8MsgBuildBuffer, where the head will be:    *)
(* the body begins at 12.  So it covers what was left there by whatever was *)
(* built or opened in the buffer last, and not the end of the body.         *)
AnswerHead(msg, optNum, body, stale) ==
    HeadOf(msg[1], msg[2], msg[3], optNum, Len(body),
           crc16_ccitt(SubSeq(stale \o body, 1, Len(body))))

(* A mutant of the next definition: the payload is copied from the options. *)
WithoutSessionOrPayload(msg, stale) ==
    LET list    == EVENT_ParseOption(msg)
        options == EVENT_BuildOption(list.transport, NoInfo, <<>>)
        realLen == Payloadlen(msg) - (OptHeadLen + SessionLen)
        body    == options.bytes \o Take(msg, HeadLen, realLen - options.len)
    IN  Packet(WithToken(AnswerHead(msg, options.num, body, stale) \o body))

(* The MCU's message without the session option, sealed. *)
WithoutSession(msg, stale) ==
    LET list    == EVENT_ParseOption(msg)
        options == EVENT_BuildOption(list.transport, NoInfo, <<>>)
        realLen == Payloadlen(msg) - (OptHeadLen + SessionLen)
        body    == options.bytes \o Take(msg, HeadLen + list.len, realLen - options.len)
    IN  Packet(WithToken(AnswerHead(msg, options.num, body, stale) \o body))

(* ZC_DealSessionOpt, when the session is that of a client in the table. *)
DealSessionOpt(msg, stale) == Cut(WithoutSession(msg, stale))

(* ZC_RecvDataFromMoudle, of a message that has a session. *)
RecvDataFromMoudle(msg, stale) ==
    IF PCT_CheckCrc(msg) /\ EVENT_ParseOption(msg).session # NoInfo
    THEN DealSessionOpt(msg, stale) ELSE NoMessage

(* A client's question, and the MCU's answer, which keeps the options. *)
ClientAsks(transport, payload) ==
    LET option == IF transport = NoInfo THEN <<>> ELSE Option(ZC_OPT_TRANSPORT, transport)
        body   == option \o payload
    IN  Packet(WithToken(
            MsgHead(ZC_VERSION, 7, ZC_CODE_ACK, IF transport = NoInfo THEN 0 ELSE 1, body) \o body))

McuAnswers(msg, payload) ==
    LET body == Take(msg, HeadLen, EVENT_ParseOption(msg).len) \o payload
    IN  MsgHead(msg[1], msg[2], ZC_CODE_ACK, msg[4], body) \o body

-----------------------------------------------------------------------------
(* The names of the module *)

HexDigit(n) == IF n < 10 THEN 48 + n ELSE 55 + n
ZC_HexToString(bytes) ==
    [i \in 1 .. 2 * Len(bytes) |->
        LET byte == bytes[(i + 1) \div 2]
        IN  HexDigit(IF i % 2 = 1 THEN byte \div 16 ELSE byte % 16)]

ZC_Rand(words) ==
    [i \in 1 .. 4 * Len(words) |->
        LET word == words[(i + 3) \div 4] IN (word[4 - ((i - 1) % 4)] % 26) + 65]

(* ZC_StoreRegisterInfo: a module that registers by ZC_CODE_EXT is called   *)
(* by the address of its WLAN chip.                                         *)
DeviceId(extended, deviceId, mac) ==
    IF extended THEN [i \in 1 .. 4 |-> 48] \o ZC_HexToString(mac) ELSE deviceId

(* ZC_SendClientQueryReq.  Only 6 bytes of the domain are compared. *)
AnswerQuery(registered, msg, deviceId, domain) ==
    IF /\ registered
       /\ Len(msg) = HeadLen + 8
       /\ MsgCode(msg) = ZC_CODE_CLIENT_QUERY_REQ
       /\ Take(msg, HeadLen, 6) = Take(domain, 0, 6)
    THEN EVENT_BuildMsg(ZC_CODE_CLIENT_QUERY_RSP, 0, LocalIp \o deviceId)
    ELSE NoMessage

-----------------------------------------------------------------------------
(* Calls *)

(* The bytes from offset at on are changed where the burst has ones. *)
Struck(text, burst, at) ==
    [i \in 1 .. Len(text) |->
        IF i \in at + 1 .. at + Len(burst) THEN XorByte(text[i], burst[i - at]) ELSE text[i]]

Checksum ==
    \E text \in Payloads, burst \in Bursts :
        \E at \in {0, Len(text) - Len(burst)} :
            /\ at >= 0 /\ at + Len(burst) <= Len(text)
            /\ Call([call |-> "crc", text |-> text, struck |-> Struck(text, burst, at)])

Exchange ==
    \E payload \in Payloads, reply \in Payloads, session \in Sessions,
       transport \in Transports \cup {NoInfo}, stale \in Stale :
        Call([call |-> "exchange", payload |-> payload, reply |-> reply,
              session |-> session, transport |-> transport, stale |-> stale])

Announce ==
    \E extended \in BOOLEAN, registered \in BOOLEAN, mac \in Macs, id \in DeviceIds,
       domain \in Domains, asked \in Domains, code \in {ZC_CODE_CLIENT_QUERY_REQ, ZC_CODE_ACK} :
        Call([call |-> "announce", extended |-> extended, registered |-> registered,
              mac |-> mac, id |-> id, domain |-> domain, asked |-> asked, code |-> code])

MessagesNext == Next \/ Checksum \/ Exchange \/ Announce

MessagesSpec == Init /\ [][MessagesNext]_vars

(* The message the MCU gets, and what the client gets of its answer. *)
Exchanged(j) ==
    LET asked == RecvDataFromClient(j.session, ClientAsks(j.transport, j.payload))
        given == RecvDataFromMoudle(McuAnswers(asked, j.reply), j.stale)
    IN  [asked |-> asked, given |-> IF asked = NoMessage THEN NoMessage ELSE given]

Announced(j) ==
    LET deviceId == DeviceId(j.extended, j.id, j.mac)
    IN  [broadcast |-> EVENT_BuildBcMsg(ZC_Rand(RandWords), deviceId, j.domain),
         heart     |-> EVENT_BuildHeartMsg,
         empty     |-> EVENT_BuildEmptyMsg(7),
         reply     |-> AnswerQuery(j.registered, EVENT_BuildMsg(j.code, 0, j.asked),
                                   deviceId, j.domain)]

-----------------------------------------------------------------------------
(* The three ways of crc.c compute one checksum, by the remainder of the   *)
(* polynomial and by its tables, and an error that changes any of 16       *)
(* neighbouring bits of what it covers changes it.                         *)
DamageIsSeen(j) ==
    j.call = "crc" =>
        LET crc == crc_cal_by_bit(j.text)
        IN  /\ crc = crc_cal_by_byte(j.text) /\ crc = crc_cal_by_halfbyte(j.text)
            /\ crc # crc_cal_by_bit(j.struck)

(* A message that reads back as what it was built from, checksum apart or  *)
(* with it.                                                                *)
Holds(msg, code, options, body) ==
    /\ MsgCode(msg) = code /\ msg[4] = options
    /\ Payloadlen(msg) = Len(body) /\ Body(msg) = body

Reads(msg, code, options, body) == PCT_CheckCrc(msg) /\ Holds(msg, code, options, body)

OwnOption(j) ==
    IF j.transport = NoInfo THEN <<>> ELSE Option(ZC_OPT_TRANSPORT, j.transport)
OwnCount(j) == IF j.transport = NoInfo THEN 0 ELSE 1

(* The bytes of a message with this payload when it is sealed. *)
SealedLen(j, payload) == 16 * ((HeadLen + Len(OwnOption(j) \o payload)) \div 16 + 1)

FitsTheBuffer(j) == SealedLen(j, j.payload) < MSG_BULID_BUFFER_MAXLEN
FitsItsLength(j) == SecHeadLen + SealedLen(j, j.reply) <= 255

(* A client's message that fits the buffers reaches the MCU whole, with    *)
(* the session of the client, and with lengths, count of options and       *)
(* checksum that agree with its bytes.  The answer of the MCU reaches the  *)
(* client whole, with the options of the question and none of the module's *)
(* own, and with lengths and count that agree; of its checksum see below.   *)
(* An answer is at most 255 bytes long with its head, since its length is   *)
(* kept in 8 bits.                                                         *)
ExchangeIsIntact(j) ==
    j.call = "exchange" =>
        LET answer == Exchanged(j)
        IN  /\ ~FitsTheBuffer(j) => answer.asked = NoMessage
            /\ FitsTheBuffer(j) =>
                  Reads(answer.asked, ZC_CODE_ACK, OwnCount(j) + 1,
                        Option(ZC_OPT_SSESSION, j.session) \o OwnOption(j) \o j.payload)
            /\ FitsTheBuffer(j) /\ FitsItsLength(j) =>
                  /\ Len(answer.given.body) = answer.given.total
                  /\ Holds(FromToken(answer.given.body), ZC_CODE_ACK, OwnCount(j),
                           OwnOption(j) \o j.reply)

(* What PCT_CheckCrc of the other side would ask of an answer.  The code    *)
(* does not keep it (zc_moudle_manager.c:78, see AnswerHead), so no run     *)
(* checks it.                                                              *)
AnswersHaveTheirChecksum ==
    [][job'.call = "exchange" /\ FitsTheBuffer(job') /\ FitsItsLength(job') =>
          PCT_CheckCrc(FromToken(Exchanged(job').given.body))]_vars

HexValue(digit) == IF digit < 58 THEN digit - 48 ELSE digit - 55
FromHex(digits) ==
    [i \in 1 .. Len(digits) \div 2 |-> 16 * HexValue(digits[2 * i - 1]) + HexValue(digits[2 * i])]

(* Who hears a broadcast, or asks for the modules of a domain, learns the  *)
(* device a module registered as (its MCU's name, or one that holds the    *)
(* whole address of the WLAN chip), the domain, and in an answer to a      *)
(* query the address; a module that has not registered does not answer.    *)
NamesAreRead(j) ==
    j.call = "announce" =>
        LET answer == Announced(j)
            b    == answer.broadcast
            name == Take(b, HeadLen + 8, ZC_HS_DEVICE_ID_LEN)
        IN  /\ Reads(b, ZC_CODE_BC_INFO, 0, Body(b)) /\ Take(b, HeadLen, 8) = j.domain
            /\ IF j.extended THEN FromHex(Take(name, 4, 12)) = j.mac ELSE name = j.id
            /\ \A i \in HeadLen + 25 .. Len(b) : b[i] \in 65 .. 90
            /\ Reads(answer.heart, ZC_CODE_HEARTBEAT, 0, <<>>)
            /\ Reads(answer.empty, ZC_CODE_EMPTY, 0, <<>>)
            /\ answer.reply # NoMessage <=>
                  /\ j.registered /\ j.code = ZC_CODE_CLIENT_QUERY_REQ
                  /\ \A i \in 1 .. 6 : j.asked[i] = j.domain[i]
            /\ answer.reply # NoMessage =>
                  Reads(answer.reply, ZC_CODE_CLIENT_QUERY_RSP, 0, LocalIp \o name)

(* No message is changed on its way: neither by an error of the line that   *)
(* nobody notices, nor by the module between a client and the MCU (but for  *)
(* the checksum of an answer), nor are the names the module gives misread.  *)
MessagesAreIntact ==
    [][DamageIsSeen(job') /\ ExchangeIsIntact(job') /\ NamesAreRead(job')]_vars

=============================================================================
