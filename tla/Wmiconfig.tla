------------------------------ MODULE Wmiconfig ------------------------------
(***************************************************************************)
(* The settings commands of the shell: what swat_parse.c makes of a        *)
(* command line, and the calls of the qcom library that come of it through *)
(* the one-line functions of swat_wmiconfig_*.c.                           *)
(*                                                                         *)
(* A command line arrives as c: argc and argv as the console hands them    *)
(* over, argv[0] the command.  What the code reads without having set it   *)
(* is in c too: words of argv past argc, a local variable (junk), and what *)
(* DNS answers.  seen is what the chip answers when the code asks it.  A   *)
(* handler returns its answer and the calls it made, in order.             *)
(***************************************************************************)
EXTENDS Integers, Sequences

SWAT_NOFOUND == 0
SWAT_OK == 1
SWAT_ERROR == 2

Done(calls) == [answer |-> SWAT_OK, calls |-> calls]
Refused == [answer |-> SWAT_ERROR, calls |-> <<>>]
NotFound == [answer |-> SWAT_NOFOUND, calls |-> <<>>]

Require(cond, outcome) == IF cond THEN outcome ELSE Refused

-----------------------------------------------------------------------------
(* Words.  A string is a sequence of characters, and "" the end of one.     *)

NoText == ""
Blank == " "

Char(w, i) == IF i \in 1 .. Len(w) THEN SubSeq(w, i, i) ELSE NoText
Numerals == "0123456789"
IsDigit(w, i) == i <= Len(w) /\ \E k \in 1 .. 10 : Char(Numerals, k) = Char(w, i)
DigitAt(w, i) == (CHOOSE k \in 1 .. 10 : Char(Numerals, k) = Char(w, i)) - 1

(* Where the run of digits that begins at i ends, and its value.            *)
RunEnd(w, i) == CHOOSE e \in i .. Len(w) + 1 :
                    ~IsDigit(w, e) /\ \A k \in i .. e - 1 : IsDigit(w, k)
RunValue(w, i) ==
    LET value[e \in i - 1 .. Len(w)] ==
            IF e < i THEN 0 ELSE 10 * value[e - 1] + DigitAt(w, e)
    IN  value[RunEnd(w, i) - 1]

(* sscanf with %d: the number a word begins with, if it begins with one.    *)
Scanned(w) ==
    IF IsDigit(w, 1) THEN <<RunValue(w, 1)>>
    ELSE IF Char(w, 1) = "-" /\ IsDigit(w, 2) THEN <<-RunValue(w, 2)>>
    ELSE <<>>
Number(w, before) == IF Scanned(w) = <<>> THEN before ELSE Scanned(w)[1]
atoi(w) == Number(w, 0)

U8(n) == n % 256
U16(n) == n % 65536

(* inet_aton: four numbers below 256 with dots between them, and nothing    *)
(* else.  It gives their bytes, or nothing.                                 *)
inet_aton(name) ==
    LET start[k \in 1 .. 4] == IF k = 1 THEN 1 ELSE RunEnd(name, start[k - 1]) + 1
        IsByte(k) ==
            /\ IsDigit(name, start[k])
            /\ RunValue(name, start[k]) <= 255
            /\ IF k < 4 THEN Char(name, RunEnd(name, start[k])) = "."
                        ELSE RunEnd(name, start[k]) > Len(name)
    IN  IF \A k \in 1 .. 4 : IsByte(k) THEN [k \in 1 .. 4 |-> RunValue(name, start[k])] ELSE <<>>

(* _inet_addr: sscanf with %3d.%3d.%3d.%3d into unset variables.  Its test  *)
(* of an unsigned result for a negative one never fails, and a field may be *)
(* as large as 999: what is above a byte runs into the byte before.         *)
Fields(str, junk) ==
    LET Stop(p) == IF RunEnd(str, p) > p + 3 THEN p + 3 ELSE RunEnd(str, p)
        start[k \in 1 .. 4] == IF k = 1 THEN 1 ELSE Stop(start[k - 1]) + 1
        IsRead(k) ==
            \A j \in 1 .. k : /\ IsDigit(str, start[j])
                              /\ j < k => Char(str, Stop(start[j])) = "."
    IN  [k \in 1 .. 4 |-> IF IsRead(k) THEN RunValue(SubSeq(str, 1, Stop(start[k]) - 1), start[k]) ELSE junk]

OrLow(byte, n) ==   \* n below 4
    LET Bit(x, y) == IF x = 1 \/ y = 1 THEN 1 ELSE 0
    IN  4 * (byte \div 4) + 2 * Bit((byte \div 2) % 2, n \div 2) + Bit(byte % 2, n % 2)

_inet_addr(str, junk) ==
    LET data == Fields(str, junk) \o <<0>>
    IN  [k \in 1 .. 4 |-> OrLow(data[k] % 256, data[k + 1] \div 256)]

NoAddress == <<0, 0, 0, 0>>

-----------------------------------------------------------------------------
(* Options, each followed by its value, from argv[2] on.  given says which  *)
(* were there, value what the last of each kind that is a number said.  The *)
(* command is not ok if a value is missing, or, for a strict one, if a word *)
(* in the place of an option is none.                                       *)

OptionsFrom(c, names, strict) ==
    LET Ids == DOMAIN names
        none == [ok |-> TRUE, given |-> [k \in Ids |-> FALSE], value |-> [k \in Ids |-> <<>>]]
        Found(k, word, rest) ==
            [rest EXCEPT !.given[k] = TRUE, !.value[k] = IF @ = <<>> THEN Scanned(word) ELSE @]
        from[i \in 2 .. c.argc + 1] ==
            IF i >= c.argc THEN none
            ELSE IF \E k \in Ids : names[k] = c.argv[i]
                 THEN IF i + 1 = c.argc THEN [none EXCEPT !.ok = FALSE]
                      ELSE Found(CHOOSE k \in Ids : names[k] = c.argv[i], c.argv[i + 1], from[i + 2])
                 ELSE IF strict THEN [none EXCEPT !.ok = FALSE] ELSE from[i + 2]
    IN  from

Options(c, names, strict) == OptionsFrom(c, names, strict)[2]

ValueOf(options, k, default) ==
    IF options.value[k] = <<>> THEN default ELSE options.value[k][1]

-----------------------------------------------------------------------------
(* swat_wmiconfig_connect_handle *)

(* Words before the i-th, each with the blank that follows it.              *)
Joined(c) ==
    LET before[i \in 2 .. c.argc] ==
            IF i = 2 THEN NoText ELSE before[i - 1] \o c.argv[i - 1] \o Blank
    IN  before

(* Mutant: room for one character more than there is.                       *)
TooLongByTwo(c) == \E i \in 2 .. c.argc - 1 : Len(Joined(c)[i]) + Len(c.argv[i]) > 33

TooLong(c) == \E i \in 2 .. c.argc - 1 : Len(Joined(c)[i]) + Len(c.argv[i]) > 32

Ssid(c) ==
    IF c.argc = 3 THEN c.argv[2]
    ELSE SubSeq(Joined(c)[c.argc], 1, Len(Joined(c)[c.argc]) - 1)

swat_wmiconfig_connect_ssid(ssid, seen) ==
    IF seen.mode = "ap" THEN <<"qcom_ap_start", ssid>> ELSE <<"qcom_sta_connect_with_scan", ssid>>

Connect(c, seen) ==
    Require(c.argc = 3 \/ ~TooLong(c), Done(<<swat_wmiconfig_connect_ssid(Ssid(c), seen)>>))

swat_wmiconfig_connect_handle(c, seen) ==
    CASE c.argv[1] = "--connect" -> Connect(c, seen)
      [] c.argv[1] = "--disc" -> Done(<< <<"qcom_disconnect">> >>)
      [] OTHER -> NotFound

-----------------------------------------------------------------------------
(* swat_wmiconfig_softAp_handle *)

swat_wmiconfig_dev_mode_set(word) ==
    IF word \in {"ap", "station"} THEN << <<"qcom_op_set_mode", word>> >> ELSE <<>>

Mode(c) ==
    CASE c.argc = 3 -> Done(swat_wmiconfig_dev_mode_set(c.argv[2]))
      [] c.argc = 4 /\ c.argv[2] = "ap" /\ c.argv[3] = "hidden" ->
            Done(<< <<"qcom_ap_hidden_mode_enable", 1>> >>)
      [] c.argc = 4 /\ c.argv[2] = "ap" /\ c.argv[3] = "wps" -> Done(<< <<"qcom_wps_enable", 1>> >>)
      [] OTHER -> Refused

LastChannel(country) == CASE country = "US" -> 11 [] country = "JP" -> 14 [] OTHER -> 13
CHANNEL_NO_IS_5G(n) == n \in 183 .. 196 \/ n \in 16 .. 165
ChannelFits(n, country) ==
    IF n <= 14 THEN n \in 1 .. LastChannel(country) ELSE CHANNEL_NO_IS_5G(n)

Channel(c, seen) ==
    LET data == Number(c.argv[2], 0)
    IN  Require(c.argc = 3 /\ ChannelFits(data, seen.country),
                Done(<< <<"qcom_set_channel", data>> >>))

PhyMode == [b |-> 2, g |-> 3, n |-> 4, ht40 |-> 5]
WMode(c) == Require(c.argc = 3 /\ c.argv[2] \in DOMAIN PhyMode,
                    Done(<< <<"qcom_set_phy_mode", PhyMode[c.argv[2]]>> >>))

Listen(c) == Require(c.argc = 3, Done(<< <<"qcom_sta_set_listen_time", Number(c.argv[2], 0)>> >>))

swat_wmiconfig_scan_ctl_set(flag) ==
    IF flag \in {0, 1} THEN << <<"qcom_scan_set_mode", flag>> >> ELSE <<>>

ScanCtrl(c) ==
    Require(c.argc \in {3, 4}, Done(swat_wmiconfig_scan_ctl_set(Number(c.argv[2], 0))))

SetScanPara(c) ==
    LET max == Number(c.argv[2], 0)
    IN  Require(c.argc = 4,
                Done(<< <<"qcom_scan_set_para", U16(max), U16(Number(c.argv[3], max))>> >>))

AccessPoint(c) ==
    LET Set(call) == Require(c.argc = 4, Done(<<call>>))
        data == U16(Number(c.argv[3], 0))
    IN  IF c.argc < 3 THEN Refused
        ELSE CASE c.argv[2] = "bconint" -> Set(<<"qcom_ap_set_beacon_interval", data>>)
          [] c.argv[2] = "country" -> Set(<<"qcom_set_country_code", Char(c.argv[3], 1) \o Char(c.argv[3], 2)>>)
          [] c.argv[2] = "inact" -> Set(<<"qcom_ap_set_inact_time", data>>)
          [] OTHER -> Done(<<>>)

swat_wmiconfig_softAp_handle(c, seen) ==
    CASE c.argv[1] = "--mode" -> Mode(c)
      [] c.argv[1] = "--channel" -> Channel(c, seen)
      [] c.argv[1] = "--wmode" -> WMode(c)
      [] c.argv[1] = "--listen" -> Listen(c)
      [] c.argv[1] = "--scanctrl" -> ScanCtrl(c)
      [] c.argv[1] = "--setscanpara" -> SetScanPara(c)
      [] c.argv[1] = "--ap" -> AccessPoint(c)
      [] OTHER -> NotFound

-----------------------------------------------------------------------------
(* Keys: swat_wmiconfig_wep_handle, _wpa_handle and _wps_handle *)

KeyIndex(c) == Number(c.argv[2], c.junk)
Indexed(c, call) == Require(c.argc = 4 /\ KeyIndex(c) \in 1 .. 4, Done(<<call>>))

swat_wmiconfig_wep_handle(c) ==
    CASE c.argv[1] = "--wepkey" -> Indexed(c, <<"qcom_sec_set_wepkey", KeyIndex(c), c.argv[3]>>)
      [] c.argv[1] = "--wep" -> Indexed(c, <<"qcom_sec_set_wepkey_index", KeyIndex(c)>>)
      [] OTHER -> NotFound

swat_wmiconfig_wpa_handle(c) ==
    CASE c.argv[1] = "--p" -> Require(c.argc = 3, Done(<< <<"qcom_sec_set_passphrase", c.argv[2]>> >>))
      [] c.argv[1] = "--wpa" -> Require(c.argc = 5, Done(<<>>))
      [] OTHER -> NotFound

WpsStart(c, mode, pin) ==
    Done(<< <<"qcom_wps_enable", 1>>, <<"qcom_wps_start", Number(c.argv[2], 0), mode, pin>> >>)

(* Mutant: WPS is enabled before the line is checked.                       *)
WpsEnabledFirst(c) ==
    IF c.argv[1] # "--wps" THEN NotFound
    ELSE CASE c.argc < 4 -> Refused
      [] c.argc >= 4 /\ c.argv[3] = "pin" /\ c.argc >= 5 /\ Len(c.argv[4]) <= 8 -> WpsStart(c, 0, c.argv[4])
      [] c.argc >= 4 /\ c.argv[3] = "push" -> WpsStart(c, 1, "")
      [] OTHER -> [Refused EXCEPT !.calls = << <<"qcom_wps_enable", 1>> >>]

swat_wmiconfig_wps_handle(c) ==
    IF c.argv[1] # "--wps" THEN NotFound
    ELSE Require(c.argc >= 4,
        CASE c.argv[3] = "pin" ->
                Require(c.argc >= 5 /\ Len(c.argv[4]) <= 8, WpsStart(c, 0, c.argv[4]))
          [] c.argv[3] = "push" -> WpsStart(c, 1, "")
          [] OTHER -> Refused)

-----------------------------------------------------------------------------
(* swat_wmiconfig_ip_handle *)

swat_wmiconfig_ipstatic(words, junk) ==
    << <<"qcom_ip_address_set">> \o [k \in 1 .. 3 |-> _inet_addr(words[k], junk)] >>

IpStatic(c) ==
    Require(c.argc >= 5,
            Done(swat_wmiconfig_ipstatic(<<c.argv[2], c.argv[3], c.argv[4]>>, c.junk)))

swat_wmiconfig_dns(name) == << <<"qcom_dnsc_get_host_by_name", name>> >>

swat_wmiconfig_dns_enable(word) ==
    CASE word = "start" -> << <<"qcom_dnsc_enable", 1>> >>
      [] word = "stop" -> << <<"qcom_dnsc_enable", 0>> >>
      [] OTHER -> <<>>

swat_wmiconfig_dns_svr_add(ip) ==
    IF ip = NoAddress THEN <<>> ELSE << <<"qcom_dnsc_add_server_address", ip>> >>

swat_wmiconfig_dns_svr_del(ip) ==
    IF ip = NoAddress THEN <<>> ELSE << <<"qcom_dnsc_del_server_address", ip>> >>

swat_wmiconfig_dhcp_pool(start, end, lease, junk) ==
    << <<"qcom_dhcps_set_pool", _inet_addr(start, junk), _inet_addr(end, junk), lease>> >>

(* The lease time is a variable nothing was stored in.                      *)
DhcpPool(c) ==
    Require(c.argc = 5, Done(swat_wmiconfig_dhcp_pool(c.argv[2], c.argv[3], c.junk, c.junk)))

swat_wmiconfig_ip_handle(c) ==
    CASE c.argv[1] = "--ipstatic" -> IpStatic(c)
      [] c.argv[1] = "--ipdhcp" -> Done(<< <<"qcom_dhcpc_enable", 1>> >>)
      [] c.argv[1] = "--ipconfig" -> Done(<<>>)
      [] c.argv[1] = "--ip_gethostbyname" ->
            Require(c.argc >= 3, Done(swat_wmiconfig_dns(c.argv[2])))
      [] c.argv[1] = "--ip_dns_client" -> Require(c.argc >= 3, Done(swat_wmiconfig_dns_enable(c.argv[2])))
      [] c.argv[1] = "--ip_dns_server_addr" ->
            Require(c.argc >= 3, Done(swat_wmiconfig_dns_svr_add(_inet_addr(c.argv[2], c.junk))))
      [] c.argv[1] = "--ip_dns_delete_server_addr" ->
            Require(c.argc >= 3, Done(swat_wmiconfig_dns_svr_del(_inet_addr(c.argv[2], c.junk))))
      [] c.argv[1] = "--ipdhcppool" -> DhcpPool(c)
      [] OTHER -> NotFound

-----------------------------------------------------------------------------
(* swat_wmiconfig_misc_handle *)

HostName(c) ==
    Require(c.argc >= 3,
        CASE c.argv[2] = "get" -> Done(<<>>)
          [] c.argv[2] = "set" -> Done(<< <<"qcom_set_dhcpc_hostname", c.argv[3]>> >>)
          [] OTHER -> Refused)

Memory(c, before, read, write) ==
    LET addr == atoi(c.argv[3])
    IN  Require(c.argc >= 4,
            CASE c.argv[2] = "read" -> Done(before \o << <<read, addr>> >>)
              [] c.argv[2] = "write" -> Done(<< <<write, addr, atoi(c.argv[4])>> >>)
              [] OTHER -> Refused)

Psram(c) == Memory(c, <<>>, "qcom_psram_read", "qcom_psram_write")
I2c(c) == Memory(c, << <<"qcom_i2c_init", 12, 6, 5>> >>, "eeprom24l_read", "eeprom24l_write")

Wdt(c) == Require(c.argc >= 4, Done(<< <<"qcom_watchdog", atoi(c.argv[2]), atoi(c.argv[3])>> >>))

TestFlash(c) ==
    IF c.argv[2] = "spi_flash" /\ c.argv[3] = "read"
    THEN Require(atoi(c.argv[4]) \in {9, 19},
                 Done(<< <<"test_spi_flash_read", atoi(c.argv[4]), atoi(c.argv[5])>> >>))
    ELSE NotFound

PmNames == <<"--idle", "--np", "--dp", "--txwp", "--ntxw", "--psfp">>
PmDefaults == <<0, 10, 3, 2, 1, 2>>

swat_wmiconfig_pmparams(params) ==
    << <<"qcom_power_set_parameters">> \o [k \in 1 .. 6 |-> U16(params[k])] >>

(* An option that was given without a number leaves its variable unset.     *)
PmParams(c) ==
    LET options == Options(c, PmNames, TRUE)
        Value(k) == ValueOf(options, k, IF options.given[k] THEN c.junk ELSE PmDefaults[k])
    IN  Require(c.argc >= 3 /\ options.ok,
                Done(swat_wmiconfig_pmparams([k \in 1 .. 6 |-> Value(k)])))

PwrMode(c, seen) ==
    LET data == Number(c.argv[2], 0)
    IN  Require(c.argc >= 3,
            CASE data = 0 -> Done(<< <<"qcom_power_set_mode", 2>> >>)
              [] data = 1 -> Require(seen.mode # "ap", Done(<< <<"qcom_power_set_mode", 1>> >>))
              [] OTHER -> Refused)

Driver(c) ==
    Require(c.argc = 3 /\ c.argv[2] \in {"up", "down"},
            Done(IF c.argv[2] = "up" THEN << <<"qcom_sys_reset">> >> ELSE <<>>))

SetTxPower(c) == Require(c.argc = 3, Done(<< <<"qcom_set_tx_power", Number(c.argv[2], 0)>> >>))

SuspStart(c, seen) ==
    Require(seen.mode # "ap" /\ c.argc = 3, Done(<< <<"qcom_suspend_start", atoi(c.argv[2])>> >>))

(* A negative number passes the test.                                       *)
AllowAggr(c) ==
    LET data == <<atoi(c.argv[2]), atoi(c.argv[3])>>
    IN  Require(c.argc = 4 /\ data[1] <= 255 /\ data[2] <= 255,
                Done(<< <<"qcom_allow_aggr_set_tid", U16(data[1]), U16(data[2])>> >>))

Promisc(c) == Require(c.argc = 3, Done(<< <<"qcom_promiscuous_enable", U8(atoi(c.argv[2]))>> >>))

swat_wmiconfig_misc_handle(c, seen) ==
    CASE c.argv[1] \in {"--help", "--rssi", "--version"} -> Done(<<>>)
      [] c.argv[1] = "--hostname" -> HostName(c)
      [] c.argv[1] = "--psram" -> Psram(c)
      [] c.argv[1] = "--i2c" -> I2c(c)
      [] c.argv[1] = "--wdt" -> Wdt(c)
      [] c.argv[1] = "--test" -> TestFlash(c)
      [] c.argv[1] = "--pmparams" -> PmParams(c)
      [] c.argv[1] = "--pwrmode" -> PwrMode(c, seen)
      [] c.argv[1] = "--driver" -> Driver(c)
      [] c.argv[1] = "--reset" -> Done(<< <<"qcom_sys_reset">> >>)
      [] c.argv[1] = "--settxpower" -> SetTxPower(c)
      [] c.argv[1] = "--suspend" -> Done(<< <<"qcom_suspend_enable", 1>> >>)
      [] c.argv[1] = "--suspstart" -> SuspStart(c, seen)
      [] c.argv[1] = "--allow_aggr" -> AllowAggr(c)
      [] c.argv[1] = "--promisc" -> Promisc(c)
      [] OTHER -> NotFound

-----------------------------------------------------------------------------
(* The commands: the table of shell_cmds.c.                                 *)

(* swat_wmiconfig_information: what it prints of the chip.  powermode is    *)
(* printed although the call that would set it is commented out.            *)
Information(c, seen) ==
    [mode |-> seen.mode,
     power |-> CASE c.junk = 1 -> "Power Save" [] c.junk = 2 -> "Max Perf" [] OTHER -> "Invalid"]

(* Every handler looks at the line, and the answers are added up: 0 prints  *)
(* that the command is unknown.                                             *)
Both(v, w) == [answer |-> v.answer + w.answer, calls |-> v.calls \o w.calls]

swat_wmiconfig_handle(c, seen) ==
    IF c.argc = 1
    THEN [answer |-> 0, calls |-> << <<"print", Information(c, seen)>> >>]
    ELSE Both(swat_wmiconfig_connect_handle(c, seen),
         Both(swat_wmiconfig_softAp_handle(c, seen),
         Both(swat_wmiconfig_wep_handle(c),
         Both(swat_wmiconfig_wpa_handle(c),
         Both(swat_wmiconfig_wps_handle(c),
         Both(swat_wmiconfig_ip_handle(c), swat_wmiconfig_misc_handle(c, seen)))))))

Returned(n, calls) == [answer |-> n, calls |-> calls]

swat_iwconfig_scan_handle(c) ==
    CASE c.argc = 2 -> Returned(0, << <<"qcom_scan_all_bss_start">> >>)
      [] c.argc = 3 -> Returned(0, << <<"qcom_scan_bss_start", c.argv[2]>> >>)
      [] OTHER -> Returned(-1, <<>>)

(* A host that is no address is asked of DNS, unless its name is too long.  *)
HostQuery(c) ==
    IF inet_aton(c.argv[1]) = <<>> /\ Len(c.argv[1]) <= 32
    THEN << <<"qcom_dnsc_get_host_by_name", c.argv[1]>> >> ELSE <<>>

(* Its address; host is what DNS answers, or <<>>.                          *)
HostAddress(c) ==
    IF inet_aton(c.argv[1]) # <<>> THEN inet_aton(c.argv[1])
    ELSE IF HostQuery(c) = <<>> THEN <<>> ELSE c.host

PingNames == <<"-c", "-s", "-i">>

(* DNS is asked before the options are read.  The numbers are unsigned: a   *)
(* negative one is larger than 7000.                                        *)
swat_ping_handle(c) ==
    LET options == Options(c, PingNames, FALSE)
        Value(k) == ValueOf(options, k, <<1, 64, 0>>[k])
        ping == <<"qcom_ip_ping", HostAddress(c), Value(2), Value(1), Value(3)>>
    IN  IF c.argc < 2 THEN Returned(-1, <<>>)
        ELSE IF HostAddress(c) = <<>> \/ ~options.ok \/ Value(2) \notin 0 .. 7000
        THEN Returned(-1, HostQuery(c))
        ELSE Returned(0, HostQuery(c) \o <<ping>>)

cmd_ota_fw_upgrade(c) ==
    IF c.argc < 4 THEN Returned(-1, <<>>)
    ELSE Returned(0, << <<"qca_ota_upgrade", _inet_addr(c.argv[1], c.junk), c.argv[2],
                          atoi(c.argv[3]), -1>> >>)

cust_cmds(c, seen) ==
    CASE c.argv[0] = "ping" -> swat_ping_handle(c)
      [] c.argv[0] = "wmiconfig" -> swat_wmiconfig_handle(c, seen)
      [] c.argv[0] = "iwconfig" -> swat_iwconfig_scan_handle(c)
      [] c.argv[0] = "ota_fw_upgrade" -> cmd_ota_fw_upgrade(c)
=============================================================================
