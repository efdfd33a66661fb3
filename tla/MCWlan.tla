------------------------------- MODULE MCWlan -------------------------------
(* Instance of Wlan: every command with arguments missing, right, wrong and *)
(* too many, option lists of up to five words, names of up to 33            *)
(* characters, and addresses of every kind.                                 *)
EXTENDS Wlan

W(command, args) == {<<"wmiconfig", command>> \o a : a \in args}

Words(S, n) == UNION {[1 .. k -> S] : k \in 0 .. n}

Long == "a-network-with-28-characters"

MCAddresses == {"10.0.0.1", "10.0.0.256", "0.0.0.0", "1.2.3", "1.2.3.4.5", "1.2.3.", "1..2.3",
                "0001.2.3.4", "255.255.300.0", "host"}

MCLines ==
    W("--connect", Words({"net", "a b", "1234", Long}, 3))
    \cup W("--disc", {<<>>}) \cup {<<"wmiconfig">>} \cup W("--nonsense", {<<>>, <<"1">>})
    \cup W("--mode", Words({"ap", "station", "hidden", "wps", "x"}, 2))
    \cup W("--channel", {<<>>} \cup {<<n>> : n \in {"0", "1", "11", "12", "13", "14", "15", "16", "165",
                                                    "166", "183", "197", "-1", "x"}})
    \cup W("--wmode", {<<>>} \cup {<<n>> : n \in {"a", "b", "g", "n", "ht40", "x"}})
    \cup W("--listen", Words({"100"}, 2)) \cup W("--scanctrl", Words({"0", "2"}, 3))
    \cup W("--setscanpara", Words({"65537", "x"}, 2))
    \cup W("--ap", {<<>>, <<"x">>, <<"bconint">>, <<"country", "JPX">>, <<"country", "DE">>,
                    <<"country">>, <<"inact", "70000">>, <<"bconint", "100">>})
    \cup W("--wepkey", Words({"1", "5", "x"}, 2)) \cup W("--wep", Words({"4", "0"}, 2))
    \cup W("--p", Words({"secret"}, 2)) \cup W("--wpa", Words({"1"}, 4))
    \cup W("--wps", Words({"pin", "push", "1"}, 2)
                    \cup {<<"1", "pin", "12345678">>, <<"1", "pin", "123456789">>, <<"1", "none", "1">>})
    \cup W("--ipstatic", {<<"1.2.3.4">>, <<"1.2.3.4", "255.0.0.0", "1.2.3.1">>})
    \cup W("--ipdhcp", {<<>>}) \cup W("--ipconfig", {<<>>})
    \cup W("--ip_gethostbyname", Words({"host"}, 1))
    \cup W("--ip_dns_client", Words({"start", "stop", "x"}, 1))
    \cup W("--ip_dns_server_addr", {<<>>} \cup {<<a>> : a \in MCAddresses})
    \cup W("--ip_dns_delete_server_addr", Words({"1.2.3.4", "0.0.0.0"}, 1))
    \cup W("--ipdhcppool", Words({"1.2.3.4"}, 3))
    \cup W("--help", {<<>>})
    \cup W("--hostname", Words({"get", "set", "x"}, 2)) \cup W("--psram", Words({"read", "write", "8"}, 3))
    \cup W("--i2c", {<<"read", "8">>, <<"write", "8", "9">>, <<"x", "8">>, <<"read">>})
    \cup W("--wdt", {<<"2">>, <<"2", "5">>})
    \cup W("--test", {<<>>, <<"spi_flash">>, <<"spi_flash", "read", "9", "4">>, <<"spi_flash", "read", "8", "4">>})
    \cup W("--pmparams", Words({"--idle", "--np", "70000"}, 4) \cup Words({"--dp", "x"}, 4))
    \cup W("--pwrmode", {<<>>, <<"0">>, <<"1">>, <<"2">>, <<"x">>})
    \cup W("--driver", Words({"up", "down", "x"}, 2)) \cup W("--reset", {<<>>})
    \cup W("--settxpower", Words({"17"}, 2)) \cup W("--suspend", {<<>>}) \cup W("--suspstart", Words({"9"}, 2))
    \cup W("--allow_aggr", Words({"1", "256", "-1"}, 2)) \cup W("--promisc", Words({"257"}, 2))
    \cup {<<"iwconfig", "scan">> \o a : a \in Words({"net"}, 2)}
    \cup {<<"ping">> \o a : a \in {<<>>} \cup {<<w>> : w \in MCAddresses}}
    \cup {<<"ping", "host">> \o a : a \in Words({"-c", "-s", "7001"}, 2)} \cup {<<"ping", Long \o Long>>}
    \cup {<<"ping", "10.0.0.1">> \o a : a \in Words({"-c", "-s", "7001"}, 4)}
    \cup {<<"ota_fw_upgrade">> \o a : a \in Words({"10.0.0.1", "1"}, 3)}

(* What changes the chip, and what asks it something.                       *)
MCTyped ==
    W("--connect", {<<"net">>}) \cup W("--disc", {<<>>})
    \cup W("--mode", {<<"ap">>, <<"station">>}) \cup W("--channel", {<<"12">>})
    \cup W("--ap", {<<"country", "DE">>}) \cup W("--ipdhcp", {<<>>})
    \cup W("--ipstatic", {<<"1.2.3.4", "255.0.0.0", "1.2.3.1">>, <<"0.0.0.0", "0.0.0.0", "0.0.0.0">>})
    \cup W("--ip_dns_client", {<<"start">>, <<"stop">>}) \cup W("--wdt", {<<"0", "5">>, <<"2", "5">>})
    \cup W("--pwrmode", {<<"1">>}) \cup W("--suspstart", {<<"9">>}) \cup W("--reset", {<<>>})

MCHosts == {<<>>, <<8, 8, 8, 8>>}
=============================================================================
