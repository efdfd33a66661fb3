-------------------------------- MODULE Wlan --------------------------------
(***************************************************************************)
(* The WLAN chip between its two users.  The cloud thread joins the        *)
(* configured network (QC_SetNetwork with QC_GetDhcp), and joins it again  *)
(* whenever its loop finds the link down; the shell's commands change the  *)
(* same chip at any moment.                                                *)
(*                                                                         *)
(* pc says what the cloud thread does next: "begin", "mode", "connect",    *)
(* "look" in QC_SetNetwork, "ask" and "check" in QC_GetDhcp, "dns" and     *)
(* "lookup" after it, "online" in the loop of QC_Cloudfunc.                *)
(*                                                                         *)
(* A command that asks the chip something first is typed in one step and   *)
(* executed in another, and the cloud thread may run in between.           *)
(***************************************************************************)
EXTENDS Wmiconfig

CONSTANTS Lines,        \* command lines, sequences of words
          Typed,        \* those typed while the cloud thread runs
          Leftovers,    \* what argv may hold past argc
          Junk,         \* what an unset variable may hold
          Hosts,        \* what DNS may answer the shell; <<>> is a failure
          MaxCommands, MaxLosses

VARIABLES chip,         \* the WLAN chip and its IP stack
          pc,
          cloudIp,      \* g_u32CloudIp is not 0
          shell,        \* the command being executed and what it has seen, or NoCommand
          typed,        \* commands typed so far
          losses        \* times the link was lost so far

wlanVars == <<chip, pc, cloudIp, shell, typed, losses>>

ASSUME WlanAssumption ==
    /\ Lines \cup Typed \subseteq Seq(STRING)
    /\ \A line \in Lines \cup Typed : line # <<>> /\ line[1] \in {"ping", "wmiconfig", "iwconfig", "ota_fw_upgrade"}

NoCommand == <<>>

(* watchdog: 0 disabled, 1 fed by a timer, 2 to be fed by the program.      *)
ChipAtReset ==
    [mode |-> "station", country |-> "US", joining |-> FALSE, link |-> FALSE,
     ip |-> NoAddress, dhcpc |-> FALSE, dnsc |-> FALSE, watchdog |-> 0]

WlanInit ==
    /\ chip = ChipAtReset
    /\ pc = "begin"
    /\ cloudIp = FALSE
    /\ shell = NoCommand
    /\ typed = 0
    /\ losses = 0

-----------------------------------------------------------------------------
(* The chip. *)

SetMode(ch, mode) ==
    IF ch.mode = mode THEN ch
    ELSE [ch EXCEPT !.mode = mode, !.joining = FALSE, !.link = FALSE]

AfterCall(ch, call) ==
    CASE call[1] = "qcom_op_set_mode" -> SetMode(ch, call[2])
      [] call[1] = "qcom_sta_connect_with_scan" ->
            [ch EXCEPT !.joining = (ch.mode = "station"), !.link = FALSE]
      [] call[1] = "qcom_disconnect" -> [ch EXCEPT !.joining = FALSE, !.link = FALSE]
      [] call[1] = "qcom_set_country_code" -> [ch EXCEPT !.country = call[2]]
      [] call[1] = "qcom_ip_address_set" -> [ch EXCEPT !.ip = call[2], !.dhcpc = FALSE]
      [] call[1] = "qcom_dhcpc_enable" -> [ch EXCEPT !.dhcpc = TRUE]
      [] call[1] = "qcom_dnsc_enable" -> [ch EXCEPT !.dnsc = (call[2] = 1)]
      [] call[1] = "qcom_watchdog" -> [ch EXCEPT !.watchdog = call[2]]
      [] call[1] = "qcom_sys_reset" -> ChipAtReset
      [] OTHER -> ch

After(ch, calls) ==
    LET after[k \in 0 .. Len(calls)] == IF k = 0 THEN ch ELSE AfterCall(after[k - 1], calls[k])
    IN  after[Len(calls)]

(* The access point takes the module in.                                    *)
Associate ==
    /\ chip.mode = "station" /\ chip.joining
    /\ chip' = [chip EXCEPT !.joining = FALSE, !.link = TRUE]
    /\ UNCHANGED <<pc, cloudIp, shell, typed, losses>>

LinkLost ==
    /\ chip.link /\ losses < MaxLosses
    /\ chip' = [chip EXCEPT !.link = FALSE]
    /\ losses' = losses + 1
    /\ UNCHANGED <<pc, cloudIp, shell, typed>>

(* The DHCP server answers, or the client takes a link-local address.       *)
LinkLocal == <<169, 254, 1, 1>>
Leased == <<192, 168, 0, 2>>
DhcpAnswers(ip) ==
    /\ chip.dhcpc
    /\ ip = Leased => chip.link
    /\ ip = LinkLocal => chip.ip # Leased
    /\ chip' = [chip EXCEPT !.ip = ip, !.dhcpc = FALSE]
    /\ UNCHANGED <<pc, cloudIp, shell, typed, losses>>

-----------------------------------------------------------------------------
(* The cloud thread. *)

Cloud(from, to, calls) == pc = from /\ pc' = to /\ chip' = After(chip, calls)

(* Mutant: the mode is set before the loop.                                 *)
SetNetworkModeOnce ==
    /\ \/ Cloud("begin", "connect", << <<"qcom_watchdog", 0, 60>>, <<"qcom_op_set_mode", "station">> >>)
       \/ Cloud("mode", "connect", <<>>)
       \/ Cloud("connect", "look", << <<"qcom_sta_connect_with_scan", "ssid">> >>)
       \/ chip.link /\ Cloud("look", "ask", << <<"qcom_ip_address_set", NoAddress>> >>)
       \/ ~chip.link /\ Cloud("look", "mode", << <<"qcom_disconnect">> >>)
    /\ UNCHANGED <<cloudIp, shell, typed, losses>>

QC_SetNetwork ==
    /\ \/ Cloud("begin", "mode", << <<"qcom_watchdog", 0, 60>> >>)
       \/ Cloud("mode", "connect", << <<"qcom_op_set_mode", "station">> >>)
       \/ Cloud("connect", "look", << <<"qcom_sta_connect_with_scan", "ssid">>,
                                      <<"qcom_sec_set_passphrase", "password">> >>)
       \/ chip.link /\ Cloud("look", "ask", << <<"qcom_ip_address_set", NoAddress>> >>)
       \/ ~chip.link /\ Cloud("look", "mode", << <<"qcom_disconnect">> >>)
    /\ UNCHANGED <<cloudIp, shell, typed, losses>>

HasAddress == chip.ip # NoAddress /\ SubSeq(chip.ip, 1, 2) # <<169, 254>>

QC_GetDhcp ==
    /\ \/ Cloud("ask", "check", << <<"qcom_dhcpc_enable", 1>> >>)
       \/ Cloud("check", IF HasAddress THEN "dns" ELSE "ask", <<>>)
    /\ UNCHANGED <<cloudIp, shell, typed, losses>>

(* The cloud's address is asked for until there is one, and once there is   *)
(* one it is kept.                                                          *)
FindCloud ==
    /\ \/ Cloud("dns", "lookup", << <<"qcom_dnsc_enable", 1>> >>) /\ UNCHANGED cloudIp
       \/ ~cloudIp /\ Cloud("lookup", "lookup", <<>>) /\ cloudIp' = (chip.dnsc /\ chip.link)
       \/ ~cloudIp /\ Cloud("lookup", "lookup", <<>>) /\ UNCHANGED cloudIp
       \/ cloudIp /\ Cloud("lookup", "online", << <<"qcom_watchdog", 2, 60>> >>) /\ UNCHANGED cloudIp
    /\ UNCHANGED <<shell, typed, losses>>

(* The end of a round of QC_Cloudfunc's loop.                               *)
QC_Cloudfunc ==
    /\ Cloud("online", IF chip.link THEN "online" ELSE "begin", <<>>)
    /\ UNCHANGED <<cloudIp, shell, typed, losses>>

CloudThread == QC_SetNetwork \/ QC_GetDhcp \/ FindCloud \/ QC_Cloudfunc

-----------------------------------------------------------------------------
(* The shell. *)

(* What a line may be to the code.                                          *)
CommandLines(line) ==
    {[argc |-> Len(line), junk |-> junk, host |-> host,
      argv |-> [i \in 0 .. Len(line) + 4 |-> IF i < Len(line) THEN line[i + 1] ELSE left]] :
        left \in Leftovers, junk \in Junk, host \in Hosts}

Verdicts(line, seen) == {cust_cmds(c, seen) : c \in CommandLines(line)}

Answers == [mode : {"station", "ap"}, country : {"US", "JP", "DE"}]

Asking == {"--connect", "--pwrmode", "--suspstart", "--channel"}
Asks(line) == line[1] = "wmiconfig" /\ Len(line) > 1 /\ line[2] \in Asking

Resets(calls) == \E k \in DOMAIN calls : calls[k][1] = "qcom_sys_reset"

Execute(line, seen) ==
    \E v \in Verdicts(line, seen) :
        /\ chip' = After(chip, v.calls)
        /\ IF Resets(v.calls) THEN pc' = "begin" /\ cloudIp' = FALSE ELSE UNCHANGED <<pc, cloudIp>>

Command(line) ==
    /\ shell = NoCommand /\ ~Asks(line) /\ typed < MaxCommands
    /\ typed' = typed + 1
    /\ Execute(line, chip)
    /\ UNCHANGED <<shell, losses>>

BeginCommand(line) ==
    /\ shell = NoCommand /\ Asks(line) /\ typed < MaxCommands
    /\ typed' = typed + 1
    /\ shell' = <<line, [mode |-> chip.mode, country |-> chip.country]>>
    /\ UNCHANGED <<chip, pc, cloudIp, losses>>

EndCommand ==
    /\ shell # NoCommand
    /\ Execute(shell[1], shell[2])
    /\ shell' = NoCommand
    /\ UNCHANGED <<typed, losses>>

(* The program feeds the watchdog only in the loop of QC_Cloudfunc, whose   *)
(* end disables it long before it expires.                                  *)
WatchdogBites ==
    /\ chip.watchdog = 2 /\ pc \notin {"online", "begin"}
    /\ chip' = ChipAtReset
    /\ pc' = "begin" /\ cloudIp' = FALSE
    /\ shell' = NoCommand
    /\ UNCHANGED <<typed, losses>>

-----------------------------------------------------------------------------
WlanNext ==
    \/ CloudThread
    \/ Associate \/ LinkLost
    \/ \E ip \in {LinkLocal, Leased} : DhcpAnswers(ip)
    \/ \E line \in Typed : Command(line) \/ BeginCommand(line)
    \/ EndCommand \/ WatchdogBites

WlanSpec == WlanInit /\ [][WlanNext]_wlanVars

(* The cloud thread and the shell are scheduled.  The network is there: a   *)
(* module that asks for it again and again is taken in, is given a lease,   *)
(* and finds the cloud's name in DNS.                                       *)
Fairness ==
    /\ WF_wlanVars(CloudThread) /\ WF_wlanVars(EndCommand)
    /\ SF_wlanVars(Associate)
    /\ SF_wlanVars(DhcpAnswers(Leased))
    /\ SF_wlanVars(FindCloud /\ cloudIp' # cloudIp)

FairSpec == WlanSpec /\ Fairness

-----------------------------------------------------------------------------
(* Correctness. *)

(* What the options of a line mean: an option stands at every second place  *)
(* from argv[2] on, and the last number given for it is the one that counts *)
(* (the loops of swat_parse.c:281-338 and 1270-1291).                       *)
OptionsAreRead(c, names, strict) ==
    LET read == Options(c, names, strict)
        places == {i \in 2 .. c.argc - 1 : i % 2 = 0}
        PlacesOf(k) == {i \in places : c.argv[i] = names[k]}
        Numbers(k) == {i \in PlacesOf(k) : i + 1 < c.argc /\ Scanned(c.argv[i + 1]) # <<>>}
        known == UNION {PlacesOf(k) : k \in DOMAIN names}
    IN  /\ read.ok <=> /\ \A i \in known : i + 1 < c.argc
                       /\ strict => places = known
        /\ read.ok => \A k \in DOMAIN names :
               /\ read.given[k] <=> PlacesOf(k) # {}
               /\ IF Numbers(k) = {} THEN read.value[k] = <<>>
                  ELSE \E last \in Numbers(k) :
                           /\ \A i \in Numbers(k) : i <= last
                           /\ read.value[k] = Scanned(c.argv[last + 1])

(* The network that is joined is the one whose name was typed, blanks and   *)
(* all, and no name longer than 32 characters is taken (swat_parse.c:87).   *)
NamesAreJoined(c) ==
    LET offset[i \in 2 .. c.argc] ==
            IF i = 2 THEN 0 ELSE offset[i - 1] + Len(c.argv[i - 1]) + 1
        name == Ssid(c)
    IN  c.argc > 3 =>
            /\ TooLong(c) <=> offset[c.argc] - 1 > 32
            /\ Len(name) = offset[c.argc] - 1
            /\ \A i \in 2 .. c.argc - 1 :
                  /\ SubSeq(name, offset[i] + 1, offset[i + 1] - 1) = c.argv[i]
                  /\ i > 2 => Char(name, offset[i]) = Blank

(* A word is an address if it is four numbers below 256 and three dots, and *)
(* both conversions make the same of it unless a number is padded beyond    *)
(* three digits (swat_parse.c:1142, swat_wmiconfig_network.c:10).           *)
AddressesAreRead(w, junk) ==
    LET Number255(first, last) ==
            first <= last /\ RunEnd(w, first) = last + 1 /\ RunValue(w, first) < 256
        dots == {i \in 1 .. Len(w) : Char(w, i) = "."}
        Splits(p, q, r) ==
            /\ p < q /\ q < r
            /\ Number255(1, p - 1) /\ Number255(p + 1, q - 1)
            /\ Number255(q + 1, r - 1) /\ Number255(r + 1, Len(w))
        Values(p, q, r) ==
            <<RunValue(w, 1), RunValue(w, p + 1), RunValue(w, q + 1), RunValue(w, r + 1)>>
    IN  IF \E p, q, r \in dots : Splits(p, q, r)
        THEN \E p, q, r \in dots :
                /\ Splits(p, q, r)
                /\ inet_aton(w) = Values(p, q, r)
                /\ (p < 5 /\ q - p < 5 /\ r - q < 5 /\ Len(w) - r < 4)
                      => _inet_addr(w, junk) = inet_aton(w)
        ELSE inet_aton(w) = <<>>

(* What reaches the chip: nothing of a line that is refused or unknown, but *)
(* for the name of a host, which ping asks of DNS before it reads the       *)
(* options, and no channel the country does not have.                       *)
Setting(line) == line[1] = "wmiconfig" /\ Len(line) > 1

HostAsked(line) == << <<"qcom_dnsc_get_host_by_name", line[2]>> >>

RefusedReachesNothing(line, v) ==
    /\ v.answer = -1 => \/ v.calls = <<>>
                        \/ line[1] = "ping" /\ Len(line) > 1 /\ v.calls = HostAsked(line)
    /\ Setting(line) => /\ v.answer \in {SWAT_NOFOUND, SWAT_OK, SWAT_ERROR}
                        /\ v.answer # SWAT_OK => v.calls = <<>>

ChannelsFit(calls, country) ==
    \A k \in DOMAIN calls : calls[k][1] = "qcom_set_channel" /\ calls[k][2] <= 14
                              => calls[k][2] \in 1 .. LastChannel(country)

OptionsMeanWhatTheySay(line, c) ==
    /\ Setting(line) /\ line[2] = "--pmparams" => OptionsAreRead(c, PmNames, TRUE)
    /\ line[1] = "ping" => OptionsAreRead(c, PingNames, FALSE)

WordsMeanWhatTheySay(line, c) ==
    /\ Setting(line) /\ line[2] = "--connect" => NamesAreJoined(c)
    /\ \A i \in 2 .. Len(line) : AddressesAreRead(line[i], c.junk)

LinesMeanWhatTheySay ==
    \A line \in Lines : \A c \in CommandLines(line) :
        /\ OptionsMeanWhatTheySay(line, c)
        /\ WordsMeanWhatTheySay(line, c)
        /\ \A seen \in Answers : \A v \in {cust_cmds(c, seen)} :
              RefusedReachesNothing(line, v) /\ ChannelsFit(v.calls, seen.country)

(* What a command has asked the chip when it is executed.                   *)
AnswersHold ==
    shell # NoCommand => /\ shell[2].country = chip.country
                         /\ shell[2].mode = "station" => chip.mode = "station"

(* Whatever is typed, and whatever lies in the memory the code reads        *)
(* without having set it: a line that is refused or unknown reaches no      *)
(* function of the chip (a refused ping may have asked DNS for its host,    *)
(* swat_parse.c:1252), a channel is set only if the country has it, and     *)
(* options, names and addresses mean what they say (swat_parse.c:42).  What *)
(* a command has asked the chip still holds when the command is executed,   *)
(* except that the cloud thread may have made a station of it: power is     *)
(* saved, and the board suspended, in no access point (swat_parse.c:377,    *)
(* 440).                                                                    *)
CommandsMeanWhatTheySay == LinesMeanWhatTheySay /\ AnswersHold

(* A link that is up when QC_GetDhcp begins stays up until the cloud's name *)
(* is resolved, and the DNS client is left alone: the loops of QC_GetDhcp   *)
(* and of the resolution look at neither.                                   *)
LinkHoldsWhileAsking ==
    [](/\ pc \in {"ask", "check", "dns", "lookup"} => chip.link
       /\ pc = "lookup" => chip.dnsc)

(* QC_SetNetwork brings the module back: whatever was typed before, and     *)
(* however often the link was lost, the cloud thread ends in its loop, in   *)
(* station mode with the link up (zc_qca_adpter.c:900).                     *)
JoinsTheNetwork ==
    LinkHoldsWhileAsking => <>[](pc = "online" /\ chip.link /\ chip.mode = "station")
=============================================================================
