# TLA+ models of the ZC cloud module

The program under `src/demos/sdk_shell` turns a QCA WLAN chip into a cloud
module: an MCU talks to it over a UART, it talks to a cloud server over TCP and
to LAN clients over TCP and UDP, and it forwards messages between them. This
directory models its core, checks it with TLC and proves parts of it with TLAPS.

## The system

Paths are relative to `src/demos/sdk_shell/`. `sdk_shell.c:30-43` starts
everything: one *cloud thread* (`QC_Cloudfunc`), one *UART thread*
(`QC_CloudUartfunc`), both of priority 16 and time sliced; *timer callbacks*
(`QC_timer_callback`) come from the SDK. There are no locks anywhere: all three
contexts work on the same global `g_struProtocolController`.

| component | state | operations | correct when |
|---|---|---|---|
| protocol controller, `ZC/src/zc/zc_protocol_controller.c` | `u8MainState`, session key, timer handles, retransmission buffer and counter, sockets, OTA offsets | `PCT_Run`, handshake handlers, `PCT_HandleEvent`, disconnect and reconnect, sleep and wake up | sessions go through their phases in order; every wait ends; nothing of one session reaches the next; the MCU knows whether there is one |
| timers, `zc_timer.c` | table of 10 slots | find, allocate, stop, time out | a running slot and the handle of its type always belong together |
| message queue, `zc_message_queue.c` | rings of receive and send queue, receive buffer, two send buffers | init, push, pop, reassembly, send | FIFO; a buffer is in at most one place |
| module manager, `zc_moudle_manager.c` | UART reassembly buffer, client session reply | messages of the MCU, options, registration | each message is handled once and answered to whom it came from |
| client manager, `zc_client_manager.c` | four client slots, busy id, client buffer | connect, disconnect, receive, listen, sleep | a reply goes to the client that asked; slots do not leak |
| cloud events, `zc_cloud_event.c` | none | builds and parses messages | lengths, options and checksum agree (not the checksum of an answer to a client) |
| security engine, `zc_sec_engine.c` | key, vectors | encrypt, decrypt, padding | nothing under AES without a key; lengths are checked before sealing |
| configuration, `zc_configuration.c` | `g_struZcConfigDb`, a flash sector | store token, registration, access, connection, parameters | flash holds the old or the new configuration |
| broadcast, `zc_bc.c` | `u16SendBcNum` | announce, answer queries | bounded announcements after registration |
| adapter, `zc_qca_adpter.c` | sockets, UART send buffer, flash partition | loop of the cloud thread, WLAN, sockets, firmware update, flash, UART | the loop closes the right socket and never stalls |
| TFTP update, `ota.c` | partition table, download state | download, verify, swap | the partition booted is complete |
| task table, `swat_task_manage.c` | ten tasks | create, exit, mark by name, recycle | a slot belongs to one task while it runs; memory is freed once it has ended |
| throughput tests, `swat_bench_*.c`, `swat_parse.c` | contexts, counters, a quit flag, sockets | start, transmit, receive, quit | a context belongs to one session; counts agree; quitting ends tests |
| settings commands, `swat_parse.c`, `swat_wmiconfig_*.c` | none; the WLAN chip | one per option of `wmiconfig`, `iwconfig`, `ping`, `ota_fw_upgrade` | a line does what it says or nothing; the module still joins its network |
| arithmetic and ciphers, `ZC/src/tropicssl/`, `aes/` | limbs, key schedules | bignum, RSA, AES, CBC | exact; AES is the standard; what is sealed can be opened |

Interaction: the cloud thread calls the controller (`PCT_Run`), which calls back
through the table of functions `PTC_ModuleAdapter`. The UART thread calls
`ZC_RecvDataFromMoudle`, which changes the controller's state directly, as timer
callbacks do. Data flows through the queues: cloud -> receive buffer ->
receive queue -> `PCT_HandleEvent` -> MCU; MCU, timers, handlers -> send queue
-> cloud thread -> TCP.

Hard behaviour: three contexts without locks; a loop that remembers a socket at
its top and uses it at its end, with blocking calls in between; timer handles
that survive their timers; a session that can be ended by the cloud, a timer, the
WLAN, a firmware update, a reset of the network or a reset of the chip;
retransmissions. `PROJECT.json` lists the hazards at their lines.

## Modules

| module | models |
|---|---|
| `Timers` | `zc_timer.c` with the handles of the controller, as operators on one value `[slot, handle]` |
| `ProtocolController` | `zc_protocol_controller.c` in its environment: the cloud thread's loop, timer callbacks, messages of the MCU, the cloud, the WLAN, resets |
| `CloudSession` | abstract specification: phases, link, key and outbox of a session |
| `ProtocolControllerRefinement` | the mapping from the controller to `CloudSession` |
| `ClientManager` | `zc_client_manager.c` and the client part of `QC_CloudRecvfunc` |
| `Lan` | extends `ClientManager`: the MCU's answers to clients on the UART thread, and the broadcasts of `zc_bc.c` |
| `SendPath` | `PCT_SendMsgToCloud`, `MSG_PushMsg`, `MSG_PopMsg`, `MSG_SendDataToCloud`, statement by statement |
| `SendChannel` | abstract specification of the send queue: a bounded FIFO, which `SendPath` implements |
| `UartAssembly` | `ZC_AssemblePkt`, `ZC_Moudlefunc` and the UART thread's reads |
| `CloudAssembly` | `MSG_RecvData`: the cloud's TCP stream cut into messages |
| `UartTx` | `QC_SendDataToMoudle` and `QC_SendUartData`, statement by statement |
| `Downlink` | composes `CloudAssembly` and `UartTx`: the way of a message from the cloud to the MCU |
| `UpdatePartition` | the flash: firmware updates by cloud and MCU, the stored settings, loss of power |
| `OtaTftp` | `ota.c`: the TFTP download into a partition, its checksum, retries, the partition table |
| `MpiArith` | `bignum.c` with the multiplication of `bn_mul.h`: numbers as limbs, copied, compared, added, subtracted, multiplied |
| `BigNum`, `ModArith` | extend it: reading, writing, shifts and division; the modular half |
| `Rsa`, `Aes` | `rsa.c`; `aes_core.c` and `aes_cbc.c` |
| `SecEngine` | extends them: `zc_sec_engine.c`, padding, length checks, sealing and opening |
| `Messages` | extends `SecEngine`: the messages of the protocol byte by byte (`zc_cloud_event.c`, `crc.c`, `zc_bc.c`, the options of `zc_moudle_manager.c`) |
| `TaskManager` | `swat_task_manage.c`: the table of tasks |
| `Bench` | extends `TaskManager`: `benchtx`, `benchrx`, `benchquit` and the four kinds of sessions |
| `Wmiconfig` | the settings commands: one operator per command, from the words of a line to the calls of the `qcom` library |
| `Wlan` | extends `Wmiconfig`: the WLAN chip between the shell and the cloud thread that joins the network |
| `MC...` | values for TLC |
| `..._proofs` | theorems and proofs about the module of that name; `ProtocolController_proofs` also about `Timers` and `ProtocolControllerRefinement`, `TaskManager_proofs` about `Bench`; `MessagePath_proofs` about `UartAssembly` and `SendPath`; `Network_proofs` about `ClientManager`, `Lan`, `Wmiconfig` and `Wlan` |

`ProtocolController` composes timers, queues and sessions. The others refine what
it abstracts: `SendPath` is its `sendQ` (one step there, eight here), `CloudAssembly`
its `recvBuf`, `UartAssembly` says which of the MCU's messages reach it and `UartTx`
how its own reach the MCU, `Lan` is the other half of `QC_CloudRecvfunc`,
`UpdatePartition` is what lies behind its OTA messages and its resets, `SecEngine` says when
encryption and decryption succeed, `Messages` what its messages look like, and `Wlan` is
its first step, the setting up of the network.

### How `ProtocolController` corresponds to the code

*State.* `mainState` is `u8MainState`, `keyRecv` is `u8keyRecv`, `timers` the
slot table and the five handles, `u32Socket` the cloud socket of the controller,
`openFds` the cloud sockets open in the TCP/IP stack, `connFd` and `fd` the
locals of `QC_ConnectToCloud` and `QC_Cloudfunc`, `pc` the position of the cloud
thread. `recvBuf`, `recvQ`, `sendQ` are the receive buffer, the length of the
receive queue (all its entries are the one receive buffer) and the kinds of the
messages in the send queue (a send buffer is busy exactly while it is queued).
`mcuView` is the last of the two cloud status notifications given to
`QC_SendDataToMoudle`: what the MCU believes.

*Steps.* The cloud thread gives up the processor at `qcom_select`, `qcom_connect`,
`qcom_thread_msleep` and `qcom_send`; these are the boundaries of its steps, listed
with the values of `pc` in the header of the module. A handler between two of them is one step with
everything it calls: `RecvAccessMsg4` restarts the heart timer because
`PCT_RecvAccessMsg4` does at its end. A timer callback and the handling of one
MCU message are one step each and may come between any two steps of the cloud
thread. Preemption inside a handler (time slicing, statement by statement) is
not in this module; see *Plan*.

*Abstractions.* A cloud message is what `PCT_Run` tells apart: its code, its
security type, whether its CRC is right and whether it echoes our random bytes.
Decrypting a message under RSA may succeed or fail, under AES it succeeds with
the key. Offsets and contents of a firmware update are left out; a chunk may be
accepted or refused and the end may fail (`QC_FirmwareUpdateFinish` has no return
statement, so either result is possible). `EXT_REBOOT` and `REST` reset the chip
in one step. A reset keeps what the MCU was told, closes everything else, and
reads any configured `u32SecSwitch` from flash. `u32ConnectionTimes`, the server address,
LAN clients and broadcasts do not influence this state and are left out.

### How the other modules correspond to the code

*`ClientManager`.* One step is one socket event of `QC_CloudRecvfunc` with
everything the handler does. `occupied` and `clientFd` are the table
(`u32ClientVaildFlag`, `u32ClientFd`), `busyId` and `states` the client that has the only
client buffer, `senders` (a history variable) whose bytes are in it. `RecvDataFromClient` has a
disjunct per outcome of `ZC_RecvDataFromClient`; lengths and contents are abstracted to the
choice between them. A failing `qcom_accept` puts -1 into the table, as the code does.

*`SendPath`.* `pc` holds, for each context, the next access to shared memory in
`PCT_SendMsgToCloud` or `MSG_SendDataToCloud`; the compiler may read the tail again or
not in the two assignments of `MSG_PushMsg`, so both are possible. One connection: `MSG_Init`
is not interleaved. Encryption fails or not.

*`UartAssembly`.* A byte is its position in the MCU's stream, so `from` and `pos` stand
for the buffer's contents, `left` for the bytes of the read still to be handled. One
step is one call of `ZC_Moudlefunc`, which calls itself for the rest. The magic
does not occur inside of a frame; CRC errors are not modelled. `Reset` is the cloud thread
emptying the buffer when it loses the connection.

*`UpdatePartition`.* The partition is a function from cells to what they hold;
lengths are in cells of one magic word. A chunk is checked and the partition erased in
one step and written in another, settings are written cell by cell, so that the power
may be lost in between (`Boot`). The sender of a file, outside the program, repeats what was
not answered, may begin again, and ends a file only when every chunk was answered: this is
assumed, and the magic word depends on it. `QC_FirmwareUpdateFinish` returns no value.

*`OtaTftp`.* One step of the client is one turn of the loop in `_ota_tftp`. A block is
its number; a server (external) starts a transfer at a port of its own for each
request it gets, and UDP loses, delays and reorders. The partition is erased by the
first block and written at `total_rx_bytes` for every block that is *new*, that
is, whose number is not that of the last one. Whether the
download is complete is a comparison of lengths: exact if every block lies at its place, and
otherwise left open, as the first and the last block are shorter than the rest. MD5 tells
different contents apart.

*`Lan`.* `asked` holds the sessions the MCU may answer, each with the descriptor it was
forwarded with and, as history, whether that client has left; `answering` is the one the
UART thread has looked up and not yet sent. `silence` and `sendBcNum` are
`g_u32BcSleepCount`'s turns and `u16SendBcNum`.

*`CloudAssembly`, `UartTx`, `Downlink`.* A byte of the stream is its position, the stream
is given by where its messages end, and a byte for the MCU is its frame and index. What follows a complete message in the same read is
dropped, as in the code; the next header is then read in the middle of a message and may
show any length in `Garbage`. Every statement that reads or writes `g_u16UartSendLen` is a
step: an append is the check, the copy of the magic flag, its count, the copy of the data and its count
(`CheckLen`, `CopyFlag`, `CountFlag`, `CopyData`, `CountData`), so a flush may send a flag before
the data behind it. `collided` becomes true when two contexts meet in one of the windows in
which the code loses or mixes bytes, and behaviours are followed up to there: two appends, two flushes,
the last test of a flush while an append is anywhere between its check and its last count, and
the check of an append while a flush is about to reset. The last two windows reach from the check on because the compiler may
keep the length it has read there. The copies and counts come in the order of the source; a build that stored a
new length before the copy it counts would not keep `FramesReachTheMcu`.

*`MpiArith`, `BigNum`, `ModArith`, `Rsa`, `Aes`, `SecEngine`.* Functions without state: a behaviour calls one
after another with arguments from small sets, and `job` is the call; what the code returns is a
function of it (`Combined`, `Divided` ... `Sealed`), which the properties, about each step that makes
a call, compare with its definition. Pointers may alias in the code, so a function that writes an mpi
takes a *memory* and the names of its arguments. The width of a limb is a parameter,
since TLC's integers have 32 bits: runs use limbs of 8 bits and, for RSA, bytes of 2, which
keeps every length of the program in bytes and limbs (a key of 256 bits is eight limbs, the array of
an mpi 20). AES works on whole bytes. `LONGLONG`, `FULL_UNROLL` and `AES_ASM`
are not defined in the build, so the portable variants are modelled. `MpiArith` writes its loops as recursive
functions, to prove about them; a carry that is 0 may stop them in the code, and then no limb would change.
`CarriedInto` is the loop of `mpi_add_abs` that carries on, which loses a carry as the code does.

*`Messages`.* Calls like those of `SecEngine`: a client's message is opened, gets its session as
the first option, is read by the MCU, answered, stripped and sealed again; with bursts of
errors in between. `stale` are the four bytes that the buffer of an answer holds where its
checksum is taken from (see the disagreements).

*`TaskManager`, `Bench`.* A section between `TSK_SEM_LOCK` and `TSK_SEM_UNLOCK` is one step,
and so is every access outside of it. A thread is a number, a name the counter it was made
from. Two programs start tasks: the UART thread's stays in slot 0 and the
shell's in slot 1. `Bench` runs sessions as tasks; one turn of a test's loop
is one step. Addresses, delays and times are left out.

*`Wmiconfig`, `Wlan`.* Here words are strings, because the commands are about text: a handler takes the
words of a line and what the chip answers, and returns its answer and the calls it made, in
order. Words of `argv` past `argc` and unset variables come from small sets. `Wlan` applies the calls to
`chip`; a command that asks the chip first is typed in one step and executed in another.
`pc` is the cloud thread in `QC_SetNetwork`, `QC_GetDhcp`, the resolution of the cloud's
name and the end of `QC_Cloudfunc`'s loop.

## Runs

| run | question |
|---|---|
| `controller` | Do timers, sessions, sockets, the MCU's view and retransmissions stay in order under every interleaving? |
| `sessions` | With encryption on, is nothing queued that needs a key which is gone, and is every behaviour one of `CloudSession`? Under fairness, does a handshake end, a disconnected module try again, a message to the MCU not wait forever? |
| `clients` | Does no socket of the LAN leak, is the busy client connected, the buffer one client's at a time, an answer the right client's, are broadcasts bounded? |
| `sendpath` | With one context that queues, do ring and buffers implement the FIFO of `SendChannel`, is each full buffer in one place, and free again some time? |
| `sendpath_race` | Is an empty ring empty when two contexts queue? (*violation*) |
| `uart` | However frames are cut and coalesced, is each handled once, and do two frames of their own resynchronise? |
| `downlink` | Does what a patient cloud sends reach the MCU once, in order and whole, beside the notices of three contexts? |
| `update` | Is what boots one complete firmware, is what was answered stored, do the settings survive? |
| `tftp` | Does a bootable partition hold one whole image with the right checksum, is success reported exactly then, does the active image stay bootable, does the update end? |
| `crypto` | Is the arithmetic exact, AES the standard (against FIPS 197's vectors and its definition), is what is sealed opened again, do questions and answers arrive whole (but for an answer's checksum), are damaged messages refused? |
| `bench` | Do tasks keep their slots, contexts their session, counters agree; does quitting end tests, and the memory of ended tasks come back? |
| `wlan` | Does every command do what its line says or nothing (but that a refused `ping` may have asked DNS for its host), and does the module join its network whatever was typed? |

The properties and the code they are about are described where they are defined,
in the last section of each module. Several are conjunctions of named parts (`SessionsAreClean`,
`SocketsOfTheLanAreOwned`, `FramesAreHandledOnce`, `FirmwareIsStored`,
`BootableIsReported`), each part defined before it. Every property of a passing run is
broken by a mutant of a definition (operators whose comment says *mutant*, listed in
`PROJECT.json`). The type invariants `TypeOK` are proved, but for `SendPath`'s, which its run
checks as a part of `BuffersAreFreed`.

*Bounds.* No run has a state constraint.

- *Controller.* `ZC_TIMER_MAX_NUM` is 6 (10 in the code): a callback starts the next timer
  before its own slot is freed, so that five types need six slots; more slots only rename
  states, and the proofs cover 6 to 255. Two descriptors: one socket is open at a
  time, so with two the new one may or may not be the old one again, which is the
  case that matters for the remembered `fd`. Queue lengths, send buffers and
  retransmissions have the values of the code. The messages of the cloud cover every code, good
  and damaged handshake messages, and one message that AES cannot decrypt yet.
- *Clients.* Two slots (4 in the code) and four descriptors: the table overflows and
  numbers are reused. One session the MCU remembers at a time (`MaxAsked`) and one broadcast after
  one turn of silence (300 and 15000 in the code); the proofs cover every value.
- *Send path.* The ring and the buffers have the code's size; message numbers wrap
  at 4, more than can wait at once.
- *UART.* Every stream of four frames of 3 (a bare head), 5 and 8 bytes, the last too long for
  a buffer of 7; every read of 1 to 8 bytes.
- *Partition.* Ten cells with the settings in the last three; files of 5 and 7 units; chunks up to 3.
- *TFTP.* Three blocks (first, middle, last), two transfers, one packet in each channel,
  one block sent again by each transfer, one more attempt and one timeout in a row (2 and 3
  in the code). Blocks arrive out of order because two transfers run at once; reordering inside
  of one transfer takes two packets in a channel and is covered by the proofs only.

- *Downlink.* A stream of three messages of 2 and 3 bytes and one of two of 4 and 5, for a buffer of 4, read in
  segments of 1 to 4; a UART buffer of 5 with frames of a flag of 1 and data of 1, one notice, one lost connection.
- *Crypto.* Operands at the edges of limbs (0, 1, half, all ones), of unequal lengths with leading zeros, and
  divisors on both sides of where estimates of digits become too low; moduli of one to three limbs, one
  RSA pair of eight limbs, texts of 0 to 43 bytes around one and two blocks of AES and RSA, keys of all three
  sizes. Payloads of 0 to 584 bytes around a block, 256 and the client buffer.
- *Bench.* One context of each kind, a table of four tasks (two are permanent), two sessions in turn or
  beside each other, packet sizes from none to one too large, one kilobyte of two bytes.
- *WLAN.* Every command with arguments missing, right, wrong and too many (`Lines`), of which those
  that change the chip or ask it (`Typed`) are typed up to two at a time while the
  link is lost up to once.

Deadlock is checked except for `tftp`, `downlink` and `bench`, where updates, streams and
sessions end.

*Fairness.* `ProtocolController`: the cloud thread is scheduled (the UART thread has the
same priority and sleeps in every turn), `qcom_connect` returns, the reboot ends, and a
timer that is not stopped expires. Nothing is assumed of the MCU, of the cloud, of the
WLAN coming back or of the sniffer. `SendPath`: the cloud thread goes on with its loop, and a
context that has begun to queue a message finishes, since threads share the
processor by time slices; nobody has to begin. `OtaTftp`: the loop of the client goes on,
because `qcom_select` returns with a packet or a timeout; nothing is assumed of server and
network. `Downlink`: both threads go on, and the UART takes bytes again and again
(strong fairness of a flush that writes some); the cloud need not send. `Bench`: the shell
finishes a start, a session's straight-line code and the turn in which it sees the flag
go on, timers fire; no packet has to arrive. `Wlan`: the cloud thread and a command that was begun
go on; strong fairness of the access point, of DHCP and of DNS, which answer in the end when
asked again and again, since without them no module is online.

## Disagreements between the code and its comments

`sendpath_race` is a run that TLC finds violated, with the trace to read:
`zc_message_queue.c:103` takes `head == tail` for "no msg". The UART thread and the cloud
thread both push without a lock. In the trace they find the same send buffer idle and read the same tail; the
cloud thread stores its message, advances the tail and pops the message, and then the UART
thread stores its own into the node it has read, which the head has passed, and sets the tail to the next one,
where it is already. The ring looks empty, a message lies in one node and one send buffer is full. The
same races can leave both buffers full with an empty-looking ring, in a longer behaviour than the one TLC shows.

The following are stated in the modules too, and have no run of their own; TLC finds
each violated when its property is added to the configuration named.

1. `SettingsAreKept`, `UpdatePartition.cfg` with a file of 9 units: `zc_qca_adpter.c:260` promises not to erase
   the last sector, which has the settings, but nothing compares the length of the file with the room before it.
2. `RequestsAreServed`, `OtaTftp.cfg`: `ota.c:618` says "reset TFTP client and retry". The server's
   port stays that of the transfer that ended and `pkt_seq_last` stays the last block.
3. `OkIsActive`, `OtaTftp.cfg`: `ota.c:596` says "do partition table entry swap if needed". The swap reads
   one entry twice, and each change is undone by loading the table again.
4. `BenchquitTerminatesTest`, `Bench.cfg`: `swat_bench_iniche_1.1.2.c:762` prints "Type benchquit to terminate
   test". Every session clears the one flag when it starts, and each burst of UDP packets does (511).
5. `TimedTestEnds`, `Bench.cfg`: `swat_parse.c:949-950` offers a test in time mode. The index of a test is
   given back before its timer is cleaned (733), which may be the next test's by then.
6. `TaskResourceRecycle`, `Bench.cfg`: the memory of a task that exits before its creator notes
   its start (`swat_task_manage.c:229`) is not given back by the next recycling.
7. `AnswersHaveTheirChecksum`, `SecEngine.cfg`: `PCT_CheckCrc` (`zc_protocol_controller.c:30-46`), and the MCU's
   and the client's messages, have a checksum of the bytes after the head. That of an answer to a client is
   taken at offset 8 of `g_u8MsgBuildBuffer` (`zc_moudle_manager.c:78`), where the head is copied only
   afterwards (83) and which the body follows at 12 (64-76): it covers four bytes of whatever was built or opened there
   before and misses the last four of the body. `MessagesAreIntact` therefore asks for the length, the options and
   the bytes of an answer, and for the checksum only of what the MCU gets.

Oddities met while modelling, which the modules follow and no property is about:

- *Messages.* `EVENT_BuildOption` called with both options would write the session over the transport
  option; it never is. The length of an answer to a client has 8 bits (`zc_qca_adpter.c:45`), so that answers
  of 256 bytes and more are cut. The CRC does not cover the head. The query check of `ZC_RecvDataFromClient` compares
  six bytes of the domain. The reserved byte of `ZC_SecHead` is not set.
- *Arithmetic.* The second loop of `mpi_add_abs` advances its pointer only where it grows the number
  (`bignum.c:625-635`): a carry out of the first limb above the addend's is added to that limb again. With limbs
  of 8 bits `ffffff + 1` is `ff0100`. No call of the program meets it: of those it makes, only the one in `rsa_private`
  (205) adds numbers of one sign, and its addend is 0 or the larger (`mpi_inv_mod` and `mpi_gen_prime` serve
  `rsa_gen_key`, which nothing calls). `mpi_div_mpi` shifts the
  divisor until one bit of its top limb is free (917-923); the estimate of a digit that is built without
  `TROPICSSL_HAVE_LONGLONG` (`secconfig.h:63`, 943-988) wants none free. When the limb then ends in `fffd` or more, an
  estimate may be far too low, and the remainder larger than the divisor; `mpi_mod_mpi` corrects it by subtracting
  the divisor (1071-1073), possibly billions of times. An RSA modulus that begins with `ffffffff` is such a divisor.
  `mpi_is_prime` takes the trailing zeros of `W` before it sets `W`, so that only a Fermat test is
  made, and accepts 1. `mpi_cmp_mpi` errs when it compares a number with a longer one of the opposite sign (541-574). `mpi_gcd(A, 0)` is 0,
  `mpi_inv_mod` modulo 1 does not end, and `mpi_div_mpi` in place loses the sign of a negative dividend. The program
  calls none of them so.
- *Security.* `SEC_PaddingCheck` is exact for AES and none and too small for RSA; the initial vectors are never
  updated; decrypting no bytes reads the byte before the output.
- *Tasks.* `mark_exit_task` compares the names of blocks that `tx_thread_create` may still be filling
  (`swat_task_manage.c:83`, 204-220).
- *Commands.* A name of exactly 32 characters is terminated behind `ssid[32]`, and none at all writes
  `ssid[-1]` (`swat_parse.c:95-113`). `_inet_addr` tests an unsigned for `< 0`, and fields up to 999 run into the byte before.
  `(i % 2) == 0` in the parsing of `--pmparams` is always true, as is `argc > 2 || argc <= 8` in that of
  `ping`. `--hostname set`, `--psram write` and `--test` read words that were not typed. `swat_wmiconfig_handle`
  has paths without a return value.
- *Network.* `QC_GetDhcp` and the resolution of the cloud's name loop until they are served and never look at
  the link, with the watchdog off; the address is resolved once and kept.

## Proofs

The proofs are for all values of the constants that the named assumptions of the modules
allow. A listed theorem is an invariant, an action property or a refinement of the module's specification
(`LanSpec` in `Lan`, `WlanSpec` in `Wlan`, `UartSpec` in `UartAssembly`), or, in `MpiArith_proofs`, says what a
function computes.

| theorem | property |
|---|---|
| `ProtocolController_proofs` | |
| `TypeCorrect` | `TypeOK` |
| `TimersSafe` | `TimersCoherent`, `TimersFitState`, `WaitsAreTimed` |
| `SessionsSafe` | `SessionsAreClean` |
| `SocketsSafe` | `SocketsAreOwned`, `LoopPosition` |
| `RetriesCounted` | `RetriesPerMessage` |
| `KeyGuardsQueue`, `Refinement` | `NothingQueuedWithoutKey`, `RefinesSession` |
| `Network_proofs` | |
| `ClientsTyped`, `ListeningServed` | `TypeOK`, `ListeningIsServed`, of `ClientManager` alone |
| `LanSocketsSafe`, `LanBusyConnected`, `LanBufferOwned`, `AnswersReach`, `BroadcastsSpaced` | all of the run `clients` |
| `AnswersStillHold`, `CommandsMean` | `AnswersHold` and `CommandsMeanWhatTheySay`, the invariant of the run `wlan` |
| `MessagePath_proofs` | |
| `TypeCorrect`, `HandledOnce`, `AllArrive`, `Recovers` | `UartTypeOK` and all of the run `uart` |
| `SendPathTyped` | `TypeOK`, whoever queues messages |
| `FullBuffersHaveOnePlace`, `SendQueueIsAFifo` | `BuffersAreAccounted` and `ImplementsChannel`, with one context that queues |
| `UpdatePartition_proofs` | |
| `UpdateTyped`, `StoresFirmware`, `KeepsSettings` | `TypeOK` and all of the run `update` |
| `OtaTftp_proofs` | |
| `TftpTyped`, `BootsReported`, `KeepsActive`, `StoresInOrder` | `TypeOK` and all invariants of the run `tftp` |
| `Downlink_proofs` | |
| `FramesArrive`, `PacedMessagesInOrder` | `FramesReachTheMcu` and `PacedInOrder`, the safety half of `PacedMessagesArrive` |
| `TaskManager_proofs` | |
| `RunningTasks`, `FreedMemory`, `BenchImplementsTaskSpec` | `RunningTasksKeepTheirSlot` and `FreedMemoryIsOfExited`; every step of `Bench` is one `TaskManager` allows |
| `StreamsExclusive`, `TalliesAgree` | `StreamsAreExclusive`, `CountsAgree` |
| `MpiArith_proofs` | what `NumbersAreExact` of the run `crypto` says of these functions, for every width of a limb |
| `MagnitudesAreCompared`, `NumbersAreCompared`, `SignsAreTested` | `mpi_cmp_abs`, `mpi_cmp_mpi`, `mpi_cmp_int` order numbers, but for the case listed above |
| `MagnitudesAreAdded`, `LargeAddendsLoseNothing` | `mpi_add_abs` is the sum of the magnitudes less a lost carry; when none is lost |
| `SumsAre`, `DifferencesAre`, `SumsAreExact` | `mpi_add_mpi`, `mpi_sub_mpi` with that carry, and when they are exact |
| `MultiplicationIsExact`, `IntegersAreExact` | `mpi_mul_mpi`; the three functions with an integer as argument |

*Controller.* The first lemmas state what each timer operation does to `Coherent`,
`Armed` and `Running`: e.g. `SetTimer` finds a slot whenever fewer types run than
there are slots, which needs a counting argument (`IdleSlotExists`). The inductive
invariant `IndInv` is the conjunction of the invariants of the run `controller`. None
is inductive alone: `SocketsAreOwned` needs `LoopPosition` (the socket remembered at
the loop's top is still the controller's after `PCT_Run`), `LoopPosition` needs
`TimersFitState` (no reconnection timer runs while connecting), `TimersFitState` needs
`TimersCoherent` (stopping by handle stops the right slot), and `WaitsAreTimed` needs
the bound on `Running` for a slot to be free. One lemma per action, and under each one
step per conjunct the action can disturb. The refinement assumes `0 \notin SecSwitches`: with
encryption off messages are queued without a key, by design.

*Clients.* The invariants of `ClientManager` are inductive together: that the busy client is
connected needs that its socket is in one slot only. `LanClients` carries them over to `Lan`, whose
other steps leave the table alone; that an answer reaches its client needs, in addition,
that what the MCU was asked by a connected client names a descriptor in the table. `BroadcastsSpaced` is an
action property: `CountLagsSilence` says that the counter of `ZC_SendBc` never runs ahead of the
turns since the last broadcast, although the controller sets it back at moments of its own.

*Send path.* `SendQueueIsAFifo` assumes that one context queues messages (`OnePusher`), which may be the cloud
thread itself; the run `sendpath_race` shows that two break it. Every full buffer is in one place, so
that one being pushed is not in the ring, and by counting (`Room`) the ring has a node for it. The
abstract queue is the ring's contents with the message that is being pushed or sent. The proof follows each
statement of the two routines, and each is a step of `SendChannel` or a stutter. `SendPathTyped`
needs no such assumption.

*UART.* `InStep` (as long as nothing was thrown away the buffer begins at a frame)
carries `EveryFrameArrives`; `WholeFrames` (a frame read on its own is at hand as a whole)
carries `Resynchronises`.

*Partition.* Assumes `FilesFit`, what the code does not check. `ChunkIsNext` and
`NoMagicMeanwhile` carry `BootableIsComplete`: the first chunk erases the magic word, and it is
not written before the last chunk was answered. `RecordInWork`, that each cell
of the settings is right or about to be written, carries `SettingsAreKept`, also when both threads
write at once.

*TFTP.* Until a block was stored only the first can be on its way (`FirstIsFirst`), so
that the partition is erased before anything is stored, and has the old image or
no magic word while the download runs (`FlashInWork`). `StoredInOrder` needs `OneTransfer`: the server is at the
block that was stored last or at the next one, the blocks on their way to the client increase by at most one from
the stored to the server's, and no acknowledgement on its way is ahead of it. So a block that is not the stored
one's number is the next, for channels of any length.

*Downlink.* `UartInv`: up to a collision one flush at most is going on, the place it has reached in the
buffer fits what it does next, one context at most is appending and none while a flush is about to reset
(`OneAppend`), a context that has found room for its frame still has it (`RoomIsKept`), and what it has copied and
not yet counted lies behind the bytes that count (`IsCopied`). What was
written and what waits in the buffer then *spell* the frames: each byte is followed by the next of its frame, or
by the first of the next frame (`ByteAfter`). It is said byte by byte, since a concatenation of all frames is a fold
that the provers cannot unfold. `DownInv`: with a cloud that waits, the buffer holds what was read of the
message after the last one handled, from its first byte, and the frame of the message being
forwarded is the youngest of all. Both were checked with TLC on the instance of the run first.

*Tasks.* A slot is marked by name, so the invariant says where a thread that has a name stands, that
these names are those of starts that were counted, and that no two are equal. It assumes fewer than 256
starts (`NamesAssumption`), since a name is made from a counter of 8 bits. `BenchImplementsTaskSpec` shows
that the throughput tests use the table only through steps of `TaskSpec`, and carries the invariant over.
`BenchInv` says, for every statement a session can be at, what its context holds and how its tallies stand
(`Fits`), that no two sessions work with one context, and that the context the shell has taken is
free until the task it is for runs. `StreamsAreExclusive` and `CountsAgree` follow from it.

*Commands.* What a line means is a function of its words, the country, and what the code reads without having set
it; it is computed by recursive functions: along the options, the digits of a number, the words of a name
and the calls to be made. The prover cannot unfold these by itself, and the induction theorems of its library
take a predicate as a parameter, which it cannot instantiate. `SetInduction` says the same of a set, from the
least element of its complement, and with it each of these functions is shown to exist and to satisfy its equations
(e.g. `OptionsRead`, `NamesJoined`, `AddressesRead`). `VerdictsHold` then goes through the handlers: a line selects at most
one, since the words they begin with differ, and each refuses before it calls, but `ping`, which asks DNS for its host first. The invariant is `WlanInv`:
beside `AnswersHold`, that only lines of `Typed` are being executed and that the chip keeps its fields. Between asking
and acting, the cloud thread makes no call that changes the country, and sets no mode but the
station's. `CommandsMean` supposes of the words that they are sequences of characters (`WordsAreText`), as
strings are in TLA+ and in TLC; the provers take a string for a constant without parts.

*Arithmetic.* TLC computes with limbs of 8 bits; the code's have 32, which it cannot represent. The proofs are for limbs of any even width, numbers of any length, arrays of any size and
any of the arguments the same (but `X = A = B`, which no caller writes). One limb at a time, `AddStep`, `SubStep`
and `MulStep` show that limb and carry together are the sum, difference or product. A loop is a recursive
function: `LoopExists` shows that there is one that satisfies its equation, for any such function of a number and
a state, and `LoopInduction` that a set which is not left by a turn holds every limb. With `Weight`, `Partial` and `Value`, what the limbs
below the k-th stand for, the induction is an equation: e.g. after k limbs of `mpi_add_abs`, sum and carry
are the partial sums of the arguments (`SumBelow`). Every function is then shown to write its result and no other number but its
locals (`Computes`), and to fail only for lack of room. `Lost` is the exact carry that is lost.

Proving changed the model in four places. The loops of `mpi_add_abs` were one that carried on to the end, which is what
they are meant to do; when its exactness was proved, reading the loop beside the proof showed that its pointer stays, so
that model, property and proof now have the lost carry. The function behind `inet_aton` was applied outside of its domain, so that its value was
not determined; it now finds the four beginnings of the fields first. In six commands, guards of a CASE could hold
together, which TLA+ resolves by a choice and the code by the order of its tests; they are now exclusive. And
`Options` is the value of `OptionsFrom` at the first option, to speak about the rest of a line.

Only model-checked: the liveness properties, with the second half of `PacedMessagesArrive` (fairness and `ENABLED`
are beyond the prover), and, of the run `crypto`, all but `MpiArith`: division, shifts, modular arithmetic, RSA, AES and the messages are
written with RECURSIVE operators, which the prover does not read.

## Not modelled

The OTA daemon demo, the SDK's start-up and driver tests, headers, images and build tools: I/O
around the closed `qcom` library or data. Of modelled parts: conversions of numbers to and from text and the self
test of `bignum.c`; `swat_check_time`, `qcom_task_kill_all` and `task_yield`, unused;
`benchdbg`, help texts and printing; `swat_wmiconfig` options behind `#ifdef`s that are not defined. `console_setup`
is commented out in `sdk_shell.c`; the shell is modelled as the SDK starts it. The server's name and `u32ConnectionTimes` are
abstracted in every module. Two contexts that meet in one of the unlocked windows of the UART buffer are not followed
further, `MSG_Init` is one step, and a reset of the UART buffer falls between two calls of `ZC_Moudlefunc`, not inside of
one.

## Plan

What is left, in this order:

1. `SendPath` with `MSG_Init` at any statement.
2. `UartTx` beyond a collision, with every mixture of bytes the build can produce.
3. An abstract specification of the module as its MCU sees it, over `Downlink` and `ProtocolController`.
