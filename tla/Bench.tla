-------------------------------- MODULE Bench --------------------------------
(***************************************************************************)
(* The throughput tests of the shell: benchtx, benchrx and benchquit of    *)
(* swat_parse.c, the contexts of swat_bench_core.c and the four tasks of   *)
(* swat_bench_iniche_1.1.2.c, started and ended through TaskManager.       *)
(*                                                                         *)
(* A session is a task and a context: CALC_STREAM_NUMBER contexts for each *)
(* of the four kinds, taken by the shell before it starts the task and     *)
(* given back by the task before it exits.  All sessions share one flag,   *)
(* which benchquit sets and which every session clears when it starts.     *)
(*                                                                         *)
(* A socket is the task that opened it.  The address, the port, the delay  *)
(* and the times are left out, and so are the three end packets of a UDP   *)
(* transmit test, which no code of the program waits for: the loops that   *)
(* send them are bounded and touch nothing that is shared.                 *)
(*                                                                         *)
(* A turn of a loop is one step: it reads the flag and then makes calls    *)
(* that touch only what is the session's own, so that what another task    *)
(* does between the two it may as well do after them.  What nothing reads  *)
(* before it is set again is dropped early: the counters of a context when *)
(* the result is printed, its parameters when it is given back.            *)
(***************************************************************************)
EXTENDS TaskManager

CONSTANTS CALC_STREAM_NUMBER,  \* contexts of each kind
          KB,                  \* bytes of a kilobyte, 1024
          MaxPktSize,          \* the largest packet benchtx takes, 1400
          Sizes, Amounts,      \* packet sizes and packet counts a user types
          RxSize,              \* what one receive may return
          MaxBytes,            \* bound: bytes counted in a test without a packet count
          Mix                  \* bound: pairs of kinds that are started beside each other

ASSUME BenchAssumption ==
    /\ CALC_STREAM_NUMBER \in Nat \ {0} /\ KB \in Nat \ {0} /\ MaxBytes \in Nat
    /\ Sizes \subseteq Nat /\ Amounts \subseteq Nat /\ RxSize \in Nat \ {0}

TxKinds == {"tcpTx", "udpTx"}
Kinds == TxKinds \cup {"tcpRx", "udpRx"}
Streams == 0 .. CALC_STREAM_NUMBER - 1
Sessions == Threads \ Permanent

VARIABLES isUsed,        \* [Kinds -> [Streams -> BOOLEAN]]: tcpTxIndex and its likes
          cxt,           \* [Kinds -> [Streams -> context]]: cxtTcpTxPara and its likes
          timer,         \* [TxKinds -> [Streams -> [armed, stop]]]
          quitBenchVal,  \* benchquit was typed
          task,          \* [Sessions -> the task's kind, index and local variables]
          shell          \* the session the shell is starting: [kind, index]

benchVars == <<isUsed, cxt, timer, quitBenchVal, task, shell>>
vars == <<taskVars, benchVars>>

NoTask == [kind |-> "none", index |-> 0, pc |-> "none", sum |-> 0, pkts |-> 0, first |-> TRUE]
NoShell == [kind |-> "none", index |-> 0]
EmptyCxt == [mode |-> "time", size |-> 0, amount |-> 0, socket |-> None, client |-> None,
             buff |-> FALSE, bytes |-> 0, kbytes |-> 0]

Init ==
    /\ TaskInit
    /\ isUsed = [k \in Kinds |-> [i \in Streams |-> FALSE]]
    /\ cxt = [k \in Kinds |-> [i \in Streams |-> EmptyCxt]]
    /\ timer = [k \in TxKinds |-> [i \in Streams |-> [armed |-> FALSE, stop |-> FALSE]]]
    /\ quitBenchVal = FALSE
    /\ task = [t \in Sessions |-> NoTask]
    /\ shell = NoShell

-----------------------------------------------------------------------------
(* The shell.                                                               *)

\* The checks of swat_benchtx_handle.
ValidTx(size, amount) == size # 0 /\ size <= MaxPktSize /\ amount # 0

\* swat_database_initial and swat_database_set: the socket, the client and
\* the buffer of the context are not touched.
Configured(c, mode, size, amount) ==
    [c EXCEPT !.mode = mode, !.size = size, !.amount = amount, !.bytes = 0, !.kbytes = 0]

swat_cxt_index_find(k) ==
    {i \in Streams : ~isUsed[k][i] /\ \A j \in 0 .. i - 1 : isUsed[k][j]}

swat_cxt_index_configure(k, i) == isUsed' = [isUsed EXCEPT ![k][i] = TRUE]

swat_cxt_index_free(k, i) == isUsed' = [isUsed EXCEPT ![k][i] = FALSE]

BeginSession(k, mode, size, amount) ==
    /\ BeginStart
    /\ \A used \in Kinds \ {k} : (\E i \in Streams : isUsed[used][i]) => {k, used} \in Mix
    /\ \E i \in swat_cxt_index_find(k) :
          /\ swat_cxt_index_configure(k, i)
          /\ cxt' = [cxt EXCEPT ![k][i] = Configured(@, mode, size, amount)]
          /\ shell' = [kind |-> k, index |-> i]
    /\ UNCHANGED <<timer, quitBenchVal, task>>

swat_bench_tx_test ==
    \E k \in TxKinds, mode \in {"time", "packets"}, size \in Sizes, amount \in Amounts :
        ValidTx(size, amount) /\ BeginSession(k, mode, size, amount)

swat_bench_rx_test ==
    \E k \in Kinds \ TxKinds : BeginSession(k, "time", RxSize, 0)

\* The task gets its function and its argument when it is created.
ShellStarts ==
    /\ qcom_task_start
    /\ task' = IF \E t \in Sessions : kernel[t] = "none" /\ kernel'[t] = "ready"
               THEN [task EXCEPT ![start.thread] = [NoTask EXCEPT !.kind = shell.kind,
                                                        !.index = shell.index, !.pc = "open"]]
               ELSE task
    /\ UNCHANGED <<isUsed, cxt, timer, quitBenchVal, shell>>

\* Back in the shell: a start that failed gives the context back.
ShellStarted ==
    /\ EndStart
    /\ IF start.ret = "ok" THEN UNCHANGED <<isUsed, cxt>>
       ELSE /\ swat_cxt_index_free(shell.kind, shell.index)
            /\ cxt' = [cxt EXCEPT ![shell.kind][shell.index] = Configured(@, "time", 0, 0)]
    /\ shell' = NoShell
    /\ UNCHANGED <<timer, quitBenchVal, task>>

swat_benchquit_handle ==
    /\ start.at = "idle"
    /\ quitBenchVal' = TRUE
    /\ UNCHANGED <<taskVars, isUsed, cxt, timer, task, shell>>

-----------------------------------------------------------------------------
(* Steps of a session.                                                      *)

At(t, pc) == task[t].pc = pc /\ exit[t] = "no"
Goto(t, pc) == task' = [task EXCEPT ![t].pc = pc]
Cxt(t) == cxt[task[t].kind][task[t].index]
SetCxt(t, c) == cxt' = [cxt EXCEPT ![task[t].kind][task[t].index] = c]
Total(c) == c.kbytes * KB + c.bytes

\* Mutant: what is left of a kilobyte is lost.
CalcWithoutRest(c, n) ==
    IF c.bytes + n >= KB THEN [c EXCEPT !.bytes = 0, !.kbytes = c.kbytes + ((c.bytes + n) \div KB)]
    ELSE [c EXCEPT !.bytes = c.bytes + n]

swat_bytes_calc(c, n) ==
    [c EXCEPT !.bytes = (c.bytes + n) % KB, !.kbytes = c.kbytes + ((c.bytes + n) \div KB)]

Closed(c) == [c EXCEPT !.socket = None]
CalcReset(c) == [c EXCEPT !.bytes = 0, !.kbytes = 0]

\* Mutant: the socket stays open when it cannot be connected or bound.
OpenLeaks(t) ==
    /\ At(t, "open")
    /\ \/ SetCxt(t, [Cxt(t) EXCEPT !.socket = t]) /\ Goto(t, "init")
       \/ SetCxt(t, [Cxt(t) EXCEPT !.socket = t]) /\ Goto(t, "free")
    /\ UNCHANGED <<taskVars, isUsed, timer, quitBenchVal, shell>>

\* swat_socket, then swat_connect of a TCP transmit test or swat_bind of a
\* receive test, with the multicast option of a UDP one.
Open(t) ==
    /\ At(t, "open")
    /\ \/ SetCxt(t, [Cxt(t) EXCEPT !.socket = t]) /\ Goto(t, "init")
       \/ SetCxt(t, Closed(Cxt(t))) /\ Goto(t, "free")
    /\ UNCHANGED <<taskVars, isUsed, timer, quitBenchVal, shell>>

swat_bench_quit_init == quitBenchVal' = FALSE

TxInit(t) ==
    /\ At(t, "init") /\ task[t].kind \in TxKinds
    /\ swat_bench_quit_init
    /\ \/ SetCxt(t, [CalcReset(Cxt(t)) EXCEPT !.buff = TRUE])
          /\ Goto(t, IF Cxt(t).mode = "time" THEN "arm" ELSE "loop")
       \/ SetCxt(t, Closed(CalcReset(Cxt(t)))) /\ Goto(t, "free")
    /\ UNCHANGED <<taskVars, isUsed, timer, shell>>

swat_bench_timer_init(t) ==
    /\ At(t, "arm")
    /\ timer' = [timer EXCEPT ![task[t].kind][task[t].index] = [armed |-> TRUE, stop |-> FALSE]]
    /\ Goto(t, "loop")
    /\ UNCHANGED <<taskVars, isUsed, cxt, quitBenchVal, shell>>

\* swat_bench_tcp_timer_handler and swat_bench_udp_timer_handler.
TimerFires(k, i) ==
    /\ timer[k][i].armed
    /\ timer' = [timer EXCEPT ![k][i] = [armed |-> FALSE, stop |-> TRUE]]
    /\ UNCHANGED <<taskVars, isUsed, cxt, quitBenchVal, task, shell>>

\* The packets that were sent in full, counted with what was left over.
Packets(t, n) == task[t].pkts + ((task[t].sum + n) \div Cxt(t).size)

TxEnds(t, n) ==
    \/ Cxt(t).mode = "packets" /\ Packets(t, n) >= Cxt(t).amount
    \/ Cxt(t).mode = "time" /\ timer[task[t].kind][task[t].index].stop

TxSends(t, n) ==
    LET packets == Cxt(t).mode = "packets"
    IN /\ packets \/ Total(Cxt(t)) + n <= MaxBytes
       /\ SetCxt(t, swat_bytes_calc(Cxt(t), n))
       /\ task' = [task EXCEPT
             ![t].sum = IF packets THEN (@ + n) % Cxt(t).size ELSE @,
             ![t].pkts = IF packets THEN Packets(t, n) ELSE @,
             ![t].pc = IF TxEnds(t, n) THEN "close" ELSE "loop"]

\* The buffers of the stack are full (TCP), or the send failed (UDP): next turn.
TxSendsNothing(t) ==
    Goto(t, IF TxEnds(t, 0) THEN "close" ELSE "loop") /\ UNCHANGED cxt

TxFails(t) ==
    task[t].kind = "tcpTx" /\ Goto(t, "close") /\ UNCHANGED cxt

TxTurn(t) ==
    /\ At(t, "loop")
    /\ IF quitBenchVal THEN Goto(t, "close") /\ UNCHANGED cxt
       ELSE \/ \E n \in 1 .. Cxt(t).size : TxSends(t, n)
            \/ TxSendsNothing(t)
            \/ TxFails(t)
    /\ UNCHANGED <<taskVars, isUsed, timer, quitBenchVal, shell>>

\* The result is printed, the buffer freed and the socket closed.
TxClose(t) ==
    /\ At(t, "close")
    /\ SetCxt(t, [CalcReset(Closed(Cxt(t))) EXCEPT !.buff = FALSE])
    /\ Goto(t, "free")
    /\ UNCHANGED <<taskVars, isUsed, timer, quitBenchVal, shell>>

-----------------------------------------------------------------------------
RxInit(t) ==
    /\ At(t, "init") /\ task[t].kind \notin TxKinds
    /\ swat_bench_quit_init
    /\ \/ Goto(t, "wait")
       \/ task[t].kind = "tcpRx" /\ Goto(t, "end")      \* swat_listen fails
    /\ UNCHANGED <<taskVars, isUsed, cxt, timer, shell>>

\* Mutant: the flag is not read while a client or a packet is waited for.
RxWaitForever(t) ==
    /\ At(t, "wait")
    /\ \/ UNCHANGED task
       \/ Goto(t, IF task[t].kind = "tcpRx" THEN "accept" ELSE "reset")
    /\ UNCHANGED <<taskVars, isUsed, cxt, timer, quitBenchVal, shell>>

\* Two seconds pass, or a client or a packet is there.
RxWait(t) ==
    /\ At(t, "wait")
    /\ \/ quitBenchVal /\ Goto(t, "end")
       \/ ~quitBenchVal /\ UNCHANGED task
       \/ ~quitBenchVal /\ Goto(t, IF task[t].kind = "tcpRx" THEN "accept" ELSE "reset")
    /\ UNCHANGED <<taskVars, isUsed, cxt, timer, quitBenchVal, shell>>

StartsReceiving(t, c) ==
    /\ SetCxt(t, [CalcReset(c) EXCEPT !.buff = TRUE])
    /\ task' = [task EXCEPT ![t].pc = "data", ![t].first = TRUE]

\* The accept may fail, and so may the buffer of a client that was accepted.
RxAccept(t) ==
    /\ At(t, "accept")
    /\ \/ StartsReceiving(t, [Cxt(t) EXCEPT !.client = t])
       \/ SetCxt(t, [CalcReset(Cxt(t)) EXCEPT !.client = t]) /\ Goto(t, "stop")
       \/ UNCHANGED cxt /\ Goto(t, "end")
    /\ UNCHANGED <<taskVars, isUsed, timer, quitBenchVal, shell>>

\* swat_udp_rx_data clears the flag again, at each burst of packets.
UdpRxReset(t) ==
    /\ At(t, "reset")
    /\ swat_bench_quit_init
    /\ \/ StartsReceiving(t, Cxt(t))
       \/ SetCxt(t, CalcReset(Cxt(t))) /\ Goto(t, "wait")
    /\ UNCHANGED <<taskVars, isUsed, timer, shell>>

\* Nothing came for five minutes, the peer closed or the receive failed.
RxNothing(t) == Goto(t, "stop") /\ UNCHANGED cxt

TcpReceives(t) ==
    /\ task[t].kind = "tcpRx"
    /\ \E n \in 1 .. RxSize :
          Total(Cxt(t)) + n <= MaxBytes /\ SetCxt(t, swat_bytes_calc(Cxt(t), n))
    /\ Goto(t, "data")

\* A packet shorter than an end packet is ignored.
UdpIgnores(t) ==
    task[t].kind = "udpRx" /\ Goto(t, "data") /\ UNCHANGED cxt

\* A packet as long as an end packet counts only before the first longer one.
UdpReceives(t) ==
    /\ task[t].kind = "udpRx"
    /\ \E long \in BOOLEAN :
          /\ long \/ task[t].first
          /\ Total(Cxt(t)) + RxSize <= MaxBytes
          /\ SetCxt(t, swat_bytes_calc(Cxt(t), RxSize))
          /\ task' = [task EXCEPT ![t].pc = "data", ![t].first = @ /\ ~long]

\* The end packet: the statistics are sent back and its copies are read away.
UdpEnds(t) ==
    /\ task[t].kind = "udpRx" /\ ~task[t].first
    /\ Goto(t, "stop") /\ UNCHANGED cxt

RxTurn(t) ==
    /\ At(t, "data")
    /\ IF quitBenchVal THEN RxNothing(t)
       ELSE \/ RxNothing(t) \/ TcpReceives(t)
            \/ UdpIgnores(t) \/ UdpReceives(t) \/ UdpEnds(t)
    /\ UNCHANGED <<taskVars, isUsed, timer, quitBenchVal, shell>>

\* The buffer is freed and the client closed; the session waits for another.
RxStop(t) ==
    /\ At(t, "stop")
    /\ SetCxt(t, [CalcReset(Cxt(t)) EXCEPT !.buff = FALSE, !.client = None])
    /\ Goto(t, "wait")
    /\ UNCHANGED <<taskVars, isUsed, timer, quitBenchVal, shell>>

RxEnd(t) ==
    /\ At(t, "end")
    /\ SetCxt(t, Closed(Cxt(t)))
    /\ Goto(t, "free")
    /\ UNCHANGED <<taskVars, isUsed, timer, quitBenchVal, shell>>

-----------------------------------------------------------------------------
\* The context is given back first; a transmit test then cleans its timer.
FreeIndex(t) ==
    /\ At(t, "free")
    /\ swat_cxt_index_free(task[t].kind, task[t].index)
    /\ SetCxt(t, Configured(Cxt(t), "time", 0, 0))
    /\ Goto(t, IF task[t].kind \in TxKinds THEN "clean" ELSE "exit")
    /\ UNCHANGED <<taskVars, timer, quitBenchVal, shell>>

swat_bench_timer_clean(t) ==
    /\ At(t, "clean")
    /\ timer' = [timer EXCEPT ![task[t].kind][task[t].index].armed = FALSE]
    /\ Goto(t, "exit")
    /\ UNCHANGED <<taskVars, isUsed, cxt, quitBenchVal, shell>>

swat_task_delete(t) ==
    /\ At(t, "exit")
    /\ BeginExit(t)
    /\ task' = [task EXCEPT ![t] = [NoTask EXCEPT !.pc = "gone"]]
    /\ UNCHANGED <<isUsed, cxt, timer, quitBenchVal, shell>>

Exits(t) == qcom_task_exit(t) /\ UNCHANGED benchVars

Sweeps == qcom_task_timer_handler /\ UNCHANGED benchVars

\* A turn of a loop, and the steps that are outside the loops.
Turn(t) == TxTurn(t) \/ RxWait(t) \/ RxTurn(t)

Straight(t) ==
    \/ Open(t) \/ FreeIndex(t) \/ swat_bench_timer_clean(t) \/ swat_task_delete(t) \/ Exits(t)
    \/ TxInit(t) \/ swat_bench_timer_init(t) \/ TxClose(t)
    \/ RxInit(t) \/ RxAccept(t) \/ UdpRxReset(t) \/ RxStop(t) \/ RxEnd(t)

Next ==
    \/ swat_bench_tx_test \/ swat_bench_rx_test \/ swat_benchquit_handle
    \/ ShellStarts \/ ShellStarted
    \/ \E t \in Sessions : Turn(t) \/ Straight(t)
    \/ \E k \in TxKinds, i \in Streams : TimerFires(k, i)
    \/ Sweeps

Spec == Init /\ [][Next]_vars

\* What ends the loop a session is in.
StopSeen(t) ==
    quitBenchVal \/ (task[t].pc = "loop" /\ TxEnds(t, 0))

\* Every task runs in its turn (one priority, time slices), every call to the
\* stack returns, and a timer that is started fires.  No client comes, nothing
\* is received or sent and nobody types unless they want to.
Fairness ==
    /\ WF_vars(ShellStarts \/ ShellStarted)
    /\ \A t \in Sessions : WF_vars(Straight(t) \/ (StopSeen(t) /\ Turn(t)))
    /\ \A k \in TxKinds, i \in Streams : WF_vars(TimerFires(k, i))
    /\ WF_vars(Sweeps)

FairSpec == Spec /\ Fairness

-----------------------------------------------------------------------------
\* The sessions that work with a context.
Owners(k, i) ==
    {t \in Sessions : /\ task[t].kind = k /\ task[t].index = i
                      /\ task[t].pc \notin {"clean", "exit"}}

(* A context belongs to one session from its start until it is given back: *)
(* two sessions never work with one context, no session works with one    *)
(* that is free, and a free one holds no open socket, no client and no     *)
(* buffer, whatever step of the session failed.                            *)
StreamsAreExclusive ==
    \A k \in Kinds, i \in Streams :
        LET c == cxt[k][i] IN
        /\ Cardinality(Owners(k, i)) <= 1
        /\ Owners(k, i) # {} => isUsed[k][i]
        /\ {c.socket, c.client} \subseteq {None} \cup Owners(k, i)
        /\ c.buff => Owners(k, i) # {}

(* The two tallies of a transmit test agree at each turn of its loop: the  *)
(* kilobytes and bytes that are printed are the packets that end the test, *)
(* with the bytes that do not fill a packet yet.                           *)
CountsAgree ==
    \A t \in Sessions :
        task[t].pc \in {"loop", "close"} /\ Cxt(t).mode = "packets"
            => Total(Cxt(t)) = task[t].pkts * Cxt(t).size + task[t].sum

(* Once benchquit was typed every session ends, unless one clears the flag. *)
QuitEndsStreams ==
    quitBenchVal ~> (~quitBenchVal \/ \A k \in Kinds, i \in Streams : ~isUsed[k][i])

(* What the banner of a receive test says: typing benchquit terminates a   *)
(* test that waits for clients or packets, or receives.                    *)
BenchquitTerminatesTest ==
    \A t \in Sessions :
        (quitBenchVal /\ task[t].pc \in {"wait", "data"}) ~> task[t].pc = "gone"

(* What the usage of benchtx says: a test in time mode lasts some seconds. *)
TimedTestEnds ==
    \A t \in Sessions :
        (task[t].pc = "loop" /\ Cxt(t).mode = "time") ~> task[t].pc # "loop"

=============================================================================
