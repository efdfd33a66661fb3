----------------------------- MODULE TaskManager -----------------------------
(***************************************************************************)
(* The table of user tasks of swat_task_manage.c: MAX_TASK_NUM slots, each *)
(* with the control block (thr) and the stack of a thread, a status and    *)
(* the cell that holds its name.  A task ends itself with qcom_task_exit,  *)
(* which only marks its slot; its memory is given back by whoever comes    *)
(* next: the start of a task, the exit of another one, or a timer of the   *)
(* shell that runs every three seconds.                                    *)
(*                                                                         *)
(* A section between TSK_SEM_LOCK and TSK_SEM_UNLOCK is one step, and so   *)
(* is every statement that touches the table or the kernel outside it.     *)
(* qcom_task_del holds no lock; it is one step because what it does to one *)
(* slot concerns no other, and no code reads whether a thread was deleted. *)
(* A thread is a number, a new one for each start; thrStack[i] is set and  *)
(* cleared with thr[i] and is not kept apart.                              *)
(***************************************************************************)
EXTENDS Naturals, FiniteSets

CONSTANTS MAX_TASK_NUM,   \* slots of the table
          MaxThreads      \* bound: threads ever filled into the table

\* The UART thread is in slot 0 from the start and the shell in slot 1.
ASSUME TaskAssumption ==
    /\ MAX_TASK_NUM \in Nat \ {0, 1}
    /\ MaxThreads \in Nat \ {0, 1}

\* The 256th task bears the name of the first, whose slot is then marked when
\* it exits: what is said of the table holds until then.
ASSUME NamesAssumption == MaxThreads <= 255

Slots == 0 .. MAX_TASK_NUM - 1
Threads == 1 .. MaxThreads
Permanent == {1, 2}
None == 0
NoSlot == MAX_TASK_NUM

VARIABLES thr,         \* [Slots -> thread whose control block the slot holds, or None]
          thrStatus,   \* [Slots -> {"null", "created", "exited"}]
          taskName,    \* [Slots -> the character of the name, 0 when empty]
          taskId,      \* starts that succeeded
          filled,      \* threads ever filled into the table
          slotOf,      \* [Threads -> slot whose name cell the thread's name is]
          kernel,      \* [Threads -> what ThreadX knows of it]
          freed,       \* threads whose control block and stack were freed
          exit,        \* [Threads -> how far it is in qcom_task_exit]
          start,       \* qcom_task_start in the shell: [at, taskIdx, thread, ret]
          sweep        \* qcom_task_timer_handler: "idle" or "free"

taskVars == <<thr, thrStatus, taskName, taskId, filled, slotOf, kernel, freed, exit, start, sweep>>
tableVars == <<thr, thrStatus, taskName>>

NotStarting == [at |-> "idle", taskIdx |-> 0, thread |-> None, ret |-> "ok"]

\* '0' + taskId % 255, stored in a char: the 209th name is the empty one.
NameOf(id) == (48 + (id % 255)) % 256

TaskTypeOK ==
    /\ thr \in [Slots -> {None} \cup Threads]
    /\ thrStatus \in [Slots -> {"null", "created", "exited"}]
    /\ taskName \in [Slots -> 0 .. 255]
    /\ taskId \in Nat /\ filled \in 0 .. MaxThreads
    /\ slotOf \in [Threads -> Slots \cup {NoSlot}]
    /\ kernel \in [Threads -> {"none", "ready", "terminated", "deleted"}]
    /\ freed \in SUBSET Threads
    /\ exit \in [Threads -> {"no", "del", "lock", "terminate", "done"}]
    /\ start \in [at : {"idle", "del", "claim", "alloc", "fill", "create", "status", "errout", "done"},
                  taskIdx : Slots, thread : {None} \cup Threads, ret : {"ok", "failed"}]
    /\ sweep \in {"idle", "free"}

TaskInit ==
    /\ thr = [i \in Slots |-> IF i + 1 \in Permanent THEN i + 1 ELSE None]
    /\ thrStatus = [i \in Slots |-> IF i + 1 \in Permanent THEN "created" ELSE "null"]
    /\ taskName = [i \in Slots |-> IF i + 1 \in Permanent THEN NameOf(i) ELSE 0]
    /\ taskId = Cardinality(Permanent) /\ filled = Cardinality(Permanent)
    /\ slotOf = [t \in Threads |-> IF t \in Permanent THEN t - 1 ELSE NoSlot]
    /\ kernel = [t \in Threads |-> IF t \in Permanent THEN "ready" ELSE "none"]
    /\ freed = {}
    /\ exit = [t \in Threads |-> "no"]
    /\ start = NotStarting
    /\ sweep = "idle"

-----------------------------------------------------------------------------
\* Mutant: the last slot is never looked at.
FreeableButLast == {i \in Slots \ {MAX_TASK_NUM - 1} : thrStatus[i] = "exited" /\ thr[i] # None}

Freeable == {i \in Slots : thrStatus[i] = "exited" /\ thr[i] # None}

\* The table after free_task_mem.
ThrFreed == [i \in Slots |-> IF i \in Freeable THEN None ELSE thr[i]]
StatusFreed == [i \in Slots |-> IF i \in Freeable THEN "null" ELSE thrStatus[i]]
NameFreed == [i \in Slots |-> IF i \in Freeable THEN 0 ELSE taskName[i]]
MemoryFreed == freed \cup {thr[i] : i \in Freeable}

free_task_mem ==
    /\ thr' = ThrFreed /\ thrStatus' = StatusFreed /\ taskName' = NameFreed
    /\ freed' = MemoryFreed

\* tx_thread_delete succeeds on a thread that is terminated.
qcom_task_del ==
    kernel' = [t \in Threads |-> IF kernel[t] = "terminated" /\ \E i \in Freeable : thr[i] = t
                                 THEN "deleted" ELSE kernel[t]]

\* The first slot that holds nothing; none when the table is full.
get_empty_task_index(table) ==
    {i \in Slots : table[i] = None /\ \A j \in 0 .. i - 1 : table[j] # None}

\* The slot mark_exit_task marks for a thread: the first one whose thread
\* bears its name.  A block that tx_thread_create has not filled yet is memory
\* fresh from the heap; what the code reads there is taken to be no task's name.
Marked(t) ==
    LET bearing == {i \in Slots : /\ ThrFreed[i] # None
                                  /\ slotOf[ThrFreed[i]] # NoSlot
                                  /\ NameFreed[slotOf[ThrFreed[i]]] = NameFreed[slotOf[t]]}
    IN {i \in bearing : \A j \in bearing : i <= j}

-----------------------------------------------------------------------------
(* qcom_task_start, called in the shell.                                    *)

\* A caller of qcom_task_start.  When there is no memory left it is called
\* only to find the table full.
BeginStart ==
    /\ start.at = "idle"
    /\ filled < MaxThreads \/ get_empty_task_index(ThrFreed) = {}
    /\ start' = [NotStarting EXCEPT !.at = "del"]
    /\ UNCHANGED <<tableVars, taskId, filled, slotOf, kernel, freed, exit, sweep>>

StartDel ==
    /\ start.at = "del"
    /\ qcom_task_del
    /\ start' = [start EXCEPT !.at = "claim"]
    /\ UNCHANGED <<tableVars, taskId, filled, slotOf, freed, exit, sweep>>

\* No slot is empty: errout frees nothing and clears nothing.
StartClaim ==
    /\ start.at = "claim"
    /\ free_task_mem
    /\ \/ \E i \in get_empty_task_index(ThrFreed) :
             start' = [start EXCEPT !.at = "alloc", !.taskIdx = i]
       \/ /\ get_empty_task_index(ThrFreed) = {}
          /\ start' = [start EXCEPT !.at = "done", !.ret = "failed"]
    /\ UNCHANGED <<taskId, filled, slotOf, kernel, exit, sweep>>

\* mem_alloc of the stack or of the control block may fail; MaxThreads bounds
\* the blocks there is memory for.
StartAlloc ==
    /\ start.at = "alloc"
    /\ \/ filled < MaxThreads /\ start' = [start EXCEPT !.at = "fill"]
       \/ start' = [start EXCEPT !.at = "errout", !.ret = "failed"]
    /\ UNCHANGED <<tableVars, taskId, filled, slotOf, kernel, freed, exit, sweep>>

StartFill ==
    /\ start.at = "fill"
    /\ filled' = filled + 1
    /\ thr' = [thr EXCEPT ![start.taskIdx] = filled + 1]
    /\ taskName' = [taskName EXCEPT ![start.taskIdx] = NameOf(taskId)]
    /\ start' = [start EXCEPT !.at = "create", !.thread = filled + 1]
    /\ UNCHANGED <<thrStatus, taskId, slotOf, kernel, freed, exit, sweep>>

\* The thread runs from here on, before its creator has noted it.
StartCreate ==
    /\ start.at = "create"
    /\ slotOf' = [slotOf EXCEPT ![start.thread] = start.taskIdx]
    /\ kernel' = [kernel EXCEPT ![start.thread] = "ready"]
    /\ start' = [start EXCEPT !.at = "status"]
    /\ UNCHANGED <<tableVars, taskId, filled, freed, exit, sweep>>

StartCreateFails ==
    /\ start.at = "create"
    /\ start' = [start EXCEPT !.at = "errout", !.ret = "failed"]
    /\ UNCHANGED <<tableVars, taskId, filled, slotOf, kernel, freed, exit, sweep>>

\* Mutant: starts are not counted, so that tasks share a name.
StartStatusUncounted ==
    /\ start.at = "status"
    /\ thrStatus' = [thrStatus EXCEPT ![start.taskIdx] = "created"]
    /\ start' = [start EXCEPT !.at = "done"]
    /\ UNCHANGED <<thr, taskName, taskId, filled, slotOf, kernel, freed, exit, sweep>>

StartStatus ==
    /\ start.at = "status"
    /\ thrStatus' = [thrStatus EXCEPT ![start.taskIdx] = "created"]
    /\ taskId' = taskId + 1
    /\ start' = [start EXCEPT !.at = "done"]
    /\ UNCHANGED <<thr, taskName, filled, slotOf, kernel, freed, exit, sweep>>

\* What was allocated is freed, and the slot is cleared unless it is slot 0.
StartErrout ==
    /\ start.at = "errout"
    /\ freed' = IF start.thread = None THEN freed ELSE freed \cup {start.thread}
    /\ thr' = IF start.taskIdx > 0 THEN [thr EXCEPT ![start.taskIdx] = None] ELSE thr
    /\ start' = [start EXCEPT !.at = "done"]
    /\ UNCHANGED <<thrStatus, taskName, taskId, filled, slotOf, kernel, exit, sweep>>

qcom_task_start ==
    \/ StartDel \/ StartClaim \/ StartAlloc \/ StartFill
    \/ StartCreate \/ StartCreateFails \/ StartStatus \/ StartErrout

-----------------------------------------------------------------------------
(* qcom_task_exit, called by a task of itself.                              *)

\* A task that calls qcom_task_exit.
BeginExit(t) ==
    /\ kernel[t] = "ready" /\ exit[t] = "no"
    /\ exit' = [exit EXCEPT ![t] = "del"]
    /\ UNCHANGED <<tableVars, taskId, filled, slotOf, kernel, freed, start, sweep>>

ExitDel(t) ==
    /\ exit[t] = "del"
    /\ qcom_task_del
    /\ exit' = [exit EXCEPT ![t] = "lock"]
    /\ UNCHANGED <<tableVars, taskId, filled, slotOf, freed, start, sweep>>

\* The memory of older tasks is freed and the own slot marked under one lock.
ExitMark(t) ==
    /\ exit[t] = "lock"
    /\ thr' = ThrFreed /\ taskName' = NameFreed /\ freed' = MemoryFreed
    /\ thrStatus' = [i \in Slots |-> IF i \in Marked(t) THEN "exited" ELSE StatusFreed[i]]
    /\ exit' = [exit EXCEPT ![t] = "terminate"]
    /\ UNCHANGED <<taskId, filled, slotOf, kernel, start, sweep>>

ExitTerminate(t) ==
    /\ exit[t] = "terminate"
    /\ kernel' = [kernel EXCEPT ![t] = "terminated"]
    /\ exit' = [exit EXCEPT ![t] = "done"]
    /\ UNCHANGED <<tableVars, taskId, filled, slotOf, freed, start, sweep>>

qcom_task_exit(t) == ExitDel(t) \/ ExitMark(t) \/ ExitTerminate(t)

-----------------------------------------------------------------------------
(* qcom_task_timer_handler, every three seconds.                            *)

SweepDel ==
    /\ sweep = "idle"
    /\ qcom_task_del
    /\ sweep' = "free"
    /\ UNCHANGED <<tableVars, taskId, filled, slotOf, freed, exit, start>>

SweepFree ==
    /\ sweep = "free"
    /\ free_task_mem
    /\ sweep' = "idle"
    /\ UNCHANGED <<taskId, filled, slotOf, kernel, exit, start>>

qcom_task_timer_handler == SweepDel \/ SweepFree

\* qcom_task_start returns.
EndStart ==
    /\ start.at = "done"
    /\ start' = NotStarting
    /\ UNCHANGED <<tableVars, taskId, filled, slotOf, kernel, freed, exit, sweep>>

TaskNext ==
    \/ BeginStart \/ qcom_task_start \/ EndStart
    \/ \E t \in Threads \ Permanent : BeginExit(t) \/ qcom_task_exit(t)
    \/ qcom_task_timer_handler

\* What a program that starts and ends tasks may do.
TaskSpec == TaskInit /\ [][TaskNext]_taskVars

-----------------------------------------------------------------------------
(* Only the memory of a task that has called qcom_task_exit, or of a start *)
(* that failed, is ever freed: marking by name, the status that a slot     *)
(* still has from its last task, and freeing in a start, an exit and a     *)
(* timer at once never hit a task that runs.                               *)
FreedMemoryIsOfExited ==
    \A t \in freed : kernel[t] = "none" \/ exit[t] \in {"terminate", "done"}

(* A running task keeps its slot and its name: the slot it was created in  *)
(* holds its control block until it has called qcom_task_exit, and no      *)
(* other slot holds it, so that no two tasks share a control block or a    *)
(* name cell.                                                              *)
RunningTasksKeepTheirSlot ==
    \A t \in Threads :
        kernel[t] = "ready" /\ exit[t] \in {"no", "del", "lock"}
            => {i \in Slots : thr[i] = t} = {slotOf[t]}

(* The memory of a task that has marked its slot is given back, by the     *)
(* timer of the shell when no other task starts or exits, unless the       *)
(* creator of the task is still about to note it as created: again and     *)
(* again no slot waits.                                                    *)
ExitedIsRecycled ==
    []<>(\A i \in Slots : thrStatus[i] = "exited" /\ thr[i] # None
                              => start.at = "status" /\ start.taskIdx = i)

(* What the comment on the timer of the shell calls task resource recycle: *)
(* the memory of every task that has ended is given back.                  *)
TaskResourceRecycle == \A t \in Threads \ Permanent : exit[t] = "done" ~> t \in freed

=============================================================================
