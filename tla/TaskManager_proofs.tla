-------------------------- MODULE TaskManager_proofs --------------------------
(***************************************************************************)
(* The table of tasks never takes the slot of a task that runs, whatever   *)
(* the tasks do, and the throughput tests use it as it is meant to be.     *)
(*                                                                         *)
(* A slot is marked by name.  The invariant therefore says where a thread  *)
(* that has a name stands (in the slot whose cell is its name), that these *)
(* names are those of starts that were counted, and that no two are equal. *)
(*                                                                         *)
(* BenchInv is about the throughput tests: what the context of a session   *)
(* holds at each of its statements, that no two sessions work with one     *)
(* context, and that what the shell has taken waits for its task.          *)
(***************************************************************************)
EXTENDS Bench, FiniteSetTheorems, TLAPS

USE DEF Slots, Threads, Permanent, None, NoSlot

\* A slot whose thread has been created, and bears a name.
Bears(i) == thr[i] # None /\ slotOf[thr[i]] # NoSlot

\* The numbers the names that are in use were made from.
Counted == IF start.at = "status" THEN 0 .. taskId ELSE 0 .. taskId - 1

\* Threads that are not in the table yet, and how an exit goes with the kernel.
ThreadsInOrder ==
    /\ \A t \in Threads : t > filled =>
          /\ kernel[t] = "none" /\ slotOf[t] = NoSlot /\ t \notin freed
          /\ \A i \in Slots : thr[i] # t
    /\ \A t \in Threads :
          /\ kernel[t] = "none" => exit[t] = "no" /\ slotOf[t] = NoSlot
          /\ exit[t] \in {"del", "lock", "terminate"} => kernel[t] = "ready"
          /\ kernel[t] \in {"terminated", "deleted"} => exit[t] = "done"
          /\ t \in freed => kernel[t] = "none" \/ exit[t] \in {"terminate", "done"}

\* What a slot says of its thread.
SlotsInOrder ==
    /\ \A i \in Slots : thrStatus[i] = "exited" =>
          thr[i] # None /\ exit[thr[i]] \in {"terminate", "done"}
    /\ \A i \in Slots : Bears(i) => slotOf[thr[i]] = i
    /\ \A t \in Threads : kernel[t] = "ready" /\ exit[t] \in {"no", "del", "lock"} =>
          slotOf[t] \in Slots /\ thr[slotOf[t]] = t

\* What qcom_task_start has made of its slot so far.
StartInOrder ==
    /\ start.at \in {"del", "claim", "alloc", "fill"} => start.thread = None
    /\ start.at = "fill" => filled < MaxThreads
    /\ start.at \in {"alloc", "fill", "create", "status", "errout"} => start.taskIdx \in Slots
    /\ start.at \in {"alloc", "fill", "errout"} /\ start.thread = None => thr[start.taskIdx] = None
    /\ start.at \in {"create", "errout"} /\ start.thread # None =>
          /\ thr[start.taskIdx] = start.thread /\ kernel[start.thread] = "none"
          /\ start.thread \notin freed
    /\ start.at \in {"create", "status"} => start.thread # None
    /\ start.at = "create" => \A i \in Slots : thr[i] = start.thread => i = start.taskIdx
    /\ start.at \in {"create", "status"} => taskId + 1 <= filled
    /\ taskId <= filled

\* The names in use.
NamesInOrder ==
    /\ \A i \in Slots : Bears(i) => \E a \in Counted : taskName[i] = NameOf(a)
    /\ start.at = "create" => taskName[start.taskIdx] = NameOf(taskId)
    /\ \A i, j \in Slots : Bears(i) /\ Bears(j) /\ i # j => taskName[i] # taskName[j]

TaskInv == TaskTypeOK /\ ThreadsInOrder /\ SlotsInOrder /\ StartInOrder /\ NamesInOrder

-----------------------------------------------------------------------------
(* The first 255 names differ.                                             *)
LEMMA NamesDiffer ==
    ASSUME NEW a \in 0 .. 254, NEW b \in 0 .. 254, NameOf(a) = NameOf(b)
    PROVE  a = b
BY DEF NameOf

(* The table the program starts with is in order.                          *)
LEMMA InitInOrder == TaskInit => TaskInv
<1> SUFFICES ASSUME TaskInit PROVE TaskInv
  OBVIOUS
<1> USE TaskAssumption, NamesAssumption
<1>1. Cardinality({1, 2}) = 2
  <2>1. IsFiniteSet({1}) /\ Cardinality({1}) = 1
    BY FS_Singleton
  <2>2. Cardinality({1} \cup {2}) = 2
    BY <2>1, FS_AddElement
  <2>3. {1} \cup {2} = {1, 2}
    OBVIOUS
  <2> QED
    BY <2>2, <2>3
<1>2. TaskTypeOK
  BY <1>1 DEF TaskInit, TaskTypeOK, NotStarting, NameOf
<1>3. ThreadsInOrder
  BY <1>1 DEF TaskInit, ThreadsInOrder
<1>4. SlotsInOrder
  BY <1>1 DEF TaskInit, SlotsInOrder, Bears
<1>5. StartInOrder
  BY <1>1 DEF TaskInit, StartInOrder, NotStarting
<1>6. NamesInOrder
  <2>1. start.at = "idle" /\ taskId = 2 /\ Counted = 0 .. 1
    BY <1>1 DEF TaskInit, NotStarting, Counted
  <2>2. \A i \in Slots : Bears(i) => i \in 0 .. 1 /\ taskName[i] = NameOf(i)
    BY DEF TaskInit, Bears
  <2>3. ASSUME NEW i \in Slots, NEW j \in Slots, Bears(i), Bears(j), i # j
        PROVE  taskName[i] # taskName[j]
    <3>1. i \in 0 .. 254 /\ j \in 0 .. 254 /\ taskName[i] = NameOf(i) /\ taskName[j] = NameOf(j)
      BY <2>2, <2>3
    <3> QED
      BY <2>3, <3>1, NamesDiffer
  <2>4. \A i \in Slots : Bears(i) => \E a \in Counted : taskName[i] = NameOf(a)
    BY <2>1, <2>2
  <2>5. start.at # "create"
    BY <2>1
  <2> QED
    BY <2>3, <2>4, <2>5 DEF NamesInOrder
<1> QED
  BY <1>2, <1>3, <1>4, <1>5, <1>6 DEF TaskInv

\* Freeing empties slots whose task has called qcom_task_exit, and leaves the
\* others as they are.
FreedInOrder ==
    /\ ThrFreed \in [Slots -> {None} \cup Threads]
    /\ StatusFreed \in [Slots -> {"null", "created"}]
    /\ NameFreed \in [Slots -> 0 .. 255]
    /\ MemoryFreed \in SUBSET Threads
    /\ \A i \in Slots : ThrFreed[i] \in {None, thr[i]}
    /\ \A i \in Slots : ThrFreed[i] # None => NameFreed[i] = taskName[i]
    /\ \A i \in Slots : thr[i] # None /\ exit[thr[i]] \notin {"terminate", "done"}
                           => ThrFreed[i] = thr[i] /\ NameFreed[i] = taskName[i]
    /\ \A t \in MemoryFreed : t \in freed \/ exit[t] \in {"terminate", "done"}

(* What the steps that free memory rely on.                                *)
LEMMA Freeing == TaskInv => FreedInOrder
<1> SUFFICES ASSUME TaskInv PROVE FreedInOrder
  OBVIOUS
<1> USE TaskAssumption DEF TaskInv, TaskTypeOK, SlotsInOrder, Freeable
<1>0. \A i \in Slots :
         /\ i \in Freeable => ThrFreed[i] = None
         /\ i \notin Freeable => ThrFreed[i] = thr[i] /\ NameFreed[i] = taskName[i]
  BY DEF ThrFreed, NameFreed
<1>1. ThrFreed \in [Slots -> {None} \cup Threads] /\ \A i \in Slots : ThrFreed[i] \in {None, thr[i]}
  BY DEF ThrFreed
<1>2. StatusFreed \in [Slots -> {"null", "created"}]
  <2>1. \A i \in Slots : i \notin Freeable => thrStatus[i] \in {"null", "created"}
    OBVIOUS
  <2> QED
    BY <2>1 DEF StatusFreed
<1>3. NameFreed \in [Slots -> 0 .. 255]
  BY DEF NameFreed
<1>4. MemoryFreed \in SUBSET Threads
  <2>1. \A i \in Freeable : thr[i] \in Threads
    OBVIOUS
  <2>2. {thr[i] : i \in Freeable} \subseteq Threads
    BY ONLY <2>1
  <2> QED
    BY <2>2 DEF MemoryFreed
<1>5. \A i \in Slots : ThrFreed[i] # None => NameFreed[i] = taskName[i]
  BY <1>0
<1>6. \A i \in Slots : thr[i] # None /\ exit[thr[i]] \notin {"terminate", "done"}
                         => ThrFreed[i] = thr[i] /\ NameFreed[i] = taskName[i]
  BY <1>0
<1>7. \A t \in MemoryFreed : t \in freed \/ exit[t] \in {"terminate", "done"}
  BY DEF MemoryFreed
<1> QED
  BY <1>1, <1>2, <1>3, <1>4, <1>5, <1>6, <1>7 DEF FreedInOrder

(* A step that frees keeps threads and slots in order.                     *)
LEMMA FreeingKeeps ==
    ASSUME TaskInv, free_task_mem, UNCHANGED <<filled, slotOf, kernel, exit>>
    PROVE  ThreadsInOrder' /\ SlotsInOrder'
<1>1. FreedInOrder
  BY Freeing
<1>2. /\ thr' = ThrFreed /\ thrStatus' = StatusFreed /\ taskName' = NameFreed /\ freed' = MemoryFreed
      /\ UNCHANGED <<filled, slotOf, kernel, exit>>
  BY DEF free_task_mem
<1> USE TaskAssumption DEF TaskInv, TaskTypeOK, ThreadsInOrder, SlotsInOrder
<1>3. \A t \in Threads : t > filled => t \notin freed' /\ \A i \in Slots : thr'[i] # t
  <2> SUFFICES ASSUME NEW t \in Threads, t > filled
               PROVE  t \notin freed' /\ \A i \in Slots : thr'[i] # t
    OBVIOUS
  <2>1. kernel[t] = "none" /\ exit[t] = "no" /\ t \notin freed /\ \A i \in Slots : thr[i] # t
    OBVIOUS
  <2>2. t \notin freed'
    BY <2>1, <1>1, <1>2 DEF FreedInOrder
  <2>3. \A i \in Slots : thr'[i] # t
    BY <2>1, <1>1, <1>2 DEF FreedInOrder
  <2> QED
    BY <2>2, <2>3
<1>4. \A t \in Threads : t \in freed' => kernel[t] = "none" \/ exit[t] \in {"terminate", "done"}
  BY <1>1, <1>2 DEF FreedInOrder
<1>5. \A i \in Slots : thrStatus'[i] # "exited"
  <2>1. StatusFreed \in [Slots -> {"null", "created"}]
    BY <1>1 DEF FreedInOrder
  <2>2. \A i \in Slots : StatusFreed[i] # "exited"
    BY ONLY <2>1
  <2> QED
    BY <2>2, <1>2
<1>6. \A i \in Slots : Bears(i)' => slotOf[thr'[i]] = i
  <2> SUFFICES ASSUME NEW i \in Slots, Bears(i)' PROVE slotOf[thr'[i]] = i
    OBVIOUS
  <2>1. thr'[i] = thr[i] /\ thr[i] # None /\ slotOf[thr[i]] # NoSlot
    BY <1>1, <1>2 DEF FreedInOrder, Bears
  <2> QED
    BY <2>1 DEF Bears
<1>7. \A t \in Threads : kernel[t] = "ready" /\ exit[t] \in {"no", "del", "lock"} =>
          slotOf[t] \in Slots /\ thr'[slotOf[t]] = t
  <2> SUFFICES ASSUME NEW t \in Threads, kernel[t] = "ready", exit[t] \in {"no", "del", "lock"}
               PROVE  slotOf[t] \in Slots /\ thr'[slotOf[t]] = t
    OBVIOUS
  <2>1. slotOf[t] \in Slots /\ thr[slotOf[t]] = t
    OBVIOUS
  <2>2. thr[slotOf[t]] # None /\ exit[thr[slotOf[t]]] \notin {"terminate", "done"}
    BY <2>1
  <2> QED
    BY <2>1, <2>2, <1>1, <1>2 DEF FreedInOrder
<1> QED
  BY <1>2, <1>3, <1>4, <1>5, <1>6, <1>7

(* A step that frees keeps what a start has made of its slot, and names.   *)
LEMMA FreeingKeepsStart ==
    ASSUME TaskInv, thr' = ThrFreed, taskName' = NameFreed, freed' = MemoryFreed,
           UNCHANGED <<taskId, filled, slotOf, kernel, start>>
    PROVE  StartInOrder' /\ NamesInOrder'
<1>1. FreedInOrder
  BY Freeing
<1>2. /\ thr' = ThrFreed /\ taskName' = NameFreed /\ freed' = MemoryFreed
      /\ UNCHANGED <<taskId, filled, slotOf, kernel, start>>
  OBVIOUS
<1> USE DEF TaskInv, TaskTypeOK
<1>3. start.taskIdx \in Slots
  OBVIOUS
<1>4. \A i \in Slots : thr[i] = None => thr'[i] = None
  BY <1>1, <1>2 DEF FreedInOrder
<1>5. \A i \in Slots : thr'[i] # None => thr'[i] = thr[i] /\ taskName'[i] = taskName[i]
  BY <1>1, <1>2 DEF FreedInOrder
<1>6. ASSUME start.at \in {"create", "errout"}, start.thread # None
      PROVE  /\ thr'[start.taskIdx] = start.thread /\ taskName'[start.taskIdx] = taskName[start.taskIdx]
             /\ start.thread \notin freed'
  <2>1. /\ thr[start.taskIdx] = start.thread /\ kernel[start.thread] = "none"
        /\ start.thread \notin freed /\ start.thread \in Threads
    BY <1>6 DEF StartInOrder
  <2>2. exit[start.thread] = "no"
    BY <2>1 DEF ThreadsInOrder
  <2> QED
    BY <1>1, <1>2, <1>3, <1>6, <2>1, <2>2 DEF FreedInOrder
<1>7. StartInOrder'
  BY <1>2, <1>3, <1>4, <1>5, <1>6 DEF StartInOrder
<1>8. NamesInOrder'
  <2>1. \A i \in Slots : Bears(i)' => Bears(i) /\ taskName'[i] = taskName[i]
    BY <1>2, <1>5 DEF Bears
  <2>2. Counted' = Counted
    BY <1>2 DEF Counted
  <2>3. start.at = "create" => taskName'[start.taskIdx] = NameOf(taskId)
    BY <1>6 DEF NamesInOrder, StartInOrder
  <2> QED
    BY <1>2, <2>1, <2>2, <2>3 DEF NamesInOrder
<1> QED
  BY <1>7, <1>8

(* A call of qcom_task_start that begins keeps the table in order.         *)
LEMMA BeginStartKeeps == TaskInv /\ BeginStart => TaskInv'
<1> SUFFICES ASSUME TaskInv, BeginStart PROVE TaskInv'
  OBVIOUS
<1>1. /\ start.at = "idle"
      /\ start' = [at |-> "del", taskIdx |-> 0, thread |-> None, ret |-> "ok"]
      /\ UNCHANGED <<thr, thrStatus, taskName, taskId, filled, slotOf, kernel, freed, exit, sweep>>
  BY DEF BeginStart, NotStarting, tableVars
<1> USE TaskAssumption, NamesAssumption, <1>1 DEF TaskInv
<1>4. TaskTypeOK'
  BY DEF TaskTypeOK
<1>5. ThreadsInOrder'
  BY DEF TaskTypeOK, ThreadsInOrder, SlotsInOrder, StartInOrder
<1>6. SlotsInOrder'
  BY DEF TaskTypeOK, ThreadsInOrder, SlotsInOrder, StartInOrder, Bears
<1>7. StartInOrder'
  BY DEF TaskTypeOK, ThreadsInOrder, SlotsInOrder, StartInOrder
<1>8. NamesInOrder'
  BY DEF TaskTypeOK, ThreadsInOrder, SlotsInOrder, StartInOrder, NamesInOrder, Bears, Counted
<1> QED
  BY <1>4, <1>5, <1>6, <1>7, <1>8

(* Deleting threads that ended, in a start, keeps the table in order.      *)
LEMMA StartDelKeeps == TaskInv /\ StartDel => TaskInv'
<1> SUFFICES ASSUME TaskInv, StartDel PROVE TaskInv'
  OBVIOUS
<1> USE TaskAssumption, NamesAssumption DEF StartDel, TaskInv, tableVars, qcom_task_del, Freeable
<1>1. TaskTypeOK'
  BY DEF TaskTypeOK, NotStarting, NameOf
<1>2. ThreadsInOrder'
  BY DEF TaskTypeOK, ThreadsInOrder, SlotsInOrder, StartInOrder
<1>3. SlotsInOrder'
  BY DEF TaskTypeOK, ThreadsInOrder, SlotsInOrder, StartInOrder, Bears
<1>4. StartInOrder'
  BY DEF TaskTypeOK, ThreadsInOrder, SlotsInOrder, StartInOrder, NotStarting
<1>5. NamesInOrder'
  BY DEF TaskTypeOK, SlotsInOrder, StartInOrder, NamesInOrder, Bears, Counted, NotStarting
<1> QED
  BY <1>1, <1>2, <1>3, <1>4, <1>5

(* Freeing and taking a slot, in a start, keeps the table in order.        *)
LEMMA StartClaimKeeps == TaskInv /\ StartClaim => TaskInv'
<1> SUFFICES ASSUME TaskInv, StartClaim PROVE TaskInv'
  OBVIOUS
<1>0. FreedInOrder
  BY Freeing
<1>1. /\ start.at = "claim"
      /\ thr' = ThrFreed /\ thrStatus' = StatusFreed /\ taskName' = NameFreed /\ freed' = MemoryFreed
      /\ UNCHANGED <<taskId, filled, slotOf, kernel, exit, sweep>>
  BY DEF StartClaim, free_task_mem
<1>2. /\ start' \in [at : {"alloc", "done"}, taskIdx : Slots, thread : {None}, ret : {"ok", "failed"}]
      /\ start'.at = "alloc" => ThrFreed[start'.taskIdx] = None
  <2>1. CASE \E i \in get_empty_task_index(ThrFreed) :
                start' = [start EXCEPT !.at = "alloc", !.taskIdx = i]
    BY <1>1, <2>1 DEF TaskInv, TaskTypeOK, StartInOrder, get_empty_task_index
  <2>2. CASE start' = [start EXCEPT !.at = "done", !.ret = "failed"]
    BY <1>1, <2>2 DEF TaskInv, TaskTypeOK, StartInOrder
  <2> QED
    BY <2>1, <2>2 DEF StartClaim
<1> USE TaskAssumption, NamesAssumption, <1>0, <1>1, <1>2 DEF TaskInv
<1>4. TaskTypeOK'
  BY DEF TaskTypeOK, FreedInOrder
<1>5. ThreadsInOrder' /\ SlotsInOrder'
  BY FreeingKeeps DEF free_task_mem
<1>7. StartInOrder'
  BY DEF TaskTypeOK, ThreadsInOrder, SlotsInOrder, StartInOrder, FreedInOrder
<1>8. NamesInOrder'
  BY DEF TaskTypeOK, ThreadsInOrder, SlotsInOrder, StartInOrder, NamesInOrder, Bears, Counted, FreedInOrder
<1> QED
  BY <1>4, <1>5, <1>7, <1>8

(* Allocating, or failing to, keeps the table in order.                    *)
LEMMA StartAllocKeeps == TaskInv /\ StartAlloc => TaskInv'
<1> SUFFICES ASSUME TaskInv, StartAlloc PROVE TaskInv'
  OBVIOUS
<1>1. /\ start.at = "alloc"
      /\ start' \in {[start EXCEPT !.at = "fill"], [start EXCEPT !.at = "errout", !.ret = "failed"]}
      /\ start' = [start EXCEPT !.at = "fill"] => filled < MaxThreads
      /\ UNCHANGED <<thr, thrStatus, taskName, taskId, filled, slotOf, kernel, freed, exit, sweep>>
  BY DEF StartAlloc, tableVars, TaskInv, TaskTypeOK
<1>2. /\ start'.at \in {"fill", "errout"} /\ start'.taskIdx = start.taskIdx
      /\ start'.thread = start.thread /\ start'.ret \in {"ok", "failed"}
      /\ start'.at = "fill" => filled < MaxThreads
  BY <1>1 DEF TaskInv, TaskTypeOK
<1> USE TaskAssumption, NamesAssumption, <1>1, <1>2 DEF TaskInv
<1>4. TaskTypeOK'
  BY DEF TaskTypeOK
<1>5. ThreadsInOrder'
  BY DEF TaskTypeOK, ThreadsInOrder, SlotsInOrder, StartInOrder
<1>6. SlotsInOrder'
  BY DEF TaskTypeOK, ThreadsInOrder, SlotsInOrder, StartInOrder, Bears
<1>7. StartInOrder'
  BY DEF TaskTypeOK, ThreadsInOrder, SlotsInOrder, StartInOrder
<1>8. NamesInOrder'
  BY DEF TaskTypeOK, ThreadsInOrder, SlotsInOrder, StartInOrder, NamesInOrder, Bears, Counted
<1> QED
  BY <1>4, <1>5, <1>6, <1>7, <1>8

(* Filling the slot of a new task keeps the table in order.                *)
LEMMA StartFillKeeps == TaskInv /\ StartFill => TaskInv'
<1> SUFFICES ASSUME TaskInv, StartFill PROVE TaskInv'
  OBVIOUS
<1> DEFINE i == start.taskIdx
<1>1. /\ start.at = "fill" /\ i \in Slots /\ thr[i] = None /\ thrStatus[i] # "exited"
      /\ filled + 1 \in Threads /\ start.thread = None
  BY TaskAssumption DEF StartFill, TaskInv, TaskTypeOK, StartInOrder, SlotsInOrder
<1>2. /\ filled' = filled + 1 /\ thr' = [thr EXCEPT ![i] = filled + 1]
      /\ taskName' = [taskName EXCEPT ![i] = NameOf(taskId)]
      /\ start' = [start EXCEPT !.at = "create", !.thread = filled + 1]
      /\ UNCHANGED <<thrStatus, taskId, slotOf, kernel, freed, exit, sweep>>
  BY DEF StartFill
<1>3. /\ kernel[filled + 1] = "none" /\ slotOf[filled + 1] = NoSlot /\ filled + 1 \notin freed
      /\ exit[filled + 1] = "no" /\ \A j \in Slots : thr[j] # filled + 1
      /\ NameOf(taskId) \in 0 .. 255
  BY <1>1, TaskAssumption DEF TaskInv, TaskTypeOK, ThreadsInOrder, NameOf
<1> USE TaskAssumption, NamesAssumption, <1>1, <1>2, <1>3 DEF TaskInv
<1>4. TaskTypeOK'
  <2>1. /\ thr' \in [Slots -> {None} \cup Threads] /\ taskName' \in [Slots -> 0 .. 255]
        /\ filled' \in 0 .. MaxThreads
    BY DEF TaskTypeOK
  <2>2. start' \in [at : {"create"}, taskIdx : Slots, thread : Threads, ret : {"ok", "failed"}]
    BY DEF TaskTypeOK
  <2> QED
    BY <2>1, <2>2 DEF TaskTypeOK
<1>5. ThreadsInOrder'
  BY DEF TaskTypeOK, ThreadsInOrder, SlotsInOrder, StartInOrder
<1>6. SlotsInOrder'
  BY DEF TaskTypeOK, ThreadsInOrder, SlotsInOrder, StartInOrder, Bears
<1>7. StartInOrder'
  BY DEF TaskTypeOK, ThreadsInOrder, SlotsInOrder, StartInOrder
<1>8. NamesInOrder'
  BY DEF TaskTypeOK, ThreadsInOrder, SlotsInOrder, StartInOrder, NamesInOrder, Bears, Counted
<1> QED
  BY <1>4, <1>5, <1>6, <1>7, <1>8

(* Creating the thread, which then runs, keeps the table in order.         *)
LEMMA StartCreateKeeps == TaskInv /\ StartCreate => TaskInv'
<1> SUFFICES ASSUME TaskInv, StartCreate PROVE TaskInv'
  OBVIOUS
<1> DEFINE i == start.taskIdx
           t == start.thread
<1>1. /\ start.at = "create" /\ i \in Slots /\ t \in Threads /\ thr[i] = t /\ kernel[t] = "none"
      /\ exit[t] = "no" /\ t \notin freed /\ slotOf[t] = NoSlot
  BY DEF StartCreate, TaskInv, TaskTypeOK, StartInOrder, ThreadsInOrder
<1>2. /\ slotOf' = [slotOf EXCEPT ![t] = i] /\ kernel' = [kernel EXCEPT ![t] = "ready"]
      /\ start' = [start EXCEPT !.at = "status"]
      /\ UNCHANGED <<thr, thrStatus, taskName, taskId, filled, freed, exit, sweep>>
  BY DEF StartCreate, tableVars
<1> USE TaskAssumption, NamesAssumption, <1>1, <1>2 DEF TaskInv
<1>4. TaskTypeOK'
  BY DEF TaskTypeOK
<1>5. ThreadsInOrder'
  BY DEF TaskTypeOK, ThreadsInOrder, SlotsInOrder, StartInOrder
<1>6. SlotsInOrder'
  <2>1. \A j \in Slots : thr[j] = t => j = i
    BY DEF StartInOrder
  <2>2. \A j \in Slots : Bears(j)' => slotOf'[thr[j]] = j
    BY <2>1 DEF TaskTypeOK, SlotsInOrder, Bears
  <2>3. \A u \in Threads : kernel'[u] = "ready" /\ exit[u] \in {"no", "del", "lock"} =>
            slotOf'[u] \in Slots /\ thr[slotOf'[u]] = u
    BY DEF TaskTypeOK, SlotsInOrder
  <2> QED
    BY <2>2, <2>3 DEF SlotsInOrder
<1>7. StartInOrder'
  BY DEF TaskTypeOK, ThreadsInOrder, SlotsInOrder, StartInOrder
<1>8. NamesInOrder'
  <2>0. start'.at = "status"
    BY DEF TaskTypeOK
  <2>a. Counted = 0 .. taskId - 1
    BY DEF Counted
  <2>b. Counted' = 0 .. taskId
    BY <2>0, <1>2 DEF Counted
  <2>1. Counted = 0 .. taskId - 1 /\ Counted' = 0 .. taskId /\ taskId \in 0 .. 254
    <3>1. taskId \in Nat /\ filled \in 0 .. MaxThreads
      BY DEF TaskTypeOK
    <3>2. taskId + 1 <= filled
      BY DEF StartInOrder
    <3>3. taskId \in 0 .. 254
      BY ONLY <3>1, <3>2, TaskAssumption, NamesAssumption
    <3> QED
      BY ONLY <2>a, <2>b, <3>3
  <2>2. taskName[i] = NameOf(taskId)
    BY DEF NamesInOrder
  <2>3. \A j \in Slots : Bears(j)' /\ j # i => Bears(j)
    BY DEF TaskTypeOK, Bears, StartInOrder
  <2>4. \A j \in Slots : Bears(j)' => \E a \in Counted' : taskName[j] = NameOf(a)
    <3>1. \A j \in Slots : Bears(j) => \E a \in Counted : taskName[j] = NameOf(a)
      BY DEF NamesInOrder
    <3>2. taskId \in Counted' /\ Counted \subseteq Counted'
      BY ONLY <2>1
    <3> QED
      BY ONLY <3>1, <3>2, <2>2, <2>3
  <2>5. \A j \in Slots : Bears(j)' /\ j # i => taskName[j] # taskName[i]
    <3>1. \A j \in Slots : Bears(j) => \E a \in Counted : taskName[j] = NameOf(a)
      BY DEF NamesInOrder
    <3>2. \A a \in Counted : NameOf(a) # NameOf(taskId)
      <4> SUFFICES ASSUME NEW a \in Counted PROVE NameOf(a) # NameOf(taskId)
        OBVIOUS
      <4>1. a \in 0 .. 254 /\ taskId \in 0 .. 254 /\ a # taskId
        BY ONLY <2>1, a \in Counted
      <4> QED
        BY ONLY <4>1, NamesDiffer
    <3> QED
      BY ONLY <3>1, <3>2, <2>2, <2>3
  <2>6. \A j, k \in Slots : Bears(j)' /\ Bears(k)' /\ j # k => taskName[j] # taskName[k]
    BY <2>3, <2>5 DEF NamesInOrder
  <2> QED
    BY <2>4, <2>6 DEF NamesInOrder
<1> QED
  BY <1>4, <1>5, <1>6, <1>7, <1>8

(* A thread that cannot be created keeps the table in order.               *)
LEMMA StartCreateFailsKeeps == TaskInv /\ StartCreateFails => TaskInv'
<1> SUFFICES ASSUME TaskInv, StartCreateFails PROVE TaskInv'
  OBVIOUS
<1> USE TaskAssumption, NamesAssumption DEF StartCreateFails, TaskInv, tableVars
<1>1. TaskTypeOK'
  BY DEF TaskTypeOK, NotStarting, NameOf
<1>2. ThreadsInOrder'
  BY DEF TaskTypeOK, ThreadsInOrder, SlotsInOrder, StartInOrder
<1>3. SlotsInOrder'
  BY DEF TaskTypeOK, ThreadsInOrder, SlotsInOrder, StartInOrder, Bears
<1>4. StartInOrder'
  BY DEF TaskTypeOK, ThreadsInOrder, SlotsInOrder, StartInOrder, NotStarting
<1>5. NamesInOrder'
  BY DEF TaskTypeOK, SlotsInOrder, StartInOrder, NamesInOrder, Bears, Counted, NotStarting
<1> QED
  BY <1>1, <1>2, <1>3, <1>4, <1>5

(* Noting a slot as created keeps the table in order.                      *)
LEMMA StartStatusKeeps == TaskInv /\ StartStatus => TaskInv'
<1> SUFFICES ASSUME TaskInv, StartStatus PROVE TaskInv'
  OBVIOUS
<1>1. /\ start.at = "status" /\ start.taskIdx \in Slots /\ taskId \in Nat
      /\ thrStatus' = [thrStatus EXCEPT ![start.taskIdx] = "created"]
      /\ taskId' = taskId + 1
      /\ start' = [start EXCEPT !.at = "done"]
      /\ UNCHANGED <<thr, taskName, filled, slotOf, kernel, freed, exit, sweep>>
  BY DEF StartStatus, TaskInv, TaskTypeOK, StartInOrder
<1> USE TaskAssumption, NamesAssumption, <1>1 DEF TaskInv
<1>4. TaskTypeOK'
  <2>1. thrStatus' \in [Slots -> {"null", "created", "exited"}] /\ taskId' \in Nat
    BY DEF TaskTypeOK
  <2>2. start' \in [at : {"done"}, taskIdx : Slots, thread : {None} \cup Threads, ret : {"ok", "failed"}]
    BY DEF TaskTypeOK
  <2> QED
    BY <2>1, <2>2 DEF TaskTypeOK
<1>5. ThreadsInOrder'
  BY DEF TaskTypeOK, ThreadsInOrder, SlotsInOrder, StartInOrder
<1>6. SlotsInOrder'
  BY DEF TaskTypeOK, ThreadsInOrder, SlotsInOrder, StartInOrder, Bears
<1>7. StartInOrder'
  BY DEF TaskTypeOK, ThreadsInOrder, SlotsInOrder, StartInOrder
<1>8. NamesInOrder'
  BY DEF TaskTypeOK, ThreadsInOrder, SlotsInOrder, StartInOrder, NamesInOrder, Bears, Counted
<1> QED
  BY <1>4, <1>5, <1>6, <1>7, <1>8

(* Undoing a start that failed keeps the table in order.                   *)
LEMMA StartErroutKeeps == TaskInv /\ StartErrout => TaskInv'
<1> SUFFICES ASSUME TaskInv, StartErrout PROVE TaskInv'
  OBVIOUS
<1> USE TaskAssumption, NamesAssumption DEF StartErrout, TaskInv, tableVars
<1>1. TaskTypeOK'
  BY DEF TaskTypeOK, NotStarting, NameOf
<1>2. ThreadsInOrder'
  BY DEF TaskTypeOK, ThreadsInOrder, SlotsInOrder, StartInOrder
<1>3. SlotsInOrder'
  BY DEF TaskTypeOK, ThreadsInOrder, SlotsInOrder, StartInOrder, Bears
<1>4. StartInOrder'
  BY DEF TaskTypeOK, ThreadsInOrder, SlotsInOrder, StartInOrder, NotStarting
<1>5. NamesInOrder'
  BY DEF TaskTypeOK, SlotsInOrder, StartInOrder, NamesInOrder, Bears, Counted, NotStarting
<1> QED
  BY <1>1, <1>2, <1>3, <1>4, <1>5

(* The return of qcom_task_start keeps the table in order.                 *)
LEMMA EndStartKeeps == TaskInv /\ EndStart => TaskInv'
<1> SUFFICES ASSUME TaskInv, EndStart PROVE TaskInv'
  OBVIOUS
<1> USE TaskAssumption, NamesAssumption DEF EndStart, TaskInv, tableVars
<1>1. TaskTypeOK'
  BY DEF TaskTypeOK, NotStarting, NameOf
<1>2. ThreadsInOrder'
  BY DEF TaskTypeOK, ThreadsInOrder, SlotsInOrder, StartInOrder
<1>3. SlotsInOrder'
  BY DEF TaskTypeOK, ThreadsInOrder, SlotsInOrder, StartInOrder, Bears
<1>4. StartInOrder'
  BY DEF TaskTypeOK, ThreadsInOrder, SlotsInOrder, StartInOrder, NotStarting
<1>5. NamesInOrder'
  BY DEF TaskTypeOK, SlotsInOrder, StartInOrder, NamesInOrder, Bears, Counted, NotStarting
<1> QED
  BY <1>1, <1>2, <1>3, <1>4, <1>5

(* Deleting threads that ended, in the timer, keeps the table in order.    *)
LEMMA SweepDelKeeps == TaskInv /\ SweepDel => TaskInv'
<1> SUFFICES ASSUME TaskInv, SweepDel PROVE TaskInv'
  OBVIOUS
<1> USE TaskAssumption, NamesAssumption DEF SweepDel, TaskInv, tableVars, qcom_task_del, Freeable
<1>1. TaskTypeOK'
  BY DEF TaskTypeOK, NotStarting, NameOf
<1>2. ThreadsInOrder'
  BY DEF TaskTypeOK, ThreadsInOrder, SlotsInOrder, StartInOrder
<1>3. SlotsInOrder'
  BY DEF TaskTypeOK, ThreadsInOrder, SlotsInOrder, StartInOrder, Bears
<1>4. StartInOrder'
  BY DEF TaskTypeOK, ThreadsInOrder, SlotsInOrder, StartInOrder, NotStarting
<1>5. NamesInOrder'
  BY DEF TaskTypeOK, SlotsInOrder, StartInOrder, NamesInOrder, Bears, Counted, NotStarting
<1> QED
  BY <1>1, <1>2, <1>3, <1>4, <1>5

(* Freeing in the timer keeps the table in order.                          *)
LEMMA SweepFreeKeeps == TaskInv /\ SweepFree => TaskInv'
<1> SUFFICES ASSUME TaskInv, SweepFree PROVE TaskInv'
  OBVIOUS
<1>0. FreedInOrder
  BY Freeing
<1>1. /\ thr' = ThrFreed /\ thrStatus' = StatusFreed /\ taskName' = NameFreed /\ freed' = MemoryFreed
      /\ sweep' = "idle"
      /\ UNCHANGED <<taskId, filled, slotOf, kernel, exit, start>>
  BY DEF SweepFree, free_task_mem
<1> USE TaskAssumption, NamesAssumption, <1>0, <1>1 DEF TaskInv
<1>4. TaskTypeOK'
  BY DEF TaskTypeOK, FreedInOrder
<1>5. ThreadsInOrder' /\ SlotsInOrder'
  BY FreeingKeeps DEF free_task_mem
<1>7. StartInOrder' /\ NamesInOrder'
  BY FreeingKeepsStart
<1> QED
  BY <1>4, <1>5, <1>7

(* A call of qcom_task_exit that begins keeps the table in order.          *)
LEMMA BeginExitKeeps == ASSUME NEW t \in Threads, TaskInv, BeginExit(t) PROVE TaskInv'
<1>1. /\ kernel[t] = "ready" /\ exit[t] = "no"
      /\ exit' = [exit EXCEPT ![t] = "del"]
      /\ UNCHANGED <<thr, thrStatus, taskName, taskId, filled, slotOf, kernel, freed, start, sweep>>
  BY DEF BeginExit, tableVars
<1> USE <1>1 DEF TaskInv
<1>4. TaskTypeOK'
  BY DEF TaskTypeOK
<1>5. ThreadsInOrder'
  BY DEF TaskTypeOK, ThreadsInOrder
<1>6. SlotsInOrder'
  BY DEF TaskTypeOK, SlotsInOrder, Bears
<1>7. StartInOrder'
  BY DEF StartInOrder
<1>8. NamesInOrder'
  BY DEF NamesInOrder, Bears, Counted
<1> QED
  BY <1>4, <1>5, <1>6, <1>7, <1>8

(* Deleting threads that ended, in an exit, keeps the table in order.      *)
LEMMA ExitDelKeeps == ASSUME NEW t \in Threads, TaskInv, ExitDel(t) PROVE TaskInv'
<1>1. /\ exit[t] = "del" /\ exit' = [exit EXCEPT ![t] = "lock"]
      /\ kernel' = [u \in Threads |-> IF kernel[u] = "terminated" /\ \E i \in Freeable : thr[i] = u
                                      THEN "deleted" ELSE kernel[u]]
      /\ UNCHANGED <<thr, thrStatus, taskName, taskId, filled, slotOf, freed, start, sweep>>
  BY DEF ExitDel, qcom_task_del, tableVars
<1>2. /\ kernel' \in [Threads -> {"none", "ready", "terminated", "deleted"}]
      /\ exit' \in [Threads -> {"no", "del", "lock", "terminate", "done"}]
      /\ \A u \in Threads : kernel'[u] = kernel[u]
                            \/ (kernel[u] = "terminated" /\ kernel'[u] = "deleted")
      /\ \A u \in Threads : u # t => exit'[u] = exit[u]
      /\ exit'[t] = "lock"
  BY <1>1 DEF TaskInv, TaskTypeOK
<1> HIDE <1>1
<1> USE <1>2 DEF TaskInv
<1>3. UNCHANGED <<thr, thrStatus, taskName, taskId, filled, slotOf, freed, start, sweep>> /\ exit[t] = "del"
  BY <1>1
<1>4. TaskTypeOK'
  BY <1>3 DEF TaskTypeOK
<1>5. ThreadsInOrder'
  BY <1>3 DEF TaskTypeOK, ThreadsInOrder
<1>6. SlotsInOrder'
  BY <1>3 DEF TaskTypeOK, SlotsInOrder, Bears
<1>7. StartInOrder'
  BY <1>3 DEF TaskTypeOK, StartInOrder
<1>8. NamesInOrder'
  BY <1>3 DEF NamesInOrder, Bears, Counted
<1> QED
  BY <1>4, <1>5, <1>6, <1>7, <1>8

(* The end of a thread keeps the table in order.                           *)
LEMMA ExitTerminateKeeps == ASSUME NEW t \in Threads, TaskInv, ExitTerminate(t) PROVE TaskInv'
<1>1. /\ exit[t] = "terminate" /\ exit' = [exit EXCEPT ![t] = "done"]
      /\ kernel' = [kernel EXCEPT ![t] = "terminated"]
      /\ UNCHANGED <<thr, thrStatus, taskName, taskId, filled, slotOf, freed, start, sweep>>
  BY DEF ExitTerminate, tableVars
<1>2. kernel[t] = "ready"
  BY <1>1 DEF TaskInv, ThreadsInOrder
<1> USE <1>1, <1>2 DEF TaskInv
<1>4. TaskTypeOK'
  BY DEF TaskTypeOK
<1>5. ThreadsInOrder'
  BY DEF TaskTypeOK, ThreadsInOrder
<1>6. SlotsInOrder'
  BY DEF TaskTypeOK, SlotsInOrder, Bears
<1>7. StartInOrder'
  BY DEF TaskTypeOK, StartInOrder
<1>8. NamesInOrder'
  BY DEF NamesInOrder, Bears, Counted
<1> QED
  BY <1>4, <1>5, <1>6, <1>7, <1>8

(* A task that marks by name marks its own slot and no other.              *)
LEMMA MarkedIsOwn ==
    ASSUME TaskInv, NEW t \in Threads, exit[t] = "lock"
    PROVE  slotOf[t] \in Slots /\ thr[slotOf[t]] = t /\ Marked(t) = {slotOf[t]}
<1> DEFINE s == slotOf[t]
           bearing == {i \in Slots : /\ ThrFreed[i] # None
                                     /\ slotOf[ThrFreed[i]] # NoSlot
                                     /\ NameFreed[slotOf[ThrFreed[i]]] = NameFreed[slotOf[t]]}
<1>1. FreedInOrder
  BY Freeing
<1>2. s \in Slots /\ thr[s] = t
  BY DEF TaskInv, ThreadsInOrder, SlotsInOrder
<1>3. ThrFreed[s] = t /\ NameFreed[s] = taskName[s] /\ s # NoSlot /\ t # None
  <2>1. t # None /\ s # NoSlot
    BY <1>2, TaskAssumption
  <2>2. thr[s] # None /\ exit[thr[s]] \notin {"terminate", "done"}
    BY <1>2, <2>1
  <2> QED
    BY <1>1, <1>2, <2>1, <2>2 DEF FreedInOrder
<1>4. s \in bearing
  BY <1>2, <1>3
<1>5. ASSUME NEW i \in bearing PROVE i = s
  <2>1. i \in Slots /\ thr[i] = ThrFreed[i] /\ thr[i] # None /\ slotOf[thr[i]] # NoSlot
    BY <1>1 DEF FreedInOrder
  <2>2. slotOf[thr[i]] = i
    BY <2>1 DEF TaskInv, SlotsInOrder, Bears
  <2>3. NameFreed[i] = NameFreed[s] /\ NameFreed[i] = taskName[i]
    BY <1>1, <2>1, <2>2 DEF FreedInOrder
  <2> QED
    BY <1>2, <1>3, <2>1, <2>3 DEF TaskInv, NamesInOrder, Bears
<1>6. bearing = {s}
  BY <1>4, <1>5
<1>7. Marked(t) = {i \in bearing : \A j \in bearing : i <= j}
  BY DEF Marked
<1> HIDE DEF bearing
<1>8. s <= s
  BY <1>2, TaskAssumption
<1>9. Marked(t) = {s}
  BY ONLY <1>6, <1>7, <1>8
<1> QED
  BY <1>2, <1>9

(* Freeing and marking by name, in an exit, keeps the table in order.      *)
LEMMA ExitMarkKeeps == ASSUME NEW t \in Threads, TaskInv, ExitMark(t) PROVE TaskInv'
<1> DEFINE s == slotOf[t]
<1>0. FreedInOrder
  BY Freeing
<1>1. /\ exit[t] = "lock"
      /\ thr' = ThrFreed /\ taskName' = NameFreed /\ freed' = MemoryFreed
      /\ thrStatus' = [i \in Slots |-> IF i \in Marked(t) THEN "exited" ELSE StatusFreed[i]]
      /\ exit' = [exit EXCEPT ![t] = "terminate"]
      /\ UNCHANGED <<taskId, filled, slotOf, kernel, start, sweep>>
  BY DEF ExitMark
<1>2. s \in Slots /\ thr[s] = t /\ Marked(t) = {s}
  BY <1>1, MarkedIsOwn
<1>3. kernel[t] = "ready" /\ ThrFreed[s] = t /\ t # None
  BY <1>0, <1>1, <1>2 DEF TaskInv, ThreadsInOrder, FreedInOrder
<1>a. /\ exit' \in [Threads -> {"no", "del", "lock", "terminate", "done"}]
      /\ exit'[t] = "terminate" /\ \A u \in Threads : u # t => exit'[u] = exit[u]
  BY <1>1 DEF TaskInv, TaskTypeOK
<1>4. TaskTypeOK'
  <2>1. thrStatus' \in [Slots -> {"null", "created", "exited"}]
    BY <1>0, <1>1 DEF FreedInOrder
  <2> QED
    BY <1>0, <1>1, <1>a, <2>1 DEF TaskInv, TaskTypeOK, FreedInOrder
<1>5. ThreadsInOrder'
  <2>1. \A u \in Threads : u > filled' =>
           /\ kernel'[u] = "none" /\ slotOf'[u] = NoSlot /\ u \notin freed'
           /\ \A i \in Slots : thr'[i] # u
    <3> SUFFICES ASSUME NEW u \in Threads, u > filled
                 PROVE  /\ kernel[u] = "none" /\ slotOf[u] = NoSlot /\ u \notin MemoryFreed
                        /\ \A i \in Slots : ThrFreed[i] # u
      BY <1>1
    <3>1. /\ kernel[u] = "none" /\ slotOf[u] = NoSlot /\ u \notin freed /\ exit[u] = "no"
          /\ u # None /\ \A i \in Slots : thr[i] # u
      BY DEF TaskInv, ThreadsInOrder
    <3> QED
      BY <1>0, <3>1 DEF FreedInOrder
  <2>2. \A u \in Threads :
          /\ kernel'[u] = "none" => exit'[u] = "no" /\ slotOf'[u] = NoSlot
          /\ exit'[u] \in {"del", "lock", "terminate"} => kernel'[u] = "ready"
          /\ kernel'[u] \in {"terminated", "deleted"} => exit'[u] = "done"
    BY <1>1, <1>3, <1>a DEF TaskInv, ThreadsInOrder
  <2>3. \A u \in Threads : u \in freed' => kernel'[u] = "none" \/ exit'[u] \in {"terminate", "done"}
    BY <1>0, <1>1, <1>a DEF TaskInv, ThreadsInOrder, FreedInOrder
  <2> QED
    BY <2>1, <2>2, <2>3 DEF ThreadsInOrder
<1>6. SlotsInOrder'
  <2>1. \A i \in Slots : thrStatus'[i] = "exited" => i = s
    <3>1. \A i \in Slots : StatusFreed[i] \in {"null", "created"}
      BY <1>0 DEF FreedInOrder
    <3> QED
      BY <1>1, <1>2, <3>1
  <2>2. \A i \in Slots : Bears(i)' => slotOf'[thr'[i]] = i
    <3> SUFFICES ASSUME NEW i \in Slots, Bears(i)' PROVE slotOf[ThrFreed[i]] = i
      BY <1>1
    <3>1. ThrFreed[i] = thr[i] /\ thr[i] # None /\ slotOf[thr[i]] # NoSlot
      BY <1>0, <1>1 DEF FreedInOrder, Bears
    <3> QED
      BY <3>1 DEF TaskInv, SlotsInOrder, Bears
  <2>3. \A u \in Threads : kernel'[u] = "ready" /\ exit'[u] \in {"no", "del", "lock"} =>
          slotOf'[u] \in Slots /\ thr'[slotOf'[u]] = u
    <3> SUFFICES ASSUME NEW u \in Threads, kernel[u] = "ready", exit'[u] \in {"no", "del", "lock"}
                 PROVE  slotOf[u] \in Slots /\ ThrFreed[slotOf[u]] = u
      BY <1>1
    <3>1. exit[u] \in {"no", "del", "lock"}
      BY <1>a
    <3>2. slotOf[u] \in Slots /\ thr[slotOf[u]] = u
      BY <3>1 DEF TaskInv, SlotsInOrder
    <3> QED
      BY <1>0, <3>1, <3>2 DEF FreedInOrder
  <2> QED
    BY <1>1, <1>3, <1>a, <2>1, <2>2, <2>3 DEF SlotsInOrder
<1>7. StartInOrder' /\ NamesInOrder'
  BY <1>1, FreeingKeepsStart
<1> QED
  BY <1>4, <1>5, <1>6, <1>7 DEF TaskInv

-----------------------------------------------------------------------------
(* Every step of a task, of the shell and of the timer keeps the table in  *)
(* order.                                                                  *)
LEMMA StepInOrder == TaskInv /\ [TaskNext]_taskVars => TaskInv'
<1> SUFFICES ASSUME TaskInv, [TaskNext]_taskVars PROVE TaskInv'
  OBVIOUS
<1>1. CASE BeginStart
  BY <1>1, BeginStartKeeps
<1>2. CASE qcom_task_start
  BY <1>2, StartDelKeeps, StartClaimKeeps, StartAllocKeeps, StartFillKeeps, StartCreateKeeps,
     StartCreateFailsKeeps, StartStatusKeeps, StartErroutKeeps DEF qcom_task_start
<1>3. CASE EndStart
  BY <1>3, EndStartKeeps
<1>4. CASE qcom_task_timer_handler
  BY <1>4, SweepDelKeeps, SweepFreeKeeps DEF qcom_task_timer_handler
<1>5. ASSUME NEW t \in Threads \ Permanent, BeginExit(t) \/ qcom_task_exit(t) PROVE TaskInv'
  BY <1>5, BeginExitKeeps, ExitDelKeeps, ExitMarkKeeps, ExitTerminateKeeps DEF qcom_task_exit
<1>6. CASE UNCHANGED taskVars
  BY <1>6 DEF taskVars, TaskInv, TaskTypeOK, ThreadsInOrder, SlotsInOrder, StartInOrder,
     NamesInOrder, Bears, Counted
<1> QED
  BY <1>1, <1>2, <1>3, <1>4, <1>5, <1>6 DEF TaskNext

(* The table stays in order whatever programs do with it.                  *)
THEOREM TableIsInOrder == TaskSpec => []TaskInv
<1>1. TaskInit => TaskInv
  BY InitInOrder
<1>2. TaskInv /\ [TaskNext]_taskVars => TaskInv'
  BY StepInOrder
<1> QED
  BY <1>1, <1>2, PTL DEF TaskSpec

(* In a table in order a running task has its slot, and that one only.     *)
LEMMA InOrderKeepsSlots == TaskInv => RunningTasksKeepTheirSlot
<1> SUFFICES ASSUME TaskInv, NEW t \in Threads,
                    kernel[t] = "ready", exit[t] \in {"no", "del", "lock"}
             PROVE  {i \in Slots : thr[i] = t} = {slotOf[t]}
  BY DEF RunningTasksKeepTheirSlot
<1>1. slotOf[t] \in Slots /\ thr[slotOf[t]] = t
  BY DEF TaskInv, SlotsInOrder
<1>2. slotOf[t] # NoSlot /\ t # None
  BY <1>1, TaskAssumption
<1>3. \A i \in Slots : thr[i] = t => i = slotOf[t]
  BY <1>2 DEF TaskInv, SlotsInOrder, Bears
<1> QED
  BY <1>1, <1>3

(* Whatever programs start and end tasks, only the memory of a task that   *)
(* has called qcom_task_exit, or of a start that failed, is freed: marking *)
(* a slot by name never marks the slot of another task.                    *)
THEOREM FreedMemory == TaskSpec => []FreedMemoryIsOfExited
<1>1. TaskInv => FreedMemoryIsOfExited
  BY DEF TaskInv, TaskTypeOK, ThreadsInOrder, FreedMemoryIsOfExited
<1> QED
  BY <1>1, TableIsInOrder, PTL

-----------------------------------------------------------------------------
(* Every step of a throughput test is one that TaskManager allows: the     *)
(* tests never end a task that is ending and never start two at once.      *)
LEMMA BenchStepsAreTaskSteps == [Next]_vars => [TaskNext]_taskVars
<1> SUFFICES ASSUME [Next]_vars PROVE [TaskNext]_taskVars
  OBVIOUS
<1>1. CASE swat_bench_tx_test \/ swat_bench_rx_test
  BY <1>1 DEF swat_bench_tx_test, swat_bench_rx_test, BeginSession, TaskNext
<1>2. CASE swat_benchquit_handle
  BY <1>2 DEF swat_benchquit_handle, taskVars
<1>3. CASE ShellStarts
  BY <1>3 DEF ShellStarts, TaskNext
<1>4. CASE ShellStarted
  BY <1>4 DEF ShellStarted, TaskNext
<1>5. CASE Sweeps
  BY <1>5 DEF Sweeps, TaskNext
<1>6. ASSUME NEW k \in TxKinds, NEW i \in Streams, TimerFires(k, i) PROVE UNCHANGED taskVars
  BY <1>6 DEF TimerFires, taskVars
<1>7. ASSUME NEW t \in Sessions, Turn(t) PROVE UNCHANGED taskVars
  BY <1>7 DEF Turn, TxTurn, RxWait, RxTurn, taskVars
<1>8. ASSUME NEW t \in Sessions, Straight(t) PROVE [TaskNext]_taskVars
  <2>1. CASE Exits(t)
    BY <2>1 DEF Exits, TaskNext, Sessions
  <2>2. CASE swat_task_delete(t)
    BY <2>2 DEF swat_task_delete, TaskNext, Sessions
  <2>3. CASE Open(t) \/ FreeIndex(t) \/ swat_bench_timer_clean(t)
    BY <2>3 DEF Open, FreeIndex, swat_bench_timer_clean
  <2>4. CASE TxInit(t) \/ swat_bench_timer_init(t) \/ TxClose(t)
    BY <2>4 DEF TxInit, swat_bench_timer_init, TxClose
  <2>5. CASE RxInit(t) \/ RxAccept(t) \/ UdpRxReset(t) \/ RxStop(t) \/ RxEnd(t)
    BY <2>5 DEF RxInit, RxAccept, UdpRxReset, RxStop, RxEnd
  <2> QED
    BY <1>8, <2>1, <2>2, <2>3, <2>4, <2>5 DEF Straight
<1>9. CASE UNCHANGED vars
  BY <1>9 DEF vars
<1> QED
  BY <1>1, <1>2, <1>3, <1>4, <1>5, <1>6, <1>7, <1>8, <1>9 DEF Next

(* The throughput tests use the table as TaskManager describes it.         *)
THEOREM BenchImplementsTaskSpec == Spec => TaskSpec
<1>1. Init => TaskInit
  BY DEF Init
<1> QED
  BY <1>1, BenchStepsAreTaskSteps, PTL DEF Spec, TaskSpec

(* While throughput tests are started, ended and recycled, a task that     *)
(* runs keeps its slot, its name and its control block.                    *)
THEOREM RunningTasks == Spec => []RunningTasksKeepTheirSlot
BY BenchImplementsTaskSpec, TableIsInOrder, InOrderKeepsSlots, PTL

-----------------------------------------------------------------------------
(* The throughput tests.                                                   *)

ContextType ==
    [mode : {"time", "packets"}, size : Nat, amount : Nat, socket : {None} \cup Sessions,
     client : {None} \cup Sessions, buff : BOOLEAN, bytes : Nat, kbytes : Nat]

TaskType ==
    [kind : Kinds \cup {"none"}, index : Streams,
     pc : {"none", "open", "init", "arm", "loop", "close", "wait", "accept", "reset", "data",
           "stop", "end", "free", "clean", "exit", "gone"},
     sum : Nat, pkts : Nat, first : BOOLEAN]

BenchTypeOK ==
    /\ isUsed \in [Kinds -> [Streams -> BOOLEAN]]
    /\ cxt \in [Kinds -> [Streams -> ContextType]]
    /\ task \in [Sessions -> TaskType]
    /\ shell \in [kind : Kinds \cup {"none"}, index : Streams]

\* A session has a context from its start until it has given it back.
Works(w) == w.pc \notin {"none", "clean", "exit", "gone"}
WorksWith(t, k, i) == task[t].kind = k /\ task[t].index = i /\ Works(task[t])

Unused(c) == c.socket = None /\ c.client = None /\ ~c.buff

\* What a session at its statement has in its context and in its tallies.
Fits(t, w, c) ==
    /\ c.socket \in {None, t} /\ c.client \in {None, t}
    /\ w.pc \in {"open", "free"} => Unused(c)
    /\ w.pc \in {"init", "wait", "accept", "reset", "end"} => c.client = None /\ ~c.buff
    /\ w.pc \in {"arm", "loop", "close"} => c.client = None /\ w.kind \in TxKinds
    /\ w.kind \in TxKinds => c.size # 0
    /\ w.pc \in {"open", "init"} => w.sum = 0 /\ w.pkts = 0
    /\ w.pc \in {"arm", "loop", "close"} /\ c.mode = "packets" =>
          Total(c) = w.pkts * c.size + w.sum

SessionsFit ==
    \A t \in Sessions :
        /\ task[t].kind = "none" <=> task[t].pc \in {"none", "gone"}
        /\ kernel[t] = "none" => task[t] = NoTask
        /\ Works(task[t]) => isUsed[task[t].kind][task[t].index] /\ Fits(t, task[t], Cxt(t))

ContextsFit ==
    /\ \A t, u \in Sessions : \A k \in Kinds, i \in Streams :
          WorksWith(t, k, i) /\ WorksWith(u, k, i) => t = u
    /\ \A k \in Kinds, i \in Streams :
          (\A t \in Sessions : ~WorksWith(t, k, i)) => Unused(cxt[k][i])

\* The context the shell has taken waits for the task, or is given back.
Waits ==
    \/ start.at \in {"del", "claim", "alloc", "fill", "create", "errout"}
    \/ start.at = "done" /\ start.ret # "ok"

ShellFits ==
    /\ start.at # "idle" => shell.kind \in Kinds
    /\ Waits =>
          /\ isUsed[shell.kind][shell.index]
          /\ \A t \in Sessions : ~WorksWith(t, shell.kind, shell.index)
          /\ shell.kind \in TxKinds => cxt[shell.kind][shell.index].size # 0
    /\ start.at \in {"del", "claim", "alloc", "fill", "create", "status"} => start.ret = "ok"
    /\ start.at = "errout" => start.ret = "failed"

\* The UART thread and the shell never exit.
PermanentRun == \A t \in Permanent : kernel[t] = "ready" /\ exit[t] = "no"

BenchInv == BenchTypeOK /\ SessionsFit /\ ContextsFit /\ ShellFits /\ PermanentRun

-----------------------------------------------------------------------------
(* Quotient and remainder, carried over: the two tallies use it.           *)
LEMMA DivMod ==
    ASSUME NEW a \in Nat, NEW m \in Nat \ {0}
    PROVE  /\ a \div m \in Nat /\ a % m \in Nat
           /\ a = (m * (a \div m)) + (a % m)
OBVIOUS

Carried(q, r, n, m) ==
    /\ (r + n) \div m \in Nat /\ (r + n) % m \in Nat
    /\ (q + ((r + n) \div m)) * m + ((r + n) % m) = q * m + r + n

LEMMA Carries ==
    ASSUME NEW q \in Nat, NEW r \in Nat, NEW n \in Nat, NEW m \in Nat \ {0}
    PROVE  Carried(q, r, n, m)
<1> DEFINE a == r + n
           d == a \div m
           e == a % m
<1>1. a \in Nat
  OBVIOUS
<1>2. d \in Nat /\ e \in Nat /\ a = (m * d) + e
  <2> HIDE DEF a
  <2> QED BY <1>1, DivMod
<1> HIDE DEF d, e
<1>3. \A x, y, z \in Nat : (x + y) * z = x * z + z * y
  OBVIOUS
<1>4. (q + d) * m = q * m + m * d
  BY <1>2, <1>3
<1>5. q * m \in Nat /\ m * d \in Nat
  BY <1>2
<1>6. (q + d) * m + e = q * m + r + n
  BY <1>2, <1>4, <1>5
<1> QED BY <1>2, <1>6 DEF Carried, d, e

(* The steps of a context.                                                 *)
LEMMA CalcFacts ==
    ASSUME NEW c \in ContextType, NEW n \in Nat
    PROVE  /\ swat_bytes_calc(c, n) \in ContextType
           /\ Total(swat_bytes_calc(c, n)) = Total(c) + n
           /\ \A f \in {"mode", "size", "amount", "socket", "client", "buff"} :
                 swat_bytes_calc(c, n)[f] = c[f]
<1>1. c.bytes \in Nat /\ c.kbytes \in Nat /\ KB \in Nat \ {0}
  BY BenchAssumption DEF ContextType
<1> DEFINE b == (c.bytes + n) % KB
           d == (c.bytes + n) \div KB
           k == c.kbytes + d
<1>2. b \in Nat /\ k \in Nat /\ k * KB + b = c.kbytes * KB + c.bytes + n
  <2>1. Carried(c.kbytes, c.bytes, n, KB)
    BY <1>1, Carries
  <2> QED BY <1>1, <2>1 DEF Carried
<1>3. swat_bytes_calc(c, n) = [c EXCEPT !.bytes = b, !.kbytes = k]
  BY DEF swat_bytes_calc
<1> HIDE DEF b, k
<1> DEFINE new == [c EXCEPT !.bytes = b, !.kbytes = k]
<1>4. new \in ContextType /\ new.bytes = b /\ new.kbytes = k
      /\ \A f \in {"mode", "size", "amount", "socket", "client", "buff"} : new[f] = c[f]
  BY <1>2 DEF ContextType
<1> QED BY <1>2, <1>3, <1>4 DEF Total

LEMMA ResetFacts ==
    ASSUME NEW c \in ContextType
    PROVE  /\ CalcReset(c) \in ContextType /\ Total(CalcReset(c)) = 0
           /\ \A f \in {"mode", "size", "amount", "socket", "client", "buff"} :
                 CalcReset(c)[f] = c[f]
           /\ Closed(c) \in ContextType /\ Closed(c).socket = None
           /\ \A f \in {"mode", "size", "amount", "client", "buff", "bytes", "kbytes"} :
                 Closed(c)[f] = c[f]
           /\ \A mode \in {"time", "packets"}, size, amount \in Nat :
                 LET d == Configured(c, mode, size, amount)
                 IN  /\ d \in ContextType
                     /\ d.mode = mode /\ d.size = size
                     /\ \A f \in {"socket", "client", "buff"} : d[f] = c[f]
<1>1. KB \in Nat
  BY BenchAssumption
<1>2. /\ CalcReset(c) \in ContextType /\ Total(CalcReset(c)) = 0
      /\ \A f \in {"mode", "size", "amount", "socket", "client", "buff"} :
            CalcReset(c)[f] = c[f]
  <2>1. /\ CalcReset(c) \in ContextType
        /\ CalcReset(c).kbytes = 0 /\ CalcReset(c).bytes = 0
        /\ \A f \in {"mode", "size", "amount", "socket", "client", "buff"} :
              CalcReset(c)[f] = c[f]
    BY DEF ContextType, CalcReset
  <2> QED BY <1>1, <2>1 DEF Total
<1>3. /\ Closed(c) \in ContextType /\ Closed(c).socket = None
      /\ \A f \in {"mode", "size", "amount", "client", "buff", "bytes", "kbytes"} :
            Closed(c)[f] = c[f]
  BY DEF ContextType, Closed
<1>4. ASSUME NEW mode \in {"time", "packets"}, NEW size \in Nat, NEW amount \in Nat
      PROVE  LET d == Configured(c, mode, size, amount)
             IN  /\ d \in ContextType
                 /\ d.mode = mode /\ d.size = size
                 /\ \A f \in {"socket", "client", "buff"} : d[f] = c[f]
  BY DEF ContextType, Configured
<1> QED BY <1>2, <1>3, <1>4

LEMMA BufferFacts ==
    ASSUME NEW c \in ContextType, NEW v \in BOOLEAN, NEW s \in {None} \cup Sessions
    PROVE  /\ [c EXCEPT !.buff = v] \in ContextType
           /\ [c EXCEPT !.buff = v].buff = v
           /\ \A f \in {"mode", "size", "amount", "socket", "client", "bytes", "kbytes"} :
                 [c EXCEPT !.buff = v][f] = c[f]
           /\ [c EXCEPT !.socket = s] \in ContextType
           /\ [c EXCEPT !.socket = s].socket = s
           /\ \A f \in {"mode", "size", "amount", "client", "buff", "bytes", "kbytes"} :
                 [c EXCEPT !.socket = s][f] = c[f]
           /\ [c EXCEPT !.client = s] \in ContextType
           /\ [c EXCEPT !.client = s].client = s
           /\ \A f \in {"mode", "size", "amount", "socket", "buff", "bytes", "kbytes"} :
                 [c EXCEPT !.client = s][f] = c[f]
BY DEF ContextType

-----------------------------------------------------------------------------
(* A session that works leaves the contexts of all others alone.           *)

\* What a step of the session t makes of its local variables and context.
SessionMoves(t, w, c) ==
    /\ t \in Sessions /\ Works(task[t])
    /\ w \in TaskType /\ w.kind = task[t].kind /\ w.index = task[t].index /\ Works(w)
    /\ c \in ContextType
    /\ Fits(t, w, c)
    /\ task' = [task EXCEPT ![t] = w]
    /\ cxt' = [cxt EXCEPT ![task[t].kind][task[t].index] = c]
    /\ UNCHANGED <<taskVars, isUsed, shell>>

LEMMA WorkingSession ==
    ASSUME BenchInv, NEW t \in Sessions, Works(task[t])
    PROVE  /\ task[t] \in TaskType /\ task[t].kind \in Kinds /\ task[t].index \in Streams
           /\ Cxt(t) \in ContextType /\ Fits(t, task[t], Cxt(t))
           /\ isUsed[task[t].kind][task[t].index]
           /\ kernel[t] # "none"
           /\ WorksWith(t, task[t].kind, task[t].index)
<1>1. task[t] \in TaskType
  BY DEF BenchInv, BenchTypeOK
<1>2. task[t].kind \in Kinds /\ task[t].index \in Streams
  BY <1>1 DEF BenchInv, SessionsFit, Works, TaskType
<1>3. Cxt(t) \in ContextType
  BY <1>2 DEF BenchInv, BenchTypeOK, Cxt
<1>4. kernel[t] # "none"
  BY DEF BenchInv, SessionsFit, Works, NoTask
<1> QED BY <1>1, <1>2, <1>3, <1>4 DEF BenchInv, SessionsFit, WorksWith

LEMMA SessionKeeps ==
    ASSUME BenchInv, NEW t, NEW w, NEW c, SessionMoves(t, w, c)
    PROVE  BenchInv'
<1> DEFINE k == task[t].kind
           i == task[t].index
<1>1. t \in Sessions /\ Works(task[t])
  BY DEF SessionMoves
<1>2. /\ task[t] \in TaskType /\ k \in Kinds /\ i \in Streams
      /\ kernel[t] # "none" /\ isUsed[k][i] /\ WorksWith(t, k, i)
  BY <1>1, WorkingSession
<1>3. /\ w \in TaskType /\ w.kind = k /\ w.index = i /\ Works(w)
      /\ c \in ContextType /\ Fits(t, w, c)
      /\ UNCHANGED <<start, kernel, exit, isUsed, shell>>
  BY DEF SessionMoves, taskVars
<1>4. /\ task' \in [Sessions -> TaskType]
      /\ task'[t] = w /\ \A u \in Sessions : u # t => task'[u] = task[u]
  BY <1>1, <1>3 DEF SessionMoves, BenchInv, BenchTypeOK
<1>5. /\ cxt' \in [Kinds -> [Streams -> ContextType]]
      /\ cxt'[k][i] = c
      /\ \A l \in Kinds, j \in Streams : (l # k \/ j # i) => cxt'[l][j] = cxt[l][j]
  <2>1. cxt' = [cxt EXCEPT ![k][i] = c] /\ cxt \in [Kinds -> [Streams -> ContextType]]
    BY DEF SessionMoves, BenchInv, BenchTypeOK
  <2> QED BY <2>1, <1>2, <1>3
<1>6. \A u \in Sessions : \A l \in Kinds, j \in Streams :
        WorksWith(u, l, j)' <=> WorksWith(u, l, j)
  BY <1>1, <1>3, <1>4 DEF WorksWith
<1>7. BenchTypeOK'
  BY <1>3, <1>4, <1>5 DEF BenchInv, BenchTypeOK
<1>8. SessionsFit'
  <2> SUFFICES ASSUME NEW u \in Sessions
               PROVE  /\ task'[u].kind = "none" <=> task'[u].pc \in {"none", "gone"}
                      /\ kernel'[u] = "none" => task'[u] = NoTask
                      /\ Works(task'[u]) => isUsed'[task'[u].kind][task'[u].index]
                                            /\ Fits(u, task'[u], Cxt(u)')
    BY DEF SessionsFit
  <2>1. CASE u = t
    <3>1. task'[u] = w /\ Cxt(u)' = c
      BY <1>3, <1>4, <1>5, <2>1 DEF Cxt
    <3>2. w.kind # "none" /\ w.pc \notin {"none", "gone"}
      BY <1>2, <1>3 DEF Works, Kinds, TxKinds
    <3> QED BY <1>2, <1>3, <2>1, <3>1, <3>2
  <2>2. CASE u # t
    <3>1. task'[u] = task[u]
      BY <1>4, <2>2
    <3>2. ASSUME Works(task[u]) PROVE Cxt(u)' = Cxt(u)
      <4>1. task[u].kind \in Kinds /\ task[u].index \in Streams /\ WorksWith(u, task[u].kind, task[u].index)
        BY <3>2, WorkingSession
      <4>2. task[u].kind # k \/ task[u].index # i
        BY <4>1, <1>1, <1>2, <2>2 DEF BenchInv, ContextsFit
      <4> QED BY <3>1, <4>1, <4>2, <1>5 DEF Cxt
    <3> QED BY <3>1, <3>2, <1>3 DEF BenchInv, SessionsFit
  <2> QED BY <2>1, <2>2
<1>9. ContextsFit'
  <2>1. \A u, v \in Sessions : \A l \in Kinds, j \in Streams :
          WorksWith(u, l, j)' /\ WorksWith(v, l, j)' => u = v
    BY <1>6 DEF BenchInv, ContextsFit
  <2>2. ASSUME NEW l \in Kinds, NEW j \in Streams, \A u \in Sessions : ~WorksWith(u, l, j)'
        PROVE  Unused(cxt'[l][j])
    <3>1. \A u \in Sessions : ~WorksWith(u, l, j)
      BY <1>6, <2>2
    <3>2. l # k \/ j # i
      BY <1>1, <1>2, <3>1
    <3> QED BY <1>5, <3>1, <3>2 DEF BenchInv, ContextsFit
  <2> QED BY <2>1, <2>2 DEF ContextsFit
<1>10. ShellFits'
  <2>1. start.at # "idle" => shell.kind \in Kinds /\ shell.index \in Streams
    BY DEF BenchInv, ShellFits, BenchTypeOK
  <2>2. Waits => start.at # "idle"
    BY DEF Waits
  <2>3. ASSUME Waits
        PROVE  /\ cxt'[shell.kind][shell.index] = cxt[shell.kind][shell.index]
               /\ \A u \in Sessions : ~WorksWith(u, shell.kind, shell.index)'
    <3>1. \A u \in Sessions : ~WorksWith(u, shell.kind, shell.index)
      BY <2>3 DEF BenchInv, ShellFits
    <3>2. shell.kind # k \/ shell.index # i
      BY <1>1, <1>2, <3>1
    <3>3. cxt'[shell.kind][shell.index] = cxt[shell.kind][shell.index]
      BY <1>5, <2>1, <2>2, <2>3, <3>2
    <3>4. \A u \in Sessions : ~WorksWith(u, shell.kind, shell.index)'
      BY <1>3, <1>6, <2>1, <2>2, <2>3, <3>1
    <3> QED BY <3>3, <3>4
  <2> QED BY <1>3, <2>3 DEF BenchInv, ShellFits, Waits
<1>11. PermanentRun'
  BY <1>3 DEF BenchInv, PermanentRun
<1> QED BY <1>7, <1>8, <1>9, <1>10, <1>11 DEF BenchInv

-----------------------------------------------------------------------------
(* The steps of a session that has its context.                            *)

WorkPcs == {"open", "init", "arm", "loop", "close", "wait", "accept", "reset", "data",
            "stop", "end", "free"}

\* The context the session leaves behind: a new one, or its own as it was.
Leaves(t, c) == SetCxt(t, c) \/ (UNCHANGED cxt /\ c = Cxt(t))

\* Which of its own variables a step of a session leaves alone.
Keeps(t) == UNCHANGED <<taskVars, isUsed, shell>>

LEMMA MovesOn ==
    ASSUME BenchInv, NEW t \in Sessions, Works(task[t]),
           NEW w, w \in TaskType, w.kind = task[t].kind, w.index = task[t].index, Works(w),
           task' = [task EXCEPT ![t] = w],
           NEW c, c \in ContextType, Leaves(t, c), Fits(t, w, c), Keeps(t)
    PROVE  BenchInv'
<1> DEFINE k == task[t].kind
           i == task[t].index
<1>1. k \in Kinds /\ i \in Streams /\ cxt \in [Kinds -> [Streams -> ContextType]]
  BY WorkingSession DEF BenchInv, BenchTypeOK
<1>2. cxt' = [cxt EXCEPT ![k][i] = c]
  <2>1. CASE SetCxt(t, c)
    BY <2>1 DEF SetCxt
  <2>2. CASE UNCHANGED cxt /\ c = Cxt(t)
    BY <1>1, <2>2 DEF Cxt
  <2> QED BY <2>1, <2>2 DEF Leaves
<1>3. SessionMoves(t, w, c)
  BY <1>2 DEF SessionMoves, Keeps
<1> QED BY <1>3, SessionKeeps

\* The session may be at the statement pc with what it has in c.
FitsAt(t, pc, c) ==
    \A w \in TaskType :
        w.pc = pc /\ w.kind = task[t].kind /\ w.sum = task[t].sum /\ w.pkts = task[t].pkts
            => Fits(t, w, c)

(* A step that changes nothing but the statement the session is at.        *)
LEMMA GoesOn ==
    ASSUME BenchInv, NEW t \in Sessions, Works(task[t]), NEW pc \in WorkPcs, Goto(t, pc),
           NEW c \in ContextType, Leaves(t, c), FitsAt(t, pc, c), Keeps(t)
    PROVE  BenchInv'
<1> DEFINE w == [task[t] EXCEPT !.pc = pc]
<1>1. task[t] \in TaskType /\ task \in [Sessions -> TaskType]
  BY WorkingSession DEF BenchInv, BenchTypeOK
<1>2. /\ w \in TaskType /\ w.pc = pc
      /\ \A f \in {"kind", "index", "sum", "pkts"} : w[f] = task[t][f]
  BY <1>1 DEF TaskType, WorkPcs
<1>3. task' = [task EXCEPT ![t] = w]
  BY <1>1 DEF Goto
<1> HIDE DEF w
<1>4. Fits(t, w, c) /\ w.kind = task[t].kind /\ w.index = task[t].index /\ Works(w)
  BY <1>2 DEF FitsAt, WorkPcs, Works
<1> QED BY <1>2, <1>3, <1>4, MovesOn

LEMMA OpenKeeps == ASSUME BenchInv, NEW t \in Sessions, Open(t) PROVE BenchInv'
<1>1. Works(task[t]) /\ task[t].pc = "open" /\ Keeps(t)
  BY DEF Open, At, Works, Keeps
<1>2. Cxt(t) \in ContextType /\ Fits(t, task[t], Cxt(t))
  BY <1>1, WorkingSession
<1>3. CASE SetCxt(t, [Cxt(t) EXCEPT !.socket = t]) /\ Goto(t, "init")
  <2> DEFINE c == [Cxt(t) EXCEPT !.socket = t]
  <2>1. c \in ContextType /\ c.socket = t
        /\ \A f \in {"size", "client", "buff"} : c[f] = Cxt(t)[f]
    BY <1>2 DEF ContextType
  <2>2. Leaves(t, c) /\ "init" \in WorkPcs
    BY <1>3 DEF Leaves, WorkPcs
  <2> HIDE DEF c
  <2>3. FitsAt(t, "init", c)
    BY <1>1, <1>2, <2>1 DEF FitsAt, Fits, Unused
  <2> QED BY <1>1, <1>3, <2>1, <2>2, <2>3, GoesOn
<1>4. CASE SetCxt(t, Closed(Cxt(t))) /\ Goto(t, "free")
  <2> DEFINE c == Closed(Cxt(t))
  <2>1. c \in ContextType /\ c.socket = None
        /\ \A f \in {"size", "client", "buff"} : c[f] = Cxt(t)[f]
    BY <1>2, ResetFacts
  <2>2. Leaves(t, c) /\ "free" \in WorkPcs
    BY <1>4 DEF Leaves, WorkPcs
  <2> HIDE DEF c
  <2>3. FitsAt(t, "free", c)
    BY <1>1, <1>2, <2>1 DEF FitsAt, Fits, Unused
  <2> QED BY <1>1, <1>4, <2>1, <2>2, <2>3, GoesOn
<1> QED BY <1>3, <1>4 DEF Open

LEMMA TxInitKeeps == ASSUME BenchInv, NEW t \in Sessions, TxInit(t) PROVE BenchInv'
<1>1. Works(task[t]) /\ task[t].pc = "init" /\ task[t].kind \in TxKinds /\ Keeps(t)
  BY DEF TxInit, At, Works, Keeps
<1>2. Cxt(t) \in ContextType /\ Fits(t, task[t], Cxt(t))
  BY <1>1, WorkingSession
<1> DEFINE r == CalcReset(Cxt(t))
<1>3. /\ r \in ContextType /\ Total(r) = 0
      /\ \A f \in {"mode", "size", "amount", "socket", "client", "buff"} : r[f] = Cxt(t)[f]
  BY <1>2, ResetFacts
<1>4. CASE /\ SetCxt(t, [r EXCEPT !.buff = TRUE])
           /\ Goto(t, IF Cxt(t).mode = "time" THEN "arm" ELSE "loop")
  <2> DEFINE c == [r EXCEPT !.buff = TRUE]
             pc == IF Cxt(t).mode = "time" THEN "arm" ELSE "loop"
  <2>1. /\ c \in ContextType
        /\ \A f \in {"mode", "size", "socket", "client", "bytes", "kbytes"} : c[f] = r[f]
    <3> HIDE DEF r
    <3> QED BY <1>3 DEF ContextType
  <2>2. Leaves(t, c) /\ pc \in {"arm", "loop"} /\ Goto(t, pc)
    BY <1>4 DEF Leaves
  <2> HIDE DEF c, pc, r
  <2>3. Total(c) = 0 /\ pc \in WorkPcs
    BY <1>3, <2>1, <2>2 DEF Total, WorkPcs
  <2>4. 0 = 0 * c.size + 0
    BY <2>1 DEF ContextType
  <2>5. FitsAt(t, pc, c)
    BY <1>1, <1>2, <1>3, <2>1, <2>2, <2>3, <2>4 DEF FitsAt, Fits, Unused
  <2> QED BY <1>1, <2>1, <2>2, <2>3, <2>5, GoesOn
<1>5. CASE SetCxt(t, Closed(r)) /\ Goto(t, "free")
  <2> DEFINE c == Closed(r)
  <2>1. /\ c \in ContextType /\ c.socket = None
        /\ \A f \in {"mode", "size", "client", "buff"} : c[f] = r[f]
    <3> HIDE DEF r
    <3> QED BY <1>3, ResetFacts
  <2>2. Leaves(t, c) /\ "free" \in WorkPcs
    BY <1>5 DEF Leaves, WorkPcs
  <2> HIDE DEF c, r
  <2>3. FitsAt(t, "free", c)
    BY <1>1, <1>2, <1>3, <2>1 DEF FitsAt, Fits, Unused
  <2> QED BY <1>1, <1>5, <2>1, <2>2, <2>3, GoesOn
<1> QED BY <1>4, <1>5 DEF TxInit

LEMMA TimerInitKeeps == ASSUME BenchInv, NEW t \in Sessions, swat_bench_timer_init(t) PROVE BenchInv'
<1>1. Works(task[t]) /\ task[t].pc = "arm" /\ Keeps(t)
  BY DEF swat_bench_timer_init, At, Works, Keeps
<1>2. Cxt(t) \in ContextType /\ Fits(t, task[t], Cxt(t))
  BY <1>1, WorkingSession
<1>3. FitsAt(t, "loop", Cxt(t))
  BY <1>1, <1>2 DEF FitsAt, Fits
<1>4. Leaves(t, Cxt(t)) /\ Goto(t, "loop") /\ "loop" \in WorkPcs
  BY DEF swat_bench_timer_init, Leaves, WorkPcs
<1> QED BY <1>1, <1>2, <1>3, <1>4, GoesOn

(* What is sent is added to both tallies of a transmit test.               *)
LEMMA TxSendsKeeps ==
    ASSUME BenchInv, NEW t \in Sessions, task[t].pc = "loop", Keeps(t),
           NEW n \in 1 .. Cxt(t).size, TxSends(t, n)
    PROVE  BenchInv'
<1>1. Works(task[t])
  BY DEF Works
<1>2. /\ Cxt(t) \in ContextType /\ Fits(t, task[t], Cxt(t)) /\ task[t] \in TaskType
      /\ task \in [Sessions -> TaskType]
  BY <1>1, WorkingSession DEF BenchInv, BenchTypeOK
<1>3. Cxt(t).size \in Nat \ {0} /\ task[t].sum \in Nat /\ task[t].pkts \in Nat /\ n \in Nat
  BY <1>2 DEF Fits, ContextType, TaskType
<1> DEFINE c == swat_bytes_calc(Cxt(t), n)
           packets == Cxt(t).mode = "packets"
           sum == IF packets THEN (task[t].sum + n) % Cxt(t).size ELSE task[t].sum
           pkts == IF packets THEN Packets(t, n) ELSE task[t].pkts
           pc == IF TxEnds(t, n) THEN "close" ELSE "loop"
           w == [task[t] EXCEPT !.sum = sum, !.pkts = pkts, !.pc = pc]
<1>4. /\ c \in ContextType /\ Total(c) = Total(Cxt(t)) + n
      /\ \A f \in {"mode", "size", "amount", "socket", "client", "buff"} : c[f] = Cxt(t)[f]
  BY <1>2, <1>3, CalcFacts
<1>5. Carried(task[t].pkts, task[t].sum, n, Cxt(t).size)
  BY <1>3, Carries
<1>6. sum \in Nat /\ pkts \in Nat /\ pc \in {"loop", "close"}
  BY <1>3, <1>5 DEF Carried, Packets
<1>7. packets => pkts * Cxt(t).size + sum = task[t].pkts * Cxt(t).size + task[t].sum + n
  BY <1>5 DEF Carried, Packets
<1>8. task' = [task EXCEPT ![t] = w] /\ Leaves(t, c)
  BY <1>2 DEF TxSends, Leaves
<1> HIDE DEF sum, pkts, pc
<1>9. /\ w \in TaskType /\ w.kind = task[t].kind /\ w.index = task[t].index
      /\ w.pc = pc /\ w.sum = sum /\ w.pkts = pkts
  BY <1>2, <1>6 DEF TaskType
<1> HIDE DEF w, c
<1>10. Works(w)
  BY <1>6, <1>9 DEF Works
<1>11. packets => Total(Cxt(t)) = task[t].pkts * Cxt(t).size + task[t].sum
  BY <1>2 DEF Fits
<1>12. c.mode = "packets" => Total(c) = w.pkts * c.size + w.sum
  BY <1>4, <1>7, <1>9, <1>11
<1>13. Fits(t, w, c)
  BY <1>2, <1>4, <1>6, <1>9, <1>12 DEF Fits
<1> QED BY <1>1, <1>4, <1>8, <1>9, <1>10, <1>13, MovesOn

LEMMA TxTurnKeeps == ASSUME BenchInv, NEW t \in Sessions, TxTurn(t) PROVE BenchInv'
<1>1. Works(task[t]) /\ task[t].pc = "loop" /\ Keeps(t)
  BY DEF TxTurn, At, Works, Keeps
<1>2. Cxt(t) \in ContextType /\ Fits(t, task[t], Cxt(t))
  BY <1>1, WorkingSession
<1>3. CASE \E n \in 1 .. Cxt(t).size : TxSends(t, n)
  BY <1>1, <1>3, TxSendsKeeps
<1>4. ASSUME NEW pc \in {"close", "loop"}, Goto(t, pc), UNCHANGED cxt PROVE BenchInv'
  <2>1. FitsAt(t, pc, Cxt(t))
    BY <1>1, <1>2 DEF FitsAt, Fits
  <2>2. Leaves(t, Cxt(t)) /\ pc \in WorkPcs
    BY <1>4 DEF Leaves, WorkPcs
  <2> QED BY <1>1, <1>2, <1>4, <2>1, <2>2, GoesOn
<1>5. CASE TxSendsNothing(t) \/ TxFails(t)
  BY <1>4, <1>5 DEF TxSendsNothing, TxFails
<1>6. CASE quitBenchVal
  BY <1>4, <1>6 DEF TxTurn
<1> QED BY <1>3, <1>5, <1>6 DEF TxTurn

LEMMA TxCloseKeeps == ASSUME BenchInv, NEW t \in Sessions, TxClose(t) PROVE BenchInv'
<1>1. Works(task[t]) /\ task[t].pc = "close" /\ Keeps(t)
  BY DEF TxClose, At, Works, Keeps
<1>2. Cxt(t) \in ContextType /\ Fits(t, task[t], Cxt(t))
  BY <1>1, WorkingSession
<1> DEFINE d == Closed(Cxt(t))
           r == CalcReset(d)
           c == [r EXCEPT !.buff = FALSE]
<1>3. d \in ContextType /\ d.socket = None /\ d.size = Cxt(t).size /\ d.client = Cxt(t).client
  BY <1>2, ResetFacts
<1>4. r \in ContextType /\ r.socket = None /\ r.size = d.size /\ r.client = d.client
  <2> HIDE DEF d
  <2> QED BY <1>3, ResetFacts
<1>5. c \in ContextType /\ c.socket = None /\ c.size = r.size /\ c.client = r.client /\ ~c.buff
  <2> HIDE DEF r
  <2> QED BY <1>4 DEF ContextType
<1>6. Leaves(t, c) /\ Goto(t, "free") /\ "free" \in WorkPcs
  BY DEF TxClose, Leaves, WorkPcs
<1> HIDE DEF c, d, r
<1>7. FitsAt(t, "free", c)
  BY <1>1, <1>2, <1>3, <1>4, <1>5 DEF FitsAt, Fits, Unused
<1> QED BY <1>1, <1>5, <1>6, <1>7, GoesOn

(* The steps of a receive test outside of its loop.                        *)
LEMMA RxInitKeeps == ASSUME BenchInv, NEW t \in Sessions, RxInit(t) PROVE BenchInv'
<1>1. Works(task[t]) /\ task[t].pc = "init" /\ Keeps(t)
  BY DEF RxInit, At, Works, Keeps
<1>2. Cxt(t) \in ContextType /\ Fits(t, task[t], Cxt(t))
  BY <1>1, WorkingSession
<1>3. PICK pc \in {"wait", "end"} : Goto(t, pc) /\ UNCHANGED cxt
  BY DEF RxInit
<1>4. FitsAt(t, pc, Cxt(t))
  BY <1>1, <1>2, <1>3 DEF FitsAt, Fits
<1>5. Leaves(t, Cxt(t)) /\ pc \in WorkPcs
  BY <1>3 DEF Leaves, WorkPcs
<1> QED BY <1>1, <1>2, <1>3, <1>4, <1>5, GoesOn

LEMMA RxWaitKeeps == ASSUME BenchInv, NEW t \in Sessions, RxWait(t) PROVE BenchInv'
<1>1. Works(task[t]) /\ task[t].pc = "wait" /\ Keeps(t) /\ UNCHANGED cxt
  BY DEF RxWait, At, Works, Keeps
<1>2. Cxt(t) \in ContextType /\ Fits(t, task[t], Cxt(t)) /\ task[t] \in TaskType
  BY <1>1, WorkingSession
<1>3. PICK pc \in {"wait", "end", "accept", "reset"} : Goto(t, pc)
  <2>1. task' = task => Goto(t, "wait")
    BY <1>1, <1>2 DEF Goto, BenchInv, BenchTypeOK, TaskType
  <2> QED BY <2>1 DEF RxWait
<1>4. FitsAt(t, pc, Cxt(t))
  BY <1>1, <1>2, <1>3 DEF FitsAt, Fits
<1>5. Leaves(t, Cxt(t)) /\ pc \in WorkPcs
  BY <1>1, <1>3 DEF Leaves, WorkPcs
<1> QED BY <1>1, <1>2, <1>3, <1>4, <1>5, GoesOn

(* A client is accepted, or packets come, and there is a buffer for them.  *)
LEMMA StartsReceivingKeeps ==
    ASSUME BenchInv, NEW t \in Sessions, Works(task[t]), Keeps(t),
           NEW d \in ContextType, d.client \in {None, t},
           d.socket = Cxt(t).socket, d.size = Cxt(t).size,
           StartsReceiving(t, d)
    PROVE  BenchInv'
<1>1. /\ Cxt(t) \in ContextType /\ Fits(t, task[t], Cxt(t)) /\ task[t] \in TaskType
      /\ task \in [Sessions -> TaskType]
  BY WorkingSession DEF BenchInv, BenchTypeOK
<1> DEFINE r == CalcReset(d)
           c == [r EXCEPT !.buff = TRUE]
           w == [task[t] EXCEPT !.pc = "data", !.first = TRUE]
<1>2. r \in ContextType /\ \A f \in {"socket", "size", "client"} : r[f] = d[f]
  BY ResetFacts
<1>3. c \in ContextType /\ c.socket = r.socket /\ c.size = r.size /\ c.client = r.client
  <2> HIDE DEF r
  <2> QED BY <1>2 DEF ContextType
<1>4. /\ w \in TaskType /\ w.kind = task[t].kind /\ w.index = task[t].index
      /\ w.pc = "data" /\ Works(w)
  BY <1>1 DEF TaskType, Works
<1>5. Leaves(t, c) /\ task' = [task EXCEPT ![t] = w]
  BY <1>1 DEF StartsReceiving, Leaves
<1> HIDE DEF c, r, w
<1>6. Fits(t, w, c)
  BY <1>1, <1>2, <1>3, <1>4 DEF Fits
<1> QED BY <1>3, <1>4, <1>5, <1>6, MovesOn

LEMMA RxAcceptKeeps == ASSUME BenchInv, NEW t \in Sessions, RxAccept(t) PROVE BenchInv'
<1>1. Works(task[t]) /\ task[t].pc = "accept" /\ Keeps(t)
  BY DEF RxAccept, At, Works, Keeps
<1>2. Cxt(t) \in ContextType /\ Fits(t, task[t], Cxt(t))
  BY <1>1, WorkingSession
<1>3. CASE StartsReceiving(t, [Cxt(t) EXCEPT !.client = t])
  <2> DEFINE d == [Cxt(t) EXCEPT !.client = t]
  <2>1. d \in ContextType /\ d.client = t /\ d.socket = Cxt(t).socket /\ d.size = Cxt(t).size
    BY <1>2 DEF ContextType
  <2>2. StartsReceiving(t, d)
    BY <1>3
  <2> HIDE DEF d
  <2> QED BY <1>1, <2>1, <2>2, StartsReceivingKeeps
<1>4. CASE SetCxt(t, [CalcReset(Cxt(t)) EXCEPT !.client = t]) /\ Goto(t, "stop")
  <2> DEFINE r == CalcReset(Cxt(t))
             c == [r EXCEPT !.client = t]
  <2>1. r \in ContextType /\ \A f \in {"socket", "size"} : r[f] = Cxt(t)[f]
    BY <1>2, ResetFacts
  <2>2. c \in ContextType /\ c.client = t /\ c.socket = r.socket /\ c.size = r.size
    <3> HIDE DEF r
    <3> QED BY <2>1 DEF ContextType
  <2>3. Leaves(t, c) /\ "stop" \in WorkPcs
    BY <1>4 DEF Leaves, WorkPcs
  <2> HIDE DEF c, r
  <2>4. FitsAt(t, "stop", c)
    BY <1>2, <2>1, <2>2 DEF FitsAt, Fits
  <2> QED BY <1>1, <1>4, <2>2, <2>3, <2>4, GoesOn
<1>5. CASE UNCHANGED cxt /\ Goto(t, "end")
  <2>1. FitsAt(t, "end", Cxt(t))
    BY <1>1, <1>2 DEF FitsAt, Fits
  <2>2. Leaves(t, Cxt(t)) /\ "end" \in WorkPcs
    BY <1>5 DEF Leaves, WorkPcs
  <2> QED BY <1>1, <1>2, <1>5, <2>1, <2>2, GoesOn
<1> QED BY <1>3, <1>4, <1>5 DEF RxAccept

LEMMA UdpRxResetKeeps == ASSUME BenchInv, NEW t \in Sessions, UdpRxReset(t) PROVE BenchInv'
<1>1. Works(task[t]) /\ task[t].pc = "reset" /\ Keeps(t)
  BY DEF UdpRxReset, At, Works, Keeps
<1>2. Cxt(t) \in ContextType /\ Fits(t, task[t], Cxt(t))
  BY <1>1, WorkingSession
<1>3. CASE StartsReceiving(t, Cxt(t))
  <2>1. Cxt(t).client \in {None, t}
    BY <1>2 DEF Fits
  <2> QED BY <1>1, <1>2, <1>3, <2>1, StartsReceivingKeeps
<1>4. CASE SetCxt(t, CalcReset(Cxt(t))) /\ Goto(t, "wait")
  <2> DEFINE c == CalcReset(Cxt(t))
  <2>1. c \in ContextType /\ \A f \in {"socket", "size", "client", "buff"} : c[f] = Cxt(t)[f]
    BY <1>2, ResetFacts
  <2>2. Leaves(t, c) /\ "wait" \in WorkPcs
    BY <1>4 DEF Leaves, WorkPcs
  <2> HIDE DEF c
  <2>3. FitsAt(t, "wait", c)
    BY <1>1, <1>2, <2>1 DEF FitsAt, Fits
  <2> QED BY <1>1, <1>4, <2>1, <2>2, <2>3, GoesOn
<1> QED BY <1>3, <1>4 DEF UdpRxReset

(* The loop of a receive test: what comes is counted, or the loop ends.    *)
LEMMA RxCountsKeeps ==
    ASSUME BenchInv, NEW t \in Sessions, task[t].pc = "data", Keeps(t),
           NEW n \in Nat, SetCxt(t, swat_bytes_calc(Cxt(t), n)),
           NEW first \in BOOLEAN, task' = [task EXCEPT ![t].pc = "data", ![t].first = first]
    PROVE  BenchInv'
<1>1. Works(task[t])
  BY DEF Works
<1>2. /\ Cxt(t) \in ContextType /\ Fits(t, task[t], Cxt(t)) /\ task[t] \in TaskType
      /\ task \in [Sessions -> TaskType]
  BY <1>1, WorkingSession DEF BenchInv, BenchTypeOK
<1> DEFINE c == swat_bytes_calc(Cxt(t), n)
           w == [task[t] EXCEPT !.pc = "data", !.first = first]
<1>3. /\ c \in ContextType
      /\ \A f \in {"mode", "size", "amount", "socket", "client", "buff"} : c[f] = Cxt(t)[f]
  BY <1>2, CalcFacts
<1>4. /\ w \in TaskType /\ w.kind = task[t].kind /\ w.index = task[t].index
      /\ w.pc = "data" /\ Works(w)
  BY <1>2 DEF TaskType, Works
<1>5. Leaves(t, c) /\ task' = [task EXCEPT ![t] = w]
  BY <1>2 DEF Leaves
<1> HIDE DEF c, w
<1>6. Fits(t, w, c)
  BY <1>2, <1>3, <1>4 DEF Fits
<1> QED BY <1>1, <1>3, <1>4, <1>5, <1>6, MovesOn

LEMMA RxTurnKeeps == ASSUME BenchInv, NEW t \in Sessions, RxTurn(t) PROVE BenchInv'
<1>1. Works(task[t]) /\ task[t].pc = "data" /\ Keeps(t)
  BY DEF RxTurn, At, Works, Keeps
<1>2. /\ Cxt(t) \in ContextType /\ Fits(t, task[t], Cxt(t)) /\ task[t] \in TaskType
      /\ task \in [Sessions -> TaskType]
  BY <1>1, WorkingSession DEF BenchInv, BenchTypeOK
<1>3. ASSUME NEW pc \in {"stop", "data"}, Goto(t, pc), UNCHANGED cxt PROVE BenchInv'
  <2>1. FitsAt(t, pc, Cxt(t))
    BY <1>1, <1>2 DEF FitsAt, Fits
  <2>2. Leaves(t, Cxt(t)) /\ pc \in WorkPcs
    BY <1>3 DEF Leaves, WorkPcs
  <2> QED BY <1>1, <1>2, <1>3, <2>1, <2>2, GoesOn
<1>4. CASE RxNothing(t) \/ UdpIgnores(t) \/ UdpEnds(t)
  BY <1>3, <1>4 DEF RxNothing, UdpIgnores, UdpEnds
<1>5. CASE TcpReceives(t)
  <2>1. PICK n \in 1 .. RxSize : SetCxt(t, swat_bytes_calc(Cxt(t), n))
    BY <1>5 DEF TcpReceives
  <2> DEFINE first == task[t].first
  <2>2. first \in BOOLEAN /\ task' = [task EXCEPT ![t].pc = "data", ![t].first = first]
    BY <1>2, <1>5 DEF TcpReceives, Goto, TaskType
  <2>3. n \in Nat
    OBVIOUS
  <2> HIDE DEF first
  <2> QED BY <1>1, <2>1, <2>2, <2>3, RxCountsKeeps
<1>6. CASE UdpReceives(t)
  <2>1. PICK long \in BOOLEAN :
           /\ SetCxt(t, swat_bytes_calc(Cxt(t), RxSize))
           /\ task' = [task EXCEPT ![t].pc = "data", ![t].first = @ /\ ~long]
    BY <1>6 DEF UdpReceives
  <2> DEFINE first == task[t].first /\ ~long
  <2>2. first \in BOOLEAN /\ task' = [task EXCEPT ![t].pc = "data", ![t].first = first]
    BY <1>2, <2>1 DEF TaskType
  <2>3. RxSize \in Nat
    BY BenchAssumption
  <2> HIDE DEF first
  <2> QED BY <1>1, <2>1, <2>2, <2>3, RxCountsKeeps
<1> QED BY <1>4, <1>5, <1>6 DEF RxTurn

LEMMA RxStopKeeps == ASSUME BenchInv, NEW t \in Sessions, RxStop(t) PROVE BenchInv'
<1>1. Works(task[t]) /\ task[t].pc = "stop" /\ Keeps(t)
  BY DEF RxStop, At, Works, Keeps
<1>2. Cxt(t) \in ContextType /\ Fits(t, task[t], Cxt(t))
  BY <1>1, WorkingSession
<1> DEFINE r == CalcReset(Cxt(t))
           c == [r EXCEPT !.buff = FALSE, !.client = None]
<1>3. r \in ContextType /\ \A f \in {"socket", "size"} : r[f] = Cxt(t)[f]
  BY <1>2, ResetFacts
<1>4. c \in ContextType /\ c.client = None /\ ~c.buff /\ c.socket = r.socket /\ c.size = r.size
  <2> HIDE DEF r
  <2> QED BY <1>3 DEF ContextType
<1>5. Leaves(t, c) /\ Goto(t, "wait") /\ "wait" \in WorkPcs
  BY DEF RxStop, Leaves, WorkPcs
<1> HIDE DEF c, r
<1>6. FitsAt(t, "wait", c)
  BY <1>2, <1>3, <1>4 DEF FitsAt, Fits
<1> QED BY <1>1, <1>4, <1>5, <1>6, GoesOn

LEMMA RxEndKeeps == ASSUME BenchInv, NEW t \in Sessions, RxEnd(t) PROVE BenchInv'
<1>1. Works(task[t]) /\ task[t].pc = "end" /\ Keeps(t)
  BY DEF RxEnd, At, Works, Keeps
<1>2. Cxt(t) \in ContextType /\ Fits(t, task[t], Cxt(t))
  BY <1>1, WorkingSession
<1> DEFINE c == Closed(Cxt(t))
<1>3. /\ c \in ContextType /\ c.socket = None
      /\ \A f \in {"size", "client", "buff"} : c[f] = Cxt(t)[f]
  BY <1>2, ResetFacts
<1>4. Leaves(t, c) /\ Goto(t, "free") /\ "free" \in WorkPcs
  BY DEF RxEnd, Leaves, WorkPcs
<1> HIDE DEF c
<1>5. FitsAt(t, "free", c)
  BY <1>1, <1>2, <1>3 DEF FitsAt, Fits, Unused
<1> QED BY <1>1, <1>3, <1>4, <1>5, GoesOn

-----------------------------------------------------------------------------
(* What the tasks, the shell and the timers do besides.                    *)

\* Contexts, sessions and the start that is under way stay as they are.
Quiet == UNCHANGED <<isUsed, cxt, task, shell, start>>

\* The kernel forgets no thread, and the permanent ones run.
KernelKeeps ==
    /\ \A t \in Threads : kernel'[t] = "none" => kernel[t] = "none"
    /\ PermanentRun'

LEMMA QuietKeeps == ASSUME BenchInv, Quiet, KernelKeeps PROVE BenchInv'
<1>1. SessionsFit'
  BY DEF Quiet, KernelKeeps, BenchInv, SessionsFit, Cxt, Sessions
<1>2. ContextsFit'
  BY DEF Quiet, BenchInv, ContextsFit, WorksWith
<1>3. ShellFits'
  BY DEF Quiet, BenchInv, ShellFits, Waits, WorksWith
<1> QED BY <1>1, <1>2, <1>3 DEF Quiet, KernelKeeps, BenchInv, BenchTypeOK

(* Deleting what has ended concerns no thread that runs.                   *)
LEMMA DeletingKeeps ==
    ASSUME TaskInv, BenchInv, qcom_task_del, \A p \in Permanent : exit'[p] = "no"
    PROVE  KernelKeeps
BY TaskAssumption DEF KernelKeeps, qcom_task_del, TaskInv, TaskTypeOK, BenchInv, PermanentRun

LEMMA ExitsKeeps == ASSUME TaskInv, BenchInv, NEW t \in Sessions, Exits(t) PROVE BenchInv'
<1>1. Quiet
  BY DEF Exits, benchVars, qcom_task_exit, ExitDel, ExitMark, ExitTerminate, Quiet
<1>2. t \in Threads /\ t \notin Permanent
  BY DEF Sessions
<1>3. /\ \A p \in Permanent : p # t /\ p \in Threads /\ kernel[p] = "ready" /\ exit[p] = "no"
      /\ kernel \in [Threads -> {"none", "ready", "terminated", "deleted"}]
      /\ exit \in [Threads -> {"no", "del", "lock", "terminate", "done"}]
  BY <1>2, TaskAssumption DEF TaskInv, TaskTypeOK, BenchInv, PermanentRun
<1>4. \A p \in Permanent : exit'[p] = "no"
  BY <1>3 DEF Exits, qcom_task_exit, ExitDel, ExitMark, ExitTerminate
<1>5. CASE ExitDel(t)
  BY <1>1, <1>4, <1>5, DeletingKeeps, QuietKeeps DEF ExitDel
<1>6. CASE UNCHANGED kernel \/ kernel' = [kernel EXCEPT ![t] = "terminated"]
  <2>1. KernelKeeps
    BY <1>3, <1>4, <1>6 DEF KernelKeeps, PermanentRun
  <2> QED BY <1>1, <2>1, QuietKeeps
<1> QED BY <1>5, <1>6 DEF Exits, qcom_task_exit, ExitMark, ExitTerminate

LEMMA SweepsKeeps == ASSUME TaskInv, BenchInv, Sweeps PROVE BenchInv'
<1>1. Quiet
  BY DEF Sweeps, benchVars, qcom_task_timer_handler, SweepDel, SweepFree, Quiet
<1>2. \A p \in Permanent : exit'[p] = "no"
  BY DEF Sweeps, qcom_task_timer_handler, SweepDel, SweepFree, BenchInv, PermanentRun
<1>3. CASE qcom_task_del
  BY <1>1, <1>2, <1>3, DeletingKeeps, QuietKeeps
<1>4. CASE UNCHANGED kernel
  <2>1. KernelKeeps
    BY <1>2, <1>4 DEF KernelKeeps, BenchInv, PermanentRun
  <2> QED BY <1>1, <2>1, QuietKeeps
<1> QED BY <1>3, <1>4 DEF Sweeps, qcom_task_timer_handler, SweepDel, SweepFree

LEMMA AloneKeeps ==
    ASSUME BenchInv,
           \/ swat_benchquit_handle
           \/ \E k \in TxKinds, i \in Streams : TimerFires(k, i)
           \/ UNCHANGED vars
    PROVE  BenchInv'
<1>1. Quiet /\ UNCHANGED <<kernel, exit>>
  BY DEF swat_benchquit_handle, TimerFires, vars, taskVars, benchVars, Quiet
<1>2. KernelKeeps
  BY <1>1 DEF KernelKeeps, BenchInv, PermanentRun
<1> QED BY <1>1, <1>2, QuietKeeps

(* A session that has given its context back has none.                     *)
LEMMA LeavesTask ==
    ASSUME BenchInv, NEW t \in Sessions, kernel[t] # "none", ~Works(task[t]),
           NEW w \in TaskType, ~Works(w), w.kind = "none" <=> w.pc \in {"none", "gone"},
           task' = [task EXCEPT ![t] = w],
           UNCHANGED <<isUsed, cxt, shell, start, kernel>>, PermanentRun'
    PROVE  BenchInv'
<1>1. /\ task' \in [Sessions -> TaskType]
      /\ task'[t] = w /\ \A u \in Sessions : u # t => task'[u] = task[u]
  BY DEF BenchInv, BenchTypeOK
<1>2. BenchTypeOK'
  BY <1>1 DEF BenchInv, BenchTypeOK
<1>3. \A u \in Sessions : \A l \in Kinds, j \in Streams :
        WorksWith(u, l, j)' <=> WorksWith(u, l, j)
  BY <1>1 DEF WorksWith
<1>4. SessionsFit'
  BY <1>1 DEF BenchInv, SessionsFit, Cxt
<1>5. ContextsFit'
  BY <1>3 DEF BenchInv, ContextsFit
<1>6. ShellFits'
  <2>1. start.at # "idle" => shell.kind \in Kinds /\ shell.index \in Streams
    BY DEF BenchInv, ShellFits, BenchTypeOK
  <2>2. Waits => start.at # "idle"
    BY DEF Waits
  <2>3. ASSUME Waits PROVE \A u \in Sessions : ~WorksWith(u, shell.kind, shell.index)'
    BY <1>3, <2>1, <2>2, <2>3 DEF BenchInv, ShellFits
  <2> QED BY <2>3 DEF BenchInv, ShellFits, Waits
<1> QED BY <1>2, <1>4, <1>5, <1>6 DEF BenchInv

LEMMA NoTaskFacts ==
    /\ NoTask \in TaskType
    /\ NoTask.kind = "none" /\ NoTask.pc = "none" /\ NoTask.sum = 0 /\ NoTask.pkts = 0
<1>1. 0 \in Streams
  BY BenchAssumption DEF Streams
<1> QED BY <1>1 DEF NoTask, TaskType

LEMMA TimerCleanKeeps == ASSUME BenchInv, NEW t \in Sessions, swat_bench_timer_clean(t) PROVE BenchInv'
<1> DEFINE w == [task[t] EXCEPT !.pc = "exit"]
<1>1. task[t] \in TaskType /\ task \in [Sessions -> TaskType] /\ task[t].pc = "clean"
  BY DEF BenchInv, BenchTypeOK, swat_bench_timer_clean, At
<1>2. w \in TaskType /\ w.pc = "exit" /\ w.kind = task[t].kind
  BY <1>1 DEF TaskType
<1>3. task' = [task EXCEPT ![t] = w]
  BY <1>1 DEF swat_bench_timer_clean, Goto
<1>4. kernel[t] # "none" /\ task[t].kind # "none"
  BY <1>1 DEF BenchInv, SessionsFit, NoTask
<1>5. UNCHANGED <<isUsed, cxt, shell, start, kernel, exit>>
  BY DEF swat_bench_timer_clean, taskVars
<1>6. PermanentRun'
  BY <1>5 DEF BenchInv, PermanentRun
<1>7. ~Works(task[t]) /\ ~Works(w)
  BY <1>1, <1>2 DEF Works
<1> HIDE DEF w
<1> QED BY <1>2, <1>3, <1>4, <1>5, <1>6, <1>7, LeavesTask

LEMMA DeleteKeeps == ASSUME TaskInv, BenchInv, NEW t \in Sessions, swat_task_delete(t) PROVE BenchInv'
<1> DEFINE w == [NoTask EXCEPT !.pc = "gone"]
<1>1. task[t] \in TaskType /\ task \in [Sessions -> TaskType] /\ task[t].pc = "exit"
  BY DEF BenchInv, BenchTypeOK, swat_task_delete, At
<1>2. w \in TaskType /\ w.pc = "gone" /\ w.kind = "none"
  BY NoTaskFacts DEF TaskType
<1>3. task' = [task EXCEPT ![t] = w]
  BY DEF swat_task_delete
<1>4. kernel[t] # "none"
  BY <1>1 DEF BenchInv, SessionsFit, NoTask
<1>5. UNCHANGED <<isUsed, cxt, shell, start, kernel>> /\ exit' = [exit EXCEPT ![t] = "del"]
  BY DEF swat_task_delete, BeginExit
<1>6. PermanentRun'
  BY <1>5, TaskAssumption DEF BenchInv, PermanentRun, Sessions, TaskInv, TaskTypeOK
<1>7. ~Works(task[t]) /\ ~Works(w)
  BY <1>1, <1>2 DEF Works
<1> HIDE DEF w
<1> QED BY <1>2, <1>3, <1>4, <1>5, <1>6, <1>7, LeavesTask

(* A session gives its context back: nobody works with it then, and        *)
(* nothing is left in it.                                                  *)
LEMMA FreeIndexKeeps == ASSUME BenchInv, NEW t \in Sessions, FreeIndex(t) PROVE BenchInv'
<1> DEFINE k == task[t].kind
           i == task[t].index
           c == Configured(Cxt(t), "time", 0, 0)
           pc == IF task[t].kind \in TxKinds THEN "clean" ELSE "exit"
           w == [task[t] EXCEPT !.pc = pc]
<1>1. Works(task[t]) /\ task[t].pc = "free"
  BY DEF FreeIndex, At, Works
<1>2. /\ task[t] \in TaskType /\ k \in Kinds /\ i \in Streams /\ Cxt(t) \in ContextType
      /\ Fits(t, task[t], Cxt(t)) /\ kernel[t] # "none" /\ WorksWith(t, k, i)
  BY <1>1, WorkingSession
<1>3. /\ task \in [Sessions -> TaskType] /\ isUsed \in [Kinds -> [Streams -> BOOLEAN]]
      /\ cxt \in [Kinds -> [Streams -> ContextType]]
  BY DEF BenchInv, BenchTypeOK
<1>4. UNCHANGED <<shell, start, kernel, exit>>
  BY DEF FreeIndex, taskVars
<1>5. c \in ContextType /\ Unused(c)
  <2>1. c \in ContextType /\ \A f \in {"socket", "client", "buff"} : c[f] = Cxt(t)[f]
    BY <1>2, ResetFacts
  <2> HIDE DEF c
  <2> QED BY <1>1, <1>2, <2>1 DEF Fits, Unused
<1>6. w \in TaskType /\ ~Works(w) /\ w.kind = k /\ w.pc \in {"clean", "exit"}
  BY <1>2 DEF TaskType, Works
<1>7. /\ task' \in [Sessions -> TaskType]
      /\ task'[t] = w /\ \A u \in Sessions : u # t => task'[u] = task[u]
  BY <1>3, <1>6 DEF FreeIndex, Goto
<1>8. /\ isUsed' \in [Kinds -> [Streams -> BOOLEAN]]
      /\ \A l \in Kinds, j \in Streams : (l # k \/ j # i) => isUsed'[l][j] = isUsed[l][j]
  BY <1>2, <1>3 DEF FreeIndex, swat_cxt_index_free
<1>9. /\ cxt' \in [Kinds -> [Streams -> ContextType]]
      /\ cxt'[k][i] = c
      /\ \A l \in Kinds, j \in Streams : (l # k \/ j # i) => cxt'[l][j] = cxt[l][j]
  <2>1. cxt' = [cxt EXCEPT ![k][i] = c]
    BY DEF FreeIndex, SetCxt
  <2> HIDE DEF c
  <2> QED BY <1>2, <1>3, <1>5, <2>1
<1> HIDE DEF w, c, pc
<1>10. \A u \in Sessions : \A l \in Kinds, j \in Streams :
         WorksWith(u, l, j)' <=> WorksWith(u, l, j) /\ u # t
  BY <1>6, <1>7 DEF WorksWith
<1>11. BenchTypeOK'
  BY <1>4, <1>7, <1>8, <1>9 DEF BenchInv, BenchTypeOK
<1>12. SessionsFit'
  <2> SUFFICES ASSUME NEW u \in Sessions
               PROVE  /\ task'[u].kind = "none" <=> task'[u].pc \in {"none", "gone"}
                      /\ kernel'[u] = "none" => task'[u] = NoTask
                      /\ Works(task'[u]) => isUsed'[task'[u].kind][task'[u].index]
                                            /\ Fits(u, task'[u], Cxt(u)')
    BY DEF SessionsFit
  <2>1. CASE u = t
    BY <1>2, <1>4, <1>6, <1>7, <2>1 DEF Kinds, TxKinds
  <2>2. CASE u # t
    <3>1. task'[u] = task[u]
      BY <1>7, <2>2
    <3>2. ASSUME Works(task[u])
          PROVE  Cxt(u)' = Cxt(u)
                 /\ isUsed'[task[u].kind][task[u].index] = isUsed[task[u].kind][task[u].index]
      <4>1. task[u].kind \in Kinds /\ task[u].index \in Streams /\ WorksWith(u, task[u].kind, task[u].index)
        BY <3>2, WorkingSession
      <4>2. task[u].kind # k \/ task[u].index # i
        BY <4>1, <1>2, <2>2 DEF BenchInv, ContextsFit
      <4> QED BY <3>1, <4>1, <4>2, <1>8, <1>9 DEF Cxt
    <3> QED BY <3>1, <3>2, <1>4 DEF BenchInv, SessionsFit
  <2> QED BY <2>1, <2>2
<1>13. ContextsFit'
  <2>1. \A u, v \in Sessions : \A l \in Kinds, j \in Streams :
          WorksWith(u, l, j)' /\ WorksWith(v, l, j)' => u = v
    BY <1>10 DEF BenchInv, ContextsFit
  <2>2. ASSUME NEW l \in Kinds, NEW j \in Streams, \A u \in Sessions : ~WorksWith(u, l, j)'
        PROVE  Unused(cxt'[l][j])
    <3>1. CASE l = k /\ j = i
      BY <1>5, <1>9, <3>1
    <3>2. CASE l # k \/ j # i
      <4>1. ~WorksWith(t, l, j)
        BY <3>2 DEF WorksWith
      <4>2. \A u \in Sessions : ~WorksWith(u, l, j)
        BY <1>10, <2>2, <4>1
      <4> QED BY <1>9, <3>2, <4>2 DEF BenchInv, ContextsFit
    <3> QED BY <3>1, <3>2
  <2> QED BY <2>1, <2>2 DEF ContextsFit
<1>14. ShellFits'
  <2>1. start.at # "idle" => shell.kind \in Kinds /\ shell.index \in Streams
    BY DEF BenchInv, ShellFits, BenchTypeOK
  <2>2. Waits => start.at # "idle"
    BY DEF Waits
  <2>3. ASSUME Waits
        PROVE  /\ cxt'[shell.kind][shell.index] = cxt[shell.kind][shell.index]
               /\ isUsed'[shell.kind][shell.index] = isUsed[shell.kind][shell.index]
               /\ \A u \in Sessions : ~WorksWith(u, shell.kind, shell.index)'
    <3>1. \A u \in Sessions : ~WorksWith(u, shell.kind, shell.index)
      BY <2>3 DEF BenchInv, ShellFits
    <3>2. shell.kind # k \/ shell.index # i
      BY <1>2, <3>1
    <3>3. /\ cxt'[shell.kind][shell.index] = cxt[shell.kind][shell.index]
          /\ isUsed'[shell.kind][shell.index] = isUsed[shell.kind][shell.index]
      BY <1>8, <1>9, <2>1, <2>2, <2>3, <3>2
    <3>4. \A u \in Sessions : ~WorksWith(u, shell.kind, shell.index)'
      BY <1>4, <1>10, <2>1, <2>2, <2>3, <3>1
    <3> QED BY <3>3, <3>4
  <2> QED BY <1>4, <2>3 DEF BenchInv, ShellFits, Waits
<1>15. PermanentRun'
  BY <1>4 DEF BenchInv, PermanentRun
<1> QED BY <1>11, <1>12, <1>13, <1>14, <1>15 DEF BenchInv

(* The shell takes a context, or gives it back when the start has failed:  *)
(* no session works with it, and nothing is in it.                         *)
LEMMA ContextOfShell ==
    ASSUME BenchInv, NEW k \in Kinds, NEW i \in Streams, \A u \in Sessions : ~WorksWith(u, k, i),
           NEW c \in ContextType, Unused(c), cxt' = [cxt EXCEPT ![k][i] = c],
           NEW b \in BOOLEAN, isUsed' = [isUsed EXCEPT ![k][i] = b],
           UNCHANGED <<task, kernel, exit>>, shell' \in [kind : Kinds \cup {"none"}, index : Streams]
    PROVE  /\ BenchTypeOK' /\ SessionsFit' /\ ContextsFit' /\ PermanentRun'
           /\ cxt'[k][i] = c /\ isUsed'[k][i] = b
<1>1. /\ isUsed' \in [Kinds -> [Streams -> BOOLEAN]] /\ isUsed'[k][i] = b
      /\ \A l \in Kinds, j \in Streams : (l # k \/ j # i) => isUsed'[l][j] = isUsed[l][j]
  BY DEF BenchInv, BenchTypeOK
<1>2. /\ cxt' \in [Kinds -> [Streams -> ContextType]] /\ cxt'[k][i] = c
      /\ \A l \in Kinds, j \in Streams : (l # k \/ j # i) => cxt'[l][j] = cxt[l][j]
  BY DEF BenchInv, BenchTypeOK
<1>3. BenchTypeOK'
  BY <1>1, <1>2 DEF BenchInv, BenchTypeOK
<1>4. SessionsFit'
  <2>1. ASSUME NEW u \in Sessions, Works(task[u])
        PROVE  Cxt(u)' = Cxt(u)
               /\ isUsed'[task[u].kind][task[u].index] = isUsed[task[u].kind][task[u].index]
    <3>1. task[u].kind \in Kinds /\ task[u].index \in Streams /\ WorksWith(u, task[u].kind, task[u].index)
      BY <2>1, WorkingSession
    <3>2. task[u].kind # k \/ task[u].index # i
      BY <3>1
    <3> QED BY <3>1, <3>2, <1>1, <1>2 DEF Cxt
  <2> QED BY <2>1 DEF BenchInv, SessionsFit
<1>5. ContextsFit'
  <2>1. \A u \in Sessions : \A l \in Kinds, j \in Streams : WorksWith(u, l, j)' <=> WorksWith(u, l, j)
    BY DEF WorksWith
  <2>2. ASSUME NEW l \in Kinds, NEW j \in Streams, \A u \in Sessions : ~WorksWith(u, l, j)'
        PROVE  Unused(cxt'[l][j])
    <3>1. \A u \in Sessions : ~WorksWith(u, l, j)
      BY <2>1, <2>2
    <3>2. CASE l = k /\ j = i
      BY <1>2, <3>2
    <3>3. CASE l # k \/ j # i
      BY <1>2, <3>1, <3>3 DEF BenchInv, ContextsFit
    <3> QED BY <3>2, <3>3
  <2> QED BY <2>1, <2>2 DEF BenchInv, ContextsFit
<1>6. PermanentRun'
  BY DEF BenchInv, PermanentRun
<1> QED BY <1>1, <1>2, <1>3, <1>4, <1>5, <1>6

LEMMA BeginSessionKeeps ==
    ASSUME BenchInv, NEW k \in Kinds, NEW mode \in {"time", "packets"}, NEW size \in Nat,
           NEW amount \in Nat, k \in TxKinds => size # 0, BeginSession(k, mode, size, amount)
    PROVE  BenchInv'
<1>1. PICK i \in swat_cxt_index_find(k) :
         /\ isUsed' = [isUsed EXCEPT ![k][i] = TRUE]
         /\ cxt' = [cxt EXCEPT ![k][i] = Configured(@, mode, size, amount)]
         /\ shell' = [kind |-> k, index |-> i]
  BY DEF BeginSession, swat_cxt_index_configure
<1>2. i \in Streams /\ ~isUsed[k][i]
  BY <1>1 DEF swat_cxt_index_find
<1>3. ASSUME NEW u \in Sessions PROVE ~WorksWith(u, k, i)
  BY <1>2 DEF BenchInv, SessionsFit, WorksWith
<1> DEFINE c == Configured(cxt[k][i], mode, size, amount)
<1>4. cxt \in [Kinds -> [Streams -> ContextType]] /\ cxt[k][i] \in ContextType /\ Unused(cxt[k][i])
  BY <1>2, <1>3 DEF BenchInv, BenchTypeOK, ContextsFit
<1>5. c \in ContextType /\ c.size = size /\ Unused(c)
  <2> DEFINE old == cxt[k][i]
  <2> HIDE DEF old
  <2>1. old \in ContextType /\ Unused(old)
    BY <1>4 DEF old
  <2> DEFINE d == Configured(old, mode, size, amount)
  <2>2. /\ d \in ContextType /\ d.size = size
        /\ \A f \in {"socket", "client", "buff"} : d[f] = old[f]
    BY <2>1, ResetFacts
  <2>3. Unused(d)
    <3> HIDE DEF d
    <3> QED BY <2>1, <2>2 DEF Unused
  <2> QED BY <2>2, <2>3 DEF old
<1>6. cxt' = [cxt EXCEPT ![k][i] = c]
  BY <1>1, <1>2, <1>4
<1>7. /\ UNCHANGED <<task, kernel, exit>> /\ start.at = "idle"
      /\ start' = [NotStarting EXCEPT !.at = "del"]
  BY DEF BeginSession, BeginStart
<1>8. start'.at = "del" /\ start'.ret = "ok"
  BY <1>7 DEF NotStarting
<1>9. shell' \in [kind : Kinds \cup {"none"}, index : Streams] /\ shell'.kind = k /\ shell'.index = i
  BY <1>1, <1>2
<1> HIDE DEF c
<1>10. /\ BenchTypeOK' /\ SessionsFit' /\ ContextsFit' /\ PermanentRun'
       /\ cxt'[k][i] = c /\ isUsed'[k][i] = TRUE
  <2> DEFINE b == TRUE
  <2>1. b \in BOOLEAN /\ isUsed' = [isUsed EXCEPT ![k][i] = b]
    BY <1>1
  <2> HIDE DEF b
  <2>2. UNCHANGED <<task, kernel, exit>>
        /\ shell' \in [kind : Kinds \cup {"none"}, index : Streams]
    BY <1>7, <1>9
  <2>3. /\ BenchTypeOK' /\ SessionsFit' /\ ContextsFit' /\ PermanentRun'
        /\ cxt'[k][i] = c /\ isUsed'[k][i] = b
    BY <1>2, <1>3, <1>5, <1>6, <2>1, <2>2, ContextOfShell
  <2> QED BY <2>3 DEF b
<1>11. ShellFits'
  <2>1. \A u \in Sessions : ~WorksWith(u, shell.kind, shell.index)'
    BY <1>3, <1>7, <1>9 DEF WorksWith
  <2> QED BY <1>5, <1>8, <1>9, <1>10, <2>1 DEF ShellFits, Waits
<1> QED BY <1>10, <1>11 DEF BenchInv

LEMMA ShellStartedKeeps == ASSUME BenchInv, ShellStarted PROVE BenchInv'
<1>1. /\ start.at = "done" /\ start' = NotStarting /\ UNCHANGED <<task, kernel, exit>>
      /\ shell' = NoShell
  BY DEF ShellStarted, EndStart
<1>2. start'.at = "idle" /\ start'.ret = "ok" /\ ShellFits'
  BY <1>1 DEF NotStarting, ShellFits, Waits
<1>3. shell' \in [kind : Kinds \cup {"none"}, index : Streams]
  BY <1>1, BenchAssumption DEF NoShell, Streams
<1>4. CASE start.ret = "ok"
  <2>1. UNCHANGED <<isUsed, cxt>>
    BY <1>4 DEF ShellStarted
  <2>2. BenchTypeOK' /\ SessionsFit' /\ ContextsFit' /\ PermanentRun'
    BY <1>1, <1>3, <2>1 DEF BenchInv, BenchTypeOK, SessionsFit, ContextsFit, PermanentRun, WorksWith, Cxt
  <2> QED BY <1>2, <2>2 DEF BenchInv
<1>5. CASE start.ret # "ok"
  <2> DEFINE k == shell.kind
             i == shell.index
             c == Configured(cxt[k][i], "time", 0, 0)
             b == FALSE
  <2>1. k \in Kinds /\ i \in Streams /\ \A u \in Sessions : ~WorksWith(u, k, i)
    BY <1>1, <1>5 DEF BenchInv, BenchTypeOK, ShellFits, Waits
  <2>2. cxt \in [Kinds -> [Streams -> ContextType]] /\ cxt[k][i] \in ContextType /\ Unused(cxt[k][i])
    BY <2>1 DEF BenchInv, BenchTypeOK, ContextsFit
  <2>3. c \in ContextType /\ Unused(c)
    <3> DEFINE old == cxt[k][i]
    <3> HIDE DEF old
    <3>1. old \in ContextType /\ Unused(old)
      BY <2>2 DEF old
    <3> DEFINE d == Configured(old, "time", 0, 0)
    <3>2. d \in ContextType /\ \A f \in {"socket", "client", "buff"} : d[f] = old[f]
      BY <3>1, ResetFacts
    <3>3. Unused(d)
      <4> HIDE DEF d
      <4> QED BY <3>1, <3>2 DEF Unused
    <3> QED BY <3>2, <3>3 DEF old
  <2>4. cxt' = [cxt EXCEPT ![k][i] = c] /\ b \in BOOLEAN /\ isUsed' = [isUsed EXCEPT ![k][i] = b]
    BY <1>5, <2>1, <2>2 DEF ShellStarted, swat_cxt_index_free
  <2> HIDE DEF k, i, c, b
  <2>5. BenchTypeOK' /\ SessionsFit' /\ ContextsFit' /\ PermanentRun'
    BY <1>1, <1>3, <2>1, <2>3, <2>4, ContextOfShell
  <2> QED BY <1>2, <2>5 DEF BenchInv
<1> QED BY <1>4, <1>5

(* The task that is created gets the context the shell has taken for it.   *)
LEMMA CreateKeeps == ASSUME TaskInv, BenchInv, ShellStarts, StartCreate PROVE BenchInv'
<1>a. PICK t, k, i : t = start.thread /\ k = shell.kind /\ i = shell.index
  OBVIOUS
<1> DEFINE w == [NoTask EXCEPT !.kind = k, !.index = i, !.pc = "open"]
<1>1. /\ start.at = "create" /\ kernel' = [kernel EXCEPT ![t] = "ready"]
      /\ start' = [start EXCEPT !.at = "status"] /\ UNCHANGED <<exit, isUsed, cxt, shell>>
  BY <1>a DEF StartCreate, ShellStarts
<1>2. t \in Threads /\ kernel[t] = "none"
  BY <1>1, <1>a DEF TaskInv, TaskTypeOK, StartInOrder
<1>3. t \in Sessions
  BY <1>2 DEF Sessions, BenchInv, PermanentRun
<1>4. start \in [at : {"idle", "del", "claim", "alloc", "fill", "create", "status", "errout", "done"},
                 taskIdx : Slots, thread : {None} \cup Threads, ret : {"ok", "failed"}]
      /\ kernel \in [Threads -> {"none", "ready", "terminated", "deleted"}]
  BY DEF TaskInv, TaskTypeOK
<1>5. start'.at = "status" /\ start'.ret = "ok"
  BY <1>1, <1>4 DEF BenchInv, ShellFits
<1>6. kernel'[t] = "ready" /\ \A u \in Threads : u # t => kernel'[u] = kernel[u]
  BY <1>1, <1>2, <1>4
<1>7. /\ k \in Kinds /\ i \in Streams /\ isUsed[k][i]
      /\ \A u \in Sessions : ~WorksWith(u, k, i)
      /\ k \in TxKinds => cxt[k][i].size # 0
  BY <1>1, <1>a DEF BenchInv, ShellFits, Waits, BenchTypeOK
<1>8. cxt[k][i] \in ContextType /\ Unused(cxt[k][i])
  BY <1>7 DEF BenchInv, BenchTypeOK, ContextsFit
<1>9. /\ w \in TaskType /\ w.kind = k /\ w.index = i /\ w.pc = "open" /\ Works(w)
      /\ w.sum = 0 /\ w.pkts = 0
  BY <1>7, NoTaskFacts DEF TaskType, Works
<1>10. task' = [task EXCEPT ![t] = w]
  BY <1>2, <1>3, <1>6, <1>a DEF ShellStarts
<1> HIDE DEF w
<1>11. /\ task' \in [Sessions -> TaskType]
       /\ task'[t] = w /\ \A u \in Sessions : u # t => task'[u] = task[u]
  BY <1>3, <1>9, <1>10 DEF BenchInv, BenchTypeOK
<1>12. Fits(t, w, cxt[k][i])
  BY <1>7, <1>8, <1>9 DEF Fits, Unused
<1>13. ~Works(task[t])
  BY <1>2, <1>3, NoTaskFacts DEF BenchInv, SessionsFit, Works
<1>14. /\ \A u \in Sessions \ {t} : \A l \in Kinds, j \in Streams :
             WorksWith(u, l, j)' <=> WorksWith(u, l, j)
       /\ \A l \in Kinds, j \in Streams : WorksWith(t, l, j)' <=> (l = k /\ j = i)
  <2>1. \A u \in Sessions \ {t} : \A l \in Kinds, j \in Streams :
             WorksWith(u, l, j)' <=> WorksWith(u, l, j)
    BY <1>11 DEF WorksWith
  <2>2. ASSUME NEW l \in Kinds, NEW j \in Streams PROVE WorksWith(t, l, j)' <=> (l = k /\ j = i)
    BY <1>9, <1>11 DEF WorksWith
  <2> QED BY <2>1, <2>2
<1>15. BenchTypeOK'
  BY <1>1, <1>11 DEF BenchInv, BenchTypeOK
<1>16. SessionsFit'
  <2> SUFFICES ASSUME NEW u \in Sessions
               PROVE  /\ task'[u].kind = "none" <=> task'[u].pc \in {"none", "gone"}
                      /\ kernel'[u] = "none" => task'[u] = NoTask
                      /\ Works(task'[u]) => isUsed'[task'[u].kind][task'[u].index]
                                            /\ Fits(u, task'[u], Cxt(u)')
    BY DEF SessionsFit
  <2>1. CASE u = t
    BY <1>1, <1>6, <1>7, <1>9, <1>11, <1>12, <2>1 DEF Cxt, Kinds, TxKinds
  <2>2. CASE u # t
    <3>1. task'[u] = task[u] /\ kernel'[u] = kernel[u] /\ Cxt(u)' = Cxt(u)
      BY <1>1, <1>6, <1>11, <2>2 DEF Cxt, Sessions
    <3> QED BY <1>1, <3>1 DEF BenchInv, SessionsFit
  <2> QED BY <2>1, <2>2
<1>17. ContextsFit'
  <2>1. ASSUME NEW u \in Sessions, NEW v \in Sessions, NEW l \in Kinds, NEW j \in Streams,
               WorksWith(u, l, j)', WorksWith(v, l, j)'
        PROVE  u = v
    <3>1. CASE u = t \/ v = t
      BY <1>7, <1>14, <2>1, <3>1
    <3>2. CASE u # t /\ v # t
      BY <1>14, <2>1, <3>2 DEF BenchInv, ContextsFit
    <3> QED BY <3>1, <3>2
  <2>2. ASSUME NEW l \in Kinds, NEW j \in Streams, \A u \in Sessions : ~WorksWith(u, l, j)'
        PROVE  Unused(cxt'[l][j])
    <3>1. \A u \in Sessions : ~WorksWith(u, l, j)
      BY <1>13, <1>14, <2>2 DEF WorksWith
    <3> QED BY <1>1, <3>1 DEF BenchInv, ContextsFit
  <2> QED BY <2>1, <2>2 DEF ContextsFit
<1>18. ShellFits' /\ PermanentRun'
  BY <1>1, <1>3, <1>5, <1>6, <1>7, TaskAssumption DEF ShellFits, Waits, PermanentRun, BenchInv, Sessions
<1> QED BY <1>15, <1>16, <1>17, <1>18 DEF BenchInv

(* The other steps of a start create no task.                              *)
LEMMA ShellStartsKeeps == ASSUME TaskInv, BenchInv, ShellStarts PROVE BenchInv'
<1>1. CASE StartCreate
  BY <1>1, CreateKeeps
<1>2. CASE StartDel \/ StartClaim \/ StartAlloc \/ StartFill
           \/ StartCreateFails \/ StartStatus \/ StartErrout
  <2>1. \/ qcom_task_del /\ UNCHANGED exit
        \/ UNCHANGED <<kernel, exit>>
    BY <1>2 DEF StartDel, StartClaim, StartAlloc, StartFill, StartCreateFails, StartStatus, StartErrout
  <2>2. KernelKeeps
    <3>1. CASE qcom_task_del /\ UNCHANGED exit
      BY <3>1, DeletingKeeps DEF BenchInv, PermanentRun
    <3>2. CASE UNCHANGED <<kernel, exit>>
      BY <3>2 DEF KernelKeeps, BenchInv, PermanentRun
    <3> QED BY <2>1, <3>1, <3>2
  <2>3. \A u \in Sessions : ~(kernel[u] = "none" /\ kernel'[u] = "ready")
    BY <2>1 DEF qcom_task_del, Sessions
  <2>4. UNCHANGED <<task, isUsed, cxt, shell>>
    BY <2>3 DEF ShellStarts
  <2>5. BenchTypeOK' /\ SessionsFit' /\ ContextsFit'
    BY <2>2, <2>4 DEF KernelKeeps, BenchInv, BenchTypeOK, SessionsFit, ContextsFit, WorksWith, Cxt, Sessions
  <2>6. start \in [at : {"idle", "del", "claim", "alloc", "fill", "create", "status", "errout", "done"},
                   taskIdx : Slots, thread : {None} \cup Threads, ret : {"ok", "failed"}]
    BY DEF TaskInv, TaskTypeOK
  <2>7. /\ start.at # "idle" /\ (Waits' => Waits)
        /\ start'.at \in {"claim", "alloc", "fill", "create"} => start'.ret = "ok"
        /\ start'.at = "errout" => start'.ret = "failed"
        /\ start'.at \notin {"del", "status"}
    BY <1>2, <2>6 DEF BenchInv, ShellFits, Waits, StartDel, StartClaim, StartAlloc, StartFill,
       StartCreateFails, StartStatus, StartErrout
  <2>8. ShellFits'
    BY <2>4, <2>7 DEF BenchInv, ShellFits, WorksWith
  <2> QED BY <2>2, <2>5, <2>8 DEF KernelKeeps, BenchInv
<1> QED BY <1>1, <1>2 DEF ShellStarts, qcom_task_start

LEMMA InitBench == Init => BenchInv
<1> SUFFICES ASSUME Init PROVE BenchInv
  OBVIOUS
<1>1. 0 \in Streams /\ EmptyCxt \in ContextType /\ Unused(EmptyCxt)
  BY BenchAssumption DEF Streams, EmptyCxt, ContextType, Unused
<1>2. BenchTypeOK
  BY <1>1, NoTaskFacts DEF Init, BenchTypeOK, NoShell
<1>3. \A t \in Sessions : task[t] = NoTask /\ ~Works(task[t])
  BY NoTaskFacts DEF Init, Works
<1>4. SessionsFit
  BY <1>3, NoTaskFacts DEF SessionsFit
<1>5. ContextsFit
  BY <1>1, <1>3 DEF Init, ContextsFit, WorksWith
<1>6. start = NotStarting
  BY DEF Init, TaskInit
<1>7. ShellFits
  BY <1>6 DEF NotStarting, ShellFits, Waits
<1>8. PermanentRun
  BY TaskAssumption DEF Init, TaskInit, PermanentRun
<1> QED BY <1>2, <1>4, <1>5, <1>7, <1>8 DEF BenchInv

(* Every step of a session, of the shell and of the timers keeps the       *)
(* contexts in order.                                                      *)
LEMMA BenchStep == TaskInv /\ BenchInv /\ [Next]_vars => BenchInv'
<1> SUFFICES ASSUME TaskInv, BenchInv, [Next]_vars PROVE BenchInv'
  OBVIOUS
<1>1. CASE swat_bench_tx_test
  <2>1. PICK k \in TxKinds, mode \in {"time", "packets"}, size \in Sizes, amount \in Amounts :
           ValidTx(size, amount) /\ BeginSession(k, mode, size, amount)
    BY <1>1 DEF swat_bench_tx_test
  <2>2. k \in Kinds /\ size \in Nat /\ size # 0 /\ amount \in Nat
    BY <2>1, BenchAssumption DEF Kinds, ValidTx
  <2> QED BY <2>1, <2>2, BeginSessionKeeps
<1>2. CASE swat_bench_rx_test
  <2>1. PICK k \in Kinds \ TxKinds : BeginSession(k, "time", RxSize, 0)
    BY <1>2 DEF swat_bench_rx_test
  <2>2. k \in Kinds /\ RxSize \in Nat /\ (k \in TxKinds => RxSize # 0)
    BY BenchAssumption
  <2> QED BY <2>1, <2>2, BeginSessionKeeps
<1>3. CASE ShellStarts \/ ShellStarted
  BY <1>3, ShellStartsKeeps, ShellStartedKeeps
<1>4. ASSUME NEW t \in Sessions, Turn(t) PROVE BenchInv'
  BY <1>4, TxTurnKeeps, RxWaitKeeps, RxTurnKeeps DEF Turn
<1>5. ASSUME NEW t \in Sessions, Straight(t) PROVE BenchInv'
  BY <1>5, OpenKeeps, FreeIndexKeeps, TimerCleanKeeps, DeleteKeeps, ExitsKeeps, TxInitKeeps,
     TimerInitKeeps, TxCloseKeeps, RxInitKeeps, RxAcceptKeeps, UdpRxResetKeeps, RxStopKeeps,
     RxEndKeeps DEF Straight
<1>6. CASE Sweeps
  BY <1>6, SweepsKeeps
<1>7. CASE \/ swat_benchquit_handle
           \/ \E k \in TxKinds, i \in Streams : TimerFires(k, i)
           \/ UNCHANGED vars
  BY <1>7, AloneKeeps
<1> QED BY <1>1, <1>2, <1>3, <1>4, <1>5, <1>6, <1>7 DEF Next

LEMMA BenchIsInOrder == Spec => [](TaskInv /\ BenchInv)
<1>1. Init => TaskInv /\ BenchInv
  BY InitInOrder, InitBench DEF Init
<1>2. (TaskInv /\ BenchInv) /\ [Next]_vars => (TaskInv /\ BenchInv)'
  BY StepInOrder, BenchStepsAreTaskSteps, BenchStep
<1> QED BY <1>1, <1>2, PTL DEF Spec

\* The sessions that own a context work with it.
LEMMA OwnersWork ==
    ASSUME BenchInv, NEW k \in Kinds, NEW i \in Streams
    PROVE  Owners(k, i) = {t \in Sessions : WorksWith(t, k, i)}
<1>1. ASSUME NEW t \in Sessions, task[t].kind = k
      PROVE  task[t].pc \notin {"none", "gone"}
  BY <1>1 DEF BenchInv, SessionsFit, Kinds, TxKinds
<1> QED BY <1>1 DEF Owners, WorksWith, Works

(* However tests are started, ended by benchquit, by their timer or by a   *)
(* failure, and their tasks recycled: a context belongs to one session     *)
(* from its start until it is given back, and nothing stays behind in it.  *)
THEOREM StreamsExclusive == Spec => []StreamsAreExclusive
<1>1. ASSUME BenchInv PROVE StreamsAreExclusive
  <2> SUFFICES ASSUME NEW k \in Kinds, NEW i \in Streams
               PROVE  /\ Cardinality(Owners(k, i)) <= 1
                      /\ Owners(k, i) # {} => isUsed[k][i]
                      /\ {cxt[k][i].socket, cxt[k][i].client} \subseteq {None} \cup Owners(k, i)
                      /\ cxt[k][i].buff => Owners(k, i) # {}
    BY DEF StreamsAreExclusive
  <2>1. Owners(k, i) = {t \in Sessions : WorksWith(t, k, i)}
    BY <1>1, OwnersWork
  <2>2. CASE Owners(k, i) = {}
    <3>1. Unused(cxt[k][i])
      BY <1>1, <2>1, <2>2 DEF BenchInv, ContextsFit
    <3>2. Cardinality(Owners(k, i)) = 0
      BY <2>2, FS_EmptySet
    <3> QED BY <2>2, <3>1, <3>2 DEF Unused
  <2>3. CASE Owners(k, i) # {}
    <3>1. PICK t \in Sessions : WorksWith(t, k, i)
      BY <2>1, <2>3
    <3>2. Owners(k, i) = {t}
      BY <1>1, <2>1, <3>1 DEF BenchInv, ContextsFit
    <3>3. Cardinality(Owners(k, i)) = 1
      BY <3>2, FS_Singleton
    <3>4. isUsed[k][i] /\ Fits(t, task[t], cxt[k][i])
      BY <1>1, <3>1 DEF BenchInv, SessionsFit, WorksWith, Cxt
    <3> QED BY <3>2, <3>3, <3>4 DEF Fits
  <2> QED BY <2>2, <2>3
<1> QED BY <1>1, BenchIsInOrder, PTL

(* Whatever a transmit test sends in one call: the bytes it has counted    *)
(* are the packets it has counted and what does not fill a packet yet.     *)
THEOREM TalliesAgree == Spec => []CountsAgree
<1>1. ASSUME BenchInv PROVE CountsAgree
  <2> SUFFICES ASSUME NEW t \in Sessions, task[t].pc \in {"loop", "close"}, Cxt(t).mode = "packets"
               PROVE  Total(Cxt(t)) = task[t].pkts * Cxt(t).size + task[t].sum
    BY DEF CountsAgree
  <2>1. Works(task[t])
    BY DEF Works
  <2>2. Fits(t, task[t], Cxt(t))
    BY <1>1, <2>1 DEF BenchInv, SessionsFit
  <2> QED BY <2>2 DEF Fits
<1> QED BY <1>1, BenchIsInOrder, PTL
=============================================================================
