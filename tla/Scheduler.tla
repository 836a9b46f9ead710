------------------------------ MODULE Scheduler ------------------------------
(***************************************************************************)
(* The preemptive scheduler of source/kernel/multitasking.                 *)
(*                                                                         *)
(* One processor runs one context at a time: kernel_main (Boot) until the  *)
(* first task is dispatched, then the task currentTask points to.  System  *)
(* calls are plain function calls with interrupts enabled, so the timer    *)
(* interrupt may come between any two statements of CreateTask, of the     *)
(* insertion into the task list and of _exit.  The handler, Scheduler_,    *)
(* runs with interrupts disabled: each iteration of its loop is a step     *)
(* here, and no other context moves while scan is not Off.                 *)
(*                                                                         *)
(* cpu is the register file of the processor.  Its field owner says whose  *)
(* execution the registers hold; it is what the properties speak about and *)
(* no action reads it to decide anything but which program is running.     *)
(***************************************************************************)
EXTENDS Integers

CONSTANTS
  Task,          \* the Task structures that can ever be allocated
  NoTask,        \* the null Task pointer
  Boot,          \* the context of kernel_main, which has no Task structure
  Creators,      \* the contexts whose code calls CreateTask
  Exiters,       \* the tasks whose code calls sys_exit
  MaxTaskCount,  \* MAX_TASK_COUNT, the max_size of the task list
  LastSlot       \* the last slot of the list's memory the model keeps

ASSUME ContextAssumption ==
  /\ NoTask \notin Task
  /\ Boot \notin Task
  /\ Boot # NoTask
  /\ Creators \subseteq Task \cup {Boot}
  /\ Exiters \subseteq Task

ASSUME SizeAssumption == MaxTaskCount \in Nat \ {0} /\ LastSlot \in Nat

VARIABLES
  array,         \* taskList.array
  size,          \* taskList.size
  tmp, tmp2,     \* the static locals of SchedulingList::Insert
  status,        \* the status field of every Task
  state,         \* the state field (saved registers) of every Task
  taskCr3,       \* the cr3 field of every Task
  prepared,      \* the tasks whose stack (and heap, for a process) is set up
  currentTask, previousTask, toDeleteTask,
  prevIdx,       \* the static local of Scheduler_
  cpu,           \* the registers of the processor
  cr3,           \* the page directory the processor uses
  scan           \* the loop index i of Scheduler_ while it runs, else Off

listVars == <<array, size, tmp, tmp2>>
taskVars == <<status, state, taskCr3, prepared>>
schedVars == <<currentTask, previousTask, toDeleteTask, prevIdx, scan>>
vars == <<listVars, taskVars, schedVars, cpu, cr3>>

Context == Task \cup {Boot}
Pointer == Task \cup {NoTask}
Slot == 0 .. LastSlot
Off == -1

Status == {"Unborn", "Created", "Ready", "Running", "Zombie"}

(* Where a context is: in its own code, in a statement of Insert, or in    *)
(* the endless loop at the end of _exit.                                   *)
Place == {"user", "insert", "append", "hold", "put", "shift", "store",
          "carry", "grow", "spin"}

Registers == [owner : Context, pc : Place, i : Nat, item : Pointer]

FreshRegisters(c) == [owner |-> c, pc |-> "user", i |-> 0, item |-> NoTask]

Init ==
  /\ array = [k \in Slot |-> NoTask]
  /\ size = 0
  /\ tmp = NoTask /\ tmp2 = NoTask
  /\ status = [t \in Task |-> "Unborn"]
  /\ state = [t \in Task |-> FreshRegisters(t)]
  /\ taskCr3 = [t \in Task |-> t]
  /\ prepared = {}
  /\ currentTask = NoTask /\ previousTask = NoTask /\ toDeleteTask = NoTask
  /\ prevIdx = 0
  /\ cpu = FreshRegisters(Boot)
  /\ cr3 = Boot
  /\ scan = Off

-----------------------------------------------------------------------------
(* Code of the running context, interrupts enabled.                        *)

At(place) == scan = Off /\ cpu.pc = place

(* CreateTask fills a new Task and calls AddTask, that is Insert.          *)
CreateTask(t) ==
  /\ At("user")
  /\ cpu.owner \in Creators
  /\ status[t] = "Unborn"
  /\ status' = [status EXCEPT ![t] = "Created"]
  /\ state' = [state EXCEPT ![t] = FreshRegisters(t)]
  /\ taskCr3' = [taskCr3 EXCEPT ![t] = t]
  /\ cpu' = [cpu EXCEPT !.pc = "insert", !.i = 0, !.item = t]
  /\ UNCHANGED <<listVars, prepared, schedVars, cr3>>

(* Mutant: the exiting task is handed to the reaper while it still runs.   *)
Exit_ReapedAtOnce ==
  /\ At("user")
  /\ cpu.owner \in Exiters
  /\ currentTask # NoTask
  /\ status' = [status EXCEPT ![currentTask] = "Zombie"]
  /\ toDeleteTask' = currentTask
  /\ cpu' = [cpu EXCEPT !.pc = "spin"]
  /\ UNCHANGED <<listVars, state, taskCr3, prepared, currentTask, previousTask,
                 prevIdx, scan, cr3>>

(* _exit marks the current task and spins until it is switched away.       *)
Exit ==
  /\ At("user")
  /\ cpu.owner \in Exiters
  /\ currentTask # NoTask
  /\ status' = [status EXCEPT ![currentTask] = "Zombie"]
  /\ cpu' = [cpu EXCEPT !.pc = "spin"]
  /\ UNCHANGED <<listVars, state, taskCr3, prepared, schedVars, cr3>>

(* Insert: isPriority is always false, so the position found is 0 and the  *)
(* test i + 1 > max_size never refuses.                                    *)
InsertBegin ==
  /\ At("insert")
  /\ cpu' = [cpu EXCEPT !.pc = IF cpu.i = size THEN "append" ELSE "hold"]
  /\ UNCHANGED <<listVars, taskVars, schedVars, cr3>>

InsertAppend ==
  /\ At("append") /\ size \in Slot
  /\ array' = [array EXCEPT ![size] = cpu.item]
  /\ cpu' = [cpu EXCEPT !.pc = "grow"]
  /\ UNCHANGED <<size, tmp, tmp2, taskVars, schedVars, cr3>>

InsertHold ==
  /\ At("hold") /\ cpu.i \in Slot
  /\ tmp' = array[cpu.i]
  /\ cpu' = [cpu EXCEPT !.pc = "put"]
  /\ UNCHANGED <<array, size, tmp2, taskVars, schedVars, cr3>>

InsertPut ==
  /\ At("put") /\ cpu.i \in Slot
  /\ array' = [array EXCEPT ![cpu.i] = cpu.item]
  /\ cpu' = [cpu EXCEPT !.pc = "shift"]
  /\ UNCHANGED <<size, tmp, tmp2, taskVars, schedVars, cr3>>

(* The loop test, i++ and tmp2 = array[i]; or the end of the loop.         *)
InsertShift ==
  /\ At("shift")
  /\ IF cpu.i < size
       THEN /\ cpu.i + 1 \in Slot
            /\ tmp2' = array[cpu.i + 1]
            /\ cpu' = [cpu EXCEPT !.pc = "store", !.i = @ + 1]
       ELSE /\ cpu' = [cpu EXCEPT !.pc = "grow"]
            /\ UNCHANGED tmp2
  /\ UNCHANGED <<array, size, tmp, taskVars, schedVars, cr3>>

InsertStore ==
  /\ At("store") /\ cpu.i \in Slot
  /\ array' = [array EXCEPT ![cpu.i] = tmp]
  /\ cpu' = [cpu EXCEPT !.pc = "carry"]
  /\ UNCHANGED <<size, tmp, tmp2, taskVars, schedVars, cr3>>

InsertCarry ==
  /\ At("carry")
  /\ tmp' = tmp2
  /\ cpu' = [cpu EXCEPT !.pc = "shift"]
  /\ UNCHANGED <<array, size, tmp2, taskVars, schedVars, cr3>>

(* Mutant: the size is counted once in each branch and once more at the    *)
(* end.                                                                    *)
InsertGrow_CountedTwice ==
  /\ At("grow") /\ size \in Slot
  /\ size' = size + 2
  /\ cpu' = FreshRegisters(cpu.owner)
  /\ UNCHANGED <<array, tmp, tmp2, taskVars, schedVars, cr3>>

InsertGrow ==
  /\ At("grow") /\ size \in Slot
  /\ size' = size + 1
  /\ cpu' = FreshRegisters(cpu.owner)
  /\ UNCHANGED <<array, tmp, tmp2, taskVars, schedVars, cr3>>

-----------------------------------------------------------------------------
(* Scheduler_, the timer handler, interrupts disabled.                     *)

(* Mutant: prevIdx is reset only beyond the last listed task.              *)
WrapIdx_PastTheEnd == IF prevIdx >= size THEN 0 ELSE prevIdx

(* prevIdx is reset when it has reached the last listed task.              *)
WrapIdx == IF prevIdx >= size - 1 THEN 0 ELSE prevIdx

(* The previous task once the task marked for deletion is forgotten.       *)
KeptPrevious ==
  IF toDeleteTask # NoTask /\ previousTask = toDeleteTask
    THEN NoTask ELSE previousTask

(* OrderedArray::Get and OrderedArray::Remove.                             *)
Get(i) == IF i >= MaxTaskCount THEN array[MaxTaskCount - 1] ELSE array[i]

Remove(i) ==
  /\ array' = [k \in Slot |-> IF i <= k /\ k < size - 1
                                THEN array[k + 1] ELSE array[k]]
  /\ size' = size - 1

(* A tick with an empty list returns at once.                              *)
TickIdle ==
  /\ scan = Off /\ size = 0
  /\ previousTask' = KeptPrevious
  /\ toDeleteTask' = NoTask
  /\ UNCHANGED <<listVars, taskVars, currentTask, prevIdx, scan, cpu, cr3>>

(* Mutants: the status is left alone; the test for a zombie is dropped.    *)
SavePrevious_StatusForgotten ==
  IF KeptPrevious # NoTask /\ status[KeptPrevious] # "Zombie"
    THEN /\ state' = [state EXCEPT ![KeptPrevious] = cpu]
         /\ taskCr3' = [taskCr3 EXCEPT ![KeptPrevious] = cr3]
         /\ UNCHANGED <<status, prepared>>
    ELSE UNCHANGED taskVars

SavePrevious_ZombieToo ==
  IF KeptPrevious # NoTask
    THEN /\ status' = [status EXCEPT ![KeptPrevious] = "Ready"]
         /\ state' = [state EXCEPT ![KeptPrevious] = cpu]
         /\ taskCr3' = [taskCr3 EXCEPT ![KeptPrevious] = cr3]
         /\ UNCHANGED prepared
    ELSE UNCHANGED taskVars

(* The registers of the interrupted context are saved in previousTask,     *)
(* unless that is null or a zombie.                                        *)
SavePrevious ==
  IF KeptPrevious # NoTask /\ status[KeptPrevious] # "Zombie"
    THEN /\ status' = [status EXCEPT ![KeptPrevious] = "Ready"]
         /\ state' = [state EXCEPT ![KeptPrevious] = cpu]
         /\ taskCr3' = [taskCr3 EXCEPT ![KeptPrevious] = cr3]
         /\ UNCHANGED prepared
    ELSE UNCHANGED taskVars

TickScan ==
  /\ scan = Off /\ size > 0
  /\ previousTask' = KeptPrevious
  /\ toDeleteTask' = NoTask
  /\ SavePrevious
  /\ prevIdx' = WrapIdx
  /\ scan' = WrapIdx
  /\ UNCHANGED <<listVars, currentTask, cpu, cr3>>

(* Mutant: only null entries are dropped from the list.                    *)
Alive_NotNull(t) == t # NoTask

Alive(t) == t # NoTask /\ status[t] # "Zombie"

(* Mutant: the loop passes over dead entries instead of removing them.     *)
ScanDrop_PassesOver ==
  /\ scan # Off /\ scan < size
  /\ ~ Alive(Get(scan))
  /\ prevIdx' = WrapIdx
  /\ scan' = scan + 1
  /\ UNCHANGED <<listVars, taskVars, currentTask, previousTask,
                 toDeleteTask, cpu, cr3>>

(* The iteration that meets a null or a zombie removes it and stays on the *)
(* same index: i-- and the loop's i++ cancel, at 0 by wrapping around.     *)
ScanDrop ==
  /\ scan # Off /\ scan < size
  /\ ~ Alive(Get(scan))
  /\ Remove(scan)
  /\ prevIdx' = WrapIdx
  /\ UNCHANGED <<tmp, tmp2, taskVars, currentTask, previousTask,
                 toDeleteTask, scan, cpu, cr3>>

(* The current task is passed over when others are listed.                 *)
ScanSkip ==
  /\ scan # Off /\ scan < size
  /\ Alive(Get(scan))
  /\ Get(scan) = currentTask /\ size > 1
  /\ prevIdx' = WrapIdx
  /\ scan' = scan + 1
  /\ UNCHANGED <<listVars, taskVars, currentTask, previousTask,
                 toDeleteTask, cpu, cr3>>

(* Mutants: previousTask is not updated; the status is not updated.        *)
ContextSwitch_PreviousForgotten(t) ==
  /\ currentTask' = t
  /\ cr3' = taskCr3[t]
  /\ toDeleteTask' = IF previousTask # NoTask /\ status[previousTask] = "Zombie"
                       THEN previousTask ELSE toDeleteTask
  /\ previousTask' = IF previousTask = NoTask THEN t ELSE previousTask
  /\ prepared' = IF status[t] = "Created" THEN prepared \cup {t} ELSE prepared
  /\ status' = [status EXCEPT ![t] = "Running"]
  /\ cpu' = state[t]
  /\ UNCHANGED <<state, taskCr3>>

ContextSwitch_StatusForgotten(t) ==
  /\ currentTask' = t
  /\ cr3' = taskCr3[t]
  /\ toDeleteTask' = IF previousTask # NoTask /\ status[previousTask] = "Zombie"
                       THEN previousTask ELSE toDeleteTask
  /\ previousTask' = t
  /\ prepared' = IF status[t] = "Created" THEN prepared \cup {t} ELSE prepared
  /\ cpu' = state[t]
  /\ UNCHANGED <<status, state, taskCr3>>

(* The first dispatch of a task maps its stack and, for a process, starts  *)
(* its heap; the registers are then those of t.                            *)
ContextSwitch(t) ==
  /\ currentTask' = t
  /\ cr3' = taskCr3[t]
  /\ toDeleteTask' = IF previousTask # NoTask /\ status[previousTask] = "Zombie"
                       THEN previousTask ELSE toDeleteTask
  /\ previousTask' = t
  /\ prepared' = IF status[t] = "Created" THEN prepared \cup {t} ELSE prepared
  /\ status' = [status EXCEPT ![t] = "Running"]
  /\ cpu' = state[t]
  /\ UNCHANGED <<state, taskCr3>>

(* The first other task found is dispatched and the handler is left.       *)
ScanPick ==
  /\ scan # Off /\ scan < size
  /\ Alive(Get(scan))
  /\ Get(scan) # currentTask \/ size <= 1
  /\ prevIdx' = scan
  /\ scan' = Off
  /\ IF Get(scan) # currentTask
       THEN ContextSwitch(Get(scan))
       ELSE UNCHANGED <<taskVars, currentTask, previousTask, toDeleteTask,
                        cpu, cr3>>
  /\ UNCHANGED listVars

(* The list is exhausted: the interrupted context goes on.                 *)
ScanEnd ==
  /\ scan # Off /\ scan >= size
  /\ scan' = Off
  /\ UNCHANGED <<listVars, taskVars, currentTask, previousTask,
                 toDeleteTask, prevIdx, cpu, cr3>>

-----------------------------------------------------------------------------
Insertion ==
  \/ InsertBegin \/ InsertAppend \/ InsertHold \/ InsertPut
  \/ InsertShift \/ InsertStore \/ InsertCarry \/ InsertGrow

Timer == TickIdle \/ TickScan \/ ScanDrop \/ ScanSkip \/ ScanPick \/ ScanEnd

Next == (\E t \in Task : CreateTask(t)) \/ Exit \/ Insertion \/ Timer

Spec == Init /\ [][Next]_vars

(* The timer interrupts again and again, its handler runs to its end, and  *)
(* the statements of Insert that follow one another are executed when      *)
(* their context has the processor.  Nothing forces a task to create       *)
(* another one or to exit.                                                 *)
FairSpec == Spec /\ WF_vars(Timer) /\ SF_vars(Insertion)

-----------------------------------------------------------------------------
(* Properties.                                                             *)

TypeOK ==
  /\ array \in [Slot -> Pointer]
  /\ size \in 0 .. LastSlot + 1
  /\ tmp \in Pointer /\ tmp2 \in Pointer
  /\ status \in [Task -> Status]
  /\ state \in [Task -> Registers]
  /\ taskCr3 \in [Task -> Context]
  /\ prepared \subseteq Task
  /\ currentTask \in Pointer
  /\ previousTask \in Pointer
  /\ toDeleteTask \in Pointer
  /\ prevIdx \in Nat
  /\ cpu \in Registers
  /\ cr3 \in Context
  /\ scan \in Nat \cup {Off}

(* The context the processor should be executing.                          *)
runner == IF currentTask = NoTask THEN Boot ELSE currentTask

Listed(t) == \E k \in 0 .. size - 1 : array[k] = t

Zombie(t) == status[t] = "Zombie"

(* The processor executes the context that currentTask names, in that      *)
(* task's page directory, and every context that can be resumed is saved   *)
(* under its own name: Scheduler_ saves regs and cr3 in previousTask and   *)
(* not in currentTask, through deletions and dispatches in between.        *)
ContextIntegrity ==
  /\ cpu.owner = runner
  /\ cr3 = runner
  /\ \A t \in Task : state[t].owner = t /\ taskCr3[t] = t

(* Only the task that has the processor is marked as running.              *)
OneRunning == \A t \in Task : status[t] = "Running" => t = currentTask

(* A task is dispatched only after its first dispatch set up its stack and *)
(* heap, and no task that will be set up again has been set up already: a  *)
(* second set-up would erase the heap of a running process.                *)
PreparedOnce ==
  /\ currentTask # NoTask => currentTask \in prepared
  /\ \A t \in prepared : status[t] \notin {"Unborn", "Created"}

(* The task Scheduler_ is about to forget ("We should prolly free memory   *)
(* here!") has exited, and neither the registers nor the page directory of *)
(* the processor are still its own.                                        *)
DeletionSafe ==
  toDeleteTask # NoTask =>
    Zombie(toDeleteTask) /\ cpu.owner # toDeleteTask /\ cr3 # toDeleteTask

(* A task that called _exit stays a zombie, and one that was switched away *)
(* from is never given the processor again, whatever copies of its pointer *)
(* a torn insertion has left in the list.                                  *)
ZombiesStay ==
  \A t \in Task : Zombie(t) =>
    /\ Zombie(t)'
    /\ currentTask' = t => currentTask = t

NoResurrection == [][ZombiesStay]_vars

(* A list no insertion has torn or made too long.                          *)
Orderly ==
  /\ \A j, k \in 0 .. size - 1 : array[j] = array[k] => j = k
  /\ size <= MaxTaskCount

(* A task that stays in the list and does not exit gets the processor      *)
(* again and again: prevIdx does not make the search of Scheduler_ pass    *)
(* over an entry for ever.  (It does when torn insertions leave the        *)
(* current task twice at the end of the list, and when the list outgrows   *)
(* MAX_TASK_COUNT: Get answers with one entry for every index beyond.)     *)
NoStarvation ==
  \A t \in Task :
    <>[](Listed(t) /\ ~ Zombie(t) /\ Orderly) => []<>(currentTask = t)

(* A task that has exited does not stay in the list for ever.              *)
ZombiesLeave ==
  \A t \in Task : ~ <>[](Zombie(t) /\ Listed(t) /\ Orderly)

(* UsermodeEntry "will handle our initialization and idle": a task that    *)
(* has started, does not exit and has lost the processor gets it back.     *)
IdleTaskComesBack ==
  \A t \in Task \ Exiters :
    (t \in prepared /\ currentTask # t) ~> (currentTask = t)

-----------------------------------------------------------------------------
(* The scheduler implements one virtual processor per context.             *)

Finished == [owner |-> NoTask]

RegistersOf(c) == [owner : {c}, pc : Place, i : Nat, item : Pointer]

(* The registers of a context: in the processor while it runs, in its Task *)
(* when it is preempted, gone when it has exited or been abandoned.        *)
frame ==
  [c \in Context |->
     IF c # Boot /\ Zombie(c) THEN Finished
     ELSE IF c = runner THEN cpu
     ELSE IF c = Boot THEN Finished
     ELSE state[c]]

born == {t \in Task : status[t] # "Unborn"}

VCPU == INSTANCE VirtualCpus WITH Fresh <- FreshRegisters

(* Preemption is invisible: at every step of the kernel's code the         *)
(* registers of the programs change as they do on processors of their own. *)
ImplementsVirtualCpus == VCPU!Spec

-----------------------------------------------------------------------------
(* The inductive invariant, in parts.                                      *)

(* Every pointer the scheduler or Insert may follow is null or belongs to  *)
(* a task that CreateTask has filled in.                                   *)
Known(p) == p = NoTask \/ status[p] # "Unborn"

KnownPointers ==
  /\ \A k \in Slot : Known(array[k])
  /\ Known(tmp) /\ Known(tmp2) /\ Known(cpu.item)
  /\ \A t \in Task : Known(state[t].item)

(* previousTask and currentTask, two variables of the code, always agree;  *)
(* therefore the registers are saved in the right Task.                    *)
OneCurrent ==
  /\ previousTask = currentTask
  /\ toDeleteTask # NoTask => Zombie(toDeleteTask) /\ toDeleteTask # currentTask

(* The status of a task tells what has been done for it.                   *)
StatusTells ==
  /\ prepared = {t \in Task : status[t] \in {"Ready", "Running", "Zombie"}}
  /\ currentTask # NoTask => currentTask \in prepared
  /\ \A t \in Task : status[t] = "Unborn" => state[t] = FreshRegisters(t)

(* While Scheduler_ searches, the interrupted task is saved: nobody is     *)
(* marked as running and the registers are in its Task.                    *)
SavedWhileSearching ==
  IF scan = Off
    THEN \A t \in Task : status[t] = "Running" => t = currentTask
    ELSE /\ \A t \in Task : status[t] # "Running"
         /\ currentTask # NoTask /\ ~ Zombie(currentTask) =>
              state[currentTask] = cpu

(* A current task that has exited does nothing but spin.                   *)
ZombieSpins ==
  currentTask # NoTask /\ Zombie(currentTask) => cpu.pc = "spin"

Coherence ==
  /\ ContextIntegrity
  /\ KnownPointers
  /\ OneCurrent
  /\ StatusTells
  /\ SavedWhileSearching
  /\ ZombieSpins

IInv == TypeOK /\ Coherence

=============================================================================
