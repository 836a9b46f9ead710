-------------------------- MODULE SchedulerProofs --------------------------
(***************************************************************************)
(* Theorems about Scheduler for every set of tasks, creators and exiters   *)
(* and every size of the list.                                             *)
(***************************************************************************)
EXTENDS Scheduler, TLAPS

USE ContextAssumption, SizeAssumption

(* Nothing is listed and nothing is saved before the first CreateTask.     *)
LEMMA InitInvariant == Init => IInv
  BY SMT DEF Init, IInv, TypeOK, Coherence, ContextIntegrity, KnownPointers, Known,
     OneCurrent, StatusTells, SavedWhileSearching, ZombieSpins, Zombie,
     FreshRegisters, Registers, Place, Status, Pointer, Context, Slot, Off, runner

(* CreateTask fills in a task nothing points to yet.                       *)
LEMMA CreateTaskInvariant ==
  ASSUME IInv, NEW t \in Task, CreateTask(t)
  PROVE  IInv'
<1> USE DEF IInv, TypeOK, Coherence, CreateTask, At, listVars, schedVars
<1>1. TypeOK'
  BY DEF FreshRegisters, Registers, Place, Status, Pointer, Context
<1>2. ContextIntegrity'
  BY DEF ContextIntegrity, runner, FreshRegisters, Registers
<1>3. KnownPointers'
  BY DEF KnownPointers, Known, FreshRegisters, Registers, Status
<1>4. OneCurrent'
  BY DEF OneCurrent, Zombie, Status, StatusTells, Pointer
<1>5. StatusTells'
  BY DEF StatusTells, FreshRegisters, Status
<1>6. SavedWhileSearching'
  BY DEF SavedWhileSearching, Status
<1>7. ZombieSpins'
  BY DEF ZombieSpins, Zombie, StatusTells, Pointer, OneCurrent
<1> QED BY <1>1, <1>2, <1>3, <1>4, <1>5, <1>6, <1>7

(* _exit: the task that has the processor is the current one.              *)
LEMMA ExitInvariant ==
  ASSUME IInv, Exit
  PROVE  IInv'
<1> USE DEF IInv, TypeOK, Coherence, Exit, At, listVars, schedVars
<1>0. currentTask \in Task
  BY DEF Pointer
<1>1. TypeOK'
  BY <1>0 DEF Registers, Place, Status
<1>2. ContextIntegrity'
  BY <1>0 DEF ContextIntegrity, runner, Registers
<1>3. KnownPointers'
  BY <1>0 DEF KnownPointers, Known, Registers, Status
<1>4. OneCurrent'
  BY <1>0 DEF OneCurrent, Zombie, Status, Pointer
<1>5. StatusTells'
  BY <1>0 DEF StatusTells, Status
<1>6. SavedWhileSearching'
  BY <1>0 DEF SavedWhileSearching, Status, Off
<1>7. ZombieSpins'
  BY <1>0 DEF ZombieSpins, Registers
<1> QED BY <1>1, <1>2, <1>3, <1>4, <1>5, <1>6, <1>7

(* The statements of Insert move known pointers about, advance the         *)
(* registers of the context that executes them and change no Task.         *)
LEMMA InsertionEffect ==
  ASSUME IInv, Insertion
  PROVE  /\ scan = Off /\ cpu.pc # "spin"
         /\ UNCHANGED <<taskVars, schedVars, cr3>>
         /\ cpu' \in Registers
         /\ cpu'.owner = cpu.owner
         /\ cpu'.item \in {cpu.item, NoTask}
         /\ array' \in [Slot -> Pointer] /\ size' \in 0 .. LastSlot + 1
         /\ tmp' \in Pointer /\ tmp2' \in Pointer
         /\ \A k \in Slot : Known(array'[k])
         /\ Known(tmp') /\ Known(tmp2')
<1> USE DEF IInv, TypeOK, Coherence, KnownPointers, At, listVars, Registers, Place
<1>1. CASE InsertBegin
  BY <1>1 DEF InsertBegin
<1>2. CASE InsertAppend
  BY <1>2 DEF InsertAppend
<1>3. CASE InsertHold
  BY <1>3 DEF InsertHold
<1>4. CASE InsertPut
  BY <1>4 DEF InsertPut
<1>5. CASE InsertShift
  <2>1. CASE cpu.i < size
    <3> USE <1>5, <2>1 DEF InsertShift
    <3>1. /\ cpu' = [cpu EXCEPT !.pc = "store", !.i = @ + 1]
          /\ cpu.i + 1 \in Slot
          /\ tmp2' = array[cpu.i + 1]
          /\ UNCHANGED <<array, size, tmp, taskVars, schedVars, cr3>>
      OBVIOUS
    <3>2. tmp2' \in Pointer /\ Known(tmp2')
      BY <3>1
    <3>3. cpu' = [owner |-> cpu.owner, pc |-> "store",
                  i |-> cpu.i + 1, item |-> cpu.item]
      BY <3>1
    <3>4. cpu' \in Registers /\ cpu'.owner = cpu.owner /\ cpu'.item = cpu.item
      BY <3>3
    <3> QED BY <3>1, <3>2, <3>4
  <2>2. CASE ~ (cpu.i < size)
    BY <1>5, <2>2 DEF InsertShift
  <2> QED BY <2>1, <2>2
<1>6. CASE InsertStore
  BY <1>6 DEF InsertStore
<1>7. CASE InsertCarry
  BY <1>7 DEF InsertCarry
<1>8. CASE InsertGrow
  BY <1>8 DEF InsertGrow, FreshRegisters, Slot, Pointer
<1> QED
  BY <1>1, <1>2, <1>3, <1>4, <1>5, <1>6, <1>7, <1>8 DEF Insertion

(* Any statement of Insert, whichever context executes it and however      *)
(* many insertions have been torn before, keeps the invariant.             *)
LEMMA InsertionInvariant ==
  ASSUME IInv, Insertion
  PROVE  IInv'
<1> USE InsertionEffect DEF IInv, TypeOK, Coherence, taskVars, schedVars
<1>1. TypeOK'
  OBVIOUS
<1>2. ContextIntegrity' /\ OneCurrent' /\ StatusTells'
  BY DEF ContextIntegrity, OneCurrent, StatusTells, runner, Zombie
<1>3. SavedWhileSearching' /\ ZombieSpins'
  BY DEF SavedWhileSearching, ZombieSpins, Zombie
<1>4. KnownPointers'
  BY DEF KnownPointers, Known
<1> QED BY <1>1, <1>2, <1>3, <1>4

-----------------------------------------------------------------------------
(* The index the search starts from, and the entries it looks at.          *)
LEMMA WrapIdxType ==
  ASSUME TypeOK
  PROVE  WrapIdx \in Nat
  BY DEF TypeOK, WrapIdx

(* Get never answers with a pointer to a task that was not created.        *)
LEMMA GetIsKnown ==
  ASSUME IInv, scan # Off, scan < size
  PROVE  /\ scan \in Slot
         /\ Get(scan) \in Pointer
         /\ Known(Get(scan))
<1>1. scan \in Slot
  BY DEF IInv, TypeOK, Slot, Off
<1>2. scan >= MaxTaskCount => MaxTaskCount - 1 \in Slot
  BY <1>1 DEF Slot
<1> QED
  BY <1>1, <1>2 DEF IInv, TypeOK, Coherence, KnownPointers, Get

(* Nothing is lost by forgetting the task marked for deletion: it is never *)
(* the one previousTask points to.                                         *)
LEMMA PreviousIsKept ==
  ASSUME IInv
  PROVE  KeptPrevious = currentTask
  BY DEF IInv, Coherence, OneCurrent, KeptPrevious

(* The start of Scheduler_: the task marked for deletion is forgotten      *)
(* and the interrupted task, unless it has exited, is saved.               *)
LEMMA TickInvariant ==
  ASSUME IInv, TickIdle \/ TickScan
  PROVE  IInv'
<1> USE DEF IInv, TypeOK, Coherence, listVars, taskVars
<1>1. KeptPrevious = currentTask
  BY PreviousIsKept
<1>2. CASE TickIdle
  <2> USE <1>1, <1>2 DEF TickIdle
  <2>1. TypeOK'
    BY DEF Pointer
  <2>2. Coherence'
    BY DEF ContextIntegrity, OneCurrent, StatusTells, SavedWhileSearching,
           KnownPointers, Known, ZombieSpins, runner, Zombie
  <2> QED BY <2>1, <2>2
<1>3. CASE TickScan /\ (currentTask = NoTask \/ Zombie(currentTask))
  <2> USE <1>1, <1>3 DEF TickScan, SavePrevious, Zombie
  <2>0. UNCHANGED taskVars
    OBVIOUS
  <2>1. TypeOK'
    BY <2>0, WrapIdxType DEF Pointer
  <2>2. ContextIntegrity' /\ OneCurrent' /\ StatusTells' /\ KnownPointers' /\ ZombieSpins'
    BY <2>0 DEF ContextIntegrity, OneCurrent, StatusTells, KnownPointers,
                Known, ZombieSpins, runner
  <2>3. SavedWhileSearching'
    BY <2>0, WrapIdxType DEF SavedWhileSearching, Off
  <2> QED BY <2>1, <2>2, <2>3
<1>4. CASE TickScan /\ currentTask # NoTask /\ ~ Zombie(currentTask)
  <2> USE <1>1, <1>4 DEF TickScan, SavePrevious, Zombie
  <2>0. /\ currentTask \in Task
        /\ status' = [status EXCEPT ![currentTask] = "Ready"]
        /\ state' = [state EXCEPT ![currentTask] = cpu]
        /\ taskCr3' = [taskCr3 EXCEPT ![currentTask] = cr3]
        /\ UNCHANGED prepared
    BY DEF Pointer
  <2>1. TypeOK'
    BY <2>0, WrapIdxType DEF Pointer, Status
  <2>2. ContextIntegrity'
    BY <2>0 DEF ContextIntegrity, runner
  <2>3. KnownPointers'
    BY <2>0 DEF KnownPointers, Known, Status
  <2>4. OneCurrent' /\ ZombieSpins'
    BY <2>0 DEF OneCurrent, ZombieSpins, Status
  <2>5. StatusTells'
    BY <2>0 DEF StatusTells, Status
  <2>6. SavedWhileSearching'
    BY <2>0, WrapIdxType DEF SavedWhileSearching, Off
  <2> QED BY <2>1, <2>2, <2>3, <2>4, <2>5, <2>6
<1> QED
  BY <1>2, <1>3, <1>4

(* The iterations that dispatch nothing.                                   *)
LEMMA SearchInvariant ==
  ASSUME IInv, ScanDrop \/ ScanSkip \/ ScanEnd
  PROVE  IInv'
<1> USE DEF IInv, TypeOK, Coherence, listVars, taskVars
<1>1. CASE ScanDrop
  <2> USE <1>1 DEF ScanDrop, Remove
  <2>0. scan \in Slot
    BY GetIsKnown
  <2>1. TypeOK'
    BY <2>0, WrapIdxType DEF Slot, Off
  <2>2. KnownPointers'
    BY <2>0 DEF KnownPointers, Known, Slot
  <2>3. ContextIntegrity' /\ OneCurrent' /\ StatusTells' /\ SavedWhileSearching' /\ ZombieSpins'
    BY DEF ContextIntegrity, OneCurrent, StatusTells, SavedWhileSearching,
           ZombieSpins, runner, Zombie
  <2> QED BY <2>1, <2>2, <2>3
<1>2. CASE ScanSkip
  <2> USE <1>2 DEF ScanSkip
  <2>1. TypeOK'
    BY WrapIdxType DEF Off
  <2>2. Coherence'
    BY DEF ContextIntegrity, OneCurrent, StatusTells, SavedWhileSearching,
           KnownPointers, Known, ZombieSpins, runner, Zombie, Off
  <2> QED BY <2>1, <2>2
<1>3. CASE ScanEnd
  BY <1>3 DEF ScanEnd, ContextIntegrity, OneCurrent, StatusTells,
              SavedWhileSearching, KnownPointers, Known, ZombieSpins, runner, Zombie
<1> QED
  BY <1>1, <1>2, <1>3

(* ScanPick dispatches a known task that has not exited and is not the     *)
(* current one, or leaves everything as it is.                             *)
LEMMA PickedTask ==
  ASSUME IInv, ScanPick, Get(scan) # currentTask
  PROVE  /\ Get(scan) \in Task
         /\ status[Get(scan)] \in {"Created", "Ready"}
         /\ ContextSwitch(Get(scan))
         /\ UNCHANGED listVars
<1>1. Get(scan) \in Pointer /\ Known(Get(scan)) /\ Alive(Get(scan))
  BY GetIsKnown DEF ScanPick
<1>2. Get(scan) \in Task /\ status[Get(scan)] \notin {"Unborn", "Zombie"}
  BY <1>1 DEF Pointer, Known, Alive
<1>3. status[Get(scan)] # "Running"
  BY <1>2 DEF IInv, Coherence, SavedWhileSearching, ScanPick
<1> QED
  BY <1>2, <1>3 DEF ScanPick, IInv, TypeOK, Status

(* The iteration that dispatches a task: ContextSwitch loads registers     *)
(* that are the task's own.                                                *)
LEMMA PickInvariant ==
  ASSUME IInv, ScanPick
  PROVE  IInv'
<1> USE DEF IInv, TypeOK, Coherence
<1>0. scan \in Slot
  BY GetIsKnown DEF ScanPick
<1>1. CASE Get(scan) = currentTask
  <2>0. /\ UNCHANGED <<listVars, taskVars, currentTask, previousTask,
                       toDeleteTask, cpu, cr3>>
        /\ prevIdx' = scan /\ scan' = Off
    BY <1>1 DEF ScanPick
  <2>1. TypeOK'
    BY <2>0, <1>0 DEF listVars, taskVars, Slot
  <2>2. SavedWhileSearching'
    BY <2>0 DEF SavedWhileSearching, taskVars, ScanPick
  <2>3. Coherence'
    BY <2>0, <2>2 DEF listVars, taskVars, ContextIntegrity, OneCurrent, StatusTells,
                KnownPointers, Known, ZombieSpins, runner, Zombie
  <2> QED BY <2>1, <2>3
<1>2. CASE Get(scan) # currentTask
  <2> DEFINE t == Get(scan)
  <2>0. /\ t \in Task /\ status[t] \in {"Created", "Ready"}
        /\ ContextSwitch(t) /\ UNCHANGED listVars
    BY <1>2, PickedTask
  <2>1. prevIdx' = scan /\ scan' = Off /\ t # currentTask /\ scan # Off
    BY <1>2 DEF ScanPick
  <2> HIDE DEF t
  <2> USE <2>0, <2>1 DEF ContextSwitch, listVars
  <2>2. TypeOK'
    BY <1>0 DEF Slot, Pointer, Context, Status
  <2>3. ContextIntegrity'
    BY DEF ContextIntegrity, runner
  <2>4. KnownPointers'
    BY DEF KnownPointers, Known, Status
  <2>5. OneCurrent'
    BY DEF OneCurrent, Zombie, Pointer
  <2>6. StatusTells'
    BY DEF StatusTells, Status
  <2>7. SavedWhileSearching'
    BY DEF SavedWhileSearching
  <2>8. ZombieSpins'
    BY DEF ZombieSpins, Zombie
  <2> QED BY <2>2, <2>3, <2>4, <2>5, <2>6, <2>7, <2>8
<1> QED
  BY <1>1, <1>2

(* Every step of the scheduler keeps the invariant.                        *)
LEMMA NextInvariant ==
  ASSUME IInv, [Next]_vars
  PROVE  IInv'
<1>1. CASE UNCHANGED vars
  BY <1>1 DEF vars, listVars, taskVars, schedVars, IInv, TypeOK, Coherence,
     ContextIntegrity, OneCurrent, StatusTells, SavedWhileSearching,
     KnownPointers, Known, ZombieSpins, runner, Zombie
<1> QED
  BY <1>1, CreateTaskInvariant, ExitInvariant, InsertionInvariant, TickInvariant,
     SearchInvariant, PickInvariant DEF Next, Timer

-----------------------------------------------------------------------------
(* The inductive invariant holds in every reachable state.                 *)
THEOREM Invariant == Spec => []IInv
  BY InitInvariant, NextInvariant, PTL DEF Spec

(* The scheduler's fields agree with each other and with the processor     *)
(* after every statement of Insert and of Scheduler_: previousTask, the    *)
(* pointers in the list and every status say what they are taken to say.   *)
THEOREM FieldsAgree == Spec => []Coherence
  <1>1. IInv => Coherence
    BY DEF IInv
  <1> QED
    BY <1>1, Invariant, PTL

(* Every variable keeps its type: pointers name tasks or are null, indexes *)
(* and sizes are natural numbers, saved registers are registers.           *)
THEOREM TypeCorrect == Spec => []TypeOK
<1>1. IInv => TypeOK
  BY DEF IInv
<1> QED BY <1>1, Invariant, PTL

(* The processor always executes the context currentTask names, with that  *)
(* task's page directory, and saved registers are never mixed up.          *)
THEOREM ContextsKeptApart == Spec => []ContextIntegrity
<1>1. IInv => ContextIntegrity
  BY DEF IInv, Coherence
<1> QED BY <1>1, Invariant, PTL

(* At most the current task is marked as running.                          *)
THEOREM AtMostOneRuns == Spec => []OneRunning
<1>1. IInv => OneRunning
  BY DEF IInv, Coherence, SavedWhileSearching, OneRunning
<1> QED BY <1>1, Invariant, PTL

(* A task is set up exactly once, before it runs.                          *)
THEOREM SetUpOnce == Spec => []PreparedOnce
<1>1. IInv => PreparedOnce
  BY DEF IInv, Coherence, StatusTells, PreparedOnce
<1> QED BY <1>1, Invariant, PTL

(* What toDeleteTask points to is no longer in use by the processor.       *)
THEOREM SafeToDelete == Spec => []DeletionSafe
<1>1. IInv => DeletionSafe
  BY DEF IInv, TypeOK, Coherence, ContextIntegrity, OneCurrent, DeletionSafe,
         runner, Pointer
<1> QED BY <1>1, Invariant, PTL

(* A finished task is never given the processor again.                     *)
THEOREM ZombiesStayDead == Spec => NoResurrection
<1>1. ASSUME IInv, [Next]_vars, NEW t \in Task, Zombie(t)
      PROVE  Zombie(t)' /\ (currentTask' = t => currentTask = t)
  <2> USE <1>1 DEF Zombie
  <2>1. CASE UNCHANGED <<status, currentTask>>
    BY <2>1
  <2>2. ASSUME NEW u \in Task, CreateTask(u)
        PROVE  Zombie(t)' /\ UNCHANGED currentTask
    BY <2>2 DEF CreateTask, schedVars, IInv, TypeOK
  <2>3. CASE Exit
    BY <2>3 DEF Exit, schedVars, IInv, TypeOK
  <2>4. CASE Insertion
    BY <2>4, InsertionEffect DEF taskVars, schedVars
  <2>5. CASE TickScan
    BY <2>5, PreviousIsKept DEF TickScan, SavePrevious, taskVars, IInv, TypeOK
  <2>6. CASE ScanPick
    <3>1. CASE Get(scan) = currentTask
      <4>1. UNCHANGED <<taskVars, currentTask>>
        BY <2>6, <3>1 DEF ScanPick
      <4> QED BY <4>1 DEF taskVars
    <3>2. CASE Get(scan) # currentTask
      BY <2>6, <3>2, PickedTask DEF ContextSwitch, IInv, TypeOK
    <3> QED BY <3>1, <3>2
  <2> QED
    BY <2>1, <2>2, <2>3, <2>4, <2>5, <2>6
    DEF Next, Timer, TickIdle, ScanDrop, ScanSkip, ScanEnd, vars, taskVars, schedVars
<1>2. IInv /\ [Next]_vars => ZombiesStay
  BY <1>1 DEF ZombiesStay
<1> QED BY <1>2, Invariant, PTL DEF Spec, NoResurrection

-----------------------------------------------------------------------------
(* The scheduler implements virtual processors.                            *)

(* The runner is one of the contexts VirtualCpus speaks about.             *)
LEMMA RunnerIsContext ==
  ASSUME IInv
  PROVE  runner \in Context
  BY DEF IInv, TypeOK, runner, Pointer, Context

(* A step of the running program: only the registers of the runner change, *)
(* from those of a context that has not finished to some of its own.       *)
LEMMA ProgramStep ==
  ASSUME IInv, IInv',
         ~ (runner # Boot /\ Zombie(runner)),
         UNCHANGED <<currentTask, state>>,
         cpu'.owner = cpu.owner,
         \A t \in Task \ {runner} : Zombie(t)' = Zombie(t),
         ~ (runner # Boot /\ Zombie(runner)')
  PROVE  VCPU!Compute(RegistersOf(runner))
<1>1. UNCHANGED runner
  BY DEF runner
<1>2. cpu.owner = runner /\ runner \in Context
  BY RunnerIsContext DEF IInv, Coherence, ContextIntegrity
<1>3. frame[runner] = cpu /\ frame'[runner] = cpu'
  BY <1>1, <1>2 DEF frame
<1>4. cpu # Finished
  BY <1>2 DEF IInv, TypeOK, Registers, Finished, Context
<1>5. cpu' \in RegistersOf(runner)
  BY <1>2 DEF IInv, TypeOK, Registers, RegistersOf
<1>6. frame' = [frame EXCEPT ![runner] = frame'[runner]]
  <2>1. ASSUME NEW c \in Context, c # runner
        PROVE  frame'[c] = frame[c]
    BY <2>1, <1>1 DEF frame, Context
  <2>2. frame = [c \in Context |-> frame[c]] /\ frame' = [c \in Context |-> frame'[c]]
    BY DEF frame
  <2> HIDE DEF frame
  <2> QED BY <2>1, <2>2, <1>2
<1> QED
  BY <1>1, <1>3, <1>4, <1>5, <1>6 DEF VCPU!Compute

(* At the start every context has fresh registers and Boot computes.       *)
LEMMA RefinesInit == Init => VCPU!Init
  BY DEF Init, VCPU!Init, frame, runner, born, Zombie, Context, FreshRegisters

(* Every step is a step of VirtualCpus or leaves its variables alone: a    *)
(* statement of a program changes the registers of the runner only, the    *)
(* handler changes none and at most the runner.                            *)
LEMMA RefinesStep ==
  ASSUME IInv, [Next]_vars
  PROVE  [VCPU!Next]_(VCPU!vars)
<1> USE DEF VCPU!vars
<1>0. IInv'
  BY NextInvariant
<1>t. currentTask \in Pointer /\ status \in [Task -> Status] /\ state \in [Task -> Registers]
  BY DEF IInv, TypeOK
(* A step that leaves alone what the mapping looks at is a stutter.        *)
<1>1. ASSUME UNCHANGED <<status, state, currentTask, cpu>>
      PROVE  UNCHANGED VCPU!vars
  <2>1. UNCHANGED runner
    BY <1>1 DEF runner
  <2>2. UNCHANGED born
    BY <1>1 DEF born
  <2>3. UNCHANGED frame
    BY <1>1, <2>1 DEF frame, Zombie
  <2> QED BY <2>1, <2>2, <2>3
<1>2. ASSUME NEW t \in Task, CreateTask(t)
      PROVE  VCPU!Next
  <2> USE <1>2 DEF CreateTask, schedVars
  <2>1. status' = [status EXCEPT ![t] = "Created"]
    OBVIOUS
  <2>2. state' = state
    BY <1>t DEF IInv, Coherence, StatusTells
  <2>3. runner # t /\ (runner # Boot => ~ Zombie(runner))
    BY <1>t DEF IInv, Coherence, StatusTells, ZombieSpins, runner, At
  <2>4. VCPU!Compute(RegistersOf(runner))
    <3>1. \A u \in Task : Zombie(u)' = Zombie(u)
      BY <1>t, <2>1 DEF Zombie
    <3>2. cpu'.owner = cpu.owner
      BY DEF IInv, TypeOK, Registers
    <3>3. runner # Boot => runner \in Task
      BY <1>t DEF runner, Pointer
    <3>4. UNCHANGED <<runner, currentTask, state>>
      BY <2>2 DEF runner
    <3>5. ~ (runner # Boot /\ Zombie(runner)) /\ ~ (runner # Boot /\ Zombie(runner)')
      BY <2>3, <3>1, <3>3, <3>4 DEF Zombie
    <3> HIDE DEF CreateTask
    <3> QED BY <1>0, <3>1, <3>2, <3>4, <3>5, ProgramStep
  <2>5. t \notin born /\ born' = born \cup {t}
    BY <1>t, <2>1 DEF born
  <2>6. frame[t] = FreshRegisters(t)
    BY <2>3 DEF frame, IInv, Coherence, StatusTells, Zombie, Context
  <2>7. VCPU!Spawn(t)
    BY <2>4, <2>5, <2>6 DEF VCPU!Spawn
  <2> QED BY <2>7 DEF VCPU!Next, Context
<1>3. ASSUME Exit
      PROVE  VCPU!Next
  <2> USE <1>3 DEF Exit, schedVars
  <2>1. /\ currentTask \in Task /\ runner = currentTask /\ UNCHANGED runner
        /\ status' = [status EXCEPT ![currentTask] = "Zombie"]
    BY <1>t DEF runner, Pointer
  <2>2. ~ Zombie(currentTask)
    BY <2>1 DEF IInv, Coherence, ZombieSpins, At
  <2>3. frame[runner] = cpu /\ cpu # Finished
    BY <2>1, <2>2 DEF frame, IInv, TypeOK, Coherence, ContextIntegrity, Registers,
       Finished, Context
  <2>4. frame'[runner] = Finished
    BY <1>t, <2>1 DEF frame, Zombie, Context
  <2>5. frame' = [frame EXCEPT ![runner] = frame'[runner]]
    <3>1. ASSUME NEW c \in Context, c # runner
          PROVE  frame'[c] = frame[c]
      BY <3>1, <1>t, <2>1 DEF frame, Zombie, Context
    <3> QED BY <3>1, <2>1 DEF frame, Context
  <2>6. UNCHANGED born
    BY <1>t, <2>1 , <2>2 DEF born, IInv, Coherence, StatusTells
  <2>7. VCPU!Finish
    BY <2>1, <2>3, <2>4, <2>5, <2>6 DEF VCPU!Finish, VCPU!Compute
  <2> QED BY <2>7 DEF VCPU!Next
<1>4. ASSUME Insertion
      PROVE  VCPU!Next
  <2> USE <1>4, InsertionEffect DEF taskVars, schedVars
  <2>1. runner # Boot => runner \in Task /\ ~ Zombie(runner)
    BY <1>t DEF IInv, Coherence, ZombieSpins, runner, Pointer
  <2>2. \A u \in Task : Zombie(u)' = Zombie(u)
    BY DEF Zombie
  <2>3. VCPU!Compute(RegistersOf(runner))
    <3>1. UNCHANGED <<runner, currentTask, state>> /\ cpu'.owner = cpu.owner
      BY DEF runner
    <3>2. ~ (runner # Boot /\ Zombie(runner)) /\ ~ (runner # Boot /\ Zombie(runner)')
      BY <2>1, <2>2, <3>1 DEF Zombie
    <3> QED BY <1>0, <2>2, <3>1, <3>2, ProgramStep
  <2>4. UNCHANGED born
    BY DEF born
  <2> QED BY <2>3, <2>4 DEF VCPU!Next, VCPU!Step
(* Saving the registers of the interrupted task does not change what its   *)
(* virtual processor holds.                                                *)
<1>5. ASSUME TickScan
      PROVE  UNCHANGED VCPU!vars
  <2> USE <1>5, PreviousIsKept DEF TickScan, SavePrevious
  <2>1. CASE currentTask = NoTask \/ Zombie(currentTask)
    BY <1>1, <2>1 DEF taskVars, Zombie
  <2>2. CASE currentTask # NoTask /\ ~ Zombie(currentTask)
    <3>1. /\ currentTask \in Task /\ runner = currentTask
          /\ status' = [status EXCEPT ![currentTask] = "Ready"]
          /\ state' = [state EXCEPT ![currentTask] = cpu]
          /\ UNCHANGED <<currentTask, cpu>>
      BY <2>2, <1>t DEF Zombie, runner, Pointer
    <3>2. UNCHANGED runner
      BY <3>1 DEF runner
    <3>3. \A u \in Task : Zombie(u)' = Zombie(u)
      BY <2>2, <3>1, <1>t DEF Zombie
    <3>4. UNCHANGED born
      BY <3>1, <1>t, <2>2 DEF born, IInv, Coherence, StatusTells
    <3>5. ASSUME NEW c \in Context
          PROVE  frame'[c] = frame[c]
      BY <3>1, <3>2, <3>3, <3>5, <1>t DEF frame, Context
    <3>6. UNCHANGED frame
      BY <3>5 DEF frame
    <3> QED BY <3>2, <3>4, <3>6
  <2> QED BY <2>1, <2>2
<1>6. ASSUME ScanPick
      PROVE  VCPU!Next \/ UNCHANGED VCPU!vars
  <2>1. CASE Get(scan) = currentTask
    <3>1. UNCHANGED <<taskVars, currentTask, cpu>>
      BY <1>6, <2>1 DEF ScanPick
    <3> QED BY <1>1, <3>1 DEF taskVars
  <2>2. CASE Get(scan) # currentTask
    <3> DEFINE t == Get(scan)
    <3>0. t \in Task /\ status[t] \in {"Created", "Ready"} /\ ContextSwitch(t)
      BY <1>6, <2>2, PickedTask
    <3>s. t # currentTask /\ scan # Off
      BY <1>6, <2>2 DEF ScanPick
    <3> HIDE DEF t
    <3>1. /\ currentTask' = t /\ cpu' = state[t] /\ state' = state
          /\ status' = [status EXCEPT ![t] = "Running"]
      BY <3>0 DEF ContextSwitch
    <3>2. runner' = t /\ t # runner
      BY <3>0, <3>1, <3>s DEF runner
    <3>3. \A u \in Task : Zombie(u)' = Zombie(u)
      BY <3>0, <3>1, <1>t DEF Zombie
    <3>4. t \in born /\ UNCHANGED born
      BY <3>0, <3>1, <1>t DEF born
    <3>5. frame[t] = state[t] /\ state[t] # Finished
      BY <3>0, <3>2, <1>t DEF frame, Zombie, Registers, Finished, Context,
         IInv, Coherence, ContextIntegrity
    <3>6. CASE runner = Boot
      <4>1. ASSUME NEW c \in Context
            PROVE  frame'[c] = IF c = Boot THEN Finished ELSE frame[c]
        BY <4>1, <3>0, <3>1, <3>2, <3>3, <3>6 DEF frame, Context
      <4>2. frame' = [frame EXCEPT ![Boot] = Finished]
        BY <4>1 DEF frame
      <4>3. VCPU!Switch(t)
        BY <3>2, <3>4, <3>5, <3>6, <4>2 DEF VCPU!Switch
      <4> QED BY <4>3, <3>0 DEF VCPU!Next, Context
    <3>7. CASE runner # Boot
      <4>0. currentTask \in Task /\ runner = currentTask
        BY <3>7, <1>t DEF runner, Pointer
      <4>1. ~ Zombie(currentTask) => state[currentTask] = cpu
        BY <4>0, <3>s DEF IInv, Coherence, SavedWhileSearching
      <4>2. ASSUME NEW c \in Context
            PROVE  frame'[c] = frame[c]
        BY <4>0, <4>1, <4>2, <3>0, <3>1, <3>2, <3>3, <3>7 DEF frame, Context
      <4>3. UNCHANGED frame
        BY <4>2 DEF frame
      <4>4. VCPU!Switch(t)
        BY <3>2, <3>4, <3>5, <3>7, <4>3 DEF VCPU!Switch
      <4> QED BY <4>4, <3>0 DEF VCPU!Next, Context
    <3> QED BY <3>6, <3>7
  <2> QED BY <2>1, <2>2
<1>7. ASSUME TickIdle \/ ScanDrop \/ ScanSkip \/ ScanEnd \/ UNCHANGED vars
      PROVE  UNCHANGED VCPU!vars
  <2>1. UNCHANGED <<status, state, currentTask, cpu>>
    BY <1>7 DEF TickIdle, ScanDrop, ScanSkip, ScanEnd, vars, taskVars, schedVars
  <2> QED BY <1>1, <2>1
<1>8. CASE Next
  BY <1>2, <1>3, <1>4, <1>5, <1>6, <1>7, <1>8 DEF Next, Timer
<1> QED
  BY <1>7, <1>8

(* Preemption is invisible to the programs: each computes on registers     *)
(* that only its own steps change.                                         *)
THEOREM PreemptionIsInvisible == Spec => ImplementsVirtualCpus
<1>1. Init => VCPU!Init
  BY RefinesInit
<1>2. IInv /\ [Next]_vars => [VCPU!Next]_(VCPU!vars)
  BY RefinesStep
<1> QED
  BY <1>1, <1>2, Invariant, PTL DEF Spec, ImplementsVirtualCpus, VCPU!Spec

=============================================================================
