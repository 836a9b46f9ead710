----------------------------- MODULE Interrupts -----------------------------
(***************************************************************************)
(* Interrupts, from the first line of kernel_main until the tasks run:     *)
(* source/kernel/kernel.cpp with the interrupt tables, the PIT, keyboard   *)
(* and mouse, and the calls of the BIOS that VESA makes.                   *)
(*                                                                         *)
(* kernel_main advances from stage to stage.  The devices act at any time: *)
(* the PIT ticks, the keyboard controller fills its one byte of output.    *)
(* An interrupt runs through irq_handler in three phases, between which    *)
(* the devices go on.                                                      *)
(*                                                                         *)
(* The hardware is modelled as the code uses it.  The 8259s remember a     *)
(* request when a line rises.  Whether they forget it when the byte is     *)
(* read before the request is served, whether they notice after a Remap a  *)
(* line that is up already, and whether the BIOS acknowledges an interrupt *)
(* it does not expect, differs between machines and is left open.  The     *)
(* controller is taken to answer kernel_main before Mouse_Wait gives up.   *)
(***************************************************************************)
EXTENDS Naturals, Sequences

CONSTANT ModeCount   \* the modes the BIOS lists

ASSUME ModeAssumption == ModeCount \in Nat

VARIABLES
  stage,      \* where kernel_main is
  calls,      \* the calls of the BIOS it has still to make
  tasks,      \* the tasks that exist
  context,    \* who executes outside of interrupts: "Boot" or "Task"
  flag,       \* the interrupt flag
  idt, gates, \* the table the processor uses, what pIDT holds
  frames,     \* the interrupts being handled, innermost last
  fate,       \* "Running", or "Astray": an interrupt went through no gate of ours
  mapped,     \* the vectors the 8259s send
  irr, isr,   \* the lines requested, those in service
  irqHandles, \* the lines with a handle in irq_handles
  pitHandles, \* is Scheduler_ among the handles of the PIT?
  output,     \* the byte in the output of the keyboard controller
  unheard,    \* has that byte lost its request?
  due,        \* the answers the controller still owes
  lines,      \* the lines it may raise
  next,       \* the byte of a packet the mouse sends next, Silent before it reports
  bytes,      \* what the driver has read of a packet: mouse_byte and cycle
  packet      \* what the mouse handles are called with at the end of a cycle

bootVars == <<stage, calls, tasks, context>>
cpuVars == <<flag, idt, gates, frames, fate>>
picVars == <<mapped, irr, isr>>
tableVars == <<irqHandles, pitHandles>>
outputVars == <<output, unheard>>
deviceVars == <<due, lines, next>>
driverVars == <<bytes, packet>>
vars == <<bootVars, cpuVars, picVars, tableVars, outputVars, deviceVars, driverVars>>

Irq == {"Timer", "Keyboard", "Mouse"}
Empty == "Empty"
Silent == 0
Packet == <<"First", "Second", "Third">>
MouseByte == {Packet[k] : k \in DOMAIN Packet}

(* The lines by priority; the second 8259 is on the cascade of the first.  *)
Level == [Timer |-> 0, Keyboard |-> 1, Cascade |-> 2, Mouse |-> 2]

LineOf(byte) ==
  CASE byte \in {"Key", "Reply"} -> {"Keyboard"}
    [] byte \in MouseByte \cup {"Ack"} -> {"Mouse"}
    [] OTHER -> {}

(* What the loader leaves: interrupts off, and perhaps a key not read.     *)
Init ==
  /\ stage = "Early" /\ calls = 0 /\ tasks = 0 /\ context = "Boot"
  /\ flag = FALSE /\ idt = "Loader" /\ gates = "None"
  /\ frames = <<>> /\ fate = "Running"
  /\ mapped = "Bios" /\ irr = {} /\ isr = {}
  /\ irqHandles = {} /\ pitHandles = FALSE
  /\ output \in {Empty, "Key"} /\ unheard = (output # Empty)
  /\ due = <<>> /\ lines = {"Keyboard"} /\ next = Silent
  /\ bytes = <<>> /\ packet = <<>>

-----------------------------------------------------------------------------
(* The devices.                                                            *)

(* A tick on top of one that still waits is lost.                          *)
Tick ==
  /\ "Timer" \notin irr
  /\ irr' = irr \cup {"Timer"}
  /\ UNCHANGED <<bootVars, cpuVars, mapped, isr, tableVars, outputVars, deviceVars, driverVars>>

Raised(byte) == LineOf(byte) \cap lines

Send(byte) ==
  /\ output = Empty
  /\ output' = byte
  /\ irr' = irr \cup Raised(byte)
  /\ unheard' = (Raised(byte) = {})
  /\ UNCHANGED <<bootVars, cpuVars, mapped, isr, tableVars, lines, driverVars>>

KeyTyped == Send("Key") /\ UNCHANGED <<due, next>>

Answer ==
  /\ due # <<>>
  /\ Send(Head(due)) /\ due' = Tail(due)
  /\ UNCHANGED next

MouseMoves ==
  /\ next # Silent /\ due = <<>>
  /\ Send(Packet[next]) /\ next' = 1 + (next % 3)
  /\ UNCHANGED due

(* inportb(0x60).                                                          *)
TakeByte ==
  /\ output' = Empty /\ unheard' = FALSE
  /\ irr' \in {irr, irr \ LineOf(output)}

-----------------------------------------------------------------------------
(* kernel_main sets the machine up with interrupts disabled.               *)

At(s) == context = "Boot" /\ frames = <<>> /\ fate = "Running" /\ stage = s

(* Mutant: the 8259s are left alone after a call of the BIOS.              *)
Remap_OnlyOnce ==
  /\ mapped' = "Kernel"
  /\ IF mapped = "Bios" THEN irr' = {} /\ isr' = {} ELSE UNCHANGED <<irr, isr>>
  /\ unheard' = (unheard \/ output # Empty)

(* IRQ::Remap starts the 8259s anew: requests and services are forgotten.  *)
Remap ==
  /\ mapped' = "Kernel" /\ isr' = {}
  /\ irr' \in {{}, Raised(output)}
  /\ unheard' = (output # Empty /\ irr' = {})

(* IDT::Install.                                                           *)
Install == Remap /\ gates' = "Kernel" /\ idt' = "Kernel"

SetupEarlyMemory ==
  /\ At("Early") /\ stage' = "Timer"
  /\ Install
  /\ UNCHANGED <<calls, tasks, context, flag, frames, fate, tableVars, output, deviceVars,
                 driverVars>>

(* IRQ::AddHandle.                                                         *)
AddHandle(irq) ==
  /\ irqHandles' = irqHandles \cup {irq}
  /\ UNCHANGED <<calls, tasks, context, cpuVars, picVars, pitHandles, outputVars, deviceVars,
                 driverVars>>

InitPit == At("Timer") /\ stage' = "Keyboard" /\ AddHandle("Timer")

InitKeyboard == At("Keyboard") /\ stage' = "AskConfig" /\ AddHandle("Keyboard")

(* Mouse::Init asks for the configuration of the controller, ...           *)
MouseAsk ==
  /\ At("AskConfig") /\ stage' = "GetConfig"
  /\ due' = Append(due, "Reply")
  /\ UNCHANGED <<calls, tasks, context, cpuVars, picVars, tableVars, outputVars, lines, next,
                 driverVars>>

(* ... and writes it back with the mouse's line enabled; a key in front of *)
(* the answer is taken for it.                                             *)
MouseConfigure ==
  /\ At("GetConfig") /\ stage' = "Defaults"
  /\ output # Empty /\ TakeByte
  /\ lines' \in IF output = "Reply" THEN {{"Keyboard", "Mouse"}}
                ELSE {{"Keyboard", "Mouse"}, {"Mouse"}}
  /\ UNCHANGED <<calls, tasks, context, cpuVars, mapped, isr, tableVars, due, next, driverVars>>

(* Mouse_Write of 0xF6, then of 0xF4, after which the mouse reports.       *)
MouseCommand ==
  /\ \/ At("Defaults") /\ stage' = "DefaultsAck" /\ UNCHANGED next
     \/ At("Report") /\ stage' = "ReportAck" /\ next' = 1
  /\ due' = Append(due, "Ack")
  /\ UNCHANGED <<calls, tasks, context, cpuVars, picVars, tableVars, outputVars, lines,
                 driverVars>>

(* Mouse_Read after each.                                                  *)
MouseAcknowledged ==
  /\ \/ At("DefaultsAck") /\ stage' = "Report"
     \/ At("ReportAck") /\ stage' = "Mouse"
  /\ output # Empty /\ TakeByte
  /\ UNCHANGED <<calls, tasks, context, cpuVars, mapped, isr, tableVars, deviceVars, driverVars>>

InitMouse == At("Mouse") /\ stage' = "Enable" /\ AddHandle("Mouse")

(* sti, in kernel_main.                                                    *)
EnableInterrupts ==
  /\ At("Enable") /\ stage' = "Multitasking"
  /\ flag' = TRUE
  /\ UNCHANGED <<calls, tasks, context, idt, gates, frames, fate, picVars, tableVars, outputVars,
                 deviceVars, driverVars>>

SetupMultitasking ==
  /\ At("Multitasking") /\ stage' = "Graphics"
  /\ pitHandles' = TRUE
  /\ UNCHANGED <<calls, tasks, context, cpuVars, picVars, irqHandles, outputVars, deviceVars,
                 driverVars>>

-----------------------------------------------------------------------------
(* The calls of the BIOS.                                                  *)

(* VESA::Init asks for the list of modes, for every mode, and sets one if  *)
(* one fits.                                                               *)
SetupGraphics ==
  /\ At("Graphics") /\ stage' = "Call"
  /\ calls' \in {1 + ModeCount, 2 + ModeCount}
  /\ UNCHANGED <<tasks, context, cpuVars, picVars, tableVars, outputVars, deviceVars, driverVars>>

Proceed(from, to) ==
  /\ At(from) /\ stage' = to
  /\ UNCHANGED <<tasks, context, frames, fate, tableVars, deviceVars, driverVars>>

(* Bios32Helper, until the processor is in real mode, ...                  *)
LeaveProtected ==
  /\ calls > 0
  /\ Proceed("Call", "Switch")
  /\ flag' = FALSE /\ idt' = "Bios"
  /\ UNCHANGED <<calls, gates, picVars, outputVars>>

(* ... enables interrupts there, ...                                       *)
EnterReal ==
  /\ Proceed("Switch", "Real")
  /\ flag' = TRUE
  /\ UNCHANGED <<calls, idt, gates, picVars, outputVars>>

(* ... and comes back, with interrupts enabled and the BIOS's table.       *)
LeaveReal ==
  /\ Proceed("Real", "Back")
  /\ UNCHANGED <<calls, flag, idt, gates, picVars, outputVars>>

(* Mutant: Bios32::Call does not disable interrupts before Restore.        *)
DisableInterrupts_Forgotten ==
  /\ Proceed("Back", "Reset")
  /\ UNCHANGED <<calls, flag, idt, gates, picVars, outputVars>>

(* cli, in Bios32::Call.                                                   *)
DisableInterrupts ==
  /\ Proceed("Back", "Reset")
  /\ flag' = FALSE
  /\ UNCHANGED <<calls, idt, gates, picVars, outputVars>>

(* Restore: IDT::Init clears the gates, ...                                *)
ClearGates ==
  /\ Proceed("Reset", "Install")
  /\ gates' = "None"
  /\ UNCHANGED <<calls, flag, idt, picVars, outputVars>>

(* ... IDT::Install sets them again.                                       *)
Reinstall ==
  /\ Proceed("Install", "Resume")
  /\ Install
  /\ UNCHANGED <<calls, flag, output>>

Resume ==
  /\ Proceed("Resume", "Call")
  /\ flag' = TRUE /\ calls' = calls - 1
  /\ UNCHANGED <<idt, gates, picVars, outputVars>>

(* EnterUsermode creates two tasks, unless it is given up between them.    *)
CreateTask ==
  /\ \/ At("Call") /\ calls = 0 /\ stage' = "Second"
     \/ At("Second") /\ stage' = "Idle"
  /\ tasks' = tasks + 1
  /\ UNCHANGED <<calls, context, cpuVars, picVars, tableVars, outputVars, deviceVars, driverVars>>

-----------------------------------------------------------------------------
(* Interrupts.                                                             *)

(* The request the 8259s pass on.                                          *)
Pending(irq) ==
  /\ flag /\ fate = "Running"
  /\ irq \in irr
  /\ \A i \in irr : Level[irq] <= Level[i]
  /\ \A i \in isr : Level[irq] < Level[i]

InService(irq) ==
  /\ irr' = irr \ {irq}
  /\ isr' = isr \cup {irq} \cup (IF irq = "Mouse" THEN {"Cascade"} ELSE {})
  /\ UNCHANGED <<bootVars, mapped, tableVars, output, deviceVars, driverVars>>

(* Mutant: trap gates, and stubs that do not start with cli.               *)
Masked_Trap == flag' = flag

(* Interrupt gates, cli in the stub.                                       *)
Masked == flag' = FALSE

(* Mutant: irq_handler acknowledges after the handle has returned.         *)
Follows_HandleFirst(phase) ==
  [Taken |-> "Handle", Handle |-> "Acknowledge", Acknowledge |-> "Return"][phase]

(* The order of irq_handler.                                               *)
Follows(phase) ==
  [Taken |-> "Acknowledge", Acknowledge |-> "Handle", Handle |-> "Return"][phase]

(* Through a gate of the kernel.                                           *)
Interrupt(irq) ==
  /\ Pending(irq) /\ InService(irq)
  /\ idt = "Kernel" /\ gates = "Kernel" /\ mapped = "Kernel"
  /\ Masked
  /\ frames' = Append(frames, [irq |-> irq, phase |-> Follows("Taken")])
  /\ UNCHANGED <<idt, gates, fate, unheard>>

(* In real mode the vectors of Remap lead into the BIOS.                   *)
BiosInterrupt(irq) ==
  /\ Pending(irq) /\ stage = "Real"
  /\ \/ InService(irq)
     \/ /\ irr' = irr \ {irq}
        /\ UNCHANGED <<bootVars, mapped, isr, tableVars, output, deviceVars, driverVars>>
  /\ unheard' = (unheard \/ irq \in LineOf(output))
  /\ UNCHANGED cpuVars

(* Back in protected mode the processor takes the vectors of real mode for *)
(* gates.                                                                  *)
StrayInterrupt(irq) ==
  /\ Pending(irq) /\ InService(irq)
  /\ stage # "Real" /\ ~ (idt = "Kernel" /\ gates = "Kernel" /\ mapped = "Kernel")
  /\ fate' = "Astray"
  /\ UNCHANGED <<flag, idt, gates, frames, unheard>>

Top == frames[Len(frames)]

InPhase(irq, phase) ==
  frames # <<>> /\ fate = "Running" /\ Top.irq = irq /\ Top.phase = phase

Advance == frames' = [frames EXCEPT ![Len(frames)].phase = Follows(@)]

(* Mutant: lines from 12 on are not looked up.                             *)
HasHandle_Below12(irq) == irq \in irqHandles \ {"Mouse"}

HasHandle(irq) == irq \in irqHandles

(* The end of interrupt goes to the second 8259 too, for its lines; each   *)
(* 8259 ends what it serves with the highest priority.                     *)
Acknowledge(irq) ==
  /\ InPhase(irq, "Acknowledge")
  /\ LET first == isr \ {"Mouse"}
         ended == {i \in first : \A j \in first : Level[i] <= Level[j]}
     IN  isr' = isr \ (ended \cup (IF irq = "Mouse" THEN {"Mouse"} ELSE {}))
  /\ Advance
  /\ UNCHANGED <<bootVars, flag, idt, gates, fate, mapped, irr, tableVars, outputVars, deviceVars,
                 driverVars>>

(* TimerHandler_, when Scheduler_ stays with who was interrupted.          *)
TimerReturns ==
  /\ InPhase("Timer", "Handle") /\ HasHandle("Timer")
  /\ pitHandles => tasks = 0 \/ context = "Task"
  /\ Advance
  /\ UNCHANGED <<bootVars, flag, idt, gates, fate, picVars, tableVars, outputVars, deviceVars,
                 driverVars>>

(* Scheduler_ switches to a task: the handler never returns.               *)
TimerSwitches ==
  /\ InPhase("Timer", "Handle") /\ HasHandle("Timer")
  /\ pitHandles /\ tasks > 0
  /\ context' = "Task" /\ flag' = TRUE /\ frames' = <<>>
  /\ UNCHANGED <<stage, calls, tasks, idt, gates, fate, picVars, tableVars, outputVars, deviceVars,
                 driverVars>>

(* KeyboardHandler_ reads a scancode, whatever is there.                   *)
HandleKeyboard ==
  /\ InPhase("Keyboard", "Handle") /\ HasHandle("Keyboard")
  /\ TakeByte /\ Advance
  /\ UNCHANGED <<bootVars, flag, idt, gates, fate, mapped, isr, tableVars, deviceVars, driverVars>>

(* Mutant: the cycle starts with the byte that ends one.                   *)
Read_Overlapping(byte) ==
  IF Len(bytes) = 2 THEN /\ packet' = Append(bytes, byte) /\ bytes' = <<byte>>
  ELSE bytes' = Append(bytes, byte) /\ packet' = <<>>

(* Mutant: the cycle does not go back to 0.                                *)
Read_NoEnd(byte) ==
  /\ bytes' = Append(bytes, byte)
  /\ packet' = IF Len(bytes) >= 2 THEN Append(bytes, byte) ELSE <<>>

(* The three bytes of a cycle.                                             *)
Read(byte) ==
  IF Len(bytes) = 2 THEN /\ packet' = Append(bytes, byte) /\ bytes' = <<>>
  ELSE bytes' = Append(bytes, byte) /\ packet' = <<>>

(* MouseHandler_: Mouse_Read waits for a byte, but not for ever, and takes *)
(* what is there.                                                          *)
HandleMouse ==
  /\ InPhase("Mouse", "Handle") /\ HasHandle("Mouse")
  /\ Read(IF output \in MouseByte THEN output ELSE "Other")
  /\ TakeByte /\ Advance
  /\ UNCHANGED <<bootVars, flag, idt, gates, fate, mapped, isr, tableVars, deviceVars>>

(* The end of the stub; at once for a line without handle.                 *)
Return(irq) ==
  /\ \/ InPhase(irq, "Return")
     \/ InPhase(irq, "Handle") /\ ~ HasHandle(irq)
  /\ frames' = SubSeq(frames, 1, Len(frames) - 1)
  /\ flag' = TRUE
  /\ UNCHANGED <<bootVars, idt, gates, fate, picVars, tableVars, outputVars, deviceVars,
                 driverVars>>

-----------------------------------------------------------------------------
Devices == Tick \/ KeyTyped \/ Answer \/ MouseMoves

Boots ==
  \/ SetupEarlyMemory \/ InitPit \/ InitKeyboard
  \/ MouseAsk \/ MouseConfigure \/ MouseCommand \/ MouseAcknowledged \/ InitMouse
  \/ EnableInterrupts \/ SetupMultitasking \/ SetupGraphics
  \/ LeaveProtected \/ EnterReal \/ LeaveReal
  \/ DisableInterrupts \/ ClearGates \/ Reinstall \/ Resume
  \/ CreateTask

Handles ==
  \/ \E irq \in Irq : Acknowledge(irq) \/ Return(irq)
  \/ TimerReturns \/ TimerSwitches \/ HandleKeyboard \/ HandleMouse

Next ==
  \/ Devices \/ Boots \/ Handles
  \/ \E irq \in Irq : Interrupt(irq) \/ BiosInterrupt(irq) \/ StrayInterrupt(irq)

Spec == Init /\ [][Next]_vars

(* The PIT never stops, what is owed is answered, handlers are executed    *)
(* undisturbed; kernel_main gets on between interrupts.                    *)
FairSpec ==
  /\ Spec
  /\ WF_vars(Tick) /\ SF_vars(Answer)
  /\ WF_vars(Handles) /\ SF_vars(Boots)
  /\ SF_vars(\E irq \in Irq : Interrupt(irq))

-----------------------------------------------------------------------------
(* Properties.                                                             *)

(* The types; between interrupts the driver holds less than a packet, and  *)
(* handles are called with three bytes.                                    *)
TypeOK ==
  /\ calls \in 0 .. 2 + ModeCount /\ tasks \in 0 .. 2 /\ context \in {"Boot", "Task"}
  /\ flag \in BOOLEAN /\ pitHandles \in BOOLEAN /\ unheard \in BOOLEAN
  /\ idt \in {"Loader", "Kernel", "Bios"} /\ gates \in {"None", "Kernel"}
  /\ frames \in Seq([irq : Irq, phase : {"Acknowledge", "Handle", "Return"}])
  /\ fate \in {"Running", "Astray"} /\ mapped \in {"Bios", "Kernel"}
  /\ irr \subseteq Irq /\ isr \subseteq DOMAIN Level
  /\ irqHandles \subseteq Irq /\ lines \subseteq Irq
  /\ output \in MouseByte \cup {Empty, "Key", "Reply", "Ack"}
  /\ due \in Seq({"Reply", "Ack"}) /\ next \in 0 .. 3
  /\ bytes \in Seq(MouseByte \cup {"Other"}) /\ Len(bytes) <= 2
  /\ packet \in Seq(MouseByte \cup {"Other"}) /\ Len(packet) \in {0, 3}

(* irq_handler acknowledges before it calls the handle: only the interrupt *)
(* flag keeps a second interrupt out of the handlers, which are not        *)
(* reentrant.                                                              *)
NoNesting == Len(frames) <= 1

(* An interrupt is lost to a table of real mode only between the return    *)
(* from a call of the BIOS and the cli of Bios32::Call: no other stage of  *)
(* the set up, and no step of Restore, is exposed.                         *)
AstrayOnlyAfterBios == fate = "Astray" => stage = "Back"

(* Interrupts being handled that have still to read their byte.            *)
Reading ==
  {k \in DOMAIN frames : frames[k].irq \in {"Keyboard", "Mouse"} /\ frames[k].phase # "Return"}

(* A byte that waits in the controller is going to be read: its line is    *)
(* requested or its handler is about to read, unless the request was lost  *)
(* to the BIOS or to a Remap.  A byte that is never read silences mouse    *)
(* and keyboard for ever.                                                  *)
BytesAreHeard ==
  \A irq \in Raised(output) :
    \/ unheard \/ irq \in irr \/ fate = "Astray"
    \/ Reading # {}

(* What the driver has read are bytes of one packet, the byte it reads     *)
(* next is the one the mouse sends next, and no interrupt is requested or  *)
(* being handled without a byte of its own.                                *)
InStep ==
  /\ bytes = SubSeq(Packet, 1, Len(bytes)) /\ packet \in {<<>>, Packet}
  /\ next # Silent /\ due = <<>> /\ output \notin {"Ack", "Reply"}
  /\ IF output \in MouseByte THEN output = Packet[Len(bytes) + 1] ELSE next = Len(bytes) + 1
  /\ irr \ {"Timer"} \subseteq LineOf(output)
  /\ \A k \in Reading : frames[k].irq \in LineOf(output) \ irr

(* Once the driver is in step with the mouse and no request is left over   *)
(* from the set up, it stays in step for ever and calls the mouse handles  *)
(* with whole packets, whatever is typed, and however calls of the BIOS    *)
(* lose requests.  (Nothing brings it into step: a request left over from  *)
(* the set up makes it read once too often.)                               *)
StaysInStep == [][InStep => InStep']_vars

(* The timer goes on interrupting, although the handler that switches      *)
(* tasks never returns and although the BIOS may leave the timer in        *)
(* service.                                                                *)
TimerNeverStops == <>(fate = "Astray") \/ []<><<Interrupt("Timer")>>_vars

(* kernel_main gets to its tasks and is given up.                          *)
TasksRun == <>(fate = "Astray" \/ context = "Task")

=============================================================================
