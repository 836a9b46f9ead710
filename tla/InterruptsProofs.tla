-------------------------- MODULE InterruptsProofs --------------------------
(***************************************************************************)
(* Theorems about Interrupts, whatever number of modes the BIOS lists.     *)
(***************************************************************************)
EXTENDS Interrupts, TLAPS

(* Where kernel_main runs with interrupts disabled: until it enables them, *)
(* on the way to the BIOS, and on the way back from the cli of             *)
(* Bios32::Call on.                                                        *)
SetUp ==
  {"Timer", "Keyboard", "AskConfig", "GetConfig", "Defaults", "DefaultsAck", "Report",
   "ReportAck", "Mouse", "Enable"}

Closed == SetUp \cup {"Early", "Switch", "Reset", "Install", "Resume"}

InBios == {"Real", "Back"}

Tables == idt = "Kernel" /\ gates = "Kernel" /\ mapped = "Kernel"

(* An interrupt can only come where its gate is in place, the BIOS and the *)
(* window behind it excepted; handlers run where kernel_main could have    *)
(* been interrupted.                                                       *)
Guarded ==
  /\ Len(frames) <= 1
  /\ frames # <<>> => ~ flag
  /\ stage \in Closed => ~ flag /\ frames = <<>> /\ fate = "Running"
  /\ stage \in InBios => frames = <<>>
  /\ stage \in InBios \cup {"Switch"} => idt = "Bios"
  /\ stage \notin InBios \cup {"Early", "Switch", "Reset", "Install"} => Tables
  /\ fate = "Astray" => stage = "Back"

(* What is left of the calls of the BIOS and of the tasks to create.       *)
Counted ==
  /\ stage \in {"Switch", "Reset", "Install", "Resume"} \cup InBios => calls > 0
  /\ stage \notin {"Second", "Idle"} => tasks = 0
  /\ stage = "Second" => tasks = 1

IInv == TypeOK /\ Guarded /\ Counted

(* A handler's frame goes from phase to phase and ends.                    *)
Frame == [irq : Irq, phase : {"Acknowledge", "Handle", "Return"}]

(* When an interrupt is being handled, it is the only one.                  *)
LEMMA OneFrame ==
  ASSUME frames \in Seq(Frame), Len(frames) <= 1, frames # <<>>
  PROVE  Len(frames) = 1 /\ frames[1] \in Frame /\ Top = frames[1]
  <1>1. Len(frames) \in Nat /\ Len(frames) # 0
    OBVIOUS
  <1> QED
    BY <1>1 DEF Top

(* irq_handler goes on to its next phase.                                   *)
LEMMA FrameAdvances ==
  ASSUME frames \in Seq(Frame), Len(frames) <= 1, frames # <<>>,
         Top.phase \in {"Acknowledge", "Handle"}, Advance
  PROVE  frames' \in Seq(Frame) /\ Len(frames') = 1
  <1>1. Len(frames) = 1 /\ frames[1] \in Frame /\ Top = frames[1]
    BY OneFrame
  <1>2. Follows(frames[1].phase) \in {"Handle", "Return"}
    BY <1>1 DEF Follows
  <1>3. [frames[1] EXCEPT !.phase = Follows(frames[1].phase)] \in Frame
    BY <1>1, <1>2 DEF Frame
  <1>4. frames' = [frames EXCEPT ![1] = [frames[1] EXCEPT !.phase = Follows(frames[1].phase)]]
    BY <1>1 DEF Advance
  <1> QED
    BY <1>1, <1>3, <1>4

(* The only interrupt ends.                                                 *)
LEMMA FrameEnds ==
  ASSUME frames \in Seq(Frame), Len(frames) <= 1, frames # <<>>
  PROVE  SubSeq(frames, 1, Len(frames) - 1) = <<>>
  <1>1. Len(frames) = 1
    BY OneFrame
  <1> QED
    BY <1>1

(* The bytes the mouse sends and the driver reads.                         *)
LEMMA PacketBytes ==
  /\ \A k \in 1 .. 3 : Packet[k] \in MouseByte
  /\ \A k \in 1 .. 3 : 1 + (k % 3) \in 1 .. 3
  BY DEF Packet, MouseByte

(* A byte more.                                                             *)
LEMMA Appended ==
  ASSUME NEW S, NEW s \in Seq(S), NEW x \in S
  PROVE  Append(s, x) \in Seq(S) /\ Len(Append(s, x)) = Len(s) + 1
  OBVIOUS

(* However a byte is read, the driver holds less than a packet afterwards.  *)
LEMMA ReadKeeps ==
  ASSUME bytes \in Seq(MouseByte \cup {"Other"}), Len(bytes) <= 2,
         NEW byte \in MouseByte \cup {"Other"}, Read(byte)
  PROVE  /\ bytes' \in Seq(MouseByte \cup {"Other"}) /\ Len(bytes') <= 2
         /\ packet' \in Seq(MouseByte \cup {"Other"}) /\ Len(packet') \in {0, 3}
  <1>1. /\ Append(bytes, byte) \in Seq(MouseByte \cup {"Other"})
        /\ Len(Append(bytes, byte)) = Len(bytes) + 1
    BY Appended
  <1>2. <<>> \in Seq(MouseByte \cup {"Other"}) /\ Len(<<>>) = 0
    OBVIOUS
  <1>3. CASE Len(bytes) = 2
    <2>1. packet' = Append(bytes, byte) /\ bytes' = <<>>
      BY <1>3 DEF Read
    <2> QED
      BY <1>1, <1>2, <1>3, <2>1
  <1>4. CASE Len(bytes) # 2
    <2>1. bytes' = Append(bytes, byte) /\ packet' = <<>> /\ Len(bytes) \in Nat
      BY <1>4 DEF Read
    <2>2. Len(bytes') <= 2
      <3>1. ASSUME NEW n \in Nat, n <= 2, n # 2 PROVE n <= 1
        BY ONLY <3>1
      <3>2. Len(bytes) \in Nat
        OBVIOUS
      <3>3. Len(bytes) <= 1
        BY ONLY <1>4, <3>1, <3>2, Len(bytes) <= 2
      <3>4. Len(bytes') = Len(bytes) + 1
        BY <1>1, <2>1
      <3> QED
        BY ONLY <3>2, <3>3, <3>4
    <2> QED
      BY <1>1, <1>2, <2>1, <2>2
  <1> QED
    BY <1>3, <1>4

-----------------------------------------------------------------------------
(* Initially, and through every step: the types, ...                       *)
LEMMA InitIsSound == Init => IInv
  <1> SUFFICES ASSUME Init PROVE IInv
    OBVIOUS
  <1>1. TypeOK
    <2>1. calls \in 0 .. 2 + ModeCount /\ tasks \in 0 .. 2 /\ next \in 0 .. 3
      BY ModeAssumption DEF Init, Silent
    <2>2. flag \in BOOLEAN /\ pitHandles \in BOOLEAN /\ unheard \in BOOLEAN
      BY Zenon DEF Init
    <2>3. /\ frames \in Seq([irq : Irq, phase : {"Acknowledge", "Handle", "Return"}])
          /\ due \in Seq({"Reply", "Ack"})
          /\ bytes \in Seq(MouseByte \cup {"Other"}) /\ Len(bytes) <= 2
          /\ packet \in Seq(MouseByte \cup {"Other"}) /\ Len(packet) \in {0, 3}
      BY DEF Init
    <2> QED
      BY <2>1, <2>2, <2>3 DEF Init, TypeOK, Irq, Empty
  <1>2. Guarded /\ Counted
    BY DEF Init, Guarded, Counted, Closed, SetUp, InBios
  <1> QED
    BY <1>1, <1>2 DEF IInv

(* The set of the frames, named.                                            *)
LEMMA FramesTyped == TypeOK <=> TypeOK /\ frames \in Seq(Frame)
  BY DEF TypeOK, Frame

(* ... each step keeps them, ...                                            *)
LEMMA TypesKept ==
  ASSUME TypeOK, Guarded, Counted, Next
  PROVE  TypeOK'
  <1> USE DEF bootVars, cpuVars, picVars, tableVars, outputVars, deviceVars, driverVars
  <1>1. CASE Tick
    BY <1>1, ModeAssumption DEF Tick, TypeOK, Irq, Level, Empty
  <1>2. CASE KeyTyped
    BY <1>2 DEF KeyTyped, Send, Raised, LineOf, TypeOK, Irq
  <1>3. CASE Answer
    BY <1>3 DEF Answer, Send, Raised, LineOf, TypeOK, Irq
  <1>4. CASE MouseMoves
    <2>1. next \in 1 .. 3 /\ next' \in 1 .. 3 /\ Packet[next] \in MouseByte
      BY <1>4, PacketBytes DEF MouseMoves, TypeOK, Silent
    <2> QED
      BY <1>4, <2>1 DEF MouseMoves, Send, Raised, LineOf, TypeOK, Irq
  <1>5. CASE SetupEarlyMemory
    BY <1>5, ModeAssumption DEF SetupEarlyMemory, At, Install, Remap, Raised, LineOf, MouseByte,
       Packet, TypeOK, Irq, Level, Empty
  <1>6. CASE InitPit
    BY <1>6, ModeAssumption DEF InitPit, AddHandle, At, TypeOK, Irq, Level, Empty
  <1>7. CASE InitKeyboard
    BY <1>7, ModeAssumption DEF InitKeyboard, AddHandle, At, TypeOK, Irq, Level, Empty
  <1>8. CASE MouseAsk
    BY <1>8, ModeAssumption DEF MouseAsk, At, TypeOK, Irq, Level, Empty
  <1>9. CASE MouseConfigure
    BY <1>9, ModeAssumption DEF MouseConfigure, At, TakeByte, LineOf, TypeOK, Irq, Level, Empty
  <1>10. CASE MouseCommand
    BY <1>10, ModeAssumption DEF MouseCommand, At, TypeOK, Irq, Level, Empty
  <1>11. CASE MouseAcknowledged
    BY <1>11, ModeAssumption DEF MouseAcknowledged, At, TakeByte, LineOf, TypeOK, Irq, Level,
       Empty
  <1>12. CASE InitMouse
    BY <1>12, ModeAssumption DEF InitMouse, AddHandle, At, TypeOK, Irq, Level, Empty
  <1>13. CASE EnableInterrupts
    BY <1>13, ModeAssumption DEF EnableInterrupts, At, TypeOK, Irq, Level, Empty
  <1>14. CASE SetupMultitasking
    BY <1>14, ModeAssumption DEF SetupMultitasking, At, TypeOK, Irq, Level, Empty
  <1>15. CASE SetupGraphics
    BY <1>15, ModeAssumption DEF SetupGraphics, At, TypeOK, Counted
  <1>16. CASE LeaveProtected
    BY <1>16, ModeAssumption DEF LeaveProtected, Proceed, At, TypeOK, Irq, Level, Empty
  <1>17. CASE EnterReal
    BY <1>17, ModeAssumption DEF EnterReal, Proceed, At, TypeOK, Irq, Level, Empty
  <1>18. CASE LeaveReal
    BY <1>18, ModeAssumption DEF LeaveReal, Proceed, At, TypeOK, Irq, Level, Empty
  <1>19. CASE DisableInterrupts
    BY <1>19, ModeAssumption DEF DisableInterrupts, Proceed, At, TypeOK, Irq, Level, Empty
  <1>20. CASE ClearGates
    BY <1>20, ModeAssumption DEF ClearGates, Proceed, At, TypeOK, Irq, Level, Empty
  <1>21. CASE Reinstall
    BY <1>21, ModeAssumption DEF Reinstall, Proceed, At, Install, Remap, Raised, TypeOK, Irq,
       Level, Empty
  <1>22. CASE Resume
    BY <1>22, ModeAssumption DEF Resume, Proceed, At, TypeOK, Counted
  <1>23. CASE CreateTask
    BY <1>23, ModeAssumption DEF CreateTask, At, TypeOK, Counted
  <1>24. CASE TimerReturns
    <2>1. frames' \in Seq(Frame)
      BY <1>24, FramesTyped, FrameAdvances DEF TimerReturns, InPhase, Guarded
    <2> QED
      BY <1>24, <2>1 DEF TimerReturns, TakeByte, TypeOK, Frame, Level
  <1>25. CASE TimerSwitches
    BY <1>25, ModeAssumption DEF TimerSwitches, InPhase, TypeOK, Irq, Level, Empty
  <1>26. CASE HandleKeyboard
    <2>1. frames' \in Seq(Frame)
      BY <1>26, FramesTyped, FrameAdvances DEF HandleKeyboard, InPhase, Guarded
    <2> QED
      BY <1>26, <2>1 DEF HandleKeyboard, TakeByte, TypeOK, Frame, Level
  <1>27. CASE HandleMouse
    <2>1. frames' \in Seq(Frame)
      BY <1>27, FramesTyped, FrameAdvances DEF HandleMouse, InPhase, Guarded
    <2>2. /\ bytes' \in Seq(MouseByte \cup {"Other"}) /\ Len(bytes') <= 2
          /\ packet' \in Seq(MouseByte \cup {"Other"}) /\ Len(packet') \in {0, 3}
      BY <1>27, ReadKeeps DEF HandleMouse, TypeOK
    <2> QED
      BY <1>27, <2>1, <2>2 DEF HandleMouse, TakeByte, TypeOK, Frame
  <1>28. ASSUME NEW irq \in Irq, Interrupt(irq) PROVE TypeOK'
    <2>1. frames' = Append(frames, [irq |-> irq, phase |-> "Acknowledge"])
      BY <1>28 DEF Interrupt, Follows
    <2>2. frames' \in Seq(Frame)
      BY <1>28, <2>1, FramesTyped DEF Frame
    <2> QED
      BY <1>28, <2>2 DEF Interrupt, InService, Masked, TypeOK, Frame, Irq, Level
  <1>29. ASSUME NEW irq \in Irq, BiosInterrupt(irq) PROVE TypeOK'
    BY <1>29, ModeAssumption DEF BiosInterrupt, Pending, InService, TypeOK, Irq, Level, Empty
  <1>30. ASSUME NEW irq \in Irq, StrayInterrupt(irq) PROVE TypeOK'
    BY <1>30, ModeAssumption DEF StrayInterrupt, Pending, InService, TypeOK, Irq, Level, Empty
  <1>31. ASSUME NEW irq \in Irq, Acknowledge(irq) PROVE TypeOK'
    <2>1. frames' \in Seq(Frame)
      BY <1>31, FramesTyped, FrameAdvances DEF Acknowledge, InPhase, Guarded
    <2> QED
      BY <1>31, <2>1 DEF Acknowledge, TakeByte, TypeOK, Frame, Level
  <1>32. ASSUME NEW irq \in Irq, Return(irq) PROVE TypeOK'
    <2>1. frames' = <<>>
      BY <1>32, FramesTyped, FrameEnds DEF Return, InPhase, Guarded
    <2>2. frames' \in Seq([irq : Irq, phase : {"Acknowledge", "Handle", "Return"}])
      BY <2>1
    <2> QED
      BY <1>32, <2>2 DEF Return, TypeOK
  <1> QED
    BY <1>1, <1>2, <1>3, <1>4, <1>5, <1>6, <1>7, <1>8, <1>9, <1>10, <1>11, <1>12, <1>13, <1>14,
       <1>15, <1>16, <1>17, <1>18, <1>19, <1>20, <1>21, <1>22, <1>23, <1>24, <1>25, <1>26, <1>27,
       <1>28, <1>29, <1>30, <1>31, <1>32 DEF Next, Devices, Boots, Handles

(* ... where interrupts can come and what guards them then, ...            *)
LEMMA GuardsKept ==
  ASSUME TypeOK, Guarded, Counted, Next
  PROVE  Guarded'
  <1> USE DEF bootVars, cpuVars, picVars, tableVars, outputVars, deviceVars, driverVars
  <1>1. CASE Tick
    BY <1>1 DEF Tick, TypeOK, Guarded, Tables, Closed, SetUp, InBios
  <1>2. CASE KeyTyped
    BY <1>2 DEF KeyTyped, Send, TypeOK, Guarded, Tables, Closed, SetUp, InBios
  <1>3. CASE Answer
    BY <1>3 DEF Answer, Send, TypeOK, Guarded, Tables, Closed, SetUp, InBios
  <1>4. CASE MouseMoves
    BY <1>4 DEF MouseMoves, Send, TypeOK, Guarded, Tables, Closed, SetUp, InBios
  <1>5. CASE SetupEarlyMemory
    BY <1>5 DEF SetupEarlyMemory, At, Install, Remap, TypeOK, Guarded, Tables, Closed, SetUp,
       InBios
  <1>6. CASE InitPit
    BY <1>6 DEF InitPit, AddHandle, At, TypeOK, Guarded, Tables, Closed, SetUp, InBios
  <1>7. CASE InitKeyboard
    BY <1>7 DEF InitKeyboard, AddHandle, At, TypeOK, Guarded, Tables, Closed, SetUp, InBios
  <1>8. CASE MouseAsk
    BY <1>8 DEF MouseAsk, At, TypeOK, Guarded, Tables, Closed, SetUp, InBios
  <1>9. CASE MouseConfigure
    BY <1>9 DEF MouseConfigure, At, TypeOK, Guarded, Tables, Closed, SetUp, InBios
  <1>10. CASE MouseCommand
    BY <1>10 DEF MouseCommand, At, TypeOK, Guarded, Tables, Closed, SetUp, InBios
  <1>11. CASE MouseAcknowledged
    BY <1>11 DEF MouseAcknowledged, At, TypeOK, Guarded, Tables, Closed, SetUp, InBios
  <1>12. CASE InitMouse
    BY <1>12 DEF InitMouse, AddHandle, At, TypeOK, Guarded, Tables, Closed, SetUp, InBios
  <1>13. CASE EnableInterrupts
    BY <1>13 DEF EnableInterrupts, At, TypeOK, Guarded, Tables, Closed, SetUp, InBios
  <1>14. CASE SetupMultitasking
    BY <1>14 DEF SetupMultitasking, At, TypeOK, Guarded, Tables, Closed, SetUp, InBios
  <1>15. CASE SetupGraphics
    BY <1>15 DEF SetupGraphics, At, TypeOK, Guarded, Tables, Closed, SetUp, InBios
  <1>16. CASE LeaveProtected
    BY <1>16 DEF LeaveProtected, Proceed, At, TypeOK, Guarded, Tables, Closed, SetUp, InBios
  <1>17. CASE EnterReal
    BY <1>17 DEF EnterReal, Proceed, At, TypeOK, Guarded, Tables, Closed, SetUp, InBios
  <1>18. CASE LeaveReal
    BY <1>18 DEF LeaveReal, Proceed, At, TypeOK, Guarded, Tables, Closed, SetUp, InBios
  <1>19. CASE DisableInterrupts
    BY <1>19 DEF DisableInterrupts, Proceed, At, TypeOK, Guarded, Tables, Closed, SetUp, InBios
  <1>20. CASE ClearGates
    BY <1>20 DEF ClearGates, Proceed, At, TypeOK, Guarded, Tables, Closed, SetUp, InBios
  <1>21. CASE Reinstall
    BY <1>21 DEF Reinstall, Proceed, At, Install, Remap, TypeOK, Guarded, Tables, Closed, SetUp,
       InBios
  <1>22. CASE Resume
    BY <1>22 DEF Resume, Proceed, At, TypeOK, Guarded, Tables, Closed, SetUp, InBios
  <1>23. CASE CreateTask
    BY <1>23 DEF CreateTask, At, TypeOK, Guarded, Tables, Closed, SetUp, InBios
  <1>24. CASE TimerReturns
    <2>1. frames # <<>> /\ Len(frames') = 1
      BY <1>24, FramesTyped, FrameAdvances DEF TimerReturns, InPhase, Guarded
    <2> QED
      BY <1>24, <2>1 DEF TimerReturns, InPhase, Guarded, Tables, Closed, InBios
  <1>25. CASE TimerSwitches
    BY <1>25 DEF TimerSwitches, InPhase, TypeOK, Guarded, Tables, Closed, SetUp, InBios
  <1>26. CASE HandleKeyboard
    <2>1. frames # <<>> /\ Len(frames') = 1
      BY <1>26, FramesTyped, FrameAdvances DEF HandleKeyboard, InPhase, Guarded
    <2> QED
      BY <1>26, <2>1 DEF HandleKeyboard, InPhase, Guarded, Tables, Closed, InBios
  <1>27. CASE HandleMouse
    <2>1. frames # <<>> /\ Len(frames') = 1
      BY <1>27, FramesTyped, FrameAdvances DEF HandleMouse, InPhase, Guarded
    <2> QED
      BY <1>27, <2>1 DEF HandleMouse, InPhase, Guarded, Tables, Closed, InBios
  <1>28. ASSUME NEW irq \in Irq, Interrupt(irq) PROVE Guarded'
    <2>1. frames = <<>> /\ fate = "Running" /\ ~ flag'
      BY <1>28 DEF Interrupt, Pending, Masked, Guarded
    <2>2. Len(frames') = 1
      BY <1>28, <2>1 DEF Interrupt
    <2> QED
      BY <1>28, <2>1, <2>2 DEF Interrupt, Pending, InService, Guarded, Tables, Closed, SetUp, InBios
  <1>29. ASSUME NEW irq \in Irq, BiosInterrupt(irq) PROVE Guarded'
    BY <1>29 DEF BiosInterrupt, Pending, InService, TypeOK, Guarded, Tables, Closed, SetUp, InBios
  <1>30. ASSUME NEW irq \in Irq, StrayInterrupt(irq) PROVE Guarded'
    BY <1>30 DEF StrayInterrupt, Pending, InService, TypeOK, Guarded, Tables, Closed, SetUp,
       InBios
  <1>31. ASSUME NEW irq \in Irq, Acknowledge(irq) PROVE Guarded'
    <2>1. frames # <<>> /\ Len(frames') = 1
      BY <1>31, FramesTyped, FrameAdvances DEF Acknowledge, InPhase, Guarded
    <2> QED
      BY <1>31, <2>1 DEF Acknowledge, InPhase, Guarded, Tables, Closed, InBios
  <1>32. ASSUME NEW irq \in Irq, Return(irq) PROVE Guarded'
    <2>1. frames # <<>> /\ frames' = <<>> /\ fate = "Running"
      BY <1>32, FramesTyped, FrameEnds DEF Return, InPhase, Guarded
    <2> QED
      BY <1>32, <2>1 DEF Return, Guarded, Tables, Closed, InBios
  <1> QED
    BY <1>1, <1>2, <1>3, <1>4, <1>5, <1>6, <1>7, <1>8, <1>9, <1>10, <1>11, <1>12, <1>13, <1>14,
       <1>15, <1>16, <1>17, <1>18, <1>19, <1>20, <1>21, <1>22, <1>23, <1>24, <1>25, <1>26, <1>27,
       <1>28, <1>29, <1>30, <1>31, <1>32 DEF Next, Devices, Boots, Handles

(* ... and the counters.                                                   *)
LEMMA CountersKept ==
  ASSUME TypeOK, Guarded, Counted, Next
  PROVE  Counted'
  <1> USE DEF bootVars, cpuVars, picVars, tableVars, outputVars, deviceVars, driverVars
  <1>1. CASE Tick
    BY <1>1 DEF Tick, TypeOK, Guarded, Counted, InBios
  <1>2. CASE KeyTyped
    BY <1>2 DEF KeyTyped, Send, TypeOK, Guarded, Counted, InBios
  <1>3. CASE Answer
    BY <1>3 DEF Answer, Send, TypeOK, Guarded, Counted, InBios
  <1>4. CASE MouseMoves
    BY <1>4 DEF MouseMoves, Send, TypeOK, Guarded, Counted, InBios
  <1>5. CASE SetupEarlyMemory
    BY <1>5 DEF SetupEarlyMemory, At, Install, Remap, TypeOK, Guarded, Counted, InBios
  <1>6. CASE InitPit
    BY <1>6 DEF InitPit, AddHandle, At, TypeOK, Guarded, Counted, InBios
  <1>7. CASE InitKeyboard
    BY <1>7 DEF InitKeyboard, AddHandle, At, TypeOK, Guarded, Counted, InBios
  <1>8. CASE MouseAsk
    BY <1>8 DEF MouseAsk, At, TypeOK, Guarded, Counted, InBios
  <1>9. CASE MouseConfigure
    BY <1>9 DEF MouseConfigure, At, TypeOK, Guarded, Counted, InBios
  <1>10. CASE MouseCommand
    BY <1>10 DEF MouseCommand, At, TypeOK, Guarded, Counted, InBios
  <1>11. CASE MouseAcknowledged
    BY <1>11 DEF MouseAcknowledged, At, TypeOK, Guarded, Counted, InBios
  <1>12. CASE InitMouse
    BY <1>12 DEF InitMouse, AddHandle, At, TypeOK, Guarded, Counted, InBios
  <1>13. CASE EnableInterrupts
    BY <1>13 DEF EnableInterrupts, At, TypeOK, Guarded, Counted, InBios
  <1>14. CASE SetupMultitasking
    BY <1>14 DEF SetupMultitasking, At, TypeOK, Guarded, Counted, InBios
  <1>15. CASE SetupGraphics
    BY <1>15 DEF SetupGraphics, At, TypeOK, Guarded, Counted, InBios
  <1>16. CASE LeaveProtected
    BY <1>16 DEF LeaveProtected, Proceed, At, TypeOK, Guarded, Counted, InBios
  <1>17. CASE EnterReal
    BY <1>17 DEF EnterReal, Proceed, At, TypeOK, Guarded, Counted, InBios
  <1>18. CASE LeaveReal
    BY <1>18 DEF LeaveReal, Proceed, At, TypeOK, Guarded, Counted, InBios
  <1>19. CASE DisableInterrupts
    BY <1>19 DEF DisableInterrupts, Proceed, At, TypeOK, Guarded, Counted, InBios
  <1>20. CASE ClearGates
    BY <1>20 DEF ClearGates, Proceed, At, TypeOK, Guarded, Counted, InBios
  <1>21. CASE Reinstall
    BY <1>21 DEF Reinstall, Proceed, At, Install, Remap, TypeOK, Guarded, Counted, InBios
  <1>22. CASE Resume
    BY <1>22 DEF Resume, Proceed, At, TypeOK, Guarded, Counted, InBios
  <1>23. CASE CreateTask
    BY <1>23 DEF CreateTask, At, TypeOK, Guarded, Counted, InBios
  <1>24. CASE TimerReturns
    BY <1>24 DEF TimerReturns, InPhase, Advance, Follows, Top, TypeOK, Guarded, Counted, InBios
  <1>25. CASE TimerSwitches
    BY <1>25 DEF TimerSwitches, InPhase, TypeOK, Guarded, Counted, InBios
  <1>26. CASE HandleKeyboard
    BY <1>26 DEF HandleKeyboard, InPhase, Advance, Follows, Top, TypeOK, Guarded, Counted, InBios
  <1>27. CASE HandleMouse
    BY <1>27 DEF HandleMouse, InPhase, Advance, Follows, Top, TypeOK, Guarded, Counted, InBios
  <1>28. ASSUME NEW irq \in Irq, Interrupt(irq) PROVE Counted'
    BY <1>28 DEF Interrupt, Pending, InService, Masked, Follows, TypeOK, Guarded, Counted, InBios
  <1>29. ASSUME NEW irq \in Irq, BiosInterrupt(irq) PROVE Counted'
    BY <1>29 DEF BiosInterrupt, Pending, InService, TypeOK, Guarded, Counted, InBios
  <1>30. ASSUME NEW irq \in Irq, StrayInterrupt(irq) PROVE Counted'
    BY <1>30 DEF StrayInterrupt, Pending, InService, TypeOK, Guarded, Counted, InBios
  <1>31. ASSUME NEW irq \in Irq, Acknowledge(irq) PROVE Counted'
    BY <1>31 DEF Acknowledge, InPhase, Advance, Follows, Top, TypeOK, Guarded, Counted, InBios
  <1>32. ASSUME NEW irq \in Irq, Return(irq) PROVE Counted'
    BY <1>32 DEF Return, InPhase, Top, TypeOK, Guarded, Counted, InBios
  <1> QED
    BY <1>1, <1>2, <1>3, <1>4, <1>5, <1>6, <1>7, <1>8, <1>9, <1>10, <1>11, <1>12, <1>13, <1>14,
       <1>15, <1>16, <1>17, <1>18, <1>19, <1>20, <1>21, <1>22, <1>23, <1>24, <1>25, <1>26, <1>27,
       <1>28, <1>29, <1>30, <1>31, <1>32 DEF Next, Devices, Boots, Handles

(* The inductive invariant: the types, what guards interrupts, and what is *)
(* left to be done.                                                        *)
THEOREM Invariant == Spec => []IInv
  <1>1. ASSUME IInv, [Next]_vars PROVE IInv'
    <2>1. CASE UNCHANGED vars
      BY <1>1, <2>1 DEF vars, bootVars, cpuVars, picVars, tableVars, outputVars, deviceVars,
         driverVars, IInv, TypeOK, Guarded, Counted, Tables
    <2> QED
      BY <1>1, <2>1, TypesKept, GuardsKept, CountersKept DEF IInv
  <1> QED
    BY <1>1, InitIsSound, PTL DEF Spec

(* Every variable keeps its type; the driver never holds more than two     *)
(* bytes of a packet between interrupts (MouseHandler_).                   *)
THEOREM TypeCorrect == Spec => []TypeOK
  <1>1. IInv => TypeOK
    BY DEF IInv
  <1> QED
    BY <1>1, Invariant, PTL

(* No interrupt is handled inside another one (irq_handler acknowledges    *)
(* before it calls the handle).                                            *)
THEOREM HandlersAlone == Spec => []NoNesting
  <1>1. IInv => NoNesting
    BY DEF IInv, Guarded, NoNesting
  <1> QED
    BY <1>1, Invariant, PTL

(* Only between the return from the BIOS and the cli of Bios32::Call can   *)
(* an interrupt be taken through a table of real mode.                     *)
THEOREM OneWindow == Spec => []AstrayOnlyAfterBios
  <1>1. IInv => AstrayOnlyAfterBios
    BY DEF IInv, Guarded, AstrayOnlyAfterBios
  <1> QED
    BY <1>1, Invariant, PTL

-----------------------------------------------------------------------------
(* That bytes are heard, and that the driver stays in step.                *)

(* Before the mouse has been told to report.                               *)
Unreported ==
  {"Early", "Timer", "Keyboard", "AskConfig", "GetConfig", "Defaults", "DefaultsAck", "Report"}

(* The handles that the set up has added.                                  *)
Handling ==
  /\ stage \notin {"Early", "Timer"} => "Timer" \in irqHandles
  /\ stage \notin {"Early", "Timer", "Keyboard"} => "Keyboard" \in irqHandles
  /\ stage \notin Unreported \cup {"ReportAck", "Mouse"} => "Mouse" \in irqHandles

(* The mouse reports on command only; the answer to the command is read    *)
(* before its handle is added; what it sends next follows what it sent     *)
(* last.                                                                   *)
Reports ==
  /\ stage \in Unreported => next = Silent
  /\ stage = "ReportAck" => due # <<>> \/ output \in {"Ack", "Reply"}
  /\ output \in MouseByte => next # Silent
  /\ \A k \in 1 .. 3 : output = Packet[k] => next = 1 + (k % 3)

(* Interrupts are handled after the set up, when every line has a handle.  *)
LEMMA EveryLineHasHandle ==
  ASSUME IInv, Handling, frames # <<>>, NEW irq \in Irq
  PROVE  HasHandle(irq)
  <1>1. stage \notin Closed
    BY DEF IInv, Guarded
  <1> QED
    BY <1>1 DEF Handling, HasHandle, Irq, Closed, SetUp, Unreported

(* What kernel_main does in protected mode with interrupts disabled, that  *)
(* neither reads a byte nor changes a line.                                *)
Quiet ==
  \/ InitPit \/ InitKeyboard \/ MouseAsk \/ MouseCommand \/ InitMouse
  \/ EnableInterrupts \/ SetupMultitasking \/ SetupGraphics
  \/ LeaveProtected \/ EnterReal \/ LeaveReal \/ DisableInterrupts \/ ClearGates \/ Resume
  \/ CreateTask

(* It leaves all alone that BytesAreHeard speaks of.                       *)
LEMMA QuietKeeps ==
  ASSUME Quiet
  PROVE  UNCHANGED <<frames, fate, irr, output, unheard, lines, bytes, packet>>
  BY DEF Quiet, InitPit, InitKeyboard, MouseAsk, MouseCommand, InitMouse, EnableInterrupts,
     SetupMultitasking, SetupGraphics, LeaveProtected, EnterReal, LeaveReal, DisableInterrupts,
     ClearGates, Resume, CreateTask, AddHandle, Proceed, bootVars, cpuVars, picVars, tableVars,
     outputVars, deviceVars, driverVars

(* The handles stay where the set up adds them.                            *)
LEMMA HandlingKept ==
  ASSUME Handling, Next
  PROVE  Handling'
  <1>1. CASE stage' = stage /\ irqHandles' = irqHandles
    BY <1>1 DEF Handling
  <1>2. CASE Boots
    BY <1>2 DEF Boots, Handling, Unreported, SetupEarlyMemory, InitPit, InitKeyboard, MouseAsk,
       MouseConfigure, MouseCommand, MouseAcknowledged, InitMouse, EnableInterrupts,
       SetupMultitasking, SetupGraphics, LeaveProtected, EnterReal, LeaveReal, DisableInterrupts,
       ClearGates, Reinstall, Resume, CreateTask, AddHandle, Proceed, At, bootVars, tableVars
  <1> QED
    BY <1>1, <1>2 DEF Next, Devices, Tick, KeyTyped, Answer, MouseMoves, Send, Handles,
       Acknowledge, Return, TimerReturns, TimerSwitches, HandleKeyboard, HandleMouse, Interrupt,
       BiosInterrupt, StrayInterrupt, InService, bootVars, tableVars

(* The mouse keeps to its order.                                           *)
LEMMA ReportsKept ==
  ASSUME IInv, Reports, Next
  PROVE  Reports'
  <1> USE DEF bootVars, outputVars, deviceVars, picVars
  <1>1. \A k \in 1 .. 3 : Empty # Packet[k]
    BY DEF Empty, Packet
  <1>2. Empty \notin MouseByte
    BY DEF Empty, Packet, MouseByte
  <1>3. CASE UNCHANGED <<stage, next, due>> /\ output' \in {output, Empty} /\ stage # "ReportAck"
    BY <1>1, <1>2, <1>3 DEF Reports
  <1>4. CASE UNCHANGED <<stage, next, due, output>>
    BY <1>4 DEF Reports
  <1>5. CASE KeyTyped
    BY <1>5 DEF KeyTyped, Send, Reports, MouseByte, Packet, Empty
  <1>6. CASE Answer
    BY <1>6 DEF Answer, Send, Reports, MouseByte, Packet, Empty, IInv, TypeOK
  <1>7. CASE MouseMoves
    <2>1. next \in 1 .. 3 /\ next' = 1 + (next % 3) /\ output' = Packet[next] /\ stage' = stage
      BY <1>7 DEF MouseMoves, Send, IInv, TypeOK, Silent
    <2>2. \A k \in 1 .. 3 : Packet[next] = Packet[k] => k = next
      BY <2>1 DEF Packet
    <2>3. next' # Silent /\ stage' \notin Unreported
      BY <2>1 DEF Silent, Reports
    <2>4. stage' # "ReportAck"
      BY <1>7, <2>1 DEF MouseMoves, Send, Reports, Empty
    <2>5. \A k \in 1 .. 3 : output' = Packet[k] => next' = 1 + (k % 3)
      BY <2>1, <2>2
    <2> QED
      BY <2>3, <2>4, <2>5 DEF Reports
  <1>8. CASE stage \in Unreported /\ Boots
    <2>1. next = Silent /\ output \notin MouseByte
      BY <1>8 DEF Reports
    <2>2. CASE MouseCommand
      <3>1. due' # <<>> /\ output' = output /\ stage' \in {"DefaultsAck", "ReportAck"}
            /\ (stage' = "DefaultsAck" => next' = next) /\ next' \in {next, 1}
        BY <2>2 DEF MouseCommand, At, IInv, TypeOK
      <3>2. \A k \in 1 .. 3 : output # Packet[k]
        BY <2>1 DEF MouseByte, Packet
      <3> QED
        BY <2>1, <3>1, <3>2 DEF Reports, Unreported
    <2>3. CASE ~ MouseCommand
      <3>1. next' = next /\ stage' # "ReportAck" /\ output' \in {output, Empty}
        BY <1>8, <2>3 DEF Boots, Unreported, SetupEarlyMemory, InitPit, InitKeyboard, MouseAsk,
           MouseConfigure, MouseAcknowledged, InitMouse, EnableInterrupts, SetupMultitasking,
           SetupGraphics, LeaveProtected, EnterReal, LeaveReal, DisableInterrupts, ClearGates,
           Reinstall, Resume, CreateTask, AddHandle, Proceed, At, TakeByte
      <3>2. \A k \in 1 .. 3 : output # Packet[k]
        BY <2>1 DEF MouseByte, Packet
      <3> QED
        BY <1>1, <1>2, <2>1, <3>1, <3>2 DEF Reports
    <2> QED
      BY <2>2, <2>3
  <1>9. CASE stage \notin Unreported /\ Boots
    <2>1. next' = next /\ stage' \notin Unreported \cup {"ReportAck"} /\ output' \in {output, Empty}
      BY <1>9 DEF Boots, Unreported, SetupEarlyMemory, InitPit, InitKeyboard, MouseAsk,
         MouseConfigure, MouseCommand, MouseAcknowledged, InitMouse, EnableInterrupts,
         SetupMultitasking, SetupGraphics, LeaveProtected, EnterReal, LeaveReal,
         DisableInterrupts, ClearGates, Reinstall, Resume, CreateTask, AddHandle, Proceed, At,
         TakeByte
    <2> QED
      BY <1>1, <1>2, <2>1 DEF Reports
  <1>10. CASE HandleKeyboard \/ HandleMouse
    <2>1. stage \notin Closed
      BY <1>10 DEF HandleKeyboard, HandleMouse, InPhase, IInv, Guarded
    <2> QED
      BY <1>3, <1>10, <2>1 DEF HandleKeyboard, HandleMouse, TakeByte, Closed, SetUp
  <1> QED
    BY <1>4, <1>5, <1>6, <1>7, <1>8, <1>9, <1>10 DEF Next, Devices, Tick, Handles, Acknowledge,
       Return, TimerReturns, TimerSwitches, Interrupt, BiosInterrupt, StrayInterrupt, InService

(* Whether a byte is about to be read is told by the only frame.           *)
LEMMA ReadingIsTop ==
  ASSUME frames \in Seq(Frame), Len(frames) <= 1
  PROVE  /\ frames = <<>> => Reading = {}
         /\ frames # <<>> =>
              Reading = IF Top.irq \in {"Keyboard", "Mouse"} /\ Top.phase # "Return" THEN {1} ELSE {}
  <1>1. CASE frames = <<>>
    BY <1>1 DEF Reading
  <1>2. CASE frames # <<>>
    <2>1. Len(frames) = 1 /\ Top = frames[1] /\ DOMAIN frames = {1}
      <3>1. Len(frames) = 1 /\ Top = frames[1]
        BY <1>2, OneFrame
      <3>2. DOMAIN frames = 1 .. Len(frames)
        OBVIOUS
      <3> QED
        BY <3>1, <3>2
    <2> QED
      BY <1>2, <2>1 DEF Reading
  <1> QED
    BY <1>1, <1>2

(* What irq_handler is doing, and what it does next.                       *)
LEMMA TopAdvances ==
  ASSUME frames \in Seq(Frame), Len(frames) <= 1, frames # <<>>,
         Top.phase \in {"Acknowledge", "Handle"}, Advance
  PROVE  /\ frames' \in Seq(Frame) /\ Len(frames') = 1 /\ frames' # <<>>
         /\ Top'.irq = Top.irq /\ Top'.phase = Follows(Top.phase)
         /\ frames'[1].irq = Top.irq
  <1>1. Len(frames) = 1 /\ frames[1] \in Frame /\ Top = frames[1]
    BY OneFrame
  <1>2. frames' = [frames EXCEPT ![1] = [frames[1] EXCEPT !.phase = Follows(frames[1].phase)]]
    BY <1>1 DEF Advance
  <1>3. frames'[1] = [frames[1] EXCEPT !.phase = Follows(frames[1].phase)]
    BY <1>1, <1>2
  <1>4. frames' \in Seq(Frame) /\ Len(frames') = 1
    BY FrameAdvances
  <1>5. Top' = frames'[1] /\ frames' # <<>>
    BY <1>4 DEF Top
  <1> QED
    BY <1>1, <1>3, <1>4, <1>5 DEF Frame

(* A byte that waits is going to be read.                                  *)
LEMMA HeardKept ==
  ASSUME IInv, IInv', Handling, BytesAreHeard, Next
  PROVE  BytesAreHeard'
  <1> USE DEF bootVars, outputVars, deviceVars, picVars, cpuVars
  <1>1. /\ frames \in Seq(Frame) /\ Len(frames) <= 1
        /\ frames' \in Seq(Frame) /\ Len(frames') <= 1
    BY DEF IInv, TypeOK, Guarded, Frame
  <1>2. /\ frames' = frames => Reading' = Reading
        /\ frames = <<>> => Reading = {}
        /\ frames' = <<>> => Reading' = {}
    BY DEF Reading
  <1>3. Raised(output) \subseteq {"Keyboard", "Mouse"} /\ LineOf(Empty) = {} /\ Raised(Empty) = {}
    BY DEF Raised, LineOf, Empty, MouseByte, Packet
  <1>4. CASE UNCHANGED <<frames, fate, irr, output, unheard, lines>>
    BY <1>2, <1>4 DEF BytesAreHeard, Raised
  <1>5. CASE Tick
    BY <1>2, <1>5 DEF Tick, BytesAreHeard, Raised
  <1>6. CASE KeyTyped \/ Answer \/ MouseMoves
    <2>1. lines' = lines /\ irr' = irr \cup Raised(output')
      BY <1>6 DEF KeyTyped, Answer, MouseMoves, Send
    <2> QED
      BY <2>1 DEF BytesAreHeard, Raised
  <1>7. CASE TakeByte
    <2>1. Raised(output)' = LineOf(output') \cap lines' /\ output' = Empty
      BY <1>7 DEF TakeByte, Raised, LineOf
    <2> QED
      BY <1>3, <2>1 DEF BytesAreHeard
  <1>8. CASE SetupEarlyMemory \/ Reinstall
    <2>1. UNCHANGED <<lines, output>> /\ (irr' = {} \/ irr' = Raised(output))
          /\ unheard' = (output # Empty /\ irr' = {})
      BY <1>8 DEF SetupEarlyMemory, Reinstall, Install, Remap, Proceed
    <2>2. \A irq \in Raised(output) : irq \in irr' \/ unheard'
      BY <1>3, <2>1
    <2> QED
      BY <2>1, <2>2 DEF BytesAreHeard, Raised
  <1>9. ASSUME NEW irq \in Irq, Interrupt(irq) PROVE BytesAreHeard'
    <2>1. /\ frames = <<>> /\ frames' = <<[irq |-> irq, phase |-> "Acknowledge"]>>
          /\ UNCHANGED <<lines, output, fate, unheard>> /\ irr' = irr \ {irq}
      <3>1. frames = <<>> /\ Follows("Taken") = "Acknowledge"
        BY <1>9 DEF Interrupt, Pending, IInv, Guarded, Follows
      <3>2. frames' = Append(<<>>, [irq |-> irq, phase |-> "Acknowledge"])
        BY <1>9, <3>1 DEF Interrupt
      <3>3. \A x : Append(<<>>, x) = <<x>>
        OBVIOUS
      <3> QED
        BY <1>9, <3>1, <3>2, <3>3 DEF Interrupt, InService
    <2>2. irq \in {"Keyboard", "Mouse"} => Reading' # {}
      BY <2>1 DEF Reading
    <2> QED
      BY <1>2, <1>3, <2>1, <2>2 DEF BytesAreHeard, Raised
  <1>10. ASSUME NEW irq \in Irq, BiosInterrupt(irq) PROVE BytesAreHeard'
    <2>1. /\ UNCHANGED <<lines, output, fate, frames>> /\ irr' = irr \ {irq}
          /\ unheard' = (unheard \/ irq \in LineOf(output))
      BY <1>10 DEF BiosInterrupt, InService
    <2> QED
      BY <1>2, <2>1 DEF BytesAreHeard, Raised
  <1>11. ASSUME NEW irq \in Irq, StrayInterrupt(irq) PROVE BytesAreHeard'
    BY <1>11 DEF StrayInterrupt, BytesAreHeard
  <1>12. ASSUME NEW irq \in Irq, InPhase(irq, "Acknowledge"), Advance,
                UNCHANGED <<lines, output, fate, irr, unheard>>
         PROVE  BytesAreHeard'
    <2>1. Reading = IF irq \in {"Keyboard", "Mouse"} THEN {1} ELSE {}
      BY <1>1, <1>12, ReadingIsTop DEF InPhase
    <2>2. frames' # <<>> /\ Top'.irq = irq /\ Top'.phase = "Handle"
      BY <1>1, <1>12, TopAdvances DEF InPhase, Follows
    <2>3. Reading' = IF irq \in {"Keyboard", "Mouse"} THEN {1} ELSE {}
      <3>1. 1 \in DOMAIN frames' /\ frames'[1] = Top' /\ DOMAIN frames' = {1}
        <4>1. Len(frames') \in Nat /\ Len(frames') # 0 /\ DOMAIN frames' = 1 .. Len(frames')
          BY <1>1, <2>2
        <4> QED
          BY <1>1, <4>1 DEF Top
      <3> QED
        BY <2>2, <3>1 DEF Reading
    <2> QED
      BY <1>12, <2>1, <2>3 DEF BytesAreHeard, Raised
  <1>13. CASE TimerReturns \/ TimerSwitches
    <2>1. Reading = {} /\ UNCHANGED <<lines, output, fate, irr, unheard>>
      BY <1>1, <1>13, ReadingIsTop DEF TimerReturns, TimerSwitches, InPhase
    <2> QED
      BY <2>1 DEF BytesAreHeard, Raised
  <1>14. ASSUME NEW irq \in Irq, Return(irq) PROVE BytesAreHeard'
    <2>1. InPhase(irq, "Return") /\ UNCHANGED <<lines, output, fate, irr, unheard>>
      BY <1>14, EveryLineHasHandle DEF Return, InPhase
    <2>2. Reading = {}
      BY <1>1, <2>1, ReadingIsTop DEF InPhase
    <2> QED
      BY <2>1, <2>2 DEF BytesAreHeard, Raised
  <1>15. CASE Boots
    <2>1. Quiet \/ TakeByte \/ SetupEarlyMemory \/ Reinstall
      BY <1>15 DEF Boots, Quiet, MouseConfigure, MouseAcknowledged
    <2> QED
      BY <1>4, <1>7, <1>8, <2>1, QuietKeeps
  <1> QED
    BY <1>5, <1>6, <1>7, <1>9, <1>10, <1>11, <1>12, <1>13, <1>14, <1>15 DEF Next, Devices, Handles,
       Acknowledge, HandleKeyboard, HandleMouse

(* The handles, the order of the mouse's bytes and their interrupts.       *)
THEOREM Served == Spec => [](Handling /\ Reports /\ BytesAreHeard)
  <1> DEFINE Now == Handling /\ Reports /\ BytesAreHeard
  <1>1. ASSUME Init PROVE Now
    <2>1. Handling /\ Reports
      BY <1>1 DEF Init, Handling, Reports, Unreported, Empty, MouseByte, Packet
    <2>2. ASSUME output = Empty PROVE BytesAreHeard
      BY <2>2 DEF BytesAreHeard, Raised, LineOf, Empty, MouseByte, Packet
    <2>3. ASSUME output # Empty PROVE BytesAreHeard
      BY <1>1, <2>3 DEF Init, BytesAreHeard
    <2> QED
      BY <2>1, <2>2, <2>3
  <1>2. ASSUME IInv, IInv', Now, [Next]_vars PROVE Now'
    <2>1. CASE UNCHANGED vars
      BY <1>2, <2>1 DEF vars, bootVars, cpuVars, picVars, tableVars, outputVars, deviceVars,
         Handling, Reports, BytesAreHeard, Raised, Reading
    <2> QED
      BY <1>2, <2>1, HandlingKept, ReportsKept, HeardKept
  <1> QED
    BY <1>1, <1>2, Invariant, PTL DEF Spec

(* A byte that waits in the controller has its line requested or its       *)
(* handler running, unless its request was lost to the BIOS or to a Remap. *)
THEOREM NoByteIsForgotten == Spec => []BytesAreHeard
  BY Served, PTL

(* The packet, byte by byte.                                               *)
LEMMA Prefixes ==
  /\ SubSeq(Packet, 1, 0) = <<>>
  /\ SubSeq(Packet, 1, 1) = <<"First">>
  /\ SubSeq(Packet, 1, 2) = <<"First", "Second">>
  /\ Append(<<>>, "First") = <<"First">>
  /\ Append(<<"First">>, "Second") = <<"First", "Second">>
  /\ Append(<<"First", "Second">>, "Third") = Packet
  /\ Len(<<>>) = 0 /\ Len(<<"First">>) = 1 /\ Len(<<"First", "Second">>) = 2
  <1>1. /\ Len(<<>>) = 0 /\ Len(<<"First">>) = 1 /\ Len(<<"First", "Second">>) = 2
        /\ Append(<<>>, "First") = <<"First">>
    OBVIOUS
  <1> DEFINE Bytes == {"First", "Second", "Third"}
  <1>2. \A s, t \in Seq(Bytes) : Len(s) = Len(t) /\ (\A i \in 1 .. Len(s) : s[i] = t[i]) => s = t
    OBVIOUS
  <1>3. \A s \in Seq(Bytes), x \in Bytes :
          /\ Append(s, x) \in Seq(Bytes) /\ Len(Append(s, x)) = Len(s) + 1
          /\ Append(s, x)[Len(s) + 1] = x /\ \A i \in 1 .. Len(s) : Append(s, x)[i] = s[i]
    OBVIOUS
  <1>4. \A s \in Seq(Bytes) : \A n \in 0 .. Len(s) :
          /\ SubSeq(s, 1, n) \in Seq(Bytes) /\ Len(SubSeq(s, 1, n)) = n
          /\ \A i \in 1 .. n : SubSeq(s, 1, n)[i] = s[i]
    OBVIOUS
  <1>5. /\ <<"First">> \in Seq(Bytes) /\ <<"First", "Second">> \in Seq(Bytes)
        /\ Packet \in Seq(Bytes) /\ Len(Packet) = 3
        /\ Packet[1] = "First" /\ Packet[2] = "Second" /\ Packet[3] = "Third"
    BY DEF Packet
  <1>6. SubSeq(Packet, 1, 0) = <<>>
    BY DEF Packet
  <1>7. SubSeq(Packet, 1, 1) = <<"First">>
    <2> DEFINE s == SubSeq(Packet, 1, 1)
               t == <<"First">>
    <2>1. s \in Seq(Bytes) /\ Len(s) = 1 /\ s[1] = "First"
      BY <1>4, <1>5
    <2>2. t \in Seq(Bytes) /\ Len(t) = 1 /\ t[1] = "First"
      BY <1>5
    <2> HIDE DEF s, t, Bytes
    <2>3. s = t
      BY <1>2, <2>1, <2>2
    <2> QED
      BY <2>3 DEF s, t
  <1>8. /\ SubSeq(Packet, 1, 2) = <<"First", "Second">>
        /\ Append(<<"First">>, "Second") = <<"First", "Second">>
    <2> DEFINE s == SubSeq(Packet, 1, 2)
               a == Append(<<"First">>, "Second")
               t == <<"First", "Second">>
    <2>1. s \in Seq(Bytes) /\ Len(s) = 2 /\ s[1] = "First" /\ s[2] = "Second"
      BY <1>4, <1>5
    <2>2. t \in Seq(Bytes) /\ Len(t) = 2 /\ t[1] = "First" /\ t[2] = "Second"
      BY <1>5
    <2>3. a \in Seq(Bytes) /\ Len(a) = 2 /\ a[1] = "First" /\ a[2] = "Second"
      BY <1>1, <1>3, <1>5
    <2> HIDE DEF s, a, t, Bytes
    <2>4. s = t
      BY <1>2, <2>1, <2>2
    <2>5. a = t
      BY <1>2, <2>2, <2>3
    <2> QED
      BY <2>4, <2>5 DEF s, a, t
  <1>9. Append(<<"First", "Second">>, "Third") = Packet
    BY <1>1, <1>2, <1>3, <1>5
  <1> QED
    BY <1>1, <1>6, <1>7, <1>8, <1>9

(* The driver reads the byte it expects: it expects the next one then.     *)
LEMMA ReadInStep ==
  ASSUME TypeOK, bytes = SubSeq(Packet, 1, Len(bytes)), NEW byte, byte = Packet[Len(bytes) + 1],
         Read(byte)
  PROVE  /\ bytes' = SubSeq(Packet, 1, Len(bytes')) /\ packet' \in {<<>>, Packet}
         /\ Len(bytes) \in 0 .. 2 /\ Len(bytes') = (Len(bytes) + 1) % 3
  <1>1. Len(bytes) \in 0 .. 2
    BY DEF TypeOK
  <1>2. CASE Len(bytes) = 0
    <2>1. bytes = <<>> /\ byte = "First"
      BY <1>2, Prefixes DEF Packet
    <2>2. bytes' = <<"First">> /\ packet' = <<>>
      BY <1>2, <2>1, Prefixes DEF Read
    <2> QED
      BY <1>1, <1>2, <2>2, Prefixes
  <1>3. CASE Len(bytes) = 1
    <2>1. bytes = <<"First">> /\ byte = "Second"
      BY <1>3, Prefixes DEF Packet
    <2>2. bytes' = <<"First", "Second">> /\ packet' = <<>>
      BY <1>3, <2>1, Prefixes DEF Read
    <2> QED
      BY <1>1, <1>3, <2>2, Prefixes
  <1>4. CASE Len(bytes) = 2
    <2>1. bytes = <<"First", "Second">> /\ byte = "Third"
      BY <1>4, Prefixes DEF Packet
    <2>2. bytes' = <<>> /\ packet' = Packet
      BY <1>4, <2>1, Prefixes DEF Read
    <2> QED
      BY <1>1, <1>4, <2>2, Prefixes
  <1> QED
    BY <1>1, <1>2, <1>3, <1>4

(* Between interrupts the driver holds less than a packet.                 *)
LEMMA FewBytes == TypeOK => Len(bytes) \in 0 .. 2
  <1> SUFFICES ASSUME bytes \in Seq(MouseByte \cup {"Other"}), Len(bytes) <= 2
               PROVE  Len(bytes) \in 0 .. 2
    BY DEF TypeOK
  <1>1. Len(bytes) \in Nat
    OBVIOUS
  <1>2. \A n \in Nat : n <= 2 => n \in 0 .. 2
    OBVIOUS
  <1> QED
    BY ONLY <1>1, <1>2, Len(bytes) <= 2

(* A driver in step stays in step.                                         *)
LEMMA InStepKept ==
  ASSUME IInv, IInv', Handling, Reports, InStep, Next
  PROVE  InStep'
  <1> USE DEF bootVars, outputVars, deviceVars, picVars, cpuVars, driverVars
  <1>1. /\ frames \in Seq(Frame) /\ Len(frames) <= 1
        /\ frames' \in Seq(Frame) /\ Len(frames') <= 1
        /\ Len(bytes) \in 0 .. 2
    <2>1. Len(bytes) \in 0 .. 2
      BY FewBytes DEF IInv
    <2> QED
      BY <2>1 DEF IInv, TypeOK, Guarded, Frame
  <1>2. /\ frames' = frames => Reading' = Reading
        /\ frames = <<>> => Reading = {}
        /\ frames' = <<>> => Reading' = {}
    BY DEF Reading
  <1>3. /\ LineOf(Empty) = {} /\ LineOf("Key") = {"Keyboard"}
        /\ Empty \notin MouseByte /\ "Key" \notin MouseByte
        /\ Empty \notin {"Ack", "Reply"} /\ \A byte \in MouseByte : LineOf(byte) = {"Mouse"}
        /\ LineOf(output) \subseteq {"Keyboard", "Mouse"}
    BY DEF LineOf, Empty, MouseByte, Packet
  <1>4. stage \notin Unreported \cup {"ReportAck"} /\ next # Silent /\ due = <<>>
    BY DEF InStep, Reports
  <1>5. CASE UNCHANGED <<frames, irr, output, bytes, packet, next, due>>
    BY <1>2, <1>5 DEF InStep
  <1>6. CASE Tick
    <2>1. irr' \ {"Timer"} = irr \ {"Timer"} /\ UNCHANGED <<frames, output, bytes, packet, next, due>>
      BY <1>6 DEF Tick
    <2>2. \A k \in Reading : frames[k].irq # "Timer"
      BY DEF Reading
    <2> QED
      BY <1>2, <2>1, <2>2 DEF InStep
  <1>7. ASSUME NEW byte \in MouseByte \cup {"Key"}, Send(byte), UNCHANGED due,
               next' # Silent,
               IF byte \in MouseByte THEN byte = Packet[Len(bytes) + 1] ELSE next' = Len(bytes) + 1
        PROVE  InStep'
    <2>1. /\ output = Empty /\ output' = byte /\ irr' = irr \cup Raised(byte)
          /\ UNCHANGED <<frames, bytes, packet>>
      BY <1>7 DEF Send
    <2>2. Reading = {} /\ irr \ {"Timer"} = {} /\ Raised(byte) \subseteq LineOf(byte)
      BY <1>3, <2>1 DEF InStep, Raised
    <2>3. byte \notin {"Ack", "Reply"}
      BY DEF MouseByte, Packet
    <2> QED
      BY <1>2, <1>7, <2>1, <2>2, <2>3 DEF InStep
  <1>8. CASE KeyTyped
    <2>1. output = Empty /\ Send("Key") /\ UNCHANGED <<due, next>>
      BY <1>8 DEF KeyTyped, Send
    <2> QED
      BY <1>3, <1>4, <1>7, <2>1 DEF InStep
  <1>9. CASE MouseMoves
    <2>1. /\ output = Empty /\ Send(Packet[next]) /\ UNCHANGED due /\ next' = 1 + (next % 3)
          /\ next \in 1 .. 3
      BY <1>9 DEF MouseMoves, Send, IInv, TypeOK, Silent
    <2>2. next = Len(bytes) + 1 /\ Packet[next] \in MouseByte /\ next' # Silent
      BY <1>3, <2>1, PacketBytes DEF InStep, Silent
    <2> QED
      BY <1>7, <2>1, <2>2
  <1>10. CASE Reinstall
    <2>1. /\ UNCHANGED <<frames, output, bytes, packet, next, due>> /\ frames = <<>>
          /\ irr' \in {{}, Raised(output)}
      BY <1>10 DEF Reinstall, Install, Remap, Proceed, At
    <2>2. irr' \subseteq LineOf(output)
      BY <2>1 DEF Raised
    <2> QED
      BY <1>2, <2>1, <2>2 DEF InStep
  <1>11. CASE Boots
    <2>1. (Quiet /\ ~ MouseAsk /\ ~ MouseCommand) \/ Reinstall
      BY <1>4, <1>11 DEF Boots, Quiet, SetupEarlyMemory, MouseAsk, MouseConfigure, MouseCommand,
         MouseAcknowledged, At, Unreported
    <2>2. Quiet /\ ~ MouseAsk /\ ~ MouseCommand => UNCHANGED <<next, due>>
      BY DEF Quiet, InitPit, InitKeyboard, InitMouse, EnableInterrupts, SetupMultitasking,
         SetupGraphics, LeaveProtected, EnterReal, LeaveReal, DisableInterrupts, ClearGates,
         Resume, CreateTask, AddHandle, Proceed
    <2> QED
      BY <1>5, <1>10, <2>1, <2>2, QuietKeeps
  <1>12. ASSUME NEW irq \in Irq, Interrupt(irq) PROVE InStep'
    <2>1. /\ frames = <<>> /\ frames' = <<[irq |-> irq, phase |-> "Acknowledge"]>>
          /\ UNCHANGED <<output, bytes, packet, next, due>> /\ irr' = irr \ {irq} /\ irq \in irr
      <3>1. frames = <<>> /\ Follows("Taken") = "Acknowledge"
        BY <1>12 DEF Interrupt, Pending, IInv, Guarded, Follows
      <3>2. frames' = Append(<<>>, [irq |-> irq, phase |-> "Acknowledge"])
        BY <1>12, <3>1 DEF Interrupt
      <3>3. \A x : Append(<<>>, x) = <<x>>
        OBVIOUS
      <3> QED
        BY <1>12, <3>1, <3>2, <3>3 DEF Interrupt, InService, Pending
    <2>2. \A k \in Reading' : frames'[k].irq = irq /\ irq # "Timer"
      BY <2>1 DEF Reading
    <2> QED
      BY <2>1, <2>2 DEF InStep
  <1>13. ASSUME NEW irq \in Irq, BiosInterrupt(irq) \/ StrayInterrupt(irq) PROVE InStep'
    <2>1. UNCHANGED <<frames, output, bytes, packet, next, due>> /\ irr' = irr \ {irq}
      BY <1>13 DEF BiosInterrupt, StrayInterrupt, InService
    <2> QED
      BY <1>2, <2>1 DEF InStep
  <1>14. ASSUME NEW irq \in Irq, InPhase(irq, "Acknowledge"), Advance,
                UNCHANGED <<output, irr, bytes, packet, next, due>>
         PROVE  InStep'
    <2>1. Reading = IF irq \in {"Keyboard", "Mouse"} THEN {1} ELSE {}
      BY <1>1, <1>14, ReadingIsTop DEF InPhase
    <2>2. frames' # <<>> /\ frames'[1].irq = irq /\ Len(frames') = 1 /\ Top.irq = irq
      BY <1>1, <1>14, TopAdvances DEF InPhase
    <2>3. DOMAIN frames' = {1} /\ Top = frames[1]
      <3>1. DOMAIN frames' = 1 .. Len(frames')
        BY <1>1
      <3> QED
        BY <1>1, <1>14, <2>2, <3>1, OneFrame DEF InPhase
    <2>4. \A k \in Reading' : k \in Reading /\ frames'[k].irq = frames[k].irq
      BY <2>1, <2>2, <2>3 DEF Reading
    <2> QED
      BY <1>14, <2>4 DEF InStep
  <1>15. ASSUME NEW irq \in Irq, InPhase(irq, "Handle"), Advance
         PROVE  Reading' = {} /\ frames # <<>> /\ frames[1].irq = irq
                /\ (irq # "Timer" => Reading = {1})
    <2>1. frames' # <<>> /\ Top'.phase = "Return" /\ frames # <<>> /\ Top = frames[1]
          /\ DOMAIN frames' = {1} /\ frames'[1] = Top'
      <3>1. frames' # <<>> /\ Top'.phase = "Return" /\ frames # <<>> /\ Len(frames') = 1
        BY <1>1, <1>15, TopAdvances DEF InPhase, Follows
      <3>2. DOMAIN frames' = 1 .. Len(frames')
        BY <1>1
      <3> QED
        BY <1>1, <3>1, <3>2, OneFrame DEF Top
    <2>2. Reading' = {}
      BY <2>1 DEF Reading
    <2> QED
      BY <1>1, <1>15, <2>1, <2>2, ReadingIsTop DEF InPhase, Irq
  <1>16. CASE TimerReturns \/ TimerSwitches
    <2>1. Reading' = {} /\ UNCHANGED <<output, irr, bytes, packet, next, due>>
      BY <1>2, <1>15, <1>16 DEF TimerReturns, TimerSwitches, Irq
    <2> QED
      BY <2>1 DEF InStep
  <1>17. ASSUME NEW irq \in Irq, Return(irq) PROVE InStep'
    <2>1. frames' = <<>>
      BY <1>1, <1>17, FrameEnds DEF Return, InPhase
    <2> QED
      BY <1>2, <1>17, <2>1 DEF InStep, Return
  <1>18. ASSUME NEW irq \in {"Keyboard", "Mouse"}, InPhase(irq, "Handle"), Advance, TakeByte,
                UNCHANGED <<next, due>>, Len(bytes') + 1 = next, next # Silent,
                bytes' = SubSeq(Packet, 1, Len(bytes')), packet' \in {<<>>, Packet}
         PROVE  InStep'
    <2>1. Reading' = {} /\ Reading = {1} /\ frames[1].irq = irq
      BY <1>15, <1>18 DEF Irq
    <2>2. irq \in LineOf(output) \ irr
      BY <2>1 DEF InStep
    <2>3. LineOf(output) = {irq}
      BY <2>2, <1>3 DEF LineOf
    <2>4. irr' \ {"Timer"} = {} /\ output' = Empty
      BY <1>18, <2>2, <2>3 DEF TakeByte, InStep
    <2> QED
      BY <1>3, <1>4, <1>18, <2>1, <2>4 DEF InStep
  <1>19. CASE HandleKeyboard
    <2>1. Reading = {1} /\ frames[1].irq = "Keyboard"
      BY <1>15, <1>19 DEF HandleKeyboard, Irq
    <2>2. "Keyboard" \in LineOf(output)
      BY <2>1 DEF InStep
    <2>3. output \notin MouseByte
      BY <1>3, <2>2
    <2>4. next = Len(bytes) + 1 /\ UNCHANGED <<bytes, packet>>
      BY <1>19, <2>3 DEF HandleKeyboard, InStep
    <2> QED
      BY <1>4, <1>18, <1>19, <2>4 DEF HandleKeyboard, InStep
  <1>20. CASE HandleMouse
    <2>1. Reading = {1} /\ frames[1].irq = "Mouse"
      BY <1>15, <1>20 DEF HandleMouse, Irq
    <2>2. "Mouse" \in LineOf(output) /\ output # "Ack"
      BY <2>1 DEF InStep
    <2>3. output \in MouseByte
      BY <2>2 DEF LineOf, MouseByte, Packet
    <2>4. output = Packet[Len(bytes) + 1] /\ Read(output) /\ bytes = SubSeq(Packet, 1, Len(bytes))
      BY <1>20, <2>3 DEF HandleMouse, InStep
    <2>5. /\ bytes' = SubSeq(Packet, 1, Len(bytes')) /\ packet' \in {<<>>, Packet}
          /\ Len(bytes') = (Len(bytes) + 1) % 3
      BY <2>4, ReadInStep DEF IInv
    <2>6. Len(bytes) + 1 \in 1 .. 3
      <3>1. \A n \in 0 .. 2 : n + 1 \in 1 .. 3
        OBVIOUS
      <3> QED
        BY ONLY <1>1, <3>1
    <2>7. next = 1 + ((Len(bytes) + 1) % 3)
      BY <2>4, <2>6 DEF Reports
    <2>8. Len(bytes') + 1 = next
      BY <2>5, <2>6, <2>7
    <2> QED
      BY <1>4, <1>18, <1>20, <2>5, <2>8 DEF HandleMouse
  <1> QED
    BY <1>4, <1>6, <1>8, <1>9, <1>11, <1>12, <1>13, <1>14, <1>16, <1>17, <1>19, <1>20
    DEF Next, Devices, Answer, Handles, Acknowledge

(* Once in step with the mouse, the driver stays in step and calls the     *)
(* mouse handles with whole packets.                                       *)
THEOREM DriverStaysInStep == Spec => StaysInStep
  <1>1. ASSUME IInv, IInv', Handling, Reports, [Next]_vars PROVE [InStep => InStep']_vars
    BY <1>1, InStepKept
  <1> QED
    BY <1>1, Invariant, Served, PTL DEF Spec, StaysInStep

=============================================================================
