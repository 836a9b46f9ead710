---------------------------- MODULE VirtualCpus ----------------------------
(***************************************************************************)
(* What the scheduler promises to the programs it runs: every context      *)
(* computes on registers of its own, as if the processor were its own      *)
(* whenever it is the runner.  Preemption is invisible: while a context is *)
(* not the runner nothing happens to its registers.  A context that has    *)
(* finished never runs again, and the context that boots the machine is    *)
(* given up at the first switch (kernel_main has no Task to be saved in).  *)
(***************************************************************************)
CONSTANTS
  Context,     \* the programs that can ever run
  Boot,        \* the one that runs first
  Fresh(_),    \* the registers a context starts with
  RegistersOf(_), \* the registers a context may have
  Finished     \* the registers of a context that will not run again

VARIABLES
  frame,       \* the registers of every context
  runner,      \* the context that computes
  born         \* the contexts that may be switched to

vars == <<frame, runner, born>>

Init ==
  /\ frame = [c \in Context |-> Fresh(c)]
  /\ runner = Boot
  /\ born = {}

(* The registers of the runner change, and no others.                      *)
Compute(result) ==
  /\ frame[runner] # Finished
  /\ frame'[runner] \in result
  /\ frame' = [frame EXCEPT ![runner] = frame'[runner]]
  /\ UNCHANGED runner

Step == Compute(RegistersOf(runner)) /\ UNCHANGED born

Finish == Compute({Finished}) /\ UNCHANGED born

(* The runner creates a context, which starts with fresh registers.        *)
Spawn(c) ==
  /\ c \notin born
  /\ frame[c] = Fresh(c)
  /\ Compute(RegistersOf(runner))
  /\ born' = born \cup {c}

(* Another context becomes the runner; all registers stay as they are,     *)
(* those of Boot excepted.                                                 *)
Switch(c) ==
  /\ c # runner
  /\ c \in born /\ frame[c] # Finished
  /\ runner' = c
  /\ frame' = IF runner = Boot THEN [frame EXCEPT ![Boot] = Finished] ELSE frame
  /\ UNCHANGED born

Next ==
  \/ Step
  \/ Finish
  \/ \E c \in Context \ {Boot} : Spawn(c) \/ Switch(c)

Spec == Init /\ [][Next]_vars

=============================================================================
