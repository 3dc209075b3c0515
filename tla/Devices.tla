------------------------------- MODULE Devices -------------------------------
(***************************************************************************)
(* The drivers, and the interrupts that serve them.  A behaviour is about  *)
(* one of them, named by `device': the drivers share no state, and what    *)
(* their handlers share with the rest of the kernel is in Interrupts.      *)
(***************************************************************************)
EXTENDS Keyboard, Mouse, Framebuffer, Interrupts

VARIABLE device

devicesVars == <<keyVars, mouseVars, fbVars, irqVars, device>>

DevicesInit ==
  /\ KeyInit /\ MouseInit /\ FbInit /\ IrqInit
  /\ device \in {"keyboard", "mouse", "screen", "terminal", "kernel", "memory"}
  /\ device \notin {"screen", "terminal"} => build = "release"
  /\ device # "kernel" => unmasked = {}

ProcessorStep ==
  device = "kernel" /\ Processor /\ UNCHANGED <<keyVars, mouseVars, fbVars, device>>

TimerTick ==
  device = "kernel" /\ Raise(0) /\ UNCHANGED <<keyVars, mouseVars, fbVars, device>>

DevicesNext ==
  /\ \/ device = "keyboard" /\ KeyNext      /\ UNCHANGED <<mouseVars, fbVars, irqVars>>
     \/ device = "mouse"    /\ MouseNext /\ UNCHANGED <<keyVars, fbVars, irqVars>>
     \/ device = "screen"   /\ DrawNext  /\ UNCHANGED <<keyVars, mouseVars, irqVars>>
     \/ device = "terminal" /\ TerminalNext /\ UNCHANGED <<keyVars, mouseVars, irqVars>>
     \/ device = "kernel"   /\ IrqNext   /\ UNCHANGED <<keyVars, mouseVars, fbVars>>
  /\ UNCHANGED device

DevicesSpec ==
  /\ DevicesInit /\ [][DevicesNext]_devicesVars
  /\ WF_devicesVars(ProcessorStep) /\ WF_devicesVars(TimerTick)
=============================================================================
