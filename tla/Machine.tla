------------------------------- MODULE Machine -------------------------------
(***************************************************************************)
(* The drivers and the memory manager.  They share no state (the heap of   *)
(* the drivers' buffers is not modelled), so a behaviour is about one of   *)
(* them: `device' names it, or says "memory".                              *)
(***************************************************************************)
EXTENDS Devices, VirtualMemory

machineVars == <<devicesVars, vars>>

MachineInit == DevicesInit /\ Init

MachineNext ==
  \/ DevicesNext /\ UNCHANGED vars
  \/ device = "memory" /\ Next /\ UNCHANGED devicesVars

MachineProcessorStep == ProcessorStep /\ UNCHANGED vars
MachineTimerTick == TimerTick /\ UNCHANGED vars

MachineSpec ==
  /\ MachineInit /\ [][MachineNext]_machineVars
  /\ WF_machineVars(MachineProcessorStep) /\ WF_machineVars(MachineTimerTick)
=============================================================================
