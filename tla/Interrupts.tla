----------------------------- MODULE Interrupts -----------------------------
(***************************************************************************)
(* The one processor of the kernel from kernel_main (main.rs) on: boot,    *)
(* interrupt table and PIC, handlers, the spin locks that handlers share   *)
(* with the code they interrupt, serial output, panics and hlt.  What the  *)
(* handlers do to the scheduler and the keyboard is in their own modules.  *)
(*                                                                         *)
(* `stack' holds what the processor executes, the innermost last: boot,    *)
(* then the idle loop or a thread, then handlers.  An interrupt that may   *)
(* be delivered is, before the next instruction.                           *)
(***************************************************************************)
EXTENDS Integers, Sequences, FiniteSets

CONSTANTS
  ThreadsRun,    \* does run_first_task start a thread, as documented?
  Remapped,      \* do IRQs have vectors 32..47?  (The kernel leaves them alone.)
  EnableWindow,  \* is there an instruction between sti and cli?
  Plugged,       \* IRQs that devices raise
  MESSAGE        \* bytes of a line of serial output

IRQS == {0, 1, 12}

ASSUME InterruptsConstants ==
  /\ ThreadsRun \in BOOLEAN /\ Remapped \in BOOLEAN /\ EnableWindow \in BOOLEAN
  /\ Plugged \subseteq IRQS
  /\ MESSAGE \in Nat /\ MESSAGE >= 2

VARIABLES
  stack,         \* what is executed: code, its next step, the lines and bytes
                 \* left to print, and the interrupt flag to return to
  iflag,         \* the processor's interrupt flag
  unmasked,      \* IRQs that the masks of the PIC let through
  irr, isr,      \* the PIC's pending IRQs, and those in service
  vectors,       \* vectors with an entry in the loaded table
  holder,        \* spin lock -> depth of the stack entry that holds it, or 0
  line,          \* the last byte sent: its number in its message, and by whom
  outcome        \* "running", "hung" (spinning for ever) or "panicked"

irqVars == <<stack, iflag, unmasked, irr, isr, vectors, holder, line, outcome>>
stillVars == <<unmasked, irr, isr, vectors>>

SpinLocks == {"SCHEDULER", "UART", "KEYBOARD_BUFFER"}
NoLock == "none"
Depth == Len(stack)
Top == stack[Depth]

(* printlns: how many lines the code prints before it ends.                *)
Frame(code, pc, printlns, saved) ==
  [code |-> code, pc |-> pc, lines |-> printlns, byte |-> 0, saved |-> saved]

At(code, pc) == outcome = "running" /\ Top.code = code /\ Top.pc = pc
Goto(pc) == stack' = [stack EXCEPT ![Depth].pc = pc]

-----------------------------------------------------------------------------
(* init_idt, and the vectors the PIC gives its IRQs.                       *)
Vector(irq) == IF Remapped THEN 32 + irq ELSE IF irq < 8 THEN 8 + irq ELSE 104 + irq

Entries == {3, 8, 14, 32, 33, 34}
HandlerOf(v) == CASE v = 3 -> "breakpoint" [] v = 14 -> "page_fault" [] v = 32 -> "timer"
                  [] v = 33 -> "keyboard" [] v = 34 -> "mouse" [] OTHER -> "double_fault"

(* What the processor enters for a vector: a missing entry faults, and the *)
(* missing handler of that fault makes it a double fault.                  *)
Entered(v) == IF v \in vectors THEN HandlerOf(v) ELSE "double_fault"

(* page_fault_handler prints two lines and panics, breakpoint_handler one. *)
Push(code) ==
  stack' = Append([stack EXCEPT ![Depth].pc = IF @ = "halted" THEN "enable" ELSE @],
                  Frame(code, "start",
                        CASE code \in {"page_fault", "panic"} -> 2
                          [] code = "breakpoint" -> 1 [] OTHER -> 0, iflag))

Shadowed == Top.pc = "disable" /\ ~EnableWindow

Deliverable(irq) ==
  /\ outcome = "running" /\ iflag /\ ~Shadowed
  /\ irq \in irr \cap unmasked
  /\ \A other \in isr : irq < other

Deliver ==
  \E irq \in IRQS :
    /\ Deliverable(irq) /\ \A other \in IRQS : Deliverable(other) => irq <= other
    /\ irr' = irr \ {irq} /\ isr' = isr \cup {irq}
    /\ iflag' = FALSE
    /\ Push(Entered(Vector(irq)))
    /\ UNCHANGED <<unmasked, vectors, holder, line, outcome>>

(* A device asks for an interrupt.                                         *)
Raise(irq) ==
  /\ outcome = "running"
  /\ irr' = irr \cup {irq}
  /\ UNCHANGED <<stack, iflag, unmasked, isr, vectors, holder, line, outcome>>

-----------------------------------------------------------------------------
(* kernel_main, with interrupts off: the steps that set up what handlers   *)
(* need.  run_first_task at the end is the idle loop; if it did what its   *)
(* comment says, a thread would run with interrupts on.                    *)
LoadIdt ==
  /\ At("boot", "idt") /\ Goto("mask")
  /\ vectors' = Entries
  /\ UNCHANGED <<iflag, unmasked, irr, isr, holder, line, outcome>>

MaskAll ==
  /\ At("boot", "mask") /\ Goto("unmask")
  /\ unmasked' = {}
  /\ UNCHANGED <<iflag, irr, isr, vectors, holder, line, outcome>>

(* interrupt_config: 0xf8 lets IRQs 0, 1 and 2 through, 0xef IRQ 12.       *)
Unmask ==
  /\ At("boot", "unmask") /\ Goto("run")
  /\ unmasked' = {0, 1, 12}
  /\ UNCHANGED <<iflag, irr, isr, vectors, holder, line, outcome>>

RunFirstTask ==
  /\ At("boot", "run")
  /\ stack' = << IF ThreadsRun THEN Frame("thread", "run", 0, TRUE)
                               ELSE Frame("idle", "enable", 0, TRUE) >>
  /\ iflag' = ThreadsRun
  /\ UNCHANGED <<stillVars, holder, line, outcome>>

-----------------------------------------------------------------------------
(* The loop of run_first_task, of init and of sys_sleep: enable, disable,  *)
(* hlt.  A processor that halts with interrupts off is never woken.        *)
Enable ==
  /\ outcome = "running" /\ Top.pc = "enable"
  /\ iflag' = TRUE /\ Goto("disable")
  /\ UNCHANGED <<stillVars, holder, line, outcome>>

Disable ==
  /\ outcome = "running" /\ Top.pc = "disable"
  /\ iflag' = FALSE /\ Goto("hlt")
  /\ UNCHANGED <<stillVars, holder, line, outcome>>

Hlt ==
  /\ outcome = "running" /\ Top.pc = "hlt" /\ Goto("halted")
  /\ UNCHANGED <<stillVars, iflag, holder, line, outcome>>

Asleep == Top.pc = "halted"

-----------------------------------------------------------------------------
(* A lock is taken by the innermost code.  If code under it on the stack   *)
(* holds it, that code does not run again: the processor spins for ever.   *)
Take(lock_name, pc) ==
  IF holder[lock_name] = 0
    THEN holder' = [holder EXCEPT ![lock_name] = Depth] /\ Goto(pc) /\ UNCHANGED outcome
    ELSE outcome' = "hung" /\ UNCHANGED <<stack, holder>>

(* A call of the scheduler, or of read_event, by a thread.                 *)
ThreadLock ==
  /\ At("thread", "run")
  /\ \E name \in {"SCHEDULER", "KEYBOARD_BUFFER"} : Take(name, "locked")
  /\ UNCHANGED <<stillVars, iflag, line>>

ThreadUnlock ==
  /\ At("thread", "locked") /\ Goto("run")
  /\ holder' = [name \in SpinLocks |-> IF holder[name] = Depth THEN 0 ELSE holder[name]]
  /\ UNCHANGED <<stillVars, iflag, line, outcome>>

ThreadPrint ==
  /\ At("thread", "run")
  /\ stack' = [stack EXCEPT ![Depth].pc = "print", ![Depth].lines = 1]
  /\ UNCHANGED <<stillVars, iflag, holder, line, outcome>>

ThreadSleep ==
  /\ At("thread", "run") /\ Goto("enable")
  /\ UNCHANGED <<stillVars, iflag, holder, line, outcome>>

(* A thread runs into int3 or a page fault, perhaps while it holds a lock  *)
(* or while write_fmt formats its arguments.                               *)
Exception ==
  /\ outcome = "running" /\ Top.code = "thread" /\ Top.pc \in {"run", "locked", "send"}
  /\ \E v \in {3, 14} : Push(Entered(v))
  /\ iflag' = FALSE
  /\ UNCHANGED <<stillVars, holder, line, outcome>>

-----------------------------------------------------------------------------
(* println!: write_fmt holds the lock of UART from the first byte to the   *)
(* last; send_byte sends one.                                              *)
PrintUnlocked ==
  /\ outcome = "running" /\ Top.pc = "print"
  /\ Goto("send")
  /\ UNCHANGED <<stillVars, iflag, holder, line, outcome>>

PrintLock ==
  /\ outcome = "running" /\ Top.pc = "print"
  /\ Take("UART", "send")
  /\ UNCHANGED <<stillVars, iflag, line>>

SendByte ==
  /\ outcome = "running" /\ Top.pc = "send" /\ Top.byte < MESSAGE
  /\ stack' = [stack EXCEPT ![Depth].byte = @ + 1]
  /\ line' = [byte |-> Top.byte + 1, by |-> Depth]
  /\ UNCHANGED <<stillVars, iflag, holder, outcome>>

PrintUnlock ==
  /\ outcome = "running" /\ Top.pc = "send" /\ Top.byte = MESSAGE
  /\ holder' = [holder EXCEPT !["UART"] = 0]
  /\ stack' = [stack EXCEPT ![Depth].lines = @ - 1, ![Depth].byte = 0,
                            ![Depth].pc = IF Top.code = "thread" THEN "run" ELSE "start"]
  /\ UNCHANGED <<stillVars, iflag, line, outcome>>

-----------------------------------------------------------------------------
(* The handlers.  tick takes SCHEDULER, the keyboard handler the buffer's  *)
(* lock unless the key is a modifier, the mouse handler none.              *)
HandlerLock(code) ==
  CASE code = "timer" -> {"SCHEDULER"} [] code = "keyboard" -> {"KEYBOARD_BUFFER", NoLock}
    [] OTHER -> {NoLock}

Handle ==
  /\ outcome = "running" /\ Top.code \in {"timer", "keyboard", "mouse"} /\ Top.pc = "start"
  /\ \E name \in HandlerLock(Top.code) :
       IF name = NoLock \/ holder[name] = 0 THEN Goto("eoi") /\ UNCHANGED outcome
                                            ELSE outcome' = "hung" /\ UNCHANGED stack
  /\ UNCHANGED <<stillVars, iflag, holder, line>>

NoEndOfInterrupt ==
  /\ outcome = "running" /\ Top.pc = "eoi" /\ Goto("iret")
  /\ UNCHANGED <<stillVars, iflag, holder, line, outcome>>

(* notify_end_of_interrupt for 32, 33, 34: the first PIC alone is told,    *)
(* and drops the most urgent IRQ in service.                               *)
EndOfInterrupt ==
  /\ outcome = "running" /\ Top.pc = "eoi" /\ Goto("iret")
  /\ isr' = {irq \in isr : \E other \in isr : other < irq}
  /\ UNCHANGED <<unmasked, irr, vectors, iflag, holder, line, outcome>>

(* An exception handler has lines to print, or ends.                       *)
HandleException ==
  /\ outcome = "running" /\ Top.code \in {"breakpoint", "page_fault", "panic", "double_fault"}
  /\ Top.pc = "start"
  /\ \/ /\ Top.lines > 0 /\ Goto("print") /\ UNCHANGED outcome
     \/ /\ Top.lines = 0 /\ Top.code = "breakpoint" /\ Goto("iret") /\ UNCHANGED outcome
     \/ /\ Top.lines = 0 /\ Top.code \in {"page_fault", "double_fault"}
        /\ Push("panic") /\ UNCHANGED outcome
     \/ /\ Top.lines = 0 /\ Top.code = "panic"
        /\ outcome' = "panicked" /\ UNCHANGED stack
  /\ UNCHANGED <<stillVars, iflag, holder, line>>

Iret ==
  /\ outcome = "running" /\ Top.pc = "iret"
  /\ iflag' = Top.saved
  /\ stack' = SubSeq(stack, 1, Depth - 1)
  /\ UNCHANGED <<stillVars, holder, line, outcome>>

-----------------------------------------------------------------------------
(* The loader enters kernel_main with interrupts off; the masks are what   *)
(* the firmware left.                                                      *)
IrqInit ==
  /\ stack = <<Frame("boot", "idt", 0, FALSE)>>
  /\ iflag = FALSE
  /\ unmasked \in {{}, IRQS}
  /\ irr = {} /\ isr = {} /\ vectors = {}
  /\ holder = [name \in SpinLocks |-> 0]
  /\ line = [byte |-> MESSAGE, by |-> 0]
  /\ outcome = "running"

Instruction ==
  /\ ~ \E irq \in IRQS : Deliverable(irq)
  /\ \/ LoadIdt \/ MaskAll \/ Unmask \/ RunFirstTask
     \/ Enable \/ Disable \/ Hlt
     \/ ThreadLock \/ ThreadUnlock \/ ThreadPrint \/ ThreadSleep \/ Exception
     \/ PrintLock \/ SendByte \/ PrintUnlock
     \/ Handle \/ EndOfInterrupt \/ HandleException \/ Iret

Processor == Deliver \/ Instruction

IrqNext == Processor \/ \E irq \in Plugged : Raise(irq)

(* The processor goes on executing, and the timer keeps ticking.           *)
IrqSpec ==
  /\ IrqInit /\ [][IrqNext]_irqVars
  /\ WF_irqVars(Processor) /\ (0 \in Plugged => WF_irqVars(Raise(0)))

-----------------------------------------------------------------------------
(* Types: handlers are entered with interrupts off, and the locks belong   *)
(* to code that is on the stack.                                           *)
IrqTypeOK ==
  /\ Depth >= 1 /\ iflag \in BOOLEAN
  /\ unmasked \subseteq IRQS /\ irr \subseteq IRQS /\ isr \subseteq IRQS
  /\ vectors \subseteq Entries
  /\ Depth > 1 => ~iflag
  /\ \A name \in SpinLocks : holder[name] \in 0 .. Depth
  /\ outcome \in {"running", "hung", "panicked"}

(* Lines of serial output are not mixed: write_fmt holds the lock for a    *)
(* whole line, so that a handler that prints while a line is under way     *)
(* sends nothing (it spins for ever instead).                              *)
MessagesWhole ==
  [][line' # line => IF line'.byte = 1 THEN line.byte = MESSAGE
                     ELSE line'.by = line.by /\ line'.byte = line.byte + 1]_irqVars

(* After boot a timer interrupt is served, whatever runs: the mask lets it *)
(* through, the other handlers end with EOI, interrupts come back on.  The *)
(* exceptions are a processor that is stuck, has panicked or sleeps.       *)
TimerServed ==
  (Top.code # "boot" /\ 0 \in irr) ~> (0 \notin irr \/ outcome # "running" \/ Asleep)

(* main.rs says of hlt in the idle loop that it waits for interrupts: a    *)
(* processor that sleeps there wakes up when the timer ticks.              *)
IdleWakes == (Asleep /\ 0 \in irr) ~> ~Asleep
=============================================================================
