------------------------------ MODULE Keyboard ------------------------------
(***************************************************************************)
(* The keyboard driver of src/zarya-os/kernel/src/drivers/keyboard.rs on   *)
(* the one processor the kernel starts.  The interrupt handler runs with   *)
(* interrupts off, so it is one step; threads that call read_event and     *)
(* read_char with interrupts on take one step per shared access, and the   *)
(* handler may come between any two.  If it finds the spin lock of the     *)
(* buffer taken it spins for ever, over the very thread that holds it.     *)
(*                                                                         *)
(* Scan codes are told apart as far as the driver does: the modifiers by   *)
(* name, the other keys by how scan_code_to_char treats them.              *)
(***************************************************************************)
EXTENDS Naturals, Sequences

CONSTANTS
  Readers,       \* threads that call read_event and read_char
  BUFFER_SIZE,   \* 256 in the code; the u8 indices are taken modulo it
  Modifiers,     \* modifier keys in use
  Keys           \* kinds of other keys in use

NoReader == "no reader"
ShiftKeys == {"LSHIFT", "RSHIFT"}

ASSUME KeyboardConstants ==
  /\ BUFFER_SIZE \in Nat /\ BUFFER_SIZE >= 2
  /\ Modifiers \subseteq ShiftKeys \cup {"LCTRL", "ALT", "CAPSLOCK"}
  /\ Keys \subseteq {"letter", "symbol", "plain", "silent"}
  /\ NoReader \notin Readers

VARIABLES
  buffer,        \* KEYBOARD_BUFFER
  write_idx,     \* BUFFER_WRITE_INDEX
  read_idx,      \* BUFFER_READ_INDEX
  available,     \* KEYBOARD_AVAILABLE
  pressed,       \* SHIFT_PRESSED, CTRL_PRESSED, ALT_PRESSED and CAPS_LOCK
  lock,          \* the reader that holds the lock of the buffer, or NoReader
  hung,          \* does the handler spin on a lock that nobody can release?
  pc,            \* reader -> its next access
  wants,         \* reader -> "event" (read_event) or "char" (read_char)
  event,         \* reader -> the event it makes
  seen,          \* reader -> the read index that has_data loaded
  pending        \* the keys in the buffer as they were typed (history)

deviceVars == <<buffer, write_idx, read_idx, available, pressed, hung, pending>>
readerVars == <<lock, pc, wants, event, seen>>
keyVars == <<deviceVars, readerVars>>

ScanCodes == [key : Keys, released : BOOLEAN]
NoCode  == [key |-> "silent", released |-> TRUE]
NoEvent == [code |-> NoCode, shift |-> FALSE, typed |-> "none", disturbed |-> FALSE]

-----------------------------------------------------------------------------
(* scan_code_to_char: letters follow Shift xor Caps Lock, symbols Shift,   *)
(* some keys give the same character always, the others none.              *)
scan_code_to_char(key, shift, caps_lock) ==
  CASE key = "letter" -> IF shift # caps_lock THEN "upper" ELSE "lower"
    [] key = "symbol" -> IF shift THEN "upper" ELSE "lower"
    [] key = "plain"  -> "lower"
    [] OTHER          -> "none"

Character(code, shift, caps_lock) ==
  IF code.released THEN "none" ELSE scan_code_to_char(code.key, shift, caps_lock)

(* (idx + 1) % 256.  256 is no value of a u8, which the indices are:       *)
(* rustc refuses the literal.  Like the rest of the code that does not     *)
(* compile, the expression is taken for what it computes once it does, in  *)
(* a type that holds 256: then 255 + 1 does not overflow, and is index 0.  *)
NextIdx(i) == (i + 1) % BUFFER_SIZE

(* The flag a modifier key governs.                                        *)
Flag(key) == CASE key \in ShiftKeys -> "SHIFT" [] key = "LCTRL" -> "CTRL"
               [] key = "ALT" -> "ALT" [] key = "CAPSLOCK" -> "CAPS"

(* History: Shift or Caps Lock has changed before these keys were read.    *)
Disturb(keys) == [i \in DOMAIN keys |->
                    IF keys[i] = NoEvent THEN NoEvent ELSE [keys[i] EXCEPT !.disturbed = TRUE]]
MarkDisturbed ==
  IF pressed'["SHIFT"] # pressed["SHIFT"] \/ pressed'["CAPS"] # pressed["CAPS"]
    THEN pending' = Disturb(pending) /\ event' = Disturb(event)
    ELSE UNCHANGED <<pending, event>>

-----------------------------------------------------------------------------
(* handle_interrupt for a modifier: Caps Lock toggles when pressed (and    *)
(* again each time the key repeats), the others follow the key.  No lock.  *)
HandleModifier(key, released) ==
  /\ ~hung
  /\ pressed' = [pressed EXCEPT ![Flag(key)] =
                   IF key = "CAPSLOCK" THEN @ # ~released ELSE ~released]
  /\ MarkDisturbed
  /\ UNCHANGED <<buffer, write_idx, read_idx, available, hung, lock, pc, wants, seen>>

Typed(code) ==
  [code |-> code, typed |-> Character(code, pressed["SHIFT"], pressed["CAPS"]),
   disturbed |-> FALSE]

(* History: a queue of at most BUFFER_SIZE - 1 keys takes what it has room *)
(* for, whatever the driver does with its indices.                         *)
TypeKey(code) ==
  pending' = IF Len(pending) < BUFFER_SIZE - 1 THEN Append(pending, Typed(code)) ELSE pending

StoreAlways(code) ==
  /\ buffer' = [buffer EXCEPT ![write_idx] = code]
  /\ write_idx' = NextIdx(write_idx)
  /\ available' = TRUE

(* The scan code is stored unless that would make the indices equal.       *)
Store(code) ==
  IF NextIdx(write_idx) # read_idx
    THEN /\ buffer' = [buffer EXCEPT ![write_idx] = code]
         /\ write_idx' = NextIdx(write_idx)
         /\ available' = TRUE
    ELSE UNCHANGED <<buffer, write_idx, available>>

(* handle_interrupt for any other key: a full buffer loses the key.        *)
HandleKey(code) ==
  /\ ~hung
  /\ IF lock = NoReader
       THEN Store(code) /\ TypeKey(code) /\ UNCHANGED hung
       ELSE hung' = TRUE /\ UNCHANGED <<buffer, write_idx, available, pending>>
  /\ UNCHANGED <<read_idx, pressed, readerVars>>

-----------------------------------------------------------------------------
(* read_event or read_char begins; without KEYBOARD_AVAILABLE both return  *)
(* None at once.                                                           *)
Call(r, what) ==
  /\ ~hung /\ pc[r] = "idle"
  /\ available
  /\ wants' = [wants EXCEPT ![r] = what]
  /\ pc' = [pc EXCEPT ![r] = "lock"]
  /\ UNCHANGED <<deviceVars, lock, event, seen>>

Lock(r) ==
  /\ ~hung /\ pc[r] = "lock"
  /\ lock = NoReader
  /\ lock' = r
  /\ pc' = [pc EXCEPT ![r] = "fetch"]
  /\ UNCHANGED <<deviceVars, wants, event, seen>>

(* read_event returns and drops the guard.  read_char returns a character, *)
(* otherwise it goes on to has_data.                                       *)
Finish(r, character) ==
  /\ lock' = NoReader
  /\ event' = [event EXCEPT ![r] = NoEvent]
  /\ LET done == wants[r] = "event" \/ character # "none"
     IN  /\ pc' = [pc EXCEPT ![r] = IF done THEN "idle" ELSE "more"]
         /\ wants' = [wants EXCEPT ![r] = IF done THEN "event" ELSE @]
  /\ UNCHANGED seen

(* The buffer is empty.                                                    *)
FetchNothing(r) ==
  /\ ~hung /\ pc[r] = "fetch"
  /\ read_idx = write_idx
  /\ Finish(r, "none")
  /\ UNCHANGED deviceVars

(* The next scan code is taken; a released key has no character.           *)
Fetch(r) ==
  /\ ~hung /\ pc[r] = "fetch"
  /\ read_idx # write_idx
  /\ read_idx' = NextIdx(read_idx)
  /\ pending' = Tail(pending)
  /\ IF buffer[read_idx].released THEN Finish(r, "none")
     ELSE /\ event' = [event EXCEPT ![r] =
                        [code |-> buffer[read_idx], shift |-> FALSE,
                         typed |-> Head(pending).typed, disturbed |-> Head(pending).disturbed]]
          /\ pc' = [pc EXCEPT ![r] = "shift"]
          /\ UNCHANGED <<lock, wants, seen>>
  /\ UNCHANGED <<buffer, write_idx, available, pressed, hung>>

LoadCapsForShift(r) ==
  /\ ~hung /\ pc[r] = "shift"
  /\ event' = [event EXCEPT ![r].shift = pressed["CAPS"]]
  /\ pc' = [pc EXCEPT ![r] = "caps"]
  /\ UNCHANGED <<deviceVars, lock, wants, seen>>

LoadShift(r) ==
  /\ ~hung /\ pc[r] = "shift"
  /\ event' = [event EXCEPT ![r].shift = pressed["SHIFT"]]
  /\ pc' = [pc EXCEPT ![r] = "caps"]
  /\ UNCHANGED <<deviceVars, lock, wants, seen>>

(* The character of the event, with Caps Lock as it is now.                *)
EventChar(r) == Character(event[r].code, event[r].shift, pressed["CAPS"])

LoadCaps(r) ==
  /\ ~hung /\ pc[r] = "caps"
  /\ Finish(r, EventChar(r))
  /\ UNCHANGED deviceVars

(* has_data in read_char: two loads, then None or another turn.            *)
LoadReadIdx(r) ==
  /\ ~hung /\ pc[r] = "more"
  /\ seen' = [seen EXCEPT ![r] = read_idx]
  /\ pc' = [pc EXCEPT ![r] = "compare"]
  /\ UNCHANGED <<deviceVars, lock, wants, event>>

CompareWriteIdx(r) ==
  /\ ~hung /\ pc[r] = "compare"
  /\ pc' = [pc EXCEPT ![r] = IF seen[r] # write_idx THEN "lock" ELSE "idle"]
  /\ wants' = [wants EXCEPT ![r] = IF seen[r] # write_idx THEN @ ELSE "event"]
  /\ seen' = [seen EXCEPT ![r] = 0]
  /\ UNCHANGED <<deviceVars, lock, event>>

-----------------------------------------------------------------------------
KeyInit ==
  /\ buffer = [i \in 0 .. BUFFER_SIZE - 1 |-> NoCode]
  /\ write_idx = 0 /\ read_idx = 0
  /\ available = FALSE
  /\ pressed = [f \in {"SHIFT", "CTRL", "ALT", "CAPS"} |-> FALSE]
  /\ lock = NoReader
  /\ hung = FALSE
  /\ pc = [r \in Readers |-> "idle"]
  /\ wants = [r \in Readers |-> "event"]
  /\ event = [r \in Readers |-> NoEvent]
  /\ seen = [r \in Readers |-> 0]
  /\ pending = <<>>

KeyNext ==
  \/ \E key \in Modifiers, released \in BOOLEAN : HandleModifier(key, released)
  \/ \E code \in ScanCodes : HandleKey(code)
  \/ \E r \in Readers :
       \/ \E what \in {"event", "char"} : Call(r, what)
       \/ Lock(r) \/ FetchNothing(r) \/ Fetch(r)
       \/ LoadShift(r) \/ LoadCaps(r)
       \/ LoadReadIdx(r) \/ CompareWriteIdx(r)

KeySpec == KeyInit /\ [][KeyNext]_keyVars

-----------------------------------------------------------------------------
(* Types: indices stay inside the buffer, and the lock is held exactly     *)
(* while its reader is between its fetch and its return.                   *)
KeyTypeOK ==
  /\ buffer \in [0 .. BUFFER_SIZE - 1 -> ScanCodes \cup {NoCode}]
  /\ write_idx \in 0 .. BUFFER_SIZE - 1 /\ read_idx \in 0 .. BUFFER_SIZE - 1
  /\ available \in BOOLEAN /\ hung \in BOOLEAN
  /\ pressed \in [{"SHIFT", "CTRL", "ALT", "CAPS"} -> BOOLEAN]
  /\ \A r \in Readers : /\ pc[r] \in {"idle", "lock", "fetch", "shift", "caps", "more", "compare"}
                        /\ pc[r] \in {"fetch", "shift", "caps"} <=> lock = r

(* The ring holds the typed keys that nobody has read, in order: none is   *)
(* overwritten when it is full, dropped when it is not, read twice, or     *)
(* lost where an index wraps.                                              *)
KeysInOrder ==
  /\ write_idx = (read_idx + Len(pending)) % BUFFER_SIZE
  /\ \A i \in DOMAIN pending :
       buffer[(read_idx + i - 1) % BUFFER_SIZE] = pending[i].code

(* If no modifier has changed since a key was typed, read_event returns    *)
(* the character that was typed, although it works it out anew from flags  *)
(* that it reads later, one after the other.                               *)
CharAsTyped ==
  \A r \in Readers :
    pc[r] = "caps" /\ ~event[r].disturbed => EventChar(r) = event[r].typed
=============================================================================
