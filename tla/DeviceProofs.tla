----------------------------- MODULE DeviceProofs ----------------------------
(***************************************************************************)
(* Proofs about the drivers and the interrupts they are served by: the     *)
(* mouse's position, the ring of the keyboard and the characters made from *)
(* it, the lines on the serial port, and what is painted on the screen.    *)
(***************************************************************************)
EXTENDS Keyboard, Mouse, Framebuffer, Interrupts, SequenceTheorems, TLAPS

(* Remainders, as far as a counter that is at most one turn off needs      *)
(* them.                                                                   *)
LEMMA Remainder ==
  ASSUME NEW B \in Nat, B > 0, NEW n \in Int
  PROVE  /\ n % B \in 0 .. B - 1
         /\ n \in 0 .. B - 1 => n % B = n
         /\ n \in B .. 2 * B - 1 => n % B = n - B
         /\ n \in -B .. -1 => n % B = n + B
<1>1. n % B \in 0 .. B - 1
  OBVIOUS
<1>2. n \in 0 .. B - 1 => n % B = n
  OBVIOUS
<1>3. n \in B .. 2 * B - 1 => n % B = n - B
  OBVIOUS
<1>4. n \in -B .. -1 => n % B = n + B
  OBVIOUS
<1> QED
  BY <1>1, <1>2, <1>3, <1>4

-----------------------------------------------------------------------------
(***************************************************************************)
(* The mouse.                                                              *)
(***************************************************************************)

(* Reading the low bits as a signed number gives one of the half-open      *)
(* range around 0, and gives back a number that is in this range.          *)
LEMMA SignedRange ==
  ASSUME NEW range \in Nat, range >= 2, range % 2 = 0, NEW n \in Int
  PROVE  /\ Signed(n, range) \in -(range \div 2) .. (range \div 2) - 1
         /\ n \in -(range \div 2) .. (range \div 2) - 1 => Signed(n % range, range) = n
<1> DEFINE half == range \div 2
<1>1. half \in Nat /\ range = 2 * half
  OBVIOUS
<1>2. n % range \in 0 .. range - 1 /\ (n % range) % range = n % range
  BY Remainder
<1>3. n \in -half .. half - 1 => n % range = IF n >= 0 THEN n ELSE n + range
  <2>1. n \in 0 .. half - 1 => n \in 0 .. range - 1
    BY <1>1
  <2>2. n \in -half .. -1 => n \in -range .. -1
    BY <1>1
  <2> QED
    BY <1>1, <2>1, <2>2, Remainder
<1> HIDE DEF half
<1>4. Signed(n, range) \in -half .. half - 1
  BY <1>1, <1>2 DEF Signed, half
<1>5. n \in -half .. half - 1 => Signed(n % range, range) = n
  BY <1>1, <1>2, <1>3 DEF Signed, half
<1> QED
  BY <1>4, <1>5 DEF half

(* A motion that fits into an i8 survives its way through the byte.        *)
LEMMA MotionSurvives ==
  ASSUME NEW motion \in Int, Fits(motion)
  PROVE  AsI8AsI32(MotionByte(motion)) = motion
<1>1. BYTE \in Nat /\ BYTE >= 2 /\ BYTE % 2 = 0 /\ BYTE \div 2 \in Nat
  BY MouseConstants
<1>2. motion \in -(BYTE \div 2) .. (BYTE \div 2) - 1
  BY <1>1 DEF Fits
<1> QED
  BY <1>1, <1>2, SignedRange DEF AsI8AsI32, MotionByte

MouseInv ==
  /\ MouseTypeOK
  /\ travelled \in [Axes -> -(INT \div 2) .. (INT \div 2) - 1]
  /\ PositionIsSum

LEMMA MouseStep == MouseInv /\ [MouseNext]_mouseVars => MouseInv'
<1> SUFFICES ASSUME MouseInv, [MouseNext]_mouseVars PROVE MouseInv'
  OBVIOUS
<1> DEFINE Coordinate == -(INT \div 2) .. (INT \div 2) - 1
<1>1. /\ initialized \in BOOLEAN /\ buttons \in Holds \cup {{}}
      /\ resetting \subseteq Resetters /\ exact \subseteq Axes
      /\ position \in [Axes -> Coordinate] /\ travelled \in [Axes -> Coordinate]
      /\ \A a \in exact : position[a] = travelled[a]
  BY DEF MouseInv, MouseTypeOK, PositionIsSum
<1>2. INT \in Nat /\ INT >= 2 /\ INT % 2 = 0 /\ 0 \in Coordinate /\ Coordinate \subseteq Int
  BY MouseConstants
<1>3. \A n \in Int : AsI32(n) \in Coordinate
  BY <1>2, SignedRange DEF AsI32
<1> HIDE DEF Coordinate
<1>4. MouseTypeOK' /\ travelled' \in [Axes -> Coordinate] /\ PositionIsSum'
  <2>1. CASE UNCHANGED mouseVars
    BY <1>1, <2>1 DEF mouseVars, MouseTypeOK, PositionIsSum, Coordinate
  <2>2. CASE InitMouse
    BY <1>1, <2>2 DEF InitMouse, MouseTypeOK, PositionIsSum, Coordinate
  <2>3. ASSUME NEW motion \in [Axes -> Motions], NEW held \in Holds,
               MouseInterrupt(motion, held)
        PROVE  MouseTypeOK' /\ travelled' \in [Axes -> Coordinate] /\ PositionIsSum'
    <3>1. \A a \in Axes : motion[a] \in Int /\ AsI8AsI32(MotionByte(motion[a])) \in Int
      <4>1. BYTE \in Nat /\ BYTE >= 2 /\ BYTE % 2 = 0 /\ BYTE \div 2 \in Nat
        BY MouseConstants
      <4>2. \A m \in Int : MotionByte(m) \in Int
        BY <4>1, Remainder DEF MotionByte
      <4>3. \A n \in Int : AsI8AsI32(n) \in Int
        BY <4>1, SignedRange DEF AsI8AsI32
      <4>4. Motions \subseteq Int
        BY <4>1, MouseConstants
      <4>5. \A a \in Axes : motion[a] \in Int
        BY <4>4
      <4> QED
        BY <4>2, <4>3, <4>5
    <3>2. \A a \in Axes : /\ position[a] + Along(a, AsI8AsI32(MotionByte(motion[a]))) \in Int
                          /\ travelled[a] + Along(a, motion[a]) \in Int
      <4>1. \A a \in Axes : position[a] \in Int /\ travelled[a] \in Int
        BY <1>1, <1>2
      <4>2. \A a \in Axes : \A way \in Int : Along(a, way) \in Int
        BY DEF Along
      <4> QED
        BY <3>1, <4>1, <4>2
    <3>3. position' \in [Axes -> Coordinate] /\ travelled' \in [Axes -> Coordinate]
      BY <1>3, <2>3, <3>2 DEF MouseInterrupt
    <3>4. MouseTypeOK'
      BY <1>1, <2>3, <3>3 DEF MouseInterrupt, MouseTypeOK, Coordinate
    <3>5. ASSUME NEW a \in exact' PROVE position'[a] = travelled'[a]
      <4>1. a \in exact /\ a \in Axes /\ Fits(motion[a])
        BY <1>1, <2>3 DEF MouseInterrupt
      <4>2. AsI8AsI32(MotionByte(motion[a])) = motion[a]
        BY <3>1, <4>1, MotionSurvives
      <4> QED
        BY <1>1, <2>3, <4>1, <4>2 DEF MouseInterrupt
    <3> QED
      BY <3>3, <3>4, <3>5 DEF PositionIsSum
  <2>4. ASSUME NEW t \in Resetters, ResetX(t) \/ ResetY(t)
        PROVE  MouseTypeOK' /\ travelled' \in [Axes -> Coordinate] /\ PositionIsSum'
    <3>1. PICK axis \in Axes : StoreZero(axis)
      BY <2>4 DEF ResetX, ResetY, Axes
    <3>2. /\ position' \in [Axes -> Coordinate] /\ travelled' \in [Axes -> Coordinate]
          /\ exact' \subseteq Axes /\ PositionIsSum'
      BY <1>1, <1>2, <3>1 DEF StoreZero, PositionIsSum
    <3>3. UNCHANGED <<initialized, buttons>> /\ resetting' \subseteq Resetters
      BY <1>1, <2>4 DEF ResetX, ResetY
    <3> QED
      BY <1>1, <3>2, <3>3 DEF MouseTypeOK, Coordinate
  <2> QED
    BY <2>1, <2>2, <2>3, <2>4 DEF MouseNext
<1> QED
  BY <1>4 DEF MouseInv, Coordinate

(* For bytes and integers of any (even) number of values, any motions and  *)
(* any number of threads that reset it, the position is the sum of the     *)
(* motions since the axis was last set to 0, if all of them fitted.        *)
THEOREM MouseCorrect == MouseSpec => []MouseTypeOK /\ []PositionIsSum
<1>1. MouseInit => MouseInv
  <2>1. INT \in Nat /\ INT >= 2 /\ INT % 2 = 0
    BY MouseConstants
  <2>2. 0 \in -(INT \div 2) .. (INT \div 2) - 1
    BY <2>1
  <2> QED
    BY <2>2 DEF MouseInit, MouseInv, MouseTypeOK, PositionIsSum
<1>2. MouseInv => MouseTypeOK /\ PositionIsSum
  BY DEF MouseInv
<1> QED
  BY <1>1, <1>2, MouseStep, PTL DEF MouseSpec

-----------------------------------------------------------------------------
(***************************************************************************)
(* The keyboard.                                                           *)
(***************************************************************************)

(* Slots of the ring, counted from index a.                                *)
LEMMA RingIndex ==
  ASSUME NEW a \in 0 .. BUFFER_SIZE - 1, NEW n \in 0 .. BUFFER_SIZE - 1
  PROVE  /\ (a + n) % BUFFER_SIZE \in 0 .. BUFFER_SIZE - 1
         /\ (a + n) % BUFFER_SIZE = IF a + n < BUFFER_SIZE THEN a + n ELSE a + n - BUFFER_SIZE
         /\ a % BUFFER_SIZE = a
         /\ NextIdx(a) = IF a + 1 < BUFFER_SIZE THEN a + 1 ELSE 0
<1> DEFINE B == BUFFER_SIZE
<1>1. B \in Nat /\ B >= 2 /\ a + n \in 0 .. 2 * B - 1 /\ a + 1 \in 0 .. 2 * B - 1
  BY KeyboardConstants
<1>2. ASSUME NEW k \in 0 .. 2 * B - 1 PROVE k % B = IF k < B THEN k ELSE k - B
  BY <1>1, Remainder
<1>3. (a + n) % B = IF a + n < B THEN a + n ELSE a + n - B
  BY <1>1, <1>2
<1>4. a % B = a
  BY <1>1, <1>2
<1>5. (a + 1) % B = IF a + 1 < B THEN a + 1 ELSE 0
  <2>1. (a + 1) % B = IF a + 1 < B THEN a + 1 ELSE a + 1 - B
    BY <1>1, <1>2
  <2> QED
    BY <1>1, <2>1
<1>6. (a + n) % B \in 0 .. B - 1
  BY <1>1, <1>3
<1> QED
  BY <1>3, <1>4, <1>5, <1>6 DEF NextIdx

LEMMA RingDistinct ==
  ASSUME NEW a \in 0 .. BUFFER_SIZE - 1,
         NEW m \in 0 .. BUFFER_SIZE - 1, NEW n \in 0 .. BUFFER_SIZE - 1, m # n
  PROVE  (a + m) % BUFFER_SIZE # (a + n) % BUFFER_SIZE
<1>1. /\ (a + n) % BUFFER_SIZE = IF a + n < BUFFER_SIZE THEN a + n ELSE a + n - BUFFER_SIZE
      /\ (a + m) % BUFFER_SIZE = IF a + m < BUFFER_SIZE THEN a + m ELSE a + m - BUFFER_SIZE
  BY RingIndex
<1> QED
  BY <1>1, KeyboardConstants

LEMMA RingNext ==
  ASSUME NEW a \in 0 .. BUFFER_SIZE - 1, NEW n \in 0 .. BUFFER_SIZE - 1
  PROVE  /\ NextIdx(a) \in 0 .. BUFFER_SIZE - 1
         /\ n < BUFFER_SIZE - 1 =>
              /\ NextIdx((a + n) % BUFFER_SIZE) = (a + (n + 1)) % BUFFER_SIZE
              /\ NextIdx((a + n) % BUFFER_SIZE) # a
         /\ n = BUFFER_SIZE - 1 => NextIdx((a + n) % BUFFER_SIZE) = a
         /\ n > 0 => (NextIdx(a) + (n - 1)) % BUFFER_SIZE = (a + n) % BUFFER_SIZE
<1> DEFINE B == BUFFER_SIZE
           Slot(k) == IF k < B THEN k ELSE k - B
<1>1. B \in Nat /\ B >= 2
  BY KeyboardConstants
<1>2. ASSUME NEW k \in 0 .. 2 * B - 1 PROVE k % B = Slot(k)
  BY <1>1, Remainder
<1>3. /\ (a + n) % B = Slot(a + n) /\ NextIdx(a) = Slot(a + 1)
      /\ n < B - 1 => (a + (n + 1)) % B = Slot(a + (n + 1))
  <2>1. a + n \in 0 .. 2 * B - 1 /\ a + 1 \in 0 .. 2 * B - 1
    BY <1>1
  <2>2. n < B - 1 => a + (n + 1) \in 0 .. 2 * B - 1
    BY <1>1
  <2>3. NextIdx(a) = (a + 1) % B
    BY DEF NextIdx
  <2> HIDE DEF Slot, B
  <2> QED
    BY <1>2, <2>1, <2>2, <2>3
<1>4. Slot(a + n) \in 0 .. B - 1 /\ Slot(a + 1) \in 0 .. B - 1
  BY <1>1
<1>5. NextIdx((a + n) % B) = Slot(Slot(a + n) + 1)
  BY <1>1, <1>2, <1>3, <1>4 DEF NextIdx
<1>6. n > 0 => (NextIdx(a) + (n - 1)) % B = Slot(Slot(a + 1) + (n - 1))
  BY <1>1, <1>2, <1>3, <1>4
<1>7. /\ n < B - 1 => Slot(Slot(a + n) + 1) = Slot(a + (n + 1)) /\ Slot(Slot(a + n) + 1) # a
      /\ n = B - 1 => Slot(Slot(a + n) + 1) = a
      /\ n > 0 => Slot(Slot(a + 1) + (n - 1)) = Slot(a + n)
  BY <1>1
<1> QED
  BY <1>3, <1>4, <1>5, <1>6, <1>7

Chars    == {"upper", "lower", "none"}
KeyRec   == [code : ScanCodes, typed : Chars, disturbed : BOOLEAN]
EventRec == [code : ScanCodes \cup {NoCode}, shift : BOOLEAN, typed : Chars, disturbed : BOOLEAN]
PcSet    == {"idle", "lock", "fetch", "shift", "caps", "more", "compare"}

(* Types, with those of the history, and a queue that fits into the ring.  *)
KeyTypes ==
  /\ KeyTypeOK
  /\ pc \in [Readers -> PcSet]
  /\ pending \in Seq(KeyRec) /\ Len(pending) < BUFFER_SIZE
  /\ event \in [Readers -> EventRec]

(* What is not disturbed would give the character that was typed if it     *)
(* were read now.  A reader that has fetched a code has one of a pressed   *)
(* key, and once it has loaded Shift, Shift has not changed since.         *)
AsTypedNow(rec) == rec.typed = Character(rec.code, pressed["SHIFT"], pressed["CAPS"])
Faithful ==
  /\ \A i \in 1 .. Len(pending) : ~pending[i].disturbed => AsTypedNow(pending[i])
  /\ \A r \in Readers :
       pc[r] \in {"shift", "caps"} =>
         /\ ~event[r].code.released
         /\ ~event[r].disturbed =>
              /\ AsTypedNow(event[r])
              /\ pc[r] = "caps" => event[r].shift = pressed["SHIFT"]

KeyInv == KeyTypes /\ KeysInOrder /\ Faithful

LEMMA DisturbKeys ==
  ASSUME NEW q \in Seq(KeyRec)
  PROVE  /\ Disturb(q) \in Seq(KeyRec) /\ Len(Disturb(q)) = Len(q)
         /\ \A i \in 1 .. Len(q) : Disturb(q)[i].code = q[i].code /\ Disturb(q)[i].disturbed
<1>1. DOMAIN q = 1 .. Len(q) /\ Len(q) \in Nat
  BY LenProperties
<1>2. \A i \in 1 .. Len(q) : q[i] \in KeyRec
  BY ElementOfSeq
<1>3. \A rec \in KeyRec : rec # NoEvent
  <2>1. \A rec \in KeyRec : "shift" \notin DOMAIN rec
    BY DEF KeyRec
  <2>2. "shift" \in DOMAIN NoEvent
    BY DEF NoEvent
  <2> QED
    BY <2>1, <2>2
<1>4. Disturb(q) = [i \in 1 .. Len(q) |-> [q[i] EXCEPT !.disturbed = TRUE]]
  BY <1>1, <1>2, <1>3 DEF Disturb
<1>5. \A rec \in KeyRec : /\ [rec EXCEPT !.disturbed = TRUE] \in KeyRec
                          /\ [rec EXCEPT !.disturbed = TRUE].code = rec.code
                          /\ [rec EXCEPT !.disturbed = TRUE].disturbed
  BY DEF KeyRec
<1>6. Disturb(q) \in [1 .. Len(q) -> KeyRec]
  BY <1>2, <1>4, <1>5
<1>7. Disturb(q) \in Seq(KeyRec) /\ Len(Disturb(q)) = Len(q)
  BY <1>1, <1>6, SeqDef, LenProperties
<1> QED
  BY <1>2, <1>4, <1>5, <1>7

LEMMA DisturbEvents ==
  ASSUME NEW ev \in [Readers -> EventRec]
  PROVE  /\ Disturb(ev) \in [Readers -> EventRec]
         /\ \A r \in Readers :
              /\ Disturb(ev)[r].code = ev[r].code
              /\ ~ev[r].code.released => Disturb(ev)[r].disturbed
<1>1. NoEvent \in EventRec /\ NoEvent.code.released
  BY DEF NoEvent, EventRec, NoCode, Chars
<1>2. \A rec \in EventRec : /\ [rec EXCEPT !.disturbed = TRUE] \in EventRec
                            /\ [rec EXCEPT !.disturbed = TRUE].code = rec.code
                            /\ [rec EXCEPT !.disturbed = TRUE].disturbed
  BY DEF EventRec
<1>3. Disturb(ev) = [r \in Readers |-> IF ev[r] = NoEvent THEN NoEvent
                                       ELSE [ev[r] EXCEPT !.disturbed = TRUE]]
  BY DEF Disturb
<1> QED
  BY <1>1, <1>2, <1>3

LEMMA CharacterType ==
  ASSUME NEW code, NEW shift \in BOOLEAN, NEW caps \in BOOLEAN
  PROVE  Character(code, shift, caps) \in Chars
BY DEF Character, scan_code_to_char, Chars

(* A modifier key: flags, and what it disturbs.                            *)
LEMMA ModifierStep ==
  ASSUME KeyInv, NEW key \in Modifiers, NEW released \in BOOLEAN, HandleModifier(key, released)
  PROVE  KeyInv'
<1>1. /\ KeyTypeOK /\ pressed \in [{"SHIFT", "CTRL", "ALT", "CAPS"} -> BOOLEAN]
      /\ pc \in [Readers -> PcSet] /\ pending \in Seq(KeyRec) /\ Len(pending) < BUFFER_SIZE
      /\ event \in [Readers -> EventRec] /\ KeysInOrder /\ Faithful
  BY DEF KeyInv, KeyTypes, KeyTypeOK
<1>2. /\ UNCHANGED <<buffer, write_idx, read_idx, available, hung, lock, pc, wants, seen>>
      /\ MarkDisturbed
  BY DEF HandleModifier
<1>3. pressed' \in [{"SHIFT", "CTRL", "ALT", "CAPS"} -> BOOLEAN]
  <2>1. Flag(key) \in {"SHIFT", "CTRL", "ALT", "CAPS"}
    BY KeyboardConstants DEF Flag, ShiftKeys
  <2>2. (IF key = "CAPSLOCK" THEN pressed[Flag(key)] # ~released ELSE ~released) \in BOOLEAN
    OBVIOUS
  <2> QED
    BY <1>1, <2>1, <2>2 DEF HandleModifier
<1>4. KeyTypeOK'
  BY <1>1, <1>2, <1>3 DEF KeyTypeOK
<1>5. CASE pressed'["SHIFT"] # pressed["SHIFT"] \/ pressed'["CAPS"] # pressed["CAPS"]
  <2>1. pending' = Disturb(pending) /\ event' = Disturb(event)
    BY <1>2, <1>5 DEF MarkDisturbed
  <2>2. /\ pending' \in Seq(KeyRec) /\ Len(pending') = Len(pending)
        /\ \A i \in 1 .. Len(pending) : /\ pending'[i].code = pending[i].code
                                        /\ pending'[i].disturbed
    BY <1>1, <2>1, DisturbKeys
  <2>3. /\ event' \in [Readers -> EventRec]
        /\ \A r \in Readers : /\ event'[r].code = event[r].code
                              /\ ~event[r].code.released => event'[r].disturbed
    BY <1>1, <2>1, DisturbEvents
  <2>4. KeysInOrder'
    <3>1. DOMAIN pending = 1 .. Len(pending) /\ DOMAIN pending' = 1 .. Len(pending)
      BY <1>1, <2>2, LenProperties
    <3> QED
      BY <1>1, <1>2, <2>2, <3>1 DEF KeysInOrder
  <2>5. Faithful'
    BY <1>1, <1>2, <2>2, <2>3 DEF Faithful
  <2> QED
    BY <1>1, <1>2, <1>4, <2>2, <2>3, <2>4, <2>5 DEF KeyInv, KeyTypes
<1>6. CASE pressed'["SHIFT"] = pressed["SHIFT"] /\ pressed'["CAPS"] = pressed["CAPS"]
  <2>1. UNCHANGED <<pending, event>>
    BY <1>2, <1>6 DEF MarkDisturbed
  <2>2. KeysInOrder'
    BY <1>1, <1>2, <2>1 DEF KeysInOrder
  <2>3. Faithful'
    BY <1>1, <1>2, <1>6, <2>1 DEF Faithful, AsTypedNow
  <2> QED
    BY <1>1, <1>2, <1>4, <2>1, <2>2, <2>3 DEF KeyInv, KeyTypes
<1> QED
  BY <1>5, <1>6

(* Any other key: the ring takes it exactly if the queue has room.         *)
LEMMA KeyStep ==
  ASSUME KeyInv, NEW code \in ScanCodes, HandleKey(code)
  PROVE  KeyInv'
<1> DEFINE B == BUFFER_SIZE
           L == Len(pending)
<1>1. /\ KeyTypeOK /\ pressed \in [{"SHIFT", "CTRL", "ALT", "CAPS"} -> BOOLEAN]
      /\ buffer \in [0 .. B - 1 -> ScanCodes \cup {NoCode}]
      /\ write_idx \in 0 .. B - 1 /\ read_idx \in 0 .. B - 1
      /\ pc \in [Readers -> PcSet] /\ pending \in Seq(KeyRec) /\ L < B
      /\ event \in [Readers -> EventRec] /\ KeysInOrder /\ Faithful
  BY DEF KeyInv, KeyTypes, KeyTypeOK
<1>2. UNCHANGED <<read_idx, pressed, lock, pc, wants, event, seen>>
  BY DEF HandleKey, readerVars
<1>3. B \in Nat /\ B >= 2 /\ L \in Nat /\ DOMAIN pending = 1 .. L /\ L \in 0 .. B - 1
  <2>1. L \in Nat /\ DOMAIN pending = 1 .. L
    BY <1>1, LenProperties
  <2> QED
    BY <1>1, <2>1, KeyboardConstants
<1>4. CASE UNCHANGED <<buffer, write_idx, available, pending>> /\ hung' \in BOOLEAN
  <2>1. KeyTypeOK'
    BY <1>1, <1>2, <1>4 DEF KeyTypeOK
  <2>2. KeysInOrder' /\ Faithful'
    BY <1>1, <1>2, <1>4 DEF KeysInOrder, Faithful, AsTypedNow
  <2> QED
    BY <1>1, <1>2, <1>4, <2>1, <2>2 DEF KeyInv, KeyTypes
<1>5. CASE lock = NoReader
  <2>1. Store(code) /\ TypeKey(code) /\ hung' = hung
    BY <1>5 DEF HandleKey
  <2>2. write_idx = (read_idx + L) % B
    BY <1>1 DEF KeysInOrder
  <2>3. CASE L = B - 1
    <3>1. NextIdx(write_idx) = read_idx
      BY <1>1, <1>3, <2>2, <2>3, RingNext
    <3> QED
      BY <1>1, <1>3, <1>4, <2>1, <2>3, <3>1 DEF Store, TypeKey, KeyTypeOK
  <2>4. CASE L < B - 1
    <3>1. /\ NextIdx(write_idx) # read_idx
          /\ NextIdx(write_idx) = (read_idx + (L + 1)) % B
          /\ NextIdx(write_idx) \in 0 .. B - 1
      BY <1>1, <1>3, <2>2, <2>4, RingNext
    <3>2. /\ buffer' = [buffer EXCEPT ![write_idx] = code]
          /\ write_idx' = NextIdx(write_idx) /\ available' = TRUE
          /\ pending' = Append(pending, Typed(code))
      BY <2>1, <2>4, <3>1 DEF Store, TypeKey
    <3>3. Typed(code) \in KeyRec
      BY <1>1, CharacterType DEF Typed, KeyRec
    <3>4. /\ Typed(code).code = code
          /\ Typed(code).typed = Character(code, pressed["SHIFT"], pressed["CAPS"])
      BY DEF Typed
    <3>5. /\ pending' \in Seq(KeyRec) /\ Len(pending') = L + 1
          /\ \A i \in 1 .. L : pending'[i] = pending[i]
          /\ pending'[L + 1] = Typed(code)
          /\ DOMAIN pending' = 1 .. L + 1
      <4>1. pending' \in Seq(KeyRec)
        BY <1>1, <3>2, <3>3, AppendProperties
      <4>2. Len(pending') = L + 1 /\ \A i \in 1 .. L : pending'[i] = pending[i]
        BY <1>1, <3>2, <3>3, AppendProperties
      <4>3. pending'[L + 1] = Typed(code)
        BY <1>1, <3>2, <3>3, AppendProperties
      <4> QED
        BY <4>1, <4>2, <4>3, LenProperties
    <3>6. KeyTypeOK'
      BY <1>1, <1>2, <2>1, <3>1, <3>2 DEF KeyTypeOK
    <3>7. KeysInOrder'
      <4>1. ASSUME NEW i \in 1 .. L + 1
            PROVE  buffer'[(read_idx + i - 1) % B] = pending'[i].code
        <5>1. CASE i = L + 1
          <6>1. (read_idx + i - 1) % B = write_idx
            BY <1>1, <1>3, <2>2, <5>1
          <6> QED
            BY <1>1, <3>2, <3>4, <3>5, <5>1, <6>1
        <5>2. CASE i \in 1 .. L
          <6>1. /\ i - 1 \in 0 .. B - 1 /\ i - 1 # L
                /\ read_idx + i - 1 = read_idx + (i - 1)
            BY <1>1, <1>3, <5>2
          <6>2. /\ (read_idx + (i - 1)) % B \in 0 .. B - 1
                /\ (read_idx + (i - 1)) % B # write_idx
            <7>1. read_idx \in 0 .. BUFFER_SIZE - 1 /\ L \in 0 .. BUFFER_SIZE - 1
              BY <1>1, <1>3
            <7>2. (read_idx + (i - 1)) % B # (read_idx + L) % B
              BY <6>1, <7>1, RingDistinct
            <7>3. (read_idx + (i - 1)) % B \in 0 .. B - 1
              BY <6>1, <7>1, RingIndex
            <7> QED
              BY <2>2, <7>2, <7>3
          <6>3. buffer[(read_idx + i - 1) % B] = pending[i].code
            BY <1>1, <1>3, <5>2 DEF KeysInOrder
          <6> QED
            BY <1>1, <3>2, <3>5, <5>2, <6>1, <6>2, <6>3
        <5> QED
          BY <1>3, <5>1, <5>2
      <4> QED
        BY <1>2, <3>1, <3>2, <3>5, <4>1 DEF KeysInOrder
    <3>8. Faithful'
      BY <1>1, <1>2, <1>3, <3>4, <3>5 DEF Faithful, AsTypedNow
    <3> QED
      BY <1>1, <1>2, <1>3, <2>4, <3>5, <3>6, <3>7, <3>8 DEF KeyInv, KeyTypes
  <2> QED
    BY <1>3, <2>3, <2>4
<1> QED
  BY <1>1, <1>4, <1>5 DEF HandleKey

(* A reader that returns, or turns round in read_char, drops the lock.     *)
LEMMA FinishEffect ==
  ASSUME KeyTypes, NEW r \in Readers, pc[r] \in {"fetch", "caps"},
         NEW character, Finish(r, character)
  PROVE  /\ pc' \in [Readers -> PcSet] /\ event' \in [Readers -> EventRec]
         /\ pc'[r] \in {"idle", "more"}
         /\ \A q \in Readers : q # r => pc'[q] = pc[q] /\ event'[q] = event[q]
         /\ \A q \in Readers : pc'[q] \in {"fetch", "shift", "caps"} <=> lock' = q
<1>1. PICK p \in {"idle", "more"} : pc' = [pc EXCEPT ![r] = p]
  BY DEF Finish
<1>2. lock' = NoReader /\ event' = [event EXCEPT ![r] = NoEvent]
  BY DEF Finish
<1>3. /\ pc \in [Readers -> PcSet] /\ event \in [Readers -> EventRec]
      /\ \A q \in Readers : pc[q] \in {"fetch", "shift", "caps"} <=> lock = q
  BY DEF KeyTypes, KeyTypeOK
<1>4. NoEvent \in EventRec
  BY DEF NoEvent, EventRec, NoCode, Chars
<1>5. pc' \in [Readers -> PcSet] /\ event' \in [Readers -> EventRec]
  BY <1>1, <1>2, <1>3, <1>4 DEF PcSet
<1>6. /\ pc'[r] \in {"idle", "more"}
      /\ \A q \in Readers : q # r => pc'[q] = pc[q] /\ event'[q] = event[q]
  BY <1>1, <1>2, <1>3
<1>7. \A q \in Readers : pc'[q] \notin {"fetch", "shift", "caps"} /\ lock' # q
  BY <1>2, <1>3, <1>6, KeyboardConstants
<1> QED
  BY <1>5, <1>6, <1>7

(* A reader takes the oldest key out of the ring.                          *)
LEMMA FetchStep ==
  ASSUME KeyInv, NEW r \in Readers, Fetch(r)
  PROVE  KeyInv'
<1> DEFINE B == BUFFER_SIZE
           L == Len(pending)
<1>1. /\ KeyTypeOK /\ pressed \in [{"SHIFT", "CTRL", "ALT", "CAPS"} -> BOOLEAN]
      /\ buffer \in [0 .. B - 1 -> ScanCodes \cup {NoCode}]
      /\ write_idx \in 0 .. B - 1 /\ read_idx \in 0 .. B - 1
      /\ pc \in [Readers -> PcSet] /\ pending \in Seq(KeyRec) /\ L < B
      /\ event \in [Readers -> EventRec] /\ KeysInOrder /\ Faithful
  BY DEF KeyInv, KeyTypes, KeyTypeOK
<1>2. /\ pc[r] = "fetch" /\ read_idx # write_idx
      /\ read_idx' = NextIdx(read_idx) /\ pending' = Tail(pending)
      /\ UNCHANGED <<buffer, write_idx, available, pressed, hung>>
  BY DEF Fetch
<1>3. B \in Nat /\ B >= 2 /\ L \in Nat /\ DOMAIN pending = 1 .. L /\ L \in 0 .. B - 1
  <2>1. L \in Nat /\ DOMAIN pending = 1 .. L
    BY <1>1, LenProperties
  <2> QED
    BY <1>1, <2>1, KeyboardConstants
<1>4. write_idx = (read_idx + L) % B
  BY <1>1 DEF KeysInOrder
<1>5. L > 0
  <2>1. read_idx % B = read_idx
    BY <1>1, <1>3, RingIndex
  <2> QED
    BY <1>1, <1>2, <1>3, <1>4, <2>1
<1>6. /\ pending # <<>> /\ pending' \in Seq(KeyRec) /\ Len(pending') = L - 1
      /\ \A i \in 1 .. L - 1 : pending'[i] = pending[i + 1]
      /\ DOMAIN pending' = 1 .. L - 1
      /\ Head(pending) = pending[1] /\ pending[1] \in KeyRec
  <2>1. pending # <<>>
    BY <1>1, <1>5, EmptySeq
  <2>2. pending' \in Seq(KeyRec) /\ Len(pending') = L - 1
    BY <1>1, <1>2, <2>1, HeadTailProperties
  <2>3. \A i \in 1 .. L - 1 : pending'[i] = pending[i + 1]
    BY <1>1, <1>2, <2>1, HeadTailProperties
  <2>4. Head(pending) = pending[1] /\ pending[1] \in KeyRec
    BY <1>1, <1>3, <1>5, ElementOfSeq
  <2> QED
    BY <2>1, <2>2, <2>3, <2>4, LenProperties
<1>7. buffer[read_idx] = pending[1].code
  <2>1. read_idx + 1 - 1 = read_idx /\ read_idx % B = read_idx /\ 1 \in 1 .. L
    <3>1. read_idx + 1 - 1 = read_idx /\ 1 \in 1 .. L
      BY <1>1, <1>3, <1>5
    <3>2. read_idx % B = read_idx
      BY <1>1, <1>3, RingIndex
    <3> QED
      BY <3>1, <3>2
  <2> QED
    BY <1>1, <1>3, <2>1 DEF KeysInOrder
<1>8. KeysInOrder'
  <2>1. write_idx = (NextIdx(read_idx) + (L - 1)) % B
    BY <1>1, <1>3, <1>4, <1>5, RingNext
  <2>2. ASSUME NEW i \in 1 .. L - 1
        PROVE  buffer[(NextIdx(read_idx) + i - 1) % B] = pending[i + 1].code
    <3>1. /\ i \in 0 .. B - 1 /\ i > 0 /\ i + 1 \in 1 .. L
          /\ read_idx + (i + 1) - 1 = read_idx + i
      BY <1>1, <1>3
    <3>2. NextIdx(read_idx) \in 0 .. B - 1 /\ NextIdx(read_idx) + i - 1 = NextIdx(read_idx) + (i - 1)
      BY <1>1, <1>3, <3>1, RingNext
    <3>3. (NextIdx(read_idx) + (i - 1)) % B = (read_idx + i) % B
      BY <1>1, <3>1, RingNext
    <3>4. buffer[(read_idx + (i + 1) - 1) % B] = pending[i + 1].code
      BY <1>1, <1>3, <3>1 DEF KeysInOrder
    <3> QED
      BY <3>1, <3>2, <3>3, <3>4
  <2> QED
    BY <1>2, <1>6, <2>1, <2>2 DEF KeysInOrder
<1>9. \A i \in 1 .. Len(pending') : ~pending'[i].disturbed =>
        pending'[i].typed = Character(pending'[i].code, pressed["SHIFT"], pressed["CAPS"])
  BY <1>1, <1>2, <1>3, <1>6 DEF Faithful, AsTypedNow
<1>10. CASE buffer[read_idx].released
  <2>1. Finish(r, "none")
    BY <1>10 DEF Fetch
  <2>2. /\ pc' \in [Readers -> PcSet] /\ event' \in [Readers -> EventRec]
        /\ pc'[r] \in {"idle", "more"}
        /\ \A q \in Readers : q # r => pc'[q] = pc[q] /\ event'[q] = event[q]
        /\ \A q \in Readers : pc'[q] \in {"fetch", "shift", "caps"} <=> lock' = q
    BY <1>2, <2>1, FinishEffect DEF KeyInv
  <2>3. KeyTypeOK'
    BY <1>1, <1>2, <1>3, <2>2, RingNext DEF KeyTypeOK, PcSet
  <2>4. Faithful'
    BY <1>1, <1>2, <1>9, <2>2 DEF Faithful, AsTypedNow
  <2> QED
    BY <1>3, <1>6, <1>8, <2>2, <2>3, <2>4 DEF KeyInv, KeyTypes
<1>11. CASE ~buffer[read_idx].released
  <2> DEFINE taken == [code |-> buffer[read_idx], shift |-> FALSE,
                       typed |-> Head(pending).typed, disturbed |-> Head(pending).disturbed]
  <2>1. /\ event' = [event EXCEPT ![r] = taken] /\ pc' = [pc EXCEPT ![r] = "shift"]
        /\ lock' = lock
    BY <1>11 DEF Fetch
  <2>2. taken \in EventRec
    BY <1>1, <1>6 DEF EventRec, KeyRec
  <2>3. /\ taken.code = pending[1].code /\ taken.typed = pending[1].typed
        /\ taken.disturbed = pending[1].disturbed /\ ~taken.code.released
    BY <1>6, <1>7, <1>11
  <2>4. ~taken.disturbed => AsTypedNow(taken)
    BY <1>1, <1>3, <1>5, <2>3 DEF Faithful, AsTypedNow
  <2> HIDE DEF taken
  <2>5. /\ pc' \in [Readers -> PcSet] /\ event' \in [Readers -> EventRec]
        /\ pc'[r] = "shift" /\ event'[r] = taken
        /\ \A q \in Readers : q # r => pc'[q] = pc[q] /\ event'[q] = event[q]
    BY <1>1, <2>1, <2>2 DEF PcSet
  <2>6. \A q \in Readers : pc'[q] \in {"fetch", "shift", "caps"} <=> lock' = q
    BY <1>1, <1>2, <2>1, <2>5 DEF KeyTypeOK
  <2>7. KeyTypeOK'
    BY <1>1, <1>2, <1>3, <2>5, <2>6, RingNext DEF KeyTypeOK, PcSet
  <2>8. Faithful'
    BY <1>1, <1>2, <1>9, <2>3, <2>4, <2>5 DEF Faithful, AsTypedNow
  <2> QED
    BY <1>3, <1>6, <1>8, <2>5, <2>7, <2>8 DEF KeyInv, KeyTypes
<1> QED
  BY <1>10, <1>11

(* The other steps of a reader leave the ring alone.                       *)
LEMMA ReaderStep ==
  ASSUME KeyInv, NEW r \in Readers,
         \/ \E what \in {"event", "char"} : Call(r, what)
         \/ Lock(r) \/ FetchNothing(r) \/ LoadShift(r) \/ LoadCaps(r)
         \/ LoadReadIdx(r) \/ CompareWriteIdx(r)
  PROVE  KeyInv'
<1>1. /\ KeyTypeOK /\ pressed \in [{"SHIFT", "CTRL", "ALT", "CAPS"} -> BOOLEAN]
      /\ pc \in [Readers -> PcSet] /\ pending \in Seq(KeyRec) /\ Len(pending) < BUFFER_SIZE
      /\ event \in [Readers -> EventRec] /\ KeysInOrder /\ Faithful
  BY DEF KeyInv, KeyTypes, KeyTypeOK
<1>2. UNCHANGED <<buffer, write_idx, read_idx, available, pressed, hung, pending>>
  BY DEF Call, Lock, FetchNothing, LoadShift, LoadCaps, LoadReadIdx, CompareWriteIdx, deviceVars
<1> DEFINE OwnStep ==
      /\ pc' \in [Readers -> PcSet] /\ event' \in [Readers -> EventRec]
      /\ \A q \in Readers : pc'[q] \in {"fetch", "shift", "caps"} <=> lock' = q
      /\ \A q \in Readers : q # r => pc'[q] = pc[q] /\ event'[q] = event[q]
      /\ \/ pc'[r] \notin {"shift", "caps"}
         \/ /\ pc[r] = "shift" /\ pc'[r] = "caps" /\ event'[r].code = event[r].code
            /\ event'[r].typed = event[r].typed /\ event'[r].disturbed = event[r].disturbed
            /\ event'[r].shift = pressed["SHIFT"]
<1>3. ASSUME FetchNothing(r) \/ LoadCaps(r) PROVE OwnStep
  <2>1. pc[r] \in {"fetch", "caps"} /\ \E c : Finish(r, c)
    BY <1>3 DEF FetchNothing, LoadCaps
  <2> QED
    BY <2>1, FinishEffect DEF KeyInv
<1>4. ASSUME \/ \E what \in {"event", "char"} : Call(r, what)
             \/ LoadReadIdx(r) \/ CompareWriteIdx(r)
      PROVE  OwnStep
  <2>1. PICK p \in {"lock", "compare", "idle"} : pc' = [pc EXCEPT ![r] = p]
    BY <1>4 DEF Call, LoadReadIdx, CompareWriteIdx
  <2>2. lock' = lock /\ event' = event /\ pc[r] \notin {"fetch", "shift", "caps"}
    BY <1>4 DEF Call, LoadReadIdx, CompareWriteIdx
  <2>3. /\ pc' \in [Readers -> PcSet] /\ pc'[r] = p
        /\ \A q \in Readers : q # r => pc'[q] = pc[q]
    BY <1>1, <2>1 DEF PcSet
  <2> QED
    BY <1>1, <2>2, <2>3 DEF KeyTypeOK
<1>5. ASSUME Lock(r) PROVE OwnStep
  <2>1. pc' = [pc EXCEPT ![r] = "fetch"] /\ lock = NoReader /\ lock' = r /\ event' = event
    BY <1>5 DEF Lock
  <2>2. /\ pc' \in [Readers -> PcSet] /\ pc'[r] = "fetch"
        /\ \A q \in Readers : q # r => pc'[q] = pc[q]
    BY <1>1, <2>1 DEF PcSet
  <2> QED
    BY <1>1, <2>1, <2>2, KeyboardConstants DEF KeyTypeOK
<1>6. ASSUME LoadShift(r) PROVE OwnStep
  <2>1. /\ pc[r] = "shift" /\ pc' = [pc EXCEPT ![r] = "caps"] /\ lock' = lock
        /\ event' = [event EXCEPT ![r] = [event[r] EXCEPT !.shift = pressed["SHIFT"]]]
    BY <1>6 DEF LoadShift
  <2> DEFINE loaded == [event[r] EXCEPT !.shift = pressed["SHIFT"]]
  <2>2. /\ loaded \in EventRec /\ loaded.code = event[r].code /\ loaded.typed = event[r].typed
        /\ loaded.disturbed = event[r].disturbed /\ loaded.shift = pressed["SHIFT"]
    <3>1. event[r] \in EventRec /\ pressed["SHIFT"] \in BOOLEAN
      BY <1>1
    <3> QED
      BY <3>1 DEF EventRec
  <2> HIDE DEF loaded
  <2>3. /\ pc' \in [Readers -> PcSet] /\ event' \in [Readers -> EventRec]
        /\ pc'[r] = "caps" /\ event'[r] = loaded
        /\ \A q \in Readers : q # r => pc'[q] = pc[q] /\ event'[q] = event[q]
    BY <1>1, <2>1, <2>2 DEF PcSet, loaded
  <2> QED
    BY <1>1, <2>1, <2>2, <2>3 DEF KeyTypeOK
<1>7. OwnStep
  BY <1>3, <1>4, <1>5, <1>6
<1> HIDE DEF OwnStep
<1>8. KeyTypeOK'
  BY <1>1, <1>2, <1>7 DEF OwnStep, KeyTypeOK, PcSet
<1>9. Faithful'
  BY <1>1, <1>2, <1>7 DEF OwnStep, Faithful, AsTypedNow
<1>10. KeysInOrder'
  BY <1>1, <1>2 DEF KeysInOrder
<1> QED
  BY <1>1, <1>2, <1>7, <1>8, <1>9, <1>10 DEF KeyInv, KeyTypes, OwnStep

LEMMA KeyInvHolds == KeySpec => []KeyInv
<1>1. KeyInit => KeyInv
  <2> SUFFICES ASSUME KeyInit PROVE KeyInv
    OBVIOUS
  <2>1. pending = <<>> /\ pending \in Seq(KeyRec) /\ Len(pending) = 0
    BY DEF KeyInit
  <2>2. NoEvent \in EventRec /\ \A r \in Readers : pc[r] = "idle"
    BY DEF KeyInit, NoEvent, EventRec, NoCode, Chars
  <2>3. BUFFER_SIZE \in Nat /\ BUFFER_SIZE >= 2 /\ 0 \in 0 .. BUFFER_SIZE - 1
    BY KeyboardConstants
  <2>4. \A r \in Readers : lock # r
    BY KeyboardConstants DEF KeyInit
  <2>5. KeyTypeOK
    BY <2>2, <2>3, <2>4 DEF KeyInit, KeyTypeOK
  <2>6. KeysInOrder
    <3>1. 0 % BUFFER_SIZE = 0
      BY KeyboardConstants, Remainder
    <3> QED
      BY <2>1, <3>1 DEF KeyInit, KeysInOrder
  <2>7. Faithful
    BY <2>1, <2>2 DEF Faithful
  <2> QED
    BY <2>1, <2>2, <2>5, <2>6, <2>7, KeyboardConstants DEF KeyInit, KeyInv, KeyTypes, PcSet
<1>2. KeyInv /\ [KeyNext]_keyVars => KeyInv'
  <2> SUFFICES ASSUME KeyInv, [KeyNext]_keyVars PROVE KeyInv'
    OBVIOUS
  <2>1. CASE UNCHANGED keyVars
    BY <2>1 DEF keyVars, deviceVars, readerVars, KeyInv, KeyTypes, KeyTypeOK, KeysInOrder, Faithful, AsTypedNow
  <2>2. CASE KeyNext
    BY <2>2, ModifierStep, KeyStep, FetchStep, ReaderStep DEF KeyNext
  <2> QED
    BY <2>1, <2>2
<1> QED
  BY <1>1, <1>2, PTL DEF KeySpec

(* For a buffer of any size and any number of readers: indices and lock    *)
(* are as typed, and the ring holds the unread keys in order.              *)
THEOREM KeyboardRing == KeySpec => []KeyTypeOK /\ []KeysInOrder
<1>1. KeyInv => KeyTypeOK /\ KeysInOrder
  BY DEF KeyInv, KeyTypes
<1> QED
  BY <1>1, KeyInvHolds, PTL

(* read_event's character is the one that was typed, unless Shift or Caps  *)
(* Lock has changed since.                                                 *)
THEOREM CharactersFaithful == KeySpec => []CharAsTyped
<1>1. KeyInv => CharAsTyped
  BY DEF KeyInv, Faithful, AsTypedNow, CharAsTyped, EventChar
<1> QED
  BY <1>1, KeyInvHolds, PTL

-----------------------------------------------------------------------------
(***************************************************************************)
(* Interrupts and the serial port.                                         *)
(***************************************************************************)

BaseCodes  == {"boot", "idle", "thread"}
Handlers   == {"timer", "keyboard", "mouse", "breakpoint", "page_fault", "double_fault", "panic"}
BasePcs    == {"idt", "mask", "unmask", "run", "enable", "disable", "hlt", "halted",
               "locked", "print", "send"}
HandlerPcs == {"start", "eoi", "iret", "print", "send"}
FrameRec   == [code : BaseCodes \cup Handlers, pc : BasePcs \cup HandlerPcs,
               lines : Int, byte : 0 .. MESSAGE, saved : BOOLEAN]

(* What a stack entry may be at a depth: handlers lie on boot, idle loop   *)
(* or thread, never execute the code that turns interrupts on, and only    *)
(* the lowest of them can return to code that had them on.                 *)
FrameOK(f, i) ==
  /\ i = 1 => /\ f.code \in BaseCodes /\ f.pc \in BasePcs
              /\ f.pc \in {"print", "send"} => f.code = "thread"
  /\ i > 1 => f.code \in Handlers /\ f.pc \in HandlerPcs
  /\ i > 2 => ~f.saved

StackOK ==
  /\ stack \in Seq(FrameRec) /\ Len(stack) >= 1
  /\ \A i \in 1 .. Len(stack) : FrameOK(stack[i], i)
  /\ holder \in [SpinLocks -> Nat]
  /\ \A name \in SpinLocks \ {"UART"} : holder[name] <= 1
  /\ holder["UART"] <= Len(stack)

(* The lock of UART is held by the one entry that sends, which has sent    *)
(* the last byte itself, unless it has sent none; nobody else has begun.   *)
UartOK ==
  /\ \A i \in 1 .. Len(stack) :
       IF stack[i].pc = "send" THEN holder["UART"] = i ELSE stack[i].byte = 0 /\ holder["UART"] # i
  /\ holder["UART"] = 0 => line.byte = MESSAGE
  /\ holder["UART"] # 0 =>
       IF stack[holder["UART"]].byte = 0 THEN line.byte = MESSAGE
       ELSE line.byte = stack[holder["UART"]].byte /\ line.by = holder["UART"]


FlagsOK ==
  /\ iflag \in BOOLEAN /\ (Len(stack) > 1 => ~iflag)
  /\ unmasked \subseteq IRQS /\ irr \subseteq IRQS /\ isr \subseteq IRQS
  /\ vectors \subseteq Entries
  /\ outcome \in {"running", "hung", "panicked"}

IrqInv == FlagsOK /\ StackOK /\ UartOK

LEMMA IrqInvTypes == IrqInv => IrqTypeOK
<1> SUFFICES ASSUME IrqInv PROVE IrqTypeOK
  OBVIOUS
<1>1. Len(stack) \in Nat /\ Len(stack) >= 1
  BY LenProperties DEF IrqInv, StackOK
<1>2. \A name \in SpinLocks : holder[name] \in 0 .. Len(stack)
  BY <1>1 DEF IrqInv, StackOK, SpinLocks
<1> QED
  BY <1>1, <1>2 DEF IrqInv, IrqTypeOK, FlagsOK, Depth

LEMMA TopEntry ==
  ASSUME StackOK
  PROVE  /\ Len(stack) \in Nat /\ Len(stack) >= 1 /\ Depth = Len(stack)
         /\ \A i \in 1 .. Len(stack) : stack[i] \in FrameRec /\ FrameOK(stack[i], i)
         /\ Top = stack[Len(stack)] /\ Top \in FrameRec /\ FrameOK(Top, Len(stack))
<1>1. Len(stack) \in Nat /\ Len(stack) >= 1 /\ stack \in Seq(FrameRec)
  BY LenProperties DEF StackOK
<1>2. \A i \in 1 .. Len(stack) : stack[i] \in FrameRec /\ FrameOK(stack[i], i)
  BY <1>1, ElementOfSeq DEF StackOK
<1> QED
  BY <1>1, <1>2 DEF Depth, Top

LEMMA TopReplaced ==
  ASSUME StackOK, NEW f \in FrameRec
  PROVE  LET s == [stack EXCEPT ![Len(stack)] = f]
         IN  /\ s \in Seq(FrameRec) /\ Len(s) = Len(stack) /\ s[Len(stack)] = f
             /\ \A i \in 1 .. Len(stack) : i # Len(stack) => s[i] = stack[i]
<1>1. Len(stack) \in 1 .. Len(stack) /\ stack \in Seq(FrameRec)
  BY TopEntry DEF StackOK
<1> QED
  BY <1>1, ExceptSeq

(* The innermost code goes on without the lock of UART.                    *)
LEMMA TopMoves ==
  ASSUME StackOK, UartOK, NEW f \in FrameRec, FrameOK(f, Len(stack)),
         stack' = [stack EXCEPT ![Len(stack)] = f],
         Top.pc # "send", f.pc # "send", f.byte = 0,
         holder' \in [SpinLocks -> Nat], holder'["UART"] = holder["UART"],
         \A name \in SpinLocks \ {"UART"} : holder'[name] <= 1,
         line' = line
  PROVE  StackOK' /\ UartOK' /\ Len(stack') = Len(stack)
<1> DEFINE n == Len(stack)
<1>1. /\ stack' \in Seq(FrameRec) /\ Len(stack') = n /\ stack'[n] = f
      /\ \A i \in 1 .. n : i # n => stack'[i] = stack[i]
  BY TopReplaced
<1>2. /\ n \in Nat /\ n >= 1 /\ Top = stack[n]
      /\ \A i \in 1 .. n : FrameOK(stack[i], i)
  BY TopEntry
<1>3. holder["UART"] \in 0 .. n /\ holder["UART"] # n
  BY <1>2 DEF StackOK, UartOK, SpinLocks
<1> HIDE DEF n
<1>4. \A i \in 1 .. n : FrameOK(stack'[i], i)
  BY <1>1, <1>2 DEF n
<1>5. StackOK'
  BY <1>1, <1>2, <1>4 DEF StackOK, n
<1>6. \A i \in 1 .. n :
        IF stack'[i].pc = "send" THEN holder["UART"] = i
        ELSE stack'[i].byte = 0 /\ holder["UART"] # i
  BY <1>1, <1>2, <1>3 DEF UartOK, n
<1>7. holder["UART"] # 0 => stack'[holder["UART"]] = stack[holder["UART"]]
  BY <1>1, <1>2, <1>3
<1>8. UartOK'
  <2>1. \A i \in 1 .. Len(stack') :
          IF stack'[i].pc = "send" THEN holder'["UART"] = i
          ELSE stack'[i].byte = 0 /\ holder'["UART"] # i
    BY <1>1, <1>6
  <2>2. holder["UART"] # 0 =>
          IF stack'[holder["UART"]].byte = 0 THEN line.byte = MESSAGE
          ELSE line.byte = stack'[holder["UART"]].byte /\ line.by = holder["UART"]
    BY <1>7 DEF UartOK
  <2> QED
    BY <2>1, <2>2 DEF UartOK
<1> QED
  BY <1>1, <1>5, <1>8 DEF n

(* A handler is entered.                                                   *)
LEMMA Enters ==
  ASSUME StackOK, UartOK, NEW code \in Handlers, NEW count \in Int, iflag \in BOOLEAN,
         Len(stack) > 1 => ~iflag,
         stack' = Append([stack EXCEPT ![Depth].pc = IF @ = "halted" THEN "enable" ELSE @],
                         Frame(code, "start", count, iflag)),
         holder' = holder, line' = line
  PROVE  StackOK' /\ UartOK' /\ Len(stack') = Len(stack) + 1
<1> DEFINE n == Len(stack)
           top == [Top EXCEPT !.pc = IF @ = "halted" THEN "enable" ELSE @]
           s == [stack EXCEPT ![n] = top]
           f == Frame(code, "start", count, iflag)
<1>1. /\ n \in Nat /\ n >= 1 /\ Top = stack[n] /\ Depth = n /\ Top \in FrameRec
      /\ FrameOK(Top, n) /\ \A i \in 1 .. n : FrameOK(stack[i], i)
  BY TopEntry
<1>2. /\ top \in FrameRec /\ top.code = Top.code /\ top.byte = Top.byte /\ top.saved = Top.saved
      /\ top.pc = IF Top.pc = "halted" THEN "enable" ELSE Top.pc
  BY <1>1 DEF FrameRec, BasePcs
<1>3. FrameOK(top, n)
  BY <1>1, <1>2 DEF FrameOK, BasePcs, HandlerPcs
<1>4. /\ f \in FrameRec /\ f.code = code /\ f.pc = "start" /\ f.byte = 0 /\ f.saved = iflag
      /\ FrameOK(f, n + 1)
  <2>1. MESSAGE \in Nat /\ 0 \in 0 .. MESSAGE
    BY InterruptsConstants
  <2>2. f \in FrameRec /\ f.code = code /\ f.pc = "start" /\ f.byte = 0 /\ f.saved = iflag
    BY <2>1 DEF Frame, FrameRec, HandlerPcs
  <2> QED
    BY <1>1, <2>2 DEF FrameOK, HandlerPcs
<1>5. stack' = Append(s, f)
  BY <1>1
<1> HIDE DEF top, f
<1>6. /\ s \in Seq(FrameRec) /\ Len(s) = n /\ s[n] = top
      /\ \A i \in 1 .. n : i # n => s[i] = stack[i]
  BY <1>2, TopReplaced
<1> HIDE DEF s
<1>7. /\ stack' \in Seq(FrameRec) /\ Len(stack') = n + 1 /\ stack'[n + 1] = f
      /\ \A i \in 1 .. n : stack'[i] = s[i]
  <2>1. stack' \in Seq(FrameRec)
    <3>1. Append(s, f) \in Seq(FrameRec)
      BY <1>4, <1>6, AppendProperties
    <3> QED
      BY <1>5, <3>1
  <2>3. Len(stack') = Len(s) + 1
    BY <1>4, <1>5, <1>6, AppendProperties
  <2>2. stack'[Len(s) + 1] = f /\ \A i \in 1 .. Len(s) : stack'[i] = s[i]
    BY <1>4, <1>5, <1>6, AppendProperties
  <2> QED
    BY <1>6, <2>1, <2>2, <2>3
<1> HIDE DEF n
<1>8. \A i \in 1 .. n + 1 : FrameOK(stack'[i], i)
  <2>1. FrameOK(stack'[n + 1], n + 1)
    BY <1>4, <1>7
  <2>2. ASSUME NEW i \in 1 .. n PROVE FrameOK(stack'[i], i)
    <3>1. CASE i = n
      BY <3>1, <1>3, <1>6, <1>7
    <3>2. CASE i # n
      BY <3>2, <1>1, <1>6, <1>7
    <3> QED
      BY <3>1, <3>2
  <2>3. \A i \in 1 .. n + 1 : i \in 1 .. n \/ i = n + 1
    BY <1>1
  <2> QED
    BY <2>1, <2>2, <2>3
<1>9. holder["UART"] \in 0 .. n
  BY <1>1 DEF StackOK, SpinLocks, n
<1>10. /\ \A i \in 1 .. n : stack'[i].pc = "send" <=> stack[i].pc = "send"
       /\ \A i \in 1 .. n : stack'[i].byte = stack[i].byte
  BY <1>1, <1>2, <1>6, <1>7
<1>11. StackOK'
  <2>1. /\ holder' \in [SpinLocks -> Nat]
        /\ \A name \in SpinLocks \ {"UART"} : holder'[name] <= 1
    BY DEF StackOK
  <2>2. Len(stack') >= 1 /\ holder'["UART"] <= Len(stack')
    BY <1>1, <1>7, <1>9
  <2> QED
    BY <1>7, <1>8, <2>1, <2>2 DEF StackOK
<1>12. UartOK'
  BY <1>1, <1>4, <1>7, <1>9, <1>10 DEF UartOK, n
<1> QED
  BY <1>7, <1>11, <1>12 DEF n

(* What a step that only moves the program counter of the innermost code   *)
(* has to keep.                                                            *)
LEMMA GotoMoves ==
  ASSUME StackOK, UartOK, NEW p \in (BasePcs \cup HandlerPcs) \ {"send"}, Goto(p),
         Top.pc # "send",
         Len(stack) = 1 => p \in BasePcs /\ (p = "print" => Top.code = "thread"),
         Len(stack) > 1 => p \in HandlerPcs,
         holder' \in [SpinLocks -> Nat], holder'["UART"] = holder["UART"],
         \A name \in SpinLocks \ {"UART"} : holder'[name] <= 1,
         line' = line
  PROVE  StackOK' /\ UartOK' /\ Len(stack') = Len(stack)
<1> DEFINE n == Len(stack)
           f == [Top EXCEPT !.pc = p]
<1>1. /\ n \in Nat /\ n >= 1 /\ Top = stack[n] /\ Depth = n /\ Top \in FrameRec /\ FrameOK(Top, n)
  BY TopEntry
<1>2. /\ f \in FrameRec /\ f.pc = p /\ f.code = Top.code /\ f.byte = Top.byte
      /\ f.saved = Top.saved
  BY <1>1 DEF FrameRec
<1>3. Top.byte = 0
  BY <1>1 DEF UartOK
<1>4. stack' = [stack EXCEPT ![n] = f]
  BY <1>1 DEF Goto
<1> HIDE DEF f
<1>5. FrameOK(f, n)
  BY <1>1, <1>2 DEF FrameOK
<1> QED
  BY <1>2, <1>3, <1>4, <1>5, TopMoves

LEMMA GotoKeeps ==
  ASSUME StackOK, UartOK, NEW p \in (BasePcs \cup HandlerPcs) \ {"send"}, Goto(p),
         Top.pc # "send",
         Len(stack) = 1 => p \in BasePcs /\ (p = "print" => Top.code = "thread"),
         Len(stack) > 1 => p \in HandlerPcs,
         holder' = holder, line' = line
  PROVE  StackOK' /\ UartOK' /\ Len(stack') = Len(stack)
BY GotoMoves DEF StackOK

(* println! by the innermost code.                                         *)
LEMMA PrintSteps ==
  ASSUME StackOK, UartOK, PrintLock \/ SendByte \/ PrintUnlock
  PROVE  StackOK' /\ UartOK' /\ Len(stack') = Len(stack)
<1> DEFINE n == Len(stack)
<1>1. /\ n \in Nat /\ n >= 1 /\ Top = stack[n] /\ Depth = n /\ Top \in FrameRec /\ FrameOK(Top, n)
      /\ \A i \in 1 .. n : stack[i] \in FrameRec /\ FrameOK(stack[i], i)
  BY TopEntry
<1>2. /\ holder \in [SpinLocks -> Nat] /\ "UART" \in SpinLocks
      /\ \A name \in SpinLocks \ {"UART"} : holder[name] <= 1
      /\ MESSAGE \in Nat /\ MESSAGE >= 2
  BY InterruptsConstants DEF StackOK, SpinLocks
<1>3. ASSUME NEW f \in FrameRec, FrameOK(f, n), stack' = [stack EXCEPT ![n] = f],
             holder' \in [SpinLocks -> Nat],
             \A name \in SpinLocks \ {"UART"} : holder'[name] <= 1,
             holder'["UART"] \in {0, n},
             \A i \in 1 .. n : i # n => stack[i].pc # "send",
             IF f.pc = "send" THEN holder'["UART"] = n ELSE f.byte = 0 /\ holder'["UART"] = 0,
             IF f.byte = 0 THEN line'.byte = MESSAGE ELSE line'.byte = f.byte /\ line'.by = n
      PROVE  StackOK' /\ UartOK' /\ Len(stack') = n
  <2>1. /\ stack' \in Seq(FrameRec) /\ Len(stack') = n /\ stack'[n] = f
        /\ \A i \in 1 .. n : i # n => stack'[i] = stack[i]
    BY <1>3, TopReplaced
  <2> HIDE DEF n
  <2>2. StackOK'
    <3>1. \A i \in 1 .. n : FrameOK(stack'[i], i)
      BY <1>1, <1>3, <2>1
    <3> QED
      BY <1>1, <1>3, <2>1, <3>1 DEF StackOK
  <2>3. \A i \in 1 .. n :
          IF stack'[i].pc = "send" THEN holder'["UART"] = i
          ELSE stack'[i].byte = 0 /\ holder'["UART"] # i
    <3>1. \A i \in 1 .. n : i # n => stack[i].byte = 0 /\ holder'["UART"] # i
      BY <1>1, <1>3 DEF UartOK, n
    <3> QED
      BY <1>1, <1>3, <2>1, <3>1
  <2>4. UartOK'
    BY <1>1, <1>3, <2>1, <2>3 DEF UartOK
  <2> QED
    BY <2>1, <2>2, <2>4 DEF n
<1>4. CASE PrintLock
  <2>1. Top.pc = "print" /\ Take("UART", "send") /\ line' = line
    BY <1>4 DEF PrintLock
  <2>2. CASE holder["UART"] = 0
    <3> DEFINE f == [Top EXCEPT !.pc = "send"]
    <3>1. holder' = [holder EXCEPT !["UART"] = n] /\ stack' = [stack EXCEPT ![n] = f]
      BY <1>1, <2>1, <2>2 DEF Take, Goto
    <3>2. /\ f \in FrameRec /\ f.pc = "send" /\ f.code = Top.code /\ f.byte = Top.byte
          /\ f.saved = Top.saved
      BY <1>1 DEF FrameRec, BasePcs
    <3> HIDE DEF f
    <3>3. FrameOK(f, n)
      BY <1>1, <2>1, <3>2 DEF FrameOK, BasePcs, HandlerPcs
    <3>4. Top.byte = 0 /\ line.byte = MESSAGE
      BY <1>1, <2>1, <2>2 DEF UartOK
    <3>5. \A i \in 1 .. n : stack[i].pc # "send"
      BY <1>1, <2>2 DEF UartOK
    <3>6. /\ holder' \in [SpinLocks -> Nat] /\ holder'["UART"] = n
          /\ \A name \in SpinLocks \ {"UART"} : holder'[name] <= 1
      BY <1>1, <1>2, <3>1
    <3> QED
      BY <1>3, <2>1, <3>1, <3>2, <3>3, <3>4, <3>5, <3>6
  <2>3. CASE holder["UART"] # 0
    BY <2>1, <2>3 DEF Take, StackOK, UartOK
  <2> QED
    BY <2>2, <2>3
<1>5. ASSUME Top.pc = "send" PROVE holder["UART"] = n /\ \A i \in 1 .. n : i # n => stack[i].pc # "send"
  BY <1>1, <1>5 DEF UartOK
<1>6. CASE SendByte
  <2> DEFINE f == [Top EXCEPT !.byte = @ + 1]
  <2>1. /\ Top.pc = "send" /\ Top.byte < MESSAGE /\ holder' = holder
        /\ stack' = [stack EXCEPT ![n] = f]
        /\ line' = [byte |-> Top.byte + 1, by |-> n]
    BY <1>1, <1>6 DEF SendByte
  <2>2. /\ f \in FrameRec /\ f.pc = "send" /\ f.code = Top.code /\ f.byte = Top.byte + 1
        /\ f.saved = Top.saved /\ f.byte # 0
    <3>1. Top.byte + 1 \in 0 .. MESSAGE /\ Top.byte + 1 # 0
      BY <1>1, <1>2, <2>1 DEF FrameRec
    <3> DEFINE byte == Top.byte + 1
    <3>2. f = [Top EXCEPT !.byte = byte]
      OBVIOUS
    <3> HIDE DEF byte, f
    <3>3. byte \in 0 .. MESSAGE /\ byte # 0
      BY <3>1 DEF byte
    <3>4. f \in FrameRec /\ f.pc = Top.pc /\ f.code = Top.code /\ f.byte = byte /\ f.saved = Top.saved
      BY <1>1, <3>2, <3>3 DEF FrameRec
    <3> QED
      BY <2>1, <3>3, <3>4 DEF byte
  <2> HIDE DEF f
  <2>3. FrameOK(f, n)
    BY <1>1, <2>1, <2>2 DEF FrameOK
  <2>4. line'.byte = f.byte /\ line'.by = n
    BY <2>1, <2>2
  <2> QED
    BY <1>2, <1>3, <1>5, <2>1, <2>2, <2>3, <2>4
<1>7. CASE PrintUnlock
  <2> DEFINE f == [Top EXCEPT !.lines = @ - 1, !.byte = 0,
                              !.pc = IF Top.code = "thread" THEN "run" ELSE "start"]
  <2>1. /\ Top.pc = "send" /\ Top.byte = MESSAGE /\ line' = line
        /\ holder' = [holder EXCEPT !["UART"] = 0]
        /\ stack' = [stack EXCEPT ![n] = f]
    BY <1>1, <1>7 DEF PrintUnlock
  <2>2. /\ f \in FrameRec /\ f.code = Top.code /\ f.byte = 0 /\ f.saved = Top.saved
        /\ f.pc = IF Top.code = "thread" THEN "run" ELSE "start"
    <3> DEFINE count == Top.lines - 1
               p == IF Top.code = "thread" THEN "run" ELSE "start"
    <3>1. count \in Int /\ 0 \in 0 .. MESSAGE /\ p \in BasePcs \cup HandlerPcs
      BY <1>1, <1>2 DEF FrameRec, BasePcs, HandlerPcs
    <3>2. f = [Top EXCEPT !.lines = count, !.byte = 0, !.pc = p]
      OBVIOUS
    <3> HIDE DEF count, f, p
    <3>3. f \in FrameRec /\ f.code = Top.code /\ f.byte = 0 /\ f.saved = Top.saved /\ f.pc = p
      BY <1>1, <3>1, <3>2 DEF FrameRec
    <3> QED
      BY <3>3 DEF p
  <2> HIDE DEF f
  <2>3. FrameOK(f, n)
    BY <1>1, <2>1, <2>2 DEF FrameOK, BasePcs, HandlerPcs, BaseCodes, Handlers
  <2>4. line'.byte = MESSAGE
    BY <1>1, <1>2, <1>5, <2>1 DEF UartOK
  <2>5. /\ holder' \in [SpinLocks -> Nat] /\ holder'["UART"] = 0
        /\ \A name \in SpinLocks \ {"UART"} : holder'[name] <= 1
    BY <1>2, <2>1
  <2> QED
    BY <1>3, <1>5, <2>1, <2>2, <2>3, <2>4, <2>5
<1> QED
  BY <1>4, <1>6, <1>7

LEMMA IrqStep == IrqInv /\ [IrqNext]_irqVars => IrqInv'
<1> SUFFICES ASSUME FlagsOK, StackOK, UartOK, [IrqNext]_irqVars
             PROVE  FlagsOK' /\ StackOK' /\ UartOK'
  BY DEF IrqInv
<1> DEFINE n == Len(stack)
<1>1. /\ n \in Nat /\ n >= 1 /\ Top = stack[n] /\ Depth = n /\ Top \in FrameRec /\ FrameOK(Top, n)
  BY TopEntry
<1>2. /\ holder \in [SpinLocks -> Nat] /\ "UART" \in SpinLocks
      /\ \A name \in SpinLocks \ {"UART"} : holder[name] <= 1
      /\ MESSAGE \in Nat /\ MESSAGE >= 2
  BY InterruptsConstants DEF StackOK, SpinLocks
<1>3. ASSUME UNCHANGED <<stack, holder, line>> PROVE StackOK' /\ UartOK' /\ Len(stack') = n
  BY <1>3 DEF StackOK, UartOK
<1>4. Top.code \in BaseCodes => n = 1
  BY <1>1 DEF FrameOK, BaseCodes, Handlers
<1>5. Top.pc \in {"enable", "disable", "hlt", "halted", "run", "locked"} => n = 1
  BY <1>1 DEF FrameOK, HandlerPcs
<1>6. Top.pc \in {"start", "eoi", "iret"} => n > 1
  BY <1>1 DEF FrameOK, BasePcs
<1>7. CASE UNCHANGED irqVars
  BY <1>3, <1>7 DEF irqVars, FlagsOK
<1>8. ASSUME NEW irq \in Plugged, Raise(irq) PROVE FlagsOK' /\ StackOK' /\ UartOK'
  BY <1>3, <1>8, InterruptsConstants DEF Raise, FlagsOK
<1>9. CASE Deliver
  <2>1. PICK irq \in IRQS :
          /\ Deliverable(irq) /\ irr' = irr \ {irq} /\ isr' = isr \cup {irq} /\ iflag' = FALSE
          /\ Push(Entered(Vector(irq)))
          /\ UNCHANGED <<unmasked, vectors, holder, line, outcome>>
    BY <1>9 DEF Deliver
  <2>2. Entered(Vector(irq)) \in Handlers
    BY DEF Entered, HandlerOf, Handlers
  <2>3. StackOK' /\ UartOK'
    BY <2>1, <2>2, Enters DEF Push, FlagsOK
  <2> QED
    BY <2>1, <2>3 DEF FlagsOK
<1>10. CASE LoadIdt \/ MaskAll \/ Unmask
  <2>1. PICK p \in {"mask", "unmask", "run"} : Goto(p)
    BY <1>10 DEF LoadIdt, MaskAll, Unmask
  <2>2. /\ Top.code = "boot" /\ Top.pc \in {"idt", "mask", "unmask"}
        /\ UNCHANGED <<iflag, irr, isr, holder, line, outcome>>
        /\ vectors' \in {vectors, Entries} /\ unmasked' \in {unmasked, {}, IRQS}
    BY <1>10 DEF LoadIdt, MaskAll, Unmask, At, IRQS
  <2>3. n = 1
    BY <1>4, <2>2 DEF BaseCodes
  <2>4. StackOK' /\ UartOK' /\ Len(stack') = n
    BY <2>1, <2>2, <2>3, GotoKeeps DEF BasePcs
  <2> QED
    BY <2>2, <2>4 DEF FlagsOK
<1>11. CASE RunFirstTask
  <2> DEFINE f == IF ThreadsRun THEN Frame("thread", "run", 0, TRUE)
                                ELSE Frame("idle", "enable", 0, TRUE)
  <2>1. /\ Top.code = "boot" /\ Top.pc = "run" /\ stack' = <<f>>
        /\ UNCHANGED <<unmasked, irr, isr, vectors, holder, line, outcome>>
        /\ iflag' \in BOOLEAN
    BY <1>11, InterruptsConstants DEF RunFirstTask, At, stillVars
  <2>2. f \in FrameRec /\ FrameOK(f, 1) /\ f.pc # "send" /\ f.byte = 0
    BY <1>2 DEF Frame, FrameRec, FrameOK, BaseCodes, BasePcs, HandlerPcs
  <2> HIDE DEF f
  <2>3. stack' \in Seq(FrameRec) /\ Len(stack') = 1 /\ stack'[1] = f
    BY <2>1, <2>2
  <2>4. n = 1 /\ holder["UART"] = 0
    <3>1. n = 1
      BY <1>4, <2>1 DEF BaseCodes
    <3> QED
      BY <1>1, <1>2, <2>1, <3>1 DEF StackOK, UartOK
  <2>5. StackOK'
    BY <1>2, <2>1, <2>2, <2>3, <2>4 DEF StackOK
  <2>6. UartOK'
    BY <2>1, <2>2, <2>3, <2>4 DEF UartOK
  <2> QED
    BY <2>1, <2>3, <2>5, <2>6 DEF FlagsOK
<1>12. CASE Enable \/ Disable \/ Hlt \/ ThreadSleep
  <2>1. PICK p \in {"disable", "hlt", "halted", "enable"} : Goto(p)
    BY <1>12 DEF Enable, Disable, Hlt, ThreadSleep
  <2>2. /\ Top.pc \in {"enable", "disable", "hlt", "run"}
        /\ UNCHANGED <<unmasked, irr, isr, vectors, holder, line, outcome>>
        /\ iflag' \in BOOLEAN
    BY <1>12 DEF Enable, Disable, Hlt, ThreadSleep, At, stillVars, FlagsOK
  <2>3. StackOK' /\ UartOK' /\ Len(stack') = n
    <3>1. n = 1 /\ Top.pc # "send"
      BY <1>5, <2>2
    <3>2. p \in (BasePcs \cup HandlerPcs) \ {"send"} /\ p \in BasePcs /\ p # "print"
      BY DEF BasePcs
    <3> QED
      BY <2>1, <2>2, <3>1, <3>2, GotoKeeps
  <2> QED
    BY <1>5, <2>2, <2>3 DEF FlagsOK
<1>13. CASE ThreadLock
  <2>1. PICK name \in {"SCHEDULER", "KEYBOARD_BUFFER"} : Take(name, "locked")
    BY <1>13 DEF ThreadLock
  <2>2. /\ Top.pc = "run" /\ n = 1
        /\ UNCHANGED <<unmasked, irr, isr, vectors, line, iflag>>
    BY <1>5, <1>13 DEF ThreadLock, At, stillVars
  <2>3. CASE holder[name] = 0
    <3>1. holder' = [holder EXCEPT ![name] = 1] /\ Goto("locked") /\ outcome' = outcome
      BY <1>1, <2>1, <2>2, <2>3 DEF Take
    <3>2. /\ holder' \in [SpinLocks -> Nat] /\ holder'["UART"] = holder["UART"]
          /\ \A other \in SpinLocks \ {"UART"} : holder'[other] <= 1
      BY <1>2, <2>1, <3>1 DEF SpinLocks
    <3>3. StackOK' /\ UartOK' /\ Len(stack') = n
      BY <2>2, <3>1, <3>2, GotoMoves DEF BasePcs
    <3> QED
      BY <2>2, <3>1, <3>3 DEF FlagsOK
  <2>4. CASE holder[name] # 0
    <3>1. outcome' = "hung" /\ UNCHANGED <<stack, holder>>
      BY <2>1, <2>4 DEF Take
    <3> QED
      BY <1>3, <2>2, <3>1 DEF FlagsOK
  <2> QED
    BY <2>3, <2>4
<1>14. CASE ThreadUnlock
  <2>1. /\ Top.pc = "locked" /\ Goto("run") /\ n = 1
        /\ holder' = [name \in SpinLocks |-> IF holder[name] = n THEN 0 ELSE holder[name]]
        /\ UNCHANGED <<unmasked, irr, isr, vectors, line, iflag, outcome>>
    BY <1>1, <1>5, <1>14 DEF ThreadUnlock, At, stillVars
  <2>2. holder["UART"] # n
    BY <1>1, <2>1 DEF UartOK
  <2>3. /\ holder' \in [SpinLocks -> Nat] /\ holder'["UART"] = holder["UART"]
        /\ \A name \in SpinLocks \ {"UART"} : holder'[name] <= 1
    BY <1>2, <2>1, <2>2
  <2>4. StackOK' /\ UartOK' /\ Len(stack') = n
    BY <2>1, <2>3, GotoMoves DEF BasePcs
  <2> QED
    BY <2>1, <2>4 DEF FlagsOK
<1>15. CASE ThreadPrint
  <2> DEFINE f == [Top EXCEPT !.pc = "print", !.lines = 1]
  <2>1. /\ Top.pc = "run" /\ Top.code = "thread" /\ stack' = [stack EXCEPT ![n] = f]
        /\ UNCHANGED <<unmasked, irr, isr, vectors, line, iflag, holder, outcome>>
    BY <1>1, <1>15 DEF ThreadPrint, At, stillVars
  <2>2. /\ f \in FrameRec /\ f.pc = "print" /\ f.code = Top.code /\ f.byte = Top.byte
        /\ f.saved = Top.saved
    <3>1. "print" \in BasePcs \cup HandlerPcs /\ 1 \in Int
      BY DEF BasePcs
    <3> QED
      BY <1>1, <3>1 DEF FrameRec
  <2>3. Top.byte = 0 /\ n = 1
    <3>1. n = 1
      BY <1>5, <2>1
    <3> QED
      BY <1>1, <2>1, <3>1 DEF UartOK
  <2> HIDE DEF f
  <2>4. FrameOK(f, n)
    BY <1>1, <2>1, <2>2, <2>3 DEF FrameOK, BasePcs
  <2>5. StackOK' /\ UartOK' /\ Len(stack') = n
    BY <1>2, <2>1, <2>2, <2>3, <2>4, TopMoves
  <2> QED
    BY <2>1, <2>5 DEF FlagsOK
<1>16. CASE Exception
  <2>1. PICK v \in {3, 14} : Push(Entered(v))
    BY <1>16 DEF Exception
  <2>2. Entered(v) \in Handlers
    BY DEF Entered, HandlerOf, Handlers
  <2>3. iflag' = FALSE /\ UNCHANGED <<unmasked, irr, isr, vectors, line, holder, outcome>>
    BY <1>16 DEF Exception, stillVars
  <2>4. StackOK' /\ UartOK'
    BY <2>1, <2>2, <2>3, Enters DEF Push, FlagsOK
  <2> QED
    BY <2>3, <2>4 DEF FlagsOK
<1>17. CASE PrintLock \/ SendByte \/ PrintUnlock
  <2>1. /\ UNCHANGED <<unmasked, irr, isr, vectors, iflag>>
        /\ outcome' \in {outcome, "hung"}
    BY <1>17 DEF PrintLock, SendByte, PrintUnlock, Take, stillVars
  <2>2. StackOK' /\ UartOK' /\ Len(stack') = n
    BY <1>17, PrintSteps
  <2> QED
    BY <2>1, <2>2 DEF FlagsOK
<1>18. CASE Handle
  <2>1. /\ Top.pc = "start"
        /\ UNCHANGED <<unmasked, irr, isr, vectors, iflag, holder, line>>
        /\ \/ Goto("eoi") /\ outcome' = outcome
           \/ outcome' = "hung" /\ stack' = stack
    BY <1>18 DEF Handle, stillVars
  <2>2. StackOK' /\ UartOK' /\ Len(stack') = n
    <3>1. "eoi" \in (BasePcs \cup HandlerPcs) \ {"send"} /\ "eoi" \in HandlerPcs /\ n # 1
      BY <1>1, <1>6, <2>1 DEF HandlerPcs
    <3>2. Goto("eoi") => StackOK' /\ UartOK' /\ Len(stack') = n
      BY <2>1, <3>1, GotoKeeps
    <3> QED
      BY <1>3, <2>1, <3>2
  <2> QED
    BY <2>1, <2>2 DEF FlagsOK
<1>19. CASE EndOfInterrupt
  <2>1. /\ Top.pc = "eoi" /\ Goto("iret") /\ isr' \subseteq isr
        /\ UNCHANGED <<unmasked, irr, vectors, iflag, holder, line, outcome>>
    BY <1>19 DEF EndOfInterrupt
  <2>2. StackOK' /\ UartOK' /\ Len(stack') = n
    <3>1. "iret" \in (BasePcs \cup HandlerPcs) \ {"send"} /\ "iret" \in HandlerPcs /\ n # 1
      BY <1>1, <1>6, <2>1 DEF HandlerPcs
    <3> QED
      BY <2>1, <3>1, GotoKeeps
  <2> QED
    BY <2>1, <2>2 DEF FlagsOK
<1>20. CASE HandleException
  <2>1. /\ Top.pc = "start" /\ n > 1
        /\ UNCHANGED <<unmasked, irr, isr, vectors, iflag, holder, line>>
        /\ \/ (Goto("print") \/ Goto("iret")) /\ outcome' = outcome
           \/ Push("panic") /\ outcome' = outcome
           \/ outcome' = "panicked" /\ stack' = stack
    BY <1>6, <1>20 DEF HandleException, stillVars
  <2>2. outcome' \in {"running", "hung", "panicked"} /\ iflag = FALSE
    BY <2>1 DEF FlagsOK
  <2>3. ASSUME NEW p \in {"print", "iret"}, Goto(p) PROVE StackOK' /\ UartOK'
    <3>1. p \in (BasePcs \cup HandlerPcs) \ {"send"} /\ p \in HandlerPcs /\ n # 1
      BY <1>1, <2>1 DEF HandlerPcs
    <3> QED
      BY <2>1, <2>3, <3>1, GotoKeeps
  <2>4. ASSUME Push("panic") PROVE StackOK' /\ UartOK'
    <3>1. "panic" \in Handlers
      BY DEF Handlers
    <3> QED
      BY <2>1, <2>4, <3>1, Enters DEF Push, FlagsOK
  <2>5. StackOK' /\ UartOK'
    BY <1>3, <2>1, <2>3, <2>4
  <2> QED
    BY <2>1, <2>2, <2>5 DEF FlagsOK
<1>21. CASE Iret
  <2>1. /\ Top.pc = "iret" /\ iflag' = Top.saved /\ stack' = SubSeq(stack, 1, n - 1)
        /\ UNCHANGED <<unmasked, irr, isr, vectors, holder, line, outcome>>
    BY <1>1, <1>21 DEF Iret, stillVars
  <2>2. n > 1 /\ holder["UART"] # n
    BY <1>1, <1>6, <2>1 DEF UartOK
  <2>3. /\ stack' \in Seq(FrameRec) /\ Len(stack') = n - 1
        /\ \A i \in 1 .. n - 1 : stack'[i] = stack[i]
    <3>1. stack \in Seq(FrameRec) /\ 1 \in 1 .. Len(stack) + 1 /\ n - 1 \in 0 .. Len(stack)
      BY <1>1 DEF StackOK
    <3>2. stack' \in Seq(FrameRec)
      BY <2>1, <3>1, SubSeqProperties
    <3>3. Len(stack') = n - 1
      BY <1>1, <2>1, <2>2, <3>1, SubSeqProperties
    <3>4. \A i \in 1 .. n - 1 : stack'[i] = stack[i]
      BY <1>1, <2>1, <2>2, <3>1, SubSeqProperties
    <3> QED
      BY <3>2, <3>3, <3>4
  <2>4. StackOK'
    <3>1. \A i \in 1 .. n - 1 : FrameOK(stack'[i], i)
      BY <1>1, <2>3 DEF StackOK
    <3>2. holder["UART"] \in Nat /\ holder["UART"] <= n - 1 /\ n - 1 >= 1
      BY <1>1, <1>2, <2>2 DEF StackOK
    <3> QED
      BY <1>2, <2>1, <2>3, <3>1, <3>2 DEF StackOK
  <2>5. UartOK'
    <3>1. holder["UART"] \in 0 .. n - 1
      BY <1>1, <1>2, <2>2 DEF StackOK
    <3> QED
      BY <1>1, <2>1, <2>3, <3>1 DEF UartOK
  <2>6. iflag' \in BOOLEAN /\ (n - 1 > 1 => ~iflag')
    BY <1>1, <2>1 DEF FrameRec, FrameOK
  <2> QED
    BY <2>1, <2>3, <2>4, <2>5, <2>6 DEF FlagsOK
<1> QED
  BY <1>7, <1>8, <1>9, <1>10, <1>11, <1>12, <1>13, <1>14, <1>15, <1>16, <1>17, <1>18, <1>19,
     <1>20, <1>21 DEF IrqNext, Processor, Instruction

LEMMA IrqInvHolds == IrqSpec => []IrqInv
<1>1. IrqInit => IrqInv
  <2> SUFFICES ASSUME IrqInit PROVE IrqInv
    OBVIOUS
  <2> DEFINE f == Frame("boot", "idt", 0, FALSE)
  <2>1. MESSAGE \in Nat /\ 0 \in 0 .. MESSAGE
    BY InterruptsConstants
  <2>2. f \in FrameRec /\ FrameOK(f, 1) /\ f.pc # "send" /\ f.byte = 0
    BY <2>1 DEF Frame, FrameRec, FrameOK, BaseCodes, BasePcs
  <2>3. stack = <<f>>
    BY DEF IrqInit
  <2> HIDE DEF f
  <2>4. stack \in Seq(FrameRec) /\ Len(stack) = 1 /\ stack[1] = f
    BY <2>2, <2>3
  <2>5. holder = [name \in SpinLocks |-> 0] /\ "UART" \in SpinLocks /\ line.byte = MESSAGE
    BY DEF IrqInit, SpinLocks
  <2>6. StackOK
    BY <2>2, <2>4, <2>5 DEF StackOK
  <2>7. UartOK
    BY <2>2, <2>4, <2>5 DEF UartOK
  <2>8. FlagsOK
    BY <2>4 DEF IrqInit, FlagsOK
  <2> QED
    BY <2>6, <2>7, <2>8 DEF IrqInv
<1>2. IrqSpec => IrqInit /\ [][IrqNext]_irqVars
  BY PTL DEF IrqSpec
<1> QED
  BY <1>1, <1>2, IrqStep, PTL

(* However the PIC is set up, whatever runs and whatever is plugged in:    *)
(* handlers run with interrupts off, and locks belong to code that is on   *)
(* the stack.                                                              *)
THEOREM InterruptsTypeCorrect == IrqSpec => []IrqTypeOK
BY IrqInvHolds, IrqInvTypes, PTL

(* Lines of any length reach the serial port whole.                        *)
THEOREM LinesWhole == IrqSpec => MessagesWhole
<1> DEFINE Whole == line' # line => IF line'.byte = 1 THEN line.byte = MESSAGE
                                    ELSE line'.by = line.by /\ line'.byte = line.byte + 1
<1>1. IrqInv /\ [IrqNext]_irqVars => [Whole]_irqVars
  <2> SUFFICES ASSUME IrqInv, IrqNext, line' # line
               PROVE  IF line'.byte = 1 THEN line.byte = MESSAGE
                      ELSE line'.by = line.by /\ line'.byte = line.byte + 1
    BY DEF irqVars
  <2>1. SendByte
    BY DEF IrqNext, Processor, Deliver, Instruction, Raise, LoadIdt, MaskAll, Unmask,
           RunFirstTask, Enable, Disable, Hlt, ThreadLock, ThreadUnlock, ThreadPrint,
           ThreadSleep, Exception, PrintLock, PrintUnlock, Handle, EndOfInterrupt,
           HandleException, Iret
  <2>2. /\ Len(stack) \in Nat /\ Len(stack) >= 1 /\ Depth = Len(stack)
        /\ Top = stack[Len(stack)] /\ Top \in FrameRec
    BY TopEntry DEF IrqInv
  <2>3. Top.pc = "send" /\ line' = [byte |-> Top.byte + 1, by |-> Len(stack)]
    BY <2>1, <2>2 DEF SendByte
  <2>4. holder["UART"] = Len(stack)
    BY <2>2, <2>3 DEF IrqInv, UartOK
  <2>5. Top.byte \in Nat
    BY <2>2, InterruptsConstants DEF FrameRec
  <2>6. IF Top.byte = 0 THEN line.byte = MESSAGE
        ELSE line.byte = Top.byte /\ line.by = Len(stack)
    BY <2>2, <2>4 DEF IrqInv, UartOK
  <2> QED
    BY <2>3, <2>5, <2>6
<1>2. IrqSpec => [][IrqNext]_irqVars
  BY PTL DEF IrqSpec
<1> QED
  BY <1>1, <1>2, IrqInvHolds, PTL DEF MessagesWhole

-----------------------------------------------------------------------------
(***************************************************************************)
(* The framebuffer.                                                        *)
(***************************************************************************)

(* Products grow with their factors.                                      *)
LEMMA Times ==
  ASSUME NEW k \in Nat, NEW a \in Int, NEW b \in Int, a <= b
  PROVE  k * a <= k * b
OBVIOUS

(* ... by whole factors.                                                   *)
LEMMA TimesMore ==
  ASSUME NEW k \in Nat, NEW a \in Int, NEW b \in Int, a < b
  PROVE  k * a + k <= k * b
<1>1. k * (a + 1) <= k * b
  BY Times
<1> QED
  BY <1>1

(* Division with remainder,                                                *)
LEMMA DivMod ==
  ASSUME NEW w \in Nat \ {0}, NEW n \in Nat
  PROVE  /\ n \div w \in Nat /\ n % w \in 0 .. w - 1
         /\ n = w * (n \div w) + (n % w)
OBVIOUS

(* ... which is unique.                                                    *)
LEMMA DivModUnique ==
  ASSUME NEW w \in Nat \ {0}, NEW q \in Nat, NEW r \in 0 .. w - 1
  PROVE  /\ (w * q + r) \div w = q
         /\ (w * q + r) % w = r
OBVIOUS

(* A point that is less than 2^32 from the screen.                         *)
Near(p) ==
  /\ p \in Int \X Int
  /\ p[1] >= Width - U32 /\ p[1] < U32
  /\ p[2] >= Height - U32 /\ p[2] < U32

(* set_pixel's coordinates modulo 2^32 hit the screen only where the exact *)
(* ones do.                                                                *)
LEMMA Wrapped ==
  ASSUME NEW n \in Int, NEW L \in Nat, L <= U32, n >= L - U32, n < U32
  PROVE  /\ n \in 0 .. L - 1 => n % U32 = n
         /\ n % U32 \in 0 .. L - 1 => n % U32 = n
<1>0. U32 \in Nat
  BY FramebufferConstants
<1>1. U32 > 0
  BY <1>0
<1>2. n % U32 = IF n >= 0 THEN n ELSE n + U32
  BY <1>0, <1>1, Remainder
<1> QED
  BY <1>0, <1>2

(* ... so that a point ends up at its place or nowhere.                    *)
LEMMA Clipped ==
  ASSUME NEW p, Near(p)
  PROVE  /\ p \in Screen => <<p[1] % U32, p[2] % U32>> = p
         /\ <<p[1] % U32, p[2] % U32>> \in Screen => <<p[1] % U32, p[2] % U32>> = p
<1>0. /\ Width \in Nat /\ Height \in Nat /\ U32 \in Nat
      /\ Width <= U32 /\ Height <= U32
  BY FramebufferConstants
<1>1. p[1] \in Int /\ p[2] \in Int /\ p = <<p[1], p[2]>>
  BY DEF Near
<1>2. /\ p[1] \in 0 .. Width - 1 => p[1] % U32 = p[1]
      /\ p[1] % U32 \in 0 .. Width - 1 => p[1] % U32 = p[1]
  BY <1>0, <1>1, Wrapped DEF Near
<1>3. /\ p[2] \in 0 .. Height - 1 => p[2] % U32 = p[2]
      /\ p[2] % U32 \in 0 .. Height - 1 => p[2] % U32 = p[2]
  BY <1>0, <1>1, Wrapped DEF Near
<1> QED
  BY <1>1, <1>2, <1>3 DEF Screen

(* set_pixel for a list of points near the screen, whose set is S: all of  *)
(* them are painted, as far as they are on the screen, unless the build    *)
(* panics over a negative coordinate; and nothing else is.                 *)
LEMMA SetPixelsEffect ==
  ASSUME NEW points, NEW S, S = {points[i] : i \in DOMAIN points},
         \A p \in S : Near(p), SetPixels(points)
  PROVE  /\ painted \subseteq painted' /\ painted' \subseteq painted \cup (S \cap Screen)
         /\ aborted' \in BOOLEAN
         /\ ~aborted' => S \cap Screen \subseteq painted'
         /\ aborted' => \E p \in S : p[1] < 0 \/ p[2] < 0
<1> DEFINE stops == {i \in DOMAIN points : build = "dev" /\ ~InRange(points[i])}
           done  == {i \in DOMAIN points : \A s \in stops : i < s}
           hit   == {<<points[i][1] % U32, points[i][2] % U32>> : i \in done}
<1>1. painted' = painted \cup (hit \cap Screen) /\ aborted' = (stops # {})
  BY DEF SetPixels
<1>2. \A i \in DOMAIN points : points[i] \in S /\ Near(points[i])
  OBVIOUS
<1>3. hit \cap Screen \subseteq S
  <2> SUFFICES ASSUME NEW i \in done, <<points[i][1] % U32, points[i][2] % U32>> \in Screen
               PROVE  <<points[i][1] % U32, points[i][2] % U32>> \in S
    OBVIOUS
  <2> QED
    BY <1>2, Clipped
<1>4. ASSUME stops = {} PROVE S \cap Screen \subseteq hit
  <2> SUFFICES ASSUME NEW i \in DOMAIN points, points[i] \in Screen
               PROVE  points[i] \in hit
    OBVIOUS
  <2>1. points[i] = <<points[i][1] % U32, points[i][2] % U32>>
    BY <1>2, Clipped
  <2>2. i \in done
    BY <1>4
  <2> HIDE DEF done
  <2> QED
    BY <2>1, <2>2
<1>5. ASSUME stops # {} PROVE \E p \in S : p[1] < 0 \/ p[2] < 0
  <2>1. PICK i \in DOMAIN points : ~InRange(points[i])
    BY <1>5
  <2>2. U32 \in Nat
    BY FramebufferConstants
  <2>3. points[i][1] < 0 \/ points[i][2] < 0
    BY <1>2, <2>1, <2>2 DEF Near, InRange
  <2> QED
    BY <1>2, <2>3
<1> HIDE DEF stops, hit
<1> QED
  BY <1>1, <1>3, <1>4, <1>5

-----------------------------------------------------------------------------
(* Rectangles.                                                             *)
(* A rectangle all of whose points are near the screen.                    *)
NearRects ==
  {rect \in [x : Int, y : Int, width : Nat, height : Nat] :
     /\ rect.x >= Width - U32 /\ rect.x + rect.width <= U32
     /\ rect.y >= Height - U32 /\ rect.y + rect.height <= U32}

(* draw_rect's two loops visit the pixels of the rectangle.                *)
LEMMA PointsAreArea ==
  ASSUME NEW rect \in NearRects
  PROVE  /\ Block(rect) = {PointsOf(rect)[i] : i \in DOMAIN PointsOf(rect)}
         /\ \A p \in Block(rect) : Near(p)
<1> DEFINE w == rect.width
           h == rect.height
           x == rect.x
           y == rect.y
           points == PointsOf(rect)
<1>1. /\ w \in Nat /\ h \in Nat /\ x \in Int /\ y \in Int
      /\ x >= Width - U32 /\ x + w <= U32
      /\ y >= Height - U32 /\ y + h <= U32
  BY DEF NearRects
<1>2. /\ points = [i \in 1 .. w * h |-> <<x + ((i - 1) % w), y + ((i - 1) \div w)>>]
      /\ Block(rect) = (x .. x + w - 1) \X (y .. y + h - 1)
  BY DEF PointsOf, Block
<1>0. Width \in Nat /\ Height \in Nat /\ U32 \in Nat
  BY FramebufferConstants
<1> HIDE DEF w, h, x, y, points
<1>3. ASSUME NEW p \in Block(rect) PROVE Near(p)
  BY <1>0, <1>1, <1>2, <1>3 DEF Near
<1>4. ASSUME NEW i \in 1 .. w * h PROVE points[i] \in Block(rect)
  <2>1. w * h \in Nat /\ i - 1 \in Nat /\ i - 1 < w * h
    BY <1>1
  <2>2. w > 0
    BY <1>1, <2>1
  <2>3. /\ (i - 1) \div w \in Nat /\ (i - 1) % w \in 0 .. w - 1
        /\ i - 1 = w * ((i - 1) \div w) + ((i - 1) % w)
    <3>1. w \in Nat \ {0} /\ i - 1 \in Nat
      BY <1>1, <2>1, <2>2
    <3> QED
      BY <3>1, DivMod
  <2> DEFINE q == (i - 1) \div w
  <2> HIDE DEF q
  <2>4. q \in Nat /\ w * q <= i - 1
    BY <2>1, <2>3, <1>1 DEF q
  <2>5. q < h
    <3>1. h <= q => w * h <= w * q
      BY <1>1, <2>4, Times
    <3> QED
      BY <3>1, <2>1, <2>4, <1>1
  <2>6. points[i] = <<x + ((i - 1) % w), y + q>>
    BY <1>2 DEF q
  <2>7. x + ((i - 1) % w) \in x .. x + w - 1
    BY <2>3, <1>1
  <2>8. y + q \in y .. y + h - 1
    BY <2>4, <2>5, <1>1
  <2> QED
    BY <2>6, <2>7, <2>8, <1>2
<1>5. ASSUME NEW p \in Block(rect) PROVE \E i \in 1 .. w * h : points[i] = p
  <2> DEFINE a == p[1] - x
             b == p[2] - y
             i == w * b + a + 1
  <2>1. a \in 0 .. w - 1 /\ b \in 0 .. h - 1 /\ p = <<x + a, y + b>>
    BY <1>1, <1>2
  <2> HIDE DEF a, b
  <2>2. w * b + w <= w * h
    BY <2>1, <1>1, TimesMore
  <2>3. w * b \in Nat
    BY <2>1, <1>1
  <2>4. i \in 1 .. w * h /\ i - 1 = w * b + a
    BY <2>1, <2>2, <2>3, <1>1
  <2>5. (w * b + a) \div w = b /\ (w * b + a) % w = a
    <3>1. w \in Nat \ {0} /\ b \in Nat /\ a \in 0 .. w - 1
      BY <2>1, <1>1
    <3> QED
      BY <3>1, DivModUnique
  <2> HIDE DEF i
  <2>6. points[i] = <<x + a, y + b>>
    BY <2>4, <2>5, <1>2
  <2> QED
    BY <2>1, <2>4, <2>6
<1>6. DOMAIN points = 1 .. w * h
  BY <1>2
<1> QED
  BY <1>3, <1>4, <1>5, <1>6 DEF points

(* The calls stay near the screen.                                         *)
LEMMA CallsAreNear ==
  ASSUME NEW x \in Coords, NEW y \in Coords, NEW rects \in Calls(x, y)
  PROVE  rects \in Seq(NearRects)
<1>1. /\ x \in Nat /\ y \in Nat /\ Sizes \subseteq Nat
      /\ Width \in Nat /\ Height \in Nat /\ U32 \in Nat
      /\ \A s \in Sizes : x + 8 * s + 8 + Width + Height < U32
      /\ \A s \in Sizes : y + 8 * s + 8 + Width + Height < U32
  BY FramebufferConstants
<1>r. ASSUME NEW a \in Int, NEW b \in Int, NEW w \in Nat, NEW h \in Nat,
             a >= Width - U32, a + w <= U32, b >= Height - U32, b + h <= U32
      PROVE  Rect(a, b, w, h) \in NearRects
  BY <1>r DEF Rect, NearRects
<1>2. ASSUME NEW w \in Sizes, NEW h \in Sizes, rects = <<Rect(x, y, w, h)>>
      PROVE  rects \in Seq(NearRects)
  <2>1. Rect(x, y, w, h) \in NearRects
    BY <1>1, <1>r
  <2> QED
    BY <2>1, <1>2
<1>3. ASSUME NEW n \in Sizes, rects = <<Rect(x, y, n, 1)>> \/ rects = <<Rect(x, y, 1, n)>>
      PROVE  rects \in Seq(NearRects)
  <2>1. Rect(x, y, n, 1) \in NearRects
    BY <1>1, <1>r
  <2>2. Rect(x, y, 1, n) \in NearRects
    BY <1>1, <1>r
  <2>3. <<Rect(x, y, n, 1)>> \in Seq(NearRects) /\ <<Rect(x, y, 1, n)>> \in Seq(NearRects)
    BY <2>1, <2>2
  <2> QED
    BY <2>3, <1>3
<1>4. ASSUME NEW n \in Sizes, rects = Text(2, x, y, n)
      PROVE  rects \in Seq(NearRects)
  <2> DEFINE half == n \div 2
  <2>1. half \in Nat /\ 2 * half <= n
    BY <1>1
  <2> HIDE DEF half
  <2>2. ASSUME NEW i \in 1 .. 2
        PROVE  Rect(x + (i - 1) * (half + 4), y, half, n) \in NearRects
    <3>1. i = 1 \/ i = 2
      OBVIOUS
    <3>2. (i - 1) * (half + 4) \in 0 .. half + 4
      BY <3>1, <2>1
    <3>3. x + (i - 1) * (half + 4) \in Nat
      BY <3>2, <2>1, <1>1
    <3>4. x + (i - 1) * (half + 4) + half <= U32
      BY <3>2, <2>1, <1>1
    <3> DEFINE a == x + (i - 1) * (half + 4)
    <3> HIDE DEF a
    <3>5. a \in Int /\ a >= Width - U32 /\ a + half <= U32
      BY <3>3, <3>4, <1>1 DEF a
    <3>6. y >= Height - U32 /\ y + n <= U32 /\ n \in Nat
      BY <1>1
    <3>7. Rect(a, y, half, n) \in NearRects
      BY <3>5, <3>6, <2>1, <1>1, <1>r
    <3> QED
      BY <3>7 DEF a
  <2>3. rects = [i \in 1 .. 2 |-> Rect(x + (i - 1) * (half + 4), y, half, n)]
    BY <1>4 DEF Text, half
  <2> QED
    BY <2>2, <2>3
<1>5. ASSUME NEW n \in Sizes, NEW b \in Sizes, rects = Shadow(x, y, n, 1, b)
      PROVE  rects \in Seq(NearRects)
  <2>1. ASSUME NEW i \in 1 .. b
        PROVE  Rect(x - (i - 1), y + 1 + (i - 1), n + 2 * (i - 1), 1) \in NearRects
    <3>1. i - 1 \in Nat /\ i - 1 < b /\ b \in Nat /\ n \in Nat
      BY <1>1
    <3>2. /\ x + 8 * b + 8 + Width + Height < U32
          /\ x + 8 * n + 8 + Width + Height < U32
          /\ y + 8 * b + 8 + Width + Height < U32
      BY <1>1
    <3> DEFINE k == i - 1
    <3> HIDE DEF k
    <3>3. k \in Nat /\ k < b
      BY <3>1 DEF k
    <3>4. /\ x - k \in Int /\ x - k >= Width - U32 /\ (x - k) + (n + 2 * k) <= U32
          /\ y + 1 + k \in Int /\ y + 1 + k >= Height - U32 /\ (y + 1 + k) + 1 <= U32
          /\ n + 2 * k \in Nat
      BY <3>1, <3>2, <3>3, <1>1
    <3>5. Rect(x - k, y + 1 + k, n + 2 * k, 1) \in NearRects
      BY <3>4, <1>r
    <3> QED
      BY <3>5 DEF k
  <2>2. b \in Nat
    BY <1>1
  <2>3. rects = [i \in 1 .. b |-> Rect(x - (i - 1), y + 1 + (i - 1), n + 2 * (i - 1), 1)]
    BY <1>5 DEF Shadow
  <2> QED
    BY <2>1, <2>2, <2>3
<1> QED
  BY <1>2, <1>3, <1>4, <1>5 DEF Calls
-----------------------------------------------------------------------------
(* Circles.                                                                *)

(* Twice the square of the radius, taken from the squares of the distances *)
(* of (a, b) and of (a, b - 1): positive where (a, b - 1) is nearer to the *)
(* circle, negative where (a, b) is.                                       *)
Lean(a, b, r) == 2 * (a * a) + b * b + (b - 1) * (b - 1) - 2 * (r * r)

(* What d is changed by in draw_circle.                                    *)
LEMMA LeanSteps ==
  ASSUME NEW a \in Int, NEW b \in Int, NEW r \in Int
  PROVE  /\ Lean(a, b, r) \in Int
         /\ Lean(a + 1, b, r) = Lean(a, b, r) + 4 * a + 2
         /\ Lean(a, b + 1, r) = Lean(a, b, r) + 4 * b
         /\ Lean(a, b - 1, r) = Lean(a, b, r) - 4 * b + 4
BY DEF Lean

(* Two neighbours are never equally near.                                  *)
LEMMA LeanOdd ==
  ASSUME NEW a \in Int, NEW b \in Int, NEW r \in Int
  PROVE  Lean(a, b, r) # 0
<1>1. Lean(a, b, r) = 2 * (a * a + b * b - b - r * r) + 1
  BY DEF Lean
<1>2. a * a + b * b - b - r * r \in Int
  OBVIOUS
<1>3. \A k \in Int : 2 * k + 1 # 0
  OBVIOUS
<1> QED
  BY <1>1, <1>2, <1>3

(* Squares grow with the number.                                           *)
LEMMA Squares ==
  ASSUME NEW a \in Nat, NEW b \in Nat, a <= b
  PROVE  a * a <= b * b /\ (a < b => a * a < b * b)
OBVIOUS

(* Of two numbers, the lower one is nearer to 0 just if their sum is not   *)
(* negative.                                                               *)
LEMMA NearerToZero ==
  ASSUME NEW u \in Int, NEW v \in Int, v < u
  PROVE  (Abs(u) <= Abs(v) <=> u + v <= 0) /\ (Abs(v) <= Abs(u) <=> u + v >= 0)
BY DEF Abs

(* Lean grows to the right and upwards.                                    *)
LEMMA LeanGrows ==
  ASSUME NEW a \in Nat, NEW c \in Nat, NEW b \in Nat \ {0}, NEW e \in Nat, NEW r \in Nat,
         a <= c, b <= e
  PROVE  Lean(a, b, r) <= Lean(c, e, r)
<1>1. a * a <= c * c /\ b * b <= e * e
  BY Squares
<1>2. (b - 1) * (b - 1) <= (e - 1) * (e - 1)
  BY Squares
<1> QED
  BY <1>1, <1>2 DEF Lean

(* In its column, the point of the octant is the one where Lean changes    *)
(* its sign: it is nearer to the circle than both of its neighbours, and   *)
(* the error grows in both directions.                                     *)
LEMMA OctantBySign ==
  ASSUME NEW r \in Nat, NEW a \in Nat, NEW b \in Nat
  PROVE  <<a, b>> \in Octant(r) <=>
           /\ a <= b /\ b <= r
           /\ b = 0 \/ Lean(a, b, r) <= 0
           /\ b = r \/ Lean(a, b + 1, r) >= 0
<1> DEFINE f(k) == a * a + k * k - r * r
<1>1. \A k \in Nat : f(k) \in Int /\ Error(a, k, r) = Abs(f(k))
  BY DEF Error
<1>2. \A k, m \in Nat : k < m => f(k) < f(m)
  BY Squares
<1>3. Lean(a, b + 1, r) = f(b) + f(b + 1)
  BY DEF Lean
<1>4. b # 0 => Lean(a, b, r) = f(b - 1) + f(b)
  BY DEF Lean
<1>5. <<a, b>> \in Octant(r) <=>
        a <= b /\ b <= r /\ \A k \in 0 .. r : Abs(f(b)) <= Abs(f(k))
  <2>1. <<a, b>> \in Octant(r) <=>
          a \in 0 .. r /\ b \in 0 .. r /\ a <= b
            /\ \A k \in 0 .. r : Error(a, b, r) <= Error(a, k, r)
    BY DEF Octant
  <2> HIDE DEF f
  <2> QED
    BY <2>1, <1>1
<1> HIDE DEF f
<1>6. ASSUME a <= b, b <= r, \A k \in 0 .. r : Abs(f(b)) <= Abs(f(k))
      PROVE  /\ b = 0 \/ Lean(a, b, r) <= 0
             /\ b = r \/ Lean(a, b + 1, r) >= 0
  <2>1. ASSUME b # 0 PROVE Lean(a, b, r) <= 0
    <3>1. b - 1 \in 0 .. r /\ b - 1 \in Nat
      BY <1>6, <2>1
    <3>2. f(b - 1) < f(b) /\ Abs(f(b)) <= Abs(f(b - 1))
      BY <1>2, <1>6, <3>1
    <3>3. f(b) + f(b - 1) <= 0
      BY <3>1, <3>2, <1>1, NearerToZero
    <3> QED
      BY <3>1, <3>3, <1>1, <1>4, <2>1
  <2>2. ASSUME b # r PROVE Lean(a, b + 1, r) >= 0
    <3>1. b + 1 \in 0 .. r /\ b + 1 \in Nat
      BY <1>6, <2>2
    <3>2. f(b) < f(b + 1) /\ Abs(f(b)) <= Abs(f(b + 1))
      BY <1>2, <1>6, <3>1
    <3>3. f(b + 1) + f(b) >= 0
      BY <3>1, <3>2, <1>1, NearerToZero
    <3> QED
      BY <3>1, <3>3, <1>1, <1>3
  <2> QED
    BY <2>1, <2>2
<1>7. ASSUME a <= b, b <= r,
             b = 0 \/ Lean(a, b, r) <= 0, b = r \/ Lean(a, b + 1, r) >= 0,
             NEW k \in 0 .. r
      PROVE  Abs(f(b)) <= Abs(f(k))
  <2>1. CASE k < b
    <3>1. b - 1 \in Nat /\ k \in Nat /\ b # 0
      BY <2>1
    <3>2. f(k) <= f(b - 1)
      <4>1. k = b - 1 \/ k < b - 1
        BY <2>1, <3>1
      <4> QED
        BY <4>1, <3>1, <1>1, <1>2
    <3>3. f(b - 1) + f(b) <= 0
      BY <3>1, <1>4, <1>7
    <3>4. f(k) < f(b) /\ f(k) + f(b) <= 0
      BY <2>1, <3>1, <3>2, <3>3, <1>1, <1>2
    <3> QED
      BY <3>1, <3>4, <1>1, NearerToZero
  <2>2. CASE k > b
    <3>1. b + 1 \in Nat /\ k \in Nat /\ b # r
      BY <2>2, <1>7
    <3>2. f(b + 1) <= f(k)
      <4>1. k = b + 1 \/ b + 1 < k
        BY <2>2, <3>1
      <4> QED
        BY <4>1, <3>1, <1>1, <1>2
    <3>3. f(b) + f(b + 1) >= 0
      BY <3>1, <1>3, <1>7
    <3>4. f(b) < f(k) /\ f(k) + f(b) >= 0
      BY <2>2, <3>1, <3>2, <3>3, <1>1, <1>2
    <3> QED
      BY <3>1, <3>4, <1>1, NearerToZero
  <2>3. CASE k = b
    BY <2>3, <1>1 DEF Abs
  <2> QED
    BY <2>1, <2>2, <2>3
<1> QED
  BY <1>5, <1>6, <1>7

(* The octant has one point in a column: Lean is odd, so that two points   *)
(* are never equally near.                                                 *)
LEMMA OctantUnique ==
  ASSUME NEW r \in Nat, NEW a \in Nat, NEW b \in Nat, NEW e \in Nat,
         <<a, b>> \in Octant(r), <<a, e>> \in Octant(r)
  PROVE  b = e
<1>1. ASSUME NEW m \in Nat, NEW n \in Nat, m < n,
             <<a, m>> \in Octant(r), <<a, n>> \in Octant(r)
      PROVE  FALSE
  <2>1. m # r /\ n # 0
    BY <1>1, OctantBySign
  <2>2. Lean(a, m + 1, r) >= 0 /\ Lean(a, n, r) <= 0
    BY <1>1, <2>1, OctantBySign
  <2>3. Lean(a, m + 1, r) <= Lean(a, n, r)
    BY <1>1, LeanGrows
  <2>4. Lean(a, n, r) # 0 /\ Lean(a, n, r) \in Int /\ Lean(a, m + 1, r) \in Int
    <3>1. a \in Int /\ n \in Int /\ m + 1 \in Int /\ r \in Int
      OBVIOUS
    <3> QED
      BY <3>1, LeanOdd, LeanSteps
  <2> QED
    BY <2>2, <2>3, <2>4
<1> QED
  BY <1>1
(* draw_circle between two turns of its loop: at the octant's point of     *)
(* column x, with d as the sign of the choice in the next column.          *)
AtTurn(c) ==
  /\ c \in [cx : Coords, cy : Coords, radius : Radii, x : Nat, y : Nat, d : Int]
  /\ <<c.x, c.y>> \in Octant(c.radius)
  /\ c.d = Lean(c.x + 1, c.y, c.radius)

(* The loop begins at the top of the circle.                               *)
LEMMA CircleBegins ==
  ASSUME NEW cx \in Coords, NEW cy \in Coords, NEW radius \in Radii
  PROVE  AtTurn([cx |-> cx, cy |-> cy, radius |-> radius,
                 x |-> 0, y |-> radius, d |-> 3 - 2 * radius])
<1>1. radius \in Nat
  BY FramebufferConstants
<1>2. Lean(0, radius, radius) = 1 - 2 * radius
  BY <1>1 DEF Lean
<1>3. Lean(0 + 1, radius, radius) = 3 - 2 * radius
  BY <1>1 DEF Lean
<1>4. <<0, radius>> \in Octant(radius)
  <2>1. radius = 0 \/ Lean(0, radius, radius) <= 0
    BY <1>1, <1>2
  <2> QED
    BY <1>1, <2>1, OctantBySign
<1> QED
  BY <1>1, <1>3, <1>4 DEF AtTurn

(* A turn of the loop: as long as it goes on, it is at the octant's point  *)
(* of the next column, and when it ends no column to the right has one.    *)
LEMMA CircleGoesOn ==
  ASSUME NEW c, AtTurn(c)
  PROVE  LET next == CircleStep(c)
         IN  /\ next.cx = c.cx /\ next.cy = c.cy /\ next.radius = c.radius
             /\ next.x = c.x + 1
             /\ next.y >= next.x => AtTurn(next)
             /\ \A o \in Octant(c.radius) :
                  o[1] >= c.x /\ o # <<c.x, c.y>> => o[1] >= next.x /\ next.y >= next.x
<1> DEFINE x == c.x
           y == c.y
           r == c.radius
           next == CircleStep(c)
           up == IF c.d > 0 THEN y - 1 ELSE y
           e == IF c.d > 0 THEN c.d + 4 * (x - y) + 10 ELSE c.d + 4 * x + 6
<1>1. /\ x \in Nat /\ y \in Nat /\ r \in Nat /\ c.d \in Int
      /\ c \in [cx : Coords, cy : Coords, radius : Radii, x : Nat, y : Nat, d : Int]
      /\ <<x, y>> \in Octant(r)
      /\ c.d = Lean(x + 1, y, r)
  BY FramebufferConstants DEF AtTurn
<1>2. /\ next = [c EXCEPT !.d = e, !.y = up, !.x = x + 1]
  <2>1. CASE c.d > 0
    BY <2>1, <1>1 DEF CircleStep
  <2>2. CASE ~(c.d > 0)
    BY <2>2, <1>1 DEF CircleStep
  <2> QED
    BY <2>1, <2>2
<1>3. /\ next.cx = c.cx /\ next.cy = c.cy /\ next.radius = r
      /\ next.x = x + 1 /\ next.y = up /\ next.d = e
  BY <1>1, <1>2
<1>4. /\ x <= y /\ y <= r
      /\ y = 0 \/ Lean(x, y, r) <= 0
      /\ y = r \/ Lean(x, y + 1, r) >= 0
  BY <1>1, OctantBySign
<1>5. up \in Int /\ e \in Int /\ up <= y /\ y - 1 <= up
  BY <1>1
<1>z. /\ x \in Int /\ y \in Int /\ r \in Int
      /\ x + 1 \in Int /\ x + 1 + 1 \in Int /\ y + 1 \in Int
  BY <1>1
<1> HIDE DEF x, y, r, next, up, e
<1>6. e = Lean(x + 1 + 1, up, r)
  <2>1. Lean(x + 1 + 1, y, r) = Lean(x + 1, y, r) + 4 * (x + 1) + 2
    BY <1>z, LeanSteps
  <2>2. Lean(x + 1 + 1, y - 1, r) = Lean(x + 1 + 1, y, r) - 4 * y + 4
    BY <1>z, LeanSteps
  <2> QED
    BY <1>1, <2>1, <2>2 DEF e, up
<1>7. /\ Lean(x, y, r) \in Int /\ Lean(x, y + 1, r) \in Int
      /\ Lean(x + 1, y, r) = Lean(x, y, r) + 4 * x + 2
      /\ Lean(x + 1, y + 1, r) = Lean(x, y + 1, r) + 4 * x + 2
      /\ Lean(x + 1, y - 1, r) = Lean(x + 1, y, r) - 4 * y + 4
  BY <1>z, LeanSteps
<1>8. ASSUME up >= x + 1 PROVE AtTurn(next)
  <2>1. up \in Nat /\ up # 0 /\ x + 1 \in Nat /\ y # 0
    BY <1>1, <1>5, <1>8
  <2>2. Lean(x + 1, up, r) <= 0
    BY <1>1, <1>4, <1>7, <1>8, <2>1 DEF up
  <2>3. up = r \/ Lean(x + 1, up + 1, r) >= 0
    <3>1. CASE c.d > 0
      <4>1. up + 1 = y
        BY <3>1, <1>1 DEF up
      <4> QED
        BY <4>1, <3>1, <1>1
    <3>2. CASE ~(c.d > 0)
      BY <3>2, <1>1, <1>4, <1>7 DEF up
    <3> QED
      BY <3>1, <3>2
  <2>4. <<x + 1, up>> \in Octant(r)
    <3>1. x + 1 <= up /\ up <= r
      BY <1>1, <1>4, <1>5, <1>8
    <3> QED
      BY <3>1, <2>1, <2>2, <2>3, <1>1, OctantBySign
  <2>5. next \in [cx : Coords, cy : Coords, radius : Radii, x : Nat, y : Nat, d : Int]
    BY <2>1, <1>1, <1>2, <1>5
  <2> QED
    BY <2>4, <2>5, <1>3, <1>6 DEF AtTurn
<1>9. ASSUME NEW o \in Octant(r), o[1] >= x, o # <<x, y>>
      PROVE  o[1] >= x + 1 /\ up >= x + 1
  <2>1. PICK a \in Nat, b \in Nat : o = <<a, b>>
    BY <1>1 DEF Octant
  <2>2. /\ a <= b /\ b <= r /\ a >= x
        /\ b = 0 \/ Lean(a, b, r) <= 0
    BY <2>1, <1>1, <1>9, OctantBySign
  <2>3. a # x
    BY <2>1, <1>1, <1>9, OctantUnique
  <2>4. a >= x + 1
    BY <2>2, <2>3, <1>1
  <2>5. ASSUME up < x + 1 PROVE FALSE
    <3>1. up + 1 <= b /\ b # 0 /\ up # r /\ Lean(a, b, r) <= 0
      BY <2>2, <2>4, <2>5, <1>1, <1>5
    <3>2. Lean(x + 1, up + 1, r) >= 0
      <4>1. CASE c.d > 0
        <5>1. up + 1 = y
          BY <4>1, <1>1 DEF up
        <5> QED
          BY <5>1, <4>1, <1>1
      <4>2. CASE ~(c.d > 0)
        <5>1. up = y /\ y # r
          BY <4>2, <3>1 DEF up
        <5> QED
          BY <5>1, <1>1, <1>4, <1>7
      <4> QED
        BY <4>1, <4>2
    <3>3. up + 1 \in Nat \ {0}
      <4>1. CASE y = 0
        <5>1. x = 0 /\ Lean(0, 0 + 1, r) = 1 - 2 * (r * r)
          BY <4>1, <1>1, <1>4 DEF Lean
        <5>2. r = 0 \/ 1 - 2 * (r * r) >= 0
          BY <5>1, <4>1, <1>4
        <5>3. r = 0
          BY <5>2, <1>1
        <5> QED
          BY <5>3, <2>2, <3>1
      <4>2. CASE y # 0
        BY <4>2, <1>1, <1>5
      <4> QED
        BY <4>1, <4>2
    <3>4. Lean(x + 1, up + 1, r) <= Lean(a, b, r)
      <4>1. x + 1 \in Nat
        BY <1>1
      <4> QED
        BY <4>1, <3>1, <3>3, <2>4, <1>1, LeanGrows
    <3>5. Lean(a, b, r) # 0 /\ Lean(a, b, r) \in Int /\ Lean(x + 1, up + 1, r) \in Int
      <4>1. a \in Int /\ b \in Int /\ r \in Int /\ x + 1 \in Int /\ up + 1 \in Int
        BY <1>1, <1>5
      <4> QED
        <5>1. Lean(a, b, r) # 0
          BY <4>1, LeanOdd
        <5>2. Lean(a, b, r) \in Int
          BY <4>1, LeanSteps
        <5>3. Lean(x + 1, up + 1, r) \in Int
          BY <4>1, LeanSteps
        <5> QED
          BY <5>1, <5>2, <5>3
    <3> QED
      BY <3>1, <3>2, <3>4, <3>5
  <2> QED
    BY <2>1, <2>4, <2>5, <1>1, <1>5
<1> QED
  BY <1>3, <1>8, <1>9 DEF x, y, r, next
(* plot_circle_points for a point of the octant.                           *)
Spots(cx, cy, o) == {CirclePoints(cx, cy, o[1], o[2])[i] : i \in 1 .. 8}

(* They are near the screen.                                               *)
LEMMA SpotsAreNear ==
  ASSUME NEW cx \in Coords, NEW cy \in Coords, NEW radius \in Radii,
         NEW o \in Octant(radius), NEW p \in Spots(cx, cy, o)
  PROVE  Near(p)
<1>1. /\ cx \in Nat /\ cy \in Nat /\ radius \in Nat
      /\ Width \in Nat /\ Height \in Nat /\ U32 \in Nat
      /\ cx + 8 * radius + 8 + Width + Height < U32
      /\ cy + 8 * radius + 8 + Width + Height < U32
  BY FramebufferConstants
<1>2. PICK a \in 0 .. radius, b \in 0 .. radius : o = <<a, b>>
  BY DEF Octant
<1>3. a \in Nat /\ b \in Nat /\ a <= radius /\ b <= radius
  BY <1>1, <1>2
<1>4. ASSUME NEW u \in Int, NEW v \in Int, u >= -radius, u <= radius, v >= -radius, v <= radius
      PROVE  Near(<<cx + u, cy + v>>)
  BY <1>1, <1>4 DEF Near
<1>5. PICK i \in 1 .. 8 : p = CirclePoints(cx, cy, a, b)[i]
  BY <1>2 DEF Spots
<1>6. p \in { <<cx + a, cy + b>>, <<cx + (-a), cy + b>>, <<cx + a, cy + (-b)>>, <<cx + (-a), cy + (-b)>>,
              <<cx + b, cy + a>>, <<cx + (-b), cy + a>>, <<cx + b, cy + (-a)>>, <<cx + (-b), cy + (-a)>> }
  <2>1. /\ cx - a = cx + (-a) /\ cx - b = cx + (-b)
        /\ cy - a = cy + (-a) /\ cy - b = cy + (-b)
    BY <1>1, <1>3
  <2>2. i \in {1, 2, 3, 4, 5, 6, 7, 8}
    OBVIOUS
  <2> QED
    BY <1>5, <2>1, <2>2 DEF CirclePoints
<1>7. /\ a \in Int /\ a >= -radius /\ a <= radius /\ -a \in Int /\ -a >= -radius /\ -a <= radius
      /\ b \in Int /\ b >= -radius /\ b <= radius /\ -b \in Int /\ -b >= -radius /\ -b <= radius
  BY <1>1, <1>3
<1> QED
  BY <1>4, <1>6, <1>7

-----------------------------------------------------------------------------
(* What the calls under way have still to paint.                           *)
Ahead(c) == IF c = NoCircle THEN {} ELSE {o \in Octant(c.radius) : o[1] >= c.x}

PendingOf(rects, c) ==
  (UNION {Block(rects[i]) : i \in DOMAIN rects})
    \cup (UNION {Spots(c.cx, c.cy, o) : o \in Ahead(c)})

(* The screen pt and the request rq, when pend is still to come: what is   *)
(* asked for is painted or pending, and nothing else is either.            *)
Canvas(pt, rq, stop, pend) ==
  /\ pt \subseteq Screen /\ pt \subseteq rq /\ pend \subseteq rq /\ stop \in BOOLEAN
  /\ ~stop => rq \cap Screen \subseteq pt \cup pend
  /\ stop => \E p \in rq : p[1] < 0 \/ p[2] < 0

(* Painting points that are pending keeps it so.                           *)
LEMMA PaintKeepsCanvas ==
  ASSUME NEW rq, NEW pend, NEW left, NEW points, NEW S,
         Canvas(painted, rq, aborted, pend), ~aborted,
         S = {points[i] : i \in DOMAIN points}, \A p \in S : Near(p), SetPixels(points),
         S \subseteq rq, left \subseteq rq, pend \subseteq left \cup S
  PROVE  Canvas(painted', rq, aborted', left)
<1>1. /\ painted \subseteq painted' /\ painted' \subseteq painted \cup (S \cap Screen)
      /\ aborted' \in BOOLEAN
      /\ ~aborted' => S \cap Screen \subseteq painted'
      /\ aborted' => \E p \in S : p[1] < 0 \/ p[2] < 0
  BY SetPixelsEffect
<1>2. painted' \subseteq Screen /\ painted' \subseteq rq
  BY <1>1 DEF Canvas
<1>3. ASSUME ~aborted' PROVE rq \cap Screen \subseteq painted' \cup left
  BY <1>1, <1>3 DEF Canvas
<1>4. ASSUME aborted' PROVE \E p \in rq : p[1] < 0 \/ p[2] < 0
  BY <1>1, <1>4
<1> QED
  BY <1>1, <1>2, <1>3, <1>4 DEF Canvas

(* The terminal's cursor is at the pixel of its cell.                      *)
AtCell ==
  /\ chars \in 0 .. MaxChars
  /\ cell.column \in Nat /\ cell.column <= 4 * chars
  /\ cell.row \in 0 .. Rows - 1
  /\ cursor.x = CharWidth * cell.column
  /\ cursor.y = CharHeight * cell.row

(* The invariant: the canvas, the calls under way, the cursor.             *)
FbInv ==
  /\ Canvas(painted, asked, aborted, PendingOf(strokes, circle))
  /\ strokes \in Seq(NearRects)
  /\ circle = NoCircle \/ AtTurn(circle)
  /\ AtCell

(* The terminal has rows of text, of which the last begins above the lower *)
(* edge, and the next would not.                                           *)
LEMMA RowsFit ==
  /\ Rows \in Nat \ {0}
  /\ \A row \in Nat : CharHeight * row >= Height <=> row >= Rows
<1> DEFINE n == Height + CharHeight - 1
<1>1. /\ Height \in Nat \ {0} /\ CharHeight \in Nat \ {0} /\ n \in Nat
      /\ n = Height + CharHeight - 1
  BY FramebufferConstants
<1>2. Rows = n \div CharHeight
  BY DEF Rows
<1> HIDE DEF n
<1>3. Rows \in Nat /\ n = CharHeight * Rows + (n % CharHeight) /\ n % CharHeight \in 0 .. CharHeight - 1
  BY <1>1, <1>2, DivMod
<1>4. CharHeight * Rows >= Height /\ CharHeight * Rows < Height + CharHeight
  BY <1>1, <1>3
<1>5. Rows # 0
  BY <1>1, <1>4
<1>6. ASSUME NEW row \in Nat PROVE CharHeight * row >= Height <=> row >= Rows
  <2>1. CASE row >= Rows
    <3>1. CharHeight * Rows <= CharHeight * row
      BY <2>1, <1>1, <1>3, Times
    <3> QED
      BY <3>1, <2>1, <1>1, <1>3, <1>4
  <2>2. CASE row < Rows
    <3>1. CharHeight * row + CharHeight <= CharHeight * Rows
      BY <2>2, <1>1, <1>3, TimesMore
    <3> QED
      BY <3>1, <2>2, <1>1, <1>3, <1>4
  <2> QED
    BY <2>1, <2>2, <1>3
<1> QED
  BY <1>3, <1>5, <1>6
(* Between calls nothing is left to paint.                                 *)
LEMMA NothingPending ==
  ASSUME FbInv, ~Drawing PROVE PendingOf(strokes, circle) = {}
BY DEF Drawing, PendingOf, Ahead

(* A call: its rectangles become pending.                                  *)
LEMMA DrawStep ==
  ASSUME FbInv, NEW x \in Coords, NEW y \in Coords, NEW rects \in Calls(x, y), Draw(rects)
  PROVE  FbInv'
<1>1. /\ strokes' = rects /\ circle' = circle /\ circle = NoCircle
      /\ painted' = painted /\ aborted' = aborted /\ ~aborted
      /\ asked' = asked \cup UNION {Block(rects[i]) : i \in DOMAIN rects}
      /\ UNCHANGED terminalVars
  BY DEF Draw, Drawing
<1>2. PendingOf(strokes, circle) = {}
  BY NothingPending DEF Draw
<1>3. PendingOf(rects, circle) = UNION {Block(rects[i]) : i \in DOMAIN rects}
  BY <1>1 DEF PendingOf, Ahead
<1> DEFINE S == UNION {Block(rects[i]) : i \in DOMAIN rects}
<1> HIDE DEF S
<1>4. PendingOf(strokes', circle') = S /\ asked' = asked \cup S
  BY <1>1, <1>3 DEF S
<1>5. Canvas(painted, asked, aborted, {})
  BY <1>2 DEF FbInv
<1>6. Canvas(painted', asked', aborted', PendingOf(strokes', circle'))
  BY <1>1, <1>4, <1>5 DEF Canvas
<1>7. strokes' \in Seq(NearRects)
  BY <1>1, CallsAreNear
<1>8. AtCell'
  BY <1>1 DEF FbInv, AtCell, terminalVars
<1> QED
  BY <1>1, <1>6, <1>7, <1>8 DEF FbInv

(* A rectangle is painted and no longer pending.                           *)
LEMMA DrawStrokeStep == ASSUME FbInv, DrawStroke PROVE FbInv'
<1> DEFINE rect == Head(strokes)
           S == Block(rect)
           points == PointsOf(rect)
           left == PendingOf(Tail(strokes), circle)
           pend == PendingOf(strokes, circle)
<1>1. /\ ~aborted /\ strokes # <<>> /\ SetPixels(points)
      /\ strokes' = Tail(strokes) /\ circle' = circle /\ asked' = asked
      /\ UNCHANGED terminalVars
  BY DEF DrawStroke
<1>2. strokes \in Seq(NearRects) /\ Canvas(painted, asked, aborted, pend)
  BY DEF FbInv
<1>3. /\ rect \in NearRects /\ Tail(strokes) \in Seq(NearRects)
      /\ rect = strokes[1] /\ Len(strokes) \in Nat \ {0}
      /\ Len(Tail(strokes)) = Len(strokes) - 1
      /\ \A i \in 1 .. Len(strokes) - 1 : Tail(strokes)[i] = strokes[i + 1]
  BY <1>1, <1>2
<1>4. pend = left \cup S
  <2>1. DOMAIN strokes = 1 .. Len(strokes) /\ DOMAIN Tail(strokes) = 1 .. Len(strokes) - 1
    BY <1>2, <1>3
  <2>2. ASSUME NEW i \in DOMAIN strokes
        PROVE  strokes[i] = rect \/ \E j \in DOMAIN Tail(strokes) : strokes[i] = Tail(strokes)[j]
    <3>1. CASE i = 1
      BY <3>1, <1>3
    <3>2. CASE i # 1
      <4>1. i - 1 \in 1 .. Len(strokes) - 1 /\ (i - 1) + 1 = i
        BY <3>2, <2>1, <1>3
      <4> QED
        BY <4>1, <2>1, <1>3
    <3> QED
      BY <3>1, <3>2
  <2>3. ASSUME NEW j \in DOMAIN Tail(strokes)
        PROVE  \E i \in DOMAIN strokes : strokes[i] = Tail(strokes)[j]
    <3>1. j + 1 \in 1 .. Len(strokes) /\ j \in 1 .. Len(strokes) - 1
      BY <2>1, <1>3
    <3> QED
      BY <3>1, <2>1, <1>3
  <2>4. 1 \in DOMAIN strokes
    BY <2>1, <1>3
  <2>5. UNION {Block(strokes[i]) : i \in DOMAIN strokes}
          = S \cup UNION {Block(Tail(strokes)[j]) : j \in DOMAIN Tail(strokes)}
    BY <2>2, <2>3, <2>4, <1>3
  <2> QED
    BY <2>5 DEF PendingOf
<1>5. S = {points[i] : i \in DOMAIN points} /\ \A p \in S : Near(p)
  BY <1>3, PointsAreArea
<1> HIDE DEF rect, S, points, left, pend
<1>6. S \subseteq asked /\ left \subseteq asked
  BY <1>2, <1>4 DEF Canvas
<1>7. Canvas(painted', asked, aborted', left)
  BY <1>1, <1>2, <1>4, <1>5, <1>6, PaintKeepsCanvas
<1>8. AtCell'
  BY <1>1 DEF FbInv, AtCell, terminalVars
<1>9. Canvas(painted', asked', aborted', PendingOf(strokes', circle'))
  BY <1>1, <1>7 DEF left
<1> QED
  BY <1>1, <1>3, <1>8, <1>9 DEF FbInv

(* draw_circle: all points of the circle become pending.                   *)
LEMMA DrawCircleStep ==
  ASSUME FbInv, NEW cx \in Coords, NEW cy \in Coords, NEW radius \in Radii,
         DrawCircle(cx, cy, radius)
  PROVE  FbInv'
<1> DEFINE c == [cx |-> cx, cy |-> cy, radius |-> radius,
                 x |-> 0, y |-> radius, d |-> 3 - 2 * radius]
           S == UNION {Spots(cx, cy, o) : o \in Octant(radius)}
<1>1. /\ circle' = c /\ strokes' = strokes /\ strokes = <<>>
      /\ painted' = painted /\ aborted' = aborted /\ ~aborted
      /\ asked' = asked \cup S
      /\ UNCHANGED terminalVars
  BY DEF DrawCircle, Drawing, Spots
<1>2. PendingOf(strokes, circle) = {}
  BY NothingPending DEF DrawCircle
<1>3. AtTurn(c)
  BY CircleBegins
<1>4. c # NoCircle
  <2>1. c.x # NoCircle.x
    BY DEF NoCircle
  <2> QED
    BY <2>1
<1>5. Ahead(c) = Octant(radius)
  <2>1. \A o \in Octant(radius) : o[1] >= c.x
    BY FramebufferConstants DEF Octant
  <2> QED
    BY <1>4, <2>1 DEF Ahead
<1>6. PendingOf(strokes, c) = S
  <2>1. c.cx = cx /\ c.cy = cy /\ DOMAIN strokes = {}
    BY <1>1
  <2> HIDE DEF c
  <2> QED
    BY <2>1, <1>5 DEF PendingOf
<1> HIDE DEF c, S
<1>7. Canvas(painted, asked, aborted, {})
  BY <1>2 DEF FbInv
<1>8. Canvas(painted', asked', aborted', PendingOf(strokes', circle'))
  BY <1>1, <1>6, <1>7 DEF Canvas
<1>9. AtCell'
  BY <1>1 DEF FbInv, AtCell, terminalVars
<1> QED
  BY <1>1, <1>3, <1>8, <1>9 DEF FbInv

(* A turn of its loop paints those of one column, the last one all that is *)
(* left.                                                                   *)
LEMMA CircleTurnStep == ASSUME FbInv, CircleTurn PROVE FbInv'
<1> DEFINE c == circle
           o == <<c.x, c.y>>
           points == CirclePoints(c.cx, c.cy, c.x, c.y)
           S == Spots(c.cx, c.cy, o)
           next == CircleStep(c)
           pend == PendingOf(strokes, c)
           left == PendingOf(strokes, circle')
<1>1. /\ ~aborted /\ c.y >= c.x /\ SetPixels(points)
      /\ circle' = IF next.y >= next.x THEN next ELSE NoCircle
      /\ strokes' = strokes /\ asked' = asked
      /\ UNCHANGED terminalVars
  BY DEF CircleTurn
<1>2. AtTurn(c) /\ c # NoCircle
  <2>1. NoCircle.y = 0 /\ NoCircle.x = 1
    BY DEF NoCircle
  <2>2. c # NoCircle
    BY <2>1, <1>1
  <2> QED
    BY <2>2 DEF FbInv
<1>3. /\ next.cx = c.cx /\ next.cy = c.cy /\ next.radius = c.radius
      /\ next.x = c.x + 1
      /\ next.y >= next.x => AtTurn(next)
      /\ \A q \in Octant(c.radius) :
           q[1] >= c.x /\ q # o => q[1] >= next.x /\ next.y >= next.x
  BY <1>2, CircleGoesOn
<1>4. /\ c.cx \in Coords /\ c.cy \in Coords /\ c.radius \in Radii /\ c.x \in Nat
      /\ o \in Octant(c.radius)
  BY <1>2 DEF AtTurn
<1>5. S = {points[i] : i \in DOMAIN points} /\ \A p \in S : Near(p)
  <2>1. DOMAIN points = 1 .. 8
    BY DEF CirclePoints
  <2> QED
    BY <1>4, <2>1, SpotsAreNear DEF Spots
<1> DEFINE strokesLeft == UNION {Block(strokes[i]) : i \in DOMAIN strokes}
           turnsLeft(k) == UNION {Spots(k.cx, k.cy, q) : q \in Ahead(k)}
<1>p. pend = strokesLeft \cup turnsLeft(c) /\ left = strokesLeft \cup turnsLeft(circle')
  BY DEF PendingOf
<1> HIDE DEF strokesLeft, pend, left
<1>6. /\ S \subseteq pend
      /\ Ahead(circle') \subseteq Ahead(c)
      /\ Ahead(c) \subseteq Ahead(circle') \cup {o}
      /\ circle' # NoCircle => circle'.cx = c.cx /\ circle'.cy = c.cy
  <2>1. o \in Ahead(c)
    BY <1>2, <1>4 DEF Ahead
  <2>2. S \subseteq pend
    BY <2>1, <1>p
  <2>3. \A q \in Octant(c.radius) : q[1] \in Nat
    BY FramebufferConstants, <1>4 DEF Octant
  <2>4. CASE next.y >= next.x
    <3>1. circle' = next /\ AtTurn(next)
      BY <2>4, <1>1, <1>3
    <3>2. next # NoCircle
      <4>1. ~(NoCircle.y >= NoCircle.x)
        BY DEF NoCircle
      <4> QED
        BY <4>1, <2>4
    <3>3. Ahead(circle') = {q \in Octant(c.radius) : q[1] >= next.x}
      BY <3>1, <3>2, <1>3 DEF Ahead
    <3>4. Ahead(c) = {q \in Octant(c.radius) : q[1] >= c.x}
      BY <1>2 DEF Ahead
    <3> HIDE DEF next, o, c
    <3>5. Ahead(circle') \subseteq Ahead(c)
      BY <3>3, <3>4, <2>3, <1>3, <1>4
    <3>6. Ahead(c) \subseteq Ahead(circle') \cup {o}
      BY <3>3, <3>4, <1>3
    <3> QED
      BY <2>2, <3>1, <3>5, <3>6, <1>3
  <2>5. CASE ~(next.y >= next.x)
    <3>1. circle' = NoCircle /\ Ahead(circle') = {}
      BY <2>5, <1>1 DEF Ahead
    <3>2. Ahead(c) = {q \in Octant(c.radius) : q[1] >= c.x}
      BY <1>2 DEF Ahead
    <3>3. Ahead(c) \subseteq {o}
      BY <3>2, <2>5, <1>3
    <3> QED
      BY <2>2, <3>1, <3>3
  <2> QED
    BY <2>4, <2>5
<1>7. pend \subseteq left \cup S /\ left \subseteq pend
  <2>1. turnsLeft(circle') \subseteq turnsLeft(c) /\ turnsLeft(c) \subseteq turnsLeft(circle') \cup S
    <3>1. CASE circle' = NoCircle
      <4>1. Ahead(circle') = {}
        BY <3>1 DEF Ahead
      <4> QED
        BY <4>1, <1>6
    <3>2. CASE circle' # NoCircle
      <4>1. circle'.cx = c.cx /\ circle'.cy = c.cy
        BY <3>2, <1>6
      <4>2. turnsLeft(circle') = UNION {Spots(c.cx, c.cy, q) : q \in Ahead(circle')}
        BY <4>1
      <4> QED
        BY <4>2, <1>6
    <3> QED
      BY <3>1, <3>2
  <2> HIDE DEF turnsLeft
  <2> QED
    BY <2>1, <1>p
<1>8. Canvas(painted, asked, aborted, pend)
  BY DEF FbInv, pend
<1> HIDE DEF S, points, c, o, next
<1>9. S \subseteq asked /\ left \subseteq asked
  BY <1>6, <1>7, <1>8 DEF Canvas
<1>10. Canvas(painted', asked, aborted', left)
  BY <1>1, <1>5, <1>7, <1>8, <1>9, PaintKeepsCanvas
<1>11. Canvas(painted', asked', aborted', PendingOf(strokes', circle'))
  BY <1>1, <1>10 DEF left
<1>12. AtCell'
  BY <1>1 DEF FbInv, AtCell, terminalVars
<1>13. circle' = NoCircle \/ AtTurn(circle')
  BY <1>1, <1>3
<1> QED
  BY <1>1, <1>11, <1>12, <1>13 DEF FbInv

(* clear_color and clear.                                                  *)
LEMMA ClearStep == ASSUME FbInv, ClearColor \/ Clear PROVE FbInv'
<1>1. /\ painted' = {} /\ asked' = {} /\ ~aborted /\ aborted' = aborted
      /\ strokes' = strokes /\ circle' = circle
  BY DEF ClearColor, Clear
<1>2. PendingOf(strokes, circle) = {}
  BY NothingPending DEF ClearColor, Clear
<1>3. Canvas(painted', asked', aborted', PendingOf(strokes', circle'))
  BY <1>1, <1>2 DEF Canvas, FbInv
<1>4. AtCell'
  <2>1. CASE ClearColor
    BY <2>1 DEF ClearColor, FbInv, AtCell, terminalVars
  <2>2. CASE Clear
    <3>1. cursor'.x = 0 /\ cursor'.y = 0 /\ cell'.column = 0 /\ cell'.row = 0 /\ chars' = 0
      BY <2>2 DEF Clear
    <3>2. CharWidth \in Nat /\ CharHeight \in Nat /\ MaxChars \in Nat /\ Rows \in Nat \ {0}
      BY FramebufferConstants, RowsFit
    <3> QED
      BY <3>1, <3>2 DEF AtCell
  <2> QED
    BY <2>1, <2>2
<1> QED
  BY <1>1, <1>3, <1>4 DEF FbInv
(* write_char paints the cell it is at and moves on to the next one.       *)
LEMMA WriteCharStep ==
  ASSUME FbInv, NEW c \in {"newline", "tab", "return", "letter"}, WriteChar(c)
  PROVE  FbInv'
<1> DEFINE column == cell.column
           row == cell.row
<1>0. /\ CharWidth \in Nat \ {0} /\ CharHeight \in Nat \ {0} /\ MaxChars \in Nat
      /\ Width \in Nat \ {0} /\ Height \in Nat \ {0} /\ U32 \in Nat
      /\ Width <= U32 /\ Height + CharHeight <= U32 /\ 4 * CharWidth * MaxChars <= U32
      /\ Rows \in Nat \ {0}
  BY FramebufferConstants, RowsFit
<1>1. /\ ~aborted /\ ~Drawing /\ chars < MaxChars
      /\ cursor' = Moved(c) /\ cell' = NextCell(c) /\ chars' = chars + 1
      /\ strokes' = strokes /\ circle' = circle
  BY DEF WriteChar
<1>2. /\ chars \in Nat /\ column \in Nat /\ column <= 4 * chars
      /\ row \in Nat /\ row < Rows
      /\ cursor.x = CharWidth * column /\ cursor.y = CharHeight * row
  BY <1>0 DEF FbInv, AtCell
<1>3. PendingOf(strokes, circle) = {}
  BY <1>1, NothingPending
<1>4. Canvas(painted, asked, aborted, {})
  BY <1>3 DEF FbInv
<1>x. cursor.x \in Nat /\ cursor.y \in Nat /\ cursor.y < Height
  <2>1. CharHeight * row < Height
    <3>1. ~(CharHeight * row >= Height) /\ CharHeight * row \in Nat
      BY <1>0, <1>2, RowsFit
    <3> QED
      BY <3>1, <1>0
  <2> QED
    BY <2>1, <1>0, <1>2
<1>5. AtCell'
  <2>1. chars' \in 0 .. MaxChars
    BY <1>0, <1>1, <1>2
  <2>2. /\ cell'.column \in Nat /\ cell'.column <= 4 * chars'
        /\ cursor'.x = CharWidth * cell'.column
    <3>1. CASE c = "newline" \/ c = "return"
      <4>1. cell'.column = 0 /\ cursor'.x = 0
        BY <3>1, <1>1 DEF NextCell, Moved
      <4> QED
        BY <4>1, <1>0, <1>1, <1>2
    <3>2. CASE c = "tab"
      <4>1. cell'.column = column + 4 /\ cursor'.x = cursor.x + 4 * CharWidth
        BY <3>2, <1>1 DEF NextCell, Moved
      <4>2. CharWidth * (column + 4) = CharWidth * column + 4 * CharWidth
        BY <1>0, <1>2
      <4> QED
        BY <4>1, <4>2, <1>0, <1>1, <1>2
    <3>3. CASE c = "letter"
      <4>1. cell'.column = column + 1 /\ cursor'.x = cursor.x + CharWidth
        BY <3>3, <1>1 DEF NextCell, Moved
      <4>2. CharWidth * (column + 1) = CharWidth * column + CharWidth
        BY <1>0, <1>2
      <4> QED
        BY <4>1, <4>2, <1>0, <1>1, <1>2
    <3> QED
      BY <3>1, <3>2, <3>3
  <2>3. cell'.row \in 0 .. Rows - 1 /\ cursor'.y = CharHeight * cell'.row
    <3>1. CASE c # "newline"
      <4>1. cell'.row = row /\ cursor'.y = OnScreen(cursor.y)
        BY <3>1, <1>1 DEF NextCell, Moved
      <4>2. OnScreen(cursor.y) = cursor.y
        BY <1>x, <1>0 DEF OnScreen
      <4> QED
        BY <4>1, <4>2, <1>0, <1>2
    <3>2. CASE c = "newline"
      <4>1. cell'.row = (row + 1) % Rows /\ cursor'.y = OnScreen(cursor.y + CharHeight)
        BY <3>2, <1>1 DEF NextCell, Moved
      <4>2. CharHeight * (row + 1) = cursor.y + CharHeight
        BY <1>0, <1>2
      <4>3. cursor.y + CharHeight >= Height <=> row + 1 >= Rows
        <5>1. row + 1 \in Nat
          BY <1>2
        <5>2. CharHeight * (row + 1) >= Height <=> row + 1 >= Rows
          BY <5>1, RowsFit
        <5> QED
          BY <5>2, <4>2
      <4>4. CASE row + 1 >= Rows
        <5>1. row + 1 = Rows /\ Rows % Rows = 0
          BY <4>4, <1>0, <1>2
        <5>2. cell'.row = 0 /\ cursor'.y = 0
          BY <4>1, <4>3, <4>4, <5>1 DEF OnScreen
        <5> QED
          BY <5>2, <1>0
      <4>5. CASE ~(row + 1 >= Rows)
        <5>1. (row + 1) % Rows = row + 1
          BY <4>5, <1>0, <1>2
        <5>2. cell'.row = row + 1 /\ cursor'.y = CharHeight * (row + 1)
          BY <4>1, <4>2, <4>3, <4>5, <5>1 DEF OnScreen
        <5> QED
          BY <5>2, <4>5, <1>0, <1>2
      <4> QED
        BY <4>4, <4>5
    <3> QED
      BY <3>1, <3>2
  <2> QED
    BY <2>1, <2>2, <2>3 DEF AtCell
<1>6. Canvas(painted', asked', aborted', {})
  <2>1. CASE c # "letter"
    BY <2>1, <1>4 DEF WriteChar
  <2>2. CASE c = "letter"
    <3> DEFINE rect == Rect(cursor.x, cursor.y, CharWidth, CharHeight)
               points == PointsOf(rect)
               S == Block(rect)
    <3>1. SetPixels(points) /\ asked' = asked \cup S
      <4>1. column * CharWidth = cursor.x /\ row * CharHeight = cursor.y
        BY <1>0, <1>2
      <4> QED
        BY <2>2, <4>1 DEF WriteChar
    <3>2. rect \in NearRects
      <4>1. cursor.x + CharWidth <= U32
        <5>1. column + 1 <= 4 * MaxChars
          BY <1>0, <1>1, <1>2
        <5>2. CharWidth * (column + 1) <= CharWidth * (4 * MaxChars)
          BY <5>1, <1>0, <1>2, Times
        <5>3. /\ CharWidth * (column + 1) = CharWidth * column + CharWidth
              /\ CharWidth * (4 * MaxChars) = 4 * CharWidth * MaxChars
          BY <1>0, <1>2
        <5> QED
          BY <5>2, <5>3, <1>0, <1>2
      <4>2. cursor.y + CharHeight <= U32 /\ cursor.x >= Width - U32 /\ cursor.y >= Height - U32
        BY <1>0, <1>x
      <4> QED
        BY <4>1, <4>2, <1>0, <1>x DEF Rect, NearRects
    <3>3. S = {points[i] : i \in DOMAIN points} /\ \A p \in S : Near(p)
      BY <3>2, PointsAreArea
    <3> HIDE DEF rect, points, S
    <3>4. Canvas(painted, asked', aborted, S)
      BY <3>1, <1>1, <1>4 DEF Canvas
    <3> QED
      BY <3>1, <3>3, <3>4, <1>1, PaintKeepsCanvas
  <2> QED
    BY <2>1, <2>2
<1>7. PendingOf(strokes', circle') = {}
  BY <1>1, <1>3
<1> QED
  BY <1>1, <1>5, <1>6, <1>7 DEF FbInv

(* Every shape is painted exactly where it was asked for, as far as it is  *)
(* on the screen, for every size of the screen, every radius and every     *)
(* width of the coordinates that the calls stay clear of; and a dev build  *)
(* panics only over a shape that crosses the left or the upper edge.       *)
THEOREM ShapesAsAsked == FbSpec => []FbTypeOK /\ []PaintedExactly
<1>1. FbInit => FbInv
  <2> SUFFICES ASSUME FbInit PROVE FbInv
    OBVIOUS
  <2>1. PendingOf(strokes, circle) = {}
    BY DEF FbInit, PendingOf, Ahead
  <2>2. Canvas(painted, asked, aborted, PendingOf(strokes, circle))
    BY <2>1 DEF FbInit, Canvas
  <2>3. AtCell
    <3>1. cursor.x = 0 /\ cursor.y = 0 /\ cell.column = 0 /\ cell.row = 0 /\ chars = 0
      BY DEF FbInit
    <3>2. CharWidth \in Nat /\ CharHeight \in Nat /\ MaxChars \in Nat /\ Rows \in Nat \ {0}
      BY FramebufferConstants, RowsFit
    <3> QED
      BY <3>1, <3>2 DEF AtCell
  <2> QED
    BY <2>2, <2>3 DEF FbInit, FbInv
<1>2. FbInv /\ [FbNext]_fbVars => FbInv'
  <2> SUFFICES ASSUME FbInv, [FbNext]_fbVars PROVE FbInv'
    OBVIOUS
  <2>1. CASE UNCHANGED fbVars
    BY <2>1 DEF fbVars, FbInv, AtCell
  <2>2. CASE DrawNext
    BY <2>2, DrawStep, DrawStrokeStep, DrawCircleStep, CircleTurnStep, ClearStep DEF DrawNext
  <2>3. CASE TerminalNext
    BY <2>3, WriteCharStep, ClearStep DEF TerminalNext
  <2> QED
    BY <2>1, <2>2, <2>3 DEF FbNext
<1>3. FbInv => FbTypeOK /\ PaintedExactly
  <2> SUFFICES ASSUME FbInv PROVE FbTypeOK /\ PaintedExactly
    OBVIOUS
  <2>1. PaintedExactly
    BY NothingPending DEF FbInv, Canvas, PaintedExactly
  <2>2. cursor.x \in Nat /\ cursor.y \in 0 .. Height - 1
    <3>1. /\ cell.column \in Nat /\ cell.row \in Nat /\ ~(cell.row >= Rows)
          /\ cursor.x = CharWidth * cell.column /\ cursor.y = CharHeight * cell.row
      BY RowsFit DEF FbInv, AtCell
    <3>2. ~(CharHeight * cell.row >= Height)
      BY <3>1, RowsFit
    <3>3. CharWidth \in Nat /\ CharHeight \in Nat /\ Height \in Nat
      BY FramebufferConstants
    <3> QED
      BY <3>1, <3>2, <3>3
  <2> QED
    BY <2>1, <2>2 DEF FbInv, Canvas, FbTypeOK
<1> QED
  BY <1>1, <1>2, <1>3, PTL DEF FbSpec
=============================================================================
