------------------------------ MODULE Keyboard ------------------------------
(***************************************************************************)
(* Scan codes: do_keyboard_int, key_table and the key handlers of          *)
(* kernel/keyboard.c, which turn the codes of a PC keyboard (external),    *)
(* one per interrupt, into the shift state, characters and commands.       *)
(*                                                                         *)
(* The keys are a choice that reaches every handler that has an effect;    *)
(* the codes they send are those of scan code set 1.                       *)
(***************************************************************************)
EXTENDS Integers, Sequences, FiniteSets

CONSTANTS
  Key,      \* the keys that are pressed: names in DOMAIN Make
  MaxHeld   \* bound: keys held down at a time

VARIABLES
  held,    \* the keys that are down
  num,     \* the keyboard's own NumLock, which the kernel never sets
  fake,    \* the keys that are down and sent a fake shift when they were pressed
  codes,   \* the codes the keyboard has still to send
  shifts,  \* the flags that are set
  e0,      \* 0; 1 after the prefix 0xe0; 2 after 0xe1
  did      \* what the last code made the kernel do

keyVars == <<held, num, fake>>
vars == <<keyVars, codes, shifts, e0, did>>

-----------------------------------------------------------------------------
(* The keyboard.                                                           *)

Down(S) == held \cap S # {}

Shift == {"lshift", "rshift"}
Ctrl  == {"lctrl", "rctrl"}
Alt   == {"lalt", "ralt"}

\* The codes of a key, without and with a prefix.  `delete' is any grey key,
\* `print' is Print Screen.
Make ==
  [lshift |-> <<42>>, rshift |-> <<54>>,
   lctrl  |-> <<29>>, rctrl  |-> <<224, 29>>,
   lalt   |-> <<56>>, ralt   |-> <<224, 56>>,
   caps   |-> <<58>>, numlock |-> <<69>>,
   letter |-> <<25>>, keypad_del |-> <<83>>, delete |-> <<224, 83>>,
   print  |-> <<224, 55>>,
   \* Pause sends everything when it is pressed.
   pause  |-> <<225, 29, 69, 225, 157, 197>>]

\* With Alt, Print Screen is SysRq and has a code of its own.
SysRq(k) == k = "print" /\ Down(Alt)

MakeOf(k) == IF SysRq(k) THEN <<84>> ELSE Make[k]

Break(k) ==
  CASE k = "pause" -> <<>>
    [] SysRq(k)    -> <<212>>
    [] Len(Make[k]) = 2 /\ ~SysRq(k) -> <<224, Make[k][2] + 128>>
    [] OTHER       -> <<Make[k][1] + 128>>

ASSUME KeyAssumption == Key \subseteq DOMAIN Make /\ MaxHeld \in Nat

\* Print Screen by itself, and with NumLock a grey key without Shift, are sent
\* as if Shift was held: E0 2A goes before the make code and E0 AA behind the
\* break code.
Faked(k) ==
  \/ k = "delete" /\ num /\ ~Down(Shift)
  \/ k = "print" /\ ~Down(Shift \cup Ctrl \cup Alt)

\* Without NumLock a grey key with Shift is sent as if it was not held.
Unshift(k, codeOf) ==
  IF k # "delete" \/ num THEN <<>>
  ELSE (IF "lshift" \in held THEN <<224, codeOf["lshift"]>> ELSE <<>>)
         \o (IF "rshift" \in held THEN <<224, codeOf["rshift"]>> ELSE <<>>)

\* A key goes down, or repeats.
Press(k) ==
  /\ codes = <<>> /\ did # "reboot"
  /\ k \in held \cup {"pause"} \/ Cardinality(held) < MaxHeld
  /\ codes' = (IF k \in held THEN <<>>
               ELSE IF Faked(k) THEN <<224, 42>>
               ELSE Unshift(k, [lshift |-> 170, rshift |-> 182])) \o MakeOf(k)
  /\ held' = IF k = "pause" THEN held ELSE held \cup {k}
  /\ fake' = IF k \notin held /\ Faked(k) THEN fake \cup {k} ELSE fake
  /\ did' = "none"
  /\ UNCHANGED <<num, shifts, e0>>

Release(k) ==
  /\ codes = <<>> /\ did # "reboot"
  /\ codes' = Break(k) \o (IF k \in fake THEN <<224, 170>>
                           ELSE Unshift(k, [lshift |-> 42, rshift |-> 54]))
  /\ held' = held \ {k}
  /\ fake' = fake \ {k}
  /\ did' = "none"
  /\ UNCHANGED <<num, shifts, e0>>

-----------------------------------------------------------------------------
(* The kernel.                                                             *)

\* key_table: the handler of a code.
Ranges(S) == UNION {r[1]..r[2] : r \in S}

key_table(code) ==
  CASE code \in {29, 157}              -> "key_ctrl"
    [] code \in {42, 54, 170, 182}     -> "key_shift"
    [] code \in {56, 184}              -> "key_alt"
    [] code = 58                       -> "key_caps"
    [] code = 69                       -> "key_num"
    [] code \in {55} \cup 71..83       -> "key_keypad"
    [] code \in Ranges({<<1, 28>>, <<30, 41>>, <<43, 53>>, <<57, 57>>, <<86, 86>>})
                                       -> "key_letter"
    [] code \in Ranges({<<59, 68>>, <<70, 70>>, <<84, 84>>, <<87, 88>>, <<91, 93>>})
                                       -> "key_message"   \* prints a line
    [] OTHER                           -> "key_none"

Released(code) == code >= 128

\* Set or clear a flag as its key goes down or up.
Flag(f, code) == IF Released(code) THEN shifts \ {f} ELSE shifts \cup {f}

Toggle(f) == IF f \in shifts THEN shifts \ {f} ELSE shifts \cup {f}

\* Mutant: the prefix is not looked at.
AltFlag_NoPrefix == "lalt"

\* The flag of key_alt: the prefix tells the right key from the left one.
AltFlag == IF e0 = 1 THEN "ralt" ELSE "lalt"

\* Mutant: either key will do.
RebootKeys_Either == "ctrl" \in shifts \/ "lalt" \in shifts \/ "ralt" \in shifts

\* key_keypad's test for control, alt and delete.
RebootKeys == "ctrl" \in shifts /\ ("lalt" \in shifts \/ "ralt" \in shifts)

\* The shift state after a code that is no prefix.
NewShifts(code) ==
  LET key == key_table(code)
  IN  CASE key = "key_shift" -> Flag("shift", code)
        [] key = "key_ctrl"  -> Flag("ctrl", code)
        [] key = "key_alt"   -> Flag(AltFlag, code)
        [] key = "key_caps"  -> Toggle("capslock")
        [] key = "key_num"   -> Toggle("numlock")
        [] OTHER             -> shifts

\* key_letter uses letter_shift_map.
Upper == ("shift" \in shifts) # ("capslock" \in shifts)

\* What the handler of a code does besides: a character for the buffer, a
\* command (control and a letter: show_memory, show_tasks, the version), the
\* reboot, or nothing.
Effect(code) ==
  CASE key_table(code) = "key_letter" ->
         IF "ctrl" \in shifts THEN "command" ELSE IF Upper THEN "upper" ELSE "lower"
    [] key_table(code) = "key_keypad" /\ code = 83 /\ RebootKeys -> "reboot"
    [] OTHER -> "none"

\* do_keyboard_int.
do_keyboard_int ==
  /\ codes # <<>> /\ did # "reboot"
  /\ codes' = Tail(codes)
  /\ LET code == Head(codes)
     IN  \/ /\ code = 224
            /\ e0' = 1 /\ did' = "none"
            /\ UNCHANGED shifts
         \/ /\ code = 225
            /\ e0' = 2 /\ did' = "none"
            /\ UNCHANGED shifts
         \/ /\ code \notin {224, 225}
            /\ shifts' = NewShifts(code)
            /\ did' = Effect(code)
            /\ e0' = 0
  /\ UNCHANGED keyVars

\* The machine starts again, whichever keys are down.
Restart ==
  /\ did = "reboot"
  /\ codes' = <<>> /\ shifts' = {} /\ e0' = 0 /\ did' = "none"
  /\ num' \in BOOLEAN
  /\ UNCHANGED <<held, fake>>

Init ==
  /\ held = {} /\ fake = {}
  /\ num \in BOOLEAN   \* as the BIOS left it
  /\ codes = <<>>
  /\ shifts = {}
  /\ e0 = 0
  /\ did = "none"

Next ==
  \/ \E k \in Key : Press(k)
  \/ \E k \in held : Release(k)
  \/ do_keyboard_int
  \/ Restart

Spec == Init /\ [][Next]_vars

-----------------------------------------------------------------------------
\* No modifier sticks: once the codes of a keystroke have been handled, a flag
\* is set only while a key for it is down, whatever was pressed, repeated and
\* released in which order, the control codes inside Pause included.  key_shift
\* does not tell a fake shift from a real one, so a key that is sent as if Shift
\* was held counts as a shift key as long as it is down, and no longer.
ModifiersFollowKeys ==
  codes = <<>> =>
    /\ "shift" \in shifts => Down(Shift \cup fake)
    /\ "ctrl" \in shifts => Down(Ctrl)
    /\ "lalt" \in shifts => Down({"lalt"})
    /\ "ralt" \in shifts => Down({"ralt"})

\* The machine reboots, and a letter is a command, only while the keys for it
\* are down: no prefix, repeat or half-sent sequence is taken for them.
CommandsNeedKeys ==
  /\ did = "reboot" => Down(Ctrl) /\ Down(Alt) /\ Down({"keypad_del", "delete"})
  /\ did = "command" => Down(Ctrl)
=============================================================================
