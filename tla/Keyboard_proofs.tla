--------------------------- MODULE Keyboard_proofs ---------------------------
(***************************************************************************)
(* The shift state of kernel/keyboard.c between the codes of a keystroke,  *)
(* for every set of keys and any number of them held down.                 *)
(***************************************************************************)
EXTENDS Keyboard, SequenceTheorems, TLAPS

\* The codes that the keys of Make send, their releases and the fake shifts.
Code == {25, 29, 42, 54, 55, 56, 58, 69, 83, 84, 153, 157, 170, 182, 183, 184, 186,
         197, 211, 212, 224, 225}

\* e0 after the code c.
Prefixed(c) == IF c = 224 THEN 1 ELSE IF c = 225 THEN 2 ELSE 0

\* e0 when the code s[i] is handled, if it is e when s[1] is.
Prefix(s, e, i) == IF i = 1 THEN e ELSE Prefixed(s[i - 1])

Pending(s, C) == \E i \in DOMAIN s : s[i] \in C

\* The keys down that the keyboard takes for Shift: those of H, and those of F
\* that it sent a fake shift for.
Shifting(H, F) == (H \cap Shift) \cup F

Del == {"keypad_del", "delete"}

\* What the codes s may be with the keys H down: no prefix comes last, and a
\* code sets a flag only if a key for it is down, or if, as in Pause, a later
\* code clears it again.
CodesOK(s, e, H, F) ==
  /\ s \in Seq(Code)
  /\ IF s = <<>> THEN e = 0 ELSE s[Len(s)] \notin {224, 225}
  /\ \A i \in DOMAIN s :
       /\ s[i] \in {42, 54} => Shifting(H, F) # {}
       /\ s[i] = 29 => H \cap Ctrl # {} \/ (\E j \in DOMAIN s : j > i /\ s[j] = 157)
       /\ s[i] = 56 => (IF Prefix(s, e, i) = 1 THEN "ralt" ELSE "lalt") \in H
       /\ s[i] = 83 => H \cap Del # {}
  /\ Pending(s, {25, 83}) => ~Pending(s, {29, 56, 157, 184})

\* A flag is set although no key for it is down only until the code that
\* clears it, which is on its way.
FlagsOK(s, e, H, F, S) ==
  /\ "shift" \in S => Shifting(H, F) # {} \/ Pending(s, {170, 182})
  /\ "ctrl" \in S => H \cap Ctrl # {} \/ Pending(s, {157})
  /\ "lalt" \in S => \/ "lalt" \in H
                     \/ \E i \in DOMAIN s : s[i] = 184 /\ Prefix(s, e, i) # 1
  /\ "ralt" \in S => \/ "ralt" \in H
                     \/ \E i \in DOMAIN s : s[i] = 184 /\ Prefix(s, e, i) = 1

\* The inductive invariant.
KeyInv ==
  /\ held \subseteq DOMAIN Make \ {"pause"}
  /\ fake \subseteq held \cap {"delete", "print"}
  /\ e0 \in 0..2
  /\ CodesOK(codes, e0, held, fake)
  /\ FlagsOK(codes, e0, held, fake, shifts)
  /\ CommandsNeedKeys

(* The handlers of the codes.                                              *)
LEMMA Table ==
  ASSUME NEW c \in Code \ {224, 225}
  PROVE  /\ key_table(c) = "key_shift" <=> c \in {42, 54, 170, 182}
         /\ key_table(c) = "key_ctrl" <=> c \in {29, 157}
         /\ key_table(c) = "key_alt" <=> c \in {56, 184}
         /\ key_table(c) = "key_letter" => c = 25
<1> DEFINE Letters == Ranges({<<1, 28>>, <<30, 41>>, <<43, 53>>, <<57, 57>>, <<86, 86>>})
           Messages == Ranges({<<59, 68>>, <<70, 70>>, <<84, 84>>, <<87, 88>>, <<91, 93>>})
<1>1. c # 25 => c \notin Letters
  BY DEF Ranges, Code
<1>2. c # 84 => c \notin Messages
  BY DEF Ranges, Code
<1>3. CASE c \in {42, 54, 170, 182}
  BY <1>1, <1>2, <1>3 DEF key_table
<1>4. CASE c \in {29, 157}
  BY <1>1, <1>2, <1>4 DEF key_table
<1>5. CASE c \in {56, 184}
  BY <1>1, <1>2, <1>5 DEF key_table
<1>6. CASE c \in {55, 58, 69, 83, 153, 183, 186, 197, 211, 212}
  BY <1>1, <1>2, <1>6 DEF key_table
<1>7. CASE c = 25
  BY <1>2, <1>7 DEF key_table
<1>8. CASE c = 84
  <2>1. 84 \in Messages
    BY DEF Ranges
  <2>2. QED
    BY <1>1, <1>8, <2>1 DEF key_table
<1>9. QED
  BY <1>3, <1>4, <1>5, <1>6, <1>7, <1>8 DEF Code

(* Handling a code moves the others up, with their prefixes.               *)
LEMMA TailCodes ==
  ASSUME NEW s \in Seq(Code), s # <<>>
  PROVE  /\ s[1] \in Code /\ Tail(s) \in Seq(Code)
         /\ DOMAIN Tail(s) = 1..(Len(s) - 1) /\ DOMAIN s = 1..Len(s)
         /\ Len(s) \in Nat \ {0} /\ Len(Tail(s)) = Len(s) - 1
         /\ \A i \in DOMAIN Tail(s) :
              /\ Tail(s)[i] = s[i + 1]
              /\ \A e : Prefix(Tail(s), Prefixed(s[1]), i) = Prefix(s, e, i + 1)
<1>1. /\ s[1] \in Code /\ Tail(s) \in Seq(Code)
      /\ DOMAIN Tail(s) = 1..(Len(s) - 1) /\ DOMAIN s = 1..Len(s)
      /\ Len(s) \in Nat \ {0} /\ Len(Tail(s)) = Len(s) - 1
      /\ \A i \in DOMAIN Tail(s) : Tail(s)[i] = s[i + 1]
  BY EmptySeq
<1>2. ASSUME NEW i \in DOMAIN Tail(s), NEW e
      PROVE  Prefix(Tail(s), Prefixed(s[1]), i) = Prefix(s, e, i + 1)
  <2>1. CASE i = 1
    BY <2>1 DEF Prefix
  <2>2. CASE i # 1
    <3>1. i - 1 \in DOMAIN Tail(s) /\ i - 1 + 1 = i /\ i + 1 - 1 = i /\ i + 1 # 1
      BY <1>1, <2>2
    <3>2. QED
      BY <1>1, <2>2, <3>1 DEF Prefix
  <2>3. QED
    BY <2>1, <2>2
<1>3. QED
  BY <1>1, <1>2

\* What is still to come behind the first code.
LEMMA TailPending ==
  ASSUME NEW s \in Seq(Code), s # <<>>, NEW C
  PROVE  /\ Pending(s, C) => s[1] \in C \/ Pending(Tail(s), C)
         /\ Pending(Tail(s), C) => Pending(s, C)
<1> USE TailCodes
<1>1. ASSUME NEW i \in DOMAIN s, s[i] \in C, s[1] \notin C
      PROVE  Pending(Tail(s), C)
  <2>1. i - 1 \in DOMAIN Tail(s) /\ Tail(s)[i - 1] = s[i]
    BY <1>1
  <2>2. QED
    BY <1>1, <2>1 DEF Pending
<1>2. ASSUME NEW i \in DOMAIN Tail(s), Tail(s)[i] \in C
      PROVE  Pending(s, C)
  <2>1. i + 1 \in DOMAIN s /\ s[i + 1] \in C
    BY <1>2
  <2>2. QED
    BY <2>1 DEF Pending
<1>3. QED
  BY <1>1, <1>2 DEF Pending

\* The codes behind the first one.
LEMMA TailOK ==
  ASSUME NEW s, NEW e, NEW H, NEW F, CodesOK(s, e, H, F), s # <<>>
  PROVE  CodesOK(Tail(s), Prefixed(s[1]), H, F)
<1>0. /\ Tail(s) \in Seq(Code) /\ DOMAIN Tail(s) = 1..(Len(s) - 1) /\ DOMAIN s = 1..Len(s)
      /\ Len(s) \in Nat \ {0} /\ Len(Tail(s)) = Len(s) - 1
      /\ \A i \in DOMAIN Tail(s) :
           Tail(s)[i] = s[i + 1] /\ Prefix(Tail(s), Prefixed(s[1]), i) = Prefix(s, e, i + 1)
  BY TailCodes DEF CodesOK
<1>1. IF Tail(s) = <<>> THEN Prefixed(s[1]) = 0 ELSE Tail(s)[Len(Tail(s))] \notin {224, 225}
  <2>1. CASE Len(s) = 1
    <3>1. Tail(s) \in Seq(Code) /\ Len(Tail(s)) = 0 /\ s[1] \notin {224, 225}
      BY <1>0, <2>1 DEF CodesOK
    <3>2. Tail(s) = <<>>
      BY <3>1, EmptySeq, Zenon
    <3>3. QED
      BY <3>1, <3>2 DEF Prefixed
  <2>2. CASE Len(s) # 1
    <3>1. Len(s) - 1 \in DOMAIN Tail(s) /\ Len(s) - 1 + 1 = Len(s) /\ Len(s) - 1 # 0
      BY <1>0, <2>2
    <3>2. Tail(s)[Len(s) - 1] = s[Len(s)] /\ Len(Tail(s)) = Len(s) - 1
      BY <1>0, <3>1
    <3>3. Tail(s) # <<>>
      BY <3>1, <3>2
    <3>4. QED
      BY <3>2, <3>3 DEF CodesOK
  <2>3. QED
    BY <2>1, <2>2
<1>2. ASSUME NEW i \in DOMAIN Tail(s)
      PROVE  /\ Tail(s)[i] \in {42, 54} => Shifting(H, F) # {}
             /\ Tail(s)[i] = 29 => \/ H \cap Ctrl # {}
                                  \/ \E j \in DOMAIN Tail(s) : j > i /\ Tail(s)[j] = 157
             /\ Tail(s)[i] = 56 =>
                  (IF Prefix(Tail(s), Prefixed(s[1]), i) = 1 THEN "ralt" ELSE "lalt") \in H
             /\ Tail(s)[i] = 83 => H \cap Del # {}
  <2>1. i + 1 \in DOMAIN s /\ s[i + 1] = Tail(s)[i]
    BY <1>0, <1>2
  <2>2. ASSUME NEW j \in DOMAIN s, j > i + 1, s[j] = 157
        PROVE  \E k \in DOMAIN Tail(s) : k > i /\ Tail(s)[k] = 157
    <3>1. j - 1 \in DOMAIN Tail(s) /\ j - 1 > i /\ Tail(s)[j - 1] = s[j]
      BY <1>0, <1>2, <2>2
    <3>2. QED
      BY <2>2, <3>1
  <2>3. QED
    BY <1>0, <1>2, <2>1, <2>2 DEF CodesOK
<1>3. Pending(Tail(s), {25, 83}) => ~Pending(Tail(s), {29, 56, 157, 184})
  BY TailPending DEF CodesOK
<1>4. QED
  BY <1>0, <1>1, <1>2, <1>3 DEF CodesOK

(* Which codes set a flag, and which clear it.                             *)
LEMMA ShiftsAfter ==
  ASSUME NEW c \in Code \ {224, 225}
  PROVE  /\ "shift" \in NewShifts(c) => c \in {42, 54} \/ ("shift" \in shifts /\ c \notin {170, 182})
         /\ "ctrl" \in NewShifts(c) => c = 29 \/ ("ctrl" \in shifts /\ c # 157)
         /\ "lalt" \in NewShifts(c) => \/ c = 56 /\ e0 # 1
                                       \/ "lalt" \in shifts /\ ~(c = 184 /\ e0 # 1)
         /\ "ralt" \in NewShifts(c) => \/ c = 56 /\ e0 = 1
                                       \/ "ralt" \in shifts /\ ~(c = 184 /\ e0 = 1)
<1> USE Table
<1>1. CASE c \in {42, 54, 170, 182}
  BY <1>1 DEF NewShifts, Flag, Released
<1>2. CASE c \in {29, 157}
  BY <1>2 DEF NewShifts, Flag, Released
<1>3. CASE c \in {56, 184}
  BY <1>3 DEF NewShifts, Flag, Released, AltFlag
<1>4. CASE c \notin {42, 54, 170, 182, 29, 157, 56, 184}
  BY <1>4 DEF NewShifts, Toggle
<1>5. QED
  BY <1>1, <1>2, <1>3, <1>4

(* The handler of a code leaves only flags whose key is down or whose      *)
(* clearing code is still on its way.                                      *)
LEMMA FlagsStep ==
  ASSUME KeyInv, do_keyboard_int
  PROVE  FlagsOK(codes', e0', held, fake, shifts')
<1> DEFINE c == Head(codes)
<1>1. /\ codes \in Seq(Code) /\ codes # <<>> /\ codes' = Tail(codes)
      /\ c = codes[1] /\ c \in Code /\ e0' = Prefixed(c)
      /\ 1 \in DOMAIN codes
  BY TailCodes DEF KeyInv, CodesOK, do_keyboard_int, Prefixed
<1>2. \A C : Pending(codes, C) => c \in C \/ Pending(codes', C)
  BY <1>1, TailPending
<1>3. \A i \in DOMAIN codes : i # 1 =>
        /\ i - 1 \in DOMAIN codes' /\ codes'[i - 1] = codes[i]
        /\ Prefix(codes', e0', i - 1) = Prefix(codes, e0, i)
  <2> SUFFICES ASSUME NEW i \in DOMAIN codes, i # 1
               PROVE  /\ i - 1 \in DOMAIN codes' /\ codes'[i - 1] = codes[i]
                      /\ Prefix(codes', e0', i - 1) = Prefix(codes, e0, i)
    OBVIOUS
  <2>1. i \in Int /\ i - 1 \in DOMAIN Tail(codes) /\ (i - 1) + 1 = i
    BY <1>1, TailCodes
  <2>2. QED
    BY <1>1, <2>1, TailCodes
<1>4. Prefix(codes, e0, 1) = e0
  BY DEF Prefix
<1>5. "shift" \in shifts' => Shifting(held, fake) # {} \/ Pending(codes', {170, 182})
  <2>1. "shift" \in shifts' => c \in {42, 54} \/ ("shift" \in shifts /\ c \notin {170, 182})
    BY <1>1, ShiftsAfter DEF do_keyboard_int
  <2>2. c \in {42, 54} => Shifting(held, fake) # {}
    BY <1>1 DEF KeyInv, CodesOK
  <2>3. QED
    BY <1>2, <2>1, <2>2 DEF KeyInv, FlagsOK
<1>6. "ctrl" \in shifts' => held \cap Ctrl # {} \/ Pending(codes', {157})
  <2>1. "ctrl" \in shifts' => c = 29 \/ ("ctrl" \in shifts /\ c # 157)
    BY <1>1, ShiftsAfter DEF do_keyboard_int
  <2>2. c = 29 => held \cap Ctrl # {} \/ (\E j \in DOMAIN codes : j > 1 /\ codes[j] = 157)
    BY <1>1 DEF KeyInv, CodesOK
  <2>3. ASSUME NEW j \in DOMAIN codes, j > 1, codes[j] = 157
        PROVE  Pending(codes', {157})
    BY <1>3, <2>3 DEF Pending
  <2>4. QED
    BY <1>2, <2>1, <2>2, <2>3 DEF KeyInv, FlagsOK
<1>7. "lalt" \in shifts' => \/ "lalt" \in held
                            \/ \E i \in DOMAIN codes' : codes'[i] = 184 /\ Prefix(codes', e0', i) # 1
  <2>1. "lalt" \in shifts' => \/ c = 56 /\ e0 # 1
                              \/ "lalt" \in shifts /\ ~(c = 184 /\ e0 # 1)
    BY <1>1, ShiftsAfter DEF do_keyboard_int
  <2>2. c = 56 /\ e0 # 1 => "lalt" \in held
    BY <1>1, <1>4 DEF KeyInv, CodesOK
  <2>3. "lalt" \in shifts => \/ "lalt" \in held
                             \/ \E i \in DOMAIN codes : codes[i] = 184 /\ Prefix(codes, e0, i) # 1
    BY DEF KeyInv, FlagsOK
  <2>4. QED
    BY <1>1, <1>3, <1>4, <2>1, <2>2, <2>3
<1>8. "ralt" \in shifts' => \/ "ralt" \in held
                            \/ \E i \in DOMAIN codes' : codes'[i] = 184 /\ Prefix(codes', e0', i) = 1
  <2>1. "ralt" \in shifts' => \/ c = 56 /\ e0 = 1
                              \/ "ralt" \in shifts /\ ~(c = 184 /\ e0 = 1)
    BY <1>1, ShiftsAfter DEF do_keyboard_int
  <2>2. c = 56 /\ e0 = 1 => "ralt" \in held
    BY <1>1, <1>4 DEF KeyInv, CodesOK
  <2>3. "ralt" \in shifts => \/ "ralt" \in held
                             \/ \E i \in DOMAIN codes : codes[i] = 184 /\ Prefix(codes, e0, i) = 1
    BY DEF KeyInv, FlagsOK
  <2>4. QED
    BY <1>1, <1>3, <1>4, <2>1, <2>2, <2>3
<1>9. QED
  BY <1>5, <1>6, <1>7, <1>8 DEF FlagsOK

(* What the keys send.                                                     *)
LEMMA Makes ==
  /\ DOMAIN Make = {"lshift", "rshift", "lctrl", "rctrl", "lalt", "ralt", "caps", "numlock",
                    "letter", "keypad_del", "delete", "print", "pause"}
  /\ Make["lshift"] = <<42>> /\ Make["rshift"] = <<54>>
  /\ Make["lctrl"] = <<29>> /\ Make["rctrl"] = <<224, 29>>
  /\ Make["lalt"] = <<56>> /\ Make["ralt"] = <<224, 56>>
  /\ Make["caps"] = <<58>> /\ Make["numlock"] = <<69>>
  /\ Make["letter"] = <<25>> /\ Make["keypad_del"] = <<83>> /\ Make["delete"] = <<224, 83>>
  /\ Make["print"] = <<224, 55>>
  /\ Make["pause"] = <<225, 29, 69, 225, 157, 197>>
  BY DEF Make

\* The codes of a release.
LEMMA Breaks ==
  /\ Break("lshift") = <<170>> /\ Break("rshift") = <<182>>
  /\ Break("lctrl") = <<157>> /\ Break("rctrl") = <<224, 157>>
  /\ Break("lalt") = <<184>> /\ Break("ralt") = <<224, 184>>
  /\ Break("caps") = <<186>> /\ Break("numlock") = <<197>>
  /\ Break("letter") = <<153>> /\ Break("keypad_del") = <<211>>
  /\ Break("delete") = <<224, 211>>
  /\ Break("print") \in {<<212>>, <<224, 183>>}
<1>1. \A k \in DOMAIN Make \ {"print"} : ~SysRq(k)
  BY DEF SysRq
<1>2. /\ Break("lshift") = <<170>> /\ Break("rshift") = <<182>>
      /\ Break("lctrl") = <<157>> /\ Break("rctrl") = <<224, 157>>
      /\ Break("lalt") = <<184>> /\ Break("ralt") = <<224, 184>>
  BY <1>1, Makes DEF Break
<1>3. /\ Break("caps") = <<186>> /\ Break("numlock") = <<197>>
      /\ Break("letter") = <<153>> /\ Break("keypad_del") = <<211>>
      /\ Break("delete") = <<224, 211>>
  BY <1>1, Makes DEF Break
<1>4. Break("print") \in {<<212>>, <<224, 183>>}
  BY Makes DEF Break
<1>5. QED
  BY <1>2, <1>3, <1>4

\* A key of one code is well formed.
LEMMA OneCode ==
  ASSUME NEW c \in Code \ {224, 225}, NEW H, NEW F,
         c \in {42, 54} => Shifting(H, F) # {}, c = 29 => H \cap Ctrl # {},
         c = 56 => "lalt" \in H, c = 83 => H \cap Del # {}
  PROVE  CodesOK(<<c>>, 0, H, F)
<1>1. <<c>> \in Seq(Code) /\ Len(<<c>>) = 1 /\ <<c>>[1] = c /\ DOMAIN <<c>> = {1} /\ <<c>> # <<>>
  OBVIOUS
<1>2. QED
  BY <1>1 DEF CodesOK, Pending, Prefix

\* A grey key is well formed.
LEMMA TwoCodes ==
  ASSUME NEW c \in Code \ {224, 225}, NEW H, NEW F,
         c \in {42, 54} => Shifting(H, F) # {}, c = 29 => H \cap Ctrl # {},
         c = 56 => "ralt" \in H, c = 83 => H \cap Del # {}
  PROVE  CodesOK(<<224, c>>, 0, H, F)
<1> DEFINE s == <<224, c>>
<1>1. s \in Seq(Code) /\ Len(s) = 2 /\ s[1] = 224 /\ s[2] = c /\ DOMAIN s = {1, 2} /\ s # <<>>
  BY DEF Code
<1>2. Prefix(s, 0, 2) = 1
  BY DEF Prefix, Prefixed
<1> HIDE DEF s
<1>3. \A C : Pending(s, C) <=> 224 \in C \/ c \in C
  BY <1>1 DEF Pending
<1>4. \A i \in DOMAIN s : i = 2 \/ s[i] = 224
  BY <1>1
<1>5. CodesOK(s, 0, H, F)
  BY <1>1, <1>2, <1>3, <1>4 DEF CodesOK
<1>6. QED
  BY <1>5 DEF s

\* So is the pause key.
LEMMA PauseCodes == \A H, F : CodesOK(<<225, 29, 69, 225, 157, 197>>, 0, H, F)
<1> TAKE H, F
<1> DEFINE s == <<225, 29, 69, 225, 157, 197>>
<1>1. /\ s \in Seq(Code) /\ Len(s) = 6 /\ DOMAIN s = 1..6 /\ s # <<>>
      /\ s[1] = 225 /\ s[2] = 29 /\ s[3] = 69 /\ s[4] = 225 /\ s[5] = 157 /\ s[6] = 197
  BY DEF Code
<1> HIDE DEF s
<1>2. CodesOK(s, 0, H, F)
  BY <1>1 DEF CodesOK, Pending
<1>3. QED
  BY <1>2 DEF s

\* Codes behind other codes.
LEMMA ConcatLast ==
  ASSUME NEW S, NEW s \in Seq(S), NEW t \in Seq(S), t # <<>>
  PROVE  /\ s \o t \in Seq(S) /\ s \o t # <<>>
         /\ (s \o t)[Len(s \o t)] = t[Len(t)]
<1>1. Len(s) \in Nat /\ Len(t) \in Nat \ {0}
  BY EmptySeq
<1>2. /\ s \o t \in Seq(S) /\ Len(s \o t) = Len(s) + Len(t)
      /\ \A i \in 1 .. Len(s) + Len(t) :
           (s \o t)[i] = IF i <= Len(s) THEN s[i] ELSE t[i - Len(s)]
  BY ConcatProperties
<1>3. Len(s) + Len(t) \in 1 .. Len(s) + Len(t) /\ Len(s) + Len(t) # 0
      /\ ~(Len(s) + Len(t) <= Len(s)) /\ Len(s) + Len(t) - Len(s) = Len(t)
  BY <1>1
<1>4. (s \o t)[Len(s) + Len(t)] = t[Len(t)]
  BY <1>2, <1>3
<1>5. s \o t # <<>>
  BY <1>2, <1>3
<1>6. QED
  BY <1>2, <1>4, <1>5

(* The fake shifts before or after a grey key.                             *)
LEMMA Unshifts ==
  ASSUME NEW l \in Code \ {224, 225}, NEW r \in Code \ {224, 225}
  PROVE  LET u == Unshift("delete", [lshift |-> l, rshift |-> r])
         IN  /\ u \in Seq({224, l, r})
             /\ u = <<>> \/ u[Len(u)] \in {l, r}
             /\ held \cap Shift = {} => u = <<>>
<1> DEFINE a == IF "lshift" \in held THEN <<224, l>> ELSE <<>>
           b == IF "rshift" \in held THEN <<224, r>> ELSE <<>>
           u == Unshift("delete", [lshift |-> l, rshift |-> r])
<1>0. u = IF num THEN <<>> ELSE a \o b
  BY DEF Unshift
<1> HIDE DEF u
<1>2. /\ a \in Seq({224, l, r}) /\ b \in Seq({224, l, r})
      /\ a = <<>> \/ (Len(a) = 2 /\ a[2] = l)
      /\ b = <<>> \/ (Len(b) = 2 /\ b[2] = r)
  <2>1. /\ <<>> \in Seq({224, l, r}) /\ <<224, l>> \in Seq({224, l, r})
        /\ <<224, r>> \in Seq({224, l, r})
        /\ Len(<<224, l>>) = 2 /\ <<224, l>>[2] = l
        /\ Len(<<224, r>>) = 2 /\ <<224, r>>[2] = r
    OBVIOUS
  <2>2. a = <<>> \/ a = <<224, l>>
    OBVIOUS
  <2>3. b = <<>> \/ b = <<224, r>>
    OBVIOUS
  <2> HIDE DEF a, b
  <2>4. a \in Seq({224, l, r}) /\ (a = <<>> \/ (Len(a) = 2 /\ a[2] = l))
    <3>1. CASE a = <<>>
      BY <2>1, <3>1
    <3>2. CASE a = <<224, l>>
      BY <2>1, <3>2
    <3>3. QED
      BY <2>2, <3>1, <3>2
  <2>5. b \in Seq({224, l, r}) /\ (b = <<>> \/ (Len(b) = 2 /\ b[2] = r))
    <3>1. CASE b = <<>>
      BY <2>1, <3>1
    <3>2. CASE b = <<224, r>>
      BY <2>1, <3>2
    <3>3. QED
      BY <2>3, <3>1, <3>2
  <2>6. QED
    BY <2>4, <2>5
<1>3. held \cap Shift = {} => a = <<>> /\ b = <<>>
  BY DEF Shift
<1> HIDE DEF a, b
<1> DEFINE X == {224, l, r}
<1> HIDE DEF X
<1>4. a \o b \in Seq({224, l, r})
  BY <1>2
<1>5. a \o b = <<>> \/ (a \o b)[Len(a \o b)] \in {l, r}
  <2>1. CASE b = <<>>
    <3>1. a \o b = a
      BY <1>2, <2>1, ConcatEmptySeq
    <3>2. QED
      BY <1>2, <3>1
  <2>2. CASE Len(b) = 2 /\ b[2] = r
    <3>1. b # <<>> /\ a \in Seq(X) /\ b \in Seq(X)
      BY <1>2, <2>2 DEF X
    <3>2. (a \o b)[Len(a \o b)] = b[Len(b)]
      BY <3>1, ConcatLast
    <3>3. QED
      BY <2>2, <3>2
  <2>3. QED
    BY <1>2, <2>1, <2>2
<1>6. held \cap Shift = {} => a \o b = <<>>
  BY <1>2, <1>3, ConcatEmptySeq
<1>7. u \in Seq({224, l, r}) /\ (u = <<>> \/ u[Len(u)] \in {l, r})
      /\ (held \cap Shift = {} => u = <<>>)
  <2>1. CASE num
    <3>1. u = <<>> /\ <<>> \in Seq({224, l, r})
      BY <1>0, <2>1
    <3>2. QED
      BY <3>1, Zenon
  <2>2. CASE ~num
    <3>1. u = a \o b
      BY <1>0, <2>2
    <3>2. QED
      BY <1>4, <1>5, <1>6, <3>1, Zenon
  <2>3. QED
    BY <2>1, <2>2
<1>8. QED
  BY <1>7, Zenon DEF u

\* Only a grey key has fake shifts.
LEMMA NoUnshift ==
  ASSUME NEW k, k # "delete", NEW f
  PROVE  Unshift(k, f) = <<>>
  BY DEF Unshift

(* Codes without a letter, a control or an alt key are well formed if they *)
(* set the shift flag only with a key for it down.                         *)
LEMMA PlainCodes ==
  ASSUME NEW C \in SUBSET (Code \ {25, 29, 56, 157, 184, 225}), NEW s \in Seq(C),
         s # <<>>, s[Len(s)] # 224, NEW H, NEW F,
         C \cap {42, 54} # {} => Shifting(H, F) # {},
         83 \in C => H \cap Del # {}
  PROVE  CodesOK(s, 0, H, F)
<1>1. s \in Seq(Code) /\ \A i \in DOMAIN s : s[i] \in C
  OBVIOUS
<1>2. Len(s) \in DOMAIN s
  BY EmptySeq
<1>3. s[Len(s)] \notin {224, 225}
  BY <1>1, <1>2
<1>4. ~Pending(s, {29, 56, 157, 184})
  BY <1>1 DEF Pending
<1>5. \A i \in DOMAIN s : s[i] # 29 /\ s[i] # 56
  BY <1>1
<1>6. \A i \in DOMAIN s : /\ s[i] \in {42, 54} => Shifting(H, F) # {}
                          /\ s[i] = 83 => H \cap Del # {}
  BY <1>1
<1>7. QED
  BY <1>1, <1>3, <1>4, <1>5, <1>6 DEF CodesOK

\* What goes before or behind a grey key keeps the codes well formed.
LEMMA TwoParts ==
  ASSUME NEW C \in SUBSET (Code \ {25, 29, 56, 157, 184, 225}),
         NEW s \in Seq(C), NEW t \in Seq(C),
         IF t = <<>> THEN s # <<>> /\ s[Len(s)] # 224 ELSE t[Len(t)] # 224,
         NEW H, NEW F,
         C \cap {42, 54} # {} => Shifting(H, F) # {},
         83 \in C => H \cap Del # {}
  PROVE  CodesOK(s \o t, 0, H, F)
<1>1. CASE t = <<>>
  <2>1. s \o t = s
    BY <1>1, ConcatEmptySeq
  <2>2. CodesOK(s, 0, H, F)
    BY <1>1, PlainCodes
  <2>3. QED
    BY <2>1, <2>2
<1>2. CASE t # <<>>
  <2>1. /\ s \o t \in Seq(C) /\ s \o t # <<>>
        /\ (s \o t)[Len(s \o t)] = t[Len(t)]
    BY <1>2, ConcatLast
  <2>2. (s \o t)[Len(s \o t)] # 224
    BY <1>2, <2>1
  <2>3. QED
    BY <2>1, <2>2, PlainCodes
<1>3. QED
  BY <1>1, <1>2

\* The codes of a key by itself.
LEMMA MakeCodes ==
  ASSUME KeyInv, NEW k \in DOMAIN Make, NEW H, NEW F, k # "pause" => k \in H
  PROVE  CodesOK(MakeOf(k), 0, H, F)
<1>1. /\ k \in Shift => H \cap Shift # {}
      /\ k \in Ctrl => H \cap Ctrl # {}
      /\ k \in Del => H \cap Del # {}
      /\ k \in Alt => k \in H
  BY DEF Shift, Ctrl, Del, Alt
<1>2. H \cap Shift # {} => Shifting(H, F) # {}
  BY DEF Shifting
<1>3. CASE k \in {"lshift", "rshift", "lctrl", "lalt", "caps", "numlock", "letter",
                  "keypad_del"}
  <2>1. PICK c \in Code \ {224, 225} :
          /\ Make[k] = <<c>>
          /\ c \in {42, 54} => k \in Shift
          /\ c = 29 => k \in Ctrl
          /\ c = 56 => k = "lalt"
          /\ c = 83 => k \in Del
    BY <1>3, Makes DEF Code, Shift, Ctrl, Del
  <2>2. MakeOf(k) = <<c>>
    BY <1>3, <2>1 DEF MakeOf, SysRq
  <2>3. c = 56 => "lalt" \in H
    BY <1>3, <2>1
  <2>4. CodesOK(<<c>>, 0, H, F)
    BY <1>1, <1>2, <2>1, <2>3, OneCode
  <2>5. QED
    BY <2>2, <2>4
<1>4. CASE k \in {"rctrl", "ralt", "delete"}
  <2>1. PICK c \in Code \ {224, 225} :
          /\ Make[k] = <<224, c>> /\ c \notin {42, 54}
          /\ c = 29 => k \in Ctrl
          /\ c = 56 => k = "ralt"
          /\ c = 83 => k \in Del
    BY <1>4, Makes DEF Code, Ctrl, Del
  <2>2. MakeOf(k) = <<224, c>>
    BY <1>4, <2>1 DEF MakeOf, SysRq
  <2>3. c = 56 => "ralt" \in H
    BY <1>4, <2>1
  <2>4. CodesOK(<<224, c>>, 0, H, F)
    BY <1>1, <2>1, <2>3, TwoCodes
  <2>5. QED
    BY <2>2, <2>4
<1>5. CASE k = "print"
  <2>1. MakeOf(k) \in {<<84>>, <<224, 55>>}
    BY <1>5, Makes DEF MakeOf
  <2>2. 84 \in Code \ {224, 225} /\ 55 \in Code \ {224, 225}
    BY DEF Code
  <2>3. CodesOK(<<84>>, 0, H, F) /\ CodesOK(<<224, 55>>, 0, H, F)
    BY <2>2, OneCode, TwoCodes
  <2>4. QED
    BY <2>1, <2>3
<1>6. CASE k = "pause"
  <2>1. MakeOf(k) = <<225, 29, 69, 225, 157, 197>>
    BY <1>6, Makes DEF MakeOf, SysRq
  <2>2. QED
    BY <2>1, PauseCodes
<1>7. QED
  BY <1>3, <1>4, <1>5, <1>6, Makes

\* A key goes down.
LEMMA PressStep ==
  ASSUME KeyInv, NEW k \in Key, Press(k)
  PROVE  KeyInv'
<1> USE KeyAssumption
<1>1. /\ held' \subseteq DOMAIN Make \ {"pause"} /\ held \subseteq held'
      /\ k # "pause" => k \in held'
      /\ k \in DOMAIN Make /\ codes = <<>> /\ e0 = 0 /\ e0' = 0 /\ shifts' = shifts
      /\ did' = "none"
  BY DEF KeyInv, CodesOK, Press
<1>2. fake \subseteq fake' /\ fake' \subseteq held' \cap {"delete", "print"}
  <2>1. Faked(k) => k \in {"delete", "print"}
    BY DEF Faked
  <2>2. QED
    BY <1>1, <2>1 DEF KeyInv, Press
<1>3. CodesOK(codes', 0, held', fake')
  <2>1. CodesOK(MakeOf(k), 0, held', fake')
    BY <1>1, MakeCodes
  <2>2. CASE k \in held \/ (~Faked(k) /\ k # "delete")
    <3>1. codes' = <<>> \o MakeOf(k)
      BY <2>2, NoUnshift DEF Press
    <3>2. MakeOf(k) \in Seq(Code)
      BY <2>1 DEF CodesOK
    <3>3. codes' = MakeOf(k)
      BY <3>1, <3>2, ConcatEmptySeq
    <3>4. QED
      BY <2>1, <3>3
  <2>3. CASE k \notin held /\ Faked(k)
    <3>1. codes' = <<224, 42>> \o MakeOf(k) /\ k \in fake'
      BY <2>3 DEF Press
    <3>2. Shifting(held', fake') # {}
      BY <3>1 DEF Shifting
    <3>3. MakeOf(k) \in {<<224, 83>>, <<224, 55>>}
          /\ (MakeOf(k) = <<224, 83>> => held' \cap Del # {})
      <4>1. CASE k = "delete"
        <5>1. MakeOf(k) = <<224, 83>>
          BY <4>1, Makes DEF MakeOf, SysRq
        <5>2. QED
          BY <1>1, <4>1, <5>1 DEF Del
      <4>2. CASE k = "print"
        <5>1. ~SysRq(k)
          BY <2>3, <4>2 DEF Faked, SysRq, Down
        <5>2. MakeOf(k) = <<224, 55>>
          BY <4>2, <5>1, Makes DEF MakeOf
        <5>3. <<224, 55>> # <<224, 83>>
          OBVIOUS
        <5>4. QED
          BY <5>2, <5>3
      <4>3. QED
        BY <2>3, <4>1, <4>2 DEF Faked
    <3>4. CASE MakeOf(k) = <<224, 83>>
      <4> DEFINE C == {224, 42, 83}
                 s == <<224, 42>>
                 t == <<224, 83>>
      <4>1. C \in SUBSET (Code \ {25, 29, 56, 157, 184, 225})
        BY DEF Code
      <4>2. s \in Seq(C) /\ t \in Seq(C) /\ t # <<>> /\ t[Len(t)] # 224
        OBVIOUS
      <4> HIDE DEF C, s, t
      <4>3. CodesOK(s \o t, 0, held', fake')
        BY <3>2, <3>3, <3>4, <4>1, <4>2, TwoParts
      <4>4. QED
        BY <3>1, <3>4, <4>3 DEF s, t
    <3>5. CASE MakeOf(k) = <<224, 55>>
      <4> DEFINE C == {224, 42, 55}
                 s == <<224, 42>>
                 t == <<224, 55>>
      <4>1. C \in SUBSET (Code \ {25, 29, 56, 157, 184, 225}) /\ 83 \notin C
        BY DEF Code
      <4>2. s \in Seq(C) /\ t \in Seq(C) /\ t # <<>> /\ t[Len(t)] # 224
        OBVIOUS
      <4> HIDE DEF C, s, t
      <4>3. CodesOK(s \o t, 0, held', fake')
        BY <3>2, <4>1, <4>2, TwoParts
      <4>4. QED
        BY <3>1, <3>5, <4>3 DEF s, t
    <3>6. QED
      BY <3>3, <3>4, <3>5
  <2>4. CASE k \notin held /\ ~Faked(k) /\ k = "delete"
    <3> DEFINE C == {224, 170, 182, 83}
               s == Unshift("delete", [lshift |-> 170, rshift |-> 182])
               t == <<224, 83>>
    <3>1. codes' = s \o t
      BY <2>4, Makes DEF Press, MakeOf, SysRq
    <3>2. C \in SUBSET (Code \ {25, 29, 56, 157, 184, 225}) /\ C \cap {42, 54} = {}
      BY DEF Code
    <3>3. s \in Seq(C)
      <4>1. s \in Seq({224, 170, 182})
        BY Unshifts DEF Code
      <4>2. QED
        BY <4>1, SeqMonotonic
    <3>4. t \in Seq(C) /\ t # <<>> /\ t[Len(t)] # 224
      OBVIOUS
    <3>5. held' \cap Del # {}
      BY <1>1, <2>4 DEF Del
    <3> HIDE DEF C, s, t
    <3>6. QED
      BY <3>1, <3>2, <3>3, <3>4, <3>5, TwoParts
  <2>5. QED
    BY <2>2, <2>3, <2>4
<1>4. FlagsOK(codes', 0, held', fake', shifts)
  BY <1>1, <1>2 DEF KeyInv, FlagsOK, Pending, Shifting
<1>5. CommandsNeedKeys'
  BY <1>1 DEF CommandsNeedKeys
<1>6. QED
  BY <1>1, <1>2, <1>3, <1>4, <1>5 DEF KeyInv

(* The break code of a key that is sent with fake shifts, and then these.  *)
LEMMA ReleaseGrey ==
  ASSUME KeyInv, NEW k \in {"delete", "print"}, Release(k)
  PROVE  /\ CodesOK(codes', 0, held', fake')
         /\ k \in fake => Pending(codes', {170, 182})
<1> DEFINE d == Break(k)
           u == IF k \in fake THEN <<224, 170>>
                ELSE Unshift(k, [lshift |-> 42, rshift |-> 54])
           B == {224, 211, 183, 212}
<1>1. codes' = d \o u /\ held' = held \ {k} /\ fake' = fake \ {k}
  BY DEF Release
<1>2. d \in Seq(B) /\ d # <<>> /\ d[Len(d)] # 224
  <2>1. d \in {<<212>>, <<224, 183>>, <<224, 211>>}
    BY Breaks
  <2>2. CASE d = <<212>>
    <3> DEFINE x == <<212>>
    <3>1. x \in Seq(B) /\ x # <<>> /\ x[Len(x)] # 224
      OBVIOUS
    <3> HIDE DEF d, x, B
    <3>2. d = x
      BY <2>2 DEF x
    <3>3. QED
      BY <3>1, <3>2
  <2>3. CASE d = <<224, 183>>
    <3> DEFINE x == <<224, 183>>
    <3>1. x \in Seq(B) /\ x # <<>> /\ x[Len(x)] # 224
      OBVIOUS
    <3> HIDE DEF d, x, B
    <3>2. d = x
      BY <2>3 DEF x
    <3>3. QED
      BY <3>1, <3>2
  <2>4. CASE d = <<224, 211>>
    <3> DEFINE x == <<224, 211>>
    <3>1. x \in Seq(B) /\ x # <<>> /\ x[Len(x)] # 224
      OBVIOUS
    <3> HIDE DEF d, x, B
    <3>2. d = x
      BY <2>4 DEF x
    <3>3. QED
      BY <3>1, <3>2
  <2>5. QED
    BY <2>1, <2>2, <2>3, <2>4
<1>3. CASE k \in fake
  <2> DEFINE C == B \cup {170}
             t == <<224, 170>>
  <2>1. u = t
    BY <1>3
  <2>2. C \in SUBSET (Code \ {25, 29, 56, 157, 184, 225}) /\ C \cap {42, 54} = {} /\ 83 \notin C
    BY DEF Code
  <2>3. t \in Seq(C) /\ t # <<>> /\ t[Len(t)] = 170
    OBVIOUS
  <2> HIDE DEF d, u, t
  <2>4. d \in Seq(C)
    BY <1>2, SeqMonotonic
  <2> HIDE DEF C, B
  <2>5. CodesOK(d \o t, 0, held', fake')
    <3>1. t[Len(t)] # 224
      BY <2>3
    <3>2. QED
      BY <2>2, <2>3, <2>4, <3>1, TwoParts
  <2>6. d \o t \in Seq(C) /\ d \o t # <<>> /\ (d \o t)[Len(d \o t)] = 170
    BY <2>3, <2>4, ConcatLast
  <2>7. Pending(d \o t, {170, 182})
    <3> DEFINE x == d \o t
    <3>1. x \in Seq(C) /\ x # <<>> /\ x[Len(x)] = 170
      BY <2>6
    <3> HIDE DEF x
    <3>2. Len(x) \in DOMAIN x
      BY <3>1, EmptySeq
    <3>3. Pending(x, {170, 182})
      BY <3>1, <3>2 DEF Pending
    <3>4. QED
      BY <3>3 DEF x
  <2>8. QED
    BY <1>1, <2>1, <2>5, <2>7
<1>4. CASE k \notin fake
  <2> DEFINE v == Unshift("delete", [lshift |-> 42, rshift |-> 54])
  <2>1. u \in {<<>>, v}
    <3>1. CASE k = "delete"
      BY <1>4, <3>1
    <3>2. CASE k = "print"
      BY <1>4, <3>2, NoUnshift
    <3>3. QED
      BY <3>1, <3>2
  <2>2. /\ v \in Seq({224, 42, 54})
        /\ v = <<>> \/ v[Len(v)] \in {42, 54}
        /\ held \cap Shift = {} => v = <<>>
    BY Unshifts DEF Code
  <2> HIDE DEF u, v, d
  <2>3. CASE u = <<>>
    <3>1. d \o u = d
      BY <1>2, <2>3, ConcatEmptySeq
    <3>2. B \in SUBSET (Code \ {25, 29, 56, 157, 184, 225}) /\ B \cap {42, 54} = {} /\ 83 \notin B
      BY DEF Code
    <3> HIDE DEF B
    <3>3. CodesOK(d, 0, held', fake')
      BY <1>2, <3>2, PlainCodes
    <3>4. QED
      BY <1>1, <1>4, <3>1, <3>3
  <2>4. CASE u # <<>>
    <3> DEFINE C == B \cup {42, 54}
    <3>1. u = v /\ v # <<>> /\ v[Len(v)] # 224 /\ held \cap Shift # {}
      BY <2>1, <2>2, <2>4
    <3>2. C \in SUBSET (Code \ {25, 29, 56, 157, 184, 225}) /\ 83 \notin C
      BY DEF Code
    <3>3. v \in Seq(C) /\ d \in Seq(C)
      BY <1>2, <2>2, SeqMonotonic
    <3>4. Shifting(held', fake') # {}
      BY <1>1, <3>1 DEF Shifting, Shift
    <3> HIDE DEF C, B
    <3>5. CodesOK(d \o v, 0, held', fake')
      BY <3>1, <3>2, <3>3, <3>4, TwoParts
    <3>6. QED
      BY <1>1, <1>4, <3>1, <3>5
  <2>5. QED
    BY <2>3, <2>4
<1>5. QED
  BY <1>3, <1>4

\* A key goes up.
LEMMA ReleaseStep ==
  ASSUME KeyInv, NEW k \in held, Release(k)
  PROVE  KeyInv'
<1>1. /\ held' = held \ {k} /\ k \in DOMAIN Make \ {"pause"}
      /\ fake' = fake \ {k} /\ fake' \subseteq held' \cap {"delete", "print"}
      /\ codes = <<>> /\ e0 = 0 /\ e0' = 0 /\ shifts' = shifts
      /\ did' = "none"
  BY DEF KeyInv, CodesOK, Release
<1>2. /\ "shift" \in shifts => Shifting(held, fake) # {}
      /\ "ctrl" \in shifts => held \cap Ctrl # {}
      /\ "lalt" \in shifts => "lalt" \in held
      /\ "ralt" \in shifts => "ralt" \in held
  BY <1>1 DEF KeyInv, FlagsOK, Pending
<1>3. CASE k \in {"delete", "print"}
  <2>1. /\ CodesOK(codes', 0, held', fake')
        /\ k \in fake => Pending(codes', {170, 182})
    BY <1>3, ReleaseGrey
  <2>2. k \notin fake => Shifting(held', fake') = Shifting(held, fake)
    BY <1>1, <1>3 DEF Shifting, Shift
  <2>3. FlagsOK(codes', 0, held', fake', shifts)
    BY <1>1, <1>2, <1>3, <2>1, <2>2 DEF FlagsOK, Ctrl
  <2>4. QED
    BY <1>1, <2>1, <2>3 DEF KeyInv, CommandsNeedKeys
<1>4. CASE k \notin {"delete", "print"}
  <2>0. fake' = fake /\ k \notin fake
    BY <1>1, <1>4 DEF KeyInv
  <2>1. CodesOK(Break(k), 0, held', fake')
    <3>1. CASE k \in {"rctrl", "ralt"}
      BY <3>1, Breaks, TwoCodes DEF Code
    <3>2. CASE k \notin {"rctrl", "ralt"}
      <4>1. \E d \in {157, 170, 182, 184, 186, 197, 153, 211} : Break(k) = <<d>>
        <5>1. k \in {"lshift", "rshift", "lctrl", "lalt", "caps", "numlock", "letter",
                     "keypad_del"}
          BY <1>1, <1>4, <3>2, Makes
        <5>2. QED
          BY <5>1, Breaks
      <4>2. PICK d \in {157, 170, 182, 184, 186, 197, 153, 211} : Break(k) = <<d>>
        BY <4>1
      <4>3. d \in Code \ {224, 225} /\ d \notin {42, 54, 29, 56, 83}
        BY DEF Code
      <4>4. CodesOK(<<d>>, 0, held', fake')
        BY <4>3, OneCode
      <4>5. QED
        BY <4>2, <4>4
    <3>3. QED
      BY <3>1, <3>2
  <2>2. codes' = Break(k)
    <3>1. Break(k) \in Seq(Code)
      BY <2>1 DEF CodesOK
    <3>2. QED
      BY <1>4, <2>0, <3>1, NoUnshift, ConcatEmptySeq DEF Release
  <2>3. CodesOK(codes', 0, held', fake')
    BY <2>1, <2>2
  <2>4. FlagsOK(codes', 0, held', fake', shifts)
    <3>1. k \notin Shift => Shifting(held', fake') = Shifting(held, fake)
      BY <1>1, <2>0 DEF Shifting
    <3>2. CASE k \notin {"lshift", "rshift", "lctrl", "rctrl", "lalt", "ralt"}
      BY <1>1, <1>2, <3>1, <3>2 DEF FlagsOK, Shift, Ctrl
    <3>3. CASE k \in {"lshift", "rshift"}
      <4>1. Pending(codes', {170, 182})
        BY <2>2, <3>3, Breaks DEF Pending
      <4>2. QED
        BY <1>1, <1>2, <3>3, <4>1 DEF FlagsOK, Ctrl
    <3>4. CASE k \in {"lctrl", "rctrl"}
      <4>1. codes' = <<157>> \/ codes' = <<224, 157>>
        BY <2>2, <3>4, Breaks
      <4>2. Pending(codes', {157})
        BY <4>1 DEF Pending
      <4>3. QED
        BY <1>1, <1>2, <3>1, <3>4, <4>2 DEF FlagsOK, Shift
    <3>5. CASE k = "lalt"
      <4>1. \E i \in DOMAIN codes' : codes'[i] = 184 /\ Prefix(codes', 0, i) # 1
        BY <2>2, <3>5, Breaks DEF Prefix
      <4>2. QED
        BY <1>1, <1>2, <3>1, <3>5, <4>1 DEF FlagsOK, Shift, Ctrl
    <3>6. CASE k = "ralt"
      <4>1. /\ 2 \in DOMAIN codes' /\ codes'[2] = 184 /\ codes'[1] = 224
        BY <2>2, <3>6, Breaks
      <4>2. \E i \in DOMAIN codes' : codes'[i] = 184 /\ Prefix(codes', 0, i) = 1
        BY <4>1 DEF Prefix, Prefixed
      <4>3. QED
        BY <1>1, <1>2, <3>1, <3>6, <4>2 DEF FlagsOK, Shift, Ctrl
    <3>7. QED
      BY <3>2, <3>3, <3>4, <3>5, <3>6
  <2>5. QED
    BY <1>1, <2>3, <2>4 DEF KeyInv, CommandsNeedKeys
<1>5. QED
  BY <1>3, <1>4

(* A letter is a command, and Delete reboots, with the keys for it down:   *)
(* no code that clears one of the flags is on its way then.                *)
LEMMA CommandStep ==
  ASSUME KeyInv, do_keyboard_int
  PROVE  CommandsNeedKeys'
<1> DEFINE c == Head(codes)
<1>1. /\ codes \in Seq(Code) /\ codes # <<>> /\ c = codes[1] /\ c \in Code /\ 1 \in DOMAIN codes
      /\ held' = held /\ fake' = fake
  BY TailCodes DEF KeyInv, CodesOK, do_keyboard_int, keyVars
<1>2. CASE did' = "command"
  <2>1. c = 25 /\ "ctrl" \in shifts
    BY <1>1, <1>2, Table DEF do_keyboard_int, Effect
  <2>2. ~Pending(codes, {29, 56, 157, 184})
    BY <1>1, <2>1 DEF KeyInv, CodesOK, Pending
  <2>3. held \cap Ctrl # {}
    BY <2>1, <2>2 DEF KeyInv, FlagsOK, Pending
  <2>4. QED
    BY <1>1, <1>2, <2>3 DEF CommandsNeedKeys, Down, Ctrl
<1>3. CASE did' = "reboot"
  <2>1. c = 83 /\ RebootKeys
    BY <1>1, <1>3, Table DEF do_keyboard_int, Effect
  <2>2. ~Pending(codes, {29, 56, 157, 184})
    BY <1>1, <2>1 DEF KeyInv, CodesOK, Pending
  <2>3. held \cap Ctrl # {} /\ held \cap Alt # {}
    BY <2>1, <2>2 DEF KeyInv, FlagsOK, Pending, RebootKeys, Alt
  <2>4. held \cap Del # {}
    BY <1>1, <2>1 DEF KeyInv, CodesOK
  <2>5. QED
    BY <1>1, <1>3, <2>3, <2>4 DEF CommandsNeedKeys, Down, Ctrl, Alt, Del
<1>4. QED
  BY <1>2, <1>3 DEF CommandsNeedKeys

\* No step breaks KeyInv.
LEMMA KeyInvStep == KeyInv /\ [Next]_vars => KeyInv'
<1> SUFFICES ASSUME KeyInv, [Next]_vars
             PROVE  KeyInv'
  OBVIOUS
<1>1. CASE \E k \in Key : Press(k)
  BY <1>1, PressStep
<1>2. CASE \E k \in held : Release(k)
  BY <1>2, ReleaseStep
<1>3. CASE do_keyboard_int
  <2>1. codes \in Seq(Code) /\ codes # <<>> /\ codes' = Tail(codes) /\ held' = held /\ fake' = fake
    BY <1>3 DEF KeyInv, CodesOK, do_keyboard_int, keyVars
  <2>2. e0' = Prefixed(codes[1])
    BY <1>3, <2>1, TailCodes DEF do_keyboard_int, Prefixed
  <2>3. CodesOK(codes', e0', held', fake')
    BY <2>1, <2>2, TailOK DEF KeyInv
  <2>4. FlagsOK(codes', e0', held', fake', shifts')
    BY <1>3, <2>1, FlagsStep
  <2>5. e0' \in 0..2
    BY <2>2 DEF Prefixed
  <2>6. QED
    BY <1>3, <2>1, <2>3, <2>4, <2>5, CommandStep DEF KeyInv
<1>4. CASE Restart
  BY <1>4 DEF Restart, KeyInv, CodesOK, FlagsOK, CommandsNeedKeys, Pending
<1>5. CASE UNCHANGED vars
  BY <1>5 DEF vars, keyVars, KeyInv, CommandsNeedKeys, Down
<1>6. QED
  BY <1>1, <1>2, <1>3, <1>4, <1>5 DEF Next

(* Between any two codes, of however many keys: a flag of shifts is set    *)
(* only while a key for it is down or the code that clears it is coming.   *)
THEOREM KeyInvariant == Spec => []KeyInv
<1>1. Init => KeyInv
  BY DEF Init, KeyInv, CodesOK, FlagsOK, CommandsNeedKeys, Pending
<1>2. QED
  BY <1>1, KeyInvStep, PTL DEF Spec

(* No modifier sticks, whatever do_keyboard_int is sent by any number of   *)
(* keys pressed, repeated and released in any order, the fake shifts of    *)
(* Print Screen and of the grey keys with and without NumLock included.    *)
THEOREM ModifiersFollowKeysCorrect == Spec => []ModifiersFollowKeys
<1>1. KeyInv => ModifiersFollowKeys
  BY DEF KeyInv, FlagsOK, Pending, ModifiersFollowKeys, Down, Shifting
<1>2. QED
  BY <1>1, KeyInvariant, PTL

(* key_keypad reboots, and key_letter takes a letter for a command, only   *)
(* while the keys for it are down.                                         *)
THEOREM CommandsNeedKeysCorrect == Spec => []CommandsNeedKeys
<1>1. KeyInv => CommandsNeedKeys
  BY DEF KeyInv
<1>2. QED
  BY <1>1, KeyInvariant, PTL
=============================================================================
