------------------------------ MODULE Terminal ------------------------------
(***************************************************************************)
(* Printk and Console together: the kernel's messages, and what processes  *)
(* and the keyboard's echo write with puts, on the screen.                 *)
(***************************************************************************)
EXTENDS Printk, Console

CONSTANTS
  video,   \* the driver of console.c
  Output   \* the texts puts is called with

ASSUME TerminalAssumption == video \in Driver /\ Output \subseteq Seq(STRING)

vars == <<printkVars, consoleVars>>

Init == PrintkInit /\ ConsoleInit

Texts(pieces) == [i \in 1..Len(pieces) |-> pieces[i].text]

\* printk, which calls con_write with every piece once console_init has run.
Say(msg) ==
  /\ printk(msg)
  /\ IF video \in Range(consoles)
       THEN con_write(Texts(UpTo(Pieces(msg_level, msg), loglevel[video])))
       ELSE UNCHANGED consoleVars

\* Another driver registers (setup_telemetry).
Register(c, l) ==
  /\ c # video
  /\ register_console(c, l)
  /\ UNCHANGED consoleVars

\* console_init: two newlines, then register_console.
console_init(l) ==
  /\ register_console(video, l)
  /\ con_write(<<<<"\n", "\n">>>> \o Texts(UpTo(Replay, l)))

\* puts, past printk and its log.
puts(str) ==
  /\ calls < MaxCalls /\ video \in Range(consoles)
  /\ con_write(<<str>>)
  /\ calls' = calls + 1
  /\ UNCHANGED <<ringVars, msg_level, consoles, loglevel, out, logged, said>>

Next ==
  \/ \E m \in Message : Say(m)
  \/ \E c \in Driver, l \in Level : Register(c, l)
  \/ \E l \in Level : console_init(l)
  \/ \E s \in Output : puts(s)

Spec == Init /\ [][Next]_vars
=============================================================================
