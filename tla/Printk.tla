------------------------------- MODULE Printk -------------------------------
(***************************************************************************)
(* Kernel messages: the log ring of kernel/printk.c and the consoles that  *)
(* printk writes to.  A console that is registered late is first sent what *)
(* the ring still holds, without the messages above its level.             *)
(*                                                                         *)
(* printk and register_console hold the lock throughout, so each is one    *)
(* step.  Text is a sequence of characters, after vsprintf.  Terminal adds *)
(* what the video driver does with what it is sent.                        *)
(***************************************************************************)
EXTENDS Integers, Sequences, SequencesExt

CONSTANTS
  Driver,      \* the console drivers
  Level,       \* the loglevels a console is registered with
  Message,     \* the texts printk is called with
  LogBufSize,  \* LOG_BUF_SIZE, 16384 in the code
  Chunk,       \* sizeof(buf) - 1 in register_console, 15 in the code
  MaxCalls     \* bound: calls of printk

ASSUME PrintkAssumption ==
  /\ Level \subseteq 0..7
  /\ Message \subseteq Seq(STRING) /\ <<>> \notin Message
  /\ LogBufSize \in Nat \ {0} /\ Chunk \in Nat /\ Chunk > 3
  /\ MaxCalls \in Nat

VARIABLES
  log_buf, log_start, log_size,  \* the ring
  msg_level,   \* the level of the line that is not finished; -1 if none
  consoles,    \* the list of consoles, the last one first
  loglevel,    \* console -> its level
  out,         \* console -> all it has been sent
  logged,      \* all that went into the ring: logged_chars is its length
  said,        \* the pieces of text printed: {[level, text]}, in order
  calls

ringVars == <<log_buf, log_start, log_size>>
printkVars == <<ringVars, msg_level, consoles, loglevel, out, logged, said, calls>>

LOGLEVEL_DEFAULT == 4
Digit == <<"0", "1", "2", "3", "4", "5", "6", "7">>
Slot == 0..(LogBufSize - 1)

PrintkInit ==
  /\ log_buf = [i \in Slot |-> ""] /\ log_start = 0 /\ log_size = 0
  /\ msg_level = -1
  /\ consoles = <<>>
  /\ loglevel = [c \in Driver |-> 0]
  /\ out = [c \in Driver |-> <<>>]
  /\ logged = <<>> /\ said = <<>>
  /\ calls = 0

-----------------------------------------------------------------------------
\* Does s start with a log level, "<n>"?
HasLevel(s) ==
  Len(s) >= 3 /\ s[1] = "<" /\ s[2] \in Range(Digit) /\ s[3] = ">"

LevelOf(s) == (CHOOSE n \in 1..8 : Digit[n] = s[2]) - 1

\* The text cut behind every character of `ends'.
Cut(s, ends) ==
  FoldLeft(LAMBDA ls, ch :
             IF ls = <<>> \/ Last(Last(ls)) \in ends
               THEN Append(ls, <<ch>>)
               ELSE Append(Front(ls), Append(Last(ls), ch)),
           <<>>, s)

\* One turn of printk's outer loop: what a line, or the start of one, is at
\* level `level': its level, the text for the consoles and that for the log.
Piece(level, line) ==
  IF level >= 0
    THEN [level |-> level, text |-> line, log |-> line]
    ELSE IF HasLevel(line)
      THEN [level |-> LevelOf(line), text |-> SubSeq(line, 4, Len(line)), log |-> line]
      ELSE [level |-> LOGLEVEL_DEFAULT, text |-> line,
            log |-> <<"<", Digit[LOGLEVEL_DEFAULT + 1], ">">> \o line]

\* The level that remains: none behind a newline or a carriage return.
After(piece) == IF Last(piece.log) \in {"\n", "\r"} THEN -1 ELSE piece.level

\* The pieces of a whole message.
Pieces(level, msg) ==
  FoldLeft(LAMBDA ps, line :
             Append(ps, Piece(IF ps = <<>> THEN level ELSE After(Last(ps)), line)),
           <<>>, Cut(msg, {"\n", "\r"}))

Text(pieces) == FoldLeft(LAMBDA t, p : t \o p.text, <<>>, pieces)
Log(pieces)  == FoldLeft(LAMBDA t, p : t \o p.log, <<>>, pieces)

\* What a console with level l is sent of the pieces.
UpTo(pieces, l) ==
  FoldLeft(LAMBDA ps, p : IF p.level <= l THEN Append(ps, p) ELSE ps, <<>>, pieces)
Seen(pieces, l) == Text(UpTo(pieces, l))

\* Mutant: a full ring keeps its start.
AddToRing_StartKept(r, ch) ==
  [buf   |-> [r.buf EXCEPT ![(r.start + r.size) % LogBufSize] = ch],
   start |-> r.start,
   size  |-> IF r.size < LogBufSize THEN r.size + 1 ELSE r.size]

\* One character goes into the ring; a full ring loses its oldest.
AddToRing(r, ch) ==
  [buf   |-> [r.buf EXCEPT ![(r.start + r.size) % LogBufSize] = ch],
   start |-> IF r.size < LogBufSize THEN r.start ELSE r.start + 1,
   size  |-> IF r.size < LogBufSize THEN r.size + 1 ELSE r.size]

printk(msg) ==
  /\ calls < MaxCalls
  /\ LET ps == Pieces(msg_level, msg)
         r  == FoldLeft(AddToRing,
                        [buf |-> log_buf, start |-> log_start, size |-> log_size],
                        Log(ps))
     IN  /\ log_buf' = r.buf /\ log_start' = r.start /\ log_size' = r.size
         /\ msg_level' = After(Last(ps))
         /\ out' = [c \in Driver |-> IF c \in Range(consoles)
                                        THEN out[c] \o Seen(ps, loglevel[c])
                                        ELSE out[c]]
         /\ logged' = logged \o Log(ps)
         /\ said' = said \o ps
  /\ calls' = calls + 1
  /\ UNCHANGED <<consoles, loglevel>>

-----------------------------------------------------------------------------
\* The ring, oldest character first.
Ring == [i \in 1..log_size |-> log_buf[(log_start + i - 1) % LogBufSize]]

\* register_console empties its buffer at a newline and when it is full.
Chunks(s) ==
  FoldLeft(LAMBDA cs, ch :
             IF cs = <<>> \/ Last(Last(cs)) = "\n" \/ Len(Last(cs)) = Chunk
               THEN Append(cs, <<ch>>)
               ELSE Append(Front(cs), Append(Last(cs), ch)),
           <<>>, s)

\* Mutant: the level is forgotten with every chunk.
Replayed_PerChunk(r, chunk) ==
  LET p == Piece(-1, chunk)
  IN  [level |-> -1, pieces |-> Append(r.pieces, p)]

\* One turn of its loop: r has the level so far and the pieces sent.
Replayed(r, chunk) ==
  LET p == Piece(r.level, chunk)
  IN  [level  |-> IF Last(chunk) = "\n" THEN -1 ELSE p.level,
       pieces |-> Append(r.pieces, p)]

Replay == FoldLeft(Replayed, [level |-> -1, pieces |-> <<>>], Chunks(Ring)).pieces

register_console(con, l) ==
  /\ con \notin Range(consoles)
  /\ consoles' = <<con>> \o consoles
  /\ loglevel' = [loglevel EXCEPT ![con] = l]
  /\ out' = [out EXCEPT ![con] = Seen(Replay, l)]
  /\ UNCHANGED <<ringVars, msg_level, logged, said, calls>>

-----------------------------------------------------------------------------
\* The ring holds the end of everything that was logged, in order, however
\* often it has wrapped.
LogIsSuffix ==
  /\ log_size <= LogBufSize
  /\ IsSuffix(Ring, logged)
  /\ log_size < LogBufSize => Ring = logged

\* A console misses nothing and is sent nothing twice: whenever it was
\* registered, in the middle of a line or after half the messages, all it has
\* been sent is the text of all messages up to its level, with no level prefix
\* in it, as long as the ring has not overflowed.  (A carriage return is left
\* out: printk ends a message at one, the replay does not.)
ConsoleComplete ==
  Len(logged) <= LogBufSize /\ "\r" \notin Range(logged) =>
    \A c \in Range(consoles) : out[c] = Seen(said, loglevel[c])
=============================================================================
