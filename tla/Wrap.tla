-------------------------------- MODULE Wrap --------------------------------
(***************************************************************************)
(* The C library perl is linked with: the functions of kernel/perlwrap.c   *)
(* that do not touch the heap.  Pure operators; Libc calls them.  A result *)
(* that is a pointer into the argument is a position, 0 is a null pointer. *)
(***************************************************************************)
EXTENDS Format

ULONG_MAX == Word - 1
EOF       == -1
HZ        == 100
NULL      == 0

Letter == {lower[i] : i \in 11..16} \cup {upper[i] : i \in 11..16} \cup {"x", "X", "z"}
Space  == {" ", "\t", "\n"}

\* The order of the characters used here, that of their codes.
Codes == <<"NUL", "\t", "\n", " ", "+", "-", "/">> \o SubSeq(upper, 1, 16) \o <<"X">>
           \o SubSeq(lower, 11, 16) \o <<"l", "n", "u", "v", "x", "z">>
Code(c) == CHOOSE i \in DOMAIN Codes : Codes[i] = c

-----------------------------------------------------------------------------
(* Strings.                                                                *)

First(S) == IF S = {} THEN NULL ELSE CHOOSE i \in S : \A j \in S : i <= j
Final(S) == IF S = {} THEN NULL ELSE CHOOSE i \in S : \A j \in S : i >= j

\* memchr: the loop counts up to n and stops at the first match.
memchr(s, c, n) == First({i \in 1..n : At(s, i) = c})

\* strchr and strrchr: the loop ends before the NUL, which is never matched.
strchr(s, c)  == First({i \in 1..Len(s) : s[i] = c})
strrchr(s, c) == Final({i \in 1..Len(s) : s[i] = c})

strcpy(src)       == src
strcat(dest, src) == dest \o src

Sign(a, b) == IF Code(a) < Code(b) THEN -1 ELSE IF Code(a) > Code(b) THEN 1 ELSE 0

Never == 2   \* no result: the function does not return

\* strcmp: neither pointer is ever advanced, so the loop is left only if the
\* first characters differ or one of them is the NUL; otherwise it never ends.
strcmp(s1, s2) ==
  IF s1 # <<>> /\ s2 # <<>> /\ s1[1] = s2[1] THEN Never
  ELSE Sign(At(s1, 1), At(s2, 1))


\* The positions strncmp looks at, unless it stops before.
Compared(n) == 1..n

\* strncmp: the first of n positions that differ, or have the NUL, decides.
strncmp(s1, s2, n) ==
  LET stop == {i \in Compared(n) : At(s1, i) # At(s2, i) \/ At(s1, i) = "NUL"}
  IN  IF stop = {} THEN 0 ELSE Sign(At(s1, First(stop)), At(s2, First(stop)))

\* fopen knows one file.
devnull == <<"/", "d", "e", "v", "/", "n", "u", "l", "l">>
fopen(path) ==
  CASE strcmp(path, devnull) = Never -> "never"
    [] strcmp(path, devnull) = 0     -> "devnull"
    [] OTHER                         -> "NULL"

-----------------------------------------------------------------------------
(* strtoul, after glibc.                                                   *)

\* The value of a character as a digit; at least 36 if it is none.
Value(c) ==
  CASE c \in isxdigit -> DigitValue(c) [] c \in {"x", "X"} -> 33 [] c = "z" -> 35
    [] OTHER -> 36

\* Mutant: the last digit that fits is taken for an overflow.
TooLarge_Early(i, c, base) ==
  i > ULONG_MAX \div base \/ (i = ULONG_MAX \div base /\ c >= ULONG_MAX % base)

\* `i > cutoff || (i == cutoff && c > cutlim)'.
TooLarge(i, c, base) ==
  i > ULONG_MAX \div base \/ (i = ULONG_MAX \div base /\ c > ULONG_MAX % base)

\* The loop over the digits s[i..j-1]: the number, and has it overflowed?
Digits(s, i, j, base) ==
  LET r[k \in i..j] ==
        IF k = i THEN [i |-> 0, overflow |-> FALSE]
        ELSE LET p == r[k - 1]
                 c == Value(s[k - 1])
             IN  IF TooLarge(p.i, c, base) THEN [p EXCEPT !.overflow = TRUE]
                                           ELSE [p EXCEPT !.i = @ * base + c]
  IN  r[j]

\* Mutant: a prefix without a digit behind it counts as read.
NoDigits_BehindPrefix(save, hex) == IF hex THEN save ELSE 1

\* noconv: the end is the `x' of a prefix without digits, or the start.
NoDigits(save, hex) == IF hex THEN save - 1 ELSE 1

\* The result has the value, the position for endptr and the new errno (0 is
\* none).
strtoul(s, base0) ==
  LET a     == SkipOver(s, 1, Space)
      b     == IF At(s, a) \in {"-", "+"} THEN a + 1 ELSE a
      hex   == base0 \in {0, 16} /\ At(s, b) = "0" /\ At(s, b + 1) \in {"x", "X"}
      base  == IF hex THEN 16 ELSE IF base0 # 0 THEN base0
               ELSE IF At(s, b) = "0" THEN 8 ELSE 10
      save  == IF hex THEN b + 2 ELSE b
      end   == SkipOver(s, save, {c \in isxdigit \cup Letter : Value(c) < base})
      n     == Digits(s, save, end, base)
  IN  IF base0 < 0 \/ base0 = 1 \/ base0 > 36
        THEN [value |-> 0, end |-> 0, errno |-> "EINVAL"]
      ELSE IF end = save
        THEN [value |-> 0, end |-> NoDigits(save, hex), errno |-> "0"]
      ELSE IF n.overflow
        THEN [value |-> ULONG_MAX, end |-> end, errno |-> "ERANGE"]
      ELSE [value |-> IF At(s, a) = "-" THEN Negate(n.i, Word) ELSE n.i,
            end   |-> end, errno |-> "0"]

\* atoi: a cast to int.
atoi(s) ==
  LET v == strtoul(s, 10).value IN IF v >= Word \div 2 THEN v - Word ELSE v

-----------------------------------------------------------------------------
(* Stubs: they print their call, set errno to ENOSYS and return.           *)

miscStubs ==
  [chdir |-> -1, sleep |-> -1, chmod |-> -1, fork |-> -1, time |-> -1,
   localtime |-> NULL, gmtime |-> NULL, execl |-> -1, execv |-> -1, execvp |-> -1,
   kill |-> -1, rand |-> 1, srand |-> 0, link |-> -1, unlink |-> -1, umask |-> 0]

idStubs ==
  [wait |-> -1, tmpfile |-> NULL, getenv |-> NULL, putenv |-> -1, getpid |-> -1,
   getuid |-> -1, geteuid |-> -1, setgid |-> -1, setuid |-> -1, getgid |-> -1,
   getegid |-> -1, signal |-> -1, rename |-> -1]

fileStubs ==
  [strerror |-> "Unknown error", open |-> -1, close |-> -1, dup |-> -1, fclose |-> EOF, stat |-> -1, __xstat |-> -1,
   fstat |-> -1, __fxstat |-> -1, ftell |-> -1, rewind |-> 0, fseek |-> -1,
   fileno |-> -1, clearerr |-> 0, ferror |-> -1, feof |-> -1]

dirStubs ==
  [opendir |-> NULL, readdir |-> NULL, closedir |-> -1, fdopen |-> NULL,
   freopen |-> NULL, fread |-> 0, fflush |-> EOF, read |-> -1, write |-> -1,
   lseek |-> -1, pipe |-> -1, setvbuf |-> -1]

outStubs ==
  [vfprintf |-> -1, ungetc |-> EOF, fwrite |-> EOF, fputc |-> EOF,
   fputs |-> EOF, fprintf |-> -1, fgetc |-> -1]

\* These leave errno alone.
quietStubs ==
  [isatty |-> 1, __sysconf |-> HZ, _setjmp |-> 0, longjmp |-> 0]
mathStubs ==
  [f \in {"exp", "log", "pow", "floor", "fmod", "atan2", "sin", "cos", "sqrt",
          "ceil", "modf", "frexp"} |-> 0]
=============================================================================
