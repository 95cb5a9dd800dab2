-------------------------------- MODULE Libc --------------------------------
(***************************************************************************)
(* The C library as perl uses it, on top of the allocators of Memory: the  *)
(* heap functions of kernel/perlwrap.c, which go through kalloc and kfree, *)
(* and calls of the pure functions of Wrap and Format.                     *)
(*                                                                         *)
(* The owner of a block writes a mark into all its words.  Of one block at *)
(* a time, whichever, the model remembers what was written (watched), so   *)
(* that a store into it, or a copy that goes wrong, shows in memory.       *)
(***************************************************************************)
EXTENDS Memory, Wrap

CONSTANTS
  Directives,  \* directives of sprintf: [flags, width, precision, qualifier, conv]
  Values,      \* the arguments they are called with
  Formats,     \* other formats, as text
  Numbers,     \* strings for strtoul
  Bases,       \* bases for strtoul
  Strings      \* strings to compare

\* All pages have a number, and what is asked for is less than can be numbered.
ASSUME LibcAssumption ==
  /\ MemoryEnd <= PageNumbers * PageWords
  /\ \A n \in Sizes : n + BlockHeader + PageWords <= PageNumbers * PageWords

VARIABLES
  errno,
  call,    \* the heap function that is running and the blocks it works on
  watched, \* at most one {[b, v, len]}: the first len words of b are v
  result   \* the last call of a pure function

libcVars == <<errno, call, watched, result>>

Idle == [f |-> "none", old |-> {}, new |-> {}]
NoResult == [f |-> "none"]

LibcInit ==
  /\ Init
  /\ errno = "0"
  /\ call = Idle
  /\ watched = {}
  /\ result = NoResult

-----------------------------------------------------------------------------
(* The heap.                                                               *)

\* malloc, calloc, realloc and qsort begin with kalloc; `old' is the block
\* realloc was given.  A call after a pure function is not explored.
Begin(f, n, old) ==
  /\ call = Idle /\ result = NoResult
  /\ Kalloc(n)
  /\ call' = [Idle EXCEPT !.f = f, !.old = old]
  /\ UNCHANGED <<errno, watched, result>>

\* malloc, and kalloc itself: create_process calls it for init while the init
\* segment is still there.  perl starts after that is freed.
malloc(n)     == Begin("malloc", n, {})
calloc(n)     == init_free /\ Begin("calloc", n, {})
realloc(b, n) == init_free /\ Begin("realloc", n, {b})
qsort(n)      == init_free /\ Begin("qsort", n, {})

Grow == KallocGrow /\ UNCHANGED libcVars

\* kalloc returns.
Take ==
  /\ KallocTake
  /\ call' = [call EXCEPT !.new = blocks' \ blocks]
  /\ UNCHANGED <<errno, watched, result>>

\* The word at address a; where there is no memory a read gives all ones.
Read(a) == IF a \in Addr THEN mem[a] ELSE -1

Fill(b, v) == [a \in Addr |-> IF a \in Words(b.at, b.n) THEN v ELSE mem[a]]

\* Mutant: the last word is not copied.
Copied_Short(b, old) ==
  [a \in Addr |-> IF a \in Words(b.at, b.n - 1) THEN Read(old.at + a - b.at) ELSE mem[a]]

\* memcpy of as many words as the new block has, past the end of the old one.
Copied(b, old) ==
  [a \in Addr |-> IF a \in Words(b.at, b.n) THEN Read(old.at + a - b.at) ELSE mem[a]]

Shorter(m, n) == IF m < n THEN m ELSE n

\* A block that is filled with v may become the one that is watched.
MayWatch(b, v) ==
  \/ watched = {} /\ watched' = {[b |-> b, v |-> v, len |-> b.n]}
  \/ UNCHANGED watched

\* What follows the kalloc: malloc's caller writes its mark, -1; calloc clears
\* the block; realloc copies, and goes on to free the old block.
Finish ==
  /\ Running /\ call.f \in {"malloc", "calloc", "realloc"}
  /\ \E b \in call.new :
       \/ /\ call.f = "malloc" /\ call' = Idle
          /\ mem' = Fill(b, -1) /\ MayWatch(b, -1)
       \/ /\ call.f = "calloc" /\ call' = Idle
          /\ mem' = Fill(b, 0) /\ MayWatch(b, 0)
       \/ /\ call.f = "realloc" /\ call' = [Idle EXCEPT !.f = "free", !.old = call.old]
          /\ \E old \in call.old :
               /\ mem' = Copied(b, old)
               /\ watched' = {IF w.b = old THEN [w EXCEPT !.b = b, !.len = Shorter(@, b.n)]
                                           ELSE w : w \in watched}
  /\ UNCHANGED <<blocks, want, init_free, released, clobbered, panicked, errno, result>>

Forget(b) == watched' = {w \in watched : w.b # b}

\* The end of realloc.
ReallocFree ==
  /\ call.f = "free" /\ call' = Idle
  /\ \E b \in call.old : Kfree(b) /\ Forget(b)
  /\ UNCHANGED <<errno, result>>

\* qsort allocates an element and frees it; it sorts nothing.
QsortEnd ==
  /\ call.f = "qsort"
  /\ \E b \in call.new : Kfree(b)
  /\ call' = Idle
  /\ UNCHANGED <<errno, watched, result>>

\* free, and realloc to 0 bytes.
free(b) ==
  /\ init_free /\ call = Idle /\ result = NoResult
  /\ Kfree(b) /\ Forget(b)
  /\ UNCHANGED <<errno, call, result>>

\* The init process, before it creates perl's.
InitFreed == call = Idle /\ result = NoResult /\ FreeInit /\ UNCHANGED libcVars

-----------------------------------------------------------------------------
(* Pure functions.  They do not read the heap, so it is enough to call     *)
(* them before anything is allocated.                                      *)

BeforeHeap ==
  Running /\ call = Idle /\ result = NoResult /\ blocks = {} /\ ~init_free /\ mem[blocks_head + 1] = 0

Returns(r, e) ==
  /\ result' = r /\ errno' = e
  /\ UNCHANGED <<vars, call, watched>>

\* sprintf with a single directive and its argument.
AsText(n) == Numeral(n, 10, lower)
FormatOf(d) ==
  <<"%">> \o d.flags \o (IF d.width = -1 THEN <<>> ELSE AsText(d.width))
    \o (IF d.precision = -1 THEN <<>> ELSE <<".">> \o AsText(d.precision))
    \o (IF d.qualifier = "none" THEN <<>> ELSE <<d.qualifier>>) \o <<d.conv>>

sprintf(d, v) ==
  Returns([f |-> "sprintf", d |-> d, v |-> v, r |-> vsprintf(FormatOf(d), <<v>>)], errno)

\* A string and a character in a field each, and the length so far.
sprintfText(d, s) ==
  LET g == FormatOf([d EXCEPT !.conv = "c", !.precision = -1])
  IN  Returns([f |-> "text", d |-> d, s |-> s,
               r |-> vsprintf(FormatOf(d) \o <<"%", "n">> \o g, <<s, "ptr", "z">>)], errno)

\* sprintf with any format, and arguments to spare.
sprintfAny(f) ==
  Returns([f |-> "format", fmt |-> f, r |-> vsprintf(f, [i \in 1..Len(f) |-> i])], errno)

CallStrtoul(s, base) ==
  LET r == strtoul(s, base)
  IN  Returns([f |-> "strtoul", s |-> s, base |-> base, r |-> r, atoi |-> atoi(s),
               simple |-> simple_strtol(s, base), double |-> simple_strtoll(s, base)],
              IF r.errno = "0" THEN errno ELSE r.errno)

CallCompare(s, t, n) ==
  Returns([f |-> "compare", s |-> s, t |-> t, n |-> n,
           strcmp |-> strcmp(s, t), strncmp |-> strncmp(s, t, n)], errno)

\* strcat, strcpy, strchr, strrchr and memchr in one: look for c in s \o t.
CallSearch(s, t, c) ==
  LET u == strcat(strcpy(s), t)
  IN  Returns([f |-> "search", s |-> s, t |-> t, c |-> c, strchr |-> strchr(u, c),
               strrchr |-> strrchr(u, c), memchr |-> memchr(u, c, Len(s))], errno)

CallFopen(path) ==
  Returns([f |-> "fopen", path |-> path, r |-> fopen(path)],
          IF fopen(path) = "NULL" THEN "ENOSYS" ELSE errno)

Stub(stubs) ==
  \E f \in DOMAIN stubs :
    Returns([f |-> f, r |-> stubs[f]],
            IF stubs \in {quietStubs, mathStubs} THEN errno ELSE "ENOSYS")

\* exit and _exit panic.
exit ==
  /\ panicked' = TRUE /\ errno' = "ENOSYS"
  /\ UNCHANGED <<mem, blocks, want, init_free, released, clobbered, call, watched, result>>

-----------------------------------------------------------------------------
Heap ==
  \/ \E n \in Sizes : malloc(n) \/ calloc(n) \/ qsort(n)
  \/ \E b \in blocks : free(b) \/ \E n \in Sizes : realloc(b, n)
  \/ Grow \/ Take \/ Finish \/ ReallocFree \/ QsortEnd \/ InitFreed

Pure ==
  /\ BeforeHeap
  /\ \/ \E d \in Directives :
          \/ d.conv # "s" /\ \E v \in Values : sprintf(d, v)
          \/ d.conv = "s" /\ \E s \in Strings \cup {NullString} : sprintfText(d, s)
     \/ \E f \in Formats : sprintfAny(f)
     \/ \E s \in Numbers, b \in Bases : CallStrtoul(s, b)
     \/ \E s, t \in Strings, n \in 0..4 : CallCompare(s, t, n)
     \/ \E s, t \in Strings, c \in {"a", "z", "NUL"} : CallSearch(s, t, c)
     \/ \E p \in Strings \cup {devnull} : CallFopen(p)
     \/ Stub(miscStubs) \/ Stub(idStubs) \/ Stub(fileStubs) \/ Stub(dirStubs)
     \/ Stub(outStubs) \/ Stub(quietStubs) \/ Stub(mathStubs) \/ exit

LibcNext == Heap \/ Pure
LibcSpec == LibcInit /\ [][LibcNext]_<<vars, libcVars>>

-----------------------------------------------------------------------------
\* No store of the allocators lands in a block that is allocated, calloc's
\* blocks are clear, and realloc carries the contents over, up to the smaller
\* of the two sizes, although it reads past the end of the old block: what an
\* owner has written is there until it frees the block.  That holds also of the
\* node that is stored past a block of less than a word: it reaches a header,
\* but never the contents behind it.
ContentsKept ==
  ~released /\ ~panicked => \A w \in watched : \A a \in Words(w.b.at, w.len) : mem[a] = w.v

\* The number an integer directive is given, as a magnitude and a sign.
Magnitude(d, v) ==
  LET bits == CASE d.qualifier = "h" -> ShortBits [] d.qualifier = "L" -> 2 * LongBits
                [] OTHER -> LongBits
      u    == v % 2^bits
      neg  == d.conv = "d" /\ d.qualifier # "Z" /\ u >= 2^(bits - 1)
  IN  [neg |-> neg, abs |-> IF neg THEN 2^bits - u ELSE u]

BaseOf(conv) == CASE conv \in {"d", "u"} -> 10 [] conv = "o" -> 8 [] OTHER -> 16

\* The z digits of n in a base, each where it belongs.
Positional(n, base, z, digits) ==
  [i \in 1..z |-> digits[((n \div base^(z - i)) % base) + 1]]

Flags(d) == {d.flags[i] : i \in DOMAIN d.flags}

\* number() prints the number it is given, whichever halves of the double word
\* it is in, with the right sign and prefix, at least `precision' digits, in a
\* field at least `width' wide, padded on the side and with the character the
\* flags ask for and by no more than the width needs.
NumberFormatted ==
  result.f = "sprintf" =>
    LET d == result.d
        out == result.r.out
        m == Magnitude(d, result.v)
        base == BaseOf(d.conv)
        sign == IF m.neg THEN <<"-">>
                ELSE IF d.conv = "d" /\ "+" \in Flags(d) THEN <<"+">>
                ELSE IF d.conv = "d" /\ " " \in Flags(d) THEN <<" ">> ELSE <<>>
        prefix == IF "#" \in Flags(d) /\ base = 8 THEN <<"0">>
                  ELSE IF "#" \in Flags(d) /\ base = 16
                    THEN <<"0", IF d.conv = "X" THEN "X" ELSE "x">> ELSE <<>>
        pointer == d.conv = "p" /\ d.width = -1
        width == IF pointer THEN LongBits \div 4 ELSE d.width
        flags == Flags(d) \cup (IF pointer THEN {"0"} ELSE {})
        room == Len(out) - Len(sign) - Len(prefix)
    IN  \E l, r \in 0..room :
          LET z == room - l - r
              padded == Len(out) = width
          IN  /\ z > 0 /\ m.abs < base^z /\ z >= d.precision /\ Len(out) >= width
              /\ out = Pad(" ", l) \o sign \o prefix
                         \o Positional(m.abs, base, z, IF d.conv = "X" THEN upper ELSE lower)
                         \o Pad(" ", r)
              /\ l > 0 => padded /\ flags \cap {"-", "0"} = {}
              /\ r > 0 => padded /\ "-" \in flags
              /\ z > 1 /\ z > d.precision /\ m.abs < base^(z - 1) =>
                   padded /\ "0" \in flags /\ "-" \notin flags

\* What sprintf prints of a word strtoul reads back, to the same value and to
\* the end of the digits, whatever the flags put around them.
RoundTrip ==
  result.f = "sprintf" /\ result.d.qualifier = "none" =>
    LET r == strtoul(result.r.out, BaseOf(result.d.conv))
    IN  /\ r.value = result.v % Word /\ r.errno = "0"
        /\ \A i \in r.end..Len(result.r.out) : result.r.out[i] = " "

\* A string in a field is its longest prefix the precision allows, however
\* short of its NUL that is, padded to the width on the one side the flags ask
\* for; %n stores what has been written before it, and %c pads like a string.
TextFormatted ==
  result.f = "text" =>
    LET d == result.d
        out == result.r.out
        given == IF result.s = NullString THEN <<"<", "N", "U", "L", "L", ">">> ELSE result.s
        text == IF d.precision \in 0..Len(given) THEN SubSeq(given, 1, d.precision) ELSE given
        n == result.r.stored
        InField(t, field) ==
          /\ Len(field) = Larger(d.width, Len(t))
          /\ field = IF "-" \in Flags(d) THEN t \o Pad(" ", Len(field) - Len(t))
                                         ELSE Pad(" ", Len(field) - Len(t)) \o t
    IN  InField(text, SubSeq(out, 1, n)) /\ InField(<<"z">>, SubSeq(out, n + 1, Len(out)))

\* vsprintf prints what a directive means, of numbers and of text.
SprintfCorrect == NumberFormatted /\ TextFormatted

\* vsprintf reads a format up to its end and never past the NUL, also when it
\* ends in the middle of a directive; it takes an argument for each `*' and
\* each `d' of its directives, and no other.
FormatWalked ==
  result.f = "format" =>
    /\ result.r.at = Len(result.fmt) + 1
    /\ \A i \in DOMAIN result.r.args :
         result.r.args[i] = Len(result.fmt) - Len(result.r.args) + i
    /\ Len(result.fmt) - Len(result.r.args)
         <= Len(SelectSeq(result.fmt, LAMBDA c : c \in {"*", "d"}))
    /\ "%" \notin {result.fmt[i] : i \in DOMAIN result.fmt} => result.r.out = result.fmt

\* Every way to read a number in s: where its digits are and in which base.
Readings(s, base) ==
  LET a == SkipOver(s, 1, Space)
      b == IF At(s, a) \in {"-", "+"} THEN a + 1 ELSE a
      plain == IF base # 0 THEN base ELSE IF At(s, b) = "0" THEN 8 ELSE 10
      starts == {[from |-> b, base |-> plain]} \cup
                (IF base \in {0, 16} /\ At(s, b) = "0" /\ At(s, b + 1) \in {"x", "X"}
                   THEN {[from |-> b + 2, base |-> 16]} ELSE {})
  IN  {r \in [at : starts, end : 1..(Len(s) + 1)] :
         r.end > r.at.from /\ \A k \in r.at.from..(r.end - 1) : Value(s[k]) < r.at.base}

\* The number at a reading, however large.
NumberAt(s, r) ==
  LET n[k \in r.at.from..r.end] ==
        IF k = r.at.from THEN 0 ELSE n[k - 1] * r.at.base + Value(s[k - 1])
  IN  n[r.end]

\* strtoul reads the longest number there is, a bare prefix as the 0 in front
\* of the x, saturates exactly when the number does not fit, and says so in
\* errno; the kernel's own simple_strtol and simple_strtoll read the same digits,
\* but wrap around, and know neither spaces nor a plus sign.
StrtoulCorrect ==
  result.f = "strtoul" /\ result.base \in {0} \cup 2..36 =>
    LET s == result.s
        all == Readings(s, result.base)
        best == CHOOSE r \in all : \A q \in all : q.end <= r.end
        n == NumberAt(s, best)
        minus == "-" = At(s, SkipOver(s, 1, Space))
    IN  IF all = {} THEN result.r = [value |-> 0, end |-> 1, errno |-> "0"]
        ELSE /\ result.r.end = best.end
             /\ (result.r.errno = "ERANGE") = (n >= Word)
             /\ result.r.value = IF n >= Word THEN ULONG_MAX
                                 ELSE IF minus THEN (Word - n) % Word ELSE n
             /\ result.base \in {0, 8, 10} /\ At(s, 1) \notin Space \cup {"+"} =>
                  /\ result.simple.end = best.end /\ result.double.end = best.end
                  /\ result.simple.value = (IF minus THEN -n ELSE n) % Word
                  /\ result.double.value = (IF minus THEN -n ELSE n) % DoubleWord

\* The first position in which two strings differ, the NUL included.
Differ(s, t) == First({i \in 1..(Len(s) + 1) : At(s, i) # At(t, i)})

=============================================================================
