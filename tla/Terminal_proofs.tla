--------------------------- MODULE Terminal_proofs ---------------------------
(***************************************************************************)
(* The kernel log of kernel/printk.c, what its consoles are told, and the  *)
(* cursor and the screen of kernel/console.c, for messages, rings and      *)
(* screens of every size.                                                  *)
(***************************************************************************)
EXTENDS Terminal, SequenceTheorems, TLAPS

\* The characters; the provers do not know that a literal is a string.
Char == STRING \cup {"<", "4", ">", "", " ", "-", "\n"}
Str == Seq(Char)

-----------------------------------------------------------------------------
(* The text that printk cuts into pieces.                                  *)

CutOp(ends, ls, ch) ==
  IF ls = <<>> \/ Last(Last(ls)) \in ends
    THEN Append(ls, <<ch>>)
    ELSE Append(Front(ls), Append(Last(ls), ch))

AreLines(ends, ls) == ls \in Seq(Str)

CutFold == INSTANCE Fold_proofs WITH Op <- CutOp, Good <- AreLines

\* A character more on the last of some lines, or on a line of its own.
LEMMA LongerLine ==
  ASSUME NEW ls \in Seq(Str), NEW ch \in Char
  PROVE  /\ Append(ls, <<ch>>) \in Seq(Str)
         /\ ls # <<>> => Append(Front(ls), Append(Last(ls), ch)) \in Seq(Str)
<1>1. <<ch>> \in Str
  BY DEF Str
<1>2. ASSUME ls # <<>>
      PROVE  Append(Front(ls), Append(Last(ls), ch)) \in Seq(Str)
  <2>1. Len(ls) \in Nat \ {0}
    BY <1>2, EmptySeq
  <2>2. Last(ls) \in Str
    BY <2>1 DEF Last
  <2>3. Append(Last(ls), ch) \in Str
    BY <2>2 DEF Str
  <2>4. Front(ls) \in Seq(Str)
    BY <2>1, SubSeqProperties DEF Front
  <2>5. QED
    BY <2>3, <2>4
<1>3. QED
  BY <1>1, <1>2

\* Cut makes texts.
LEMMA CutType ==
  ASSUME NEW s \in Str, NEW ends
  PROVE  Cut(s, ends) \in Seq(Str)
<1>1. Cut(s, ends) = CutFold!Result(ends, <<>>, s)
  BY Zenon DEF Cut, CutOp, CutFold!Result, FoldLeft, MapThenFoldSet, Max,
     CutFold!Highest
<1>2. AreLines(ends, <<>>)
  BY DEF AreLines
<1>3. \A ls, ch : AreLines(ends, ls) /\ ch \in Char => AreLines(ends, CutOp(ends, ls, ch))
  BY LongerLine DEF AreLines, CutOp
<1>4. AreLines(ends, CutFold!Result(ends, <<>>, s))
  BY <1>2, <1>3, CutFold!FoldInvariant DEF Str
<1>5. QED
  BY <1>1, <1>4 DEF AreLines

\* The pieces of a message that begins at level `level'.
PieceSet(level) == [level : Int \cup {level}, text : Str, log : Str]

\* A piece of a line is a piece.
LEMMA PieceType ==
  ASSUME NEW level, NEW l \in Int \cup {level}, NEW line \in Str
  PROVE  Piece(l, line) \in PieceSet(level)
<1>1. CASE l >= 0
  BY <1>1 DEF Piece, PieceSet
<1>2. CASE ~(l >= 0) /\ HasLevel(line)
  <2>1. \E n \in 1..8 : Digit[n] = line[2]
    <3>1. line[2] \in Range(Digit)
      BY <1>2 DEF HasLevel
    <3>2. DOMAIN Digit = 1..8
      BY DEF Digit
    <3>3. QED
      BY <3>1, <3>2 DEF Range
  <2>2. LevelOf(line) \in Int
    BY <2>1 DEF LevelOf
  <2>3. SubSeq(line, 4, Len(line)) \in Str
    <3>1. Len(line) \in Int /\ \A i \in 4..Len(line) : line[i] \in Char
      BY DEF Str
    <3>2. QED
      BY <3>1, SubSeqProperties DEF Str
  <2>4. QED
    BY <1>2, <2>2, <2>3 DEF Piece, PieceSet
<1>3. CASE ~(l >= 0) /\ ~HasLevel(line)
  <2>1. <<"<", Digit[LOGLEVEL_DEFAULT + 1], ">">> \in Str
    <3>1. Digit[LOGLEVEL_DEFAULT + 1] = "4"
      BY DEF Digit, LOGLEVEL_DEFAULT
    <3>2. "<" \in Char /\ "4" \in Char /\ ">" \in Char
      BY DEF Char
    <3>3. QED
      BY <3>1, <3>2 DEF Str
  <2>2. <<"<", Digit[LOGLEVEL_DEFAULT + 1], ">">> \o line \in Str
    BY <2>1, ConcatProperties DEF Str
  <2>3. QED
    BY <1>3, <2>2 DEF Piece, PieceSet, LOGLEVEL_DEFAULT
<1>4. QED
  BY <1>1, <1>2, <1>3

PieceOp(level, ps, line) ==
  Append(ps, Piece(IF ps = <<>> THEN level ELSE After(Last(ps)), line))

ArePieces(level, ps) == ps \in Seq(PieceSet(level))

PieceFold == INSTANCE Fold_proofs WITH Op <- PieceOp, Good <- ArePieces

\* So are the pieces of a message.
LEMMA PiecesType ==
  ASSUME NEW level, NEW msg \in Str
  PROVE  Pieces(level, msg) \in Seq(PieceSet(level))
<1> DEFINE lines == Cut(msg, {"\n", "\r"})
<1>1. Pieces(level, msg) = PieceFold!Result(level, <<>>, lines)
  BY Zenon DEF Pieces, PieceOp, PieceFold!Result, FoldLeft, MapThenFoldSet, Max,
     PieceFold!Highest
<1>2. lines \in Seq(Str)
  BY CutType
<1> HIDE DEF lines
<1>3. ArePieces(level, <<>>)
  BY DEF ArePieces
<1>4. ASSUME NEW ps, NEW line, ArePieces(level, ps), line \in Str
      PROVE  ArePieces(level, PieceOp(level, ps, line))
  <2> DEFINE l == IF ps = <<>> THEN level ELSE After(Last(ps))
  <2>1. l \in Int \cup {level}
    <3>1. CASE ps = <<>>
      BY <3>1
    <3>2. CASE ps # <<>>
      <4>1. ps \in Seq(PieceSet(level)) /\ Len(ps) \in Nat \ {0}
        BY <1>4, <3>2, EmptySeq DEF ArePieces
      <4>2. Last(ps) \in PieceSet(level)
        BY <4>1 DEF Last
      <4>3. QED
        BY <3>2, <4>2 DEF After, PieceSet
    <3>3. QED
      BY <3>1, <3>2
  <2>2. Piece(l, line) \in PieceSet(level)
    BY <1>4, <2>1, PieceType
  <2>3. QED
    BY <1>4, <2>2 DEF ArePieces, PieceOp
<1>5. ArePieces(level, PieceFold!Result(level, <<>>, lines))
  BY <1>2, <1>3, <1>4, PieceFold!FoldInvariant
<1>6. QED
  BY <1>1, <1>5 DEF ArePieces

LogOp(e, t, p) == t \o p.log
TextOp(e, t, p) == t \o p.text
IsText(e, t) == t \in Str

LogFold == INSTANCE Fold_proofs WITH Op <- LogOp, Good <- IsText

\* What they log is a text.
LEMMA LogType ==
  ASSUME NEW level, NEW ps \in Seq(PieceSet(level))
  PROVE  Log(ps) \in Str
<1>1. Log(ps) = LogFold!Result(level, <<>>, ps)
  BY Zenon DEF Log, LogOp, LogFold!Result, FoldLeft, MapThenFoldSet, Max,
     LogFold!Highest
<1>2. IsText(level, <<>>)
  BY DEF IsText, Str
<1>3. \A t, p : IsText(level, t) /\ p \in PieceSet(level) => IsText(level, LogOp(level, t, p))
  BY ConcatProperties DEF IsText, LogOp, PieceSet, Str
<1>4. IsText(level, LogFold!Result(level, <<>>, ps))
  BY <1>2, <1>3, LogFold!FoldInvariant
<1>5. QED
  BY <1>1, <1>4 DEF IsText

-----------------------------------------------------------------------------
(* The ring.                                                               *)

\* No multiple of n but 0 is below n.
LEMMA NoMultipleOf ==
  ASSUME NEW n \in Nat \ {0}, NEW k \in Int, 0 < n * k, n * k < n
  PROVE  FALSE
<1>1. CASE k <= 0
  BY <1>1
<1>2. CASE k >= 1
  BY <1>2
<1>3. QED
  BY <1>1, <1>2

\* Fewer than LOG_BUF_SIZE positions in a row are different slots.
LEMMA LogSlotsDiffer ==
  ASSUME NEW m \in Nat, NEW n \in Nat, m < n, n < m + LogBufSize
  PROVE  m % LogBufSize # n % LogBufSize
<1> SUFFICES ASSUME m % LogBufSize = n % LogBufSize
             PROVE  FALSE
  OBVIOUS
<1>1. n - m = LogBufSize * (n \div LogBufSize - m \div LogBufSize)
  BY PrintkAssumption
<1>2. n \div LogBufSize - m \div LogBufSize \in Int
  BY PrintkAssumption
<1>3. 0 < n - m /\ n - m < LogBufSize
  BY PrintkAssumption
<1>4. LogBufSize \in Nat \ {0}
  BY PrintkAssumption
<1>5. QED
  BY <1>1, <1>2, <1>3, <1>4, NoMultipleOf

\* The ring r holds the end of the first m characters of s.
RingAt(r, s, m) ==
  /\ r.buf \in [Slot -> Char] /\ r.start \in Nat
  /\ r.size \in 0..LogBufSize /\ r.size <= m
  /\ r.size < LogBufSize => r.size = m
  /\ \A i \in 1..r.size : r.buf[(r.start + i - 1) % LogBufSize] = s[m - r.size + i]

\* One character goes into the ring.
LEMMA AddOne ==
  ASSUME NEW r, NEW s, NEW m \in Nat, RingAt(r, s, m), s[m + 1] \in Char
  PROVE  RingAt(AddToRing(r, s[m + 1]), s, m + 1)
<1> DEFINE end == (r.start + r.size) % LogBufSize
           q == AddToRing(r, s[m + 1])
<1>1. /\ LogBufSize \in Nat \ {0} /\ r.buf \in [Slot -> Char] /\ r.start \in Nat
      /\ r.size \in Nat /\ r.size <= LogBufSize /\ r.size <= m
      /\ r.size < LogBufSize => r.size = m
  BY PrintkAssumption DEF RingAt
<1>2. \A n \in Nat : n % LogBufSize \in Slot
  BY <1>1 DEF Slot
<1>3. /\ q.buf = [r.buf EXCEPT ![end] = s[m + 1]]
      /\ q.start = (IF r.size < LogBufSize THEN r.start ELSE r.start + 1)
      /\ q.size = (IF r.size < LogBufSize THEN r.size + 1 ELSE r.size)
  BY DEF AddToRing
<1>4. end \in Slot
  BY <1>1, <1>2
<1>5. q.buf \in [Slot -> Char] /\ q.buf[end] = s[m + 1]
  BY <1>1, <1>3, <1>4
<1>6. ASSUME NEW i \in 1..q.size
      PROVE  q.buf[(q.start + i - 1) % LogBufSize] = s[m + 1 - q.size + i]
  <2> DEFINE a == q.start + i - 1
  <2>1. CASE a = r.start + r.size
    <3>1. m + 1 - q.size + i = m + 1
      BY <1>1, <1>3, <2>1
    <3>2. QED
      BY <1>5, <2>1, <3>1
  <2>2. CASE a # r.start + r.size
    <3>1. a \in Nat /\ a < r.start + r.size /\ r.start + r.size < a + LogBufSize
      BY <1>1, <1>3, <2>2
    <3>2. r.start + r.size \in Nat
      BY <1>1
    <3>3. a % LogBufSize # end
      BY <3>1, <3>2, LogSlotsDiffer
    <3>4. a % LogBufSize \in Slot
      BY <1>2, <3>1
    <3>5. q.buf[a % LogBufSize] = r.buf[a % LogBufSize]
      BY <1>1, <1>3, <1>4, <3>3, <3>4
    <3> DEFINE j == a - r.start + 1
    <3>6. j \in 1..r.size /\ r.start + j - 1 = a /\ m - r.size + j = m + 1 - q.size + i
      BY <1>1, <1>3, <3>1
    <3> HIDE DEF a, j
    <3>7. r.buf[(r.start + j - 1) % LogBufSize] = s[m - r.size + j]
      BY <3>6 DEF RingAt
    <3>8. QED
      BY <3>5, <3>6, <3>7 DEF a
  <2>3. QED
    BY <2>1, <2>2
<1>7. /\ q.start \in Nat /\ q.size \in 0..LogBufSize /\ q.size <= m + 1
      /\ q.size < LogBufSize => q.size = m + 1
  BY <1>1, <1>3
<1> HIDE DEF q
<1>8. QED
  BY <1>5, <1>6, <1>7 DEF RingAt, q

RingOp(e, r, ch) == AddToRing(r, ch)
AnyRing(e, r) == TRUE

RingFold == INSTANCE Fold_proofs WITH Op <- RingOp, Good <- AnyRing

\* A text that goes into the ring of what was logged before.
LEMMA AddText ==
  ASSUME NEW r, NEW s \in Str, NEW t \in Str, RingAt(r, s, Len(s))
  PROVE  RingAt(FoldLeft(AddToRing, r, t), s \o t, Len(s \o t))
<1> DEFINE u == s \o t
<1>1. FoldLeft(AddToRing, r, t) = RingFold!Result(0, r, t)
  BY Zenon DEF RingOp, RingFold!Result, FoldLeft, MapThenFoldSet, Max,
     RingFold!Highest
<1>2. PICK f : RingFold!IsRun(0, f, r, t)
  BY RingFold!FoldRun DEF Str, RingFold!HasRun
<1>3. /\ u \in Str /\ Len(u) = Len(s) + Len(t) /\ Len(s) \in Nat /\ Len(t) \in Nat
      /\ \A i \in 1..Len(s) : u[i] = s[i]
      /\ \A i \in 1..Len(t) : u[Len(s) + i] = t[i] /\ t[i] \in Char
  BY DEF Str
<1> HIDE DEF u
<1> DEFINE T == {k \in Nat : k <= Len(t) => RingAt(f[k], u, Len(s) + k)}
<1>4. 0 \in T
  <2>1. f[0] = r /\ Len(s) + 0 = Len(s)
    BY <1>2, <1>3 DEF RingFold!IsRun
  <2>2. \A i \in 1..r.size : Len(s) - r.size + i \in 1..Len(s)
    <3>1. r.size \in Nat /\ r.size <= Len(s)
      BY DEF RingAt
    <3>2. QED
      BY <1>3, <3>1
  <2>3. RingAt(r, u, Len(s))
    BY <1>3, <2>2 DEF RingAt
  <2>4. QED
    BY <2>1, <2>3
<1>5. ASSUME NEW k \in T
      PROVE  k + 1 \in T
  <2> SUFFICES ASSUME k + 1 <= Len(t)
               PROVE  RingAt(f[k + 1], u, Len(s) + (k + 1))
    OBVIOUS
  <2>1. /\ k + 1 \in 1..Len(t) /\ k + 1 - 1 = k /\ Len(s) + k \in Nat
        /\ Len(s) + k + 1 = Len(s) + (k + 1)
    BY <1>3
  <2>2. RingAt(f[k], u, Len(s) + k)
    BY <1>3
  <2>3. f[k + 1] = AddToRing(f[k], t[k + 1])
    BY <1>2, <2>1 DEF RingFold!IsRun, RingOp
  <2>4. u[Len(s) + k + 1] = t[k + 1] /\ u[Len(s) + k + 1] \in Char
    BY <1>3, <2>1
  <2>5. RingAt(AddToRing(f[k], u[Len(s) + k + 1]), u, Len(s) + k + 1)
    BY <2>1, <2>2, <2>4, AddOne
  <2>6. QED
    BY <2>1, <2>3, <2>4, <2>5
<1>6. Nat \subseteq T
  <2>1. T \subseteq Nat
    OBVIOUS
  <2> HIDE DEF T
  <2>2. \A k \in T : k + 1 \in T
    BY <1>5
  <2>3. QED
    BY <1>4, <2>1, <2>2, RingFold!Induction
<1>7. RingAt(f[Len(t)], u, Len(s) + Len(t))
  BY <1>3, <1>6
<1>8. QED
  BY <1>1, <1>2, <1>3, <1>7 DEF RingFold!IsRun, u

\* The inductive invariant behind LogIsSuffix: which character every slot holds.
LogInv ==
  /\ logged \in Str
  /\ RingAt([buf |-> log_buf, start |-> log_start, size |-> log_size], logged, Len(logged))

\* LogInv holds at the start.
LEMMA LogInvInit == Init => LogInv
<1> SUFFICES ASSUME PrintkInit
             PROVE  LogInv
  BY DEF Init
<1>1. "" \in Char
  BY DEF Char
<1>2. /\ log_buf \in [Slot -> Char] /\ log_start = 0 /\ log_size = 0
      /\ logged = <<>> /\ <<>> \in Str /\ Len(<<>>) = 0
  BY <1>1, EmptySeq DEF PrintkInit, Str
<1>3. QED
  BY <1>2, PrintkAssumption DEF LogInv, RingAt

\* No step breaks LogInv.
LEMMA LogInvStep == LogInv /\ [Next]_vars => LogInv'
<1> SUFFICES ASSUME LogInv, [Next]_vars
             PROVE  LogInv'
  OBVIOUS
<1>1. ASSUME NEW m \in Message, printk(m)
      PROVE  LogInv'
  <2> DEFINE ps == Pieces(msg_level, m)
             r == [buf |-> log_buf, start |-> log_start, size |-> log_size]
             q == FoldLeft(AddToRing, r, Log(ps))
  <2>1. m \in Str
    <3>1. m \in Seq(STRING) /\ STRING \subseteq Char
      BY PrintkAssumption DEF Char
    <3>2. QED
      BY <3>1, SeqMonotonic DEF Str
  <2>2. Log(ps) \in Str
    BY <2>1, PiecesType, LogType
  <2>3. /\ log_buf' = q.buf /\ log_start' = q.start /\ log_size' = q.size
        /\ logged' = logged \o Log(ps)
    BY <1>1, Zenon DEF printk
  <2> HIDE DEF ps, q
  <2>4. RingAt(q, logged \o Log(ps), Len(logged \o Log(ps)))
    BY <2>2, AddText DEF LogInv, q
  <2>5. logged' \in Str
    BY <2>2, <2>3, ConcatProperties DEF LogInv, Str
  <2>6. QED
    BY <2>3, <2>4, <2>5 DEF LogInv, RingAt
<1>2. CASE \E m \in Message : Say(m)
  BY <1>1, <1>2, Zenon DEF Say
<1>3. CASE \E c \in Driver, l \in Level : Register(c, l)
  BY <1>3, Zenon DEF Register, register_console, LogInv, ringVars
<1>4. CASE \E l \in Level : console_init(l)
  BY <1>4, Zenon DEF console_init, register_console, LogInv, ringVars
<1>5. CASE \E s \in Output : puts(s)
  BY <1>5, Zenon DEF puts, LogInv, ringVars
<1>6. CASE UNCHANGED vars
  BY <1>6, Zenon DEF vars, printkVars, LogInv, ringVars
<1>7. QED
  BY <1>2, <1>3, <1>4, <1>5, <1>6, Zenon DEF Next

\* The ring holds a text.
LEMMA RingType == LogInv => Ring \in Str
<1> SUFFICES ASSUME LogInv
             PROVE  Ring \in Str
  OBVIOUS
<1>1. /\ log_size \in Nat /\ log_start \in Nat /\ log_buf \in [Slot -> Char]
      /\ LogBufSize \in Nat \ {0}
  BY PrintkAssumption DEF LogInv, RingAt
<1>2. \A i \in 1..log_size : log_buf[(log_start + i - 1) % LogBufSize] \in Char
  BY <1>1 DEF Slot
<1>3. QED
  BY <1>1, <1>2 DEF Ring, Str

\* LogInv says what LogIsSuffix does.
LEMMA LogInvSuffix == LogInv => LogIsSuffix
<1> SUFFICES ASSUME LogInv
             PROVE  LogIsSuffix
  OBVIOUS
<1> DEFINE n == Len(logged)
<1>1. /\ logged \in Str /\ n \in Nat /\ log_size \in Nat
      /\ log_size <= n /\ log_size <= LogBufSize
      /\ log_size < LogBufSize => log_size = n
      /\ log_start \in Nat /\ log_buf \in [Slot -> Char] /\ LogBufSize \in Nat \ {0}
  BY PrintkAssumption DEF LogInv, RingAt, Str
<1>2. \A i \in 1..log_size : Ring[i] = logged[n - log_size + i]
  BY DEF LogInv, RingAt, Ring
<1>3. Ring \in Str /\ Len(Ring) = log_size
  <2>1. Ring \in Str
    BY RingType
  <2>2. QED
    BY <1>1, <2>1 DEF Ring, Str
<1>4. log_size < LogBufSize => Ring = logged
  <2> SUFFICES ASSUME log_size = n
               PROVE  Ring = logged
    BY <1>1
  <2>1. \A i \in 1..Len(Ring) : Ring[i] = logged[i]
    BY <1>1, <1>2, <1>3
  <2>2. QED
    BY <1>1, <1>3, <2>1, SeqEqual DEF Str
<1>5. IsSuffix(Ring, logged)
  <2> DEFINE a == Reverse(Ring)
             b == Reverse(logged)
  <2>1. /\ a \in Seq(Char) /\ Len(a) = log_size
        /\ \A i \in 1..log_size : a[i] = Ring[log_size - i + 1]
    BY <1>1, <1>3 DEF Reverse, Str
  <2>2. /\ b \in Seq(Char) /\ Len(b) = n
        /\ \A i \in 1..n : b[i] = logged[n - i + 1]
    BY <1>1 DEF Reverse, Str
  <2>3. ASSUME NEW i \in 1..log_size
        PROVE  a[i] = b[i]
    <3>1. /\ log_size - i + 1 \in 1..log_size /\ i \in 1..n
          /\ n - log_size + (log_size - i + 1) = n - i + 1
      BY <1>1
    <3>2. Ring[log_size - i + 1] = logged[n - log_size + (log_size - i + 1)]
      BY <1>2, <3>1
    <3> HIDE DEF a, b
    <3>3. QED
      BY <2>1, <2>2, <3>1, <3>2
  <2> HIDE DEF a, b
  <2>4. SubSeq(a, 1, Len(a)) = SubSeq(b, 1, Len(a))
    <3>1. /\ \A i \in 1..log_size : a[i] \in Char /\ b[i] \in Char
      BY <1>1, <2>1, <2>2
    <3> DEFINE sa == SubSeq(a, 1, log_size)
               sb == SubSeq(b, 1, log_size)
    <3>2. /\ sa \in Seq(Char) /\ Len(sa) = log_size
          /\ \A i \in 1..log_size : sa[i] = a[i]
      BY <1>1, <3>1, SubSeqProperties
    <3>3. /\ sb \in Seq(Char) /\ Len(sb) = log_size
          /\ \A i \in 1..log_size : sb[i] = b[i]
      BY <1>1, <3>1, SubSeqProperties
    <3> HIDE DEF sa, sb
    <3>4. sa = sb
      BY <2>3, <3>2, <3>3, SeqEqual
    <3>5. QED
      BY <2>1, <3>4 DEF sa, sb
  <2>5. QED
    BY <1>1, <2>1, <2>2, <2>4 DEF IsSuffix, IsPrefix, a, b
<1>6. QED
  BY <1>1, <1>4, <1>5 DEF LogIsSuffix

(* The ring of the kernel log holds the end of all that was logged,        *)
(* character by character, however often it has wrapped: for all messages  *)
(* and for every LOG_BUF_SIZE.                                             *)
THEOREM LogIsSuffixCorrect == Spec => []LogIsSuffix
  BY LogInvInit, LogInvStep, LogInvSuffix, PTL DEF Spec

-----------------------------------------------------------------------------
(* The texts that go to the screen.                                        *)

UpToOp(l, ps, p) == IF p.level <= l THEN Append(ps, p) ELSE ps
SomePieces(l, ps) == ps \in Seq(PieceSet(msg_level))

UpToFold == INSTANCE Fold_proofs WITH Op <- UpToOp, Good <- SomePieces

\* What a console is sent are texts.
LEMMA UpToType ==
  ASSUME NEW l, NEW level \in Int \cup {msg_level}, NEW ps \in Seq(PieceSet(level))
  PROVE  Texts(UpTo(ps, l)) \in Seq(Str)
<1> DEFINE Some == PieceSet(msg_level)
           us == UpTo(ps, l)
<1>1. us = UpToFold!Result(l, <<>>, ps)
  BY Zenon DEF UpTo, UpToOp, UpToFold!Result, FoldLeft, MapThenFoldSet, Max,
     UpToFold!Highest
<1>2. \A p \in Some : p.text \in Str
  BY DEF PieceSet
<1>3. PieceSet(level) \subseteq Some
  BY DEF PieceSet
<1> HIDE DEF Some
<1>4. ps \in Seq(Some)
  BY <1>3, SeqMonotonic
<1>5. SomePieces(l, <<>>)
  BY DEF SomePieces
<1>6. \A qs, p : SomePieces(l, qs) /\ p \in Some => SomePieces(l, UpToOp(l, qs, p))
  BY DEF SomePieces, UpToOp, Some
<1>7. SomePieces(l, UpToFold!Result(l, <<>>, ps))
  BY <1>4, <1>5, <1>6, UpToFold!FoldInvariant
<1>8. us \in Seq(Some)
  BY <1>1, <1>7 DEF SomePieces, Some
<1> HIDE DEF us
<1>9. QED
  BY <1>2, <1>8 DEF Texts, us

ChunkOp(e, cs, ch) ==
  IF cs = <<>> \/ Last(Last(cs)) = "\n" \/ Len(Last(cs)) = Chunk
    THEN Append(cs, <<ch>>)
    ELSE Append(Front(cs), Append(Last(cs), ch))

ChunkFold == INSTANCE Fold_proofs WITH Op <- ChunkOp, Good <- AreLines

\* So are the chunks of a replay.
LEMMA ChunksType ==
  ASSUME NEW s \in Str
  PROVE  Chunks(s) \in Seq(Str)
<1>1. Chunks(s) = ChunkFold!Result(0, <<>>, s)
  BY Zenon DEF Chunks, ChunkOp, ChunkFold!Result, FoldLeft, MapThenFoldSet, Max,
     ChunkFold!Highest
<1>2. AreLines(0, <<>>)
  BY DEF AreLines
<1>3. \A cs, ch : AreLines(0, cs) /\ ch \in Char => AreLines(0, ChunkOp(0, cs, ch))
  BY LongerLine DEF AreLines, ChunkOp
<1>4. AreLines(0, ChunkFold!Result(0, <<>>, s))
  BY <1>2, <1>3, ChunkFold!FoldInvariant DEF Str
<1>5. QED
  BY <1>1, <1>4 DEF AreLines

ReplayOp(e, r, chunk) == Replayed(r, chunk)
IsReplay(e, r) == r.level \in Int /\ r.pieces \in Seq(PieceSet(-1))

ReplayFold == INSTANCE Fold_proofs WITH Op <- ReplayOp, Good <- IsReplay

\* The pieces of a replay.
LEMMA ReplayType == Ring \in Str => Replay \in Seq(PieceSet(-1))
<1> SUFFICES ASSUME Ring \in Str
             PROVE  Replay \in Seq(PieceSet(-1))
  OBVIOUS
<1> DEFINE base == [level |-> -1, pieces |-> <<>>]
<1>1. Replay = ReplayFold!Result(0, base, Chunks(Ring)).pieces
  BY Zenon DEF Replay, ReplayOp, ReplayFold!Result, FoldLeft, MapThenFoldSet, Max,
     ReplayFold!Highest
<1>2. IsReplay(0, base)
  BY DEF IsReplay
<1>3. ASSUME NEW r, NEW chunk, IsReplay(0, r), chunk \in Str
      PROVE  IsReplay(0, ReplayOp(0, r, chunk))
  <2>1. Piece(r.level, chunk) \in PieceSet(-1)
    BY <1>3, PieceType DEF IsReplay
  <2>2. Piece(r.level, chunk).level \in Int
    BY <2>1 DEF PieceSet
  <2>3. QED
    BY <1>3, <2>1, <2>2 DEF IsReplay, ReplayOp, Replayed
<1>4. Chunks(Ring) \in Seq(Str)
  BY ChunksType
<1> HIDE DEF base
<1>5. IsReplay(0, ReplayFold!Result(0, base, Chunks(Ring)))
  BY <1>2, <1>3, <1>4, ReplayFold!FoldInvariant
<1>6. QED
  BY <1>1, <1>5 DEF IsReplay

-----------------------------------------------------------------------------
(* The cursor.                                                             *)

\* The cursor is on the screen, unless a carriage return came on the first line.
InBounds(x, y, off) == off \/ (x \in 0..(Cols - 1) /\ y \in 0..(Lines - 1))

\* The same of the state s of con_write.
OnScreen(e, s) ==
  \E v, x, y, off : s = [v |-> v, x |-> x, y |-> y, off |-> off] /\ InBounds(x, y, off)

PutOp(e, s, c) == PutChar(s, c)
WriteOp(e, s, str) == Write(s, str)

PutFold == INSTANCE Fold_proofs WITH Op <- PutOp, Good <- OnScreen
WriteFold == INSTANCE Fold_proofs WITH Op <- WriteOp, Good <- OnScreen

\* A new line from the line y, at any column.
LEMMA NewLineOnScreen ==
  ASSUME NEW v, NEW x, NEW y, NEW off, off \/ y \in 0..(Lines - 1)
  PROVE  OnScreen(0, NewLine([v |-> v, x |-> x, y |-> y, off |-> off]))
<1> DEFINE s == [v |-> v, x |-> x, y |-> y, off |-> off]
<1>1. s.v = v /\ s.x = x /\ s.y = y /\ s.off = off
  OBVIOUS
<1>2. CASE y + 1 >= Lines
  <2>1. NewLine(s) = [v |-> scroll(v), x |-> 0, y |-> y, off |-> off]
    BY <1>1, <1>2 DEF NewLine
  <2>2. InBounds(0, y, off)
    BY ConsoleAssumption DEF InBounds
  <2>3. QED
    BY <2>1, <2>2, Zenon DEF OnScreen
<1>3. CASE ~(y + 1 >= Lines)
  <2>1. NewLine(s) = [v |-> v, x |-> 0, y |-> y + 1, off |-> off]
    BY <1>1, <1>3 DEF NewLine
  <2>2. InBounds(0, y + 1, off)
    BY <1>3, ConsoleAssumption DEF InBounds
  <2>3. QED
    BY <2>1, <2>2, Zenon DEF OnScreen
<1>4. QED
  BY <1>2, <1>3

\* One turn of con_write keeps the cursor on the screen.
LEMMA PutCharOnScreen ==
  ASSUME NEW s, NEW c, OnScreen(0, s)
  PROVE  OnScreen(0, PutChar(s, c))
<1>1. PICK v, x, y, off : s = [v |-> v, x |-> x, y |-> y, off |-> off] /\ InBounds(x, y, off)
  BY DEF OnScreen
<1>2. s.v = v /\ s.x = x /\ s.y = y /\ s.off = off
  BY <1>1
<1>3. CASE c = "\n"
  <2>1. PutChar(s, c) = NewLine(s)
    BY <1>3 DEF PutChar
  <2>2. QED
    BY <1>1, <2>1, NewLineOnScreen DEF InBounds
<1>4. CASE c = "\r"
  <2> DEFINE o == off \/ s.y = 0
  <2>1. PutChar(s, c) = [s EXCEPT !.x = 0, !.y = @ - 1, !.off = @ \/ s.y = 0]
    BY <1>4 DEF PutChar
  <2>2. PutChar(s, c) = [s EXCEPT !.x = 0, !.y = y - 1, !.off = o]
    BY <1>2, <2>1, Zenon
  <2>3. InBounds(0, y - 1, o)
    <3>1. CASE off \/ y = 0
      BY <1>2, <3>1, Zenon DEF InBounds
    <3>2. CASE ~off /\ y # 0
      <4>1. 0 \in 0..(Cols - 1) /\ y - 1 \in 0..(Lines - 1)
        BY <1>1, <3>2, ConsoleAssumption DEF InBounds
      <4>2. QED
        BY <4>1, Zenon DEF InBounds
    <3>3. QED
      BY <3>1, <3>2, Zenon
  <2> HIDE DEF o
  <2>4. PutChar(s, c) = [v |-> v, x |-> 0, y |-> y - 1, off |-> o]
    BY <1>1, <2>2
  <2>5. QED
    BY <2>3, <2>4, Zenon DEF OnScreen
<1>5. CASE c # "\n" /\ c # "\r"
  <2> DEFINE cell == [c |-> IF c = "\t" THEN " " ELSE c, attr |-> CHAR_ATTR]
             w == Store(v, x + Cols * y, cell)
             z == x + 1
             s1 == [s EXCEPT !.v = w]
             u == [s1 EXCEPT !.x = z]
             t == [v |-> w, x |-> z, y |-> y, off |-> off]
  <2>1. PutChar(s, c) = (IF LineFull(u.x) THEN NewLine(u) ELSE u)
    BY <1>2, <1>5 DEF PutChar
  <2> HIDE DEF w, z
  <2>2. u = t /\ t.x = z
    <3>1. s1 = [v |-> w, x |-> x, y |-> y, off |-> off]
      BY <1>1
    <3> HIDE DEF s1
    <3>2. QED
      BY <3>1
  <2> HIDE DEF u
  <2>3. CASE LineFull(z)
    <3>1. OnScreen(0, NewLine(t))
      BY <1>1, NewLineOnScreen DEF InBounds
    <3>2. QED
      BY <2>1, <2>2, <2>3, <3>1
  <2>4. CASE ~LineFull(z)
    <3>1. InBounds(z, y, off)
      BY <1>1, <2>4, ConsoleAssumption DEF InBounds, LineFull, z
    <3>2. PutChar(s, c) = t
      BY <2>1, <2>2, <2>4
    <3>3. QED
      BY <3>1, <3>2, Zenon DEF OnScreen
  <2>5. QED
    BY <2>3, <2>4
<1>6. QED
  BY <1>3, <1>4, <1>5

\* The cursor goes elsewhere on the screen.
LEMMA MoveOnScreen ==
  ASSUME NEW v, NEW x, NEW y, NEW off, NEW cx, NEW cy, InBounds(cx, cy, off)
  PROVE  OnScreen(0, [[v |-> v, x |-> x, y |-> y, off |-> off] EXCEPT !.x = cx, !.y = cy])
<1> DEFINE s == [[v |-> v, x |-> x, y |-> y, off |-> off] EXCEPT !.x = cx]
           t == [s EXCEPT !.y = cy]
<1>1. s = [v |-> v, x |-> cx, y |-> y, off |-> off]
  OBVIOUS
<1> HIDE DEF s
<1>2. t = [v |-> v, x |-> cx, y |-> cy, off |-> off]
  BY <1>1
<1> HIDE DEF t
<1>3. OnScreen(0, t)
  BY <1>2, Zenon DEF OnScreen
<1>4. QED
  BY <1>3 DEF s, t

\* So does one call.
LEMMA WriteOnScreen ==
  ASSUME NEW s, NEW str \in Str, OnScreen(0, s)
  PROVE  OnScreen(0, Write(s, str))
<1> DEFINE t == FoldLeft(PutChar, s, str)
<1>1. t = PutFold!Result(0, s, str)
  BY Zenon DEF PutOp, PutFold!Result, FoldLeft, MapThenFoldSet, Max,
     PutFold!Highest
<1>2. Write(s, str) = [t EXCEPT !.x = @ % 256, !.y = @ % 256]
  BY Zenon DEF Write
<1> HIDE DEF t
<1>3. OnScreen(0, t)
  <2>1. \A q, c : OnScreen(0, q) /\ c \in Char => OnScreen(0, PutOp(0, q, c))
    BY PutCharOnScreen DEF PutOp
  <2>2. OnScreen(0, PutFold!Result(0, s, str))
    BY <2>1, PutFold!FoldInvariant DEF Str
  <2>3. QED
    BY <1>1, <2>2
<1>4. PICK v, x, y, off : t = [v |-> v, x |-> x, y |-> y, off |-> off] /\ InBounds(x, y, off)
  BY <1>3 DEF OnScreen
<1>5. Write(s, str) = [[v |-> v, x |-> x, y |-> y, off |-> off] EXCEPT !.x = x % 256,
                                                                    !.y = y % 256]
  <2>1. t.x = x /\ t.y = y
    BY <1>4
  <2>2. QED
    BY <1>2, <1>4, <2>1, Zenon
<1>6. InBounds(x % 256, y % 256, off)
  BY <1>4, ConsoleAssumption DEF InBounds
<1> DEFINE cx == x % 256  cy == y % 256
           u == [[v |-> v, x |-> x, y |-> y, off |-> off] EXCEPT !.x = cx, !.y = cy]
<1>7. InBounds(cx, cy, off)
  BY <1>6
<1>8. Write(s, str) = u
  BY <1>5, Zenon
<1> HIDE DEF cx, cy
<1>9. OnScreen(0, u)
  BY <1>7, MoveOnScreen, Zenon
<1>10. QED
  BY <1>8, <1>9, Zenon

\* And several calls.
LEMMA ConWriteOnScreen ==
  ASSUME NEW strs \in Seq(Str), CursorOnScreen, con_write(strs)
  PROVE  CursorOnScreen'
<1> DEFINE s == [v |-> vidmem, x |-> orig_x, y |-> orig_y, off |-> topped]
           t == FoldLeft(Write, s, strs)
<1>1. t = WriteFold!Result(0, s, strs)
  BY Zenon DEF WriteOp, WriteFold!Result, FoldLeft, MapThenFoldSet, Max,
     WriteFold!Highest
<1>2. orig_x' = t.x /\ orig_y' = t.y /\ topped' = t.off
  BY Zenon DEF con_write
<1> HIDE DEF t
<1>3. OnScreen(0, s)
  <2>1. InBounds(orig_x, orig_y, topped)
    BY DEF InBounds, CursorOnScreen
  <2>2. QED
    BY <2>1, Zenon DEF OnScreen
<1> HIDE DEF s
<1>4. OnScreen(0, t)
  <2>1. \A q, c : OnScreen(0, q) /\ c \in Str => OnScreen(0, WriteOp(0, q, c))
    BY WriteOnScreen DEF WriteOp
  <2>2. OnScreen(0, WriteFold!Result(0, s, strs))
    BY <1>3, <2>1, WriteFold!FoldInvariant
  <2>3. QED
    BY <1>1, <2>2
<1>5. InBounds(t.x, t.y, t.off)
  <2>1. PICK v, x, y, off : t = [v |-> v, x |-> x, y |-> y, off |-> off] /\ InBounds(x, y, off)
    BY <1>4 DEF OnScreen
  <2>2. t.x = x /\ t.y = y /\ t.off = off
    BY <2>1
  <2>3. QED
    BY <2>1, <2>2, Zenon
<1>6. InBounds(orig_x', orig_y', topped')
  BY <1>2, <1>5, Zenon
<1>7. QED
  BY <1>6 DEF InBounds, CursorOnScreen

\* What a step of the system does to the screen: a call of con_write, with texts.
LEMMA Writes ==
  ASSUME LogInv, [Next]_vars
  PROVE  UNCHANGED consoleVars \/ \E strs \in Seq(Str) : con_write(strs)
<1>1. STRING \subseteq Char
  BY DEF Char
<1>2. ASSUME NEW m \in Message, Say(m)
      PROVE  UNCHANGED consoleVars \/ \E strs \in Seq(Str) : con_write(strs)
  <2> DEFINE these == Texts(UpTo(Pieces(msg_level, m), loglevel[video]))
  <2>1. con_write(these) \/ UNCHANGED consoleVars
    BY <1>2, Zenon DEF Say
  <2>2. m \in Str
    BY <1>1, PrintkAssumption, SeqMonotonic DEF Str
  <2>3. these \in Seq(Str)
    BY <2>2, PiecesType, UpToType
  <2> HIDE DEF these
  <2>4. QED
    BY <2>1, <2>3, Zenon
<1>3. ASSUME NEW l \in Level, console_init(l)
      PROVE  \E strs \in Seq(Str) : con_write(strs)
  <2> DEFINE lead == <<<<"\n", "\n">>>>
             rest == Texts(UpTo(Replay, l))
  <2>1. con_write(lead \o rest)
    BY <1>3, Zenon DEF console_init
  <2>2. Replay \in Seq(PieceSet(-1))
    BY RingType, ReplayType
  <2>3. rest \in Seq(Str)
    BY <2>2, UpToType
  <2>4. lead \in Seq(Str)
    <3>1. "\n" \in Char
      BY DEF Char
    <3>2. <<"\n", "\n">> \in Str
      BY <3>1 DEF Str
    <3>3. QED
      BY <3>2
  <2> HIDE DEF lead, rest
  <2>5. lead \o rest \in Seq(Str)
    BY <2>3, <2>4, ConcatProperties
  <2>6. QED
    BY <2>1, <2>5, Zenon
<1>4. ASSUME NEW s \in Output, puts(s)
      PROVE  \E strs \in Seq(Str) : con_write(strs)
  <2>1. con_write(<<s>>)
    BY <1>4, Zenon DEF puts
  <2>2. s \in Str
    BY <1>1, TerminalAssumption, SeqMonotonic DEF Str
  <2>3. <<s>> \in Seq(Str)
    BY <2>2
  <2>4. QED
    BY <2>1, <2>3, Zenon
<1>5. CASE \E c \in Driver, l \in Level : Register(c, l)
  BY <1>5, Zenon DEF Register
<1>6. CASE UNCHANGED vars
  BY <1>6, Zenon DEF vars
<1>7. QED
  BY <1>2, <1>3, <1>4, <1>5, <1>6, Zenon DEF Next

\* No step moves the cursor off the screen.
LEMMA CursorStep == LogInv /\ CursorOnScreen /\ [Next]_vars => CursorOnScreen'
<1> SUFFICES ASSUME LogInv, CursorOnScreen, [Next]_vars
             PROVE  CursorOnScreen'
  OBVIOUS
<1>1. CASE UNCHANGED consoleVars
  BY <1>1 DEF consoleVars, CursorOnScreen
<1>2. ASSUME NEW strs \in Seq(Str), con_write(strs)
      PROVE  CursorOnScreen'
  BY <1>2, ConWriteOnScreen
<1>3. QED
  BY <1>1, <1>2, Writes

(* Whatever is written, wrapped and scrolled, the cursor stays on the      *)
(* screen until a carriage return comes on its first line: for every size  *)
(* of the screen and all texts, the replay of the log included.            *)
THEOREM CursorOnScreenCorrect == Spec => []CursorOnScreen
<1>1. Init => CursorOnScreen
  <2>1. Init => start \in 0..(Lines - 1) /\ orig_x = 0 /\ orig_y = start
    BY Zenon DEF Init, ConsoleInit
  <2>2. QED
    BY <2>1, ConsoleAssumption DEF CursorOnScreen
<1>2. QED
  BY <1>1, LogInvInit, LogInvStep, CursorStep, PTL DEF Spec

-----------------------------------------------------------------------------
(***************************************************************************)
(* What the screen shows, for every size of it and all texts.              *)
(*                                                                         *)
(* The screen is a window on paper: the lines that the text makes when it  *)
(* is written on paper as wide as the screen, which keeps every line       *)
(* (Paper in Console).  Picture says so of con_write's state between two   *)
(* characters; a fold of con_write over a text and one of the paper over   *)
(* the same text keep it, step by step.                                    *)
(***************************************************************************)

-----------------------------------------------------------------------------
(* The last line after a scroll.                                           *)

\* One turn of And.
BitOp(e, s, i) ==
  [sum  |-> s.sum + (s.a % 2) * (s.b % 2) * s.unit,
   unit |-> 2 * s.unit, a |-> s.a \div 2, b |-> s.b \div 2]

\* No bit so far is in both numbers, nor any of those to come.
NoCommonBit(e, s) ==
  /\ s.sum = 0 /\ s.unit \in Nat
  /\ \/ s.a = 0 /\ s.b \in Nat
     \/ s.a = 7 /\ s.b = 40
     \/ s.a = 3 /\ s.b = 20
     \/ s.a = 1 /\ s.b = 10

BitFold == INSTANCE Fold_proofs WITH Op <- BitOp, Good <- NoCommonBit

\* The blank that scroll() makes is black on black.
LEMMA DimmedIsBlack ==
  ASSUME NEW attr \in {0, CHAR_ATTR}
  PROVE  And(attr, ScrollMask) = 0
<1> DEFINE base == [sum |-> 0, unit |-> 1, a |-> attr, b |-> ScrollMask]
           bits == [i \in 1..8 |-> i]
<1>1. And(attr, ScrollMask) = BitFold!Result(0, base, bits).sum
  BY Zenon DEF And, BitOp, BitFold!Result, FoldLeft, MapThenFoldSet, Max,
     BitFold!Highest
<1>2. bits \in Seq(Nat)
  OBVIOUS
<1>3. NoCommonBit(0, base)
  BY DEF NoCommonBit, CHAR_ATTR, ScrollMask
<1>4. ASSUME NEW s, NEW i, NoCommonBit(0, s)
      PROVE  NoCommonBit(0, BitOp(0, s, i))
  <2> DEFINE t == BitOp(0, s, i)
  <2> SUFFICES NoCommonBit(0, t)
    OBVIOUS
  <2>1. /\ t.sum = s.sum + (s.a % 2) * (s.b % 2) * s.unit /\ t.unit = 2 * s.unit
        /\ t.a = s.a \div 2 /\ t.b = s.b \div 2
    BY DEF BitOp
  <2>0. s.sum = 0 /\ s.unit \in Nat
    BY <1>4 DEF NoCommonBit
  <2> HIDE DEF t
  <2>2. CASE s.a = 0 /\ s.b \in Nat
    <3>1. s.a % 2 = 0 /\ s.a \div 2 = 0 /\ s.b \div 2 \in Nat /\ s.b % 2 \in Nat
      BY <2>2
    <3>2. t.sum = 0 /\ t.unit \in Nat /\ t.a = 0 /\ t.b \in Nat
      BY <2>0, <2>1, <3>1
    <3>3. QED
      BY <3>2 DEF NoCommonBit
  <2>3. CASE s.a = 7 /\ s.b = 40
    <3>1. 7 % 2 = 1 /\ 40 % 2 = 0 /\ 7 \div 2 = 3 /\ 40 \div 2 = 20
      OBVIOUS
    <3>2. t.sum = 0 /\ t.unit \in Nat /\ t.a = 3 /\ t.b = 20
      BY <2>0, <2>1, <2>3, <3>1
    <3>3. QED
      BY <3>2 DEF NoCommonBit
  <2>4. CASE s.a = 3 /\ s.b = 20
    <3>1. 3 % 2 = 1 /\ 20 % 2 = 0 /\ 3 \div 2 = 1 /\ 20 \div 2 = 10
      OBVIOUS
    <3>2. t.sum = 0 /\ t.unit \in Nat /\ t.a = 1 /\ t.b = 10
      BY <2>0, <2>1, <2>4, <3>1
    <3>3. QED
      BY <3>2 DEF NoCommonBit
  <2>5. CASE s.a = 1 /\ s.b = 10
    <3>1. 1 % 2 = 1 /\ 10 % 2 = 0 /\ 1 \div 2 = 0 /\ 10 \div 2 = 5
      OBVIOUS
    <3>2. t.sum = 0 /\ t.unit \in Nat /\ t.a = 0 /\ t.b \in Nat
      BY <2>0, <2>1, <2>5, <3>1
    <3>3. QED
      BY <3>2 DEF NoCommonBit
  <2>6. QED
    BY <1>4, <2>2, <2>3, <2>4, <2>5 DEF NoCommonBit
<1> HIDE DEF base, bits
<1>5. NoCommonBit(0, BitFold!Result(0, base, bits))
  BY <1>2, <1>3, <1>4, BitFold!FoldInvariant
<1>6. QED
  BY <1>1, <1>5 DEF NoCommonBit

-----------------------------------------------------------------------------
(* Positions.                                                              *)

\* A cell of the screen is in video memory.
LEMMA PositionInside ==
  ASSUME NEW x \in 0..(Cols - 1), NEW y \in 0..(Lines - 1)
  PROVE  x + Cols * y \in Pos
<1>1. Cols \in Nat /\ Lines \in Nat /\ x \in Nat /\ y \in Nat /\ x < Cols
  BY ConsoleAssumption
<1>2. Cols * y \in Nat /\ Cols * Lines \in Nat /\ Cols * (Lines - 1) = Cols * Lines - Cols
  BY <1>1
<1>3. Cols * y <= Cols * (Lines - 1)
  <2>1. Lines - 1 - y \in Nat
    BY <1>1
  <2>2. Cols * (Lines - 1 - y) \in Nat
    BY <1>1, <2>1
  <2>3. Cols * (Lines - 1 - y) = Cols * (Lines - 1) - Cols * y
    BY <1>1
  <2>4. QED
    BY <1>1, <1>2, <2>2, <2>3
<1>4. QED
  BY <1>1, <1>2, <1>3 DEF Pos

\* The positions of a line come before those of the lines below it.
LEMMA LinesInOrder ==
  ASSUME NEW x \in 0..(Cols - 1), NEW y \in Nat, NEW z \in Nat, y < z
  PROVE  x + Cols * y < Cols * z
<1>1. Cols \in Nat /\ x \in Nat /\ x < Cols
  BY ConsoleAssumption
<1>2. z - y - 1 \in Nat
  OBVIOUS
<1>3. Cols * (z - y - 1) \in Nat
  BY <1>1, <1>2
<1>4. Cols * (z - y - 1) = Cols * z - Cols * y - Cols
  BY <1>1
<1>5. Cols * z \in Nat /\ Cols * y \in Nat
  BY <1>1
<1>6. QED
  BY <1>1, <1>3, <1>4, <1>5

\* Two cells of the screen have two positions.
LEMMA PositionsDiffer ==
  ASSUME NEW x \in 0..(Cols - 1), NEW y \in Nat, NEW u \in 0..(Cols - 1), NEW z \in Nat,
         x # u \/ y # z
  PROVE  x + Cols * y # u + Cols * z
<1>1. Cols \in Nat /\ x \in Nat /\ u \in Nat /\ Cols * y \in Nat /\ Cols * z \in Nat
  BY ConsoleAssumption
<1>2. CASE y < z
  BY <1>1, <1>2, LinesInOrder
<1>3. CASE z < y
  BY <1>1, <1>3, LinesInOrder
<1>4. CASE y = z
  BY <1>1, <1>4
<1>5. QED
  BY <1>2, <1>3, <1>4

-----------------------------------------------------------------------------
(* The screen as a window on the lines of the paper.                       *)

\* What is written in column x of line i.
CharAt(ls, i, x) == IF i <= Len(ls) /\ x <= Len(ls[i]) THEN ls[i][x] ELSE " "

\* What position p shows.
Look(v, p) == IF v[p].attr = 0 THEN " " ELSE v[p].c

\* The lines ls on the screen, with the cursor in line y of it, the last one;
\* the lines that were scrolled away are those that had no room.
Rows(v, y, ls) ==
  /\ v \in [Pos -> [c : Char, attr : {0, CHAR_ATTR}]]
  /\ ls \in Seq(Str) /\ y \in 0..(Lines - 1) /\ y < Len(ls)
  /\ y + 1 < Lines => Len(ls) = y + 1
  /\ \A r \in 0..(Lines - 1), x \in 1..Cols :
       Look(v, x - 1 + Cols * r) = CharAt(ls, Len(ls) - y + r, x)

\* The same with the cursor in its column.
Picture(v, x, y, ls) ==
  /\ Rows(v, y, ls)
  /\ x = Len(ls[Len(ls)]) /\ x < Cols

\* The paper with a new line.
LEMMA LineMore ==
  ASSUME NEW ls \in Seq(Str)
  PROVE  /\ Append(ls, <<>>) \in Seq(Str) /\ Len(Append(ls, <<>>)) = Len(ls) + 1
         /\ Append(ls, <<>>)[Len(ls) + 1] = <<>> /\ Len(<<>>) = 0
         /\ \A i \in Nat \ {0}, c \in Nat \ {0} :
              /\ CharAt(Append(ls, <<>>), i, c) = CharAt(ls, i, c)
              /\ i > Len(ls) => CharAt(ls, i, c) = " "
<1> DEFINE n == Len(ls)
           more == Append(ls, <<>>)
<1>0. n \in Nat
  OBVIOUS
<1>1. <<>> \in Str /\ Len(<<>>) = 0 /\ n \in Nat
  BY DEF Str
<1>2. /\ more \in Seq(Str) /\ Len(more) = n + 1 /\ more[n + 1] = <<>>
      /\ \A i \in 1..n : more[i] = ls[i]
  BY <1>1
<1> HIDE DEF more, n
<1>3. ASSUME NEW i \in Nat \ {0}, NEW c \in Nat \ {0}
      PROVE  /\ CharAt(more, i, c) = CharAt(ls, i, c)
             /\ i > n => CharAt(ls, i, c) = " "
  <2>1. CASE i <= n
    <3>1. more[i] = ls[i] /\ i <= Len(more) /\ ~(i > n)
      BY <1>1, <1>2, <2>1
    <3>2. QED
      BY <2>1, <3>1, Zenon DEF CharAt, n
  <2>2. CASE i > n
    <3>1. ~(i <= n)
      BY <1>1, <2>2
    <3>2. CharAt(ls, i, c) = " "
      BY <3>1, Zenon DEF CharAt, n
    <3>3. CASE i = n + 1
      <4>1. ~(c <= Len(more[i]))
        BY <1>1, <1>2, <3>3
      <4>2. QED
        BY <3>2, <4>1, Zenon DEF CharAt
    <3>4. CASE i # n + 1
      <4>1. ~(i <= Len(more))
        BY <1>1, <1>2, <2>2, <3>4
      <4>2. QED
        BY <3>2, <4>1, Zenon DEF CharAt
    <3>5. QED
      BY <3>3, <3>4
  <2>3. i <= n \/ i > n
    BY <1>0
  <2>4. QED
    BY <2>1, <2>2, <2>3, Zenon
<1>4. QED
  BY <1>1, <1>2, <1>3 DEF more, n

\* What Rows says of the numbers.
LEMMA RowsParts ==
  ASSUME NEW v, NEW y, NEW ls, Rows(v, y, ls)
  PROVE  /\ Cols \in Nat \ {0} /\ Lines \in Nat /\ Lines > 1
         /\ ls \in Seq(Str) /\ Len(ls) \in Nat /\ y \in Nat /\ y < Lines /\ y < Len(ls)
         /\ y + 1 < Lines => Len(ls) = y + 1
<1>1. /\ ls \in Seq(Str) /\ y \in 0..(Lines - 1) /\ y < Len(ls)
      /\ y + 1 < Lines => Len(ls) = y + 1
  BY Zenon DEF Rows
<1>2. QED
  BY <1>1, ConsoleAssumption

\* The cursor goes down a line.
LEMMA DownPicture ==
  ASSUME NEW v, NEW y, NEW ls, Rows(v, y, ls), y + 1 < Lines
  PROVE  Picture(v, 0, y + 1, Append(ls, <<>>))
<1> DEFINE n == Len(ls)
           more == Append(ls, <<>>)
<1>1. /\ Cols \in Nat \ {0} /\ Lines \in Nat /\ y \in Nat
      /\ ls \in Seq(Str) /\ n = y + 1 /\ v \in [Pos -> [c : Char, attr : {0, CHAR_ATTR}]]
  BY RowsParts DEF Rows
<1>2. /\ more \in Seq(Str) /\ Len(more) = n + 1 /\ Len(more[n + 1]) = 0
      /\ \A i \in Nat \ {0}, c \in Nat \ {0} : CharAt(more, i, c) = CharAt(ls, i, c)
  BY <1>1, LineMore
<1> HIDE DEF more, n
<1>3. ASSUME NEW r \in 0..(Lines - 1), NEW c \in 1..Cols
      PROVE  Look(v, c - 1 + Cols * r) = CharAt(more, Len(more) - (y + 1) + r, c)
  <2>1. Look(v, c - 1 + Cols * r) = CharAt(ls, n - y + r, c)
    BY Zenon DEF Rows, n
  <2>2. /\ n - y + r = r + 1 /\ Len(more) - (y + 1) + r = r + 1
        /\ r + 1 \in Nat \ {0} /\ c \in Nat \ {0}
    BY <1>1, <1>2
  <2>3. QED
    BY <1>2, <2>1, <2>2
<1>4. /\ y + 1 \in 0..(Lines - 1) /\ y + 1 < Len(more)
      /\ y + 1 + 1 < Lines => Len(more) = y + 1 + 1
      /\ 0 = Len(more[Len(more)]) /\ 0 < Cols
  BY <1>1, <1>2
<1>5. Rows(v, y + 1, more)
  BY <1>1, <1>2, <1>3, <1>4, Zenon DEF Rows
<1>6. QED
  BY <1>4, <1>5 DEF Picture, more

\* The screen scrolls.
LEMMA ScrollPicture ==
  ASSUME NEW v, NEW y, NEW ls, Rows(v, y, ls), y + 1 >= Lines
  PROVE  Picture(scroll(v), 0, y, Append(ls, <<>>))
<1> DEFINE n == Len(ls)
           more == Append(ls, <<>>)
           w == scroll(v)
           last == Cols * (Lines - 1)
           Cell == [c : Char, attr : {0, CHAR_ATTR}]
<1>1. /\ Cols \in Nat \ {0} /\ Lines \in Nat /\ Lines > 1 /\ y = Lines - 1
      /\ ls \in Seq(Str) /\ n \in Nat /\ y < n
  BY RowsParts
<1>2. more \in Seq(Str) /\ Len(more) = n + 1 /\ Len(more[n + 1]) = 0
  BY <1>1, LineMore
<1>chars. \A i \in Nat \ {0}, c \in Nat \ {0} :
        CharAt(more, i, c) = CharAt(ls, i, c) /\ (i > n => CharAt(ls, i, c) = " ")
  BY <1>1, LineMore
<1>3. v \in [Pos -> Cell]
  BY Zenon DEF Rows
<1>4. last \in Nat /\ Cols * Lines = last + Cols
  BY <1>1
<1>5. w = [p \in Pos |-> w[p]] /\ \A p \in Pos : w[p] = IF p < last THEN v[p + Cols] ELSE Dimmed(v[p])
  BY DEF scroll
<1> HIDE DEF more, n, w, last
<1>6. \A p \in Pos : p \in Nat /\ (p < last => p + Cols \in Pos)
  BY <1>1, <1>4 DEF Pos
<1>7. ASSUME NEW p \in Pos
      PROVE  w[p] \in Cell /\ (p >= last => Look(w, p) = " ")
  <2>1. CASE p < last
    <3>1. w[p] \in Cell
      BY <1>3, <1>5, <1>6, <2>1
    <3>2. ~(p >= last)
      BY <1>4, <1>6, <2>1
    <3>3. QED
      BY <3>1, <3>2
  <2>2. CASE ~(p < last)
    <3>1. v[p] \in Cell /\ w[p] = Dimmed(v[p])
      BY <1>3, <1>5, <2>2
    <3>2. And(v[p].attr, ScrollMask) = 0
      BY <3>1, DimmedIsBlack
    <3>3. w[p] = [v[p] EXCEPT !.attr = 0]
      BY <3>1, <3>2, Zenon DEF Dimmed
    <3>4. w[p].attr = 0 /\ w[p] \in Cell
      BY <3>1, <3>3
    <3>5. QED
      BY <3>4 DEF Look
  <2>3. QED
    BY <2>1, <2>2
<1>8. ASSUME NEW r \in 0..(Lines - 1), NEW c \in 1..Cols
      PROVE  Look(w, c - 1 + Cols * r) = CharAt(more, Len(more) - y + r, c)
  <2> DEFINE p == c - 1 + Cols * r
  <2>1. p \in Pos
    <3>1. c - 1 \in 0..(Cols - 1)
      BY <1>1
    <3>2. QED
      BY <3>1, PositionInside
  <2>2. Cols * r \in Nat /\ c \in Nat \ {0} /\ r \in Nat
    BY <1>1
  <2>3. CASE r < Lines - 1
    <3>1. p < last
      <4>1. c - 1 \in 0..(Cols - 1) /\ Lines - 1 \in Nat
        BY <1>1
      <4>2. QED
        BY <2>2, <2>3, <4>1, LinesInOrder DEF last
    <3>2. p + Cols = c - 1 + Cols * (r + 1)
      BY <1>1, <2>2
    <3>3. Look(w, p) = Look(v, c - 1 + Cols * (r + 1))
      BY <1>5, <2>1, <3>1, <3>2 DEF Look
    <3>4. r + 1 \in 0..(Lines - 1) /\ n - y + (r + 1) \in Nat \ {0}
      BY <1>1, <2>2, <2>3
    <3>5. Look(v, c - 1 + Cols * (r + 1)) = CharAt(ls, n - y + (r + 1), c)
      BY <3>4, Zenon DEF Rows, n
    <3>6. Len(more) - y + r = n - y + (r + 1)
      BY <1>1, <1>2, <2>2
    <3>7. QED
      BY <1>chars, <2>2, <3>3, <3>4, <3>5, <3>6
  <2>4. CASE r = Lines - 1
    <3>1. p >= last
      BY <1>1, <1>4, <2>2, <2>4 DEF last
    <3>2. Len(more) - y + r > n /\ Len(more) - y + r \in Nat \ {0}
      BY <1>1, <1>2, <2>4
    <3>3. QED
      BY <1>chars, <1>7, <2>1, <2>2, <3>1, <3>2
  <2>5. QED
    BY <1>1, <2>3, <2>4
<1>9. /\ y \in 0..(Lines - 1) /\ y < Len(more) /\ ~(y + 1 < Lines)
      /\ 0 = Len(more[Len(more)]) /\ 0 < Cols
  BY <1>1, <1>2
<1>10. w \in [Pos -> Cell]
  BY <1>5, <1>7
<1>11. Rows(w, y, more)
  BY <1>2, <1>8, <1>9, <1>10, Zenon DEF Rows
<1>12. QED
  BY <1>9, <1>11 DEF Picture, more, w

\* The characters of a screen with one more in the last line.
LEMMA CharMore ==
  ASSUME NEW ls \in Seq(Str), ls # <<>>, NEW ch \in Char
  PROVE  LET n == Len(ls)
             l == Append(Last(ls), ch)
             more == Append(Front(ls), l)
         IN  /\ more \in Seq(Str) /\ Len(more) = n /\ more[n] = l
             /\ Len(l) = Len(ls[n]) + 1 /\ Len(ls[n]) \in Nat
             /\ CharAt(more, n, Len(ls[n]) + 1) = ch
             /\ \A i \in Nat \ {0}, c \in Nat \ {0} :
                  i # n \/ c # Len(ls[n]) + 1 => CharAt(more, i, c) = CharAt(ls, i, c)
<1> DEFINE n == Len(ls)
           old == ls[n]
           l == Append(old, ch)
           more == Append(Front(ls), l)
           x == Len(old)
<1>1. n \in Nat \ {0}
  BY EmptySeq
<1>2. old \in Str /\ Last(ls) = old
  BY <1>1 DEF Last
<1>3. /\ l \in Str /\ x \in Nat /\ Len(l) = x + 1 /\ l[x + 1] = ch
      /\ \A c \in 1..x : l[c] = old[c]
  BY <1>2 DEF Str
<1>4. Front(ls) \in Seq(Str) /\ Len(Front(ls)) = n - 1 /\ \A i \in 1..(n - 1) : Front(ls)[i] = ls[i]
  <2>1. /\ n - 1 \in Int /\ 1 \in Int /\ n - 1 - 1 + 1 = n - 1 /\ 1 <= n - 1 + 1
        /\ \A i \in 1..(n - 1) : ls[i] \in Str
    BY <1>1
  <2> DEFINE f == SubSeq(ls, 1, n - 1)
  <2>2. /\ f \in Seq(Str) /\ Len(f) = n - 1 - 1 + 1
        /\ \A i \in 1..(n - 1 - 1 + 1) : f[i] = ls[1 + i - 1]
    BY <2>1, SubSeqProperties
  <2>3. f = Front(ls)
    BY Zenon DEF Front
  <2> HIDE DEF f
  <2>4. QED
    BY <1>1, <2>2, <2>3
<1>5. /\ more \in Seq(Str) /\ Len(more) = n /\ more[n] = l
      /\ \A i \in 1..(n - 1) : more[i] = ls[i]
  <2> HIDE DEF l
  <2>1. QED
    BY <1>1, <1>3, <1>4, AppendProperties
<1> HIDE DEF n, old, l, more, x
<1>6. CharAt(more, n, x + 1) = ch
  <2>1. n <= Len(more) /\ x + 1 <= Len(more[n]) /\ more[n][x + 1] = ch
    BY <1>1, <1>3, <1>5
  <2>2. QED
    BY <2>1, Zenon DEF CharAt
<1>7. ASSUME NEW i \in Nat \ {0}, NEW c \in Nat \ {0}, i # n \/ c # x + 1
      PROVE  CharAt(more, i, c) = CharAt(ls, i, c)
  <2>1. CASE i < n
    <3>1. more[i] = ls[i] /\ i <= n /\ i <= Len(more)
      BY <1>1, <1>5, <2>1
    <3>2. QED
      BY <3>1, Zenon DEF CharAt, n
  <2>2. CASE i > n
    <3>1. ~(i <= n) /\ ~(i <= Len(more))
      BY <1>1, <1>5, <2>2
    <3>2. QED
      BY <3>1, Zenon DEF CharAt, n
  <2>3. CASE i = n /\ c <= x
    <3>1. more[i] = l /\ l[c] = old[c] /\ c <= Len(l) /\ i <= Len(more)
      BY <1>1, <1>3, <1>5, <2>3
    <3>2. ls[i] = old /\ i <= n
      BY <1>1, <2>3 DEF old
    <3>3. QED
      BY <2>3, <3>1, <3>2, Zenon DEF CharAt, n, x
  <2>4. CASE i = n /\ c > x + 1
    <3>1. more[i] = l /\ ~(c <= Len(l)) /\ ~(c <= x)
      BY <1>3, <1>5, <2>4
    <3>2. ls[i] = old
      BY <2>4 DEF old
    <3>3. QED
      BY <3>1, <3>2, Zenon DEF CharAt, x
  <2>5. i < n \/ i > n \/ (i = n /\ c <= x) \/ (i = n /\ c > x + 1)
    BY <1>1, <1>3, <1>7
  <2>6. QED
    BY <2>1, <2>2, <2>3, <2>4, <2>5, Zenon
<1>8. QED
  BY <1>2, <1>3, <1>5, <1>6, <1>7, Zenon DEF n, old, l, more, x

\* A character is stored under the cursor.
LEMMA TypePicture ==
  ASSUME NEW v, NEW x, NEW y, NEW ls, Picture(v, x, y, ls), NEW ch \in Char
  PROVE  LET l == Append(Last(ls), ch)
             more == Append(Front(ls), l)
         IN  /\ Rows(Store(v, x + Cols * y, [c |-> ch, attr |-> CHAR_ATTR]), y, more)
             /\ more[Len(more)] = l /\ Len(l) = x + 1
<1> DEFINE n == Len(ls)
           l == Append(Last(ls), ch)
           more == Append(Front(ls), l)
           cell == [c |-> ch, attr |-> CHAR_ATTR]
           at == x + Cols * y
           w == Store(v, at, cell)
           Cell == [c : Char, attr : {0, CHAR_ATTR}]
<1>1. /\ Cols \in Nat \ {0} /\ Lines \in Nat /\ Lines > 1 /\ y \in 0..(Lines - 1)
      /\ ls \in Seq(Str) /\ n \in Nat /\ y < n
      /\ y + 1 < Lines => n = y + 1
  BY RowsParts DEF Picture
<1>2. ls # <<>>
  BY <1>1
<1>3. x = Len(ls[n]) /\ x < Cols /\ Rows(v, y, ls)
  BY DEF Picture
<1>4. /\ more \in Seq(Str) /\ Len(more) = n /\ more[n] = l
      /\ Len(l) = x + 1 /\ x \in Nat
  BY <1>1, <1>2, <1>3, CharMore
<1>5. CharAt(more, n, x + 1) = ch
  BY <1>1, <1>2, <1>3, CharMore
<1>6. \A i \in Nat \ {0}, c \in Nat \ {0} :
        i # n \/ c # x + 1 => CharAt(more, i, c) = CharAt(ls, i, c)
  BY <1>1, <1>2, <1>3, CharMore
<1>7. at \in Pos /\ x \in 0..(Cols - 1)
  <2>1. x \in 0..(Cols - 1)
    BY <1>1, <1>3, <1>4
  <2>2. QED
    BY <1>1, <2>1, PositionInside
<1>8. v \in [Pos -> Cell]
  BY <1>3, Zenon DEF Rows
<1>9. cell \in Cell /\ cell.c = ch /\ cell.attr # 0
  BY DEF CHAR_ATTR
<1> HIDE DEF n, l, more, cell, at, Cell
<1>10. w = [v EXCEPT ![at] = cell]
  BY <1>7 DEF Store
<1> HIDE DEF w
<1>11. w \in [Pos -> Cell] /\ w[at] = cell /\ \A p \in Pos \ {at} : w[p] = v[p]
  BY <1>7, <1>8, <1>9, <1>10
<1>12. ASSUME NEW r \in 0..(Lines - 1), NEW c \in 1..Cols
       PROVE  Look(w, c - 1 + Cols * r) = CharAt(more, Len(more) - y + r, c)
  <2> DEFINE p == c - 1 + Cols * r
  <2>1. c - 1 \in 0..(Cols - 1) /\ r \in Nat /\ c \in Nat \ {0} /\ y \in Nat
    BY <1>1
  <2>2. p \in Pos
    BY <2>1, PositionInside
  <2>3. CASE r = y /\ c = x + 1
    <3>1. p = at /\ Len(more) - y + r = n /\ c = x + 1
      BY <1>1, <1>4, <2>1, <2>3 DEF at
    <3>2. Look(w, p) = ch
      BY <1>9, <1>11, <3>1 DEF Look
    <3>3. QED
      BY <1>5, <3>1, <3>2
  <2>4. CASE r # y \/ c # x + 1
    <3>1. c - 1 # x \/ r # y
      BY <1>4, <2>1, <2>4
    <3>2. p # at
      BY <1>7, <2>1, <3>1, PositionsDiffer DEF at
    <3>3. Look(w, p) = Look(v, p)
      BY <1>11, <2>2, <3>2 DEF Look
    <3>4. Look(v, p) = CharAt(ls, n - y + r, c)
      BY <1>3, Zenon DEF Rows, n
    <3>5. /\ n - y + r \in Nat \ {0} /\ Len(more) - y + r = n - y + r
          /\ n - y + r # n \/ c # x + 1
      BY <1>1, <1>4, <2>1, <2>4
    <3>6. QED
      BY <1>6, <2>1, <3>3, <3>4, <3>5
  <2>5. QED
    BY <2>3, <2>4
<1>13. y < Len(more) /\ (y + 1 < Lines => Len(more) = y + 1)
  BY <1>1, <1>4
<1>14. Rows(w, y, more)
  BY <1>1, <1>4, <1>11, <1>12, <1>13, Zenon DEF Rows, Cell
<1>15. more[Len(more)] = l
  BY <1>4
<1>16. QED
  BY <1>4, <1>14, <1>15, Zenon DEF w, at, cell, more, l

-----------------------------------------------------------------------------
\* con_write's state s shows the lines ls.
HasPicture(s, ls) ==
  \E v, x, y, off : s = [v |-> v, x |-> x, y |-> y, off |-> off] /\ Picture(v, x, y, ls)

\* NewLine, at the end of the last line or before it.
LEMMA NewLinePicture ==
  ASSUME NEW v, NEW x, NEW y, NEW off, NEW ls, Rows(v, y, ls)
  PROVE  HasPicture(NewLine([v |-> v, x |-> x, y |-> y, off |-> off]), Append(ls, <<>>))
<1> DEFINE s == [v |-> v, x |-> x, y |-> y, off |-> off]
           w == scroll(v)
<1>1. s.v = v /\ s.y = y
  OBVIOUS
<1>2. CASE y + 1 < Lines
  <2>1. ~(s.y + 1 >= Lines)
    BY <1>1, <1>2, RowsParts
  <2>2. NewLine(s) = [s EXCEPT !.x = 0, !.y = s.y + 1]
    BY <2>1, Zenon DEF NewLine
  <2>3. NewLine(s) = [s EXCEPT !.x = 0, !.y = y + 1]
    BY <1>1, <2>2, Zenon
  <2>4. NewLine(s) = [v |-> v, x |-> 0, y |-> y + 1, off |-> off]
    BY <2>3
  <2>5. QED
    BY <1>2, <2>4, DownPicture, Zenon DEF HasPicture
<1>3. CASE y + 1 >= Lines
  <2>1. s.y + 1 >= Lines
    BY <1>1, <1>3
  <2>2. NewLine(s) = [s EXCEPT !.v = scroll(s.v), !.x = 0]
    BY <2>1, Zenon DEF NewLine
  <2>3. NewLine(s) = [s EXCEPT !.v = w, !.x = 0]
    BY <1>1, <2>2, Zenon
  <2> HIDE DEF w
  <2>4. NewLine(s) = [v |-> w, x |-> 0, y |-> y, off |-> off]
    <3> DEFINE s1 == [s EXCEPT !.v = w]
    <3>1. s1 = [v |-> w, x |-> x, y |-> y, off |-> off]
      OBVIOUS
    <3>2. NewLine(s) = [s1 EXCEPT !.x = 0]
      BY <2>3
    <3> HIDE DEF s1, s
    <3>3. QED
      BY <3>1, <3>2
  <2>5. Picture(w, 0, y, Append(ls, <<>>))
    BY <1>3, ScrollPicture DEF w
  <2>6. QED
    BY <2>4, <2>5, Zenon DEF HasPicture
<1>4. y + 1 < Lines \/ y + 1 >= Lines
  BY RowsParts
<1>5. QED
  BY <1>2, <1>3, <1>4, Zenon

\* One turn of Paper.
PaperOp(e, ls, c) ==
  LET l == Append(Last(ls), IF c = "\t" THEN " " ELSE c)
  IN  IF c = "\n" THEN Append(ls, <<>>)
      ELSE IF Len(l) = Cols THEN Front(ls) \o <<l, <<>>>>
      ELSE Append(Front(ls), l)

\* One turn of con_write is one turn of Paper.
LEMMA PutCharPicture ==
  ASSUME NEW s, NEW ls, HasPicture(s, ls), NEW c \in Char, c # "\r"
  PROVE  HasPicture(PutChar(s, c), PaperOp(0, ls, c))
<1>1. PICK v, x, y, off : s = [v |-> v, x |-> x, y |-> y, off |-> off] /\ Picture(v, x, y, ls)
  BY Zenon DEF HasPicture
<1>2. s.v = v /\ s.x = x /\ s.y = y /\ s.off = off
  BY <1>1
<1>3. CASE c = "\n"
  <2>1. PutChar(s, c) = NewLine(s)
    BY <1>3 DEF PutChar
  <2>2. PaperOp(0, ls, c) = Append(ls, <<>>)
    BY <1>3, Zenon DEF PaperOp
  <2>3. Rows(v, y, ls)
    BY <1>1, Zenon DEF Picture
  <2>4. QED
    BY <1>1, <2>1, <2>2, <2>3, NewLinePicture, Zenon
<1>4. CASE c # "\n"
  <2> DEFINE ch == IF c = "\t" THEN " " ELSE c
             l == Append(Last(ls), ch)
             more == Append(Front(ls), l)
             cell == [c |-> ch, attr |-> CHAR_ATTR]
             w == Store(v, x + Cols * y, cell)
             z == x + 1
             s1 == [s EXCEPT !.v = w]
             u == [s1 EXCEPT !.x = z]
             t == [v |-> w, x |-> z, y |-> y, off |-> off]
  <2>1. PutChar(s, c) = (IF LineFull(u.x) THEN NewLine(u) ELSE u)
    BY <1>2, <1>4 DEF PutChar
  <2>2. ch \in Char
    BY DEF Char
  <2> HIDE DEF ch
  <2>3. Rows(w, y, more) /\ more[Len(more)] = l /\ Len(l) = z
    <3>1. Picture(v, x, y, ls)
      BY <1>1
    <3>2. QED
      BY <2>2, <3>1, TypePicture
  <2>4. PaperOp(0, ls, c) = IF Len(l) = Cols THEN Front(ls) \o <<l, <<>>>> ELSE more
    BY <1>4, Zenon DEF PaperOp, ch
  <2>5. Cols \in Nat \ {0} /\ x \in Nat /\ x < Cols /\ ls \in Seq(Str) /\ ls # <<>>
    <3>1. Rows(v, y, ls) /\ x = Len(ls[Len(ls)]) /\ x < Cols
      BY <1>1, Zenon DEF Picture
    <3>2. Cols \in Nat \ {0} /\ ls \in Seq(Str) /\ Len(ls) \in Nat /\ Len(ls) > 0
      BY <3>1, RowsParts
    <3>3. ls[Len(ls)] \in Str
      BY <3>2
    <3>4. QED
      BY <3>1, <3>2, <3>3 DEF Str
  <2>6. Front(ls) \o <<l, <<>>>> = Append(more, <<>>)
    <3>1. l \in Str /\ <<>> \in Str
      BY <2>2, <2>5 DEF Str, Last
    <3>2. Front(ls) \in Seq(Str)
      BY <2>5, SubSeqProperties DEF Front
    <3> HIDE DEF l
    <3>3. QED
      BY <3>1, <3>2
  <2> HIDE DEF w, z
  <2>7. u = t /\ t.x = z
    <3>1. s1 = [v |-> w, x |-> x, y |-> y, off |-> off]
      BY <1>1
    <3> HIDE DEF s1
    <3>2. QED
      BY <3>1
  <2> HIDE DEF u, more
  <2>8. CASE LineFull(z)
    <3>1. Len(l) = Cols
      BY <2>3, <2>5, <2>8 DEF LineFull, z
    <3>2. PaperOp(0, ls, c) = Append(more, <<>>)
      BY <2>4, <2>6, <3>1, Zenon
    <3>3. HasPicture(NewLine(t), Append(more, <<>>))
      BY <2>3, NewLinePicture, Zenon
    <3>4. PutChar(s, c) = NewLine(t)
      BY <2>1, <2>7, <2>8, Zenon
    <3>5. QED
      BY <3>2, <3>3, <3>4, Zenon
  <2>9. CASE ~LineFull(z)
    <3>1. Len(l) # Cols /\ z < Cols
      BY <2>3, <2>5, <2>9 DEF LineFull, z
    <3>2. PaperOp(0, ls, c) = more
      BY <2>4, <3>1, Zenon
    <3>3. Picture(w, z, y, more)
      BY <2>3, <3>1, Zenon DEF Picture
    <3>4. PutChar(s, c) = t
      BY <2>1, <2>7, <2>9, Zenon
    <3>5. QED
      BY <3>2, <3>3, <3>4, Zenon DEF HasPicture
  <2>10. QED
    BY <2>8, <2>9, Zenon
<1>5. QED
  BY <1>3, <1>4, Zenon

-----------------------------------------------------------------------------
(* Texts.                                                                  *)

PaperFold == INSTANCE Fold_proofs WITH Op <- PaperOp, Good <- AreLines

\* No carriage return in t.
NoReturn(t) == \A i \in 1..Len(t) : t[i] # "\r"

\* con_write's loop over a text, and the paper that goes with it.
LEMMA WritePicture ==
  ASSUME NEW s, NEW ls, HasPicture(s, ls), NEW str \in Str, NoReturn(str)
  PROVE  HasPicture(Write(s, str), PaperFold!Result(0, ls, str))
<1> DEFINE n == Len(str)
           t == FoldLeft(PutChar, s, str)
           end == PaperFold!Result(0, ls, str)
<1>1. t = PutFold!Result(0, s, str)
  BY Zenon DEF PutOp, PutFold!Result, FoldLeft, MapThenFoldSet, Max,
     PutFold!Highest
<1>2. Write(s, str) = [t EXCEPT !.x = @ % 256, !.y = @ % 256]
  BY Zenon DEF Write
<1> HIDE DEF t, end
<1>3. str \in Seq(Char) /\ n \in Nat
  BY DEF Str
<1>4. PICK r : PutFold!IsRun(0, r, s, str)
  BY <1>3, PutFold!FoldRun DEF PutFold!HasRun
<1>5. PICK q : PaperFold!IsRun(0, q, ls, str)
  BY <1>3, PaperFold!FoldRun DEF PaperFold!HasRun
<1> DEFINE T == {k \in Nat : k <= n => HasPicture(r[k], q[k])}
<1>6. T \subseteq Nat /\ 0 \in T
  BY <1>4, <1>5 DEF PutFold!IsRun, PaperFold!IsRun
<1>7. ASSUME NEW k \in T
      PROVE  k + 1 \in T
  <2> SUFFICES ASSUME k + 1 <= n
               PROVE  HasPicture(r[k + 1], q[k + 1])
    OBVIOUS
  <2>1. k + 1 \in 1..n /\ k + 1 - 1 = k /\ HasPicture(r[k], q[k]) /\ str[k + 1] \in Char
    BY <1>3
  <2>2. r[k + 1] = PutChar(r[k], str[k + 1])
    BY <1>4, <2>1 DEF PutFold!IsRun, PutOp
  <2>3. q[k + 1] = PaperOp(0, q[k], str[k + 1])
    BY <1>5, <2>1 DEF PaperFold!IsRun
  <2>4. str[k + 1] # "\r"
    BY <2>1 DEF NoReturn
  <2>5. QED
    BY <2>1, <2>2, <2>3, <2>4, PutCharPicture
<1>8. Nat \subseteq T
  <2> HIDE DEF T
  <2>1. \A k \in T : k + 1 \in T
    BY <1>7
  <2>2. QED
    BY <1>6, <2>1, PutFold!Induction
<1>9. HasPicture(t, end)
  <2>1. n \in T
    BY <1>3, <1>8
  <2>2. HasPicture(r[n], q[n])
    BY <1>3, <2>1
  <2>3. r[n] = t /\ q[n] = end
    BY <1>1, <1>4, <1>5 DEF PutFold!IsRun, PaperFold!IsRun, end
  <2>4. QED
    BY <2>2, <2>3
<1>10. PICK v, x, y, off :
         t = [v |-> v, x |-> x, y |-> y, off |-> off] /\ Picture(v, x, y, end)
  BY <1>9, Zenon DEF HasPicture
<1>11. x % 256 = x /\ y % 256 = y
  <2>1. Rows(v, y, end) /\ x = Len(end[Len(end)]) /\ x < Cols
    BY <1>10, Zenon DEF Picture
  <2>2. end \in Seq(Str) /\ Len(end) \in Nat /\ Len(end) > 0 /\ y \in Nat /\ y < Lines
    BY <2>1, RowsParts
  <2>3. end[Len(end)] \in Str
    BY <2>2
  <2>4. x \in Nat
    BY <2>1, <2>3 DEF Str
  <2>5. x \in 0..255
    <3>1. x < Cols
      BY <2>1
    <3>2. QED
      BY <2>4, <3>1, ConsoleAssumption
  <2>6. y \in 0..255
    BY <2>2, ConsoleAssumption
  <2>7. QED
    BY <2>5, <2>6
<1>12. Write(s, str) = [v |-> v, x |-> x, y |-> y, off |-> off]
  <2>1. t.x = x /\ t.y = y
    BY <1>10
  <2>2. Write(s, str) = [t EXCEPT !.x = x, !.y = y]
    BY <1>2, <1>11, <2>1, Zenon
  <2>3. QED
    BY <1>10, <2>2
<1>13. QED
  BY <1>10, <1>12, Zenon DEF HasPicture, end

-----------------------------------------------------------------------------
(* The invariant.                                                          *)

\* The paper before anything is written.
FirstPaper(first) == Append([i \in 1..first |-> [x \in 1..Cols |-> Bios]], <<>>)
PaperOf(first, t) == PaperFold!Result(0, FirstPaper(first), t)

\* con_write's state s shows the paper of the text t.
Shows(s, first, t) == t \in Str /\ (NoReturn(t) => HasPicture(s, PaperOf(first, t)))

ScreenInv ==
  /\ start \in 0..(Lines - 1)
  /\ Shows([v |-> vidmem, x |-> orig_x, y |-> orig_y, off |-> topped], start, text)

\* One turn of what con_write does to text.
WrittenOp(e, t, str) == t \o str
WrittenFold == INSTANCE Fold_proofs WITH Op <- WrittenOp, Good <- AreLines

\* One call of con_write.
LEMMA WriteShows ==
  ASSUME NEW s, NEW first, NEW t, Shows(s, first, t), NEW str \in Str
  PROVE  Shows(Write(s, str), first, t \o str)
<1>1. t \in Str
  BY Zenon DEF Shows
<1>2. /\ t \in Seq(Char) /\ str \in Seq(Char) /\ t \o str \in Seq(Char)
      /\ Len(t) \in Nat /\ Len(str) \in Nat
      /\ Len(t \o str) = Len(t) + Len(str)
      /\ \A i \in 1..Len(t) : (t \o str)[i] = t[i]
      /\ \A i \in 1..Len(str) : (t \o str)[Len(t) + i] = str[i]
  BY <1>1 DEF Str
<1>3. ASSUME NoReturn(t \o str)
      PROVE  NoReturn(t) /\ NoReturn(str)
  <2>1. ASSUME NEW i \in 1..Len(t)
        PROVE  t[i] # "\r"
    <3>1. i \in 1..Len(t \o str)
      BY <1>2
    <3>2. QED
      BY <1>2, <1>3, <3>1 DEF NoReturn
  <2>2. ASSUME NEW i \in 1..Len(str)
        PROVE  str[i] # "\r"
    <3>1. Len(t) + i \in 1..Len(t \o str)
      BY <1>2
    <3>2. (t \o str)[Len(t) + i] # "\r"
      BY <1>3, <3>1 DEF NoReturn
    <3>3. QED
      BY <1>2, <3>2
  <2>3. QED
    BY <2>1, <2>2 DEF NoReturn
<1>4. ASSUME NoReturn(t \o str)
      PROVE  HasPicture(Write(s, str), PaperOf(first, t \o str))
  <2>1. HasPicture(s, PaperOf(first, t)) /\ NoReturn(str)
    BY <1>3, <1>4, Zenon DEF Shows
  <2>2. HasPicture(Write(s, str), PaperFold!Result(0, PaperOf(first, t), str))
    BY <2>1, WritePicture
  <2>3. PaperOf(first, t \o str) = PaperFold!Result(0, PaperOf(first, t), str)
    BY <1>2, PaperFold!FoldConcat DEF PaperOf
  <2>4. QED
    BY <2>2, <2>3
<1>5. t \o str \in Str
  BY <1>2 DEF Str
<1>6. QED
  BY <1>4, <1>5, Zenon DEF Shows

\* Several calls.
LEMMA WritesShow ==
  ASSUME NEW s, NEW first, NEW t, Shows(s, first, t), NEW strs \in Seq(Str)
  PROVE  Shows(WriteFold!Result(0, s, strs), first, WrittenFold!Result(0, t, strs))
<1> DEFINE n == Len(strs)
<1>1. n \in Nat
  OBVIOUS
<1>2. PICK r : WriteFold!IsRun(0, r, s, strs)
  BY WriteFold!FoldRun DEF WriteFold!HasRun
<1>3. PICK q : WrittenFold!IsRun(0, q, t, strs)
  BY WrittenFold!FoldRun DEF WrittenFold!HasRun
<1> DEFINE T == {k \in Nat : k <= n => Shows(r[k], first, q[k])}
<1>4. T \subseteq Nat /\ 0 \in T
  BY <1>2, <1>3 DEF WriteFold!IsRun, WrittenFold!IsRun
<1>5. ASSUME NEW k \in T
      PROVE  k + 1 \in T
  <2> SUFFICES ASSUME k + 1 <= n
               PROVE  Shows(r[k + 1], first, q[k + 1])
    OBVIOUS
  <2>1. k + 1 \in 1..n /\ k + 1 - 1 = k /\ Shows(r[k], first, q[k]) /\ strs[k + 1] \in Str
    BY <1>1
  <2>2. r[k + 1] = Write(r[k], strs[k + 1])
    BY <1>2, <2>1 DEF WriteFold!IsRun, WriteOp
  <2>3. q[k + 1] = q[k] \o strs[k + 1]
    <3>1. q[k + 1] = WrittenOp(0, q[k + 1 - 1], strs[k + 1])
      BY <1>3, <2>1 DEF WrittenFold!IsRun
    <3>2. QED
      BY <2>1, <3>1, Zenon DEF WrittenOp
  <2>4. QED
    BY <2>1, <2>2, <2>3, WriteShows
<1>6. Nat \subseteq T
  <2> HIDE DEF T
  <2>1. \A k \in T : k + 1 \in T
    BY <1>5
  <2>2. QED
    BY <1>4, <2>1, WriteFold!Induction
<1>7. Shows(r[n], first, q[n])
  <2>1. n \in T
    BY <1>1, <1>6
  <2>2. QED
    BY <1>1, <2>1
<1>8. QED
  BY <1>2, <1>3, <1>7 DEF WriteFold!IsRun, WrittenFold!IsRun

\* The step con_write.
LEMMA ConWriteScreen ==
  ASSUME NEW strs \in Seq(Str), ScreenInv, con_write(strs)
  PROVE  ScreenInv'
<1> DEFINE s == [v |-> vidmem, x |-> orig_x, y |-> orig_y, off |-> topped]
           t == FoldLeft(Write, s, strs)
           new == FoldLeft(LAMBDA o, str : o \o str, text, strs)
<1>1. t = WriteFold!Result(0, s, strs)
  BY Zenon DEF WriteOp, WriteFold!Result, FoldLeft, MapThenFoldSet, Max,
     WriteFold!Highest
<1>2. new = WrittenFold!Result(0, text, strs)
  BY Zenon DEF WrittenOp, WrittenFold!Result, FoldLeft, MapThenFoldSet, Max,
     WrittenFold!Highest
<1>3. /\ vidmem' = t.v /\ orig_x' = t.x /\ orig_y' = t.y /\ topped' = t.off
      /\ text' = new /\ start' = start
  BY Zenon DEF con_write
<1> HIDE DEF t, new
<1>4. Shows(s, start, text) /\ start \in 0..(Lines - 1)
  BY Zenon DEF ScreenInv
<1> HIDE DEF s
<1>5. Shows(t, start, new)
  BY <1>1, <1>2, <1>4, WritesShow
<1> DEFINE u == [v |-> vidmem', x |-> orig_x', y |-> orig_y', off |-> topped']
<1>6. new \in Str
  BY <1>5, Zenon DEF Shows
<1>7. ASSUME NoReturn(new)
      PROVE  HasPicture(u, PaperOf(start, new))
  <2>1. HasPicture(t, PaperOf(start, new))
    BY <1>5, <1>7, Zenon DEF Shows
  <2>2. PICK v, x, y, off : t = [v |-> v, x |-> x, y |-> y, off |-> off]
                            /\ Picture(v, x, y, PaperOf(start, new))
    BY <2>1, Zenon DEF HasPicture
  <2>3. t.v = v /\ t.x = x /\ t.y = y /\ t.off = off
    BY <2>2
  <2>4. u = t
    BY <1>3, <2>2, <2>3, Zenon
  <2>5. QED
    BY <2>1, <2>4, Zenon
<1> HIDE DEF u
<1>8. Shows(u, start, new)
  BY <1>6, <1>7, Zenon DEF Shows
<1>9. Shows(u, start', text')
  BY <1>3, <1>8, Zenon
<1>10. QED
  BY <1>3, <1>4, <1>9, Zenon DEF ScreenInv, u

\* The first screen: what the BIOS left, then nothing.
LEMMA ScreenInit == Init => ScreenInv
<1> SUFFICES ASSUME Init
             PROVE  ScreenInv
  OBVIOUS
<1> DEFINE left == [i \in 1..start |-> [x \in 1..Cols |-> Bios]]
           ls == FirstPaper(start)
           Cell == [c : Char, attr : {0, CHAR_ATTR}]
<1>1. vidmem = [p \in Pos |-> [c |-> IF p < start * Cols THEN Bios ELSE " ",
                               attr |-> CHAR_ATTR]]
  BY Zenon DEF Init, ConsoleInit
<1>start. start \in 0..(Lines - 1)
  BY Zenon DEF Init, ConsoleInit
<1>cursor. orig_x = 0 /\ orig_y = start /\ text = <<>>
  BY Zenon DEF Init, ConsoleInit
<1>2. Cols \in Nat \ {0} /\ Lines \in Nat /\ Lines > 1 /\ start \in Nat /\ start < Lines
  BY <1>start, ConsoleAssumption
<1>3. Bios \in Char /\ " " \in Char
  BY DEF Char, Bios
<1>4. left \in Seq(Str) /\ Len(left) = start /\ \A i \in 1..start : Len(left[i]) = Cols
  <2> DEFINE l == [x \in 1..Cols |-> Bios]
  <2>1. l \in Str /\ Len(l) = Cols
    <3>1. Cols \in Nat /\ l = [x \in 1..Cols |-> l[x]] /\ \A x \in 1..Cols : l[x] \in Char
      BY <1>2, <1>3
    <3> HIDE DEF l
    <3>2. l \in Seq(Char)
      BY <3>1
    <3>3. Len(l) = Cols
      BY <3>1, <3>2
    <3>4. QED
      BY <3>2, <3>3 DEF Str
  <2>2. left = [i \in 1..start |-> l]
    OBVIOUS
  <2> HIDE DEF l, left
  <2>3. QED
    BY <1>2, <2>1, <2>2
<1>5. \A i \in 1..start, c \in 1..Cols : left[i][c] = Bios
  OBVIOUS
<1> HIDE DEF left
<1>6. /\ ls \in Seq(Str) /\ Len(ls) = start + 1 /\ ls[start + 1] = <<>>
      /\ \A i \in 1..start : ls[i] = left[i]
  <2>1. <<>> \in Str
    BY DEF Str
  <2>2. ls = Append(left, <<>>)
    BY Zenon DEF FirstPaper, left
  <2> HIDE DEF ls
  <2>3. QED
    BY <1>2, <1>4, <2>1, <2>2
<1>7. Len(<<>>) = 0
  OBVIOUS
<1> HIDE DEF ls
<1>8. ASSUME NEW p \in Pos
      PROVE  /\ vidmem[p] \in Cell
             /\ Look(vidmem, p) = IF p < start * Cols THEN Bios ELSE " "
  <2> DEFINE ch == IF p < start * Cols THEN Bios ELSE " "
             cell == [c |-> ch, attr |-> CHAR_ATTR]
  <2>1. vidmem[p] = cell
    BY <1>1
  <2>2. ch \in Char
    BY <1>3
  <2> HIDE DEF ch
  <2>3. cell \in Cell /\ cell.c = ch /\ cell.attr # 0
    BY <2>2 DEF CHAR_ATTR
  <2> HIDE DEF cell
  <2>4. QED
    BY <2>1, <2>3 DEF Look, ch
<1>9. vidmem \in [Pos -> Cell]
  <2>1. vidmem = [p \in Pos |-> vidmem[p]]
    BY <1>1
  <2>2. QED
    BY <1>8, <2>1
<1>10. ASSUME NEW r \in 0..(Lines - 1), NEW c \in 1..Cols
       PROVE  Look(vidmem, c - 1 + Cols * r) = CharAt(ls, Len(ls) - start + r, c)
  <2> DEFINE p == c - 1 + Cols * r
  <2>1. c - 1 \in 0..(Cols - 1) /\ r \in Nat /\ c \in Nat \ {0}
    BY <1>2
  <2>2. p \in Pos
    BY <2>1, PositionInside
  <2>3. Len(ls) - start + r = r + 1
    BY <1>2, <1>6, <2>1
  <2>4. CASE r < start
    <3>1. p < start * Cols
      <4>1. p < Cols * start
        BY <1>2, <2>1, <2>4, LinesInOrder
      <4>2. QED
        BY <1>2, <4>1
    <3>2. r + 1 \in 1..start /\ r + 1 <= Len(ls)
      BY <1>2, <1>6, <2>1, <2>4
    <3>3. ls[r + 1] = left[r + 1] /\ c <= Len(left[r + 1]) /\ left[r + 1][c] = Bios
      BY <1>2, <1>4, <1>5, <1>6, <2>1, <3>2
    <3>4. CharAt(ls, r + 1, c) = Bios
      BY <3>2, <3>3, Zenon DEF CharAt
    <3>5. Look(vidmem, p) = Bios
      BY <1>8, <2>2, <3>1, Zenon
    <3>6. QED
      BY <2>3, <3>4, <3>5
  <2>5. CASE ~(r < start)
    <3>1. ~(p < start * Cols)
      <4>1. r - start \in Nat
        BY <1>2, <2>1, <2>5
      <4>2. Cols * (r - start) \in Nat
        BY <1>2, <4>1
      <4>3. Cols * (r - start) = Cols * r - start * Cols
        BY <1>2, <2>1
      <4>4. Cols * r \in Nat /\ start * Cols \in Nat
        BY <1>2, <2>1
      <4>5. QED
        BY <2>1, <4>2, <4>3, <4>4
    <3>2. Look(vidmem, p) = " "
      BY <1>8, <2>2, <3>1, Zenon
    <3>3. ~(r + 1 <= Len(ls) /\ c <= Len(ls[r + 1]))
      <4>1. CASE r = start
        BY <1>6, <1>7, <2>1, <4>1
      <4>2. CASE r # start
        BY <1>2, <1>6, <2>1, <2>5, <4>2
      <4>3. QED
        BY <4>1, <4>2
    <3>4. CharAt(ls, r + 1, c) = " "
      BY <3>3, Zenon DEF CharAt
    <3>5. QED
      BY <2>3, <3>2, <3>4
  <2>6. QED
    BY <2>4, <2>5
<1>11. start < Len(ls) /\ (start + 1 < Lines => Len(ls) = start + 1)
  BY <1>2, <1>6
<1>12. Rows(vidmem, start, ls)
  BY <1>start, <1>6, <1>9, <1>10, <1>11, Zenon DEF Rows
<1>13. 0 = Len(ls[Len(ls)]) /\ 0 < Cols
  BY <1>2, <1>6, <1>7
<1>14. Picture(vidmem, 0, start, ls)
  BY <1>12, <1>13, Zenon DEF Picture
<1>15. HasPicture([v |-> vidmem, x |-> orig_x, y |-> orig_y, off |-> topped], ls)
  BY <1>cursor, <1>14, Zenon DEF HasPicture
<1>16. PaperOf(start, text) = ls
  BY <1>cursor, PaperFold!FoldEmpty DEF PaperOf, ls
<1>17. text \in Str
  BY <1>cursor DEF Str
<1>18. QED
  BY <1>start, <1>15, <1>16, <1>17, Zenon DEF ScreenInv, Shows

\* The invariant says what the screen shows.
LEMMA ScreenShows == ScreenInv => ScreenShowsEnd
<1> SUFFICES ASSUME ScreenInv, "\r" \notin Range(text)
             PROVE  LET n == Len(Paper)
                        top == IF n > Lines THEN n - Lines ELSE 0
                    IN  /\ \A y \in 0..(Lines - 1) :
                             Shown(vidmem, y) = IF top + y + 1 <= n THEN Padded(Paper[top + y + 1])
                                                                    ELSE Padded(<<>>)
                        /\ orig_y = n - 1 - top /\ orig_x = Len(Last(Paper))
  BY DEF ScreenShowsEnd
<1> DEFINE ls == Paper
           n == Len(ls)
           top == IF n > Lines THEN n - Lines ELSE 0
<1>1. ls = PaperOf(start, text)
  BY Zenon DEF Paper, PaperOf, FirstPaper, PaperOp, PaperFold!Result, FoldLeft,
     MapThenFoldSet, Max, PaperFold!Highest
<1> HIDE DEF ls
<1>2. NoReturn(text)
  <2>1. text \in Seq(Char)
    BY Zenon DEF ScreenInv, Shows, Str
  <2>2. DOMAIN text = 1..Len(text)
    BY <2>1
  <2>3. QED
    BY <2>2, Zenon DEF NoReturn, Range
<1>3. Picture(vidmem, orig_x, orig_y, ls)
  <2> DEFINE s == [v |-> vidmem, x |-> orig_x, y |-> orig_y, off |-> topped]
  <2>1. HasPicture(s, ls)
    BY <1>1, <1>2, Zenon DEF ScreenInv, Shows
  <2>2. s.v = vidmem /\ s.x = orig_x /\ s.y = orig_y
    OBVIOUS
  <2> HIDE DEF s
  <2>3. PICK v, x, y, off : s = [v |-> v, x |-> x, y |-> y, off |-> off] /\ Picture(v, x, y, ls)
    BY <2>1, Zenon DEF HasPicture
  <2>4. s.v = v /\ s.x = x /\ s.y = y
    BY <2>3
  <2>5. QED
    BY <2>2, <2>3, <2>4, Zenon
<1>4. Rows(vidmem, orig_y, ls) /\ orig_x = Len(ls[n])
  BY <1>3, Zenon DEF Picture
<1>5. /\ Cols \in Nat \ {0} /\ Lines \in Nat /\ Lines > 1
      /\ ls \in Seq(Str) /\ n \in Nat /\ orig_y \in Nat /\ orig_y < Lines /\ orig_y < n
      /\ orig_y + 1 < Lines => n = orig_y + 1
  BY <1>4, RowsParts
<1> HIDE DEF n
<1>6. top \in Nat /\ orig_y = n - 1 - top
  BY <1>5
<1> HIDE DEF top
<1>7. ASSUME NEW r \in 0..(Lines - 1)
      PROVE  Shown(vidmem, r) = IF top + r + 1 <= n THEN Padded(ls[top + r + 1])
                                                    ELSE Padded(<<>>)
  <2> DEFINE i == top + r + 1
  <2>1. Shown(vidmem, r) = [c \in 1..Cols |-> Look(vidmem, c - 1 + Cols * r)]
    BY Zenon DEF Shown, Look
  <2>2. n - orig_y + r = i
    BY <1>5, <1>6
  <2> HIDE DEF i
  <2>3. \A c \in 1..Cols : Look(vidmem, c - 1 + Cols * r) = CharAt(ls, i, c)
    <3>1. \A c \in 1..Cols : Look(vidmem, c - 1 + Cols * r) = CharAt(ls, n - orig_y + r, c)
      BY <1>4, Zenon DEF Rows, n
    <3>2. QED
      BY <2>2, <3>1, Zenon
  <2>4. Shown(vidmem, r) = [c \in 1..Cols |-> CharAt(ls, i, c)]
    BY <2>1, <2>3
  <2>5. CASE i <= n
    <3>1. \A c \in 1..Cols : CharAt(ls, i, c) = IF c <= Len(ls[i]) THEN ls[i][c] ELSE " "
      BY <2>5, Zenon DEF CharAt, n
    <3>2. Shown(vidmem, r) = Padded(ls[i])
      BY <2>4, <3>1 DEF Padded
    <3>3. QED
      BY <2>5, <3>2, Zenon DEF i
  <2>6. CASE ~(i <= n)
    <3>1. \A c \in 1..Cols : CharAt(ls, i, c) = " "
      BY <2>6, Zenon DEF CharAt, n
    <3>2. \A c \in 1..Cols : ~(c <= Len(<<>>))
      OBVIOUS
    <3>3. Padded(<<>>) = [c \in 1..Cols |-> " "]
      BY <3>2, Zenon DEF Padded
    <3>4. Shown(vidmem, r) = Padded(<<>>)
      BY <2>4, <3>1, <3>3, Zenon
    <3>5. QED
      BY <2>6, <3>4, Zenon DEF i
  <2>7. QED
    BY <2>5, <2>6, Zenon
<1>8. orig_x = Len(Last(ls))
  BY <1>4 DEF Last, n
<1>9. QED
  BY <1>6, <1>7, <1>8, Zenon DEF n, ls, top

\* No step of the kernel breaks it.
LEMMA ScreenStep == LogInv /\ ScreenInv /\ [Next]_vars => ScreenInv'
<1> SUFFICES ASSUME LogInv, ScreenInv, [Next]_vars
             PROVE  ScreenInv'
  OBVIOUS
<1>1. ASSUME UNCHANGED consoleVars
      PROVE  ScreenInv'
  BY <1>1, Zenon DEF consoleVars, ScreenInv
<1>2. ASSUME NEW strs \in Seq(Str), con_write(strs)
      PROVE  ScreenInv'
  BY <1>2, ConWriteScreen
<1>3. QED
  BY <1>1, <1>2, Writes

(* The screen shows the end of all that was written, line by line, with    *)
(* the cursor behind it, however often con_write wrapped a line and        *)
(* scrolled, the replay of the log included; a line that scrolled in looks *)
(* empty although its characters are still in video memory.                *)
THEOREM ScreenShowsEndCorrect == Spec => []ScreenShowsEnd
  BY LogInvInit, LogInvStep, ScreenInit, ScreenStep, ScreenShows, PTL DEF Spec

-----------------------------------------------------------------------------
(* Reading the log.                                                        *)

DigitLevel(ch) == (CHOOSE n \in 1..8 : Digit[n] = ch) - 1

\* A reader of the log: n characters of a level prefix are read (3 when it is
\* behind one, 4 when there was none), the level, and the shown for a console.
Reader(n, level, shown) == [n |-> n, level |-> level, text |-> shown]

\* The reader of a console of level l takes a character.
ReadOp(l, s, ch) ==
  IF s.n = 3
    THEN Reader(IF ch = "\n" THEN 0 ELSE 3, IF ch = "\n" THEN -1 ELSE s.level,
                IF s.level <= l THEN Append(s.text, ch) ELSE s.text)
  ELSE IF s.n = 0 /\ ch = "<" THEN Reader(1, s.level, s.text)
  ELSE IF s.n = 1 /\ ch \in Range(Digit) THEN Reader(2, DigitLevel(ch), s.text)
  ELSE IF s.n = 2 /\ ch = ">" THEN Reader(3, s.level, s.text)
  ELSE Reader(4, s.level, s.text)

Lost(l, s) == s.n = 4

ReadFold == INSTANCE Fold_proofs WITH Op <- ReadOp, Good <- Lost

Read(l, s, t) == ReadFold!Result(l, s, t)

\* The reader where no prefix is half read.
At(level, shown) == Reader(IF level = -1 THEN 0 ELSE 3, level, shown)

\* No newline but at the end.
Clean(t) == \A i \in 1..Len(t) : i < Len(t) => t[i] # "\n"

LEMMA DigitsAre ==
  /\ \A ch \in Range(Digit) : DigitLevel(ch) \in 0..7
  /\ Digit[LOGLEVEL_DEFAULT + 1] = "4" /\ "4" \in Range(Digit) /\ DigitLevel("4") = LOGLEVEL_DEFAULT
  /\ LOGLEVEL_DEFAULT = 4
  /\ "\n" \notin Range(Digit) /\ "\n" # "<" /\ "\n" # ">" /\ "\n" # "\r"
<1>1. DOMAIN Digit = 1..8
  BY DEF Digit
<1>2. ASSUME NEW ch \in Range(Digit)
      PROVE  DigitLevel(ch) \in 0..7
  <2>1. \E n \in 1..8 : Digit[n] = ch
    BY <1>1 DEF Range
  <2> DEFINE c == CHOOSE n \in 1..8 : Digit[n] = ch
  <2>2. c \in 1..8
    BY <2>1
  <2>3. DigitLevel(ch) = c - 1
    BY DEF DigitLevel
  <2> HIDE DEF c
  <2>4. QED
    BY <2>2, <2>3
<1>3. Digit[5] = "4" /\ LOGLEVEL_DEFAULT = 4
  BY DEF Digit, LOGLEVEL_DEFAULT
<1>4. "4" \in Range(Digit)
  BY <1>1, <1>3 DEF Range
<1>5. \A n \in 1..8 : Digit[n] = "4" => n = 5
  BY DEF Digit
<1>6. DigitLevel("4") = 4
  BY <1>3, <1>5 DEF DigitLevel
<1>7. \A n \in 1..8 : Digit[n] # "\n"
  BY DEF Digit
<1>8. "\n" \notin Range(Digit)
  BY <1>1, <1>7 DEF Range
<1>9. QED
  BY <1>2, <1>3, <1>4, <1>6, <1>8

\* A line, or a part of one, behind its level.
LEMMA ReadLine ==
  ASSUME NEW l \in Int, NEW level \in 0..7, NEW shown \in Str, NEW t \in Str, Clean(t)
  PROVE  Read(l, At(level, shown), t)
           = At(IF t # <<>> /\ Last(t) = "\n" THEN -1 ELSE level,
                IF level <= l THEN shown \o t ELSE shown)
<1> DEFINE n == Len(t)
           Text2(k) == IF level <= l THEN shown \o SubSeq(t, 1, k) ELSE shown
           Good(k, s) == s = At(IF k > 0 /\ t[k] = "\n" THEN -1 ELSE level, Text2(k))
<1>1. PICK r : ReadFold!IsRun(l, r, At(level, shown), t)
  BY ReadFold!FoldRun DEF Str, ReadFold!HasRun
<1>2. /\ r[0] = At(level, shown)
      /\ \A k \in 1..n : r[k] = ReadOp(l, r[k - 1], t[k])
      /\ r[n] = Read(l, At(level, shown), t)
  BY <1>1 DEF ReadFold!IsRun, Read
<1>3. n \in Nat /\ shown \in Seq(Char) /\ t \in Seq(Char) /\ \A k \in 1..n : t[k] \in Char
  BY DEF Str
<1> DEFINE T == {k \in Nat : k <= n => Good(k, r[k])}
<1>4. 0 \in T
  <2>1. SubSeq(t, 1, 0) = <<>> /\ shown \o <<>> = shown
    BY <1>3, EmptySeq
  <2>2. Text2(0) = shown
    BY <2>1
  <2> HIDE DEF Text2
  <2>3. Good(0, r[0])
    BY <1>2, <2>2 DEF At
  <2>4. QED
    BY <2>3
<1>5. ASSUME NEW k \in T
      PROVE  k + 1 \in T
  <2> SUFFICES ASSUME k + 1 <= n
               PROVE  Good(k + 1, r[k + 1])
    OBVIOUS
  <2>1. k \in Nat /\ k + 1 \in 1..n /\ k + 1 - 1 = k /\ Good(k, r[k])
    BY <1>3
  <2>2. k > 0 => t[k] # "\n"
    BY <2>1, <1>3 DEF Clean
  <2>3. r[k] = Reader(3, level, Text2(k))
    <3>1. r[k] = At(level, Text2(k))
      BY <2>1, <2>2
    <3>2. level # -1
      OBVIOUS
    <3>3. QED
      BY <3>1, <3>2 DEF At
  <2>4. Text2(k + 1) = IF level <= l THEN Append(Text2(k), t[k + 1]) ELSE Text2(k)
    <3> DEFINE a == SubSeq(t, 1, k)
               b == SubSeq(t, 1, k + 1)
    <3>1. a \in Seq(Char) /\ b = Append(a, t[k + 1])
      BY <1>3, <2>1
    <3> HIDE DEF a, b
    <3>2. shown \o Append(a, t[k + 1]) = Append(shown \o a, t[k + 1])
      BY <1>3, <2>1, <3>1
    <3>3. Text2(k) = (IF level <= l THEN shown \o a ELSE shown)
          /\ Text2(k + 1) = (IF level <= l THEN shown \o b ELSE shown)
      BY DEF a, b
    <3> HIDE DEF Text2
    <3>4. QED
      BY <3>1, <3>2, <3>3
  <2>5. r[k + 1] = ReadOp(l, Reader(3, level, Text2(k)), t[k + 1])
    BY <1>2, <2>1, <2>3
  <2> HIDE DEF Text2
  <2>6. r[k + 1] = Reader(IF t[k + 1] = "\n" THEN 0 ELSE 3, IF t[k + 1] = "\n" THEN -1 ELSE level,
                          Text2(k + 1))
    BY <2>4, <2>5 DEF ReadOp, Reader
  <2>7. QED
    BY <2>1, <2>6 DEF At
<1>6. n \in T
  <2>1. T \subseteq Nat
    OBVIOUS
  <2> HIDE DEF T
  <2>2. \A k \in T : k + 1 \in T
    BY <1>5
  <2>3. Nat \subseteq T
    BY <1>4, <2>1, <2>2, ReadFold!Induction
  <2>4. QED
    BY <1>3, <2>3
<1>7. Good(n, r[n])
  BY <1>3, <1>6
<1>8. SubSeq(t, 1, n) = t
  BY <1>3, SubSeqFull
<1>9. t # <<>> /\ Last(t) = "\n" <=> n > 0 /\ t[n] = "\n"
  BY <1>3, EmptySeq DEF Last
<1>10. QED
  BY <1>2, <1>7, <1>8, <1>9

\* Reading nothing, one shown after the other, and one character more.
LEMMA ReadNone ==
  ASSUME NEW l, NEW s
  PROVE  Read(l, s, <<>>) = s
BY ReadFold!FoldEmpty DEF Read

LEMMA ReadBoth ==
  ASSUME NEW l, NEW s, NEW t \in Str, NEW u \in Str
  PROVE  Read(l, s, t \o u) = Read(l, Read(l, s, t), u)
BY ReadFold!FoldConcat DEF Read, Str

LEMMA ReadMore ==
  ASSUME NEW l, NEW s, NEW t \in Str, NEW ch \in Char
  PROVE  Read(l, s, Append(t, ch)) = ReadOp(l, Read(l, s, t), ch)
BY ReadFold!FoldAppend DEF Read, Str

\* Three characters.
LEMMA ReadThree ==
  ASSUME NEW l, NEW s, NEW a \in Char, NEW b \in Char, NEW c \in Char
  PROVE  Read(l, s, <<a, b, c>>) = ReadOp(l, ReadOp(l, ReadOp(l, s, a), b), c)
<1> DEFINE t1 == <<a>>
           t2 == <<a, b>>
           t3 == <<a, b, c>>
<1>1. <<>> \in Str /\ t1 \in Str /\ t2 \in Str
  BY DEF Str
<1>2. Append(<<>>, a) = t1
  OBVIOUS
<1>3. Append(t1, b) = t2
  <2>1. Append(t1, b) \in Seq(Char) /\ t2 \in Seq(Char) /\ Len(Append(t1, b)) = 2 /\ Len(t2) = 2
    OBVIOUS
  <2>2. \A i \in 1..2 : Append(t1, b)[i] = t2[i]
    OBVIOUS
  <2> HIDE DEF t1, t2
  <2>3. QED
    BY <2>1, <2>2, SeqEqual
<1>4. Append(t2, c) = t3
  <2>1. Append(t2, c) \in Seq(Char) /\ t3 \in Seq(Char) /\ Len(Append(t2, c)) = 3 /\ Len(t3) = 3
    OBVIOUS
  <2>2. \A i \in 1..3 : Append(t2, c)[i] = t3[i]
    OBVIOUS
  <2> HIDE DEF t2, t3
  <2>3. QED
    BY <2>1, <2>2, SeqEqual
<1> HIDE DEF t1, t2, t3
<1>5. \A t \in Str, ch \in Char : Read(l, s, Append(t, ch)) = ReadOp(l, Read(l, s, t), ch)
  BY ReadMore
<1>6. Read(l, s, t1) = ReadOp(l, s, a)
  <2>1. Read(l, s, Append(<<>>, a)) = ReadOp(l, Read(l, s, <<>>), a)
    BY <1>1, <1>5, Zenon
  <2>2. QED
    BY <1>2, <2>1, ReadNone, Zenon
<1>7. Read(l, s, t2) = ReadOp(l, ReadOp(l, s, a), b)
  BY <1>1, <1>3, <1>5, <1>6, Zenon
<1>8. Read(l, s, t3) = ReadOp(l, ReadOp(l, ReadOp(l, s, a), b), c)
  BY <1>1, <1>4, <1>5, <1>7, Zenon
<1>9. QED
  BY <1>8, Zenon DEF t3

\* A shown cut in two.
LEMMA CutInTwo ==
  ASSUME NEW t \in Str, NEW n \in 1..Len(t)
  PROVE  /\ SubSeq(t, 1, n) \in Str /\ SubSeq(t, n + 1, Len(t)) \in Str
         /\ t = SubSeq(t, 1, n) \o SubSeq(t, n + 1, Len(t))
         /\ Len(SubSeq(t, n + 1, Len(t))) = Len(t) - n
         /\ \A i \in 1..(Len(t) - n) : SubSeq(t, n + 1, Len(t))[i] = t[n + i]
<1> DEFINE m == Len(t)
           a == SubSeq(t, 1, n)
           b == SubSeq(t, n + 1, m)
<1>1. m \in Nat /\ t \in Seq(Char) /\ \A i \in 1..m : t[i] \in Char
  BY DEF Str
<1>2. a \in Seq(Char) /\ Len(a) = n /\ \A i \in 1..n : a[i] = t[i]
  BY <1>1, SubSeqProperties
<1>3. /\ b \in Seq(Char) /\ Len(b) = m - n
      /\ \A i \in 1..(m - n) : b[i] = t[n + i]
  <2>1. b \in Seq(Char) /\ Len(b) = m - (n + 1) + 1
    BY <1>1
  <2>2. \A i \in 1..(m - n) : b[i] = t[n + 1 + i - 1] /\ n + 1 + i - 1 = n + i
    BY <1>1
  <2>3. QED
    BY <1>1, <2>1, <2>2
<1> HIDE DEF a, b
<1> DEFINE c == a \o b
<1>4. /\ c \in Seq(Char) /\ Len(c) = m
      /\ \A i \in 1..m : c[i] = t[i]
  <2>1. c \in Seq(Char) /\ Len(c) = n + (m - n)
    BY <1>2, <1>3, ConcatProperties
  <2>2. \A i \in 1..m : c[i] = IF i <= n THEN a[i] ELSE b[i - n]
    BY <1>1, <1>2, <1>3, ConcatProperties
  <2> HIDE DEF c
  <2>3. \A i \in 1..m : c[i] = t[i]
    <3> SUFFICES ASSUME NEW i \in 1..m
                 PROVE  c[i] = t[i]
      OBVIOUS
    <3>1. CASE i <= n
      BY <1>1, <1>2, <2>2, <3>1
    <3>2. CASE i > n
      <4>1. i - n \in 1..(m - n) /\ n + (i - n) = i
        BY <1>1, <3>2
      <4>2. QED
        BY <1>1, <1>3, <2>2, <3>2, <4>1
    <3>3. QED
      BY <1>1, <3>1, <3>2
  <2>4. QED
    BY <1>1, <2>1, <2>3
<1> HIDE DEF c
<1>5. c = t
  BY <1>1, <1>4, SeqEqual
<1>6. QED
  BY <1>1, <1>2, <1>3, <1>5 DEF a, b, c, Str

\* The first three characters of a shown.
LEMMA FirstThree ==
  ASSUME NEW t \in Str, Len(t) >= 3
  PROVE  SubSeq(t, 1, 3) = <<t[1], t[2], t[3]>>
<1>1. t \in Seq(Char) /\ \A i \in 1..3 : t[i] \in Char
  BY DEF Str
<1> DEFINE a == SubSeq(t, 1, 3)
<1>2. a \in Seq(Char) /\ Len(a) = 3 /\ \A i \in 1..3 : a[i] = t[i]
  BY <1>1, SubSeqProperties
<1>3. <<t[1], t[2], t[3]>> \in Seq(Char) /\ Len(<<t[1], t[2], t[3]>>) = 3
  BY <1>1
<1> HIDE DEF a
<1>4. a = <<t[1], t[2], t[3]>>
  BY <1>2, <1>3, SeqEqual
<1>5. QED
  BY <1>4 DEF a

\* Where no prefix was, the reader stays lost.
LEMMA LostStays ==
  ASSUME NEW l, NEW s, s.n = 4, NEW t \in Str
  PROVE  Read(l, s, t).n = 4
<1>1. Lost(l, s)
  BY DEF Lost
<1>2. \A r, ch : Lost(l, r) /\ ch \in Char => Lost(l, ReadOp(l, r, ch))
  BY DEF Lost, ReadOp, Reader
<1>3. Lost(l, Read(l, s, t))
  BY <1>1, <1>2, ReadFold!FoldInvariant DEF Read, Str
<1>4. QED
  BY <1>3 DEF Lost

\* A level prefix takes the reader behind it.
LEMMA ReadPrefix ==
  ASSUME NEW l, NEW shown, NEW d \in Range(Digit) \cap Char
  PROVE  Read(l, At(-1, shown), <<"<", d, ">">>) = At(DigitLevel(d), shown)
<1> DEFINE lv == DigitLevel(d)
<1>1. lv \in 0..7
  BY DigitsAre
<1>2. "<" \in Char /\ ">" \in Char
  BY DEF Char
<1>3. At(-1, shown) = Reader(0, -1, shown)
  BY DEF At
<1>4. At(lv, shown) = Reader(3, lv, shown)
  <2>1. lv # -1
    BY <1>1
  <2> HIDE DEF lv
  <2>2. QED
    BY <2>1 DEF At
<1>5. ReadOp(l, Reader(0, -1, shown), "<") = Reader(1, -1, shown)
  BY DEF ReadOp, Reader
<1>6. ReadOp(l, Reader(1, -1, shown), d) = Reader(2, lv, shown)
  BY DEF ReadOp, Reader
<1>7. ReadOp(l, Reader(2, lv, shown), ">") = Reader(3, lv, shown)
  BY DEF ReadOp, Reader
<1> HIDE DEF lv
<1>8. Read(l, At(-1, shown), <<"<", d, ">">>)
        = ReadOp(l, ReadOp(l, ReadOp(l, At(-1, shown), "<"), d), ">")
  <2>1. d \in Char
    OBVIOUS
  <2>2. \A a \in Char, b \in Char, c \in Char :
          Read(l, At(-1, shown), <<a, b, c>>) = ReadOp(l, ReadOp(l, ReadOp(l, At(-1, shown), a), b), c)
    <3> DEFINE s == At(-1, shown)
    <3> HIDE DEF s
    <3> SUFFICES ASSUME NEW a \in Char, NEW b \in Char, NEW c \in Char
                 PROVE  Read(l, s, <<a, b, c>>) = ReadOp(l, ReadOp(l, ReadOp(l, s, a), b), c)
      BY DEF s
    <3>1. QED
      BY ReadThree
  <2>3. QED
    BY <1>2, <2>1, <2>2, Zenon
<1>9. QED
  BY <1>3, <1>4, <1>5, <1>6, <1>7, <1>8 DEF lv

\* A line, or the rest of one.
IsLine(t) == t \in Str /\ t # <<>> /\ Clean(t)

\* The pieces with levels that are levels.
Pcs == [level : 0..7, text : Str, log : Str]

\* The shown for a console of level l.
Told(l, shown, p) == IF p.level <= l THEN shown \o p.text ELSE shown

\* The level that remains, without a carriage return.
Remains(t, level) == IF Last(t) = "\n" THEN -1 ELSE level

\* What a piece puts in the log reads as the shown of the piece.
LEMMA ReadPiece ==
  ASSUME NEW l \in Int, NEW level \in -1..7, NEW shown \in Str, NEW line, IsLine(line)
  PROVE  LET p == Piece(level, line)
         IN  /\ p \in Pcs /\ p.log # <<>> /\ Last(p.log) = Last(line)
             /\ Read(l, At(level, shown), p.log)
                  = At(Remains(line, p.level), Told(l, shown, p))
<1> DEFINE p == Piece(level, line)
           Goal == /\ p \in Pcs /\ p.log # <<>> /\ Last(p.log) = Last(line)
                   /\ Read(l, At(level, shown), p.log)
                        = At(Remains(line, p.level), Told(l, shown, p))
<1> SUFFICES Goal
  OBVIOUS
<1>1. line \in Str /\ line # <<>> /\ Len(line) \in Nat \ {0} /\ Clean(line)
  BY EmptySeq DEF IsLine, Str
<1>2. CASE level >= 0
  <2>1. p = [level |-> level, text |-> line, log |-> line] /\ level \in 0..7
    BY <1>2 DEF Piece
  <2>2. p.level = level /\ p.text = line /\ p.log = line /\ p \in Pcs
    BY <1>1, <2>1 DEF Pcs
  <2> HIDE DEF p
  <2>3. Read(l, At(level, shown), line)
          = At(Remains(line, level), IF level <= l THEN shown \o line ELSE shown)
    BY <1>1, <2>1, ReadLine DEF Remains
  <2>4. QED
    BY <1>1, <2>2, <2>3 DEF Told
<1>3. CASE ~(level >= 0) /\ HasLevel(line)
  <2> DEFINE n == Len(line)
             d == line[2]
             lv == LevelOf(line)
             rest == SubSeq(line, 4, n)
             pre == SubSeq(line, 1, 3)
  <2>0. n \in Nat
    BY <1>1
  <2>1. p = [level |-> lv, text |-> rest, log |-> line]
    BY <1>3 DEF Piece
  <2>2. n >= 3 /\ line[1] = "<" /\ d \in Range(Digit) /\ line[3] = ">" /\ d \in Char
    BY <1>1, <1>3 DEF HasLevel, Str
  <2>3. lv = DigitLevel(d) /\ lv \in 0..7
    BY <2>2, DigitsAre DEF LevelOf, DigitLevel
  <2>4. /\ pre \in Str /\ rest \in Str /\ line = pre \o rest
        /\ Len(rest) = n - 3 /\ \A i \in 1..(n - 3) : rest[i] = line[3 + i]
    <3>1. 3 \in 1..Len(line) /\ 3 + 1 = 4
      BY <1>1, <2>2
    <3>2. QED
      BY <1>1, <3>1, CutInTwo, Zenon
  <2>5. pre = <<"<", d, ">">>
    BY <1>1, <2>2, FirstThree
  <2>6. p.level = lv /\ p.text = rest /\ p.log = line /\ p \in Pcs
    BY <1>1, <2>1, <2>3, <2>4 DEF Pcs
  <2>7. Clean(rest)
    <3> SUFFICES ASSUME NEW i \in 1..(n - 3), i < n - 3
                 PROVE  rest[i] # "\n"
      BY <2>4 DEF Clean
    <3>1. 3 + i \in 1..n /\ 3 + i < n
      BY <1>1
    <3>2. QED
      BY <1>1, <2>4, <3>1 DEF Clean
  <2>8. (rest # <<>> /\ Last(rest) = "\n") <=> Last(line) = "\n"
    <3>1. CASE n > 3
      <4>1. Len(rest) = n - 3 /\ n - 3 \in 1..(n - 3) /\ 3 + (n - 3) = n
        BY <1>1, <2>4, <3>1
      <4>2. rest[n - 3] = line[n]
        BY <2>4, <4>1
      <4>3. Last(rest) = rest[n - 3] /\ Last(line) = line[n] /\ rest # <<>>
        <5>1. Last(rest) = rest[Len(rest)] /\ Last(line) = line[n]
          BY DEF Last
        <5>2. rest # <<>>
          <6> HIDE DEF rest, n
          <6>1. n - 3 # 0
            BY <2>0, <3>1
          <6>2. QED
            BY <4>1, <6>1
        <5>3. QED
          BY <4>1, <5>1, <5>2
      <4> HIDE DEF n, rest
      <4>4. QED
        BY <4>2, <4>3
    <3>2. CASE n = 3
      <4>1. Len(rest) = 0 /\ rest \in Seq(Char)
        BY <2>4, <3>2 DEF Str
      <4>2. rest = <<>>
        BY <4>1, EmptySeq
      <4>3. Last(line) = ">"
        BY <2>2, <3>2 DEF Last
      <4>4. QED
        BY <4>2, <4>3, DigitsAre
    <3>3. n > 3 \/ n = 3
      <4> HIDE DEF n
      <4>1. QED
        BY <2>0, <2>2
    <3>4. QED
      BY <3>1, <3>2, <3>3, Zenon
  <2>9. Read(l, At(-1, shown), pre) = At(lv, shown)
    BY <2>2, <2>3, <2>5, ReadPrefix
  <2> HIDE DEF p, n, d, lv, rest, pre
  <2>10. Read(l, At(-1, shown), line) = Read(l, At(lv, shown), rest)
    BY <2>4, <2>9, ReadBoth
  <2>11. Read(l, At(lv, shown), rest)
           = At(Remains(line, lv), IF lv <= l THEN shown \o rest ELSE shown)
    BY <2>3, <2>4, <2>7, <2>8, ReadLine DEF Remains
  <2>12. level = -1
    BY <1>3
  <2>13. QED
    BY <1>1, <2>6, <2>10, <2>11, <2>12 DEF Told
<1>4. CASE ~(level >= 0) /\ ~HasLevel(line)
  <2> DEFINE pre == <<"<", "4", ">">>
             log == pre \o line
  <2>1. p = [level |-> 4, text |-> line, log |-> log]
    BY <1>4, DigitsAre DEF Piece
  <2>2. "<" \in Char /\ "4" \in Char /\ ">" \in Char
    BY DEF Char
  <2>3. pre \in Str /\ Len(pre) = 3
    BY <2>2 DEF Str
  <2> HIDE DEF pre
  <2>4. /\ log \in Str /\ Len(log) = 3 + Len(line)
        /\ log[3 + Len(line)] = line[Len(line)]
    <3>1. pre \in Seq(Char) /\ line \in Seq(Char)
      BY <1>1, <2>3 DEF Str
    <3>2. log \in Seq(Char) /\ Len(log) = Len(pre) + Len(line)
      BY <3>1, ConcatProperties
    <3>3. /\ 3 + Len(line) \in 1..Len(log) /\ ~(3 + Len(line) <= Len(pre))
          /\ 3 + Len(line) - Len(pre) = Len(line)
      BY <1>1, <2>3, <3>2
    <3>4. log[3 + Len(line)] = line[Len(line)]
      BY <3>1, <3>2, <3>3, ConcatProperties
    <3>5. QED
      BY <2>3, <3>2, <3>4 DEF Str
  <2>5. log # <<>> /\ Last(log) = Last(line)
    BY <1>1, <2>4, EmptySeq DEF Last
  <2>6. p.level = 4 /\ p.text = line /\ p.log = log /\ p \in Pcs
    BY <1>1, <2>1, <2>4 DEF Pcs
  <2>7. Read(l, At(-1, shown), pre) = At(4, shown)
    BY <2>2, ReadPrefix, DigitsAre DEF pre
  <2> HIDE DEF p
  <2>8. Read(l, At(-1, shown), log) = Read(l, At(4, shown), line)
    BY <1>1, <2>3, <2>7, ReadBoth
  <2>9. Read(l, At(4, shown), line)
          = At(Remains(line, 4), IF 4 <= l THEN shown \o line ELSE shown)
    BY <1>1, ReadLine DEF Remains
  <2>10. level = -1
    BY <1>4
  <2> HIDE DEF log
  <2>11. QED
    BY <2>5, <2>6, <2>8, <2>9, <2>10 DEF Told
<1> HIDE DEF Goal
<1>5. QED
  BY <1>2, <1>3, <1>4

-----------------------------------------------------------------------------
(* What a console is sent, piece by piece.                                 *)

TextFold == INSTANCE Fold_proofs WITH Op <- TextOp, Good <- IsText

LEMMA UpToIsFold ==
  ASSUME NEW l, NEW ps
  PROVE  UpTo(ps, l) = UpToFold!Result(l, <<>>, ps)
BY Zenon DEF UpTo, UpToOp, UpToFold!Result, FoldLeft, MapThenFoldSet, Max,
   UpToFold!Highest

LEMMA TextIsFold ==
  ASSUME NEW ps
  PROVE  Text(ps) = TextFold!Result(0, <<>>, ps)
BY Zenon DEF Text, TextOp, TextFold!Result, FoldLeft, MapThenFoldSet, Max,
   TextFold!Highest

LEMMA LogIsFold ==
  ASSUME NEW ps
  PROVE  Log(ps) = LogFold!Result(0, <<>>, ps)
BY Zenon DEF Log, LogOp, LogFold!Result, FoldLeft, MapThenFoldSet, Max,
   LogFold!Highest

\* UpTo keeps pieces, and takes or leaves the next.
LEMMA UpToAppend ==
  ASSUME NEW l, NEW ps \in Seq(Pcs), NEW p \in Pcs
  PROVE  UpTo(Append(ps, p), l) = UpToOp(l, UpTo(ps, l), p)
<1>1. UpToFold!Result(l, <<>>, Append(ps, p)) = UpToOp(l, UpToFold!Result(l, <<>>, ps), p)
  BY UpToFold!FoldAppend
<1>2. QED
  BY <1>1, UpToIsFold

LEMMA TextAppend ==
  ASSUME NEW ps \in Seq(Pcs), NEW p \in Pcs
  PROVE  Text(Append(ps, p)) = Text(ps) \o p.text
<1>1. TextFold!Result(0, <<>>, Append(ps, p)) = TextOp(0, TextFold!Result(0, <<>>, ps), p)
  BY TextFold!FoldAppend
<1>2. QED
  BY <1>1, TextIsFold DEF TextOp

LEMMA LogAppend ==
  ASSUME NEW ps \in Seq(Pcs), NEW p \in Pcs
  PROVE  Log(Append(ps, p)) = Log(ps) \o p.log
<1>1. LogFold!Result(0, <<>>, Append(ps, p)) = LogOp(0, LogFold!Result(0, <<>>, ps), p)
  BY LogFold!FoldAppend
<1>2. QED
  BY <1>1, LogIsFold DEF LogOp

\* Nothing of nothing.
LEMMA SeenNone ==
  /\ Log(<<>>) = <<>>
  /\ \A l : Seen(<<>>, l) = <<>>
<1>1. Log(<<>>) = <<>>
  BY LogIsFold, LogFold!FoldEmpty
<1>2. Text(<<>>) = <<>>
  BY TextIsFold, TextFold!FoldEmpty
<1>3. \A l : UpTo(<<>>, l) = <<>>
  BY UpToIsFold, UpToFold!FoldEmpty
<1>4. QED
  BY <1>1, <1>2, <1>3 DEF Seen

\* What is true of no pieces, and of one more than it is true of, is true of
\* all: the first n of ps for n from 0 on.
LEMMA FirstPieces ==
  ASSUME NEW S, NEW ps \in Seq(S), NEW n \in 0..Len(ps)
  PROVE  /\ SubSeq(ps, 1, n) \in Seq(S)
         /\ n = 0 => SubSeq(ps, 1, n) = <<>>
         /\ n = Len(ps) => SubSeq(ps, 1, n) = ps
         /\ n < Len(ps) => /\ SubSeq(ps, 1, n + 1) = Append(SubSeq(ps, 1, n), ps[n + 1])
                           /\ ps[n + 1] \in S
<1>1. SubSeq(ps, 1, n) \in Seq(S)
  OBVIOUS
<1>2. n = 0 => SubSeq(ps, 1, n) = <<>>
  OBVIOUS
<1>3. n = Len(ps) => SubSeq(ps, 1, n) = ps
  BY SubSeqFull
<1>4. n < Len(ps) => SubSeq(ps, 1, n + 1) = Append(SubSeq(ps, 1, n), ps[n + 1])
  OBVIOUS
<1>5. n < Len(ps) => ps[n + 1] \in S
  OBVIOUS
<1>6. QED
  BY <1>1, <1>2, <1>3, <1>4, <1>5

\* UpTo gives pieces, Seen a text.
LEMMA SeenType ==
  ASSUME NEW l, NEW ps \in Seq(Pcs)
  PROVE  UpTo(ps, l) \in Seq(Pcs) /\ Seen(ps, l) \in Str
<1> DEFINE f(n) == SubSeq(ps, 1, n)
           T == {n \in Nat : n <= Len(ps) => UpTo(f(n), l) \in Seq(Pcs) /\ Text(UpTo(f(n), l)) \in Str}
<1>0. \A n \in 0..Len(ps) :
        /\ f(n) \in Seq(Pcs)
        /\ n = 0 => f(n) = <<>>
        /\ n = Len(ps) => f(n) = ps
        /\ n < Len(ps) => f(n + 1) = Append(f(n), ps[n + 1]) /\ ps[n + 1] \in Pcs
  BY FirstPieces
<1> HIDE DEF f
<1>1. 0 \in T
  <2>1. f(0) = <<>>
    BY <1>0
  <2>2. UpTo(<<>>, l) = <<>>
    BY UpToIsFold, UpToFold!FoldEmpty
  <2>3. Text(<<>>) = <<>>
    BY TextIsFold, TextFold!FoldEmpty
  <2>4. <<>> \in Seq(Pcs) /\ <<>> \in Str
    BY DEF Str
  <2>5. QED
    BY <2>1, <2>2, <2>3, <2>4
<1>2. ASSUME NEW n \in T
      PROVE  n + 1 \in T
  <2> SUFFICES ASSUME n + 1 <= Len(ps)
               PROVE  UpTo(f(n + 1), l) \in Seq(Pcs) /\ Text(UpTo(f(n + 1), l)) \in Str
    OBVIOUS
  <2> DEFINE us == UpTo(f(n), l)
             p == ps[n + 1]
  <2>1. n \in 0..Len(ps) /\ n < Len(ps) /\ us \in Seq(Pcs) /\ Text(us) \in Str
    OBVIOUS
  <2>2. f(n) \in Seq(Pcs) /\ f(n + 1) = Append(f(n), p) /\ p \in Pcs
    BY <1>0, <2>1
  <2>3. UpTo(f(n + 1), l) = UpToOp(l, us, p)
    BY <2>2, UpToAppend
  <2> HIDE DEF us, p
  <2>4. Append(us, p) \in Seq(Pcs)
    BY <2>1, <2>2
  <2>5. Text(Append(us, p)) = Text(us) \o p.text
    BY <2>1, <2>2, TextAppend
  <2>6. Text(Append(us, p)) \in Str
    <3>1. p.text \in Str
      BY <2>2 DEF Pcs
    <3>2. QED
      BY <2>1, <2>5, <3>1, ConcatProperties DEF Str
  <2>7. QED
    BY <2>1, <2>3, <2>4, <2>6 DEF UpToOp
<1>3. Len(ps) \in T
  <2>1. T \subseteq Nat
    OBVIOUS
  <2> HIDE DEF T
  <2>2. \A n \in T : n + 1 \in T
    BY <1>2
  <2>3. Nat \subseteq T
    BY <1>1, <2>1, <2>2, ReadFold!Induction
  <2>4. QED
    BY <2>3
<1>4. f(Len(ps)) = ps
  BY <1>0
<1>5. QED
  BY <1>3, <1>4 DEF Seen

\* One piece more.
LEMMA SeenAppend ==
  ASSUME NEW l, NEW ps \in Seq(Pcs), NEW p \in Pcs
  PROVE  Seen(Append(ps, p), l) = Told(l, Seen(ps, l), p)
<1>1. UpTo(Append(ps, p), l) = UpToOp(l, UpTo(ps, l), p)
  BY UpToAppend
<1>2. UpTo(ps, l) \in Seq(Pcs)
  BY SeenType
<1>3. CASE p.level <= l
  <2>1. UpTo(Append(ps, p), l) = Append(UpTo(ps, l), p)
    BY <1>1, <1>3 DEF UpToOp
  <2>2. Text(Append(UpTo(ps, l), p)) = Text(UpTo(ps, l)) \o p.text
    BY <1>2, TextAppend
  <2>3. QED
    BY <1>3, <2>1, <2>2 DEF Seen, Told
<1>4. CASE ~(p.level <= l)
  <2>1. UpTo(Append(ps, p), l) = UpTo(ps, l)
    BY <1>1, <1>4 DEF UpToOp
  <2>2. QED
    BY <1>4, <2>1 DEF Seen, Told
<1>5. QED
  BY <1>3, <1>4

\* One text told behind another.
LEMMA ToldBehind ==
  ASSUME NEW l, NEW a \in Str, NEW b \in Str, NEW p \in Pcs
  PROVE  Told(l, a \o b, p) = a \o Told(l, b, p)
<1>1. p.text \in Seq(Char) /\ a \in Seq(Char) /\ b \in Seq(Char)
  BY DEF Pcs, Str
<1>2. (a \o b) \o p.text = a \o (b \o p.text)
  <2> DEFINE t == p.text
  <2>1. t \in Seq(Char)
    BY <1>1
  <2> HIDE DEF t
  <2>2. (a \o b) \o t = a \o (b \o t)
    BY <1>1, <2>1, ConcatAssociative, SMTT(30)
  <2>3. QED
    BY <2>2 DEF t
<1>3. QED
  BY <1>2 DEF Told

\* What is seen of some pieces and then others.
LEMMA SeenConcat ==
  ASSUME NEW l, NEW qs \in Seq(Pcs), NEW ps \in Seq(Pcs)
  PROVE  Seen(qs \o ps, l) = Seen(qs, l) \o Seen(ps, l)
<1> DEFINE f(n) == SubSeq(ps, 1, n)
           T == {n \in Nat : n <= Len(ps) => Seen(qs \o f(n), l) = Seen(qs, l) \o Seen(f(n), l)}
<1>0. \A n \in 0..Len(ps) :
        /\ f(n) \in Seq(Pcs)
        /\ n = 0 => f(n) = <<>>
        /\ n = Len(ps) => f(n) = ps
        /\ n < Len(ps) => f(n + 1) = Append(f(n), ps[n + 1]) /\ ps[n + 1] \in Pcs
  BY FirstPieces
<1> HIDE DEF f
<1>1. 0 \in T
  <2>1. f(0) = <<>>
    BY <1>0
  <2>2. qs \o <<>> = qs
    OBVIOUS
  <2>3. Seen(qs, l) \in Seq(Char)
    BY SeenType DEF Str
  <2>4. Seen(qs, l) \o <<>> = Seen(qs, l)
    BY <2>3
  <2>5. Seen(<<>>, l) = <<>>
    BY SeenNone
  <2>6. Seen(qs \o f(0), l) = Seen(qs, l) \o Seen(f(0), l)
    BY <2>1, <2>2, <2>4, <2>5
  <2>7. QED
    BY <2>6
<1>2. ASSUME NEW n \in T
      PROVE  n + 1 \in T
  <2> SUFFICES ASSUME n + 1 <= Len(ps)
               PROVE  Seen(qs \o f(n + 1), l) = Seen(qs, l) \o Seen(f(n + 1), l)
    OBVIOUS
  <2> DEFINE p == ps[n + 1]
  <2>1. n \in 0..Len(ps) /\ n < Len(ps) /\ Seen(qs \o f(n), l) = Seen(qs, l) \o Seen(f(n), l)
    OBVIOUS
  <2>2. f(n) \in Seq(Pcs) /\ f(n + 1) = Append(f(n), p) /\ p \in Pcs
    BY <1>0, <2>1
  <2> HIDE DEF p
  <2>3. qs \o Append(f(n), p) = Append(qs \o f(n), p) /\ qs \o f(n) \in Seq(Pcs)
    BY <2>2
  <2>4. Seen(Append(qs \o f(n), p), l) = Told(l, Seen(qs \o f(n), l), p)
    BY <2>2, <2>3, SeenAppend
  <2>5. Seen(Append(f(n), p), l) = Told(l, Seen(f(n), l), p)
    BY <2>2, SeenAppend
  <2>6. Seen(qs, l) \in Str /\ Seen(f(n), l) \in Str
    BY <2>2, SeenType
  <2>7. Told(l, Seen(qs, l) \o Seen(f(n), l), p) = Seen(qs, l) \o Told(l, Seen(f(n), l), p)
    BY <2>2, <2>6, ToldBehind
  <2>8. QED
    BY <2>1, <2>2, <2>3, <2>4, <2>5, <2>7
<1>3. Len(ps) \in T
  <2>1. T \subseteq Nat
    OBVIOUS
  <2> HIDE DEF T
  <2>2. \A n \in T : n + 1 \in T
    BY <1>2
  <2>3. Nat \subseteq T
    BY <1>1, <2>1, <2>2, ReadFold!Induction
  <2>4. QED
    BY <2>3
<1>4. f(Len(ps)) = ps
  BY <1>0
<1>5. QED
  BY <1>3, <1>4

-----------------------------------------------------------------------------
(* What printk adds to the log.                                            *)

\* Lines, or starts of one: no newline but at the end, none of them empty.
AllLines(ends, ls) == \A i \in 1..Len(ls) : IsLine(ls[i])
Broken(ends, ls) == ls \in Seq(Str) /\ AllLines(ends, ls)

LineFold == INSTANCE Fold_proofs WITH Op <- CutOp, Good <- Broken

\* A character begins a line or continues one without a newline.
LEMMA LineGrows ==
  ASSUME NEW ch \in Char
  PROVE  /\ IsLine(<<ch>>)
         /\ \A t : IsLine(t) /\ Last(t) # "\n" => IsLine(Append(t, ch))
<1>1. IsLine(<<ch>>)
  <2>1. <<ch>> \in Str /\ <<ch>> # <<>> /\ Len(<<ch>>) = 1
    BY DEF Str
  <2>2. Clean(<<ch>>)
    BY <2>1 DEF Clean
  <2>3. QED
    BY <2>1, <2>2 DEF IsLine
<1>2. ASSUME NEW t, IsLine(t), Last(t) # "\n"
      PROVE  IsLine(Append(t, ch))
  <2> DEFINE u == Append(t, ch)
  <2>1. t \in Seq(Char) /\ Len(t) \in Nat /\ Clean(t)
    BY <1>2 DEF IsLine, Str
  <2>2. /\ u \in Str /\ Len(u) = Len(t) + 1
        /\ \A i \in 1..Len(t) : u[i] = t[i]
    BY <2>1 DEF Str
  <2> HIDE DEF u
  <2>3. u # <<>>
    BY <2>1, <2>2
  <2>4. ASSUME NEW i \in 1..Len(u), i < Len(u)
        PROVE  u[i] # "\n"
    <3>1. i \in 1..Len(t) /\ u[i] = t[i]
      BY <2>1, <2>2, <2>4
    <3>2. CASE i < Len(t)
      BY <2>1, <3>1, <3>2 DEF Clean
    <3>3. CASE i = Len(t)
      BY <1>2, <3>1, <3>3 DEF Last
    <3>4. QED
      BY <2>1, <3>1, <3>2, <3>3
  <2>5. Clean(u)
    BY <2>4 DEF Clean
  <2>6. QED
    BY <2>2, <2>3, <2>5 DEF IsLine, u
<1>3. QED
  BY <1>1, <1>2

\* Cut makes lines.
LEMMA CutLines ==
  ASSUME NEW s \in Str, NEW ends, "\n" \in ends
  PROVE  Cut(s, ends) \in Seq(Str) /\ AllLines(ends, Cut(s, ends))
<1>1. Cut(s, ends) = LineFold!Result(ends, <<>>, s)
  BY Zenon DEF Cut, CutOp, LineFold!Result, FoldLeft, MapThenFoldSet, Max,
     LineFold!Highest
<1>2. Broken(ends, <<>>)
  BY DEF Broken, AllLines
<1>3. ASSUME NEW ls, NEW ch, Broken(ends, ls), ch \in Char
      PROVE  Broken(ends, CutOp(ends, ls, ch))
  <2> DEFINE n == Len(ls)
  <2>1. ls \in Seq(Str) /\ n \in Nat /\ \A i \in 1..n : IsLine(ls[i])
    BY <1>3 DEF Broken, AllLines
  <2>2. CASE ls = <<>> \/ Last(Last(ls)) \in ends
    <3> DEFINE ms == Append(ls, <<ch>>)
    <3>1. <<ch>> \in Str /\ IsLine(<<ch>>)
      BY <1>3, LineGrows DEF Str
    <3>2. /\ ms \in Seq(Str) /\ Len(ms) = n + 1
          /\ ms[n + 1] = <<ch>> /\ \A i \in 1..n : ms[i] = ls[i]
      BY <2>1, <3>1
    <3> HIDE DEF ms
    <3>3. ASSUME NEW i \in 1..Len(ms)
          PROVE  IsLine(ms[i])
      BY <2>1, <3>1, <3>2
    <3>4. QED
      BY <2>2, <3>2, <3>3 DEF CutOp, Broken, AllLines, ms
  <2>3. CASE ~(ls = <<>> \/ Last(Last(ls)) \in ends)
    <3> DEFINE t == Append(Last(ls), ch)
               fs == Front(ls)
               ms == Append(fs, t)
    <3>1. n \in Nat \ {0} /\ Last(ls) = ls[n]
      BY <2>1, <2>3, EmptySeq DEF Last
    <3>2. t \in Str /\ IsLine(t)
      <4>1. IsLine(Last(ls)) /\ Last(Last(ls)) # "\n"
        BY <2>1, <2>3, <3>1
      <4>2. IsLine(t)
        BY <1>3, <4>1, LineGrows
      <4>3. QED
        BY <4>2 DEF IsLine
    <3>3. fs \in Seq(Str) /\ Len(fs) = n - 1 /\ \A i \in 1..(n - 1) : fs[i] = ls[i]
      <4> DEFINE m == n - 1
      <4>1. fs = SubSeq(ls, 1, m) /\ m \in Nat /\ \A i \in 1..m : ls[i] \in Str
        BY <2>1, <3>1 DEF Front
      <4> HIDE DEF fs, m
      <4>2. fs \in Seq(Str)
        BY <4>1, SubSeqProperties
      <4>3. Len(fs) = m
        <5>1. Len(SubSeq(ls, 1, m)) = IF 1 <= m THEN m - 1 + 1 ELSE 0
          BY <4>1, SubSeqProperties
        <5>2. QED
          BY <4>1, <5>1
      <4>4. \A i \in 1..m : fs[i] = ls[i]
        <5>1. \A i \in 1..(m - 1 + 1) : SubSeq(ls, 1, m)[i] = ls[1 + i - 1]
          BY <4>1, SubSeqProperties
        <5>2. QED
          BY <4>1, <5>1
      <4>5. QED
        BY <4>2, <4>3, <4>4 DEF m
    <3> HIDE DEF t, fs
    <3>4. /\ ms \in Seq(Str) /\ Len(ms) = n
          /\ ms[n] = t /\ \A i \in 1..(n - 1) : ms[i] = fs[i]
      BY <3>1, <3>2, <3>3
    <3> HIDE DEF ms
    <3>5. ASSUME NEW i \in 1..Len(ms)
          PROVE  IsLine(ms[i])
      <4>1. i \in 1..(n - 1) \/ i = n
        BY <3>1, <3>4
      <4>2. \A j \in 1..(n - 1) : j \in 1..n
        BY <3>1
      <4>3. QED
        BY <2>1, <3>2, <3>3, <3>4, <4>1, <4>2
    <3>6. QED
      BY <2>3, <3>4, <3>5 DEF CutOp, Broken, AllLines, ms, t, fs
  <2>4. QED
    BY <2>2, <2>3
<1>4. Broken(ends, LineFold!Result(ends, <<>>, s))
  BY <1>2, <1>3, LineFold!FoldInvariant DEF Str
<1>5. QED
  BY <1>1, <1>4 DEF Broken

\* There is a line in every text that is not empty.
LEMMA CutNotEmpty ==
  ASSUME NEW s \in Str, s # <<>>, NEW ends
  PROVE  Cut(s, ends) # <<>>
<1> DEFINE n == Len(s)
           f == SubSeq(s, 1, n - 1)
           ch == s[n]
<1>1. \A t : Cut(t, ends) = CutFold!Result(ends, <<>>, t)
  BY Zenon DEF Cut, CutOp, CutFold!Result, FoldLeft, MapThenFoldSet, Max,
     CutFold!Highest
<1>2. n \in Nat \ {0} /\ s \in Seq(Char)
  BY EmptySeq DEF Str
<1>3. f \in Str /\ ch \in Char /\ s = Append(f, ch)
  <2>1. n - 1 \in 0..n /\ n - 1 < n /\ n - 1 + 1 = n
    BY <1>2
  <2>2. /\ f \in Seq(Char)
        /\ SubSeq(s, 1, n - 1 + 1) = Append(f, s[n - 1 + 1]) /\ s[n - 1 + 1] \in Char
    BY <1>2, <2>1, FirstPieces
  <2>3. SubSeq(s, 1, n) = s
    BY <1>2, SubSeqFull
  <2>4. QED
    BY <2>1, <2>2, <2>3 DEF Str
<1> HIDE DEF f, ch
<1>4. Cut(s, ends) = CutOp(ends, Cut(f, ends), ch)
  <2>1. CutFold!Result(ends, <<>>, Append(f, ch)) = CutOp(ends, CutFold!Result(ends, <<>>, f), ch)
    BY <1>3, CutFold!FoldAppend DEF Str
  <2>2. QED
    BY <1>1, <1>3, <2>1
<1> DEFINE ls == Cut(f, ends)
<1>5. ls \in Seq(Str)
  BY <1>3, CutType
<1> HIDE DEF ls
<1>6. Append(ls, <<ch>>) # <<>>
  BY <1>5
<1>7. ls # <<>> => Append(Front(ls), Append(Last(ls), ch)) # <<>>
  <2> SUFFICES ASSUME ls # <<>>
               PROVE  Append(Front(ls), Append(Last(ls), ch)) # <<>>
    OBVIOUS
  <2> DEFINE g == Front(ls)
             x == Append(Last(ls), ch)
  <2>1. g \in Seq(Str) /\ x \in Str
    <3>1. Len(ls) \in Nat \ {0}
      BY <1>5, EmptySeq
    <3>2. g \in Seq(Str)
      BY <1>5, <3>1, SubSeqProperties DEF Front
    <3>3. Last(ls) \in Str
      BY <1>5, <3>1 DEF Last
    <3>4. QED
      BY <1>3, <3>2, <3>3 DEF Str
  <2> HIDE DEF g, x
  <2>2. Append(g, x) # <<>>
    <3>1. Append(g, x) \in Seq(Str) /\ Len(Append(g, x)) = Len(g) + 1 /\ Len(g) \in Nat
      BY <2>1
    <3>2. QED
      BY <3>1
  <2>3. QED
    BY <2>2 DEF g, x
<1>8. QED
  BY <1>4, <1>6, <1>7 DEF CutOp, ls

\* The members of two sequences.
LEMMA RangeBoth ==
  ASSUME NEW S, NEW a \in Seq(S), NEW b \in Seq(S)
  PROVE  Range(a \o b) = Range(a) \cup Range(b)
<1>1. /\ Len(a) \in Nat /\ Len(b) \in Nat
      /\ DOMAIN a = 1..Len(a) /\ DOMAIN b = 1..Len(b)
  OBVIOUS
<1> DEFINE c == a \o b
<1>2. /\ c \in Seq(S) /\ Len(c) = Len(a) + Len(b) /\ DOMAIN c = 1..(Len(a) + Len(b))
      /\ \A i \in 1..Len(a) : c[i] = a[i]
      /\ \A i \in 1..Len(b) : c[Len(a) + i] = b[i]
  BY <1>1
<1> HIDE DEF c
<1>3. ASSUME NEW x \in Range(c)
      PROVE  x \in Range(a) \cup Range(b)
  <2>1. PICK i \in 1..(Len(a) + Len(b)) : c[i] = x
    BY <1>2 DEF Range
  <2>2. CASE i <= Len(a)
    BY <1>1, <1>2, <2>1, <2>2 DEF Range
  <2>3. CASE i > Len(a)
    <3>1. i - Len(a) \in 1..Len(b) /\ Len(a) + (i - Len(a)) = i
      BY <1>1, <2>3
    <3>2. b[i - Len(a)] = x
      BY <1>2, <2>1, <3>1
    <3>3. QED
      BY <1>1, <3>1, <3>2 DEF Range
  <2>4. QED
    BY <1>1, <2>2, <2>3
<1>4. ASSUME NEW x \in Range(a)
      PROVE  x \in Range(c)
  <2>1. PICK i \in 1..Len(a) : a[i] = x
    BY <1>1 DEF Range
  <2>2. i \in 1..(Len(a) + Len(b)) /\ c[i] = x
    BY <1>1, <1>2, <2>1
  <2>3. QED
    BY <1>2, <2>2 DEF Range
<1>5. ASSUME NEW x \in Range(b)
      PROVE  x \in Range(c)
  <2>1. PICK i \in 1..Len(b) : b[i] = x
    BY <1>1 DEF Range
  <2>2. Len(a) + i \in 1..(Len(a) + Len(b)) /\ c[Len(a) + i] = x
    BY <1>1, <1>2, <2>1
  <2>3. QED
    BY <1>2, <2>2 DEF Range
<1>6. QED
  BY <1>3, <1>4, <1>5 DEF c

\* The level that is left behind some pieces of a message.
Left(level, ps) == IF ps = <<>> THEN level ELSE After(Last(ps))

\* The pieces of the first lines of a message: their levels, and, if they have
\* no carriage return, what the log reads as.
SoFar(l, level, shown, ps) ==
  /\ ps \in Seq(Pcs) /\ Left(level, ps) \in -1..7 /\ Log(ps) \in Str
  /\ "\r" \notin Range(Log(ps)) =>
       Read(l, At(level, shown), Log(ps)) = At(Left(level, ps), shown \o Seen(ps, l))

\* One line more.
LEMMA PieceMore ==
  ASSUME NEW l \in Int, NEW level \in -1..7, NEW shown \in Str,
         NEW ps, SoFar(l, level, shown, ps), NEW line, IsLine(line)
  PROVE  /\ SoFar(l, level, shown, PieceOp(level, ps, line))
         /\ PieceOp(level, ps, line) # <<>>
<1> DEFINE lv == Left(level, ps)
           told == shown \o Seen(ps, l)
           p == Piece(lv, line)
           qs == PieceOp(level, ps, line)
<1>1. /\ ps \in Seq(Pcs) /\ lv \in -1..7 /\ Log(ps) \in Str
      /\ Seen(ps, l) \in Str /\ told \in Str
  <2>1. ps \in Seq(Pcs) /\ lv \in -1..7 /\ Log(ps) \in Str
    BY DEF SoFar
  <2>2. Seen(ps, l) \in Str
    BY <2>1, SeenType
  <2>3. told \in Str
    BY <2>2, ConcatProperties DEF Str
  <2>4. QED
    BY <2>1, <2>2, <2>3
<1>2. /\ p \in Pcs /\ p.log # <<>> /\ Last(p.log) = Last(line)
      /\ Read(l, At(lv, told), p.log) = At(Remains(line, p.level), Told(l, told, p))
  <2> HIDE DEF lv, told
  <2>1. QED
    BY <1>1, ReadPiece
<1>3. qs = Append(ps, p)
  BY DEF PieceOp, Left
<1> HIDE DEF lv, told, p, qs
<1>4. p.level \in 0..7 /\ p.log \in Str /\ p.text \in Str
  BY <1>2 DEF Pcs
<1>5. /\ qs \in Seq(Pcs) /\ Len(qs) = Len(ps) + 1 /\ Len(ps) \in Nat
      /\ qs[Len(qs)] = p
  BY <1>1, <1>2, <1>3
<1>6. qs # <<>>
  BY <1>5
<1>7. Last(qs) = p
  BY <1>5 DEF Last
<1>8. Left(level, qs) = After(p)
  BY <1>6, <1>7 DEF Left
<1>9. Left(level, qs) \in -1..7
  BY <1>4, <1>8 DEF After
<1>10. Log(qs) = Log(ps) \o p.log
  BY <1>1, <1>2, <1>3, LogAppend
<1>11. Log(qs) \in Str
  BY <1>1, <1>4, <1>10, ConcatProperties DEF Str
<1>12. ASSUME "\r" \notin Range(Log(qs))
       PROVE  Read(l, At(level, shown), Log(qs)) = At(Left(level, qs), shown \o Seen(qs, l))
  <2>1. "\r" \notin Range(Log(ps)) /\ "\r" \notin Range(p.log)
    BY <1>1, <1>4, <1>10, <1>12, RangeBoth DEF Str
  <2>2. Read(l, At(level, shown), Log(ps)) = At(lv, told)
    BY <2>1 DEF SoFar, lv, told
  <2>3. Last(p.log) # "\r"
    <3>1. p.log \in Seq(Char) /\ Len(p.log) \in Nat \ {0}
      BY <1>2, <1>4, EmptySeq DEF Str
    <3>2. p.log[Len(p.log)] \in Range(p.log)
      BY <3>1 DEF Range
    <3>3. QED
      BY <2>1, <3>2 DEF Last
  <2>4. After(p) = Remains(line, p.level)
    BY <1>2, <2>3, Zenon DEF After, Remains
  <2>5. Read(l, At(level, shown), Log(qs)) = Read(l, At(lv, told), p.log)
    BY <1>1, <1>4, <1>10, <2>2, ReadBoth
  <2>6. Seen(qs, l) = Told(l, Seen(ps, l), p)
    BY <1>1, <1>2, <1>3, SeenAppend
  <2>7. Told(l, told, p) = shown \o Told(l, Seen(ps, l), p)
    BY <1>1, <1>2, ToldBehind DEF told
  <2>8. QED
    BY <1>2, <1>8, <2>4, <2>5, <2>6, <2>7
<1>13. QED
  BY <1>5, <1>6, <1>9, <1>11, <1>12 DEF SoFar, qs

\* What printk adds to the log reads as what it tells the consoles.
LEMMA SayRead ==
  ASSUME NEW l \in Int, NEW level \in -1..7, NEW shown \in Str,
         NEW msg \in Str, msg # <<>>
  PROVE  SoFar(l, level, shown, Pieces(level, msg)) /\ Pieces(level, msg) # <<>>
<1> DEFINE lines == Cut(msg, {"\n", "\r"})
           n == Len(lines)
<1>1. Pieces(level, msg) = PieceFold!Result(level, <<>>, lines)
  BY Zenon DEF Pieces, PieceOp, PieceFold!Result, FoldLeft, MapThenFoldSet, Max,
     PieceFold!Highest
<1>2. lines \in Seq(Str) /\ \A i \in 1..n : IsLine(lines[i])
  BY CutLines DEF AllLines
<1>3. lines # <<>>
  BY CutNotEmpty
<1> HIDE DEF lines
<1>4. n \in Nat \ {0}
  BY <1>2, <1>3, EmptySeq
<1>5. PICK r : PieceFold!IsRun(level, r, <<>>, lines)
  BY <1>2, PieceFold!FoldRun DEF PieceFold!HasRun
<1>6. /\ r[0] = <<>> /\ r[n] = Pieces(level, msg)
      /\ \A k \in 1..n : r[k] = PieceOp(level, r[k - 1], lines[k])
  BY <1>1, <1>5 DEF PieceFold!IsRun
<1> DEFINE Good(k) == SoFar(l, level, shown, r[k]) /\ (k > 0 => r[k] # <<>>)
           T == {k \in Nat : k <= n => Good(k)}
<1>7. 0 \in T
  <2>1. <<>> \in Seq(Pcs) /\ <<>> \in Str /\ Left(level, <<>>) = level
    BY DEF Str, Left
  <2>2. Log(<<>>) = <<>> /\ Seen(<<>>, l) = <<>>
    BY SeenNone
  <2>3. Read(l, At(level, shown), <<>>) = At(level, shown)
    BY ReadNone
  <2>4. shown \o <<>> = shown
    BY DEF Str
  <2>5. SoFar(l, level, shown, <<>>)
    BY <2>1, <2>2, <2>3, <2>4 DEF SoFar
  <2>6. QED
    BY <1>6, <2>5
<1>8. ASSUME NEW k \in T
      PROVE  k + 1 \in T
  <2> SUFFICES ASSUME k + 1 <= n
               PROVE  Good(k + 1)
    OBVIOUS
  <2>1. k + 1 \in 1..n /\ k + 1 - 1 = k /\ SoFar(l, level, shown, r[k])
    BY <1>4
  <2>2. r[k + 1] = PieceOp(level, r[k], lines[k + 1]) /\ IsLine(lines[k + 1])
    BY <1>2, <1>6, <2>1
  <2>3. QED
    BY <2>1, <2>2, PieceMore
<1>9. n \in T
  <2>1. T \subseteq Nat
    OBVIOUS
  <2> HIDE DEF T
  <2>2. \A k \in T : k + 1 \in T
    BY <1>8
  <2>3. Nat \subseteq T
    BY <1>7, <2>1, <2>2, ReadFold!Induction
  <2>4. QED
    BY <1>4, <2>3
<1>10. QED
  BY <1>4, <1>6, <1>9

-----------------------------------------------------------------------------
(* What the replay tells a console that registers late.                    *)

\* A line without a level loses the reader, unless it is the start of a level.
LEMMA ReadBad ==
  ASSUME NEW l, NEW shown, NEW t, IsLine(t), ~HasLevel(t)
  PROVE  /\ Read(l, At(-1, shown), t).n \in {1, 2, 4}
         /\ Len(t) >= 3 \/ Last(t) = "\n" => Read(l, At(-1, shown), t).n = 4
<1> DEFINE n == Len(t)
           s(k) == Read(l, At(-1, shown), SubSeq(t, 1, k))
<1>1. t \in Str /\ t \in Seq(Char) /\ n \in Nat \ {0} /\ Last(t) = t[n]
  BY EmptySeq DEF IsLine, Str, Last
<1>2. s(0).n = 0
  <2>1. SubSeq(t, 1, 0) = <<>>
    BY <1>1
  <2>2. At(-1, shown).n = 0
    BY DEF At, Reader
  <2>3. QED
    BY <2>1, <2>2, ReadNone
<1>3. \A k \in 0..n : k < n => s(k + 1) = ReadOp(l, s(k), t[k + 1])
  <2> SUFFICES ASSUME NEW k \in 0..n, k < n
               PROVE  s(k + 1) = ReadOp(l, s(k), t[k + 1])
    OBVIOUS
  <2>1. /\ SubSeq(t, 1, k) \in Str /\ t[k + 1] \in Char
        /\ SubSeq(t, 1, k + 1) = Append(SubSeq(t, 1, k), t[k + 1])
    BY <1>1, FirstPieces DEF Str
  <2>2. QED
    BY <2>1, ReadMore
<1>4. s(n) = Read(l, At(-1, shown), t)
  BY <1>1, SubSeqFull
<1> HIDE DEF s
<1>5. s(1).n = IF t[1] = "<" THEN 1 ELSE 4
  <2>1. 0 \in 0..n /\ 0 < n /\ 0 + 1 = 1
    BY <1>1
  <2>2. s(1) = ReadOp(l, s(0), t[1])
    BY <1>3, <2>1
  <2>3. QED
    BY <1>2, <2>2 DEF ReadOp, Reader
<1>6. ASSUME n > 1
      PROVE  s(2).n = IF t[1] = "<" /\ t[2] \in Range(Digit) THEN 2 ELSE 4
  <2>1. 1 \in 0..n /\ 1 < n /\ 1 + 1 = 2
    BY <1>1, <1>6
  <2>2. s(2) = ReadOp(l, s(1), t[2])
    BY <1>3, <2>1
  <2>3. QED
    BY <1>5, <2>2 DEF ReadOp, Reader
<1>7. ASSUME n > 2
      PROVE  s(3).n = 4
  <2>1. 2 \in 0..n /\ 2 < n /\ 2 + 1 = 3
    BY <1>1, <1>7
  <2>2. s(3) = ReadOp(l, s(2), t[3])
    BY <1>3, <2>1
  <2>3. s(2).n = IF t[1] = "<" /\ t[2] \in Range(Digit) THEN 2 ELSE 4
    BY <1>1, <1>6, <1>7
  <2>4. ~(t[1] = "<" /\ t[2] \in Range(Digit) /\ t[3] = ">")
    BY <1>1, <1>7 DEF HasLevel
  <2>5. QED
    BY <2>2, <2>3, <2>4 DEF ReadOp, Reader
<1>8. CASE n = 1
  BY <1>1, <1>4, <1>5, <1>8, DigitsAre
<1>9. CASE n = 2
  <2>1. s(2).n = IF t[1] = "<" /\ t[2] \in Range(Digit) THEN 2 ELSE 4
    BY <1>6, <1>9
  <2>2. Last(t) = "\n" => t[2] \notin Range(Digit)
    BY <1>1, <1>9, DigitsAre
  <2>3. QED
    BY <1>4, <1>9, <2>1, <2>2
<1>10. CASE n > 2
  <2>1. 3 \in 1..n /\ 3 + 1 = 4
    BY <1>1, <1>10
  <2>2. SubSeq(t, 1, 3) \in Str /\ SubSeq(t, 4, n) \in Str /\ t = SubSeq(t, 1, 3) \o SubSeq(t, 4, n)
    BY <1>1, <2>1, CutInTwo, Zenon
  <2>3. Read(l, At(-1, shown), t) = Read(l, s(3), SubSeq(t, 4, n))
    <3> DEFINE a == SubSeq(t, 1, 3)
               b == SubSeq(t, 4, n)
    <3>1. s(3) = Read(l, At(-1, shown), a)
      BY DEF s
    <3>2. a \in Str /\ b \in Str /\ t = a \o b
      BY <2>2
    <3> HIDE DEF a, b
    <3>3. Read(l, At(-1, shown), a \o b) = Read(l, s(3), b)
      BY <3>1, <3>2, ReadBoth
    <3>4. QED
      BY <3>2, <3>3 DEF b
  <2>4. s(3).n = 4
    BY <1>7, <1>10
  <2>5. Read(l, At(-1, shown), t).n = 4
    BY <2>2, <2>3, <2>4, LostStays
  <2>6. QED
    BY <2>5
<1>11. n = 1 \/ n = 2 \/ n > 2
  <2> HIDE DEF n
  <2>1. QED
    BY <1>1
<1>12. QED
  BY <1>8, <1>9, <1>10, <1>11

\* The reader is where the replay is.
Settled(l, r, s) ==
  r.level \in -1..7 /\ r.pieces \in Seq(Pcs) /\ s = At(r.level, Seen(r.pieces, l))

\* A chunk takes the replay along with the reader, unless it begins a line
\* without a level.
LEMMA ChunkSettles ==
  ASSUME NEW l \in Int, NEW r, r.level \in -1..7, r.pieces \in Seq(Pcs), NEW chunk, IsLine(chunk)
  PROVE  LET s == Read(l, At(r.level, Seen(r.pieces, l)), chunk)
         IN  \/ Settled(l, Replayed(r, chunk), s)
             \/ /\ s.n \in {1, 2, 4}
                /\ Len(chunk) >= 3 \/ Last(chunk) = "\n" => s.n = 4
<1> DEFINE shown == Seen(r.pieces, l)
           s == Read(l, At(r.level, shown), chunk)
           p == Piece(r.level, chunk)
           q == Replayed(r, chunk)
<1> SUFFICES ASSUME ~(/\ s.n \in {1, 2, 4}
                      /\ Len(chunk) >= 3 \/ Last(chunk) = "\n" => s.n = 4)
             PROVE  Settled(l, q, s)
  OBVIOUS
<1>1. shown \in Str
  BY SeenType
<1>2. r.level >= 0 \/ HasLevel(chunk)
  <2> SUFFICES ASSUME ~(r.level >= 0), ~HasLevel(chunk)
               PROVE  FALSE
    OBVIOUS
  <2>1. r.level = -1
    OBVIOUS
  <2> HIDE DEF shown
  <2>2. QED
    BY <2>1, ReadBad
<1>3. p.log = chunk
  BY <1>2 DEF Piece
<1>4. p \in Pcs /\ s = At(Remains(chunk, p.level), Told(l, shown, p))
  <2> HIDE DEF shown
  <2>1. /\ p \in Pcs
        /\ Read(l, At(r.level, shown), p.log) = At(Remains(chunk, p.level), Told(l, shown, p))
    BY <1>1, ReadPiece
  <2>2. QED
    BY <1>3, <2>1
<1>5. q.level = Remains(chunk, p.level) /\ q.pieces = Append(r.pieces, p)
  BY DEF Replayed, Remains
<1> HIDE DEF shown, s, p, q
<1>6. p.level \in 0..7
  BY <1>4 DEF Pcs
<1>7. q.level \in -1..7
  BY <1>5, <1>6 DEF Remains
<1>8. q.pieces \in Seq(Pcs)
  BY <1>4, <1>5
<1>9. Seen(q.pieces, l) = Told(l, shown, p)
  BY <1>4, <1>5, SeenAppend DEF shown
<1>10. QED
  BY <1>4, <1>5, <1>7, <1>8, <1>9 DEF Settled

\* The replay of some chunks.
NoReplay == [level |-> -1, pieces |-> <<>>]
ReplayOf(cs) == ReplayFold!Result(0, NoReplay, cs)

\* Some chunks and one more.
LEMMA ReplayMore ==
  ASSUME NEW cs \in Seq(Str), NEW chunk \in Str
  PROVE  ReplayOf(Append(cs, chunk)) = Replayed(ReplayOf(cs), chunk)
BY ReplayFold!FoldAppend DEF ReplayOf, ReplayOp

\* A sequence that is not empty is its front and its last element.
LEMMA FrontAndLast ==
  ASSUME NEW S, NEW cs \in Seq(S), cs # <<>>
  PROVE  /\ Front(cs) \in Seq(S) /\ Last(cs) \in S
         /\ cs = Append(Front(cs), Last(cs))
<1> DEFINE n == Len(cs)
           f == SubSeq(cs, 1, n - 1)
<1>1. n \in Nat \ {0}
  BY EmptySeq
<1>2. n - 1 \in 0..n /\ n - 1 < n /\ n - 1 + 1 = n
  BY <1>1
<1>3. /\ f \in Seq(S)
      /\ SubSeq(cs, 1, n - 1 + 1) = Append(f, cs[n - 1 + 1]) /\ cs[n - 1 + 1] \in S
  BY <1>2, FirstPieces
<1>4. SubSeq(cs, 1, n) = cs
  BY SubSeqFull
<1> HIDE DEF f
<1>5. cs = Append(f, cs[n]) /\ cs[n] \in S
  BY <1>2, <1>3, <1>4
<1>6. QED
  BY <1>3, <1>5 DEF Front, Last, f

\* And the other way round.
LEMMA AppendedIsLast ==
  ASSUME NEW S, NEW cs \in Seq(S), NEW x \in S
  PROVE  /\ Append(cs, x) \in Seq(S) /\ Append(cs, x) # <<>>
         /\ Front(Append(cs, x)) = cs /\ Last(Append(cs, x)) = x
<1> DEFINE a == Append(cs, x)
           m == Len(cs)
           f == SubSeq(a, 1, m)
<1>1. /\ a \in Seq(S) /\ Len(a) = m + 1 /\ a[m + 1] = x /\ m \in Nat
      /\ \A i \in 1..m : a[i] = cs[i]
  OBVIOUS
<1> HIDE DEF a
<1>2. a # <<>>
  BY <1>1
<1>3. Last(a) = x
  BY <1>1 DEF Last
<1>4. Front(a) = f
  BY <1>1 DEF Front
<1>5. f = cs
  <2>1. \A i \in 1..m : a[i] \in S
    BY <1>1
  <2>2. f \in Seq(S)
    BY <1>1, <2>1, SubSeqProperties
  <2>3. Len(f) = m
    <3>1. Len(f) = IF 1 <= m THEN m - 1 + 1 ELSE 0
      BY <1>1, <2>1, SubSeqProperties
    <3>2. QED
      BY <1>1, <3>1
  <2>4. \A i \in 1..m : f[i] = cs[i]
    <3>1. \A i \in 1..(m - 1 + 1) : f[i] = a[1 + i - 1]
      BY <1>1, <2>1, SubSeqProperties
    <3>2. QED
      BY <1>1, <3>1
  <2> HIDE DEF f
  <2>5. QED
    BY <2>2, <2>3, <2>4, SeqEqual
<1>6. QED
  BY <1>1, <1>2, <1>3, <1>4, <1>5 DEF a

\* s has read the chunks cs: the last one is not replayed yet.
Chunked(l, cs, s) ==
  /\ cs \in Seq(Str)
  /\ cs = <<>> => s = At(-1, <<>>)
  /\ cs # <<>> =>
       /\ IsLine(Last(cs)) /\ Len(Last(cs)) <= Chunk
       /\ LET r == ReplayOf(Front(cs))
          IN  \/ s.n = 4
              \/ /\ r.level \in -1..7 /\ r.pieces \in Seq(Pcs)
                 /\ s = Read(l, At(r.level, Seen(r.pieces, l)), Last(cs))

\* When the last chunk is replayed too, the reader is lost, or where the replay
\* is, or behind the start of a level.
LEMMA ChunkedSettles ==
  ASSUME NEW l \in Int, NEW cs, NEW s, Chunked(l, cs, s)
  PROVE  \/ s.n = 4
         \/ Settled(l, ReplayOf(cs), s)
         \/ cs # <<>> /\ s.n \in {1, 2} /\ Len(Last(cs)) < 3 /\ Last(Last(cs)) # "\n"
<1>1. CASE cs = <<>>
  <2>1. s = At(-1, <<>>) /\ ReplayOf(cs) = NoReplay
    BY <1>1, ReplayFold!FoldEmpty DEF Chunked, ReplayOf
  <2>2. NoReplay.level = -1 /\ NoReplay.pieces = <<>> /\ <<>> \in Seq(Pcs) /\ -1 \in -1..7
    BY DEF NoReplay
  <2>3. Seen(<<>>, l) = <<>>
    BY SeenNone
  <2>4. QED
    BY <2>1, <2>2, <2>3 DEF Settled
<1>2. CASE cs # <<>> /\ s.n # 4
  <2> DEFINE chunk == Last(cs)
             r == ReplayOf(Front(cs))
  <2>1. /\ cs \in Seq(Str) /\ IsLine(chunk) /\ r.level \in -1..7 /\ r.pieces \in Seq(Pcs)
        /\ s = Read(l, At(r.level, Seen(r.pieces, l)), chunk)
    BY <1>2 DEF Chunked
  <2>2. Front(cs) \in Seq(Str) /\ chunk \in Str /\ cs = Append(Front(cs), chunk)
    BY <1>2, <2>1, FrontAndLast
  <2>3. ReplayOf(Append(Front(cs), chunk)) = Replayed(r, chunk)
    BY <2>2, ReplayMore
  <2>4. ReplayOf(cs) = Replayed(r, chunk)
    BY <2>2, <2>3
  <2> HIDE DEF r, chunk
  <2>5. \/ Settled(l, Replayed(r, chunk), s)
        \/ s.n \in {1, 2, 4} /\ (Len(chunk) >= 3 \/ Last(chunk) = "\n" => s.n = 4)
    BY <2>1, ChunkSettles
  <2>6. Len(chunk) \in Nat
    BY <2>2 DEF Str
  <2>7. QED
    BY <1>2, <2>4, <2>5, <2>6 DEF chunk
<1>3. QED
  BY <1>1, <1>2

\* A character more.
LEMMA ChunkMore ==
  ASSUME NEW l \in Int, NEW cs, NEW s, Chunked(l, cs, s), NEW ch \in Char
  PROVE  Chunked(l, ChunkOp(0, cs, ch), ReadOp(l, s, ch))
<1>1. cs \in Seq(Str) /\ Chunk \in Nat /\ Chunk > 3
  BY PrintkAssumption DEF Chunked
<1>2. s.n = 4 => ReadOp(l, s, ch).n = 4
  BY DEF ReadOp, Reader
<1>3. CASE cs = <<>> \/ Last(Last(cs)) = "\n" \/ Len(Last(cs)) = Chunk
  <2> DEFINE one == <<ch>>
             ds == Append(cs, one)
             r == ReplayOf(cs)
  <2>1. one \in Str /\ IsLine(one) /\ Len(one) <= Chunk
    BY <1>1, LineGrows DEF Str
  <2>2. ds \in Seq(Str) /\ ds # <<>> /\ Front(ds) = cs /\ Last(ds) = one
    BY <1>1, <2>1, AppendedIsLast
  <2>3. s.n = 4 \/ Settled(l, r, s)
    BY <1>1, <1>3, ChunkedSettles
  <2>4. ReadOp(l, s, ch) = Read(l, s, one)
    <3>1. <<>> \in Str /\ Append(<<>>, ch) = one
      BY DEF Str
    <3>2. Read(l, s, Append(<<>>, ch)) = ReadOp(l, Read(l, s, <<>>), ch)
      BY <3>1, ReadMore
    <3>3. QED
      BY <3>1, <3>2, ReadNone, Zenon
  <2>5. ChunkOp(0, cs, ch) = ds
    BY <1>3 DEF ChunkOp
  <2> HIDE DEF one, ds, r
  <2>6. \/ ReadOp(l, s, ch).n = 4
        \/ /\ r.level \in -1..7 /\ r.pieces \in Seq(Pcs)
           /\ ReadOp(l, s, ch) = Read(l, At(r.level, Seen(r.pieces, l)), one)
    BY <1>2, <2>3, <2>4 DEF Settled
  <2>7. Chunked(l, ds, ReadOp(l, s, ch))
    BY <2>1, <2>2, <2>6, Zenon DEF Chunked, r
  <2>8. QED
    BY <2>5, <2>7
<1>4. CASE ~(cs = <<>> \/ Last(Last(cs)) = "\n" \/ Len(Last(cs)) = Chunk)
  <2> DEFINE old == Last(cs)
             new == Append(old, ch)
             f == Front(cs)
             ds == Append(f, new)
             r == ReplayOf(f)
  <2>1. /\ IsLine(old) /\ Len(old) <= Chunk /\ Len(old) # Chunk /\ Last(old) # "\n"
        /\ f \in Seq(Str) /\ old \in Str /\ Len(old) \in Nat
    <3>1. f \in Seq(Str) /\ old \in Str
      BY <1>1, <1>4, FrontAndLast
    <3>2. QED
      BY <1>4, <3>1 DEF Chunked, Str
  <2>2. \/ s.n = 4
        \/ /\ r.level \in -1..7 /\ r.pieces \in Seq(Pcs)
           /\ s = Read(l, At(r.level, Seen(r.pieces, l)), old)
    BY <1>4 DEF Chunked
  <2>3. ChunkOp(0, cs, ch) = ds
    BY <1>4 DEF ChunkOp
  <2> HIDE DEF old, f, r
  <2>4. IsLine(new) /\ new \in Str /\ Len(new) <= Chunk
    <3>1. IsLine(new)
      BY <2>1, LineGrows
    <3>2. Len(new) = Len(old) + 1 /\ new \in Str
      BY <2>1 DEF Str
    <3>3. QED
      BY <1>1, <2>1, <3>1, <3>2
  <2>5. ds \in Seq(Str) /\ ds # <<>> /\ Front(ds) = f /\ Last(ds) = new
    <3> HIDE DEF new
    <3>1. QED
      BY <2>1, <2>4, AppendedIsLast
  <2>6. \/ ReadOp(l, s, ch).n = 4
        \/ /\ r.level \in -1..7 /\ r.pieces \in Seq(Pcs)
           /\ ReadOp(l, s, ch) = Read(l, At(r.level, Seen(r.pieces, l)), new)
    BY <1>2, <2>1, <2>2, ReadMore
  <2> HIDE DEF new, ds
  <2>7. Chunked(l, ds, ReadOp(l, s, ch))
    BY <2>4, <2>5, <2>6, Zenon DEF Chunked, r
  <2>8. QED
    BY <2>3, <2>7
<1>5. QED
  BY <1>3, <1>4

\* A replay of all that was read tells a console what the reader has shown.
LEMMA ReplayRead ==
  ASSUME NEW l \in Int, NEW level, NEW shown, Ring \in Str,
         Read(l, At(-1, <<>>), Ring) = At(level, shown)
  PROVE  Seen(Replay, l) = shown
<1> DEFINE n == Len(Ring)
           cs == Chunks(Ring)
           s0 == At(-1, <<>>)
<1>1. Replay = ReplayOf(cs).pieces
  BY Zenon DEF Replay, ReplayOf, NoReplay, ReplayOp, ReplayFold!Result, FoldLeft, MapThenFoldSet,
     Max, ReplayFold!Highest
<1>2. cs = ChunkFold!Result(0, <<>>, Ring)
  BY Zenon DEF Chunks, ChunkOp, ChunkFold!Result, FoldLeft, MapThenFoldSet, Max,
     ChunkFold!Highest
<1>3. PICK c : ChunkFold!IsRun(0, c, <<>>, Ring)
  BY ChunkFold!FoldRun DEF Str, ChunkFold!HasRun
<1>4. PICK r : ReadFold!IsRun(l, r, s0, Ring)
  BY ReadFold!FoldRun DEF Str, ReadFold!HasRun
<1>5. n \in Nat /\ \A k \in 1..n : Ring[k] \in Char
  BY DEF Str
<1>6. /\ c[0] = <<>> /\ c[n] = cs
      /\ \A k \in 1..n : c[k] = ChunkOp(0, c[k - 1], Ring[k])
  BY <1>2, <1>3 DEF ChunkFold!IsRun
<1>7. /\ r[0] = s0 /\ r[n] = At(level, shown)
      /\ \A k \in 1..n : r[k] = ReadOp(l, r[k - 1], Ring[k])
  BY <1>4 DEF ReadFold!IsRun, Read
<1> HIDE DEF n, cs
<1> DEFINE T == {k \in Nat : k <= n => Chunked(l, c[k], r[k])}
<1>8. 0 \in T
  <2>1. Chunked(l, <<>>, s0)
    BY DEF Chunked
  <2>2. Chunked(l, c[0], r[0])
    BY <1>6, <1>7, <2>1
  <2>3. QED
    BY <2>2
<1>9. ASSUME NEW k \in T
      PROVE  k + 1 \in T
  <2> SUFFICES ASSUME k + 1 <= n
               PROVE  Chunked(l, c[k + 1], r[k + 1])
    OBVIOUS
  <2>1. k + 1 \in 1..n /\ k + 1 - 1 = k /\ Chunked(l, c[k], r[k])
    BY <1>5
  <2>2. c[k + 1] = ChunkOp(0, c[k], Ring[k + 1]) /\ r[k + 1] = ReadOp(l, r[k], Ring[k + 1])
    BY <1>6, <1>7, <2>1
  <2>3. QED
    BY <1>5, <2>1, <2>2, ChunkMore
<1>10. n \in T
  <2>1. T \subseteq Nat
    OBVIOUS
  <2> HIDE DEF T
  <2>2. \A k \in T : k + 1 \in T
    BY <1>9
  <2>3. Nat \subseteq T
    BY <1>8, <2>1, <2>2, ReadFold!Induction
  <2>4. QED
    BY <1>5, <2>3
<1>11. Chunked(l, cs, At(level, shown))
  BY <1>5, <1>6, <1>7, <1>10
<1>12. At(level, shown).n \in {0, 3} /\ At(level, shown).text = shown
  BY DEF At, Reader
<1>13. Settled(l, ReplayOf(cs), At(level, shown))
  BY <1>11, <1>12, ChunkedSettles
<1>14. \A lv, txt : At(lv, txt).text = txt
  BY DEF At, Reader
<1>15. QED
  BY <1>1, <1>12, <1>13, <1>14 DEF Settled

-----------------------------------------------------------------------------
(* What the consoles have been sent.                                       *)

\* The inductive invariant behind ConsoleComplete: a reader of all that was
\* logged is where printk is, and has shown what a console is sent.
ConInv ==
  /\ said \in Seq(Pcs) /\ msg_level \in -1..7
  /\ consoles \in Seq(Driver) /\ loglevel \in [Driver -> 0..7]
  /\ out = [c \in Driver |-> out[c]]
  /\ "\r" \notin Range(logged) =>
       \A l \in 0..7 : Read(l, At(-1, <<>>), logged) = At(msg_level, Seen(said, l))
  /\ Len(logged) <= LogBufSize /\ "\r" \notin Range(logged) =>
       \A c \in Range(consoles) : out[c] = Seen(said, loglevel[c])

\* A ring that has not overflowed holds all that was logged.
LEMMA RingIsLogged == LogInv /\ Len(logged) <= LogBufSize => Ring = logged
<1> SUFFICES ASSUME LogInv, Len(logged) <= LogBufSize
             PROVE  Ring = logged
  OBVIOUS
<1> DEFINE n == Len(logged)
<1>1. /\ logged \in Seq(Char) /\ n \in Nat /\ log_size \in Nat
      /\ log_size <= n /\ log_size <= LogBufSize
      /\ log_size < LogBufSize => log_size = n
      /\ LogBufSize \in Nat \ {0}
  BY PrintkAssumption DEF LogInv, RingAt, Str
<1>2. log_size = n
  <2> HIDE DEF n
  <2>1. n <= LogBufSize
    BY DEF n
  <2>2. QED
    BY <1>1, <2>1
<1>3. \A i \in 1..log_size : Ring[i] = logged[n - log_size + i]
  BY DEF LogInv, RingAt, Ring
<1>4. Ring \in Seq(Char)
  BY RingType DEF Str
<1>5. Len(Ring) = log_size
  BY <1>1, <1>4 DEF Ring
<1>6. \A i \in 1..log_size : Ring[i] = logged[i]
  BY <1>1, <1>2, <1>3
<1>7. QED
  BY <1>1, <1>2, <1>4, <1>5, <1>6, SeqEqual

\* ConInv holds at the start.
LEMMA ConInvInit == Init => ConInv
<1> SUFFICES ASSUME PrintkInit
             PROVE  ConInv
  BY DEF Init
<1>1. /\ said = <<>> /\ logged = <<>> /\ consoles = <<>> /\ msg_level = -1
      /\ loglevel \in [Driver -> 0..7] /\ out = [c \in Driver |-> out[c]]
  <2>1. loglevel = [c \in Driver |-> 0] /\ out = [c \in Driver |-> <<>>]
    BY DEF PrintkInit
  <2>2. loglevel \in [Driver -> 0..7]
    BY <2>1
  <2>3. out = [c \in Driver |-> out[c]]
    BY <2>1
  <2>4. QED
    BY <2>2, <2>3 DEF PrintkInit
<1>2. said \in Seq(Pcs) /\ consoles \in Seq(Driver) /\ Range(<<>>) = {}
  BY <1>1 DEF Range
<1>3. \A l \in 0..7 : Read(l, At(-1, <<>>), logged) = At(msg_level, Seen(said, l))
  BY <1>1, ReadNone, SeenNone
<1>4. QED
  BY <1>1, <1>2, <1>3 DEF ConInv

\* printk keeps it.
LEMMA ConInvSay ==
  ASSUME LogInv, ConInv, NEW m \in Message, printk(m)
  PROVE  ConInv'
<1> DEFINE ps == Pieces(msg_level, m)
           new == Log(ps)
<1>1. m \in Str /\ m # <<>>
  <2>1. m \in Seq(STRING) /\ m # <<>> /\ STRING \subseteq Char
    BY PrintkAssumption DEF Char
  <2>2. QED
    BY <2>1, SeqMonotonic DEF Str
<1>2. /\ msg_level' = After(Last(ps)) /\ logged' = logged \o new /\ said' = said \o ps
      /\ out' = [c \in Driver |-> IF c \in Range(consoles)
                                     THEN out[c] \o Seen(ps, loglevel[c]) ELSE out[c]]
      /\ consoles' = consoles /\ loglevel' = loglevel
  BY Zenon DEF printk
<1>3. /\ said \in Seq(Pcs) /\ msg_level \in -1..7 /\ consoles \in Seq(Driver)
      /\ loglevel \in [Driver -> 0..7] /\ logged \in Seq(Char)
  BY DEF ConInv, LogInv, Str
<1>4. ps # <<>> /\ \A l \in Int, shown \in Str : SoFar(l, msg_level, shown, ps)
  <2>1. <<>> \in Str /\ 0 \in Int
    BY DEF Str
  <2>2. QED
    BY <1>1, <1>3, <2>1, SayRead
<1> HIDE DEF ps
<1>5. /\ ps \in Seq(Pcs) /\ new \in Str /\ Left(msg_level, ps) = After(Last(ps))
      /\ After(Last(ps)) \in -1..7
  <2>1. <<>> \in Str /\ 0 \in Int
    BY DEF Str
  <2>2. SoFar(0, msg_level, <<>>, ps)
    BY <1>4, <2>1
  <2>3. QED
    BY <1>4, <2>2 DEF SoFar, Left
<1> HIDE DEF new
<1>6. \A l \in 0..7 : Seen(said', l) = Seen(said, l) \o Seen(ps, l) /\ Seen(said, l) \in Str
  BY <1>2, <1>3, <1>5, SeenConcat, SeenType
<1>7. /\ Range(logged') = Range(logged) \cup Range(new)
      /\ Len(logged') = Len(logged) + Len(new) /\ Len(logged) \in Nat /\ Len(new) \in Nat
  BY <1>2, <1>3, <1>5, RangeBoth DEF Str
<1>8. ASSUME "\r" \notin Range(logged'), NEW l \in 0..7
      PROVE  Read(l, At(-1, <<>>), logged') = At(msg_level', Seen(said', l))
  <2> DEFINE shown == Seen(said, l)
  <2>1. "\r" \notin Range(logged) /\ "\r" \notin Range(new)
    BY <1>7, <1>8
  <2>2. Read(l, At(-1, <<>>), logged) = At(msg_level, shown)
    BY <2>1 DEF ConInv
  <2>3. Read(l, At(-1, <<>>), logged \o new) = Read(l, Read(l, At(-1, <<>>), logged), new)
    BY <1>3, <1>5, ReadBoth DEF Str
  <2>4. shown \in Str /\ Seen(said', l) = shown \o Seen(ps, l) /\ l \in Int
    <3>1. Seen(said', l) = Seen(said, l) \o Seen(ps, l) /\ Seen(said, l) \in Str
      BY <1>6, Zenon
    <3>2. QED
      BY <3>1
  <2> HIDE DEF shown
  <2>5. SoFar(l, msg_level, shown, ps)
    BY <1>4, <2>4
  <2>6. Read(l, At(msg_level, shown), new) = At(Left(msg_level, ps), shown \o Seen(ps, l))
    BY <2>1, <2>5 DEF SoFar, new
  <2>7. QED
    BY <1>2, <1>5, <2>2, <2>3, <2>4, <2>6
<1>9. ASSUME Len(logged') <= LogBufSize, "\r" \notin Range(logged'), NEW c \in Range(consoles')
      PROVE  out'[c] = Seen(said', loglevel'[c])
  <2>1. Len(logged) <= LogBufSize /\ "\r" \notin Range(logged)
    BY <1>7, <1>9, PrintkAssumption
  <2>2. c \in Range(consoles) /\ c \in Driver
    BY <1>2, <1>3, <1>9 DEF Range
  <2>3. out[c] = Seen(said, loglevel[c])
    BY <2>1, <2>2 DEF ConInv
  <2>4. out'[c] = out[c] \o Seen(ps, loglevel[c])
    BY <1>2, <2>2
  <2>5. loglevel[c] \in 0..7
    BY <1>3, <2>2
  <2>6. QED
    BY <1>2, <1>6, <2>3, <2>4, <2>5
<1>10. said' \in Seq(Pcs)
  BY <1>2, <1>3, <1>5
<1>11. out' = [c \in Driver |-> out'[c]]
  BY <1>2
<1>12. QED
  BY <1>2, <1>3, <1>5, <1>8, <1>9, <1>10, <1>11 DEF ConInv

\* So does register_console.
LEMMA ConInvRegister ==
  ASSUME LogInv, ConInv, NEW con \in Driver, NEW l \in Level, register_console(con, l)
  PROVE  ConInv'
<1>1. l \in 0..7
  BY PrintkAssumption
<1>2. /\ consoles' = <<con>> \o consoles /\ loglevel' = [loglevel EXCEPT ![con] = l]
      /\ out' = [out EXCEPT ![con] = Seen(Replay, l)]
      /\ msg_level' = msg_level /\ logged' = logged /\ said' = said
  BY Zenon DEF register_console
<1>3. /\ said \in Seq(Pcs) /\ msg_level \in -1..7 /\ consoles \in Seq(Driver)
      /\ loglevel \in [Driver -> 0..7] /\ out = [c \in Driver |-> out[c]]
  BY DEF ConInv
<1>4. <<con>> \in Seq(Driver) /\ Range(<<con>>) = {con}
  BY DEF Range
<1>5. consoles' \in Seq(Driver) /\ Range(consoles') = {con} \cup Range(consoles)
  <2> DEFINE one == <<con>>
  <2>1. one \in Seq(Driver) /\ Range(one) = {con} /\ consoles' = one \o consoles
    BY <1>2, <1>4
  <2> HIDE DEF one
  <2>2. Range(one \o consoles) = Range(one) \cup Range(consoles)
    BY <1>3, <2>1, RangeBoth
  <2>3. one \o consoles \in Seq(Driver)
    BY <1>3, <2>1, ConcatProperties
  <2>4. QED
    BY <2>1, <2>2, <2>3
<1>6. Range(consoles) \subseteq Driver
  BY <1>3 DEF Range
<1>7. loglevel' \in [Driver -> 0..7] /\ out' = [c \in Driver |-> out'[c]]
  BY <1>1, <1>2, <1>3
<1>8. ASSUME Len(logged) <= LogBufSize, "\r" \notin Range(logged), NEW c \in Range(consoles')
      PROVE  out'[c] = Seen(said', loglevel'[c])
  <2>1. CASE c = con
    <3>1. Ring = logged /\ Ring \in Str
      BY <1>8, RingIsLogged, RingType
    <3>2. Read(l, At(-1, <<>>), logged) = At(msg_level, Seen(said, l))
      BY <1>1, <1>8 DEF ConInv
    <3>3. Seen(Replay, l) = Seen(said, l)
      BY <1>1, <3>1, <3>2, ReplayRead
    <3>4. out'[con] = Seen(Replay, l) /\ loglevel'[con] = l
      BY <1>2, <1>3
    <3>5. QED
      BY <1>2, <2>1, <3>3, <3>4
  <2>2. CASE c # con
    <3>1. c \in Range(consoles) /\ c \in Driver
      BY <1>5, <1>6, <1>8, <2>2
    <3>2. out'[c] = out[c] /\ loglevel'[c] = loglevel[c]
      BY <1>2, <1>3, <2>2, <3>1
    <3>3. out[c] = Seen(said, loglevel[c])
      BY <1>8, <3>1 DEF ConInv
    <3>4. QED
      BY <1>2, <3>2, <3>3
  <2>3. QED
    BY <2>1, <2>2
<1>9. "\r" \notin Range(logged) =>
        \A k \in 0..7 : Read(k, At(-1, <<>>), logged) = At(msg_level, Seen(said, k))
  BY DEF ConInv
<1>10. QED
  BY <1>2, <1>3, <1>5, <1>7, <1>8, <1>9 DEF ConInv

\* No step breaks ConInv.
LEMMA ConInvStep == LogInv /\ ConInv /\ [Next]_vars => ConInv'
<1> SUFFICES ASSUME LogInv, ConInv, [Next]_vars
             PROVE  ConInv'
  OBVIOUS
<1>1. ASSUME UNCHANGED <<msg_level, consoles, loglevel, out, logged, said>>
      PROVE  ConInv'
  BY <1>1, Zenon DEF ConInv
<1>2. CASE \E m \in Message : Say(m)
  BY <1>2, ConInvSay DEF Say
<1>3. CASE \E c \in Driver, l \in Level : Register(c, l)
  BY <1>3, ConInvRegister DEF Register
<1>4. CASE \E l \in Level : console_init(l)
  BY <1>4, ConInvRegister, TerminalAssumption DEF console_init
<1>5. CASE \E s \in Output : puts(s)
  BY <1>1, <1>5, Zenon DEF puts
<1>6. CASE UNCHANGED vars
  BY <1>1, <1>6, Zenon DEF vars, printkVars
<1>7. QED
  BY <1>2, <1>3, <1>4, <1>5, <1>6, Zenon DEF Next

(* A console misses nothing and is told nothing twice, whenever it was     *)
(* registered: the replay of the log in register_console, chunk by chunk,  *)
(* tells it what printk would have, for all messages, levels, chunk sizes  *)
(* and LOG_BUF_SIZEs, as long as the ring has not overflowed and nobody    *)
(* has printed a carriage return.                                          *)
THEOREM ConsoleCompleteCorrect == Spec => []ConsoleComplete
<1>1. ConInv => ConsoleComplete
  BY DEF ConInv, ConsoleComplete
<1>2. QED
  BY <1>1, LogInvInit, LogInvStep, ConInvInit, ConInvStep, PTL DEF Spec
=============================================================================
