------------------------------- MODULE Loader -------------------------------
(***************************************************************************)
(* From the image to the kernel in memory: the image tools/build.c writes, *)
(* the boot sector (boot/bootsect.S) that loads the second stage, and the  *)
(* second stage (boot/second.S) that loads the kernel by the map of disk   *)
(* addresses in the image and moves it to one megabyte.                    *)
(*                                                                         *)
(* The BIOS is external: a read of several sectors may fail at any time,   *)
(* and does if it leaves the cylinder or the disk.  What is in a sector is *)
(* <<part, number>>; the map's records are in `image'.                     *)
(***************************************************************************)
EXTENDS Integers, Sequences, SequencesExt

CONSTANTS
  SPT, HEADS,    \* sectors per track, heads (18 and 2)
  TRACKS,        \* cylinders of the disk (80)
  CHUNKS,        \* sectors loaded at a time, at most (36)
  SectorSize,    \* bytes in a sector (512)
  MaxSecond,     \* bytes of the second stage, at most (8192)
  SecondSizes, KernelSizes,  \* sizes of the files build is given, in bytes
  BsmithCounter, \* map records looked at, at most (194)
  BpWrap,        \* bp has 16 bits: one past its largest value
  LowWrap        \* so has the lower part of an offset in the GDT (65536)

MapSectors == 2   \* sectors of the map

ASSUME LoaderAssumption ==
  /\ {SPT, HEADS, TRACKS, CHUNKS} \subseteq Nat \ {0} /\ SPT > 1
  /\ SectorSize \in Nat \ {0} /\ SectorSize % 2 = 0
  /\ MaxSecond \in Nat /\ SecondSizes \subseteq 0..MaxSecond /\ KernelSizes \subseteq Nat
  \* The boot sector, the second stage and the map are on the first cylinder
  \* (20 sectors of 36), so the second stage is loaded with one read, as it must
  \* be: bootsect.S goes on with the next 512 bytes whatever the size of the
  \* record it has just read.
  /\ 1 + (MaxSecond \div SectorSize + 1) + MapSectors <= HEADS * SPT
  \* A chunk may be a whole cylinder, so the kernel needs no more records than
  \* there are cylinders, and the limit on records lets them all pass.
  /\ HEADS * SPT <= CHUNKS
  /\ BsmithCounter \in Nat /\ BsmithCounter > TRACKS + 1
  \* The words of a chunk are counted in 16 bits (9216 of 65536).
  /\ LowWrap \in Nat /\ CHUNKS * (SectorSize \div 2) < LowWrap

VARIABLES
  image,     \* what is on the disk
  pc,
  si,        \* the record of secaddr the boot sector is at
  second,    \* the sectors at SECONDSEG
  bp,        \* tries left, counted twice for a try
  addr,      \* the record being read
  map,       \* the records at MAP
  moff,      \* the next of them
  bsmith_counter,
  buffer,    \* the sectors at SYSSEG
  high,      \* byte offset above 1M -> the sector moved there
  gdt_dest,  \* the offset in the GDT entry of the destination
  trouble    \* has the hardware failed for good somewhere?

diskVars == <<second, buffer, high, gdt_dest>>
loaderVars == <<image, pc, si, second, bp, addr, map, moff, bsmith_counter,
                buffer, high, gdt_dest, trouble>>

-----------------------------------------------------------------------------
(* The image.                                                              *)

\* `round size in bytes up to whole sectors', one more if it has no rest.
Sectors(size) == size \div SectorSize + 1

\* Mutant: the version before the `cheat', which build.c keeps in a comment.
inc_sector_Old(a, count) ==
  LET s == a.sector + count
      h == a.head + s \div SPT
  IN  [a EXCEPT !.sector = s % SPT, !.head = h % HEADS, !.track = @ + h \div HEADS]

\* The address `count' sectors further on; sectors count from 1.
inc_sector(a, count) ==
  LET s == a.sector + count
      h == a.head + (s - 1) \div SPT
  IN  IF s <= SPT THEN [a EXCEPT !.sector = s]
      ELSE [a EXCEPT !.sector = ((s - 1) % SPT) + 1, !.head = h % HEADS,
                     !.track = @ + h \div HEADS]

Least(a, b) == IF a < b THEN a ELSE b

\* Mutant: a chunk may go on in the next cylinder.
KernelChunk_Whole(a) == CHUNKS

\* A chunk of the second stage, and one of the kernel that starts at a: it ends
\* with the cylinder, if not before.
SecondChunk == CHUNKS
KernelChunk(a) == Least(HEADS * SPT - (SPT * a.head + a.sector) + 1, CHUNKS)

\* The records that cover n sectors of a part from `from' on, and the address
\* behind them.
Patch(part, from, n) ==
  FoldLeft(LAMBDA s, k :
             LET chunk == IF part = "kernel" THEN KernelChunk(s.next) ELSE SecondChunk
                 num == Least(n - s.i, chunk)
             IN  IF s.i >= n THEN s
                 ELSE [next |-> inc_sector(s.next, num),
                       i    |-> s.i + chunk,
                       recs |-> Append(s.recs, [s.next EXCEPT !.num = num])],
           [next |-> from, i |-> 0, recs |-> <<>>], [k \in 1..n |-> k])

\* build: the parts follow one another, the boot sector first.
Image(secondsize, kernelsize) ==
  LET n == Sectors(secondsize)
      k == Sectors(kernelsize)
      s == Patch("second", [track |-> 0, head |-> 0, sector |-> 2, num |-> 0], n)
      m == Patch("kernel", inc_sector(s.next, MapSectors), k)
      part(name, len) == [i \in 1..len |-> <<name, i - 1>>]
  IN  [secaddr |-> s.recs,
       mapaddr |-> [s.next EXCEPT !.num = MapSectors],
       map     |-> m.recs,
       kernel  |-> k,
       disk    |-> part("bootsect", 1) \o part("second", n)
                     \o part("map", MapSectors) \o part("kernel", k)]

-----------------------------------------------------------------------------
(* The BIOS.                                                               *)

Blank == <<"blank", 0>>

\* Can the BIOS read this record with one call?
Readable(a) ==
  /\ a.track < TRACKS /\ a.sector \in 1..SPT
  /\ SPT * a.head + a.sector - 1 + a.num <= HEADS * SPT

\* The sectors it reads: LBA order is track, head, sector.
Data(a) ==
  LET lba == (a.track * HEADS + a.head) * SPT + a.sector - 1
  IN  [i \in 1..a.num |-> IF lba + i \in DOMAIN image.disk THEN image.disk[lba + i]
                                                           ELSE Blank]

NoAddr == [track |-> 0, head |-> 0, sector |-> 0, num |-> 0]

LoaderInit ==
  /\ \E s \in SecondSizes, k \in KernelSizes : image = Image(s, k)
  /\ pc = "bootsect"
  /\ si = 1
  /\ second = <<>>
  /\ bp = 0 /\ addr = NoAddr
  /\ map = <<>> /\ moff = 1
  /\ bsmith_counter = BsmithCounter
  /\ buffer = <<>>
  /\ high = [o \in {i * SectorSize : i \in 0..(image.kernel - 1)} |-> Blank]
  /\ gdt_dest = 0
  /\ trouble = FALSE

-----------------------------------------------------------------------------
(* The boot sector.                                                        *)

\* The read of a record succeeds; the next one goes 512 bytes further on.
BootsectRead ==
  /\ pc = "bootsect" /\ si <= Len(image.secaddr)
  /\ Readable(image.secaddr[si])
  /\ second' = SubSeq(second, 1, si - 1) \o Data(image.secaddr[si])
  /\ si' = si + 1
  /\ UNCHANGED <<image, pc, bp, addr, map, moff, bsmith_counter, buffer, high,
                 gdt_dest, trouble>>

\* It fails: reset, and all over again.
BootsectError ==
  /\ pc = "bootsect" /\ si <= Len(image.secaddr)
  /\ si' = 1
  /\ UNCHANGED <<image, pc, diskVars, bp, addr, map, moff, bsmith_counter, trouble>>

\* Mutant: an even number of tries, which steps over 0.
Tries_Even == 4

\* `number of tries'.
Tries == 5

\* The second stage starts: it checks its header and reads the map.
SecondStart ==
  /\ pc = "bootsect" /\ si > Len(image.secaddr)
  /\ pc' = IF second # <<>> /\ second[1] = <<"second", 0>> THEN "loadmap" ELSE "dead"
  /\ addr' = image.mapaddr
  /\ bp' = Tries
  /\ UNCHANGED <<image, si, diskVars, map, moff, bsmith_counter, trouble>>

-----------------------------------------------------------------------------
(* The second stage.                                                       *)

\* int $0x13 fails: dsk_do_int13 gives up if that makes bp 0, and otherwise
\* resets the controller and counts once more.
GivesUp == (bp - 1) % BpWrap = 0

Int13Retry ==
  /\ pc \in {"loadmap", "sread"} /\ ~GivesUp
  /\ bp' = (bp - 2) % BpWrap
  /\ UNCHANGED <<image, pc, si, diskVars, addr, map, moff, bsmith_counter, trouble>>

MapRead ==
  /\ pc = "loadmap" /\ Readable(addr)
  /\ map' = IF Data(addr)[1] = <<"map", 0>> THEN image.map ELSE <<>>
  /\ pc' = "load"
  /\ UNCHANGED <<image, si, diskVars, bp, addr, moff, bsmith_counter, trouble>>

\* Nobody looks at the carry flag after the map was read: what the last try
\* has transferred is taken for the map.
MapLost ==
  /\ pc = "loadmap" /\ GivesUp
  /\ \E n \in 0..Len(image.map) : map' = SubSeq(image.map, 1, n)
  /\ pc' = "load"
  /\ trouble' = (trouble \/ Readable(addr))
  /\ UNCHANGED <<image, si, diskVars, bp, addr, moff, bsmith_counter>>

\* bsmith_dsk_debug, called for every record, counts down and stops at 0.
BsmithDies == bsmith_counter = 1

\* load: the next record, up to one that is 0.
Load ==
  /\ pc = "load"
  /\ bsmith_counter' = bsmith_counter - 1
  /\ \/ /\ moff <= Len(map)
        /\ addr' = map[moff]
        /\ moff' = moff + 1
        /\ bp' = Tries
        /\ pc' = IF BsmithDies THEN "dead" ELSE "sread"
     \/ /\ moff > Len(map)
        /\ pc' = IF BsmithDies THEN "dead" ELSE "launch"
        /\ UNCHANGED <<addr, moff, bp>>
  /\ UNCHANGED <<image, si, diskVars, map, trouble>>

\* sread has read the record into the buffer.
SectorsRead ==
  /\ pc = "sread" /\ Readable(addr)
  /\ buffer' = Data(addr)
  /\ pc' = "move"
  /\ UNCHANGED <<image, si, second, bp, addr, map, moff, bsmith_counter, high,
                 gdt_dest, trouble>>

\* rerror.
SectorsLost ==
  /\ pc = "sread" /\ GivesUp
  /\ pc' = "dead"
  /\ trouble' = (trouble \/ Readable(addr))
  /\ UNCHANGED <<image, si, diskVars, bp, addr, map, moff, bsmith_counter>>

\* Words of 16 bits in the buffer, the count for the block move.
WordCount == Len(buffer) * (SectorSize \div 2)

\* Mutant: addw without adcb.
AddWord_NoCarry(d, n) == (d \div LowWrap) * LowWrap + (((d % LowWrap) + n) % LowWrap)

\* addw and adcb: n is added to the lower 16 bits, and the carry to the byte
\* above them.  (That byte holds offsets up to 15M; a disk has 1.4M.)
AddWord(d, n) ==
  LET low   == (d % LowWrap) + n
      carry == IF low >= LowWrap THEN 1 ELSE 0
  IN  ((d \div LowWrap) + carry) * LowWrap + (low % LowWrap)

\* `modify the GDT': the count is added twice, it is in words.
DestAfterMove == AddWord(AddWord(gdt_dest, WordCount), WordCount)

\* The block move, int $0x15.
Move ==
  /\ pc = "move"
  /\ high' = [o \in DOMAIN high |->
                LET i == (o - gdt_dest) \div SectorSize + 1
                IN  IF o >= gdt_dest /\ i \in DOMAIN buffer THEN buffer[i] ELSE high[o]]
  /\ gdt_dest' = DestAfterMove
  /\ pc' = "load"
  /\ UNCHANGED <<image, si, second, bp, addr, map, moff, bsmith_counter, buffer, trouble>>

\* badmov.
MoveLost ==
  /\ pc = "move"
  /\ pc' = "dead"
  /\ trouble' = TRUE
  /\ UNCHANGED <<image, si, diskVars, bp, addr, map, moff, bsmith_counter>>

SecondStage ==
  \/ Int13Retry \/ MapRead \/ MapLost \/ Load
  \/ SectorsRead \/ SectorsLost \/ Move \/ MoveLost

LoaderNext == BootsectRead \/ BootsectError \/ SecondStart \/ SecondStage

-----------------------------------------------------------------------------
\* The sectors past the last cylinder, which build does not check for.
TooBig == ~(\A i \in DOMAIN image.map : image.map[i].track < TRACKS)

\* A kernel that is started is the one in the image, every sector in its
\* place, however it is cut into chunks, wherever the parts before it end, and
\* whatever was read again; unless reading the map itself failed for good,
\* which nothing checks.
KernelLoaded ==
  pc = "launch" /\ ~trouble =>
    \A i \in 0..(image.kernel - 1) : high[i * SectorSize] = <<"kernel", i>>

\* The loader gives up only if the hardware does: no record of an image that
\* fits the disk asks the BIOS for what it cannot read in one call, and no
\* image runs into the limit on records.
GivesUpOnErrors == pc = "dead" => trouble \/ TooBig
=============================================================================
