------------------------------- MODULE Initrd -------------------------------
(***************************************************************************)
(* The initial RAM disk: the image tools/mkinitrd.cpp packs, in memory     *)
(* behind RamDrive, CachedDrive and LogicalDrive stacked on one another,   *)
(* and the file system InitrdFs finds on a drive.  A field of a header, a  *)
(* name and a byte of a file each take one cell; the tables are laid out   *)
(* as the structures are.                                                  *)
(***************************************************************************)
EXTENDS Integers, Sequences, SequencesExt, FiniteSetsExt

CONSTANTS Packs,      \* lists of files [name, content] given to mkinitrd
          BlockSize,  \* 512 in the code
          Blocks,     \* of the RAM drive
          StartBlock, LogicalBlocks,  \* the window of the logical drive
          MaxQty,     \* blocks written at a time
          Byte        \* what is written to drives is made of

VARIABLES ram,    \* _data of RamDrive
          packed, \* history: what the image was packed from
          base,   \* history: the block it was loaded to, or NoImage
          fs,     \* the file system: [drive, headers], or NoFs
          last    \* history: the last write [path, from, qty, data], or NoWrite

vars == <<ram, packed, base, fs, last>>

MAGIC == \h73264320
VERSION == 1
HeaderSize == 3
FileHeaderSize == 3
NoImage == -1
NoFs == [drive |-> "none", headers |-> <<>>]
NoWrite == [path |-> "none", from |-> 0, qty |-> 0, data |-> <<>>]

Size == Blocks * BlockSize

-----------------------------------------------------------------------------
(* mkinitrd: the offsets are laid out one behind the other, then header, file
   headers and contents are written in this order. *)
Lengths(files, n) ==
  LET sum[k \in 0 .. n] == IF k = 0 THEN 0 ELSE sum[k - 1] + Len(files[k].content)
  IN  sum[n]

mkinitrd(files) ==
  LET first == HeaderSize + FileHeaderSize * Len(files)
      headers == [i \in DOMAIN files |->
                    <<first + Lengths(files, i - 1), Len(files[i].content), files[i].name>>]
  IN  <<MAGIC, VERSION, Len(files)>> \o FlattenSeq(headers)
        \o FlattenSeq([i \in DOMAIN files |-> files[i].content])

-----------------------------------------------------------------------------
(* Drives.  Reading and writing of bytes, from 0, and of blocks.           *)
Overwrite(from, data) ==
  [i \in DOMAIN ram |-> IF i \in from + 1 .. from + Len(data) THEN data[i - from] ELSE ram[i]]

RamRead(offset, qty) == SubSeq(ram, offset + 1, offset + qty)
RamReadBlock(b) == RamRead(b * BlockSize, BlockSize)
RamReadBlocks(b, qty) == RamRead(b * BlockSize, BlockSize * qty)

(* Nothing is cached: all calls go through; several blocks one by one. *)
CachedReadBlocks(b, qty) == FlattenSeq([i \in 1 .. qty |-> RamReadBlock(b + i - 1)])

LogicalRead(offset, qty) == RamRead(StartBlock * BlockSize + offset, qty)

LogicalReadBlocks(b, qty) == CachedReadBlocks(b + StartBlock, qty)

Read(drive, offset, qty) ==
  IF drive = "logical" THEN LogicalRead(offset, qty) ELSE RamRead(offset, qty)

ReadBlocks(drive, b, qty) ==
  CASE drive = "ram" -> RamReadBlocks(b, qty)
    [] drive = "cached" -> CachedReadBlocks(b, qty)
    [] drive = "logical" -> LogicalReadBlocks(b, qty)

Room(drive) == IF drive = "logical" THEN LogicalBlocks ELSE Blocks

(* Mutant: the window is forgotten. *)
WriteBlocksAtStart(drive, b, data) == Overwrite(b * BlockSize, data)

WriteBlocks(drive, b, data) ==
  Overwrite((IF drive = "logical" THEN b + StartBlock ELSE b) * BlockSize, data)

-----------------------------------------------------------------------------
Init ==
  /\ ram = [i \in 1 .. Size |-> 0]
  /\ packed = <<>> /\ base = NoImage /\ fs = NoFs /\ last = NoWrite

(* The boot loader puts the image into the memory the RAM drive is made of, at
   its beginning or where the logical drive begins. *)
Load ==
  /\ base = NoImage
  /\ \E files \in Packs, b \in {0, StartBlock} :
       /\ b * BlockSize + Len(mkinitrd(files)) <= Size
       /\ ram' = Overwrite(b * BlockSize, mkinitrd(files))
       /\ packed' = files /\ base' = b
  /\ UNCHANGED <<fs, last>>

(* The listener: a file system for a drive that begins with the magic number
   and the version; its constructor reads the file headers. *)
Mount ==
  /\ fs = NoFs
  /\ \E drive \in {"ram", "cached", "logical"} :
       LET header == Read(drive, 0, HeaderSize)
       IN  /\ header[1] = MAGIC /\ header[2] = VERSION
           /\ fs' = [drive |-> drive,
                     headers |-> [i \in 1 .. header[3] |->
                                    Read(drive, HeaderSize + FileHeaderSize * (i - 1),
                                         FileHeaderSize)]]
  /\ UNCHANGED <<ram, packed, base, last>>

(* What LogicalDrive calls Write reads instead, into the caller's buffer; only
   its blocks can be written.  One write is looked at, before an image is
   loaded. *)
WriteToBlocks ==
  /\ last = NoWrite /\ base = NoImage
  /\ \E drive \in {"ram", "cached", "logical"}, qty \in 1 .. MaxQty :
       \E b \in 0 .. Room(drive) - qty :
         LET data == [i \in 1 .. qty * BlockSize |-> Byte + i]
         IN  /\ ram' = WriteBlocks(drive, b, data)
             /\ last' = [path |-> drive, from |-> b, qty |-> qty, data |-> data]
  /\ UNCHANGED <<packed, base, fs>>

Next == Load \/ Mount \/ WriteToBlocks

Spec == Init /\ [][Next]_vars

-----------------------------------------------------------------------------
Offset(i) == fs.headers[i][1]
Length(i) == fs.headers[i][2]
FileRead(i, offset, qty) == Read(fs.drive, Offset(i) + offset, qty)

(* The first file of that name, 0 if there is none. *)
FindFile(name) ==
  LET found == {i \in DOMAIN fs.headers : fs.headers[i][3] = name}
  IN  IF found = {} THEN 0 ELSE Min(found)

(* What was packed is found: every name leads to the first file packed under
   it, every part of a file reads as it was, through whatever stack of drives
   the file system was found; on other drives none is found.  What is written
   to blocks is read back, by bytes or by blocks, along every way that leads to
   them. *)
FilesReadBack ==
  /\ fs # NoFs =>
       /\ base # NoImage
       /\ Len(fs.headers) = Len(packed)
       /\ base = IF fs.drive = "logical" THEN StartBlock ELSE 0
       /\ \A i \in DOMAIN packed :
            LET first == Min({j \in DOMAIN packed : packed[j].name = packed[i].name})
                text == packed[first].content
                f == FindFile(packed[i].name)
            IN  /\ Length(f) = Len(text)
                /\ \A o \in 0 .. Len(text) :
                     FileRead(f, o, Len(text) - o) = SubSeq(text, o + 1, Len(text))
  /\ last # NoWrite /\ base = NoImage =>
       LET at == last.from + (IF last.path = "logical" THEN StartBlock ELSE 0)
           n == last.qty
       IN  /\ \A drive \in {"ram", "cached"} :
                /\ ReadBlocks(drive, at, n) = last.data
                /\ Read(drive, at * BlockSize, Len(last.data)) = last.data
           /\ at \in StartBlock .. StartBlock + LogicalBlocks - n =>
                /\ ReadBlocks("logical", at - StartBlock, n) = last.data
                /\ Read("logical", (at - StartBlock) * BlockSize, Len(last.data)) = last.data

=============================================================================
