------------------------------- MODULE MCParts -------------------------------
(***************************************************************************)
(* The parts of the system that no other run looks at, each an instance    *)
(* on small values, side by side: `part' says which of them moves.  The    *)
(* others rest; they have no state in common with it.                      *)
(***************************************************************************)
EXTENDS Integers, Sequences, SequencesExt

CONSTANT Nobody   \* a model value: nothing there

VARIABLES part,
          operands,                                       \* 64-bit division
          call,                                           \* memory.c, string.c
          format, fmtAt, fmtOut, fmtArgs, fmtReported, asked,  \* sprintf.c, stdlib.c
          escPos, escBuffer, escPen, escShown, escDone, escTyped,  \* escape sequences of the console
          mRefData, strHeap, selfAppended,                \* String
          mData, mRefCount, alive, SmartPtrGlobalCounter,  \* SmartPtr
          next, prev, lstData, mCount, it,                \* List
          cntData, cntCount, cntList, cntWords, cntSet, cntStack, cntTop, cntUsed,
          cntBuffer, cntFilled, cntProcessed, cntHanded,  \* Array, BitArray, Pool, ActBuffer
          devices, listeners, devStack, told, gone,       \* device manager
          ram, packed, base, fs, lastWrite,               \* initial RAM disk
          gates, handlers, pic, lvt, intsOn, serving, halted, intPc,  \* 8259, IDT, handlers
          tabBios, tabListed, tabTable, tabInfo, tabPc, tabP, tabCount, tabCpus,
          tabBspLapicId, tabM, tabMmap,                   \* boot information
          canvas, offset, children,                       \* windows on the screen
          char,                                           \* character tables
          job, splitAt, argv, text, in_QM, in_TEXT, in_SPACE,  \* helpers
          binPc, binArgv, params, src, byteAt, commas, binOut, binStatus,  \* bin2inl
          mods, waiting, got,                             \* from scan codes to characters
          bufData, bufInIdx, bufOutIdx, bufPc, bufKey, bufHalted, bufPressed,
          bufTaken,                                       \* keyboard buffer, release build
          heap, live, status                              \* kernel heap, debug build

(* Operands with all digits, and the rare cases of algorithm D among them. *)
Operands == {q \in 0 .. 255 : q % 8 \in {0, 3, 7}}

SomeFlags == {{}, {"-"}, {"0"}, {"-", "0"}, {"+", " "}, {"+", "0", "#"}}

(* A cached drive and one that is not, both with an image. *)
SomeDrives == {[type |-> "drive", cached |-> c, initrd |-> TRUE, on |-> <<>>,
                id |-> <<IF c THEN "ram" ELSE "disk">>] : c \in BOOLEAN}

File(n, c) == [name |-> n, content |-> c]
SomePacks == {<<>>, <<File(1, <<7, 8, 9>>)>>, <<File(1, <<>>), File(2, <<5>>)>>,
              <<File(2, <<4, 5>>), File(1, <<6>>), File(2, <<3>>)>>}

(* Processors whose inner bytes look like one more, another entry, an unknown. *)
CPU(i, f) == [type |-> 0, id |-> i, flags |-> f, tail |-> [type |-> 5, id |-> 7, flags |-> 3]]
Other(t)  == [type |-> t, id |-> 1, flags |-> 3, tail |-> [type |-> 0, id |-> 6, flags |-> 1]]
SomeEntries == {CPU(1, 3), CPU(2, 1), CPU(2, 2), CPU(1, 0), Other(1), Other(5)}

FPS == [signature |-> TRUE, length |-> 1, version |-> 4, sum |-> 0, feature |-> 0,
        pConfigTable |-> TRUE, tableRight |-> TRUE, specRev |-> 4]
SomeParagraphs == {FPS, [FPS EXCEPT !.sum = 1], [FPS EXCEPT !.pConfigTable = FALSE, !.feature = 5]}
SomeRegions == {[base |-> <<3, 0>>, length |-> <<2, 0>>, extra |-> 0],
                [base |-> <<3, 1>>, length |-> <<2, 1>>, extra |-> 1]}
SomeInfos == {[flags |-> {}, modules |-> <<>>],
              [flags |-> {"MODS", "MMAP"},
               modules |-> <<[start |-> 4, end |-> 6, string |-> "x"],
                             [start |-> 6, end |-> 9, string |-> "y"]>>]}

SomeFiles == {<<>>, <<7>>, <<0, 255, 64>>, <<8, 9, 10, 100>>}
SomeArgs ==
  {<<>>, <<"gone">>, <<"file">>, <<"file", "-w", "2", "-oct", "-null">>,
   <<"file", "-dec", "-header">>, <<"file", "-w", "0">>, <<"file", "-x">>,
   <<"file", "-null", "-w", "3", "-null", "-header", "-line">>, <<"file", "-help", "-x">>,
   <<"file", "-win", "-tabs", "-append", "-align", "-hvar", "x", "-w", "1">>}

SomeSizes == [desktop |-> <<4, 3>>, console |-> <<2, 2>>, frame |-> <<4, 3>>, client |-> <<2, 1>>]
SomeRectangles == {[l |-> 0, t |-> 0, w |-> 1, h |-> 1], [l |-> 1, t |-> 0, w |-> 1, h |-> 2]}
SomeOffsets == {<<0, 0>>, <<-1, 1>>, <<3, -1>>, <<-5, 0>>}

-----------------------------------------------------------------------------
Div == INSTANCE LongDivision WITH
         HALF_BITS <- 2, Quads <- Operands

Lib == INSTANCE CLibrary WITH
         Word <- 2, MemSize <- 7, MaxLen <- 3

Fmt == INSTANCE Format WITH
         IntRange <- 256, PtrWidth <- 4, FlagSets <- SomeFlags,
         Widths <- {<<>>, <<"6">>, <<"-", "6">>}, Values <- {0, 7, 42, 127, -1, -42, -128},
         at <- fmtAt, out <- fmtOut, args <- fmtArgs, reported <- fmtReported

Esc == INSTANCE Ansi WITH
         Typed <- {"ESC", "CSI", "[", "0", "3", ";", "m", "h", "x"}, MaxTyped <- 4,
         pos <- escPos, buffer <- escBuffer, pen <- escPen, shown <- escShown,
         done <- escDone, typed <- escTyped

Str == INSTANCE Strings WITH
         Vars <- 1 .. 3, Addrs <- 1 .. 3, EMPTY <- 0, Texts <- {<<>>, <<1>>, <<2, 1>>},
         None <- Nobody, Word <- 2, MaxLen <- 3,
         heap <- strHeap

Ptr == INSTANCE SmartPtrs WITH
         Pointers <- 1 .. 3, Data <- 1 .. 2, NULL <- 0, None <- Nobody

Lst == INSTANCE Lists WITH
         Nodes <- 1 .. 3, mHead <- 0, Items <- {"a", "b"}, NoItem <- "-",
         data <- lstData

Cnt == INSTANCE Containers WITH
         Items <- {"a", "b"}, SIZE <- 3, QTY <- 3, BITS_PER_ITEM <- 5, INT_BITS <- 3, Bits <- 11,
         MaxCalls <- 4,
         data <- cntData, count <- cntCount, list <- cntList, words <- cntWords,
         set <- cntSet, stack <- cntStack, top <- cntTop, used <- cntUsed,
         buffer <- cntBuffer, filled <- cntFilled, processed <- cntProcessed,
         handed <- cntHanded

Dev == INSTANCE Devices WITH
         Drives <- SomeDrives, Listeners <- {"cached", "initrd"}, MaxDevices <- 5,
         stack <- devStack

Ird == INSTANCE Initrd WITH
         Packs <- SomePacks, BlockSize <- 3, Blocks <- 8, StartBlock <- 2, LogicalBlocks <- 5,
         MaxQty <- 2, Byte <- 20,
         last <- lastWrite

Irq == INSTANCE Interrupts WITH
         Lines <- {0, 1, 4, 12},
         pc <- intPc

Tab == INSTANCE BootTables WITH
         Entries <- SomeEntries, MaxEntries <- 2, Paragraphs <- SomeParagraphs,
         MaxParagraphs <- 2, Regions <- SomeRegions, MaxRegions <- 2, Infos <- SomeInfos, Wide <- TRUE,
         bios <- tabBios, listed <- tabListed, table <- tabTable, info <- tabInfo,
         pc <- tabPc, p <- tabP, count <- tabCount, cpus <- tabCpus,
         bspLapicId <- tabBspLapicId, m <- tabM, mmap <- tabMmap

Win == INSTANCE Windows WITH
         Sizes <- SomeSizes, CaptionLen <- 0, Offsets <- SomeOffsets, Regions <- SomeRectangles

Cty == INSTANCE Ctype

Hlp == INSTANCE Helpers WITH
         Numbers <- -2 .. 3, Lines <- BoundedSeq({"a", " ", "QUOTE"}, 6),
         Dumps <- BoundedSeq({"x", "y"}, 5), Width <- 2,
         i <- splitAt

Bin == INSTANCE Bin2Inl WITH
         Files <- SomeFiles, ArgLists <- SomeArgs,
         pc <- binPc, argv <- binArgv, c <- byteAt, n <- commas, out <- binOut,
         status <- binStatus

Key == INSTANCE KeyChars WITH
         Codes <- {2, 30, 59}, MaxWaiting <- 2

Buf == INSTANCE KeyQueue WITH
         SIZE <- 4, Keys <- {"a", "f1"}, Printable <- {"a"}, NoKey <- "none", Debug <- FALSE,
         MaxBacklog <- 3, MaxPresses <- 6,
         data <- bufData, inIdx <- bufInIdx, outIdx <- bufOutIdx, pc <- bufPc,
         key <- bufKey, halted <- bufHalted, pressed <- bufPressed, taken <- bufTaken

Hp == INSTANCE Heap WITH
         ArenaSize <- 24, NodeSz <- 2, MinBlockSpace <- 1, Sizes <- {2, 4, 6}, Debug <- TRUE

(* The parts with many initial states rest in one of them. *)
Init ==
  /\ part \in {"division", "library", "printf", "ansi", "strings", "pointers", "list", "containers",
              "devices", "initrd", "interrupts", "tables", "windows", "ctype",
              "helpers", "bin2inl", "keys", "buffer", "heap"}
  /\ Div!Init
  /\ Lib!Init
  /\ Fmt!Init
  /\ Str!Init
  /\ Ptr!Init
  /\ Lst!Init
  /\ Dev!Init
  /\ Ird!Init
  /\ Irq!Init
  /\ Win!Init
  /\ Cty!Init
  /\ Hlp!Init
  /\ Bin!Init /\ (part # "bin2inl" => binArgv = <<>> /\ src = <<>>)
  /\ Key!Init
  /\ Buf!Init
  /\ Hp!Init
  /\ Esc!Init /\ (part # "ansi" => escPos = 0 /\ escPen.wrap)
  /\ Cnt!Init /\ (part # "containers" => cntData[1] = "a")
  /\ IF part = "tables" THEN Tab!Init
     ELSE /\ tabBios = <<>> /\ tabListed = <<>> /\ tabTable = [EntryQty |-> 0, cells |-> <<>>]
          /\ tabInfo = [flags |-> {}, modules |-> <<>>, regions |-> <<>>, mmap |-> <<>>]
          /\ tabPc = "FindFPS" /\ tabP = 1 /\ tabCount = 0 /\ tabCpus = <<>>
          /\ tabBspLapicId = 255 /\ tabM = 1 /\ tabMmap = <<>>

Frame ==
  /\ UNCHANGED part
  /\ IF part = "division" THEN TRUE ELSE UNCHANGED <<operands>>
  /\ IF part = "library" THEN TRUE ELSE UNCHANGED <<call>>
  /\ IF part = "printf" THEN TRUE ELSE UNCHANGED <<format, fmtAt, fmtOut, fmtArgs,
       fmtReported, asked>>
  /\ IF part = "ansi" THEN TRUE ELSE UNCHANGED <<escPos, escBuffer, escPen, escShown,
       escDone, escTyped>>
  /\ IF part = "strings" THEN TRUE ELSE UNCHANGED <<mRefData, strHeap, selfAppended>>
  /\ IF part = "pointers" THEN TRUE ELSE UNCHANGED <<mData, mRefCount, alive,
       SmartPtrGlobalCounter>>
  /\ IF part = "list" THEN TRUE ELSE UNCHANGED <<next, prev, lstData, mCount, it>>
  /\ IF part = "containers" THEN TRUE ELSE UNCHANGED <<cntData, cntCount, cntList, cntWords,
       cntSet, cntStack, cntTop, cntUsed, cntBuffer, cntFilled, cntProcessed, cntHanded>>
  /\ IF part = "devices" THEN TRUE ELSE UNCHANGED <<devices, listeners, devStack, told,
       gone>>
  /\ IF part = "initrd" THEN TRUE ELSE UNCHANGED <<ram, packed, base, fs, lastWrite>>
  /\ IF part = "interrupts" THEN TRUE ELSE UNCHANGED <<gates, handlers, pic, lvt, intsOn,
       serving, halted, intPc>>
  /\ IF part = "tables" THEN TRUE ELSE UNCHANGED <<tabBios, tabListed, tabTable, tabInfo,
       tabPc, tabP, tabCount, tabCpus, tabBspLapicId, tabM, tabMmap>>
  /\ IF part = "windows" THEN TRUE ELSE UNCHANGED <<canvas, offset, children>>
  /\ IF part = "ctype" THEN TRUE ELSE UNCHANGED char
  /\ IF part = "helpers" THEN TRUE ELSE UNCHANGED <<job, splitAt, argv, text, in_QM, in_TEXT,
       in_SPACE>>
  /\ IF part = "bin2inl" THEN TRUE ELSE UNCHANGED <<binPc, binArgv, params, src, byteAt,
       commas, binOut, binStatus>>
  /\ IF part = "keys" THEN TRUE ELSE UNCHANGED <<mods, waiting, got>>
  /\ IF part = "buffer" THEN TRUE ELSE UNCHANGED <<bufData, bufInIdx, bufOutIdx, bufPc,
       bufKey, bufHalted, bufPressed, bufTaken>>
  /\ IF part = "heap" THEN TRUE ELSE UNCHANGED <<heap, live, status>>

Next ==
  \/ part = "division" /\ Div!Next /\ Frame
  \/ part = "library" /\ Lib!Next /\ Frame
  \/ part = "printf" /\ Fmt!Next /\ Frame
  \/ part = "ansi" /\ Esc!Next /\ Frame
  \/ part = "strings" /\ Str!Next /\ Frame
  \/ part = "pointers" /\ Ptr!Next /\ Frame
  \/ part = "list" /\ Lst!Next /\ Frame
  \/ part = "containers" /\ Cnt!Next /\ Frame
  \/ part = "devices" /\ Dev!Next /\ Frame
  \/ part = "initrd" /\ Ird!Next /\ Frame
  \/ part = "interrupts" /\ Irq!Next /\ Frame
  \/ part = "tables" /\ Tab!Next /\ Frame
  \/ part = "windows" /\ Win!Next /\ Frame
  \/ part = "ctype" /\ Cty!Next /\ Frame
  \/ part = "helpers" /\ Hlp!Next /\ Frame
  \/ part = "bin2inl" /\ Bin!Next /\ Frame
  \/ part = "keys" /\ Key!Next /\ Frame
  \/ part = "buffer" /\ Buf!Next /\ Frame
  \/ part = "heap" /\ Hp!Next /\ Frame

vars == <<part, operands, call, Fmt!vars, Esc!vars, Str!vars, Ptr!vars, Lst!vars, Cnt!vars,
          Dev!vars, Ird!vars, Irq!vars, Tab!vars, Win!vars, char, Hlp!vars, Bin!vars,
          Key!vars, Buf!vars, Hp!vars>>

Spec == Init /\ [][Next]_vars

-----------------------------------------------------------------------------
(* The properties of the parts, stated where the parts are modelled.       *)

(* Division: quotient and remainder are what arithmetic says they are. *)
DivisionRight == part = "division" => Div!DivisionRight

(* memmove, memcpy, memset; the string functions against one another; the
   classes of characters; the helpers and the splitting of command lines; a
   number printed reads as that number, in the width asked for. *)
LibraryRight ==
  /\ part = "library" => Lib!MemoryRight /\ Lib!StringsRight
  /\ part = "ctype" => Cty!ClassesAgree
  /\ part = "helpers" => Hlp!NumbersRight /\ Hlp!DumpRight /\ Hlp!SplitRight
  /\ part = "printf" => Fmt!NumberPrinted /\ Fmt!NumberReadBack /\ Fmt!ConsolePrinted

(* Commands get the parameters typed; nothing outside sequences is lost. *)
SequencesRight == part = "ansi" => Esc!ParamsAsTyped /\ Esc!TextKept

(* Reference counts count the references. *)
OwnersCounted ==
  /\ part = "strings" => Str!CountsOwners /\ Str!OperationsAgree
  /\ part = "pointers" => Ptr!AliveIffPointedTo

(* Strings that share their text behave as values. *)
ValuesSpec == Str!ValuesSpec

(* The linked list behaves as a sequence with a place in it. *)
IsSequence == Lst!IsSequence

(* Arrays, bit arrays, pools and buffers are what they stand for. *)
ContainersRight == part = "containers" => Cnt!ContainersRight

(* Every listener is told of every device. *)
EveryoneTold == part = "devices" => Dev!EveryoneTold

(* The files packed, or written as arrays, are the files read. *)
FilesReadBack ==
  /\ part = "initrd" => Ird!FilesReadBack
  /\ part = "bin2inl" => Bin!ArrayReads

(* No interrupt service is left open, no device stops the processor. *)
EveryServiceEnds == part = "interrupts" => Irq!EveryServiceEnds

(* The processors are those the table lists; memory map and modules are handed
   out as the loader gave them. *)
BootInfoAsGiven == part = "tables" => Tab!ProcessorsListed /\ Tab!BootInfoAsGiven

(* Every cell of the screen shows the topmost window there. *)
ScreenShowsWindows == part = "windows" => Win!ScreenShowsWindows

(* Each key becomes a character on its cap. *)
CharsAsTyped == part = "keys" => Key!CharsAsTyped

(* The release build's keyboard buffer, too, is a FIFO. *)
FifoSpec == Buf!FifoSpec

(* In an arena of even size whose clients ask for even sizes, no node header
   is ever written over another. *)
SignaturesIntact == part = "heap" => Hp!SignaturesIntact

=============================================================================
