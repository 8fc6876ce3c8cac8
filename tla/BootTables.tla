----------------------------- MODULE BootTables -----------------------------
(***************************************************************************)
(* What the boot loader and the firmware tell the kernel: the multiboot    *)
(* information that MultibootParser hands out (modules, memory map), and   *)
(* the multiprocessor tables from which ImpsParser fills the list of       *)
(* processors, up to the boot processor being ready.  Tables are read in   *)
(* units of four bytes.  Assertions are compiled in.                       *)
(***************************************************************************)
EXTENDS Integers, Sequences, SequencesExt, FiniteSetsExt

CONSTANTS Entries,     \* entries of configuration tables
          MaxEntries,
          Paragraphs,  \* what may lie at the 16-byte steps of the BIOS area
          MaxParagraphs,
          Regions,     \* memory areas of memory maps [base, length, extra]
          MaxRegions,
          Infos,       \* the rest of a multiboot information [flags, modules]
          Wide         \* pointers of 64 bits

VARIABLES bios,    \* the BIOS area, a sequence of paragraphs
          listed,  \* history: the entries of the configuration table
          table,   \* the table in memory: [EntryQty, cells]
          info,    \* the multiboot information and the regions of its map
          pc,      \* "FindFPS", "CheckFPS", "entries", "InitBsp", "map", "done", "asserted"
          p, count,            \* the constructor's
          cpus, bspLapicId,    \* Processors
          m, mmap              \* GetMemoryMap's

vars == <<bios, listed, table, info, pc, p, count, cpus, bspLapicId, m, mmap>>

NotFound == 255

etCPU == 0
etBUS == 1
etIOAPIC == 2
etIO_INT == 3
etLOCAL_INT == 4

(* Four bytes that begin like an entry of a processor, wherever they lie. *)
Cell(type, id, flags) == [type |-> type, id |-> id, flags |-> flags]

(* An entry in memory: sizeof(cteCPU) is 20, the other entries have 8 bytes. *)
Layout(e) == IF e.type = etCPU THEN <<e, e.tail, e.tail, e.tail, e.tail>> ELSE <<e, e.tail>>

(* A region in memory: its size without the size field, low and high part of
   address and length, type, and what later versions may add. *)
RegionLayout(r) == <<20 + 4 * r.extra, r.base[1], r.base[2], r.length[1], r.length[2], 1>>
                     \o [i \in 1 .. r.extra |-> 0]

Init ==
  /\ \E n \in 0 .. MaxParagraphs : bios \in [1 .. n -> Paragraphs]
  /\ \E n \in 0 .. MaxEntries : listed \in [1 .. n -> Entries]
  /\ table = [EntryQty |-> Len(listed),
              cells |-> FlattenSeq([i \in DOMAIN listed |-> Layout(listed[i])])]
  /\ \E i \in Infos, n \in 0 .. MaxRegions : \E r \in [1 .. n -> Regions] :
       info = [flags |-> i.flags, modules |-> i.modules, regions |-> r,
               mmap |-> FlattenSeq([j \in DOMAIN r |-> RegionLayout(r[j])])]
  /\ pc = "FindFPS" /\ p = 1 /\ count = 0
  /\ cpus = <<>> /\ bspLapicId = NotFound
  /\ m = 1 /\ mmap = <<>>

multiboot == <<bios, listed, table, info>>

-----------------------------------------------------------------------------
(* Processors                                                              *)
AddCpu(lapicId, enabled, bsp) ==
  /\ bspLapicId' = IF bsp THEN lapicId ELSE bspLapicId
  /\ cpus' = Append(cpus, [lapicId |-> lapicId,
                           state |-> IF enabled THEN "CPU_STOPPED" ELSE "CPU_DISABLED"])

GetCpu(lapicId) ==
  LET found == {i \in DOMAIN cpus : cpus[i].lapicId = lapicId}
  IN  IF found = {} THEN 0 ELSE Min(found)

GetReadyQty == Cardinality({i \in DOMAIN cpus : cpus[i].state = "CPU_READY"})

-----------------------------------------------------------------------------
(* ImpsParser.  Of a paragraph it is known whether it has the signature, the
   length and the version of a floating pointer structure and its bytes add up
   to zero, its first feature byte, and whether it points to a table, whose
   signature, version and sums are right or not. *)
IsFPS(f) == f.signature /\ f.length = 1 /\ f.version \in {1, 4} /\ f.sum = 0

FindFPS ==
  /\ pc = "FindFPS"
  /\ LET found == {i \in DOMAIN bios : IsFPS(bios[i])}
     IN  IF found = {}
         THEN AddCpu(0, TRUE, TRUE) /\ pc' = "InitBsp" /\ UNCHANGED p
         ELSE p' = Min(found) /\ pc' = "CheckFPS" /\ UNCHANGED <<cpus, bspLapicId>>
  /\ UNCHANGED <<multiboot, count, m, mmap>>

FPSPasses(f) ==
  /\ f.feature <= 7
  /\ IF f.pConfigTable THEN f.tableRight /\ f.specRev = f.version ELSE f.feature # 0

(* The constructor asserts what was checked, and that there is a table: a
   default configuration, which has none, stops the kernel. *)
CheckFPS ==
  /\ pc = "CheckFPS"
  /\ pc' = IF FPSPasses(bios[p]) /\ bios[p].pConfigTable THEN "entries" ELSE "asserted"
  /\ p' = 1 /\ count' = table.EntryQty
  /\ UNCHANGED <<multiboot, cpus, bspLapicId, m, mmap>>

Size(type) == IF type = etCPU THEN 5 ELSE 2

Entry ==
  /\ pc = "entries" /\ count > 0
  /\ LET e == table.cells[p]
     IN  IF e.type \in {etCPU, etBUS, etIOAPIC, etIO_INT, etLOCAL_INT}
         THEN /\ IF e.type = etCPU THEN AddCpu(e.id, e.flags % 2 = 1, (e.flags \div 2) % 2 = 1)
                                   ELSE UNCHANGED <<cpus, bspLapicId>>
              /\ p' = p + Size(e.type) /\ count' = count - 1 /\ UNCHANGED pc
         ELSE pc' = "asserted" /\ UNCHANGED <<cpus, bspLapicId, p, count>>
  /\ UNCHANGED <<multiboot, m, mmap>>

EndOfTable ==
  /\ pc = "entries" /\ count = 0
  /\ pc' = "InitBsp"
  /\ UNCHANGED <<multiboot, p, count, cpus, bspLapicId, m, mmap>>

(* InitBsp asserts that a boot processor is known. *)
InitBsp ==
  /\ pc = "InitBsp"
  /\ IF bspLapicId = NotFound
     THEN pc' = "asserted" /\ UNCHANGED cpus
     ELSE /\ cpus' = IF GetCpu(bspLapicId) = 0 THEN cpus
                     ELSE [cpus EXCEPT ![GetCpu(bspLapicId)].state = "CPU_READY"]
          /\ pc' = "map"
  /\ UNCHANGED <<multiboot, p, count, bspLapicId, m, mmap>>

-----------------------------------------------------------------------------
(* MultibootParser.  Its tests read flags && FLAG: any flag that is set stands
   for all of them. *)
Announced(flag) == info.flags # {}

GetModulesQty == IF Announced("MODS") THEN Len(info.modules) ELSE 0

(* GetModule(index) of the module [start, end, string], None beyond the last. *)
GetModule(index) ==
  IF index >= GetModulesQty THEN <<>>
  ELSE LET mod == info.modules[index + 1]
       IN  <<[command |-> mod.string, data |-> mod.start, length |-> mod.end - mod.start]>>

Address(low, high) == <<low, IF Wide THEN high ELSE 0>>

(* Mutant: the size is taken to count the size field. *)
StepBySize(size) == size \div 4

Step(size) == (size + 4) \div 4

(* What is read of the map's memory; something else lies behind it. *)
Word(i) == IF i \in DOMAIN info.mmap THEN info.mmap[i] ELSE 0

(* GetMemoryMap: one turn of its loop; nothing is read unless announced. *)
GetMemoryMap ==
  /\ pc = "map" /\ Announced("MMAP") /\ m <= Len(info.mmap)
  /\ mmap' = Append(mmap, [addr |-> Address(Word(m + 1), Word(m + 2)),
                           length |-> Address(Word(m + 3), Word(m + 4)),
                           type |-> Word(m + 5)])
  /\ m' = m + Step(Word(m))
  /\ UNCHANGED <<multiboot, pc, p, count, cpus, bspLapicId>>

EndOfMap ==
  /\ pc = "map" /\ (~Announced("MMAP") \/ m > Len(info.mmap))
  /\ pc' = "done"
  /\ UNCHANGED <<multiboot, p, count, cpus, bspLapicId, m, mmap>>

Next == FindFPS \/ CheckFPS \/ Entry \/ EndOfTable \/ InitBsp \/ GetMemoryMap \/ EndOfMap

Spec == Init /\ [][Next]_vars

-----------------------------------------------------------------------------
(* Which of the processors the k-th entry describes, if it does. *)
Place(k) == Cardinality({j \in 1 .. k : listed[j].type = etCPU})

(* The processors are those of the table, in its order, whatever lies between
   and inside the entries; exactly one is ready, the one flagged last as the
   boot processor, enabled or not.  Without a table there is the one with
   number 0.  And the kernel only stops for a pointer structure it does not
   accept, a boot processor that is not named, or an entry of unknown type. *)
ProcessorsListed ==
  LET table0 == \E i \in DOMAIN bios : IsFPS(bios[i])
      given == {k \in DOMAIN listed : listed[k].type = etCPU}
      boot == {k \in given : listed[k].flags \in {2, 3}}
  IN  /\ pc \in {"map", "done"} =>
           /\ GetReadyQty = 1 /\ cpus[GetCpu(bspLapicId)].state = "CPU_READY"
           /\ ~table0 => Len(cpus) = 1 /\ bspLapicId = 0
           /\ table0 => /\ bspLapicId = listed[Max(boot)].id
                        /\ Len(cpus) = Cardinality(given)
                        /\ \A k \in given :
                             /\ cpus[Place(k)].lapicId = listed[k].id
                             /\ cpus[Place(k)].state = "CPU_DISABLED" => listed[k].flags \in {0, 2}
                             /\ cpus[Place(k)].state = "CPU_STOPPED" => listed[k].flags \in {1, 3}
      /\ pc = "asserted" =>
           \/ boot = {}
           \/ \E i \in DOMAIN listed : listed[i].type \notin 0 .. 4
           \/ \E i \in DOMAIN bios :
                IsFPS(bios[i]) /\ ~(FPSPasses(bios[i]) /\ bios[i].pConfigTable)

(* Every region of an announced memory map is handed out as it was given, as
   far as a pointer reaches (high parts are cut off where pointers have 32
   bits), in never more entries than the array has, whose size is the map's in
   bytes; every announced module is handed out, and none that is not there. *)
BootInfoAsGiven ==
  /\ Len(mmap) <= 4 * Len(info.mmap)
  /\ pc = "done" /\ "MMAP" \in info.flags =>
       mmap = [i \in DOMAIN info.regions |->
                 [addr |-> Address(info.regions[i].base[1], info.regions[i].base[2]),
                  length |-> Address(info.regions[i].length[1], info.regions[i].length[2]),
                  type |-> 1]]
  /\ "MODS" \in info.flags =>
       /\ GetModule(Len(info.modules)) = <<>>
       /\ \A i \in DOMAIN info.modules :
            LET mod == info.modules[i]
            IN  GetModule(i - 1) = <<[command |-> mod.string, data |-> mod.start,
                                      length |-> mod.end - mod.start]>>

=============================================================================
