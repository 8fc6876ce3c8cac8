------------------------------ MODULE CpuWaker ------------------------------
(***************************************************************************)
(* Bringing up the application processors: CpuWaker::StartCpu on the boot  *)
(* processor (BSP), the trampoline waker.asm and CpuWaker::Waked on the    *)
(* processor being started (AP), and around them the loop of               *)
(* Processors::Startup and Processors::InitAp.  The two sides share the    *)
(* CpuConfig block at 0x600 and a Spinlock that the BSP takes and the AP   *)
(* releases: its Unlock is the AP's answer, and StartCpu's timed Wait is   *)
(* the BSP listening for it.                                               *)
(***************************************************************************)
EXTENDS Integers, FiniteSets

CONSTANTS N,       \* processors besides the BSP, lapicIds 1 .. N in list order
          Debug,   \* built with -D DEBUG: a failed assert stops the processor
          Prompt   \* an AP that answers at all answers within Wait's cycles

ASSUME CpuWakerAssumption ==
  /\ N \in Nat \ {0}
  /\ Debug \in BOOLEAN
  /\ Prompt \in BOOLEAN

VARIABLES lock,      \* _lock._value
          config,    \* the CpuConfig fields that differ: [id, stack]
          pc, cpu,   \* the BSP: where it is, the list index it is at
          locked,    \* StartCpu's local: what Wait returned
          ap,        \* where each AP is
          esp,       \* the stack each AP runs on
          state,     \* CpuDesc::state
          present    \* APs that react to the start-up message

vars == <<lock, config, pc, cpu, locked, ap, esp, state, present>>

APs == 1 .. N
NoStack == 0              \* the stack of AP c is called c
Answered == {"entry", "init", "ready"}   \* past Waked's Unlock
InFlight == {"booting", "waked", "answering"}

Init ==
  /\ lock = "UNLOCKED"
  /\ config = [id |-> 0, stack |-> NoStack]
  /\ pc = "loop" /\ cpu = 1 /\ locked = FALSE
  /\ ap = [c \in APs |-> "off"]
  /\ esp = [c \in APs |-> NoStack]
  /\ state \in [APs -> {"CPU_DISABLED", "CPU_STOPPED"}]
  /\ present \in SUBSET APs

-----------------------------------------------------------------------------
(* Spinlock                                                                *)

(* Mutant: an exchange that does not look at what it finds. *)
AcquireBlind == lock' = "LOCKED"

(* The compare-and-exchange of Lock and Wait, when it finds UNLOCKED. *)
Acquire == lock = "UNLOCKED" /\ lock' = "LOCKED"

Unlock == lock' = "UNLOCKED"

-----------------------------------------------------------------------------
(* The boot processor                                                      *)

(* The loop of Startup: disabled processors are skipped. *)
Skip ==
  /\ pc = "loop" /\ cpu \in APs /\ state[cpu] = "CPU_DISABLED"
  /\ cpu' = cpu + 1
  /\ UNCHANGED <<lock, config, pc, locked, ap, esp, state, present>>

Boot ==
  /\ pc = "loop" /\ cpu \in APs /\ state[cpu] = "CPU_STOPPED"
  /\ state' = [state EXCEPT ![cpu] = "CPU_BOOTING"]
  /\ pc' = "lock"
  /\ UNCHANGED <<lock, config, cpu, locked, ap, esp, present>>

(* Mutants of StartCpu: it does not take the lock; it writes the position in
   a list that counts the BSP; it leaves the lock taken after a time-out. *)
StartNoLock ==
  /\ pc = "lock"
  /\ pc' = "id"
  /\ UNCHANGED <<lock, config, cpu, locked, ap, esp, state, present>>

StartUnlockIfLocked ==
  /\ pc = "unlock"
  /\ lock' = IF locked THEN "UNLOCKED" ELSE lock
  /\ pc' = "return"
  /\ UNCHANGED <<config, cpu, locked, ap, esp, state, present>>

(* StartCpu *)
StartLock ==
  /\ pc = "lock" /\ Acquire
  /\ pc' = "id"
  /\ UNCHANGED <<config, cpu, locked, ap, esp, state, present>>

WriteId ==
  /\ pc = "id"
  /\ config' = [config EXCEPT !.id = cpu]
  /\ pc' = "stack"
  /\ UNCHANGED <<lock, cpu, locked, ap, esp, state, present>>

WriteStack ==
  /\ pc = "stack"
  /\ config' = [config EXCEPT !.stack = cpu]
  /\ pc' = "ipi"
  /\ UNCHANGED <<lock, cpu, locked, ap, esp, state, present>>

(* lapicStartCpu: INIT, then the start-up message with the trampoline's page. *)
SendIpi ==
  /\ pc = "ipi"
  /\ ap' = IF cpu \in present THEN [ap EXCEPT ![cpu] = "booting"] ELSE ap
  /\ pc' = "wait"
  /\ UNCHANGED <<lock, config, cpu, locked, esp, state, present>>

(* Wait(10000000): either the lock is free, or the cycles run out. *)
WaitAcquire ==
  /\ pc = "wait" /\ Acquire
  /\ locked' = TRUE
  /\ pc' = "unlock"
  /\ UNCHANGED <<config, cpu, ap, esp, state, present>>

WaitTimeout ==
  /\ pc = "wait" /\ lock = "LOCKED"
  /\ Prompt => ap[cpu] \notin InFlight
  /\ locked' = FALSE
  /\ pc' = "unlock"
  /\ UNCHANGED <<lock, config, cpu, ap, esp, state, present>>

StartUnlock ==
  /\ pc = "unlock" /\ Unlock
  /\ pc' = "return"
  /\ UNCHANGED <<config, cpu, locked, ap, esp, state, present>>

(* Startup prints a message when StartCpu returns false, and goes on. *)
Return ==
  /\ pc = "return"
  /\ cpu' = cpu + 1
  /\ pc' = "loop"
  /\ UNCHANGED <<lock, config, locked, ap, esp, state, present>>

Bsp == \/ Skip \/ Boot \/ StartLock \/ WriteId \/ WriteStack \/ SendIpi
       \/ WaitAcquire \/ WaitTimeout \/ StartUnlock \/ Return

-----------------------------------------------------------------------------
(* An application processor                                                *)

(* Mutant: the trampoline answers before it has read the block. *)
LoadStackAnswers(c) ==
  /\ ap[c] = "booting" /\ Unlock
  /\ esp' = [esp EXCEPT ![c] = config.stack]
  /\ ap' = [ap EXCEPT ![c] = "waked"]
  /\ UNCHANGED <<config, pc, cpu, locked, state, present>>

(* waker.asm: mov esp, [CONFIG + config.stack]; call [CONFIG + config.entry] *)
LoadStack(c) ==
  /\ ap[c] = "booting"
  /\ esp' = [esp EXCEPT ![c] = config.stack]
  /\ ap' = [ap EXCEPT ![c] = "waked"]
  /\ UNCHANGED <<lock, config, pc, cpu, locked, state, present>>

(* Waked: assert(config->id == lapicGetID()) *)
CheckId(c) ==
  /\ ap[c] = "waked"
  /\ ap' = [ap EXCEPT ![c] = IF Debug /\ config.id # c THEN "asserted" ELSE "answering"]
  /\ UNCHANGED <<lock, config, pc, cpu, locked, esp, state, present>>

WakedUnlock(c) ==
  /\ ap[c] = "answering" /\ Unlock
  /\ ap' = [ap EXCEPT ![c] = "entry"]
  /\ UNCHANGED <<config, pc, cpu, locked, esp, state, present>>

(* InitAp: its two writes of cpu->state; then cpuStop. *)
InitAp(c) ==
  /\ ap[c] = "entry"
  /\ state' = [state EXCEPT ![c] = "CPU_INIT"]
  /\ ap' = [ap EXCEPT ![c] = "init"]
  /\ UNCHANGED <<lock, config, pc, cpu, locked, esp, present>>

InitApReady(c) ==
  /\ ap[c] = "init"
  /\ state' = [state EXCEPT ![c] = "CPU_READY"]
  /\ ap' = [ap EXCEPT ![c] = "ready"]
  /\ UNCHANGED <<lock, config, pc, cpu, locked, esp, present>>

Ap(c) == LoadStack(c) \/ CheckId(c) \/ WakedUnlock(c) \/ InitAp(c) \/ InitApReady(c)

Next == Bsp \/ \E c \in APs : Ap(c)

Spec == Init /\ [][Next]_vars

(* Every processor runs on its own: neither side stops for good unless it
   halts or spins.  WF of the whole BSP, so that Wait ends: by the lock or by
   its cycle counter. *)
FairSpec == Spec /\ WF_vars(Bsp) /\ \A c \in APs : WF_vars(Ap(c))

-----------------------------------------------------------------------------
(* Type invariant of the bring-up. *)
TypeOK ==
  /\ lock \in {"UNLOCKED", "LOCKED"}
  /\ config \in [id : 0 .. N, stack : 0 .. N]
  /\ pc \in {"loop", "lock", "id", "stack", "ipi", "wait", "unlock", "return"}
  /\ cpu \in 1 .. N + 1
  /\ pc # "loop" => cpu \in APs
  /\ locked \in BOOLEAN
  /\ ap \in [APs -> {"off", "asserted"} \cup InFlight \cup Answered]
  /\ esp \in [APs -> 0 .. N]
  /\ state \in [APs -> {"CPU_DISABLED", "CPU_STOPPED", "CPU_BOOTING", "CPU_INIT", "CPU_READY"}]
  /\ present \subseteq APs

(* No two processors ever run on the same stack. *)
NoSharedStack ==
  \A c, d \in APs : c # d /\ esp[c] # NoStack => esp[c] # esp[d]

(* The CpuConfig block is only rewritten while nobody depends on it: from the
   start-up message to the answer, the block describes the one AP under way. *)
ConfigIsForAp == \A c \in APs : ap[c] \in InFlight => config = [id |-> c, stack |-> c]

(* StartCpu returns true exactly for a processor that came up: its answer is
   not mistaken for another's. *)
ReturnIsTruth == pc = "return" => (locked <=> ap[cpu] \in Answered)

(* The assertion of CpuWaker.cpp:60. *)
IdAsserted == \A c \in APs : ap[c] # "asserted"

(* Startup gets through its list, whichever processors are dead, and in the
   end those that are ready are the enabled ones that are alive. *)
AllBroughtUp ==
  <>[](/\ cpu = N + 1
       /\ \A c \in APs :
            state[c] = "CPU_READY" <=> c \in present /\ state[c] # "CPU_DISABLED")

=============================================================================
