------------------------------- MODULE Devices ------------------------------
(***************************************************************************)
(* The device manager (kernel/DeviceManager.cpp) and the listeners that    *)
(* register further devices while it walks its lists: a cache for every    *)
(* drive that is not cached (CachedDrive.cpp), a file system for every     *)
(* drive that holds an initial RAM disk (InitrdFs.cpp).  A device is       *)
(* written [type, cached, initrd, on, id]; a call that is under way is a   *)
(* frame on the stack.  The listener of LogicalDrive.cpp registers without *)
(* end, each logical drive being as cached as the one below, and is left   *)
(* out.                                                                    *)
(***************************************************************************)
EXTENDS Integers, Sequences, SequencesExt, FiniteSetsExt

CONSTANTS Drives,    \* records of drives that main registers
          Listeners, \* "cached", "initrd"
          MaxDevices \* bound on what is ever registered

VARIABLES devices,    \* _devices
          listeners,  \* _listeners
          stack,      \* calls under way, innermost first: [walk, subject, next]
          told,       \* history: who was told of what, in order
          gone        \* history: devices deleted

vars == <<devices, listeners, stack, told, gone>>

Init == devices = <<>> /\ listeners = <<>> /\ stack = <<>> /\ told = <<>> /\ gone = {}

Idle == stack = <<>>
Everything == ToSet(devices) \cup gone
Below(device) == {d \in Everything : d.on = device.id}

Cache(drive) ==
  [type |-> "drive", cached |-> TRUE, initrd |-> drive.initrd, on |-> drive.id,
   id |-> <<"cached">> \o drive.id]
FileSystem(drive) ==
  [type |-> "filesystem", cached |-> FALSE, initrd |-> FALSE, on |-> drive.id,
   id |-> <<"initrd">> \o drive.id]

(* OnDriverRegistered: what the listener registers in turn. *)
Registers(listener, device) ==
  IF device.type # "drive" THEN {}
  ELSE IF listener = "cached" /\ ~device.cached THEN {Cache(device)}
  ELSE IF listener = "initrd" /\ device.initrd THEN {FileSystem(device)}
  ELSE {}

(* Mutant: the listeners are not called from within a call. *)
CallListenersOnce(device, below) ==
  IF below # <<>> THEN below ELSE <<[walk |-> "listeners", subject |-> device, next |-> 1]>>

(* The loop of RegisterDevice, entered on top of the calls under way. *)
CallListeners(device, below) ==
  <<[walk |-> "listeners", subject |-> device, next |-> 1]>> \o below

GetFileSystems == SelectSeq(devices, LAMBDA d : d.type = "filesystem")

-----------------------------------------------------------------------------
RegisterDevice ==
  /\ Idle
  /\ Cardinality(Everything) < MaxDevices
  /\ \E drive \in Drives \ Everything :
       /\ devices' = Append(devices, drive)
       /\ stack' = CallListeners(drive, stack)
  /\ UNCHANGED <<listeners, told, gone>>

RegisterListener ==
  /\ Idle
  /\ \E l \in Listeners \ (ToSet(listeners) \cup {t.listener : t \in ToSet(told)}) :
       /\ listeners' = Append(listeners, l)
       /\ stack' = <<[walk |-> "devices", subject |-> l, next |-> 1]>>
  /\ UNCHANGED <<devices, told, gone>>

(* One step of the loop of the innermost call: a listener is told of a device,
   and registers a device of its own if it likes. *)
Tell ==
  /\ ~Idle
  /\ LET frame == Head(stack)
         list == IF frame.walk = "listeners" THEN listeners ELSE devices
         here == <<[frame EXCEPT !.next = @ + 1]>> \o Tail(stack)
     IN  /\ frame.next <= Len(list)
         /\ LET listener == IF frame.walk = "listeners" THEN list[frame.next] ELSE frame.subject
                device == IF frame.walk = "listeners" THEN frame.subject ELSE list[frame.next]
                new == Registers(listener, device)
            IN  /\ told' = Append(told, [listener |-> listener, device |-> device])
                /\ IF new = {} THEN stack' = here /\ UNCHANGED devices
                   ELSE \E d \in new :
                          /\ devices' = Append(devices, d)
                          /\ stack' = CallListeners(d, here)
  /\ UNCHANGED <<listeners, gone>>

Return ==
  /\ ~Idle
  /\ Head(stack).next > Len(IF Head(stack).walk = "listeners" THEN listeners ELSE devices)
  /\ stack' = Tail(stack)
  /\ UNCHANGED <<devices, listeners, told, gone>>

(* A device is deleted, whose destructor takes it off the list; its owner takes
   care to delete what lies on top of it before. *)
DeleteDevice ==
  /\ Idle
  /\ \E i \in DOMAIN devices :
       /\ Below(devices[i]) \subseteq gone
       /\ gone' = gone \cup {devices[i]}
       /\ devices' = RemoveAt(devices, i)
  /\ UNCHANGED <<listeners, stack, told>>

UnregisterListener ==
  /\ Idle
  /\ \E i \in DOMAIN listeners :
       listeners' = RemoveAt(listeners, i)
  /\ UNCHANGED <<devices, stack, told, gone>>

Next == RegisterDevice \/ RegisterListener \/ Tell \/ Return \/ DeleteDevice \/ UnregisterListener

Spec == Init /\ [][Next]_vars

-----------------------------------------------------------------------------
Times(l, d) == Cardinality({i \in DOMAIN told : told[i] = [listener |-> l, device |-> d]})

(* Whatever listeners register from within a call, once all calls have returned
   every listener has been told of every device: twice at most, if the device
   was registered while the listener was told of those before it.  Neither
   gives a drive a second cache or a second file system, and none goes without;
   all file systems are found. *)
ToldOnceOrTwice ==
  /\ IsInjective(devices)
  /\ \A l \in ToSet(listeners), d \in ToSet(devices) :
       /\ Times(l, d) \in 1 .. 2
       /\ Registers(l, d) \subseteq Everything
  /\ \A d \in ToSet(devices) : d.on = <<>> => \A l \in ToSet(listeners) : Times(l, d) = 1

EveryoneTold ==
  Idle =>
    /\ ToldOnceOrTwice
    /\ \A d \in ToSet(devices) : d.type = "filesystem" <=> d \in ToSet(GetFileSystems)

=============================================================================
