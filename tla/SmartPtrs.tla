----------------------------- MODULE SmartPtrs ------------------------------
(***************************************************************************)
(* SmartPtr (include/std/SmartPtr.h): pointers to data that counts them.   *)
(* The files a file system finds are handed about in them (VirtualFs.h).   *)
(* The assignment operator takes the data, not a pointer, so that          *)
(* assigning one pointer to another copies the address uncounted; nobody   *)
(* in the kernel does, and it is left out.                                 *)
(***************************************************************************)
EXTENDS Integers, FiniteSets

CONSTANTS Pointers,  \* SmartPtr objects
          Data,      \* objects derived from SmartPtrData
          NULL,      \* points to no data
          None       \* no object there

VARIABLES mData,     \* of every pointer, or None
          mRefCount, \* of every datum
          alive,     \* data not deleted
          SmartPtrGlobalCounter

vars == <<mData, mRefCount, alive, SmartPtrGlobalCounter>>

Init ==
  /\ mData = [p \in Pointers |-> None]
  /\ mRefCount = [d \in Data |-> 0]
  /\ alive = {}
  /\ SmartPtrGlobalCounter = 0

Accept(d) ==
  IF d = NULL THEN UNCHANGED <<mRefCount, SmartPtrGlobalCounter>>
  ELSE /\ mRefCount' = [mRefCount EXCEPT ![d] = @ + 1]
       /\ SmartPtrGlobalCounter' = SmartPtrGlobalCounter + 1

(* A pointer to new data, to data others point to already, or to none. *)
Construct(p, d) ==
  /\ mData[p] = None
  /\ mData' = [mData EXCEPT ![p] = d]
  /\ alive' = alive \cup ({d} \ {NULL})
  /\ Accept(d)

Copy(p, q) ==
  /\ mData[p] = None /\ mData[q] # None
  /\ mData' = [mData EXCEPT ![p] = mData[q]]
  /\ Accept(mData[q])
  /\ UNCHANGED alive

Destroy(p) ==
  /\ mData[p] # None
  /\ mData' = [mData EXCEPT ![p] = None]
  /\ IF mData[p] = NULL THEN UNCHANGED <<mRefCount, alive, SmartPtrGlobalCounter>>
     ELSE /\ mRefCount' = [mRefCount EXCEPT ![mData[p]] = @ - 1]
          /\ alive' = IF mRefCount'[mData[p]] = 0 THEN alive \ {mData[p]} ELSE alive
          /\ SmartPtrGlobalCounter' = SmartPtrGlobalCounter - 1

Next ==
  \E p, q \in Pointers :
    \/ \E d \in Data \cup {NULL} : Construct(p, d)
    \/ Copy(p, q)
    \/ Destroy(p)

Spec == Init /\ [][Next]_vars

-----------------------------------------------------------------------------
(* Data lives exactly as long as something points to it, and the debug build's
   global counter counts the pointers there are. *)
AliveIffPointedTo ==
  /\ alive = {mData[p] : p \in Pointers} \ {NULL, None}
  /\ SmartPtrGlobalCounter = Cardinality({p \in Pointers : mData[p] \notin {NULL, None}})

=============================================================================
