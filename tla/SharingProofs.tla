--------------------------- MODULE SharingProofs ---------------------------
(***************************************************************************)
(* Shared data is counted right: the data of class String, shared without  *)
(* anybody noticing, and the data SmartPtr counts, which lives exactly as  *)
(* long as something points to it; for any number of objects.              *)
(***************************************************************************)
EXTENDS Strings, FiniteSetTheorems, TLAPS

CONSTANTS Pointers, Targets, NULL   \* SmartPtrs: pointers, data, no data

VARIABLES mData, mRefCount, alive, SmartPtrGlobalCounter   \* SmartPtrs

Ptr == INSTANCE SmartPtrs WITH Data <- Targets

-----------------------------------------------------------------------------
(* Counting who refers to what                                             *)

(* Those of S whom f refers to x. *)
Users(S, f, x) == {v \in S : f[v] = x}

(* Whether v does, as a number. *)
Refers(f, v, x) == IF x = f[v] THEN 1 ELSE 0

(* A count is a number: not zero for what somebody refers to, and only for that,
   and at least two for what two refer to. *)
LEMMA UsersCounted ==
  ASSUME NEW S, IsFiniteSet(S), NEW f, NEW x
  PROVE  /\ IsFiniteSet(Users(S, f, x)) /\ Cardinality(Users(S, f, x)) \in Nat
         /\ \A v \in S : f[v] = x => Cardinality(Users(S, f, x)) >= 1
         /\ Cardinality(Users(S, f, x)) # 0 => \E v \in S : f[v] = x
         /\ \A u, v \in S : u # v /\ f[u] = x /\ f[v] = x => Cardinality(Users(S, f, x)) >= 2
  <1> DEFINE U == Users(S, f, x)
  <1>1. U \in SUBSET S
    BY DEF Users
  <1>2. IsFiniteSet(U) /\ Cardinality(U) \in Nat
    BY <1>1, FS_Subset, FS_CardinalityType
  <1>3. ASSUME NEW v \in S, f[v] = x PROVE Cardinality(U) >= 1
    <2>1. U # {}
      BY <1>3 DEF Users
    <2>2. Cardinality(U) # 0
      BY <2>1, <1>2, FS_EmptySet
    <2>3. QED
      BY <2>2, <1>2
  <1>4. ASSUME NEW u \in S, NEW v \in S, u # v, f[u] = x, f[v] = x PROVE Cardinality(U) >= 2
    <2>1. u \in U /\ v \in U
      BY <1>4 DEF Users
    <2>2. ~ \E w : U = {w}
      BY <2>1, <1>4
    <2>3. Cardinality(U) # 1
      BY <2>2, <1>2, FS_Singleton
    <2>4. Cardinality(U) >= 1
      BY <1>3, <1>4
    <2>5. QED
      BY <2>3, <2>4, <1>2
  <1>5. ASSUME Cardinality(U) # 0 PROVE \E v \in S : f[v] = x
    <2>1. U # {}
      BY <1>5, FS_EmptySet
    <2>2. QED
      BY <2>1 DEF Users
  <1>6. QED
    BY <1>2, <1>3, <1>4, <1>5

(* When one of them is made to refer to something else, that gains one user and
   what it referred to before loses one. *)
LEMMA UsersMoved ==
  ASSUME NEW S, IsFiniteSet(S), NEW f, NEW g, NEW v \in S, NEW x,
         \A u \in S \ {v} : g[u] = f[u]
  PROVE  Cardinality(Users(S, g, x)) =
           Cardinality(Users(S, f, x)) + Refers(g, v, x) - Refers(f, v, x)
  <1> DEFINE U == Users(S, f, x)
             r == g[v]
             W == Users(S, g, x)
  <1>1. IsFiniteSet(U) /\ Cardinality(U) \in Nat
    BY UsersCounted
  <1>2. g[v] = r /\ \A u \in S \ {v} : g[u] = f[u]
    OBVIOUS
  <1>3. CASE x = r /\ x = f[v]
    <2>1. W = U
      BY <1>2, <1>3 DEF Users
    <2>2. QED
      BY <2>1, <1>1, <1>3 DEF Refers
  <1>4. CASE x = r /\ x # f[v]
    <2>1. W = U \cup {v} /\ v \notin U
      BY <1>2, <1>4 DEF Users
    <2>2. Cardinality(W) = Cardinality(U) + 1
      BY <2>1, <1>1, FS_AddElement
    <2>3. QED
      BY <2>2, <1>1, <1>4 DEF Refers
  <1>5. CASE x # r /\ x = f[v]
    <2>1. W = U \ {v} /\ v \in U
      BY <1>2, <1>5 DEF Users
    <2>2. Cardinality(W) = Cardinality(U) - 1
      BY <2>1, <1>1, FS_RemoveElement
    <2>3. QED
      BY <2>2, <1>1, <1>5 DEF Refers
  <1>6. CASE x # r /\ x # f[v]
    <2>1. W = U
      BY <1>2, <1>6 DEF Users
    <2>2. QED
      BY <2>1, <1>1, <1>6 DEF Refers
  <1>7. QED
    BY <1>3, <1>4, <1>5, <1>6

-----------------------------------------------------------------------------
(* String                                                                  *)

(* There are finitely many objects; texts are sequences of characters; the static
   datum is not at an address malloc returns, and None is neither address nor text. *)
Premise ==
  /\ IsFiniteSet(Vars)
  /\ Texts \in SUBSET Seq(Int)
  /\ EMPTY \notin Addrs
  /\ None \notin Addrs \cup {EMPTY} \cup Seq(Int)

All  == Addrs \cup {EMPTY}
Data == [refcount : Int, text : Seq(Int), closed : BOOLEAN]

(* References nobody holds. *)
Extra(a) == IF a = EMPTY THEN 1 ELSE 0

(* The inductive invariant: every count is the number of objects, the static
   datum stays empty, and every terminator is there that should be. *)
IInv ==
  /\ mRefData \in [Vars -> All \cup {None}]
  /\ heap \in [All -> Data]
  /\ \A a \in All : heap[a].refcount = Cardinality(Users(Vars, mRefData, a)) + Extra(a)
  /\ heap[EMPTY].text = <<>> /\ heap[EMPTY].closed
  /\ ~selfAppended => \A a \in All : heap[a].closed

(* What Up does to the datum at each address. *)
LEMMA UpDoes ==
  ASSUME NEW h \in [All -> Data], NEW a \in All
  PROVE  /\ Up(h, a) \in [All -> Data]
         /\ \A b \in All : /\ Up(h, a)[b].refcount = h[b].refcount + (IF b = a THEN 1 ELSE 0)
                           /\ Up(h, a)[b].text = h[b].text
                           /\ Up(h, a)[b].closed = h[b].closed
  <1> DEFINE d == [h[a] EXCEPT !.refcount = @ + 1]
  <1>1. /\ d \in Data /\ d.refcount = h[a].refcount + 1
        /\ d.text = h[a].text /\ d.closed = h[a].closed
    <2>1. h[a] \in Data
      OBVIOUS
    <2>2. QED
      BY <2>1, SMTT(30) DEF Data
  <1>2. \A b \in All : h[b] \in Data /\ h[b].refcount \in Int
    BY DEF Data
  <1>3. Up(h, a) = [h EXCEPT ![a] = d]
    BY DEF Up
  <1> HIDE DEF d
  <1>4. Up(h, a) \in [All -> Data] /\ Up(h, a)[a] = d /\ \A b \in All \ {a} : Up(h, a)[b] = h[b]
    BY <1>1, <1>3
  <1>5. QED
    BY <1>1, <1>2, <1>4

(* What Down does: the text goes with the last reference only. *)
LEMMA DownDoes ==
  ASSUME NEW h \in [All -> Data], NEW a \in All
  PROVE  /\ Down(h, a) \in [All -> Data]
         /\ \A b \in All : /\ Down(h, a)[b].refcount = h[b].refcount - (IF b = a THEN 1 ELSE 0)
                           /\ b # a \/ h[b].refcount # 1 => /\ Down(h, a)[b].text = h[b].text
                                                            /\ Down(h, a)[b].closed = h[b].closed
                           /\ h[b].closed => Down(h, a)[b].closed
  <1> DEFINE d == IF h[a].refcount = 1 THEN Datum(0, <<>>) ELSE [h[a] EXCEPT !.refcount = h[a].refcount - 1]
  <1>1. /\ d \in Data /\ d.refcount = h[a].refcount - 1
        /\ h[a].refcount # 1 => d.text = h[a].text /\ d.closed = h[a].closed
        /\ h[a].closed => d.closed
    <2>1. h[a] \in Data /\ h[a].refcount \in Int
      BY DEF Data
    <2>2. Datum(0, <<>>) \in Data /\ Datum(0, <<>>).refcount = 0 /\ Datum(0, <<>>).closed
      BY DEF Datum, Data
    <2>3. CASE h[a].refcount = 1
      BY <2>2, <2>3
    <2>4. CASE h[a].refcount # 1
      BY <2>1, <2>4 DEF Data
    <2>5. QED
      BY <2>3, <2>4
  <1>2. \A b \in All : h[b] \in Data /\ h[b].refcount \in Int
    BY DEF Data
  <1>3. Down(h, a) = [h EXCEPT ![a] = d]
    BY DEF Down
  <1> HIDE DEF d
  <1>4. Down(h, a) \in [All -> Data] /\ Down(h, a)[a] = d /\ \A b \in All \ {a} : Down(h, a)[b] = h[b]
    BY <1>1, <1>3
  <1>5. QED
    BY <1>1, <1>2, <1>4

(* The counts tell who has a datum to himself. *)
LEMMA CountsTell ==
  ASSUME Premise, IInv
  PROVE  /\ \A a \in All : heap[a].refcount \in Nat
         /\ \A v \in Vars : Live(v) => mRefData[v] \in All /\ heap[mRefData[v]].refcount >= 1
         /\ \A v \in Vars : mRefData[v] = EMPTY => heap[EMPTY].refcount >= 2
         /\ \A v, w \in Vars : v # w /\ Live(v) /\ mRefData[v] = mRefData[w] =>
                                 heap[mRefData[v]].refcount >= 2
  <1>1. ASSUME NEW a \in All
        PROVE  /\ heap[a].refcount \in Nat
               /\ \A v \in Vars : mRefData[v] = a => heap[a].refcount >= 1 + Extra(a)
               /\ \A v, w \in Vars : v # w /\ mRefData[v] = a /\ mRefData[w] = a =>
                                       heap[a].refcount >= 2
    <2> DEFINE n == Cardinality(Users(Vars, mRefData, a))
    <2>1. IsFiniteSet(Vars) /\ heap[a].refcount = n + Extra(a) /\ Extra(a) \in {0, 1}
      BY DEF Premise, IInv, Extra
    <2>2. /\ n \in Nat
          /\ \A v \in Vars : mRefData[v] = a => n >= 1
          /\ \A v, w \in Vars : v # w /\ mRefData[v] = a /\ mRefData[w] = a => n >= 2
      BY <2>1, UsersCounted
    <2> HIDE DEF n
    <2>3. QED
      BY <2>1, <2>2
  <1>2. \A v \in Vars : Live(v) => mRefData[v] \in All
    BY DEF IInv, Live
  <1>3. Extra(EMPTY) = 1 /\ EMPTY \in All /\ \A a \in All : Extra(a) \in {0, 1}
    BY DEF Extra, All
  <1>4. \A v \in Vars : Live(v) => heap[mRefData[v]].refcount >= 1
    BY <1>1, <1>2, <1>3
  <1>5. \A v \in Vars : mRefData[v] = EMPTY => heap[EMPTY].refcount >= 2
    BY <1>1, <1>3
  <1>6. QED
    BY <1>1, <1>2, <1>4, <1>5

(* At first there are no objects, and nothing is referred to. *)
LEMMA StringsInit == ASSUME Premise, Init PROVE IInv
  <1>1. \A a \in All : Users(Vars, mRefData, a) = {}
    BY DEF Init, Users, Premise, All
  <1>2. \A a \in All : Cardinality(Users(Vars, mRefData, a)) = 0
    BY <1>1, FS_EmptySet
  <1>3. heap = [a \in All |-> [refcount |-> Extra(a), text |-> <<>>, closed |-> TRUE]]
    BY DEF Init, Datum, Extra, All
  <1>4. EMPTY \in All /\ \A a \in All : Extra(a) \in Int
    BY DEF Extra, All
  <1>5. heap \in [All -> Data]
    <2>1. \A a \in All : [refcount |-> Extra(a), text |-> <<>>, closed |-> TRUE] \in Data
      BY <1>4 DEF Data
    <2>2. QED
      BY <1>3, <2>1
  <1>6. \A a \in All : heap[a].refcount = Cardinality(Users(Vars, mRefData, a)) + Extra(a)
    BY <1>2, <1>3, <1>4
  <1>7. heap[EMPTY].text = <<>> /\ heap[EMPTY].closed /\ \A a \in All : heap[a].closed
    BY <1>3, <1>4
  <1>8. mRefData \in [Vars -> All \cup {None}]
    BY DEF Init
  <1>9. QED
    BY <1>5, <1>6, <1>7, <1>8 DEF IInv

(* v comes to refer to r and to have the value t, the counts are kept, and what is
   not v keeps its text. *)
Changes(v, r, t) ==
  /\ mRefData' = [mRefData EXCEPT ![v] = r]
  /\ heap' \in [All -> Data]
  /\ \A a \in All : heap'[a].refcount =
       heap[a].refcount + (IF a = r THEN 1 ELSE 0) - (IF a = mRefData[v] THEN 1 ELSE 0)
  /\ heap'[EMPTY].text = <<>> /\ heap'[EMPTY].closed
  /\ ~selfAppended' => \A a \in All : heap'[a].closed
  /\ \A w \in Vars \ {v} : Live(w) => heap'[mRefData[w]].text = heap[mRefData[w]].text
  /\ IF r = None THEN t = None ELSE heap'[r].text = t

(* A step that does so keeps the invariant. *)
LEMMA ChangesKeep ==
  ASSUME Premise, IInv, NEW v \in Vars, NEW r \in All \cup {None}, NEW t,
         Changes(v, r, t)
  PROVE  IInv'
  <1>1. /\ mRefData \in [Vars -> All \cup {None}] /\ IsFiniteSet(Vars)
        /\ mRefData' = [mRefData EXCEPT ![v] = r]
    BY DEF IInv, Premise, Changes
  <1>2. /\ mRefData' \in [Vars -> All \cup {None}]
        /\ mRefData'[v] = r /\ \A w \in Vars \ {v} : mRefData'[w] = mRefData[w]
    BY <1>1
  <1>3. ASSUME NEW a \in All
        PROVE  heap'[a].refcount = Cardinality(Users(Vars, mRefData', a)) + Extra(a)
    <2>1. Cardinality(Users(Vars, mRefData', a)) = Cardinality(Users(Vars, mRefData, a))
            + Refers(mRefData', v, a) - Refers(mRefData, v, a)
      <3>1. IsFiniteSet(Vars) /\ \A w \in Vars \ {v} : mRefData'[w] = mRefData[w]
        BY <1>1, <1>2
      <3>2. QED
        BY <3>1, UsersMoved
    <2>2. /\ heap[a].refcount = Cardinality(Users(Vars, mRefData, a)) + Extra(a)
          /\ Cardinality(Users(Vars, mRefData, a)) \in Nat /\ Extra(a) \in Int
      BY <1>1, UsersCounted DEF IInv, Extra
    <2>3. heap'[a].refcount =
            heap[a].refcount + Refers(mRefData', v, a) - Refers(mRefData, v, a)
      BY <1>2 DEF Changes, Refers
    <2>4. QED
      BY <2>1, <2>2, <2>3 DEF Refers
  <1>4. QED
    BY <1>2, <1>3 DEF IInv, Changes

(* v comes to refer to something whose text is t. *)
Becomes(v, t) == \E r \in All : Changes(v, r, t)

(* Every action changes one object as its value should change, and keeps the rest. *)
LEMMA StringsStep ==
  ASSUME Premise, IInv, Next
  PROVE  \E v \in Vars :
           \/ ~Live(v) /\ \E s \in Texts : Becomes(v, s)
           \/ ~Live(v) /\ \E w \in Vars : Live(w) /\ Becomes(v, Text(w))
           \/ Live(v) /\ Changes(v, None, None)
           \/ Live(v) /\ \E w \in Vars : Live(w) /\ Becomes(v, Text(w))
           \/ Live(v) /\ \E w \in Vars : Live(w) /\ Becomes(v, Text(v) \o Text(w))
  <1> DEFINE Closed(h) == \A a \in All : h[a].closed
  <1>0. /\ heap \in [All -> Data] /\ EMPTY \in All
        /\ heap[EMPTY].text = <<>> /\ heap[EMPTY].closed
        /\ ~selfAppended => Closed(heap)
        /\ Addrs \subseteq All /\ EMPTY \notin Addrs /\ None \notin All
    BY DEF IInv, All, Premise
  <1>c. /\ \A a \in All : heap[a].refcount \in Nat
        /\ \A v \in Vars : Live(v) => mRefData[v] \in All /\ heap[mRefData[v]].refcount >= 1
        /\ \A v \in Vars : mRefData[v] = EMPTY => heap[EMPTY].refcount >= 2
        /\ \A v, w \in Vars : v # w /\ Live(v) /\ mRefData[v] = mRefData[w] =>
                                heap[mRefData[v]].refcount >= 2
    BY CountsTell
  <1>d. ASSUME NEW v \in Vars, Live(v)
        PROVE  LET h == Down(heap, mRefData[v]) IN
               /\ h \in [All -> Data] /\ h[EMPTY].text = <<>> /\ h[EMPTY].closed
               /\ ~selfAppended => Closed(h)
               /\ \A a \in All : h[a].refcount = heap[a].refcount - (IF a = mRefData[v] THEN 1 ELSE 0)
               /\ \A u \in Vars \ {v} : Live(u) => h[mRefData[u]].text = heap[mRefData[u]].text
    <2> DEFINE h == Down(heap, mRefData[v])
    <2>1. mRefData[v] \in All
      BY <1>c, <1>d
    <2>2. /\ h \in [All -> Data]
          /\ \A b \in All : /\ h[b].refcount = heap[b].refcount - (IF b = mRefData[v] THEN 1 ELSE 0)
                            /\ b # mRefData[v] \/ heap[b].refcount # 1 =>
                                 h[b].text = heap[b].text /\ h[b].closed = heap[b].closed
                            /\ heap[b].closed => h[b].closed
      BY <1>0, <2>1, DownDoes
    <2> HIDE DEF h
    <2>3. h[EMPTY].text = <<>> /\ h[EMPTY].closed
      BY <1>0, <1>c, <1>d, <2>2
    <2>4. ~selfAppended => Closed(h)
      BY <1>0, <2>2
    <2>5. \A u \in Vars \ {v} : Live(u) => h[mRefData[u]].text = heap[mRefData[u]].text
      BY <1>c, <1>d, <2>2
    <2>6. QED
      BY <2>2, <2>3, <2>4, <2>5 DEF h
  <1>u. ASSUME NEW h \in [All -> Data], h[EMPTY].text = <<>>, h[EMPTY].closed,
               ~selfAppended' => Closed(h), NEW a \in All, heap' = Up(h, a)
        PROVE  /\ heap' \in [All -> Data] /\ heap'[EMPTY].text = <<>> /\ heap'[EMPTY].closed
               /\ ~selfAppended' => \A b \in All : heap'[b].closed
               /\ \A b \in All : heap'[b].text = h[b].text
               /\ \A b \in All : heap'[b].refcount = h[b].refcount + (IF b = a THEN 1 ELSE 0)
    <2>1. /\ heap' \in [All -> Data]
          /\ \A b \in All : /\ heap'[b].refcount = h[b].refcount + (IF b = a THEN 1 ELSE 0)
                            /\ heap'[b].text = h[b].text /\ heap'[b].closed = h[b].closed
      BY <1>u, UpDoes
    <2>2. QED
      BY <1>0, <1>u, <2>1
  <1>1. ASSUME NEW v \in Vars, NEW s \in Texts, Construct(v, s)
        PROVE  ~Live(v) /\ Becomes(v, s)
    <2>1. CASE s = <<>>
      <3>1. /\ heap' = Up(heap, EMPTY) /\ mRefData' = [mRefData EXCEPT ![v] = EMPTY]
            /\ mRefData[v] = None /\ selfAppended' = selfAppended
        BY <1>1, <2>1 DEF Construct, Live
      <3>2. /\ heap' \in [All -> Data] /\ heap'[EMPTY].text = <<>> /\ heap'[EMPTY].closed
            /\ ~selfAppended' => \A b \in All : heap'[b].closed
            /\ \A b \in All : heap'[b].text = heap[b].text
            /\ \A b \in All : heap'[b].refcount = heap[b].refcount + (IF b = EMPTY THEN 1 ELSE 0)
        BY <1>0, <1>u, <3>1
      <3>3. \A a \in All : heap'[a].refcount =
              heap[a].refcount + (IF a = EMPTY THEN 1 ELSE 0) - (IF a = mRefData[v] THEN 1 ELSE 0)
        BY <1>0, <1>c, <3>1, <3>2
      <3>4. \A u \in Vars \ {v} : Live(u) => heap'[mRefData[u]].text = heap[mRefData[u]].text
        BY <1>c, <3>2
      <3>5. Changes(v, EMPTY, s)
        BY <1>0, <2>1, <3>1, <3>2, <3>3, <3>4 DEF Changes
      <3>6. QED
        BY <1>0, <3>1, <3>5 DEF Live, Becomes
    <2>2. CASE s # <<>>
      <3>1. PICK a \in Addrs : /\ a # EMPTY /\ heap[a].refcount = 0
                               /\ mRefData' = [mRefData EXCEPT ![v] = a]
                               /\ heap' = [heap EXCEPT ![a] = Datum(1, s)]
        BY <1>1, <2>2 DEF Construct, Unused
      <3>2. mRefData[v] = None /\ selfAppended' = selfAppended
        BY <1>1 DEF Construct, Live
      <3>3. /\ Datum(1, s) \in Data /\ Datum(1, s).refcount = 1
            /\ Datum(1, s).text = s /\ Datum(1, s).closed
        BY DEF Datum, Data, Premise
      <3>4. /\ heap' \in [All -> Data] /\ heap'[a] = Datum(1, s)
            /\ \A b \in All \ {a} : heap'[b] = heap[b]
        BY <1>0, <3>1, <3>3
      <3>5. Changes(v, a, s)
        BY <1>0, <1>c, <3>1, <3>2, <3>3, <3>4 DEF Changes
      <3>6. QED
        BY <1>0, <3>2, <3>5 DEF Live, Becomes
    <2>3. QED
      BY <2>1, <2>2
  <1>2. ASSUME NEW v \in Vars, NEW w \in Vars, CopyConstruct(v, w)
        PROVE  ~Live(v) /\ Live(w) /\ Becomes(v, Text(w))
    <2>1. /\ heap' = Up(heap, mRefData[w]) /\ mRefData' = [mRefData EXCEPT ![v] = mRefData[w]]
          /\ mRefData[v] = None /\ selfAppended' = selfAppended /\ mRefData[w] \in All
      BY <1>2, <1>c DEF CopyConstruct, Live
    <2>2. Changes(v, mRefData[w], Text(w))
      <3>1. /\ heap' \in [All -> Data] /\ heap'[EMPTY].text = <<>> /\ heap'[EMPTY].closed
            /\ ~selfAppended' => \A a \in All : heap'[a].closed
            /\ \A a \in All : heap'[a].text = heap[a].text
            /\ \A a \in All : heap'[a].refcount = heap[a].refcount + (IF a = mRefData[w] THEN 1 ELSE 0)
        BY <1>0, <1>u, <2>1
      <3>2. \A a \in All : heap'[a].refcount =
              heap[a].refcount + (IF a = mRefData[w] THEN 1 ELSE 0) - (IF a = mRefData[v] THEN 1 ELSE 0)
        BY <1>0, <1>c, <2>1, <3>1
      <3>3. \A u \in Vars \ {v} : Live(u) => heap'[mRefData[u]].text = heap[mRefData[u]].text
        BY <1>c, <2>1, <3>1
      <3>4. QED
        BY <1>0, <2>1, <3>1, <3>2, <3>3 DEF Changes, Text, Ref
    <2>3. QED
      BY <1>2, <2>1, <2>2 DEF CopyConstruct, Becomes
  <1>3. ASSUME NEW v \in Vars, Destroy(v) PROVE Live(v) /\ Changes(v, None, None)
    <2>1. /\ heap' = Down(heap, mRefData[v]) /\ mRefData' = [mRefData EXCEPT ![v] = None]
          /\ Live(v) /\ selfAppended' = selfAppended /\ mRefData[v] \in All
      BY <1>3, <1>c DEF Destroy
    <2>2. QED
      <3>1. /\ heap' \in [All -> Data] /\ heap'[EMPTY].text = <<>> /\ heap'[EMPTY].closed
            /\ ~selfAppended' => \A a \in All : heap'[a].closed
            /\ \A a \in All : heap'[a].refcount = heap[a].refcount - (IF a = mRefData[v] THEN 1 ELSE 0)
            /\ \A u \in Vars \ {v} : Live(u) => heap'[mRefData[u]].text = heap[mRefData[u]].text
        BY <1>d, <2>1
      <3>2. \A a \in All : heap'[a].refcount =
              heap[a].refcount + (IF a = None THEN 1 ELSE 0) - (IF a = mRefData[v] THEN 1 ELSE 0)
        BY <1>0, <1>c, <3>1
      <3>3. QED
        BY <2>1, <3>1, <3>2 DEF Changes
  <1>4. ASSUME NEW v \in Vars, NEW w \in Vars, Assign(v, w)
        PROVE  Live(v) /\ Live(w) /\ Becomes(v, Text(w))
    <2> DEFINE h == Down(heap, mRefData[v])
    <2>1. /\ heap' = Up(h, mRefData[w]) /\ mRefData' = [mRefData EXCEPT ![v] = mRefData[w]]
          /\ Live(v) /\ v # w /\ selfAppended' = selfAppended
          /\ mRefData[v] \in All /\ mRefData[w] \in All
      BY <1>4, <1>c DEF Assign
    <2>2. /\ h \in [All -> Data] /\ h[EMPTY].text = <<>> /\ h[EMPTY].closed
          /\ ~selfAppended => Closed(h)
          /\ \A a \in All : h[a].refcount = heap[a].refcount - (IF a = mRefData[v] THEN 1 ELSE 0)
          /\ \A u \in Vars \ {v} : Live(u) => h[mRefData[u]].text = heap[mRefData[u]].text
      BY <1>d, <2>1
    <2> HIDE DEF h
    <2>3. Changes(v, mRefData[w], Text(w))
      <3>1. /\ heap' \in [All -> Data] /\ heap'[EMPTY].text = <<>> /\ heap'[EMPTY].closed
            /\ ~selfAppended' => \A a \in All : heap'[a].closed
            /\ \A a \in All : heap'[a].text = h[a].text
            /\ \A a \in All : heap'[a].refcount = h[a].refcount + (IF a = mRefData[w] THEN 1 ELSE 0)
        BY <1>u, <2>1, <2>2
      <3>2. \A a \in All : heap'[a].refcount =
              heap[a].refcount + (IF a = mRefData[w] THEN 1 ELSE 0) - (IF a = mRefData[v] THEN 1 ELSE 0)
        BY <1>0, <1>c, <2>1, <2>2, <3>1
      <3>3. \A u \in Vars \ {v} : Live(u) => heap'[mRefData[u]].text = heap[mRefData[u]].text
        BY <1>c, <2>1, <2>2, <3>1
      <3>4. QED
        BY <1>0, <1>4, <2>1, <2>2, <3>1, <3>2, <3>3 DEF Changes, Text, Ref, Assign, Live
    <2>4. QED
      BY <1>4, <2>1, <2>3 DEF Assign, Becomes
  <1>e. ASSUME NEW v \in Vars, Live(v), NEW a \in Addrs, NEW d \in Data,
               Unused(a) \/ (Ref(v).refcount = 1 /\ a = mRefData[v]), d.refcount = 1,
               mRefData' = [mRefData EXCEPT ![v] = a],
               heap' = [Down(heap, mRefData[v]) EXCEPT ![a] = d],
               ~selfAppended' => ~selfAppended /\ d.closed
        PROVE  Changes(v, a, d.text)
    <2> DEFINE h == Down(heap, mRefData[v])
    <2>1. /\ h \in [All -> Data] /\ h[EMPTY].text = <<>> /\ h[EMPTY].closed
          /\ ~selfAppended => Closed(h)
          /\ \A b \in All : h[b].refcount = heap[b].refcount - (IF b = mRefData[v] THEN 1 ELSE 0)
          /\ \A u \in Vars \ {v} : Live(u) => h[mRefData[u]].text = heap[mRefData[u]].text
      BY <1>d, <1>e
    <2>2. heap' = [h EXCEPT ![a] = d]
      BY <1>e
    <2> HIDE DEF h
    <2>3. heap' \in [All -> Data] /\ heap'[a] = d /\ \A b \in All \ {a} : heap'[b] = h[b]
      BY <1>0, <2>1, <2>2
    <2>4. heap'[EMPTY].text = <<>> /\ heap'[EMPTY].closed
      BY <1>0, <2>1, <2>3
    <2>5. ~selfAppended' => \A b \in All : heap'[b].closed
      BY <1>e, <2>1, <2>3
    <2>6. heap[a].refcount = (IF a = mRefData[v] THEN 1 ELSE 0)
      BY <1>c, <1>e DEF Unused, Ref
    <2>7. \A b \in All : heap'[b].refcount =
            heap[b].refcount + (IF b = a THEN 1 ELSE 0) - (IF b = mRefData[v] THEN 1 ELSE 0)
      BY <1>c, <1>e, <2>1, <2>3, <2>6
    <2>8. \A u \in Vars \ {v} : Live(u) => mRefData[u] # a
      BY <1>0, <1>c, <1>e DEF Unused, Ref
    <2>9. \A u \in Vars \ {v} : Live(u) => heap'[mRefData[u]].text = heap[mRefData[u]].text
      BY <1>c, <2>1, <2>3, <2>8
    <2>10. QED
      BY <1>0, <1>e, <2>3, <2>4, <2>5, <2>7, <2>9 DEF Changes
  <1>5. ASSUME NEW v \in Vars, NEW w \in Vars, AppendTo(v, w)
        PROVE  Live(v) /\ Live(w) /\ Becomes(v, Text(v) \o Text(w))
    <2> DEFINE d == [refcount |-> 1, text |-> Text(v) \o Text(w), closed |-> Ref(w).closed]
    <2>1. PICK a \in Addrs : /\ Unused(a) \/ (Ref(v).refcount = 1 /\ a = mRefData[v])
                             /\ mRefData' = [mRefData EXCEPT ![v] = a]
                             /\ heap' = [Down(heap, mRefData[v]) EXCEPT ![a] = d]
      BY <1>5 DEF AppendTo
    <2>2. /\ mRefData[v] \in All /\ mRefData[w] \in All
          /\ Live(v) /\ Live(w) /\ selfAppended' = selfAppended
      BY <1>5, <1>c DEF AppendTo
    <2>3. Text(v) \in Seq(Int) /\ Text(w) \in Seq(Int) /\ Ref(w).closed \in BOOLEAN
      BY <1>0, <2>2 DEF Text, Ref, Data
    <2>4. d \in Data /\ d.refcount = 1 /\ d.closed = Ref(w).closed /\ d.text = Text(v) \o Text(w)
      BY <2>3 DEF Data
    <2>5. ~selfAppended' => ~selfAppended /\ d.closed
      BY <1>0, <2>2, <2>4 DEF Ref
    <2> HIDE DEF d
    <2>6. Changes(v, a, d.text)
      BY <1>e, <2>1, <2>2, <2>4, <2>5
    <2>7. QED
      BY <1>0, <2>2, <2>4, <2>6 DEF Becomes
  <1>6. ASSUME NEW v \in Vars, AppendSelf(v)
        PROVE  Live(v) /\ Becomes(v, Text(v) \o Text(v))
    <2> DEFINE d == [refcount |-> 1, text |-> Text(v) \o Text(v), closed |-> Len(Text(v)) + 1 = Word]
    <2>1. PICK a \in Addrs : /\ Unused(a) \/ a = mRefData[v]
                             /\ mRefData' = [mRefData EXCEPT ![v] = a]
                             /\ heap' = [Down(heap, mRefData[v]) EXCEPT ![a] = d]
      BY <1>6 DEF AppendSelf
    <2>2. /\ mRefData[v] \in All /\ Live(v) /\ Ref(v).refcount = 1
          /\ selfAppended' = (selfAppended \/ Len(Text(v)) + 1 # Word)
      BY <1>6, <1>c DEF AppendSelf
    <2>3. Text(v) \in Seq(Int)
      BY <1>0, <2>2 DEF Text, Ref, Data
    <2>4. d \in Data /\ d.refcount = 1 /\ d.closed = (Len(Text(v)) + 1 = Word)
          /\ d.text = Text(v) \o Text(v)
      BY <2>3 DEF Data
    <2>5. ~selfAppended' => ~selfAppended /\ d.closed
      BY <2>2, <2>4
    <2> HIDE DEF d
    <2>6. Changes(v, a, d.text)
      BY <1>e, <2>1, <2>2, <2>4, <2>5
    <2>7. QED
      BY <1>0, <2>2, <2>4, <2>6 DEF Becomes
  <1>7. QED
    BY <1>1, <1>2, <1>3, <1>4, <1>5, <1>6 DEF Next

(* The inductive invariant holds throughout. *)
THEOREM StringsInvariant == ASSUME Premise PROVE Spec => []IInv
  <1>1. ASSUME Premise, IInv, Next PROVE IInv'
    BY <1>1, StringsStep, ChangesKeep DEF Becomes
  <1>2. ASSUME IInv, UNCHANGED vars PROVE IInv'
    BY <1>2 DEF vars, IInv, Users
  <1>3. QED
    BY <1>1, <1>2, StringsInit, PTL DEF Spec

(* No datum is freed under an object that refers to it, none is kept when the last
   one goes, and the terminator is lost by appending an object to itself only
   (String::AddRef, String::Release, String::operator+=). *)
THEOREM OwnersAlwaysCounted == ASSUME Premise PROVE Spec => []CountsOwners
  <1>1. ASSUME Premise, IInv PROVE CountsOwners
    <2>1. \A a : Owners(a) = Users(Vars, mRefData, a)
      BY DEF Owners, Users
    <2>2. \A a \in Addrs : heap[a].refcount = Cardinality(Owners(a))
      <3>1. \A a \in Addrs : a \in All /\ Extra(a) = 0
        BY <1>1 DEF All, Extra, Premise
      <3>2. \A a \in Addrs : Cardinality(Users(Vars, mRefData, a)) \in Nat
        BY <1>1, UsersCounted DEF Premise
      <3>3. QED
        BY <1>1, <2>1, <3>1, <3>2 DEF IInv
    <2>3. heap[EMPTY] = Datum(Cardinality(Owners(EMPTY)) + 1, <<>>)
      <3>1. EMPTY \in All /\ Extra(EMPTY) = 1
        BY DEF All, Extra
      <3>2. /\ heap[EMPTY] \in Data /\ heap[EMPTY].text = <<>> /\ heap[EMPTY].closed
            /\ heap[EMPTY].refcount = Cardinality(Owners(EMPTY)) + 1
        BY <1>1, <2>1, <3>1 DEF IInv
      <3>3. QED
        BY <3>2 DEF Data, Datum
    <2>4. ~selfAppended => \A v \in Vars : Live(v) => Ref(v).closed
      BY <1>1 DEF IInv, Live, Ref
    <2>5. QED
      BY <2>2, <2>3, <2>4 DEF CountsOwners
  <1>2. QED
    BY <1>1, StringsInvariant, PTL

-----------------------------------------------------------------------------
(* The value of each object, as the refinement mapping has it. *)
Value == [v \in Vars |-> IF Live(v) THEN Text(v) ELSE None]

(* When one object changes, its value does and no other. *)
LEMMA OneValueChanges ==
  ASSUME Premise, IInv, NEW v \in Vars, NEW r \in All \cup {None}, NEW t, Changes(v, r, t)
  PROVE  Value' = [Value EXCEPT ![v] = t]
  <1>1. /\ mRefData \in [Vars -> All \cup {None}] /\ mRefData' = [mRefData EXCEPT ![v] = r]
        /\ IF r = None THEN t = None ELSE heap'[r].text = t
        /\ \A w \in Vars \ {v} : Live(w) => heap'[mRefData[w]].text = heap[mRefData[w]].text
    BY DEF IInv, Changes
  <1>2. mRefData'[v] = r /\ \A w \in Vars \ {v} : mRefData'[w] = mRefData[w]
    BY <1>1
  <1>3. (IF Live(v) THEN Text(v) ELSE None)' = t
    BY <1>1, <1>2 DEF Live, Text, Ref
  <1>4. ASSUME NEW w \in Vars \ {v}
        PROVE  (IF Live(w) THEN Text(w) ELSE None)' = IF Live(w) THEN Text(w) ELSE None
    BY <1>1, <1>2 DEF Live, Text, Ref
  <1>5. QED
    BY <1>3, <1>4 DEF Value

(* Objects that share their data until one is changed behave as values of their
   own: copying on write is unobservable (String::operator=, String::operator+=). *)
THEOREM StringsAreValues == ASSUME Premise PROVE Spec => ValuesSpec
  <1>1. ASSUME Init PROVE Values!Init
    BY <1>1 DEF Init, Values!Init, Live
  <1>2. ASSUME Premise, IInv, Next PROVE Values!Next
    <2>1. \A v \in Vars : /\ Live(v) => Value[v] = Text(v) /\ Value[v] # None
                          /\ ~Live(v) => Value[v] = None
      <3>1. \A v \in Vars : Live(v) => Text(v) \in Seq(Int)
        BY <1>2 DEF IInv, Live, Text, Ref, Data
      <3>2. QED
        BY <1>2, <3>1 DEF Value, Premise
    <2>2. \A v \in Vars : \A t : Becomes(v, t) => Value' = [Value EXCEPT ![v] = t]
      BY <1>2, OneValueChanges DEF Becomes
    <2>3. \A v \in Vars : Changes(v, None, None) => Value' = [Value EXCEPT ![v] = None]
      BY <1>2, OneValueChanges
    <2>4. PICK v \in Vars :
           \/ ~Live(v) /\ \E s \in Texts : Becomes(v, s)
           \/ ~Live(v) /\ \E w \in Vars : Live(w) /\ Becomes(v, Text(w))
           \/ Live(v) /\ Changes(v, None, None)
           \/ Live(v) /\ \E w \in Vars : Live(w) /\ Becomes(v, Text(w))
           \/ Live(v) /\ \E w \in Vars : Live(w) /\ Becomes(v, Text(v) \o Text(w))
      BY <1>2, StringsStep
    <2>5. CASE ~Live(v) /\ \E s \in Texts : Becomes(v, s)
      <3>1. \E s \in Texts : Values!Construct(v, s)
        BY <2>1, <2>2, <2>5 DEF Values!Construct, Values!Live, Value
      <3>2. QED
        BY <3>1 DEF Values!Next
    <2>6. CASE ~Live(v) /\ \E w \in Vars : Live(w) /\ Becomes(v, Text(w))
      <3>1. PICK w \in Vars : Live(w) /\ Becomes(v, Text(w))
        BY <2>6
      <3>2. /\ Value[v] = None /\ Value[w] # None
            /\ Value' = [Value EXCEPT ![v] = Value[w]]
        BY <2>1, <2>2, <2>6, <3>1
      <3>3. Values!CopyConstruct(v, w)
        BY <3>2, Zenon DEF Values!CopyConstruct, Values!Live, Value
      <3>4. QED
        BY <3>3 DEF Values!Next
    <2>7. CASE Live(v) /\ Changes(v, None, None)
      <3>1. Value[v] # None /\ Value' = [Value EXCEPT ![v] = None]
        BY <2>1, <2>3, <2>7
      <3>2. Values!Destroy(v)
        BY <3>1, Zenon DEF Values!Destroy, Values!Live, Value
      <3>3. QED
        BY <3>2 DEF Values!Next
    <2>8. CASE Live(v) /\ \E w \in Vars : Live(w) /\ Becomes(v, Text(w))
      <3>1. PICK w \in Vars : Live(w) /\ Becomes(v, Text(w))
        BY <2>8
      <3>2. /\ Value[v] # None /\ Value[w] # None
            /\ Value' = [Value EXCEPT ![v] = Value[w]]
        BY <2>1, <2>2, <2>8, <3>1
      <3>3. Values!Assign(v, w)
        BY <3>2, Zenon DEF Values!Assign, Values!Live, Value
      <3>4. QED
        BY <3>3 DEF Values!Next
    <2>9. CASE Live(v) /\ \E w \in Vars : Live(w) /\ Becomes(v, Text(v) \o Text(w))
      <3>1. PICK w \in Vars : Live(w) /\ Becomes(v, Text(v) \o Text(w))
        BY <2>9
      <3>2. /\ Value[v] # None /\ Value[w] # None
            /\ Value' = [Value EXCEPT ![v] = Value[v] \o Value[w]]
        BY <2>1, <2>2, <2>9, <3>1
      <3>3. Values!AppendTo(v, w)
        BY <3>2, Zenon DEF Values!AppendTo, Values!Live, Value
      <3>4. QED
        BY <3>3 DEF Values!Next
    <2>10. QED
      BY <2>4, <2>5, <2>6, <2>7, <2>8, <2>9
  <1>3. ASSUME UNCHANGED vars PROVE UNCHANGED [v \in Vars |-> IF Live(v) THEN Text(v) ELSE None]
    BY <1>3 DEF vars, Live, Text, Ref
  <1>4. QED
    BY <1>1, <1>2, <1>3, StringsInvariant, PTL DEF Spec, ValuesSpec, Values!Spec

-----------------------------------------------------------------------------
(* SmartPtr                                                                *)

(* There are finitely many pointers, and NULL is the address of no data. *)
PtrPremise == IsFiniteSet(Pointers) /\ NULL \notin Targets /\ None \notin Targets /\ NULL # None

Pointing(f) == {p \in Pointers : f[p] \notin {NULL, None}}

(* The inductive invariant: every count is the number of pointers, and what is
   counted is alive. *)
PtrInv ==
  /\ mData \in [Pointers -> Targets \cup {NULL, None}]
  /\ mRefCount \in [Targets -> Int]
  /\ \A d \in Targets : mRefCount[d] = Cardinality(Users(Pointers, mData, d))
  /\ alive \in SUBSET Targets
  /\ \A d \in Targets : d \in alive <=> mRefCount[d] # 0
  /\ SmartPtrGlobalCounter = Cardinality(Pointing(mData))

(* The number of pointers to data, when one pointer is changed. *)
LEMMA PointingMoved ==
  ASSUME PtrPremise, NEW f, NEW g, NEW p \in Pointers,
         \A q \in Pointers : f[q] \in Targets \cup {NULL, None},
         g[p] \in Targets \cup {NULL, None}, \A q \in Pointers \ {p} : g[q] = f[q]
  PROVE  /\ Cardinality(Pointing(f)) \in Nat
         /\ Cardinality(Pointing(g)) =
              Cardinality(Pointing(f)) + (IF g[p] \in Targets THEN 1 ELSE 0)
                                       - (IF f[p] \in Targets THEN 1 ELSE 0)
  <1> DEFINE P == Pointing(f)
             r == g[p]
             Q == Pointing(g)
  <1>1. IsFiniteSet(P) /\ Cardinality(P) \in Nat
    <2>1. P \in SUBSET Pointers
      BY DEF Pointing
    <2>2. QED
      BY <2>1, FS_Subset, FS_CardinalityType DEF PtrPremise
  <1>2. g[p] = r /\ \A q \in Pointers \ {p} : g[q] = f[q]
    OBVIOUS
  <1>3. /\ r \in Targets <=> r \notin {NULL, None}
        /\ f[p] \in Targets <=> f[p] \notin {NULL, None}
    BY DEF PtrPremise
  <1>4. CASE r \in Targets <=> f[p] \in Targets
    <2>1. Q = P
      BY <1>2, <1>3, <1>4 DEF Pointing
    <2>2. QED
      BY <2>1, <1>1, <1>4
  <1>5. CASE r \in Targets /\ f[p] \notin Targets
    <2>1. Q = P \cup {p} /\ p \notin P
      BY <1>2, <1>3, <1>5 DEF Pointing
    <2>2. Cardinality(Q) = Cardinality(P) + 1
      BY <2>1, <1>1, FS_AddElement
    <2>3. QED
      BY <2>2, <1>1, <1>5
  <1>6. CASE r \notin Targets /\ f[p] \in Targets
    <2>1. Q = P \ {p} /\ p \in P
      BY <1>2, <1>3, <1>6 DEF Pointing
    <2>2. Cardinality(Q) = Cardinality(P) - 1
      BY <2>1, <1>1, FS_RemoveElement
    <2>3. QED
      BY <2>2, <1>1, <1>6
  <1>7. QED
    BY <1>1, <1>4, <1>5, <1>6

(* A count is a number, and at least one for what is pointed to. *)
LEMMA CountsAreNumbers ==
  ASSUME PtrPremise, PtrInv, NEW d \in Targets
  PROVE  mRefCount[d] \in Nat /\ \A q \in Pointers : mData[q] = d => mRefCount[d] >= 1
  <1>1. IsFiniteSet(Pointers) /\ mRefCount[d] = Cardinality(Users(Pointers, mData, d))
    BY DEF PtrInv, PtrPremise
  <1>2. QED
    BY <1>1, UsersCounted

(* At first there are no pointers, and nothing is counted. *)
LEMMA PointersInit == ASSUME PtrPremise, Ptr!Init PROVE PtrInv
  <1>1. \A x \in Targets : Users(Pointers, mData, x) = {}
    BY DEF Ptr!Init, Users, PtrPremise
  <1>2. Pointing(mData) = {}
    BY DEF Ptr!Init, Pointing
  <1>3. \A d \in Targets : mRefCount[d] = Cardinality(Users(Pointers, mData, d))
    BY <1>1, FS_EmptySet DEF Ptr!Init
  <1>4. SmartPtrGlobalCounter = Cardinality(Pointing(mData))
    BY <1>2, FS_EmptySet DEF Ptr!Init
  <1>5. QED
    BY <1>3, <1>4 DEF Ptr!Init, PtrInv

(* p comes to point to r, and the counts are kept as they should be. *)
Moves(p, r) ==
  /\ mData' = [mData EXCEPT ![p] = r]
  /\ mRefCount' \in [Targets -> Int]
  /\ \A d \in Targets : mRefCount'[d] =
       mRefCount[d] + (IF d = r THEN 1 ELSE 0) - (IF d = mData[p] THEN 1 ELSE 0)
  /\ alive' \in SUBSET Targets
  /\ \A d \in Targets : d \in alive' <=> mRefCount'[d] # 0
  /\ SmartPtrGlobalCounter' = SmartPtrGlobalCounter
       + (IF r \in Targets THEN 1 ELSE 0) - (IF mData[p] \in Targets THEN 1 ELSE 0)

(* A step that does so keeps the invariant. *)
LEMMA MovesKeep ==
  ASSUME PtrPremise, PtrInv, NEW p \in Pointers, NEW r \in Targets \cup {NULL, None}, Moves(p, r)
  PROVE  PtrInv'
  <1>1. /\ mData \in [Pointers -> Targets \cup {NULL, None}] /\ IsFiniteSet(Pointers)
        /\ mData' = [mData EXCEPT ![p] = r]
    BY DEF PtrInv, PtrPremise, Moves
  <1>2. /\ mData' \in [Pointers -> Targets \cup {NULL, None}]
        /\ mData'[p] = r /\ \A q \in Pointers \ {p} : mData'[q] = mData[q]
    BY <1>1
  <1>3. ASSUME NEW d \in Targets PROVE mRefCount'[d] = Cardinality(Users(Pointers, mData', d))
    <2>1. Cardinality(Users(Pointers, mData', d)) =
            Cardinality(Users(Pointers, mData, d)) + Refers(mData', p, d) - Refers(mData, p, d)
      <3>1. IsFiniteSet(Pointers) /\ \A q \in Pointers \ {p} : mData'[q] = mData[q]
        BY <1>1, <1>2
      <3>2. QED
        BY <3>1, UsersMoved
    <2>2. mRefCount[d] = Cardinality(Users(Pointers, mData, d))
      BY DEF PtrInv
    <2>3. mRefCount'[d] =
            mRefCount[d] + Refers(mData', p, d) - Refers(mData, p, d)
      BY <1>2 DEF Moves, Refers
    <2>4. QED
      BY <2>1, <2>2, <2>3
  <1>4. Cardinality(Pointing(mData')) = SmartPtrGlobalCounter
          + (IF mData'[p] \in Targets THEN 1 ELSE 0) - (IF mData[p] \in Targets THEN 1 ELSE 0)
    <2>1. SmartPtrGlobalCounter = Cardinality(Pointing(mData))
      BY DEF PtrInv
    <2>2. QED
      BY <1>1, <1>2, <2>1, PointingMoved
  <1>5. SmartPtrGlobalCounter' = Cardinality(Pointing(mData'))
    BY <1>2, <1>4 DEF Moves
  <1>6. QED
    BY <1>2, <1>3, <1>5 DEF PtrInv, Moves

(* Every action makes one pointer point elsewhere and keeps the counts. *)
LEMMA PointersStep == ASSUME PtrPremise, PtrInv, [Ptr!Next]_(Ptr!vars) PROVE PtrInv'
  <1>0. /\ mData \in [Pointers -> Targets \cup {NULL, None}] /\ mRefCount \in [Targets -> Int]
        /\ alive \in SUBSET Targets /\ \A e \in Targets : e \in alive <=> mRefCount[e] # 0
        /\ SmartPtrGlobalCounter \in Int
    <2>1. Cardinality(Pointing(mData)) \in Nat
      <3>1. Pointing(mData) \in SUBSET Pointers
        BY DEF Pointing
      <3>2. QED
        BY <3>1, FS_Subset, FS_CardinalityType DEF PtrPremise
    <2>2. QED
      BY <2>1 DEF PtrInv
  <1>1. ASSUME NEW p \in Pointers, NEW d \in Targets \cup {NULL}, Ptr!Construct(p, d) PROVE PtrInv'
    <2>1. \A e \in Targets : mRefCount[e] \in Nat
      BY CountsAreNumbers
    <2>2. CASE d = NULL
      <3>1. /\ mRefCount' \in [Targets -> Int]
            /\ \A e \in Targets : mRefCount'[e] =
                 mRefCount[e] + (IF e = d THEN 1 ELSE 0) - (IF e = mData[p] THEN 1 ELSE 0)
        BY <1>0, <1>1, <2>1, <2>2 DEF Ptr!Construct, Ptr!Accept, PtrPremise
      <3>2. alive' \in SUBSET Targets /\ \A e \in Targets : e \in alive' <=> mRefCount'[e] # 0
        BY <1>0, <3>1, <1>1, <2>1, <2>2 DEF Ptr!Construct, Ptr!Accept, PtrPremise
      <3>3. SmartPtrGlobalCounter' = SmartPtrGlobalCounter
              + (IF d \in Targets THEN 1 ELSE 0) - (IF mData[p] \in Targets THEN 1 ELSE 0)
        BY <1>0, <1>1, <2>2 DEF Ptr!Construct, Ptr!Accept, PtrPremise
      <3>4. mData' = [mData EXCEPT ![p] = d]
        BY <1>1 DEF Ptr!Construct
      <3>5. Moves(p, d)
        BY <3>1, <3>2, <3>3, <3>4 DEF Moves
      <3>6. QED
        BY <3>5, <2>2, MovesKeep
    <2>3. CASE d \in Targets
      <3>1. /\ mRefCount' \in [Targets -> Int]
            /\ \A e \in Targets : mRefCount'[e] =
                 mRefCount[e] + (IF e = d THEN 1 ELSE 0) - (IF e = mData[p] THEN 1 ELSE 0)
        BY <1>0, <1>1, <2>1, <2>3 DEF Ptr!Construct, Ptr!Accept, PtrPremise
      <3>2. alive' \in SUBSET Targets /\ \A e \in Targets : e \in alive' <=> mRefCount'[e] # 0
        BY <1>0, <3>1, <1>1, <2>1, <2>3 DEF Ptr!Construct, Ptr!Accept, PtrPremise
      <3>3. SmartPtrGlobalCounter' = SmartPtrGlobalCounter
              + (IF d \in Targets THEN 1 ELSE 0) - (IF mData[p] \in Targets THEN 1 ELSE 0)
        BY <1>0, <1>1, <2>3 DEF Ptr!Construct, Ptr!Accept, PtrPremise
      <3>4. mData' = [mData EXCEPT ![p] = d]
        BY <1>1 DEF Ptr!Construct
      <3>5. Moves(p, d)
        BY <3>1, <3>2, <3>3, <3>4 DEF Moves
      <3>6. QED
        BY <3>5, <2>3, MovesKeep
    <2>4. QED
      BY <2>2, <2>3
  <1>2. ASSUME NEW p \in Pointers, NEW q \in Pointers, Ptr!Copy(p, q) PROVE PtrInv'
    <2>1. mData[q] \in Targets \cup {NULL}
      BY <1>2 DEF Ptr!Copy, PtrInv
    <2>2. \A e \in Targets : mRefCount[e] \in Nat /\ (mData[q] = e => mRefCount[e] >= 1)
      BY CountsAreNumbers
    <2>3. CASE mData[q] = NULL
      <3>1. /\ mRefCount' \in [Targets -> Int]
            /\ \A e \in Targets : mRefCount'[e] =
                 mRefCount[e] + (IF e = mData[q] THEN 1 ELSE 0) - (IF e = mData[p] THEN 1 ELSE 0)
        BY <1>0, <1>2, <2>2, <2>3 DEF Ptr!Copy, Ptr!Accept, PtrPremise
      <3>2. alive' \in SUBSET Targets /\ \A e \in Targets : e \in alive' <=> mRefCount'[e] # 0
        BY <1>0, <3>1, <1>2, <2>2, <2>3 DEF Ptr!Copy, Ptr!Accept, PtrPremise
      <3>3. SmartPtrGlobalCounter' = SmartPtrGlobalCounter
              + (IF mData[q] \in Targets THEN 1 ELSE 0) - (IF mData[p] \in Targets THEN 1 ELSE 0)
        BY <1>0, <1>2, <2>3 DEF Ptr!Copy, Ptr!Accept, PtrPremise
      <3>4. mData' = [mData EXCEPT ![p] = mData[q]]
        BY <1>2 DEF Ptr!Copy
      <3>5. Moves(p, mData[q])
        BY <3>1, <3>2, <3>3, <3>4 DEF Moves
      <3>6. QED
        BY <3>5, <2>3, MovesKeep
    <2>4. CASE mData[q] \in Targets
      <3>1. /\ mRefCount' \in [Targets -> Int]
            /\ \A e \in Targets : mRefCount'[e] =
                 mRefCount[e] + (IF e = mData[q] THEN 1 ELSE 0) - (IF e = mData[p] THEN 1 ELSE 0)
        BY <1>0, <1>2, <2>2, <2>4 DEF Ptr!Copy, Ptr!Accept, PtrPremise
      <3>2. alive' \in SUBSET Targets /\ \A e \in Targets : e \in alive' <=> mRefCount'[e] # 0
        BY <1>0, <3>1, <1>2, <2>2, <2>4 DEF Ptr!Copy, Ptr!Accept, PtrPremise
      <3>3. SmartPtrGlobalCounter' = SmartPtrGlobalCounter
              + (IF mData[q] \in Targets THEN 1 ELSE 0) - (IF mData[p] \in Targets THEN 1 ELSE 0)
        BY <1>0, <1>2, <2>4 DEF Ptr!Copy, Ptr!Accept, PtrPremise
      <3>4. mData' = [mData EXCEPT ![p] = mData[q]]
        BY <1>2 DEF Ptr!Copy
      <3>5. Moves(p, mData[q])
        BY <3>1, <3>2, <3>3, <3>4 DEF Moves
      <3>6. QED
        BY <3>5, <2>4, MovesKeep
    <2>5. QED
      BY <2>1, <2>3, <2>4
  <1>3. ASSUME NEW p \in Pointers, Ptr!Destroy(p) PROVE PtrInv'
    <2>1. mData[p] \in Targets \cup {NULL}
      BY <1>3 DEF Ptr!Destroy, PtrInv
    <2>2. \A e \in Targets : mRefCount[e] \in Nat /\ (mData[p] = e => mRefCount[e] >= 1)
      BY CountsAreNumbers
    <2>3. CASE mData[p] = NULL
      <3>1. /\ mRefCount' \in [Targets -> Int]
            /\ \A e \in Targets : mRefCount'[e] =
                 mRefCount[e] + (IF e = None THEN 1 ELSE 0) - (IF e = mData[p] THEN 1 ELSE 0)
        BY <1>0, <1>3, <2>2, <2>3 DEF Ptr!Destroy, PtrPremise
      <3>2. alive' \in SUBSET Targets /\ \A e \in Targets : e \in alive' <=> mRefCount'[e] # 0
        BY <1>0, <3>1, <1>3, <2>2, <2>3 DEF Ptr!Destroy, PtrPremise
      <3>3. SmartPtrGlobalCounter' = SmartPtrGlobalCounter
              + (IF None \in Targets THEN 1 ELSE 0) - (IF mData[p] \in Targets THEN 1 ELSE 0)
        BY <1>0, <1>3, <2>3 DEF Ptr!Destroy, PtrPremise
      <3>4. mData' = [mData EXCEPT ![p] = None]
        BY <1>3 DEF Ptr!Destroy
      <3>5. Moves(p, None)
        BY <3>1, <3>2, <3>3, <3>4 DEF Moves
      <3>6. QED
        BY <3>5, <2>3, MovesKeep
    <2>4. CASE mData[p] \in Targets
      <3>1. /\ mRefCount' \in [Targets -> Int]
            /\ \A e \in Targets : mRefCount'[e] =
                 mRefCount[e] + (IF e = None THEN 1 ELSE 0) - (IF e = mData[p] THEN 1 ELSE 0)
        BY <1>0, <1>3, <2>2, <2>4 DEF Ptr!Destroy, PtrPremise
      <3>2. alive' \in SUBSET Targets /\ \A e \in Targets : e \in alive' <=> mRefCount'[e] # 0
        BY <1>0, <3>1, <1>3, <2>2, <2>4 DEF Ptr!Destroy, PtrPremise
      <3>3. SmartPtrGlobalCounter' = SmartPtrGlobalCounter
              + (IF None \in Targets THEN 1 ELSE 0) - (IF mData[p] \in Targets THEN 1 ELSE 0)
        BY <1>0, <1>3, <2>4 DEF Ptr!Destroy, PtrPremise
      <3>4. mData' = [mData EXCEPT ![p] = None]
        BY <1>3 DEF Ptr!Destroy
      <3>5. Moves(p, None)
        BY <3>1, <3>2, <3>3, <3>4 DEF Moves
      <3>6. QED
        BY <3>5, <2>4, MovesKeep
    <2>5. QED
      BY <2>1, <2>3, <2>4
  <1>4. CASE UNCHANGED Ptr!vars
    BY <1>4 DEF Ptr!vars, PtrInv, Pointing, Users
  <1>5. QED
    BY <1>1, <1>2, <1>3, <1>4 DEF Ptr!Next

(* The inductive invariant holds throughout. *)
THEOREM PointersInvariant == ASSUME PtrPremise PROVE Ptr!Spec => []PtrInv
  BY PointersInit, PointersStep, PTL DEF Ptr!Spec

(* No data is deleted under a pointer, none outlives the last one, and the
   global counter counts the pointers (SmartPtr::Destroy, SmartPtr::Accept). *)
THEOREM AliveAlwaysPointedTo == ASSUME PtrPremise PROVE Ptr!Spec => []Ptr!AliveIffPointedTo
  <1>1. ASSUME PtrPremise, PtrInv PROVE Ptr!AliveIffPointedTo
    <2>1. \A d \in Targets : mRefCount[d] # 0 => \E p \in Pointers : mData[p] = d
      BY <1>1, UsersCounted DEF PtrInv, PtrPremise
    <2>2. \A d \in Targets, p \in Pointers : mData[p] = d => mRefCount[d] # 0
      BY <1>1, CountsAreNumbers
    <2>3. alive = {mData[p] : p \in Pointers} \ {NULL, None}
      BY <1>1, <2>1, <2>2 DEF PtrInv, PtrPremise
    <2>4. QED
      BY <1>1, <2>3 DEF PtrInv, Ptr!AliveIffPointedTo, Pointing, Cardinality, Ptr!Cardinality
  <1>2. QED
    BY <1>1, PointersInvariant, PTL

=============================================================================
