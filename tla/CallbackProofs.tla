--------------------------- MODULE CallbackProofs ---------------------------
(***************************************************************************)
(* Proofs about Callback for every set of objects, threads and addresses,  *)
(* every backend that refuses breakpoints, and any overlap of calls.  What *)
(* is to be shown, HooksRegistered, speaks of objects that no thread works *)
(* for.  It is made inductive by CountInv, which says for an object whose  *)
(* lock is held how far the holder is, and LockInv, which says who holds.  *)
(* The last part has the theorems that need rules about who calls what.    *)
(***************************************************************************)
EXTENDS Callback, MinLemmas, FunctionTheorems, FiniteSetTheorems, SequenceTheorems, TLAPS

----------------------------------------------------------------------------
(* Sequences: what RemoveFirst and Append do to the number of occurrences  *)

Places(x, s) == {i \in DOMAIN s : s[i] = x}

(* The number of occurrences is a number. *)
LEMMA CountType ==
    ASSUME NEW S, NEW s \in Seq(S), NEW x
    PROVE  /\ IsFiniteSet(Places(x, s)) /\ Places(x, s) \subseteq 1..Len(s)
           /\ Count(x, s) = Cardinality(Places(x, s))
           /\ Count(x, s) \in Nat
  <1>1. Places(x, s) \subseteq 1..Len(s)
    BY DEF Places
  <1>2. IsFiniteSet(1..Len(s))
    BY FS_Interval
  <1>3. IsFiniteSet(Places(x, s))
    BY <1>1, <1>2, FS_Subset
  <1>4. Count(x, s) = Cardinality(Places(x, s))
    BY DEF Count, Places
  <1> QED BY <1>1, <1>3, <1>4, FS_CardinalityType

(* Append adds an occurrence of what it appends. *)
LEMMA CountAppend ==
    ASSUME NEW S, NEW s \in Seq(S), NEW e \in S, NEW x
    PROVE  /\ Append(s, e) \in Seq(S)
           /\ Count(x, Append(s, e)) = Count(x, s) + (IF e = x THEN 1 ELSE 0)
  <1> DEFINE r == Append(s, e)
  <1>1. /\ r \in Seq(S) /\ Len(r) = Len(s) + 1 /\ DOMAIN r = 1..(Len(s) + 1)
        /\ \A i \in 1..Len(s) : r[i] = s[i]
        /\ r[Len(s) + 1] = e
    BY AppendProperties
  <1>2. DOMAIN s = 1..Len(s) /\ Len(s) \in Nat
    OBVIOUS
  <1>3. Places(x, s) \subseteq 1..Len(s)
    BY CountType
  <1>4. Len(s) + 1 \notin Places(x, s)
    BY <1>2, <1>3
  <1> HIDE DEF r
  <1>5. /\ Count(x, s) = Cardinality(Places(x, s)) /\ IsFiniteSet(Places(x, s))
        /\ Count(x, r) = Cardinality(Places(x, r)) /\ Count(x, s) \in Nat
    BY <1>1, CountType
  <1>6. CASE e = x
    <2>1. Places(x, r) = Places(x, s) \cup {Len(s) + 1}
      BY <1>1, <1>2, <1>6 DEF Places
    <2>2. Cardinality(Places(x, r)) = Cardinality(Places(x, s)) + 1
      BY <1>4, <1>5, <2>1, FS_AddElement
    <2> QED BY <1>1, <1>5, <1>6, <2>2 DEF r
  <1>7. CASE e # x
    <2>1. Places(x, r) = Places(x, s)
      BY <1>1, <1>2, <1>7 DEF Places
    <2> QED BY <1>1, <1>5, <1>7, <2>1 DEF r
  <1> QED BY <1>6, <1>7

(* RemoveAt leaves the other elements in their order. *)
LEMMA RemoveAtProperties ==
    ASSUME NEW S, NEW s \in Seq(S), NEW k \in 1..Len(s)
    PROVE  /\ RemoveAt(s, k) \in Seq(S)
           /\ Len(RemoveAt(s, k)) = Len(s) - 1
           /\ \A i \in 1..(Len(s) - 1) : RemoveAt(s, k)[i] = s[IF i < k THEN i ELSE i + 1]
  <1>0. Len(s) \in Nat /\ k \in Nat /\ k >= 1 /\ k <= Len(s) /\ \A i \in 1..Len(s) : s[i] \in S
    OBVIOUS
  <1> DEFINE a == SubSeq(s, 1, k - 1)
             b == SubSeq(s, k + 1, Len(s))
  <1>1. /\ a \in Seq(S) /\ Len(a) = k - 1
        /\ \A i \in 1..(k - 1) : a[i] = s[i]
    <2>1. \A i \in 1..(k - 1) : s[i] \in S
      BY <1>0
    <2> QED BY <1>0, <2>1, SubSeqProperties, Z3
  <1>2. /\ b \in Seq(S) /\ Len(b) = Len(s) - k
        /\ \A i \in 1..(Len(s) - k) : b[i] = s[k + i]
    <2>1. \A i \in (k + 1)..Len(s) : s[i] \in S
      BY <1>0
    <2>2. /\ b \in Seq(S)
          /\ Len(b) = IF k + 1 <= Len(s) THEN Len(s) - (k + 1) + 1 ELSE 0
          /\ \A i \in 1..(Len(s) - (k + 1) + 1) : b[i] = s[k + 1 + i - 1]
      BY <1>0, <2>1, SubSeqProperties
    <2> HIDE DEF b
    <2> QED BY <1>0, <2>2
  <1>3. RemoveAt(s, k) = a \o b
    BY DEF RemoveAt
  <1> HIDE DEF a, b
  <1>4. /\ a \o b \in Seq(S)
        /\ Len(a \o b) = Len(s) - 1
        /\ \A i \in 1..(Len(s) - 1) : (a \o b)[i] = IF i <= k - 1 THEN a[i] ELSE b[i - (k - 1)]
    BY <1>0, <1>1, <1>2, ConcatProperties
  <1>5. ASSUME NEW i \in 1..(Len(s) - 1)
        PROVE  (a \o b)[i] = s[IF i < k THEN i ELSE i + 1]
    <2>1. CASE i < k
      <3>1. i \in 1..(k - 1) /\ i <= k - 1
        BY <1>0, <2>1
      <3> QED BY <1>1, <1>4, <2>1, <3>1
    <2>2. CASE i >= k
      <3>1. i - (k - 1) \in 1..(Len(s) - k) /\ k + (i - (k - 1)) = i + 1
        BY <1>0, <2>2
      <3> QED BY <1>0, <1>2, <1>4, <2>2, <3>1
    <2>3. i < k \/ i >= k
      BY <1>0
    <2> QED BY <2>1, <2>2, <2>3
  <1> QED BY <1>3, <1>4, <1>5

(* RemoveAt takes away one occurrence of the element at the place. *)
LEMMA CountRemoveAt ==
    ASSUME NEW S, NEW s \in Seq(S), NEW k \in 1..Len(s), NEW x
    PROVE  Count(x, RemoveAt(s, k)) = Count(x, s) - (IF s[k] = x THEN 1 ELSE 0)
  <1> DEFINE r == RemoveAt(s, k)
             P == Places(x, s) \ {k}
             Q == Places(x, r)
             F == [i \in P |-> IF i < k THEN i ELSE i - 1]
  <1>0. Len(s) \in Nat /\ k \in Nat /\ k >= 1 /\ k <= Len(s) /\ DOMAIN s = 1..Len(s)
    OBVIOUS
  <1>1. /\ r \in Seq(S) /\ DOMAIN r = 1..(Len(s) - 1)
        /\ \A i \in 1..(Len(s) - 1) : r[i] = s[IF i < k THEN i ELSE i + 1]
    <2>1. /\ r \in Seq(S) /\ Len(r) = Len(s) - 1
          /\ \A i \in 1..(Len(s) - 1) : r[i] = s[IF i < k THEN i ELSE i + 1]
      BY RemoveAtProperties
    <2> HIDE DEF r
    <2> QED BY <2>1
  <1> HIDE DEF r
  <1>2. \A i \in P : /\ i \in Int /\ 1 <= i /\ i <= Len(s) /\ i # k /\ s[i] = x
    BY <1>0 DEF Places
  <1>3. \A j \in Q : /\ j \in Int /\ 1 <= j /\ j <= Len(s) - 1
                     /\ s[IF j < k THEN j ELSE j + 1] = x
    BY <1>0, <1>1 DEF Places
  <1>4. ASSUME NEW i \in P
        PROVE  F[i] \in Q
    <2>1. (IF i < k THEN i ELSE i - 1) \in 1..(Len(s) - 1)
      BY <1>0, <1>2
    <2>2. r[IF i < k THEN i ELSE i - 1] = x
      BY <1>0, <1>1, <1>2, <2>1
    <2> QED BY <1>1, <2>1, <2>2 DEF Places
  <1>5. ASSUME NEW i \in P, NEW j \in P, F[i] = F[j]
        PROVE  i = j
    <2>1. (IF i < k THEN i ELSE i - 1) = (IF j < k THEN j ELSE j - 1)
      BY <1>5
    <2> HIDE DEF P
    <2> QED BY <1>0, <1>2, <2>1
  <1>6. ASSUME NEW j \in Q
        PROVE  \E i \in P : F[i] = j
    <2> DEFINE i == IF j < k THEN j ELSE j + 1
    <2>1. i \in Places(x, s)
      BY <1>0, <1>3 DEF Places
    <2>2. i # k
      BY <1>0, <1>3
    <2>3. (IF i < k THEN i ELSE i - 1) = j
      BY <1>0, <1>3
    <2>4. i \in P
      BY <2>1, <2>2
    <2>5. F[i] = j
      BY <2>3, <2>4
    <2> QED BY <2>4, <2>5
  <1>7. F \in Bijection(P, Q)
    <2>1. F \in [P -> Q]
      BY <1>4
    <2>2. \A i, j \in P : F[i] = F[j] => i = j
      BY <1>5
    <2>3. \A j \in Q : \E i \in P : F[i] = j
      BY <1>6
    <2> HIDE DEF F, P, Q
    <2> QED BY <2>1, <2>2, <2>3, Fun_IsBij
  <1>8. ExistsBijection(P, Q)
    BY <1>7 DEF ExistsBijection
  <1>9. /\ IsFiniteSet(P)
        /\ Cardinality(P) = Cardinality(Places(x, s)) - (IF k \in Places(x, s) THEN 1 ELSE 0)
    BY CountType, FS_RemoveElement, FS_CardinalityType
  <1>10. Cardinality(Q) = Cardinality(P)
    BY <1>8, <1>9, FS_Bijection
  <1>11. k \in Places(x, s) <=> s[k] = x
    BY <1>0 DEF Places
  <1>12. Count(x, s) = Cardinality(Places(x, s)) /\ Count(x, r) = Cardinality(Q)
    BY <1>1, CountType
  <1> QED BY <1>9, <1>10, <1>11, <1>12 DEF r

(* RemoveFirst takes away one occurrence of its argument, if there is one, *)
(* and none of anything else.                                              *)
LEMMA CountRemove ==
    ASSUME NEW S, NEW s \in Seq(S), NEW e, NEW x
    PROVE  /\ RemoveFirst(s, e) \in Seq(S)
           /\ Count(x, RemoveFirst(s, e)) =
                Count(x, s) - (IF x = e /\ Contains(s, e) THEN 1 ELSE 0)
           /\ ~Contains(s, e) => Count(e, s) = 0 /\ RemoveFirst(s, e) = s
           /\ Contains(s, e) => Len(RemoveFirst(s, e)) = Len(s) - 1
  <1>1. CASE Contains(s, e)
    <2> DEFINE I == {i \in 1..Len(s) : s[i] = e}
    <2>1. I # {} /\ I \in SUBSET Nat
      BY <1>1 DEF Contains
    <2>2. SelectInSeq(s, LAMBDA v : v = e) = Min(I)
      BY <2>1 DEF SelectInSeq
    <2>3. Min(I) \in I
      BY <2>1, MinIn
    <2>4. RemoveFirst(s, e) = RemoveAt(s, Min(I))
      BY <1>1, <2>2 DEF RemoveFirst, Contains
    <2>5. Min(I) \in 1..Len(s) /\ s[Min(I)] = e
      BY <2>3
    <2> HIDE DEF I
    <2>6. RemoveAt(s, Min(I)) \in Seq(S) /\ Len(RemoveAt(s, Min(I))) = Len(s) - 1
      BY <2>5, RemoveAtProperties
    <2>7. Count(x, RemoveAt(s, Min(I))) = Count(x, s) - (IF s[Min(I)] = x THEN 1 ELSE 0)
      BY <2>5, CountRemoveAt
    <2> QED BY <1>1, <2>4, <2>5, <2>6, <2>7
  <1>2. CASE ~Contains(s, e)
    <2>1. RemoveFirst(s, e) = s
      BY <1>2 DEF RemoveFirst, Contains
    <2>2. Places(e, s) = {}
      BY <1>2 DEF Places, Contains
    <2>3. Count(e, s) = 0
      BY <2>2, CountType, FS_EmptySet
    <2> QED BY <1>2, <2>1, <2>3, CountType
  <1> QED BY <1>1, <1>2

----------------------------------------------------------------------------
(* The invariant *)

AddLabels == {"addCheck", "addSet", "addDone"}
RemoveLabels == {"removeCheck", "removeDel", "removeDone"}
Holding == AddLabels \cup RemoveLabels \cup {"raised"}

(* A thread that adds or removes a hook holds the lock of its object, and  *)
(* no one else does.                                                       *)
LockInv ==
    /\ \A t \in Threads :
          /\ at[t] \in Holding =>
                obj[t] \in Objects /\ addr[t] \in Addr /\ hookLock[obj[t]] = t
          /\ at[t] \in {"uninstall", "uninstallHook"} => obj[t] \in Objects
          /\ at[t] = "uninstallHook" => addr[t] \in Addr
    /\ \A o \in Objects : hookLock[o] # NoThread =>
          at[hookLock[o]] \in Holding /\ obj[hookLock[o]] = o

(* The handler's loop visits addresses. *)
HandlerInv ==
    /\ todo \subseteq Addr
    /\ handler = "rearmSet" => hit \in Addr

(* A hook that is being added is registered and not yet remembered, one    *)
(* that is being removed is still remembered.                              *)
Holds(o, k, labels) ==
    hookLock[o] # NoThread /\ addr[hookLock[o]] = k /\ at[hookLock[o]] \in labels
OneIf(b) == IF b THEN 1 ELSE 0
Counted(o, k) ==
    Count(k, hooks[o]) + OneIf(Holds(o, k, AddLabels))
        <= Count(o, List(k)) + OneIf(Holds(o, k, RemoveLabels))
CountInv == \A o \in Objects, k \in Addr : Counted(o, k)

TypeInv == TypeOK /\ LockInv /\ HandlerInv
Inv == TypeInv /\ CountInv

----------------------------------------------------------------------------
(* The registry *)

(* What _on_execute_callbacks has for an address is a list of objects. *)
LEMMA ListType ==
    ASSUME TypeOK, NEW k
    PROVE  List(k) \in Seq(Objects)
  BY DEF TypeOK, List

(* An assignment to one key leaves the lists of the others.                *)
LEMMA ListAfter ==
    ASSUME NEW k, NEW l, registry' = WithList(k, l), NEW a
    PROVE  List(a)' = IF a = k THEN l ELSE List(a)
  BY DEF WithList, List

(* ... and the registry remains one. *)
LEMMA RegistryType ==
    ASSUME TypeOK, NEW k \in Addr, NEW l \in Seq(Objects), registry' = WithList(k, l)
    PROVE  /\ DOMAIN registry' \subseteq Addr
           /\ \A a \in DOMAIN registry' : registry'[a] \in Seq(Objects)
  BY DEF TypeOK, WithList

----------------------------------------------------------------------------
(* Who holds the locks: an action that moves a thread keeps LockInv if ... *)

(* ... the thread goes on inside its lock, *)
LEMMA LockKept ==
    ASSUME TypeOK, LockInv, NEW t \in Threads, NEW label \in Holding,
           at[t] \in Holding, Goto(t, label), UNCHANGED <<obj, addr, hookLock>>
    PROVE  LockInv'
  BY DEF TypeOK, LockInv, Goto, Holding, AddLabels, RemoveLabels

(* ... takes the lock of the object that it names, *)
LEMMA LockTaken ==
    ASSUME TypeOK, LockInv, NEW t \in Threads, NEW label \in Holding, at[t] \notin Holding,
           NEW o \in Objects, NEW k \in Addr,
           Acquire(t, o), Works(t, o, k), Goto(t, label)
    PROVE  LockInv'
  <1> USE DEF TypeOK, LockInv, Goto, Holding, AddLabels, RemoveLabels, Acquire, Works
  <1>1. t # NoThread
    BY NoThreadAssumption
  <1>2. \A u \in Threads : u # t =>
           at'[u] = at[u] /\ obj'[u] = obj[u] /\ addr'[u] = addr[u]
    OBVIOUS
  <1>3. at'[t] = label /\ obj'[t] = o /\ addr'[t] = k
    OBVIOUS
  <1>4. \A p \in Objects : hookLock'[p] = IF p = o THEN t ELSE hookLock[p]
    OBVIOUS
  <1>5. \A u \in Threads : at[u] \in Holding => obj[u] # o
    <2>1. SUFFICES ASSUME NEW u \in Threads, at[u] \in Holding, obj[u] = o
                   PROVE  FALSE
      OBVIOUS
    <2>2. hookLock[o] = u
      BY <2>1
    <2> QED BY <2>1, <2>2, NoThreadAssumption
  <1> QED BY <1>1, <1>2, <1>3, <1>4, <1>5

(* ... gives back the lock that it holds, *)
LEMMA LockReleased ==
    ASSUME TypeOK, LockInv, NEW t \in Threads, NEW label \in {"idle", "uninstall"},
           at[t] \in Holding, Release(t), Goto(t, label),
           NEW p, NEW k, Works(t, p, k), label = "uninstall" => p = obj[t]
    PROVE  LockInv'
  <1> USE DEF TypeOK, LockInv, Goto, Holding, AddLabels, RemoveLabels, Release, Works
  <1>1. obj[t] \in Objects /\ hookLock[obj[t]] = t
    OBVIOUS
  <1>2. \A u \in Threads : u # t =>
           at'[u] = at[u] /\ obj'[u] = obj[u] /\ addr'[u] = addr[u]
    OBVIOUS
  <1>3. at'[t] = label /\ obj'[t] = p
    OBVIOUS
  <1>4. \A o \in Objects : hookLock'[o] = IF o = obj[t] THEN NoThread ELSE hookLock[o]
    OBVIOUS
  <1>5. \A u \in Threads : u # t /\ at[u] \in Holding => obj[u] # obj[t]
    BY <1>1
  <1> QED BY <1>1, <1>2, <1>3, <1>4, <1>5

(* ... or has none and takes none. *)
LEMMA LockApart ==
    ASSUME TypeOK, LockInv, NEW t \in Threads, at[t] \notin Holding,
           NEW label \in {"idle", "uninstall", "uninstallHook"}, Goto(t, label),
           NEW p, NEW k, Works(t, p, k), UNCHANGED hookLock,
           label # "idle" => p \in Objects, label = "uninstallHook" => k \in Addr
    PROVE  LockInv'
  <1> USE DEF TypeOK, LockInv, Goto, Holding, AddLabels, RemoveLabels, Works
  <1>1. \A u \in Threads : u # t =>
           at'[u] = at[u] /\ obj'[u] = obj[u] /\ addr'[u] = addr[u]
    OBVIOUS
  <1>2. at'[t] = label /\ obj'[t] = p /\ addr'[t] = k
    OBVIOUS
  <1>3. \A o \in Objects : hookLock[o] # t
    BY NoThreadAssumption
  <1> QED BY <1>1, <1>2, <1>3

----------------------------------------------------------------------------
(* The counts *)

(* They agree after a step that leaves them alone, in which the holder of  *)
(* the lock neither begins to add nor ceases to remove.                    *)
LEMMA CountedKept ==
    ASSUME TypeOK, LockInv, NEW o \in Objects, NEW k \in Addr, Counted(o, k),
           hooks'[o] = hooks[o], hookLock'[o] = hookLock[o],
           Count(o, List(k)') = Count(o, List(k)),
           \A t \in Threads : hookLock[o] = t =>
              /\ addr'[t] = addr[t]
              /\ at'[t] \in AddLabels => at[t] \in AddLabels
              /\ at[t] \in RemoveLabels => at'[t] \in RemoveLabels
    PROVE  Counted(o, k)'
  <1>1. Count(k, hooks[o]) \in Nat /\ Count(o, List(k)) \in Nat
    BY ListType, CountType DEF TypeOK
  <1>2. hookLock[o] \in Threads \cup {NoThread}
    BY DEF TypeOK
  <1>3. Holds(o, k, AddLabels)' => Holds(o, k, AddLabels)
    BY <1>2 DEF Holds
  <1>4. Holds(o, k, RemoveLabels) => Holds(o, k, RemoveLabels)'
    BY <1>2 DEF Holds
  <1>5. Count(k, hooks[o]) + OneIf(Holds(o, k, AddLabels))
            <= Count(o, List(k)) + OneIf(Holds(o, k, RemoveLabels))
    BY DEF Counted
  <1>6. Count(k, hooks'[o]) + OneIf(Holds(o, k, AddLabels)')
            <= Count(o, List(k)') + OneIf(Holds(o, k, RemoveLabels)')
    BY <1>1, <1>3, <1>4, <1>5 DEF OneIf
  <1> QED BY <1>6 DEF Counted, OneIf

(* A step of one thread leaves the objects alone whose locks others hold.  *)
LEMMA CountedApart ==
    ASSUME TypeOK, LockInv, NEW o \in Objects, NEW k \in Addr, Counted(o, k),
           NEW t \in Threads, hookLock[o] # t,
           \A u \in Threads \ {t} : at'[u] = at[u] /\ addr'[u] = addr[u],
           hooks'[o] = hooks[o], hookLock'[o] = hookLock[o],
           Count(o, List(k)') = Count(o, List(k))
    PROVE  Counted(o, k)'
  <1>1. \A u \in Threads : hookLock[o] = u => at'[u] = at[u] /\ addr'[u] = addr[u]
    OBVIOUS
  <1> QED BY <1>1, CountedKept

(* The lock of the object that is counted is free after this step. *)
LEMMA CountedFree ==
    ASSUME NEW o \in Objects, NEW k \in Addr, hookLock'[o] = NoThread,
           Count(k, hooks'[o]) \in Nat, Count(o, List(k)') \in Nat,
           Count(k, hooks'[o]) <= Count(o, List(k)')
    PROVE  Counted(o, k)'
  BY DEF Counted, Holds, OneIf

(* add_hook: the registry has one more. *)
LEMMA BeginAddCounted ==
    ASSUME TypeOK, LockInv, CountInv, NEW t \in Threads, NEW o \in Objects, NEW k \in Addr,
           at[t] \notin Holding, BeginAdd(t, o, k), UNCHANGED hooks
    PROVE  CountInv'
  <1>1. SUFFICES ASSUME NEW p \in Objects, NEW a \in Addr
                 PROVE  Counted(p, a)'
    BY DEF CountInv
  <1>2. Counted(p, a)
    BY DEF CountInv
  <1>3. Count(p, List(a)') = Count(p, List(a)) + (IF p = o /\ a = k THEN 1 ELSE 0)
    <2>1. List(a)' = IF a = k THEN Append(List(k), o) ELSE List(a)
      BY ListAfter DEF BeginAdd, Register
    <2>2. Count(p, Append(List(k), o)) = Count(p, List(k)) + (IF o = p THEN 1 ELSE 0)
      BY ListType, CountAppend
    <2>3. Count(p, List(a)) \in Nat
      BY ListType, CountType
    <2> QED BY <2>1, <2>2, <2>3
  <1>4. \A u \in Threads \ {t} : at'[u] = at[u] /\ addr'[u] = addr[u]
    BY DEF BeginAdd, Works, Goto, TypeOK
  <1>5. Count(a, hooks[p]) \in Nat /\ Count(p, List(a)) \in Nat
    BY ListType, CountType DEF TypeOK
  <1>6. CASE p = o
    <2>1. /\ hookLock[o] = NoThread /\ hookLock'[o] = t /\ t # NoThread
          /\ addr'[t] = k /\ at'[t] = "addCheck"
      BY NoThreadAssumption DEF BeginAdd, Acquire, Works, Goto, TypeOK
    <2>2. Count(a, hooks[p]) <= Count(p, List(a))
      BY <1>2, <1>5, <1>6, <2>1 DEF Counted, Holds, OneIf
    <2>3. (Holds(p, a, AddLabels)' <=> a = k) /\ ~Holds(p, a, RemoveLabels)'
      BY <1>6, <2>1 DEF Holds, AddLabels, RemoveLabels
    <2> QED BY <1>3, <1>5, <1>6, <2>2, <2>3 DEF Counted, OneIf
  <1>7. CASE p # o
    <2>1. hookLock'[p] = hookLock[p] /\ hookLock[p] # t
      BY <1>7, NoThreadAssumption DEF BeginAdd, Acquire, TypeOK, LockInv
    <2>2. Count(p, List(a)') = Count(p, List(a))
      BY <1>3, <1>5, <1>7
    <2> QED BY <1>2, <1>4, <2>1, <2>2, CountedApart
  <1> QED BY <1>6, <1>7

(* remove_hook: the registry has one less, or the call raises. *)
LEMMA BeginRemoveCounted ==
    ASSUME TypeOK, LockInv, CountInv, NEW t \in Threads, NEW o \in Objects, NEW k \in Addr,
           at[t] \notin Holding, BeginRemove(t, o, k), UNCHANGED hooks
    PROVE  CountInv'
  <1>1. SUFFICES ASSUME NEW p \in Objects, NEW a \in Addr
                 PROVE  Counted(p, a)'
    BY DEF CountInv
  <1>2. Counted(p, a)
    BY DEF CountInv
  <1> DEFINE removed == p = o /\ a = k /\ Contains(List(k), o)
  <1>3. Count(p, List(a)') = Count(p, List(a)) - (IF removed THEN 1 ELSE 0)
    <2>1. List(a)' = IF a = k THEN RemoveFirst(List(k), o) ELSE List(a)
      BY ListAfter DEF BeginRemove, Unregister
    <2>2. Count(p, RemoveFirst(List(k), o))
              = Count(p, List(k)) - (IF p = o /\ Contains(List(k), o) THEN 1 ELSE 0)
      BY ListType, CountRemove
    <2>3. Count(p, List(a)) \in Nat
      BY ListType, CountType
    <2> QED BY <2>1, <2>2, <2>3
  <1>4. \A u \in Threads \ {t} : at'[u] = at[u] /\ addr'[u] = addr[u]
    BY DEF BeginRemove, Works, Goto, TypeOK
  <1>5. Count(a, hooks[p]) \in Nat /\ Count(p, List(a)) \in Nat
    BY ListType, CountType DEF TypeOK
  <1>6. CASE p = o
    <2>1. /\ hookLock[o] = NoThread /\ hookLock'[o] = t /\ t # NoThread /\ addr'[t] = k
          /\ at'[t] = IF Contains(List(k), o) THEN "removeCheck" ELSE "raised"
      BY NoThreadAssumption DEF BeginRemove, Acquire, Works, Goto, TypeOK
    <2>2. Count(a, hooks[p]) <= Count(p, List(a))
      BY <1>2, <1>5, <1>6, <2>1 DEF Counted, Holds, OneIf
    <2>3. ~Holds(p, a, AddLabels)' /\ (Holds(p, a, RemoveLabels)' <=> removed)
      BY <1>6, <2>1 DEF Holds, AddLabels, RemoveLabels
    <2> HIDE DEF removed
    <2> QED BY <1>3, <1>5, <2>2, <2>3 DEF Counted, OneIf
  <1>7. CASE p # o
    <2>1. hookLock'[p] = hookLock[p] /\ hookLock[p] # t
      BY <1>7, NoThreadAssumption DEF BeginRemove, Acquire, TypeOK, LockInv
    <2>2. Count(p, List(a)') = Count(p, List(a))
      BY <1>3, <1>5, <1>7
    <2> QED BY <1>2, <1>4, <2>1, <2>2, CountedApart
  <1> QED BY <1>6, <1>7

(* The end of a call: what the object remembers of the hook of the call    *)
(* catches up with the registry.                                           *)
LEMMA EndCounted ==
    ASSUME TypeOK, LockInv, CountInv, NEW t \in Threads, at[t] \in Holding,
           Release(t), UNCHANGED registry,
           \A u \in Threads \ {t} : at'[u] = at[u] /\ addr'[u] = addr[u],
           \A p \in Objects \ {obj[t]} : hooks'[p] = hooks[p],
           \A a \in Addr : Count(a, hooks'[obj[t]]) \in Nat
                           /\ Count(a, hooks'[obj[t]]) <= Count(obj[t], List(a))
    PROVE  CountInv'
  <1>1. SUFFICES ASSUME NEW p \in Objects, NEW a \in Addr
                 PROVE  Counted(p, a)'
    BY DEF CountInv
  <1>2. Counted(p, a)
    BY DEF CountInv
  <1>3. List(a)' = List(a)
    BY DEF List
  <1>4. obj[t] \in Objects
    BY DEF LockInv
  <1>5. CASE p = obj[t]
    <2>1. hookLock'[p] = NoThread
      BY <1>5 DEF Release, TypeOK
    <2>2. Count(p, List(a)') \in Nat
      BY <1>3, ListType, CountType
    <2>3. Count(a, hooks'[p]) \in Nat /\ Count(a, hooks'[p]) <= Count(p, List(a)')
      BY <1>3, <1>5
    <2> QED BY <2>1, <2>2, <2>3, CountedFree
  <1>6. CASE p # obj[t]
    <2>1. hookLock'[p] = hookLock[p] /\ hookLock[p] # t
      BY <1>6, NoThreadAssumption DEF Release, TypeOK, LockInv
    <2>2. hooks'[p] = hooks[p]
      BY <1>6
    <2> QED BY <1>2, <1>3, <2>1, <2>2, CountedApart
  <1> QED BY <1>5, <1>6

----------------------------------------------------------------------------
(* Each action keeps the invariant *)

LEMMA InvInit == Init => Inv
  <1> SUFFICES ASSUME Init
               PROVE  Inv
    OBVIOUS
  <1>1. TypeOK
    BY ManagerAssumption DEF Init, ManagerInit, TypeOK, Labels
  <1>2. LockInv
    BY DEF Init, ManagerInit, LockInv, Holding, AddLabels, RemoveLabels
  <1>3. HandlerInv
    BY DEF Init, ManagerInit, HandlerInv
  <1>4. ASSUME NEW o \in Objects, NEW k \in Addr
        PROVE  Counted(o, k)
    <2>1. hooks[o] = <<>> /\ List(k) = <<>> /\ hookLock[o] = NoThread
      BY DEF Init, ManagerInit, List
    <2>2. Count(k, <<>>) = 0 /\ Count(o, <<>>) = 0
      BY FS_EmptySet DEF Count
    <2> QED BY <2>1, <2>2 DEF Counted, Holds, OneIf
  <1> QED BY <1>1, <1>2, <1>3, <1>4 DEF Inv, TypeInv, CountInv

(* The handler changes the registry only by making an address a key. *)
LEMMA HandlerKeeps ==
    ASSUME Inv, OfObject(HandlerStep) \/ \E k \in Addr : Stop(k)
    PROVE  Inv'
  <1> USE DEF Inv, TypeInv, OfObject, objectVars, callVars
  <1>1. ASSUME NEW k \in Addr, Stop(k)
        PROVE  TypeOK' /\ HandlerInv' /\ UNCHANGED <<at, obj, addr, hooks, hookLock>>
               /\ \A a \in Addr : List(a)' = List(a)
    <2>1. registry' = WithList(k, List(k))
      BY <1>1 DEF Stop, Fire
    <2>2. /\ DOMAIN registry' \subseteq Addr
          /\ \A a \in DOMAIN registry' : registry'[a] \in Seq(Objects)
      BY <2>1, ListType, RegistryType
    <2>3. \A a \in Addr : List(a)' = List(a)
      BY <2>1, ListAfter
    <2> QED BY <1>1, <2>2, <2>3 DEF Stop, Fire, TypeOK, HandlerInv
  <1>2. ASSUME OfObject(HandlerStep)
        PROVE  TypeOK' /\ HandlerInv' /\ UNCHANGED <<at, obj, addr, hooks, hookLock>>
               /\ \A a \in Addr : List(a)' = List(a)
    <2>1. UNCHANGED <<registry, at, obj, addr, hooks, hookLock, index, replaced>>
      BY <1>2 DEF HandlerStep, RunNext, Join, RearmBegin, RearmSet, RearmDone, RearmRaises,
                  RearmCheck
    <2>2. \A a \in Addr : List(a)' = List(a)
      BY <2>1 DEF List
    <2>3. handler' \in {"idle", "next", "join", "rearm", "rearmSet", "dead"}
      BY <1>2 DEF HandlerStep, RunNext, Join, RearmBegin, RearmSet, RearmDone, RearmRaises,
                  RearmCheck, TypeOK
    <2>4. hit' \in Addr \cup {NoAddr} /\ HandlerInv'
      BY <1>2 DEF HandlerStep, RunNext, Join, RearmBegin, RearmSet, RearmDone, RearmRaises,
                  RearmCheck, TypeOK, HandlerInv
    <2>5. bps' \subseteq Addr \ Refused
      BY <1>2 DEF HandlerStep, RunNext, Join, RearmBegin, RearmSet, RearmDone, RearmRaises,
                  RearmCheck, TypeOK, HandlerInv
    <2> QED BY <2>1, <2>2, <2>3, <2>4, <2>5 DEF TypeOK
  <1>3. /\ TypeOK' /\ HandlerInv' /\ UNCHANGED <<at, obj, addr, hooks, hookLock>>
        /\ \A a \in Addr : List(a)' = List(a)
    BY <1>1, <1>2
  <1>4. LockInv'
    BY <1>3 DEF LockInv
  <1>5. CountInv'
    <2>1. SUFFICES ASSUME NEW o \in Objects, NEW k \in Addr
                   PROVE  Counted(o, k)'
      BY DEF CountInv
    <2>2. Counted(o, k)
      BY DEF CountInv
    <2> QED BY <1>3, <2>2, CountedKept
  <1> QED BY <1>3, <1>4, <1>5

(* Steps between the checks of the registry and of the backend *)
LEMMA MiddleKeeps ==
    ASSUME Inv, NEW t \in Threads,
           \/ OfObject(AddCheck(t)) \/ OfObject(AddSet(t))
           \/ OfObject(RemoveCheck(t)) \/ OfObject(RemoveDel(t))
    PROVE  Inv'
  <1> USE DEF Inv, TypeInv, OfObject, objectVars, dispatchVars
  <1>1. /\ UNCHANGED <<registry, obj, addr, hooks, hookLock, index, replaced, handler, hit, todo>>
        /\ \E label \in Labels :
              /\ Goto(t, label)
              /\ label \in Holding /\ at[t] \in Holding
              /\ label \in AddLabels => at[t] \in AddLabels
              /\ at[t] \in RemoveLabels => label \in RemoveLabels
    BY DEF AddCheck, AddSet, RemoveCheck, RemoveDel, Labels, Holding, AddLabels, RemoveLabels
  <1>2. PICK label \in Labels :
              /\ Goto(t, label)
              /\ label \in Holding /\ at[t] \in Holding
              /\ label \in AddLabels => at[t] \in AddLabels
              /\ at[t] \in RemoveLabels => label \in RemoveLabels
    BY <1>1
  <1>3. addr[t] \in Addr
    BY <1>2 DEF LockInv
  <1>4. bps' \subseteq Addr \ Refused
    BY <1>3 DEF AddCheck, AddSet, RemoveCheck, RemoveDel, TypeOK
  <1>5. TypeOK'
    BY <1>1, <1>2, <1>4 DEF TypeOK, Goto
  <1>6. LockInv'
    BY <1>1, <1>2, LockKept
  <1>7. HandlerInv'
    BY <1>1 DEF HandlerInv
  <1>8. CountInv'
    <2>1. SUFFICES ASSUME NEW o \in Objects, NEW k \in Addr
                   PROVE  Counted(o, k)'
      BY DEF CountInv
    <2>2. Counted(o, k) /\ List(k)' = List(k)
      BY <1>1 DEF CountInv, List
    <2>3. \A u \in Threads :
              /\ addr'[u] = addr[u]
              /\ at'[u] \in AddLabels => at[u] \in AddLabels
              /\ at[u] \in RemoveLabels => at'[u] \in RemoveLabels
      BY <1>1, <1>2 DEF Goto, TypeOK
    <2> QED BY <1>1, <2>2, <2>3, CountedKept
  <1> QED BY <1>5, <1>6, <1>7, <1>8

(* add_hook begins, called by the program or by a callback class. *)
LEMMA BeginAddKeeps ==
    ASSUME Inv, NEW t \in Threads, NEW o \in Objects, NEW k \in Addr,
           at[t] \notin Holding, BeginAdd(t, o, k),
           UNCHANGED <<bps, dispatchVars, hooks, index, replaced>>
    PROVE  Inv'
  <1> USE DEF Inv, TypeInv, dispatchVars
  <1>1. at[t] \notin Holding
    OBVIOUS
  <1>2. TypeOK'
    <2>1. Append(List(k), o) \in Seq(Objects)
      BY ListType, CountAppend
    <2>2. /\ DOMAIN registry' \subseteq Addr
          /\ \A a \in DOMAIN registry' : registry'[a] \in Seq(Objects)
      BY <2>1, RegistryType DEF BeginAdd, Register
    <2> QED BY <2>2 DEF TypeOK, BeginAdd, Acquire, Works, Goto, Labels
  <1>3. LockInv'
    <2>1. "addCheck" \in Holding
      BY DEF Holding, AddLabels
    <2> QED BY <1>1, <2>1, LockTaken DEF BeginAdd
  <1>4. HandlerInv'
    BY DEF HandlerInv
  <1>5. CountInv'
    BY <1>1, BeginAddCounted
  <1> QED BY <1>2, <1>3, <1>4, <1>5

(* remove_hook begins, called by the program or by uninstall. *)
LEMMA BeginRemoveKeeps ==
    ASSUME Inv, NEW t \in Threads, NEW o \in Objects, NEW k \in Addr,
           at[t] \notin Holding, BeginRemove(t, o, k),
           UNCHANGED <<bps, dispatchVars, hooks, index, replaced>>
    PROVE  Inv'
  <1> USE DEF Inv, TypeInv, dispatchVars
  <1> DEFINE label == IF Contains(List(k), o) THEN "removeCheck" ELSE "raised"
  <1>1. label \in Holding /\ label \in Labels
    BY DEF Holding, RemoveLabels, Labels
  <1>2. TypeOK'
    <2>1. RemoveFirst(List(k), o) \in Seq(Objects)
      BY ListType, CountRemove
    <2>2. /\ DOMAIN registry' \subseteq Addr
          /\ \A a \in DOMAIN registry' : registry'[a] \in Seq(Objects)
      BY <2>1, RegistryType DEF BeginRemove, Unregister
    <2> QED BY <1>1, <2>2 DEF TypeOK, BeginRemove, Acquire, Works, Goto
  <1>3. LockInv'
    BY <1>1, LockTaken DEF BeginRemove
  <1>4. HandlerInv'
    BY DEF HandlerInv
  <1>5. CountInv'
    BY BeginRemoveCounted
  <1> QED BY <1>2, <1>3, <1>4, <1>5

(* add_hook remembers the hook. *)
LEMMA AddDoneKeeps ==
    ASSUME Inv, NEW t \in Threads, AddDone(t)
    PROVE  Inv'
  <1> USE DEF Inv, TypeInv, AddDone, dispatchVars
  <1>1. at[t] \in Holding /\ obj[t] \in Objects /\ addr[t] \in Addr /\ hookLock[obj[t]] = t
    BY DEF LockInv, Holding, AddLabels
  <1>2. TypeOK'
    <2>1. Append(hooks[obj[t]], addr[t]) \in Seq(Addr)
      BY <1>1, CountAppend DEF TypeOK
    <2> QED BY <1>1, <2>1 DEF TypeOK, Release, Rests, Works, Goto, Labels
  <1>3. LockInv'
    BY <1>1, LockReleased DEF Rests
  <1>4. HandlerInv'
    BY DEF HandlerInv
  <1>5. ASSUME NEW a \in Addr
        PROVE  /\ Count(a, hooks'[obj[t]]) \in Nat
               /\ Count(a, hooks'[obj[t]]) <= Count(obj[t], List(a))
    <2>1. hooks'[obj[t]] = Append(hooks[obj[t]], addr[t])
      BY <1>1 DEF TypeOK
    <2>2. Count(a, hooks'[obj[t]]) = Count(a, hooks[obj[t]]) + (IF addr[t] = a THEN 1 ELSE 0)
      BY <1>1, <2>1, CountAppend DEF TypeOK
    <2>3. Count(a, hooks[obj[t]]) \in Nat /\ Count(obj[t], List(a)) \in Nat
      BY <1>1, ListType, CountType DEF TypeOK
    <2>4. Counted(obj[t], a)
      BY <1>1 DEF CountInv
    <2>5. /\ Holds(obj[t], a, AddLabels) <=> addr[t] = a
          /\ ~Holds(obj[t], a, RemoveLabels)
      BY <1>1, NoThreadAssumption DEF Holds, AddLabels, RemoveLabels
    <2> QED BY <2>2, <2>3, <2>4, <2>5 DEF Counted, OneIf
  <1>6. \A u \in Threads \ {t} : at'[u] = at[u] /\ addr'[u] = addr[u]
    BY DEF Rests, Works, Goto, TypeOK
  <1>7. \A p \in Objects \ {obj[t]} : hooks'[p] = hooks[p]
    BY DEF TypeOK
  <1>8. CountInv'
    BY <1>1, <1>5, <1>6, <1>7, EndCounted
  <1> QED BY <1>2, <1>3, <1>4, <1>8

(* remove_hook forgets the hook. *)
LEMMA RemoveDoneKeeps ==
    ASSUME Inv, NEW t \in Threads, RemoveDone(t)
    PROVE  Inv'
  <1> USE DEF Inv, TypeInv, RemoveDone, dispatchVars
  <1>1. at[t] \in Holding /\ obj[t] \in Objects /\ addr[t] \in Addr /\ hookLock[obj[t]] = t
    BY DEF LockInv, Holding, RemoveLabels
  <1>2. \E label \in {"idle", "uninstall"}, p \in {obj[t], NoObject} :
            Goto(t, label) /\ Works(t, p, NoAddr) /\ (label = "uninstall" => p = obj[t])
    BY DEF Rests
  <1>3. PICK label \in {"idle", "uninstall"}, p \in {obj[t], NoObject} :
            Goto(t, label) /\ Works(t, p, NoAddr) /\ (label = "uninstall" => p = obj[t])
    BY <1>2
  <1>4. TypeOK'
    <2>1. RemoveFirst(hooks[obj[t]], addr[t]) \in Seq(Addr)
      BY <1>1, CountRemove DEF TypeOK
    <2>2. hooks' \in [Objects -> Seq(Addr)]
      BY <1>1, <2>1 DEF TypeOK
    <2> QED BY <1>1, <1>3, <2>2 DEF TypeOK, Release, Works, Goto, Labels
  <1>5. LockInv'
    BY <1>1, <1>3, LockReleased
  <1>6. HandlerInv'
    BY DEF HandlerInv
  <1>7. ASSUME NEW a \in Addr
        PROVE  /\ Count(a, hooks'[obj[t]]) \in Nat
               /\ Count(a, hooks'[obj[t]]) <= Count(obj[t], List(a))
    <2> DEFINE l == hooks[obj[t]]
    <2>0. l \in Seq(Addr)
      BY <1>1 DEF TypeOK
    <2>1. hooks'[obj[t]] = RemoveFirst(l, addr[t])
      BY <1>1 DEF TypeOK
    <2>2. /\ RemoveFirst(l, addr[t]) \in Seq(Addr)
          /\ Count(a, RemoveFirst(l, addr[t]))
                = Count(a, l) - (IF a = addr[t] /\ Contains(l, addr[t]) THEN 1 ELSE 0)
          /\ ~Contains(l, addr[t]) => Count(addr[t], l) = 0
      BY <2>0, CountRemove
    <2>3. /\ Count(a, l) \in Nat /\ Count(obj[t], List(a)) \in Nat
          /\ Count(a, RemoveFirst(l, addr[t])) \in Nat
      BY <2>0, <2>2, ListType, CountType
    <2>4. Counted(obj[t], a)
      BY <1>1 DEF CountInv
    <2>5. /\ ~Holds(obj[t], a, AddLabels)
          /\ Holds(obj[t], a, RemoveLabels) <=> addr[t] = a
      BY <1>1, NoThreadAssumption DEF Holds, AddLabels, RemoveLabels
    <2>6. Count(a, l) <= Count(obj[t], List(a)) + (IF addr[t] = a THEN 1 ELSE 0)
      BY <2>3, <2>4, <2>5 DEF Counted, OneIf
    <2> HIDE DEF l
    <2> QED BY <2>1, <2>2, <2>3, <2>6
  <1>8. \A u \in Threads \ {t} : at'[u] = at[u] /\ addr'[u] = addr[u]
    BY <1>3 DEF Works, Goto, TypeOK
  <1>9. \A q \in Objects \ {obj[t]} : hooks'[q] = hooks[q]
    BY DEF TypeOK
  <1>10. CountInv'
    BY <1>1, <1>7, <1>8, <1>9, EndCounted
  <1> QED BY <1>4, <1>5, <1>6, <1>10

(* A call that raises leaves the registry with at least what the object    *)
(* remembers.                                                              *)
LEMMA RaisedKeeps ==
    ASSUME Inv, NEW t \in Threads, Raised(t)
    PROVE  Inv'
  <1> USE DEF Inv, TypeInv, Raised, dispatchVars
  <1>1. at[t] \in Holding /\ obj[t] \in Objects /\ hookLock[obj[t]] = t
    BY DEF LockInv, Holding
  <1>2. TypeOK'
    BY <1>1 DEF TypeOK, Release, Rests, Works, Goto, Labels
  <1>3. LockInv'
    BY <1>1, LockReleased DEF Rests
  <1>4. HandlerInv'
    BY DEF HandlerInv
  <1>5. ASSUME NEW a \in Addr
        PROVE  /\ Count(a, hooks'[obj[t]]) \in Nat
               /\ Count(a, hooks'[obj[t]]) <= Count(obj[t], List(a))
    <2>1. Count(a, hooks[obj[t]]) \in Nat /\ Count(obj[t], List(a)) \in Nat
      BY <1>1, ListType, CountType DEF TypeOK
    <2>2. Counted(obj[t], a)
      BY <1>1 DEF CountInv
    <2>3. ~Holds(obj[t], a, AddLabels) /\ ~Holds(obj[t], a, RemoveLabels)
      BY <1>1, NoThreadAssumption DEF Holds, AddLabels, RemoveLabels
    <2> QED BY <2>1, <2>2, <2>3 DEF Counted, OneIf
  <1>6. \A u \in Threads \ {t} : at'[u] = at[u] /\ addr'[u] = addr[u]
    BY DEF Rests, Works, Goto, TypeOK
  <1>7. CountInv'
    BY <1>1, <1>5, <1>6, EndCounted
  <1> QED BY <1>2, <1>3, <1>4, <1>7

(* The list of a loop of uninstall is one of addresses, replaced or not. *)
LEMMA LoopedType ==
    ASSUME TypeOK, NEW t \in Threads, obj[t] \in Objects \/ t \in DOMAIN replaced
    PROVE  Looped(t) \in Seq(Addr)
  BY DEF TypeOK, Looped

(* uninstall outside of remove_hook holds no lock. *)
LEMMA UninstallKeeps ==
    ASSUME Inv, NEW t \in Threads,
           \/ \E o \in Objects : Uninstall(t, o)
           \/ UninstallNext(t)
    PROVE  Inv'
  <1> USE DEF Inv, TypeInv, dispatchVars, objectVars
  <1> DEFINE Moves(label, o, k) ==
                /\ Goto(t, label) /\ Works(t, o, k)
                /\ label = "uninstallHook" => k \in Addr
             Moved ==
                /\ at[t] \notin Holding
                /\ index' \in [Threads -> Nat]
                /\ DOMAIN replaced' \subseteq Threads
                /\ \A u \in DOMAIN replaced' : replaced'[u] \in Seq(Addr)
                /\ \E label \in {"uninstall", "uninstallHook"}, o \in Objects,
                       k \in Addr \cup {NoAddr} : Moves(label, o, k)
  <1>1. UNCHANGED <<registry, bps, hooks, hookLock, handler, hit, todo>> /\ Moved
    <2>1. ASSUME NEW o \in Objects, Uninstall(t, o)
          PROVE  Moved
      BY <2>1 DEF Uninstall, CanCall, Holding, AddLabels, RemoveLabels, TypeOK, Restrict
    <2>2. ASSUME UninstallNext(t)
          PROVE  Moved
      <3>1. obj[t] \in Objects /\ index[t] \in Nat /\ Looped(t) \in Seq(Addr)
        BY <2>2, LoopedType DEF UninstallNext, LockInv, TypeOK
      <3>2. Looped(t)[index[t] + 1] \in Addr
        BY <2>2, <3>1 DEF UninstallNext
      <3>3. obj' = [obj EXCEPT ![t] = obj[t]]
        BY <2>2 DEF UninstallNext, TypeOK
      <3>4. Goto(t, "uninstallHook") /\ Works(t, obj[t], Looped(t)[index[t] + 1])
        BY <2>2, <3>3 DEF UninstallNext, Works
      <3> QED BY <2>2, <3>1, <3>2, <3>4
              DEF UninstallNext, Holding, AddLabels, RemoveLabels, TypeOK
    <2>3. UNCHANGED <<registry, bps, hooks, hookLock, handler, hit, todo>>
      BY DEF Uninstall, UninstallNext
    <2> QED BY <2>1, <2>2, <2>3
  <1>2. PICK label \in {"uninstall", "uninstallHook"}, o \in Objects, k \in Addr \cup {NoAddr} :
            Moves(label, o, k)
    BY <1>1
  <1>3. TypeOK'
    BY <1>1, <1>2 DEF TypeOK, Goto, Works, Labels
  <1>4. LockInv'
    BY <1>1, <1>2, LockApart
  <1>5. HandlerInv'
    BY <1>1 DEF HandlerInv
  <1>6. CountInv'
    <2>1. SUFFICES ASSUME NEW p \in Objects, NEW a \in Addr
                   PROVE  Counted(p, a)'
      BY DEF CountInv
    <2>2. Counted(p, a) /\ List(a)' = List(a)
      BY <1>1 DEF CountInv, List
    <2>3. hookLock[p] # t
      BY <1>1, NoThreadAssumption DEF LockInv
    <2>4. \A u \in Threads \ {t} : at'[u] = at[u] /\ addr'[u] = addr[u]
      BY <1>2 DEF Goto, Works, TypeOK
    <2> QED BY <1>1, <2>2, <2>3, <2>4, CountedApart
  <1> QED BY <1>3, <1>4, <1>5, <1>6

(* uninstall forgets all that is left, while nobody holds the lock. *)
LEMMA UninstallDoneKeeps ==
    ASSUME Inv, NEW t \in Threads, UninstallDone(t)
    PROVE  Inv'
  <1> USE DEF Inv, TypeInv, UninstallDone, dispatchVars
  <1>1. obj[t] \in Objects /\ at[t] \notin Holding
    BY DEF LockInv, Holding, AddLabels, RemoveLabels
  <1>2. TypeOK'
    <2>1. /\ DOMAIN replaced' \subseteq Threads
          /\ \A u \in DOMAIN replaced' : obj[u] \in Objects \/ u \in DOMAIN replaced
          /\ \A u \in DOMAIN replaced' : replaced'[u] = Looped(u)
      BY <1>1 DEF TypeOK, Looping
    <2>2. \A u \in DOMAIN replaced' : replaced'[u] \in Seq(Addr)
      BY <2>1, LoopedType
    <2>3. index' \in [Threads -> Nat] /\ hooks' \in [Objects -> Seq(Addr)]
      BY <1>1 DEF TypeOK
    <2>4. \E label \in Labels, o \in Objects \cup {NoObject}, k \in Addr \cup {NoAddr} :
              Goto(t, label) /\ Works(t, o, k)
      BY DEF Rests, Labels
    <2>5. /\ at' \in [Threads -> Labels]
          /\ obj' \in [Threads -> Objects \cup {NoObject}]
          /\ addr' \in [Threads -> Addr \cup {NoAddr}]
      BY <2>4 DEF TypeOK, Works, Goto
    <2>6. UNCHANGED <<registry, bps, handler, hit, hookLock>>
      OBVIOUS
    <2> QED BY ONLY TypeOK, <2>1, <2>2, <2>3, <2>5, <2>6 DEF TypeOK
  <1>3. LockInv'
    BY <1>1, LockApart DEF Rests
  <1>4. HandlerInv'
    BY DEF HandlerInv
  <1>5. CountInv'
    <2>1. SUFFICES ASSUME NEW p \in Objects, NEW a \in Addr
                   PROVE  Counted(p, a)'
      BY DEF CountInv
    <2>2. Counted(p, a) /\ List(a)' = List(a)
      BY DEF CountInv, List
    <2>3. CASE p = obj[t]
      <3>1. hooks'[p] = <<>> /\ hookLock'[p] = NoThread
        BY <1>1, <2>3 DEF TypeOK
      <3>2. Count(a, <<>>) = 0
        BY FS_EmptySet DEF Count
      <3>3. Count(p, List(a)) \in Nat
        BY ListType, CountType
      <3> QED BY <2>2, <3>1, <3>2, <3>3, CountedFree
    <2>4. CASE p # obj[t]
      <3>1. hooks'[p] = hooks[p] /\ hookLock'[p] = hookLock[p] /\ hookLock[p] # t
        BY <1>1, <2>4, NoThreadAssumption DEF TypeOK, LockInv
      <3>2. \A u \in Threads \ {t} : at'[u] = at[u] /\ addr'[u] = addr[u]
        BY DEF Rests, Goto, Works, TypeOK
      <3> QED BY <2>2, <3>1, <3>2, CountedApart
    <2> QED BY <2>3, <2>4
  <1> QED BY <1>2, <1>3, <1>4, <1>5

----------------------------------------------------------------------------

LEMMA InvNext == Inv /\ [Next]_vars => Inv'
  <1> SUFFICES ASSUME Inv, [Next]_vars
               PROVE  Inv'
    OBVIOUS
  <1>1. CASE UNCHANGED vars
    BY <1>1 DEF vars, dispatchVars, callVars, objectVars, Inv, TypeInv, TypeOK, LockInv, HandlerInv,
                CountInv, Counted, Holds, List
  <1>2. CASE \E k \in Addr : Stop(k)
    BY <1>2, HandlerKeeps
  <1>3. CASE OfObject(HandlerStep)
    BY <1>3, HandlerKeeps
  <1>4. ASSUME NEW t \in Threads, Call(t)
        PROVE  Inv'
    <2>1. CASE \E o \in Objects : Uninstall(t, o)
      BY <2>1, UninstallKeeps
    <2>2. ASSUME NEW o \in Objects, NEW k \in Addr, AddHook(t, o, k)
          PROVE  Inv'
      <3>1. at[t] \notin Holding
        BY <2>2 DEF AddHook, CanCall, Holding, AddLabels, RemoveLabels
      <3> QED BY <2>2, <3>1, BeginAddKeeps DEF AddHook
    <2>3. ASSUME NEW o \in Objects, NEW k \in Addr, RemoveHook(t, o, k)
          PROVE  Inv'
      <3>1. at[t] \notin Holding
        BY <2>3 DEF RemoveHook, CanCall, Holding, AddLabels, RemoveLabels
      <3> QED BY <2>3, <3>1, BeginRemoveKeeps DEF RemoveHook
    <2> QED BY <1>4, <2>1, <2>2, <2>3 DEF Call
  <1>5. ASSUME NEW t \in Threads, ThreadStep(t)
        PROVE  Inv'
    <2>1. CASE \/ OfObject(AddCheck(t)) \/ OfObject(AddSet(t))
               \/ OfObject(RemoveCheck(t)) \/ OfObject(RemoveDel(t))
      BY <2>1, MiddleKeeps
    <2>2. CASE AddDone(t)
      BY <2>2, AddDoneKeeps
    <2>3. CASE Raised(t)
      BY <2>3, RaisedKeeps
    <2>4. CASE RemoveDone(t)
      BY <2>4, RemoveDoneKeeps
    <2>5. CASE UninstallNext(t)
      BY <2>5, UninstallKeeps
    <2>6. CASE UninstallHook(t)
      <3>1. at[t] \notin Holding /\ obj[t] \in Objects /\ addr[t] \in Addr
        BY <2>6 DEF UninstallHook, Inv, TypeInv, LockInv, Holding, AddLabels, RemoveLabels
      <3> QED BY <2>6, <3>1, BeginRemoveKeeps DEF UninstallHook
    <2>7. CASE UninstallDone(t)
      BY <2>7, UninstallDoneKeeps
    <2> QED BY <1>5, <2>1, <2>2, <2>3, <2>4, <2>5, <2>6, <2>7 DEF ThreadStep
  <1> QED BY <1>1, <1>2, <1>3, <1>4, <1>5 DEF Next

(* The registry, the lists of hooks and the handler's variables have their *)
(* types in every execution: an address that is set in the backend is one  *)
(* that it does not refuse, and every lock has a holder or none            *)
(* (callback.py, callback_manager.py).                                     *)
THEOREM TypeCorrect == Spec => []TypeOK
  <1>1. Inv => TypeOK
    BY DEF Inv, TypeInv
  <1> QED BY InvInit, InvNext, <1>1, PTL DEF Spec

(* Between calls the counts say what the property does. *)
LEMMA InvRegistered == Inv => HooksRegistered
  <1> SUFFICES ASSUME Inv, NEW o \in Objects, NEW k \in Addr, AtRest(o)
               PROVE  Count(k, hooks[o]) <= Count(o, List(k))
    BY DEF HooksRegistered
  <1>1. hookLock[o] = NoThread
    BY DEF Inv, TypeInv, TypeOK, LockInv, AtRest
  <1>2. Counted(o, k)
    BY DEF Inv, CountInv
  <1>3. Count(k, hooks[o]) \in Nat /\ Count(o, List(k)) \in Nat
    BY ListType, CountType DEF Inv, TypeInv, TypeOK
  <1> QED BY <1>1, <1>2, <1>3 DEF Counted, Holds, OneIf

(* Whatever threads add, remove and uninstall at once, also when a         *)
(* breakpoint is refused in the middle of a call or the handler runs:      *)
(* every hook that an object remembers is registered, once for each time   *)
(* it was added (callback.py:39-43, 64).                                   *)
THEOREM HooksStayRegistered == Spec => []HooksRegistered
  BY InvInit, InvNext, InvRegistered, PTL DEF Spec

----------------------------------------------------------------------------
(***************************************************************************)
(* Programs that keep to a rule: the properties that break without it (see *)
(* README, section 3).  Each theorem below names the rules it needs as its *)
(* assumptions.                                                            *)
(***************************************************************************)

----------------------------------------------------------------------------
(* What objects remember is what is registered.  CountInv says that it is  *)
(* no more; if no breakpoint is refused and no loop of uninstall() passes  *)
(* over a hook, it is no less.                                             *)

Tracked(o, k) ==
    Count(k, hooks[o]) + OneIf(Holds(o, k, AddLabels))
        = Count(o, List(k)) + OneIf(Holds(o, k, RemoveLabels))
TrackInv == \A o \in Objects, k \in Addr : Tracked(o, k)

(* A step in which the holder of the lock neither begins nor ceases to add *)
(* or to remove                                                            *)
LEMMA TrackedKept ==
    ASSUME TypeOK, NEW o \in Objects, NEW k \in Addr, Tracked(o, k),
           hooks'[o] = hooks[o], hookLock'[o] = hookLock[o],
           Count(o, List(k)') = Count(o, List(k)),
           \A t \in Threads : hookLock[o] = t =>
              /\ addr'[t] = addr[t]
              /\ at'[t] \in AddLabels <=> at[t] \in AddLabels
              /\ at[t] \in RemoveLabels <=> at'[t] \in RemoveLabels
    PROVE  Tracked(o, k)'
  <1>1. hookLock[o] \in Threads \cup {NoThread}
    BY DEF TypeOK
  <1>2. /\ Holds(o, k, AddLabels)' <=> Holds(o, k, AddLabels)
        /\ Holds(o, k, RemoveLabels)' <=> Holds(o, k, RemoveLabels)
    BY <1>1 DEF Holds
  <1>3. /\ OneIf(Holds(o, k, AddLabels)') = OneIf(Holds(o, k, AddLabels))
        /\ OneIf(Holds(o, k, RemoveLabels)') = OneIf(Holds(o, k, RemoveLabels))
    BY <1>2 DEF OneIf
  <1>4. Count(k, hooks'[o]) + OneIf(Holds(o, k, AddLabels)')
            = Count(o, List(k)') + OneIf(Holds(o, k, RemoveLabels)')
    BY <1>3 DEF Tracked
  <1> QED BY <1>4 DEF Tracked, OneIf

(* A step of a thread that does not hold the lock of the object *)
LEMMA TrackedApart ==
    ASSUME TypeOK, NEW o \in Objects, NEW k \in Addr, Tracked(o, k),
           NEW t \in Threads, hookLock[o] # t,
           \A u \in Threads \ {t} : at'[u] = at[u] /\ addr'[u] = addr[u],
           hooks'[o] = hooks[o], hookLock'[o] = hookLock[o],
           Count(o, List(k)') = Count(o, List(k))
    PROVE  Tracked(o, k)'
  <1>1. \A u \in Threads : hookLock[o] = u => at'[u] = at[u] /\ addr'[u] = addr[u]
    OBVIOUS
  <1> QED BY <1>1, TrackedKept

LEMMA BeginAddTracked ==
    ASSUME TypeOK, LockInv, TrackInv, NEW t \in Threads, NEW o \in Objects, NEW k \in Addr,
           at[t] \notin Holding, BeginAdd(t, o, k), UNCHANGED hooks
    PROVE  TrackInv'
  <1>1. SUFFICES ASSUME NEW p \in Objects, NEW a \in Addr
                 PROVE  Tracked(p, a)'
    BY DEF TrackInv
  <1>2. Tracked(p, a)
    BY DEF TrackInv
  <1>3. Count(p, List(a)') = Count(p, List(a)) + (IF p = o /\ a = k THEN 1 ELSE 0)
    <2>1. List(a)' = IF a = k THEN Append(List(k), o) ELSE List(a)
      BY ListAfter DEF BeginAdd, Register
    <2>2. Count(p, Append(List(k), o)) = Count(p, List(k)) + (IF o = p THEN 1 ELSE 0)
      BY ListType, CountAppend
    <2>3. Count(p, List(a)) \in Nat
      BY ListType, CountType
    <2> QED BY <2>1, <2>2, <2>3
  <1>4. \A u \in Threads \ {t} : at'[u] = at[u] /\ addr'[u] = addr[u]
    BY DEF BeginAdd, Works, Goto, TypeOK
  <1>5. Count(a, hooks[p]) \in Nat /\ Count(p, List(a)) \in Nat
    BY ListType, CountType DEF TypeOK
  <1>6. CASE p = o
    <2>1. /\ hookLock[o] = NoThread /\ hookLock'[o] = t /\ t # NoThread
          /\ addr'[t] = k /\ at'[t] = "addCheck"
      BY NoThreadAssumption DEF BeginAdd, Acquire, Works, Goto, TypeOK
    <2>2. Count(a, hooks[p]) = Count(p, List(a))
      BY <1>2, <1>5, <1>6, <2>1 DEF Tracked, Holds, OneIf
    <2>3. (Holds(p, a, AddLabels)' <=> a = k) /\ ~Holds(p, a, RemoveLabels)'
      BY <1>6, <2>1 DEF Holds, AddLabels, RemoveLabels
    <2> QED BY <1>3, <1>5, <1>6, <2>2, <2>3 DEF Tracked, OneIf
  <1>7. CASE p # o
    <2>1. hookLock'[p] = hookLock[p] /\ hookLock[p] # t
      BY <1>7, NoThreadAssumption DEF BeginAdd, Acquire, TypeOK, LockInv
    <2>2. Count(p, List(a)') = Count(p, List(a))
      BY <1>3, <1>5, <1>7
    <2> QED BY <1>2, <1>4, <2>1, <2>2, TrackedApart
  <1> QED BY <1>6, <1>7

LEMMA BeginRemoveTracked ==
    ASSUME TypeOK, LockInv, TrackInv, NEW t \in Threads, NEW o \in Objects, NEW k \in Addr,
           at[t] \notin Holding, BeginRemove(t, o, k), UNCHANGED hooks
    PROVE  TrackInv'
  <1>1. SUFFICES ASSUME NEW p \in Objects, NEW a \in Addr
                 PROVE  Tracked(p, a)'
    BY DEF TrackInv
  <1>2. Tracked(p, a)
    BY DEF TrackInv
  <1> DEFINE removed == p = o /\ a = k /\ Contains(List(k), o)
  <1>3. Count(p, List(a)') = Count(p, List(a)) - (IF removed THEN 1 ELSE 0)
    <2>1. List(a)' = IF a = k THEN RemoveFirst(List(k), o) ELSE List(a)
      BY ListAfter DEF BeginRemove, Unregister
    <2>2. Count(p, RemoveFirst(List(k), o))
              = Count(p, List(k)) - (IF p = o /\ Contains(List(k), o) THEN 1 ELSE 0)
      BY ListType, CountRemove
    <2>3. Count(p, List(a)) \in Nat
      BY ListType, CountType
    <2> QED BY <2>1, <2>2, <2>3
  <1>4. \A u \in Threads \ {t} : at'[u] = at[u] /\ addr'[u] = addr[u]
    BY DEF BeginRemove, Works, Goto, TypeOK
  <1>5. Count(a, hooks[p]) \in Nat /\ Count(p, List(a)) \in Nat
    BY ListType, CountType DEF TypeOK
  <1>6. CASE p = o
    <2>1. /\ hookLock[o] = NoThread /\ hookLock'[o] = t /\ t # NoThread /\ addr'[t] = k
          /\ at'[t] = IF Contains(List(k), o) THEN "removeCheck" ELSE "raised"
      BY NoThreadAssumption DEF BeginRemove, Acquire, Works, Goto, TypeOK
    <2>2. Count(a, hooks[p]) = Count(p, List(a))
      BY <1>2, <1>5, <1>6, <2>1 DEF Tracked, Holds, OneIf
    <2>3. ~Holds(p, a, AddLabels)' /\ (Holds(p, a, RemoveLabels)' <=> removed)
      BY <1>6, <2>1 DEF Holds, AddLabels, RemoveLabels
    <2> HIDE DEF removed
    <2> QED BY <1>3, <1>5, <2>2, <2>3 DEF Tracked, OneIf
  <1>7. CASE p # o
    <2>1. hookLock'[p] = hookLock[p] /\ hookLock[p] # t
      BY <1>7, NoThreadAssumption DEF BeginRemove, Acquire, TypeOK, LockInv
    <2>2. Count(p, List(a)') = Count(p, List(a))
      BY <1>3, <1>5, <1>7
    <2> QED BY <1>2, <1>4, <2>1, <2>2, TrackedApart
  <1> QED BY <1>6, <1>7

(* The end of a call gives back the lock. *)
LEMMA EndTracked ==
    ASSUME TypeOK, LockInv, TrackInv, NEW t \in Threads, at[t] \in Holding,
           Release(t), UNCHANGED registry,
           \A u \in Threads \ {t} : at'[u] = at[u] /\ addr'[u] = addr[u],
           \A p \in Objects \ {obj[t]} : hooks'[p] = hooks[p],
           \A a \in Addr : Count(a, hooks'[obj[t]]) = Count(obj[t], List(a))
    PROVE  TrackInv'
  <1>1. SUFFICES ASSUME NEW p \in Objects, NEW a \in Addr
                 PROVE  Tracked(p, a)'
    BY DEF TrackInv
  <1>2. Tracked(p, a)
    BY DEF TrackInv
  <1>3. List(a)' = List(a)
    BY DEF List
  <1>4. obj[t] \in Objects
    BY DEF LockInv
  <1>5. CASE p = obj[t]
    <2>1. hookLock'[p] = NoThread
      BY <1>5 DEF Release, TypeOK
    <2>2. Count(a, hooks'[p]) = Count(p, List(a)')
      BY <1>3, <1>5
    <2> QED BY <2>1, <2>2 DEF Tracked, Holds, OneIf
  <1>6. CASE p # obj[t]
    <2>1. hookLock'[p] = hookLock[p] /\ hookLock[p] # t
      BY <1>6, NoThreadAssumption DEF Release, TypeOK, LockInv
    <2>2. hooks'[p] = hooks[p]
      BY <1>6
    <2> QED BY <1>2, <1>3, <2>1, <2>2, TrackedApart
  <1> QED BY <1>5, <1>6

(* Each step keeps the counts together, provided that uninstall() forgets  *)
(* no hook at its end that it has not removed.                             *)
LEMMA TrackNext ==
    ASSUME Inv, TrackInv, [Next]_vars, Refused = {},
           \A t \in Threads : UninstallDone(t) => hooks[obj[t]] = <<>>
    PROVE  TrackInv'
  <1> USE DEF Inv, TypeInv, OfObject, objectVars, callVars, dispatchVars
  <1>1. CASE UNCHANGED vars
    BY <1>1 DEF vars, TrackInv, Tracked, Holds, List
  <1>2. CASE (\E k \in Addr : Stop(k)) \/ OfObject(HandlerStep)
    <2>1. UNCHANGED <<at, addr, hooks, hookLock>>
      BY <1>2 DEF Stop, Fire, HandlerStep, RunNext, Join, RearmBegin, RearmSet, RearmDone,
                  RearmRaises, RearmCheck
    <2>2. ASSUME NEW a \in Addr
          PROVE  List(a)' = List(a)
      <3>1. ASSUME NEW k \in Addr, Stop(k)
            PROVE  List(a)' = List(a)
        BY <3>1, ListAfter DEF Stop, Fire
      <3>2. CASE OfObject(HandlerStep)
        BY <3>2 DEF HandlerStep, RunNext, Join, RearmBegin, RearmSet, RearmDone, RearmRaises,
                    RearmCheck, List
      <3> QED BY <1>2, <3>1, <3>2
    <2> QED BY <2>1, <2>2, TrackedKept DEF TrackInv
  <1>3. ASSUME NEW t \in Threads, Call(t)
        PROVE  TrackInv'
    <2>0. at[t] \notin Holding
      BY <1>3 DEF Call, Uninstall, AddHook, RemoveHook, CanCall, Holding, AddLabels, RemoveLabels
    <2>1. ASSUME NEW o \in Objects, Uninstall(t, o)
          PROVE  TrackInv'
      <3> SUFFICES ASSUME NEW p \in Objects, NEW a \in Addr
                   PROVE  Tracked(p, a)'
        BY DEF TrackInv
      <3>1. Tracked(p, a) /\ List(a)' = List(a)
        BY <2>1 DEF TrackInv, List, Uninstall
      <3>2. hookLock[p] # t
        BY <2>0, NoThreadAssumption DEF LockInv
      <3>3. \A u \in Threads \ {t} : at'[u] = at[u] /\ addr'[u] = addr[u]
        BY <2>1 DEF Uninstall, Goto, Works, TypeOK
      <3>4. UNCHANGED <<hooks, hookLock>>
        BY <2>1 DEF Uninstall
      <3> QED BY <3>1, <3>2, <3>3, <3>4, TrackedApart
    <2>2. ASSUME NEW o \in Objects, NEW k \in Addr, AddHook(t, o, k)
          PROVE  TrackInv'
      BY <2>0, <2>2, BeginAddTracked DEF AddHook
    <2>3. ASSUME NEW o \in Objects, NEW k \in Addr, RemoveHook(t, o, k)
          PROVE  TrackInv'
      BY <2>0, <2>3, BeginRemoveTracked DEF RemoveHook
    <2> QED BY <1>3, <2>1, <2>2, <2>3 DEF Call
  <1>4. ASSUME NEW t \in Threads, ThreadStep(t)
        PROVE  TrackInv'
    <2>1. CASE \/ OfObject(AddCheck(t)) \/ OfObject(AddSet(t))
               \/ OfObject(RemoveCheck(t)) \/ OfObject(RemoveDel(t))
      <3>1. UNCHANGED <<registry, obj, addr, hooks, hookLock>>
        BY <2>1 DEF AddCheck, AddSet, RemoveCheck, RemoveDel
      <3>2. PICK label \in Labels :
                /\ Goto(t, label)
                /\ label \in AddLabels <=> at[t] \in AddLabels
                /\ at[t] \in RemoveLabels <=> label \in RemoveLabels
        BY <2>1 DEF AddCheck, AddSet, RemoveCheck, RemoveDel, Labels, AddLabels, RemoveLabels
      <3>3. \A u \in Threads :
                /\ addr'[u] = addr[u]
                /\ at'[u] \in AddLabels <=> at[u] \in AddLabels
                /\ at[u] \in RemoveLabels <=> at'[u] \in RemoveLabels
        BY <3>1, <3>2 DEF Goto, TypeOK
      <3>4. \A a \in Addr : List(a)' = List(a)
        BY <3>1 DEF List
      <3> QED BY <3>1, <3>3, <3>4, TrackedKept DEF TrackInv
    <2>2. CASE AddDone(t)
      <3>1. at[t] \in Holding /\ obj[t] \in Objects /\ addr[t] \in Addr /\ hookLock[obj[t]] = t
        BY <2>2 DEF AddDone, LockInv, Holding, AddLabels
      <3>2. ASSUME NEW a \in Addr
            PROVE  Count(a, hooks'[obj[t]]) = Count(obj[t], List(a))
        <4>1. hooks'[obj[t]] = Append(hooks[obj[t]], addr[t])
          BY <2>2, <3>1 DEF AddDone, TypeOK
        <4>2. Count(a, hooks'[obj[t]]) = Count(a, hooks[obj[t]]) + (IF addr[t] = a THEN 1 ELSE 0)
          BY <3>1, <4>1, CountAppend DEF TypeOK
        <4>3. Count(a, hooks[obj[t]]) \in Nat /\ Count(obj[t], List(a)) \in Nat
          BY <3>1, ListType, CountType DEF TypeOK
        <4>4. Tracked(obj[t], a)
          BY <3>1 DEF TrackInv
        <4>5. /\ Holds(obj[t], a, AddLabels) <=> addr[t] = a
              /\ ~Holds(obj[t], a, RemoveLabels)
          BY <2>2, <3>1, NoThreadAssumption DEF AddDone, Holds, AddLabels, RemoveLabels
        <4> QED BY <4>2, <4>3, <4>4, <4>5 DEF Tracked, OneIf
      <3>3. \A u \in Threads \ {t} : at'[u] = at[u] /\ addr'[u] = addr[u]
        BY <2>2 DEF AddDone, Rests, Works, Goto, TypeOK
      <3>4. \A p \in Objects \ {obj[t]} : hooks'[p] = hooks[p]
        BY <2>2 DEF AddDone, TypeOK
      <3> QED BY <2>2, <3>1, <3>2, <3>3, <3>4, EndTracked DEF AddDone
    <2>3. CASE Raised(t)
      <3>1. at[t] \in Holding /\ obj[t] \in Objects /\ hookLock[obj[t]] = t
        BY <2>3 DEF Raised, LockInv, Holding
      <3>2. ASSUME NEW a \in Addr
            PROVE  Count(a, hooks'[obj[t]]) = Count(obj[t], List(a))
        <4>1. Count(a, hooks[obj[t]]) \in Nat /\ Count(obj[t], List(a)) \in Nat
          BY <3>1, ListType, CountType DEF TypeOK
        <4>2. Tracked(obj[t], a)
          BY <3>1 DEF TrackInv
        <4>3. ~Holds(obj[t], a, AddLabels) /\ ~Holds(obj[t], a, RemoveLabels)
          BY <2>3, <3>1, NoThreadAssumption DEF Raised, Holds, AddLabels, RemoveLabels
        <4> QED BY <2>3, <4>1, <4>2, <4>3 DEF Tracked, OneIf, Raised
      <3>3. \A u \in Threads \ {t} : at'[u] = at[u] /\ addr'[u] = addr[u]
        BY <2>3 DEF Raised, Rests, Works, Goto, TypeOK
      <3> QED BY <2>3, <3>1, <3>2, <3>3, EndTracked DEF Raised
    <2>4. CASE RemoveDone(t)
      <3>1. at[t] \in Holding /\ obj[t] \in Objects /\ addr[t] \in Addr /\ hookLock[obj[t]] = t
        BY <2>4 DEF RemoveDone, LockInv, Holding, RemoveLabels
      <3>2. ASSUME NEW a \in Addr
            PROVE  Count(a, hooks'[obj[t]]) = Count(obj[t], List(a))
        <4> DEFINE l == hooks[obj[t]]
        <4>0. l \in Seq(Addr)
          BY <3>1 DEF TypeOK
        <4>1. hooks'[obj[t]] = RemoveFirst(l, addr[t])
          BY <2>4, <3>1 DEF RemoveDone, TypeOK
        <4> HIDE DEF l
        <4>2. /\ Count(a, RemoveFirst(l, addr[t]))
                    = Count(a, l) - (IF a = addr[t] /\ Contains(l, addr[t]) THEN 1 ELSE 0)
              /\ ~Contains(l, addr[t]) => Count(addr[t], l) = 0
          BY <4>0, CountRemove
        <4>3. Count(a, l) \in Nat /\ Count(obj[t], List(a)) \in Nat
          BY <3>1, <4>0, ListType, CountType
        <4>4. Tracked(obj[t], a)
          BY <3>1 DEF TrackInv
        <4>5. /\ ~Holds(obj[t], a, AddLabels)
              /\ Holds(obj[t], a, RemoveLabels) <=> addr[t] = a
          BY <2>4, <3>1, NoThreadAssumption DEF RemoveDone, Holds, AddLabels, RemoveLabels
        <4>6. Count(a, l) = Count(obj[t], List(a)) + (IF addr[t] = a THEN 1 ELSE 0)
          BY <4>3, <4>4, <4>5 DEF Tracked, OneIf, l
        <4>7. addr[t] = a => Contains(l, addr[t])
          BY <4>2, <4>3, <4>6
        <4> QED BY <4>1, <4>2, <4>3, <4>6, <4>7
      <3>3. \A u \in Threads \ {t} : at'[u] = at[u] /\ addr'[u] = addr[u]
        BY <2>4 DEF RemoveDone, Rests, Works, Goto, TypeOK
      <3>4. \A q \in Objects \ {obj[t]} : hooks'[q] = hooks[q]
        BY <2>4 DEF RemoveDone, TypeOK
      <3> QED BY <2>4, <3>1, <3>2, <3>3, <3>4, EndTracked DEF RemoveDone
    <2>5. CASE UninstallNext(t) \/ UninstallDone(t)
      <3> SUFFICES ASSUME NEW p \in Objects, NEW a \in Addr
                   PROVE  Tracked(p, a)'
        BY DEF TrackInv
      <3>1. Tracked(p, a) /\ List(a)' = List(a)
        BY <2>5 DEF TrackInv, List, UninstallNext, UninstallDone
      <3>2. hookLock[p] # t
        BY <2>5, NoThreadAssumption
           DEF UninstallNext, UninstallDone, LockInv, Holding, AddLabels, RemoveLabels
      <3>3. \A u \in Threads \ {t} : at'[u] = at[u] /\ addr'[u] = addr[u]
        BY <2>5 DEF UninstallNext, UninstallDone, Goto, Rests, Works, TypeOK
      <3>4. hooks'[p] = hooks[p] /\ hookLock' = hookLock
        <4>1. CASE UninstallNext(t)
          BY <4>1 DEF UninstallNext
        <4>2. CASE UninstallDone(t)
          BY <4>2 DEF UninstallDone, TypeOK
        <4> QED BY <2>5, <4>1, <4>2
      <3> QED BY <3>1, <3>2, <3>3, <3>4, TrackedApart
    <2>6. CASE UninstallHook(t)
      <3>1. at[t] \notin Holding /\ obj[t] \in Objects /\ addr[t] \in Addr
        BY <2>6 DEF UninstallHook, LockInv, Holding, AddLabels, RemoveLabels
      <3> QED BY <2>6, <3>1, BeginRemoveTracked DEF UninstallHook
    <2> QED BY <1>4, <2>1, <2>2, <2>3, <2>4, <2>5, <2>6 DEF ThreadStep
  <1> QED BY <1>1, <1>2, <1>3, <1>4 DEF Next

(* Nobody is in uninstall(). *)
NoUninstall ==
    \A t \in Threads : at[t] \notin {"uninstall", "uninstallHook"} /\ index[t] = 0

LEMMA NoUninstallNext ==
    ASSUME TypeOK, NoUninstall, [Next]_vars, \A t \in Threads : "uninstall" \notin MayCall[t]
    PROVE  NoUninstall'
  <1> USE DEF OfObject, objectVars, callVars, dispatchVars
  <1>1. CASE UNCHANGED vars
    BY <1>1 DEF vars, NoUninstall
  <1>2. CASE (\E k \in Addr : Stop(k)) \/ OfObject(HandlerStep)
    BY <1>2 DEF Stop, Fire, HandlerStep, RunNext, Join, RearmBegin, RearmSet, RearmDone,
                RearmRaises, RearmCheck, NoUninstall
  <1>3. ASSUME NEW t \in Threads, Call(t) \/ ThreadStep(t)
        PROVE  NoUninstall'
    <2>1. \E label \in Labels \ {"uninstall", "uninstallHook"} :
              Goto(t, label) /\ index' \in {index, [index EXCEPT ![t] = 0]}
      BY <1>3 DEF Call, ThreadStep, Uninstall, CanCall, AddHook, BeginAdd, RemoveHook, BeginRemove,
                  AddCheck, AddSet, RemoveCheck, RemoveDel, AddDone, Raised, RemoveDone,
                  UninstallNext, UninstallHook, UninstallDone, NoUninstall, Labels
    <2> QED BY <2>1 DEF NoUninstall, Goto, TypeOK
  <1> QED BY <1>1, <1>2, <1>3 DEF Next

LEMMA TrackInit == Init => TrackInv /\ NoUninstall
  <1> SUFFICES ASSUME Init
               PROVE  TrackInv /\ NoUninstall
    OBVIOUS
  <1>1. ASSUME NEW o \in Objects, NEW k \in Addr
        PROVE  Tracked(o, k)
    <2>1. hooks[o] = <<>> /\ List(k) = <<>> /\ hookLock[o] = NoThread
      BY DEF Init, ManagerInit, List
    <2>2. Count(k, <<>>) = 0 /\ Count(o, <<>>) = 0
      BY FS_EmptySet DEF Count
    <2> QED BY <2>1, <2>2 DEF Tracked, Holds, OneIf
  <1>2. NoUninstall
    BY DEF Init, ManagerInit, NoUninstall
  <1> QED BY <1>1, <1>2 DEF TrackInv

LEMMA TrackTracks == Inv /\ TrackInv => HooksTracked
  <1> SUFFICES ASSUME Inv, TrackInv, NEW o \in Objects, NEW k \in Addr, AtRest(o)
               PROVE  Count(k, hooks[o]) = Count(o, List(k))
    BY DEF HooksTracked
  <1>1. hookLock[o] = NoThread
    BY DEF Inv, TypeInv, TypeOK, LockInv, AtRest
  <1>2. Tracked(o, k)
    BY DEF TrackInv
  <1>3. Count(k, hooks[o]) \in Nat /\ Count(o, List(k)) \in Nat
    BY ListType, CountType DEF Inv, TypeInv, TypeOK
  <1> QED BY <1>1, <1>2, <1>3 DEF Tracked, Holds, OneIf

(* As long as no breakpoint is refused and nobody calls uninstall(), the   *)
(* hooks that objects remember are those that are registered, whatever     *)
(* threads and callbacks add and remove at once (callback.py:39-43, 64,    *)
(* 111).                                                                   *)
THEOREM HooksStayTracked ==
    ASSUME Refused = {}, \A t \in Threads : "uninstall" \notin MayCall[t]
    PROVE  Spec => []HooksTracked
  <1>1. Inv /\ TrackInv /\ NoUninstall /\ [Next]_vars => TrackInv' /\ NoUninstall'
    <2> SUFFICES ASSUME Inv, TrackInv, NoUninstall, [Next]_vars
                 PROVE  TrackInv' /\ NoUninstall'
      OBVIOUS
    <2>1. NoUninstall'
      BY NoUninstallNext DEF Inv, TypeInv
    <2>2. \A t \in Threads : ~UninstallDone(t)
      BY DEF NoUninstall, UninstallDone
    <2> QED BY <2>1, <2>2, TrackNext
  <1> QED BY InvInit, InvNext, TrackInit, TrackTracks, <1>1, PTL DEF Spec

----------------------------------------------------------------------------
(* Every callback runs.  A list that only grows is run to its end: the     *)
(* callbacks that have run are its beginning, and so is the list as it was *)
(* when the guest stopped.                                                 *)

(* Threads that may act while the handler is busy only add hooks. *)
OnlyAdd == \A t \in Threads : t = CbThread \/ ~Quiet => MayCall[t] \subseteq {"add"}

Adders ==
    \A t \in Threads : t = CbThread \/ ~Quiet =>
       at[t] \notin {"uninstall", "uninstallHook"} /\ index[t] = 0
UsersWait == Quiet /\ handler # "idle" => \A u \in Users : at[u] = "idle"
Progress ==
    handler \in {"next", "join"} =>
        /\ hit \in Addr
        /\ pos \in Nat /\ pos <= Len(List(hit))
        /\ ran \in Seq(Objects) /\ Len(ran) = pos
        /\ \A i \in 1..pos : ran[i] = List(hit)[i]
        /\ listed \in Seq(Objects) /\ Len(listed) <= Len(List(hit))
        /\ \A i \in 1..Len(listed) : listed[i] = List(hit)[i]
RunInv == Adders /\ UsersWait /\ Progress

(* A list grows when a thread begins to add a hook, and otherwise remains. *)
Grows(k) == List(k)' = List(k) \/ \E o \in Objects : List(k)' = Append(List(k), o)

LEMMA ProgressKept ==
    ASSUME TypeOK, Progress, UNCHANGED dispatchVars,
           handler \in {"next", "join"} => Grows(hit)
    PROVE  Progress'
  <1> USE DEF dispatchVars
  <1> SUFFICES ASSUME handler \in {"next", "join"}
               PROVE  Progress'
    BY DEF Progress
  <1> DEFINE old == List(hit)
             new == List(hit)'
  <1>1. hit \in Addr /\ old \in Seq(Objects)
    BY ListType DEF Progress
  <1>2. CASE new = old
    BY <1>2 DEF Progress
  <1>3. ASSUME NEW o \in Objects, new = Append(old, o)
        PROVE  Progress'
    <2>1. Len(new) = Len(old) + 1 /\ \A i \in 1..Len(old) : new[i] = old[i]
      BY <1>1, <1>3, AppendProperties
    <2>2. Len(old) \in Nat
      BY <1>1
    <2>3. (\A i \in 1..pos : ran[i] = new[i]) /\ (\A i \in 1..Len(listed) : listed[i] = new[i])
      BY <2>1, <2>2 DEF Progress
    <2> QED BY <2>1, <2>2, <2>3 DEF Progress
  <1> QED BY <1>1, <1>2, <1>3 DEF Grows

(* The handler is the only one that moves itself on. *)
LEMMA StopProgress ==
    ASSUME TypeOK, NEW k \in Addr, Stop(k)
    PROVE  Progress'
  <1>1. List(k)' = List(k) /\ List(k) \in Seq(Objects)
    BY ListAfter, ListType DEF Stop, OfObject, Fire
  <1>2. hit' = k /\ pos' = 0 /\ ran' = <<>> /\ listed' = List(k)
    BY DEF Stop, OfObject, Fire
  <1>3. List(hit)' = List(k)
    BY <1>1, <1>2 DEF List
  <1> QED BY <1>1, <1>2, <1>3 DEF Progress

LEMMA HandlerProgress ==
    ASSUME TypeOK, Progress, HandlerStep
    PROVE  Progress'
  <1>1. CASE RunNext
    <2>1. /\ hit' = hit /\ List(hit)' = List(hit) /\ pos < Len(List(hit)) /\ pos' = pos + 1
          /\ ran' = Append(ran, List(hit)[pos + 1]) /\ listed' = listed
      BY <1>1 DEF RunNext, List
    <2>2. /\ List(hit) \in Seq(Objects) /\ hit \in Addr /\ pos \in Nat
          /\ ran \in Seq(Objects) /\ Len(ran) = pos
      BY <1>1, ListType DEF Progress, RunNext
    <2>3. List(hit)[pos + 1] \in Objects
      BY <2>1, <2>2, ElementOfSeq
    <2>4. ran' \in Seq(Objects) /\ Len(ran') = pos'
      BY <2>1, <2>2, <2>3, AppendProperties
    <2>5. \A i \in 1..pos' : ran'[i] = List(hit)[i]
      BY <1>1, <2>1, <2>2, <2>3, AppendProperties DEF Progress, RunNext
    <2> QED BY <1>1, <2>1, <2>2, <2>4, <2>5 DEF Progress, RunNext
  <1>2. CASE Join
    BY <1>2 DEF Progress, Join, List
  <1>3. CASE RearmBegin \/ RearmSet \/ RearmDone \/ RearmRaises \/ \E k \in todo : RearmCheck(k)
    BY <1>3 DEF Progress, RearmBegin, RearmSet, RearmDone, RearmRaises, RearmCheck
  <1> QED BY <1>1, <1>2, <1>3 DEF HandlerStep

LEMMA HandlerRun ==
    ASSUME TypeOK, RunInv, OfObject(HandlerStep) \/ \E k \in Addr : Stop(k)
    PROVE  RunInv'
  <1> USE DEF OfObject, objectVars, callVars
  <1>1. UNCHANGED <<at, index>>
    BY DEF Stop, Fire, HandlerStep, RunNext, Join, RearmBegin, RearmSet, RearmDone,
           RearmRaises, RearmCheck
  <1>2. Adders'
    BY <1>1 DEF RunInv, Adders
  <1>3. UsersWait'
    <2>1. CASE \E k \in Addr : Stop(k)
      BY <1>1, <2>1 DEF UsersWait, Stop, AllIdle, Threads
    <2>2. CASE HandlerStep
      BY <1>1, <2>2 DEF RunInv, UsersWait, HandlerStep, RunNext, Join, RearmBegin, RearmSet,
                        RearmDone, RearmRaises, RearmCheck
    <2> QED BY <2>1, <2>2
  <1>4. Progress'
    BY StopProgress, HandlerProgress DEF RunInv
  <1> QED BY <1>2, <1>3, <1>4 DEF RunInv

LEMMA RunNextInv ==
    ASSUME Inv, RunInv, [Next]_vars, OnlyAdd
    PROVE  RunInv'
  <1> USE DEF Inv, TypeInv, OfObject, objectVars, callVars
  <1>1. CASE UNCHANGED vars
    BY <1>1 DEF vars, dispatchVars, RunInv, Adders, UsersWait, Progress, List
  <1>2. CASE OfObject(HandlerStep) \/ \E k \in Addr : Stop(k)
    BY <1>2, HandlerRun
  <1>3. ASSUME NEW t \in Threads, Call(t) \/ ThreadStep(t)
        PROVE  RunInv'
    <2>1. UNCHANGED dispatchVars
      BY <1>3 DEF Call, ThreadStep, Uninstall, AddHook, RemoveHook, AddCheck, AddSet, RemoveCheck,
                  RemoveDel, AddDone, Raised, RemoveDone, UninstallNext, UninstallHook,
                  UninstallDone
    <2>2. \A u \in Threads \ {t} : at'[u] = at[u] /\ index'[u] = index[u]
      BY <1>3 DEF Call, ThreadStep, Uninstall, AddHook, BeginAdd, RemoveHook, BeginRemove, AddCheck,
                  AddSet, RemoveCheck, RemoveDel, AddDone, Raised, RemoveDone, UninstallNext,
                  UninstallHook, UninstallDone, Goto, TypeOK
    <2>3. CASE t # CbThread /\ Quiet
      <3>1. handler = "idle"
        <4>1. CASE Call(t)
          BY <2>3, <4>1 DEF Call, Uninstall, AddHook, RemoveHook, CanCall
        <4>2. CASE ThreadStep(t)
          <5>1. at[t] # "idle"
            BY <4>2 DEF ThreadStep, AddCheck, AddSet, RemoveCheck, RemoveDel, AddDone, Raised,
                        RemoveDone, UninstallNext, UninstallHook, UninstallDone
          <5> QED BY <2>3, <5>1 DEF RunInv, UsersWait, Threads
        <4> QED BY <1>3, <4>1, <4>2
      <3>2. Adders'
        BY <2>2, <2>3 DEF RunInv, Adders
      <3> QED BY <2>1, <3>1, <3>2 DEF dispatchVars, RunInv, UsersWait, Progress
    <2>4. CASE t = CbThread \/ ~Quiet
      <3>1. /\ MayCall[t] \subseteq {"add"}
            /\ at[t] \notin {"uninstall", "uninstallHook"} /\ index[t] = 0
        BY <2>4 DEF OnlyAdd, RunInv, Adders
      <3>2. \/ \E o \in Objects, k \in Addr : AddHook(t, o, k)
            \/ OfObject(AddCheck(t)) \/ OfObject(AddSet(t))
            \/ OfObject(RemoveCheck(t)) \/ OfObject(RemoveDel(t))
            \/ AddDone(t) \/ Raised(t) \/ RemoveDone(t)
        BY <1>3, <3>1 DEF Call, ThreadStep, Uninstall, RemoveHook, CanCall, UninstallNext,
                          UninstallHook, UninstallDone
      <3>3. at'[t] \notin {"uninstall", "uninstallHook"} /\ index'[t] = 0
        BY <3>1, <3>2 DEF AddHook, BeginAdd, AddCheck, AddSet, RemoveCheck, RemoveDel, AddDone,
                          Raised, RemoveDone, Goto, TypeOK
      <3>4. Adders'
        BY <2>2, <3>3 DEF RunInv, Adders
      <3>5. UsersWait'
        BY <2>1, <2>2, <2>4, ManagerAssumption DEF dispatchVars, RunInv, UsersWait, Threads
      <3>6. \A k \in Addr : Grows(k)
        <4>1. ASSUME NEW o \in Objects, NEW k \in Addr, AddHook(t, o, k), NEW a \in Addr
              PROVE  List(a)' = IF a = k THEN Append(List(k), o) ELSE List(a)
          BY <4>1, ListAfter DEF AddHook, BeginAdd, Register
        <4>2. CASE UNCHANGED registry
          BY <4>2 DEF Grows, List
        <4>3. CASE \E o \in Objects, k \in Addr : AddHook(t, o, k)
          BY <4>1, <4>3 DEF Grows
        <4> QED BY <3>2, <4>2, <4>3
                DEF AddCheck, AddSet, RemoveCheck, RemoveDel, AddDone, Raised, RemoveDone
      <3>7. handler \in {"next", "join"} => Grows(hit)
        BY <3>6 DEF RunInv, Progress
      <3> QED BY <2>1, <3>4, <3>5, <3>7, ProgressKept DEF RunInv
    <2> QED BY <2>3, <2>4
  <1> QED BY <1>1, <1>2, <1>3 DEF Next

(* A handler that has come to the end of the list has run all of it. *)
LEMMA RunRuns == Inv /\ RunInv => EveryCallbackRuns
  <1> SUFFICES ASSUME Inv, RunInv, handler = "next", pos >= Len(List(hit)),
                      NEW o \in ToSet(List(hit))
               PROVE  o \in ToSet(ran)
    BY DEF EveryCallbackRuns
  <1>1. List(hit) \in Seq(Objects) /\ pos = Len(List(hit)) /\ ran \in Seq(Objects) /\ Len(ran) = pos
    BY ListType DEF Inv, TypeInv, RunInv, Progress
  <1>2. PICK i \in 1..Len(List(hit)) : o = List(hit)[i]
    BY <1>1 DEF ToSet
  <1>3. i \in DOMAIN ran /\ ran[i] = o
    BY <1>1, <1>2 DEF RunInv, Progress
  <1> QED BY <1>3 DEF ToSet

(* If callbacks only add hooks, and other threads too or they wait while   *)
(* the handler is busy, a stop runs every callback that is registered for  *)
(* its address, the ones that are added meanwhile included                 *)
(* (callback_manager.py:199-200).                                          *)
THEOREM EveryCallbackIsRun ==
    ASSUME OnlyAdd
    PROVE  Spec => []EveryCallbackRuns
  <1>1. Init => RunInv
    BY DEF Init, ManagerInit, RunInv, Adders, UsersWait, Progress
  <1>2. Inv /\ RunInv /\ [Next]_vars => RunInv'
    BY RunNextInv
  <1> QED BY InvInit, InvNext, RunRuns, <1>1, <1>2, PTL DEF Spec

----------------------------------------------------------------------------
(* Breakpoints are at the addresses with callbacks, if one thread and the  *)
(* handler take turns.  In the middle of a call one address may differ,    *)
(* and while the handler sets the breakpoints again, those it has not      *)
(* reached.                                                                *)

OneUser == \A s, u \in Users : s = u

HookedAddrs == {k \in Addr : List(k) # <<>>}

Turns ==
    /\ \A u \in Users : at[u] # "idle" => handler = "idle" /\ at[CbThread] = "idle"
    /\ at[CbThread] # "idle" => handler = "join"

(* Threads that are about to set the breakpoint at k, or to delete it *)
Setting(k) ==
    \E t \in Threads : addr[t] = k /\ \/ at[t] = "addSet"
                                      \/ at[t] = "addCheck" /\ Len(List(k)) = 1
Deleting(k) == \E t \in Threads : addr[t] = k /\ at[t] \in {"removeCheck", "removeDel"}

Lists ==
    \A t \in Threads :
       /\ at[t] \in {"addCheck", "addSet"} => addr[t] \in HookedAddrs
       /\ at[t] = "removeDel" => addr[t] \notin HookedAddrs
Sound == \A k \in bps : k \in HookedAddrs \/ Deleting(k)
Complete == handler = "idle" => \A k \in HookedAddrs \ Refused : k \in bps \/ Setting(k)
Rearming ==
    handler \in {"rearm", "rearmSet"} =>
        /\ handler = "rearmSet" => hit \in HookedAddrs
        /\ \A k \in HookedAddrs \ Refused :
              k \in bps \/ k \in todo \/ (handler = "rearmSet" /\ hit = k)
ArmInv == Turns /\ Lists /\ Sound /\ Complete /\ Rearming

(* One thread at a time is in a call. *)
LEMMA OneActive ==
    ASSUME Turns, OneUser, NEW t \in Threads, NEW u \in Threads, at[t] # "idle", at[u] # "idle"
    PROVE  t = u
  BY DEF Turns, OneUser, Threads

LEMMA TurnsNext ==
    ASSUME TypeOK, Turns, [Next]_vars, Quiet, OneUser
    PROVE  Turns'
  <1> USE DEF OfObject, objectVars, callVars
  <1>1. CASE UNCHANGED vars
    BY <1>1 DEF vars, dispatchVars, Turns
  <1>2. CASE \E k \in Addr : Stop(k)
    BY <1>2 DEF Stop, Fire, AllIdle, Turns, Threads
  <1>3. CASE OfObject(HandlerStep)
    BY <1>3 DEF HandlerStep, RunNext, Join, RearmBegin, RearmSet, RearmDone, RearmRaises,
                RearmCheck, Turns
  <1>4. ASSUME NEW t \in Threads, Call(t) \/ ThreadStep(t)
        PROVE  Turns'
    <2>1. UNCHANGED handler /\ \A u \in Threads \ {t} : at'[u] = at[u]
      BY <1>4 DEF Call, ThreadStep, Uninstall, AddHook, BeginAdd, RemoveHook, BeginRemove, AddCheck,
                  AddSet, RemoveCheck, RemoveDel, AddDone, Raised, RemoveDone, UninstallNext,
                  UninstallHook, UninstallDone, Goto, TypeOK, dispatchVars
    <2>2. IF t = CbThread THEN handler = "join" ELSE handler = "idle"
      <3>1. CASE Call(t)
        BY <3>1 DEF Call, Uninstall, AddHook, RemoveHook, CanCall
      <3>2. CASE ThreadStep(t)
        <4>1. at[t] # "idle"
          BY <3>2 DEF ThreadStep, AddCheck, AddSet, RemoveCheck, RemoveDel, AddDone, Raised,
                      RemoveDone, UninstallNext, UninstallHook, UninstallDone
        <4> QED BY <4>1 DEF Turns, Threads
      <3> QED BY <1>4, <3>1, <3>2
    <2> QED BY <2>1, <2>2, ManagerAssumption DEF Turns, Threads, OneUser
  <1> QED BY <1>1, <1>2, <1>3, <1>4 DEF Next

(* What is hooked and what a thread is about to do depend on the lists. *)
LEMMA SameLists ==
    ASSUME \A k \in Addr : List(k)' = List(k)
    PROVE  HookedAddrs' = HookedAddrs
  BY DEF HookedAddrs

LEMMA HandlerArm ==
    ASSUME TypeOK, HandlerInv, ArmInv, OfObject(HandlerStep) \/ \E k \in Addr : Stop(k), Quiet
    PROVE  Lists' /\ Sound' /\ Complete' /\ Rearming'
  <1> USE DEF OfObject, callVars
  <1>1. UNCHANGED <<at, addr>>
    BY DEF Stop, Fire, HandlerStep, RunNext, Join, RearmBegin, RearmSet, RearmDone, RearmRaises,
           RearmCheck
  <1>2. ASSUME NEW a \in Addr
        PROVE  List(a)' = List(a)
    <2>1. ASSUME NEW k \in Addr, Stop(k)
          PROVE  List(a)' = List(a)
      BY <2>1, ListAfter DEF Stop, Fire
    <2>2. CASE HandlerStep
      BY <2>2 DEF HandlerStep, RunNext, Join, RearmBegin, RearmSet, RearmDone, RearmRaises,
                  RearmCheck, List
    <2> QED BY <2>1, <2>2
  <1>3. HookedAddrs' = HookedAddrs
    BY <1>2, SameLists
  <1>4. ASSUME NEW k \in Addr
        PROVE  (Setting(k)' <=> Setting(k)) /\ (Deleting(k)' <=> Deleting(k))
    BY <1>1, <1>2 DEF Setting, Deleting
  <1>5. Lists'
    BY <1>1, <1>3 DEF ArmInv, Lists
  <1>6. HookedAddrs \subseteq Addr /\ bps \subseteq Addr \ Refused
    BY DEF HookedAddrs, TypeOK
  <1>7. CASE \E k \in Addr : Stop(k)
    BY <1>5, <1>7 DEF Stop, Fire, Sound, Complete, Rearming
  <1>8. CASE RunNext \/ Join \/ RearmRaises
    <2>1. bps' = bps /\ handler' \in {"next", "join", "dead"}
      BY <1>8 DEF RunNext, Join, RearmRaises
    <2> QED BY <1>3, <1>4, <1>5, <1>6, <2>1 DEF ArmInv, Sound, Complete, Rearming
  <1>9. CASE RearmBegin
    <2>1. bps' = bps /\ handler' = "rearm" /\ todo' = DOMAIN registry
      BY <1>9 DEF RearmBegin
    <2>2. HookedAddrs \subseteq DOMAIN registry
      BY DEF HookedAddrs, List
    <2> QED BY <1>3, <1>4, <1>5, <1>6, <2>1, <2>2 DEF ArmInv, Sound, Complete, Rearming
  <1>10. ASSUME NEW k \in todo, RearmCheck(k)
         PROVE  Sound' /\ Complete' /\ Rearming'
    <2>1. k \in Addr /\ (Len(List(k)) > 0 <=> List(k) # <<>>)
      BY ListType, EmptySeq DEF HandlerInv
    <2>2. /\ bps' = bps /\ todo' = todo \ {k} /\ handler = "rearm"
          /\ \/ handler' = "rearmSet" /\ hit' = k /\ k \in HookedAddrs
             \/ handler' = "rearm" /\ k \notin HookedAddrs
      BY <1>10, <2>1 DEF RearmCheck, HookedAddrs
    <2> QED BY <1>3, <1>4, <1>6, <2>2 DEF ArmInv, Sound, Complete, Rearming
  <1>11. CASE RearmSet
    <2>1. /\ bps' = bps \cup ({hit} \ Refused) /\ handler = "rearmSet" /\ todo' = todo
          /\ handler' \in {"dead", "rearm"}
      BY <1>11 DEF RearmSet
    <2> QED BY <1>3, <1>4, <1>5, <1>6, <2>1 DEF ArmInv, Sound, Complete, Rearming
  <1>12. CASE RearmDone
    <2>1. bps' = bps /\ handler = "rearm" /\ todo = {} /\ handler' = "idle"
      BY <1>12 DEF RearmDone
    <2> QED BY <1>3, <1>4, <1>5, <1>6, <2>1 DEF ArmInv, Sound, Complete, Rearming
  <1> QED BY <1>5, <1>7, <1>8, <1>9, <1>10, <1>11, <1>12 DEF HandlerStep

(* A thread begins to add a hook, or to remove one, while all others rest. *)
LEMMA BeginAddArm ==
    ASSUME TypeOK, ArmInv, NEW t \in Threads, NEW o \in Objects, NEW k \in Addr,
           at[t] = "idle", \A u \in Threads \ {t} : at[u] = "idle" /\ at'[u] = "idle",
           handler \in {"idle", "join"}, BeginAdd(t, o, k), UNCHANGED <<bps, dispatchVars>>
    PROVE  Lists' /\ Sound' /\ Complete' /\ Rearming'
  <1> USE DEF dispatchVars
  <1>1. HookedAddrs \subseteq Addr /\ HookedAddrs' \subseteq Addr /\ bps \subseteq Addr \ Refused
    BY DEF HookedAddrs, TypeOK
  <1>2. at'[t] = "addCheck" /\ addr'[t] = k
    BY DEF BeginAdd, Goto, Works, TypeOK
  <1>3. \A a \in Addr : List(a)' = IF a = k THEN Append(List(k), o) ELSE List(a)
    BY ListAfter DEF BeginAdd, Register
  <1>4. /\ List(k) \in Seq(Objects) /\ Append(List(k), o) # <<>>
        /\ List(k) = <<>> => Len(Append(List(k), o)) = 1
    BY ListType
  <1>5. HookedAddrs' = HookedAddrs \cup {k}
    BY <1>3, <1>4 DEF HookedAddrs
  <1>6. \A a \in Addr : ~Setting(a) /\ ~Deleting(a)
    BY DEF Setting, Deleting
  <1>7. Lists' /\ Sound'
    BY <1>1, <1>2, <1>5, <1>6 DEF ArmInv, Lists, Sound
  <1>8. k \notin HookedAddrs => Setting(k)'
    <2>1. k \notin HookedAddrs => List(k)' = Append(List(k), o) /\ List(k) = <<>>
      BY <1>3 DEF HookedAddrs
    <2> QED BY <1>2, <1>4, <2>1 DEF Setting
  <1> QED BY <1>1, <1>2, <1>5, <1>6, <1>7, <1>8 DEF ArmInv, Complete, Rearming

LEMMA BeginRemoveArm ==
    ASSUME TypeOK, ArmInv, NEW t \in Threads, NEW o \in Objects, NEW k \in Addr,
           at[t] \in {"idle", "uninstallHook"},
           \A u \in Threads \ {t} : at[u] = "idle" /\ at'[u] = "idle",
           handler \in {"idle", "join"}, BeginRemove(t, o, k), UNCHANGED <<bps, dispatchVars>>
    PROVE  Lists' /\ Sound' /\ Complete' /\ Rearming'
  <1> USE DEF dispatchVars
  <1>1. HookedAddrs \subseteq Addr /\ HookedAddrs' \subseteq Addr /\ bps \subseteq Addr \ Refused
    BY DEF HookedAddrs, TypeOK
  <1>2. /\ addr'[t] = k
        /\ at'[t] = IF Contains(List(k), o) THEN "removeCheck" ELSE "raised"
    BY DEF BeginRemove, Goto, Works, TypeOK
  <1>3. \A a \in Addr : List(a)' = IF a = k THEN RemoveFirst(List(k), o) ELSE List(a)
    BY ListAfter DEF BeginRemove, Unregister
  <1>4. ~Contains(List(k), o) => RemoveFirst(List(k), o) = List(k)
    BY ListType, CountRemove
  <1>5. /\ HookedAddrs' \subseteq HookedAddrs \cup {k}
        /\ HookedAddrs \subseteq HookedAddrs' \cup {k}
        /\ ~Contains(List(k), o) => HookedAddrs' = HookedAddrs
        /\ Contains(List(k), o) => k \in HookedAddrs
    <2>1. Contains(List(k), o) => List(k) # <<>>
      BY DEF Contains
    <2> QED BY <1>3, <1>4, <2>1 DEF HookedAddrs
  <1>6. \A a \in Addr : ~Setting(a) /\ ~Deleting(a)
    BY DEF Setting, Deleting
  <1>7. Lists'
    BY <1>2 DEF Lists
  <1>8. Sound'
    <2>1. Contains(List(k), o) => Deleting(k)'
      BY <1>2 DEF Deleting
    <2> QED BY <1>1, <1>5, <1>6, <2>1 DEF ArmInv, Sound
  <1>9. Complete' /\ Rearming'
    <2>1. HookedAddrs' \subseteq HookedAddrs
      BY <1>5
    <2> QED BY <1>1, <1>6, <2>1 DEF ArmInv, Complete, Rearming
  <1> QED BY <1>7, <1>8, <1>9

(* A thread in a call is the only one, and it changes one list at most. *)
LEMMA ThreadArm ==
    ASSUME TypeOK, LockInv, ArmInv, NEW t \in Threads, Call(t) \/ ThreadStep(t), Quiet, OneUser
    PROVE  Lists' /\ Sound' /\ Complete' /\ Rearming'
  <1> USE DEF OfObject, dispatchVars
  <1>1. /\ UNCHANGED dispatchVars /\ handler \in {"idle", "join"}
        /\ \A u \in Threads \ {t} : at[u] = "idle" /\ at'[u] = "idle"
    <2>1. UNCHANGED dispatchVars /\ \A u \in Threads \ {t} : at'[u] = at[u]
      BY DEF Call, ThreadStep, Uninstall, AddHook, BeginAdd, RemoveHook, BeginRemove, AddCheck,
             AddSet, RemoveCheck, RemoveDel, AddDone, Raised, RemoveDone, UninstallNext,
             UninstallHook, UninstallDone, Goto, TypeOK
    <2>2. CASE Call(t)
      BY <2>1, <2>2 DEF Call, Uninstall, AddHook, RemoveHook, CanCall, ArmInv, Turns, Threads,
                        OneUser
    <2>3. CASE ThreadStep(t)
      <3>1. at[t] # "idle"
        BY <2>3 DEF ThreadStep, AddCheck, AddSet, RemoveCheck, RemoveDel, AddDone, Raised,
                    RemoveDone, UninstallNext, UninstallHook, UninstallDone
      <3> QED BY <2>1, <3>1, OneActive DEF ArmInv, Turns, Threads
    <2> QED BY <2>1, <2>2, <2>3
  <1>2. HookedAddrs \subseteq Addr /\ HookedAddrs' \subseteq Addr /\ bps \subseteq Addr \ Refused
    BY DEF HookedAddrs, TypeOK
  <1>3. Rearming'
    BY <1>1 DEF Rearming
  <1>4. ASSUME NEW o \in Objects, NEW k \in Addr, AddHook(t, o, k)
        PROVE  Lists' /\ Sound' /\ Complete'
    <2>1. at[t] = "idle" /\ BeginAdd(t, o, k) /\ UNCHANGED bps
      BY <1>4 DEF AddHook, CanCall
    <2> QED BY <1>1, <2>1, BeginAddArm
  <1>5. ASSUME NEW o \in Objects, NEW k \in Addr, at[t] \in {"idle", "uninstallHook"},
               BeginRemove(t, o, k), UNCHANGED bps
        PROVE  Lists' /\ Sound' /\ Complete'
    BY <1>1, <1>5, BeginRemoveArm
  <1>6. CASE \/ AddCheck(t) \/ AddSet(t) \/ RemoveCheck(t) \/ RemoveDel(t)
             \/ AddDone(t) \/ Raised(t) \/ RemoveDone(t) \/ UninstallNext(t) \/ UninstallDone(t)
             \/ \E o \in Objects : Uninstall(t, o)
    <2>1. \A a \in Addr : List(a)' = List(a)
      BY <1>6 DEF List, AddCheck, AddSet, RemoveCheck, RemoveDel, AddDone, Raised, RemoveDone,
                  UninstallNext, UninstallDone, Uninstall
    <2>2. HookedAddrs' = HookedAddrs
      BY <2>1, SameLists
    <2>3. ASSUME bps' = bps, at[t] \notin {"addCheck", "addSet", "removeCheck", "removeDel"},
                 at'[t] \notin {"addCheck", "addSet", "removeDel"}
          PROVE  Lists' /\ Sound' /\ Complete'
      <3>1. \A a \in Addr : ~Setting(a) /\ ~Deleting(a)
        BY <1>1, <2>3 DEF Setting, Deleting
      <3> QED BY <1>1, <1>2, <2>2, <2>3, <3>1 DEF ArmInv, Lists, Sound, Complete
    <2>4. CASE AddCheck(t)
      <3> DEFINE k == addr[t]
      <3>1. /\ at[t] = "addCheck" /\ bps' = bps /\ addr' = addr
            /\ at'[t] = IF Len(List(k)) < 2 THEN "addSet" ELSE "addDone"
        BY <2>4 DEF AddCheck, Goto, TypeOK
      <3>2. k \in HookedAddrs
        BY <3>1 DEF ArmInv, Lists
      <3>3. Len(List(k)) \in Nat
        BY ListType
      <3>4. \A a \in Addr : ~Deleting(a) /\ (Setting(a) <=> a = k /\ Len(List(k)) = 1)
        BY <1>1, <3>1 DEF Setting, Deleting
      <3>5. Lists' /\ Sound'
        BY <1>1, <1>2, <2>2, <3>1, <3>2, <3>4 DEF ArmInv, Lists, Sound
      <3>6. Len(List(k)) = 1 => Setting(k)'
        BY <3>1, <3>3 DEF Setting
      <3> QED BY <1>1, <1>2, <1>3, <2>2, <3>1, <3>4, <3>5, <3>6 DEF ArmInv, Complete
    <2>5. CASE AddSet(t)
      <3> DEFINE k == addr[t]
      <3>1. /\ at[t] = "addSet" /\ bps' = bps \cup ({k} \ Refused)
            /\ at'[t] \in {"addDone", "raised"}
        BY <2>5 DEF AddSet, Goto, TypeOK
      <3>2. k \in HookedAddrs
        BY <3>1 DEF ArmInv, Lists
      <3>3. \A a \in Addr : ~Deleting(a) /\ (Setting(a) => a = k)
        BY <1>1, <3>1 DEF Setting, Deleting
      <3> QED BY <1>1, <1>2, <1>3, <2>2, <3>1, <3>2, <3>3 DEF ArmInv, Lists, Sound, Complete
    <2>6. CASE RemoveCheck(t)
      <3> DEFINE k == addr[t]
      <3>1. /\ at[t] = "removeCheck" /\ bps' = bps /\ addr' = addr
            /\ at'[t] = IF Len(List(k)) < 1 THEN "removeDel" ELSE "removeDone"
        BY <2>6 DEF RemoveCheck, Goto, TypeOK
      <3>2. Len(List(k)) < 1 <=> List(k) = <<>>
        BY ListType, EmptySeq
      <3>3. k \in Addr
        BY <3>1 DEF LockInv, Holding, RemoveLabels
      <3>4. Len(List(k)) < 1 <=> k \notin HookedAddrs
        BY <3>2, <3>3 DEF HookedAddrs
      <3>5. \A a \in Addr : ~Setting(a) /\ (Deleting(a) <=> a = k)
        BY <1>1, <3>1 DEF Setting, Deleting
      <3>6. Lists'
        BY <1>1, <2>2, <3>1, <3>4 DEF Lists
      <3>7. k \notin HookedAddrs => Deleting(k)'
        BY <3>1, <3>4 DEF Deleting
      <3> QED BY <1>1, <1>2, <1>3, <2>2, <3>1, <3>5, <3>6, <3>7 DEF ArmInv, Sound, Complete
    <2>7. CASE RemoveDel(t)
      <3> DEFINE k == addr[t]
      <3>1. at[t] = "removeDel" /\ bps' = bps \ {k} /\ at'[t] = "removeDone"
        BY <2>7 DEF RemoveDel, Goto, TypeOK
      <3>2. k \notin HookedAddrs
        BY <3>1 DEF ArmInv, Lists
      <3>3. \A a \in Addr : ~Setting(a) /\ (Deleting(a) => a = k)
        BY <1>1, <3>1 DEF Setting, Deleting
      <3> QED BY <1>1, <1>2, <1>3, <2>2, <3>1, <3>2, <3>3 DEF ArmInv, Lists, Sound, Complete
    <2>8. CASE \/ AddDone(t) \/ Raised(t) \/ RemoveDone(t) \/ UninstallNext(t) \/ UninstallDone(t)
               \/ \E o \in Objects : Uninstall(t, o)
      <3>1. /\ bps' = bps /\ at[t] \notin {"addCheck", "addSet", "removeCheck", "removeDel"}
            /\ at'[t] \notin {"addCheck", "addSet", "removeDel"}
        BY <2>8 DEF AddDone, Raised, RemoveDone, UninstallNext, UninstallDone, Uninstall, CanCall,
                    Goto, TypeOK
      <3> QED BY <1>3, <2>3, <3>1
    <2> QED BY <1>6, <2>4, <2>5, <2>6, <2>7, <2>8
  <1>7. ASSUME NEW o \in Objects, NEW k \in Addr, RemoveHook(t, o, k)
        PROVE  Lists' /\ Sound' /\ Complete'
    BY <1>5, <1>7 DEF RemoveHook, CanCall
  <1>8. CASE UninstallHook(t)
    <2>1. obj[t] \in Objects /\ addr[t] \in Addr /\ at[t] = "uninstallHook"
      BY <1>8 DEF UninstallHook, LockInv
    <2>2. BeginRemove(t, obj[t], addr[t]) /\ UNCHANGED bps
      BY <1>8 DEF UninstallHook
    <2> QED BY <1>3, <1>5, <2>1, <2>2
  <1> QED BY <1>3, <1>4, <1>6, <1>7, <1>8 DEF Call, ThreadStep

LEMMA ArmInit == Init => ArmInv
  BY DEF Init, ManagerInit, ArmInv, Turns, Lists, Sound, Complete, Rearming, HookedAddrs, List,
         Threads

LEMMA ArmNext ==
    ASSUME Inv, ArmInv, [Next]_vars, Quiet, OneUser
    PROVE  ArmInv'
  <1> USE DEF Inv, TypeInv
  <1>1. Turns'
    BY TurnsNext DEF ArmInv
  <1>2. CASE UNCHANGED vars
    <2>1. UNCHANGED <<registry, bps, at, addr, handler, hit, todo>>
      BY <1>2 DEF vars, callVars, dispatchVars
    <2>2. \A k \in Addr : List(k)' = List(k)
      BY <2>1 DEF List
    <2>3. HookedAddrs' = HookedAddrs
      BY <2>2, SameLists
    <2>4. \A k \in Addr : (Setting(k)' <=> Setting(k)) /\ (Deleting(k)' <=> Deleting(k))
      BY <2>1, <2>2 DEF Setting, Deleting
    <2>5. HookedAddrs \subseteq Addr /\ bps \subseteq Addr
      BY DEF HookedAddrs, TypeOK
    <2> QED BY <1>1, <2>1, <2>3, <2>4, <2>5 DEF ArmInv, Lists, Sound, Complete, Rearming
  <1>3. CASE OfObject(HandlerStep) \/ \E k \in Addr : Stop(k)
    BY <1>1, <1>3, HandlerArm DEF ArmInv
  <1>4. ASSUME NEW t \in Threads, Call(t) \/ ThreadStep(t)
        PROVE  ArmInv'
    BY <1>1, <1>4, ThreadArm DEF ArmInv
  <1> QED BY <1>2, <1>3, <1>4 DEF Next

(* When nothing is under way, no address is in the middle of a call.       *)
LEMMA ArmArms == Inv /\ ArmInv => Armed
  <1> SUFFICES ASSUME Inv, ArmInv, AllIdle, handler = "idle"
               PROVE  bps = {k \in Addr : List(k) # <<>>} \ Refused
    BY DEF Armed
  <1>1. \A k \in Addr : ~Setting(k) /\ ~Deleting(k)
    BY DEF AllIdle, Setting, Deleting
  <1>2. bps \subseteq Addr \ Refused /\ HookedAddrs \subseteq Addr
    BY DEF Inv, TypeInv, TypeOK, HookedAddrs
  <1>3. bps = HookedAddrs \ Refused
    BY <1>1, <1>2 DEF ArmInv, Sound, Complete
  <1> QED BY <1>3 DEF HookedAddrs

(* One thread and the handler that take turns keep breakpoints at exactly  *)
(* the addresses with callbacks, but for those the backend refuses: the    *)
(* callbacks that a stop runs may add and remove hooks, and the handler    *)
(* sets the breakpoints again that the stop dropped                        *)
(* (callback_manager.py:111-114, 147-151, 210-217).                        *)
THEOREM BreakpointsMatch ==
    ASSUME Quiet, OneUser
    PROVE  Spec => []Armed
  BY InvInit, InvNext, ArmInit, ArmNext, ArmArms, PTL DEF Spec
=============================================================================
