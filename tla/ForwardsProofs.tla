--------------------------- MODULE ForwardsProofs ---------------------------
(***************************************************************************)
(* Theorems about Forwards, for any plugins, lists and bounds.             *)
(***************************************************************************)
EXTENDS Forwards, SequenceTheorems, TLAPS

\* A frame between two calls holds no callback; one inside a call holds one of
\* a plugin in memory, and visits only ids that were handed out before.
FramesOK ==
  \A k \in DOMAIN stack :
    /\ stack[k].callee = 0 => stack[k].fn = Empty
    /\ stack[k].callee /= 0 => stack[k].fn \in mapped
    /\ stack[k].ids \subseteq 1 .. (lists[stack[k].list].nextId - 1)

EntriesOK ==
  \A l \in Lists : \A id \in Ids(lists[l]) :
    /\ lists[l].entries[id].owner \in mapped
    /\ lists[l].entries[id].fn = lists[l].entries[id].owner

\* A host that is gone has no subscribers.
HostOK == ~host => \A l \in Lists : Ids(lists[l]) = {}

IInv == TypeOK /\ EntriesOK /\ FramesOK /\ HostOK /\ NothingUnmappedRuns

\* Of a frame that returns, the frames outside it are left.
LEMMA Popped ==
  ASSUME NEW S, NEW s \in Seq(S), s /= <<>>
  PROVE  /\ SubSeq(s, 1, Len(s) - 1) \in Seq(S)
         /\ Len(SubSeq(s, 1, Len(s) - 1)) = Len(s) - 1
         /\ Len(s) \in 1 .. Len(s)
         /\ DOMAIN s = 1 .. Len(s)
         /\ DOMAIN SubSeq(s, 1, Len(s) - 1) = 1 .. (Len(s) - 1)
         /\ \A k \in 1 .. (Len(s) - 1) : SubSeq(s, 1, Len(s) - 1)[k] = s[k]
<1>1. Len(s) \in Nat \ {0} /\ DOMAIN s = 1 .. Len(s) /\ \A k \in 1 .. Len(s) : s[k] \in S
  BY EmptySeq, LenProperties
<1>2. \A k \in 1 .. (Len(s) - 1) : s[k] \in S
  BY <1>1
<1>3. /\ SubSeq(s, 1, Len(s) - 1) \in Seq(S)
      /\ Len(SubSeq(s, 1, Len(s) - 1)) = Len(s) - 1
      /\ \A k \in 1 .. (Len(s) - 1) : SubSeq(s, 1, Len(s) - 1)[k] = s[1 + k - 1]
  <2>1. Len(s) - 1 \in Int /\ (1 <= Len(s) - 1 \/ Len(s) - 1 = 0)
    BY <1>1
  <2>2. (Len(s) - 1) - 1 + 1 = Len(s) - 1
    BY <1>1
  <2>3. QED
    BY <1>2, <2>1, <2>2, SubSeqProperties
<1>4. DOMAIN SubSeq(s, 1, Len(s) - 1) = 1 .. (Len(s) - 1)
  BY <1>3, LenProperties
<1>5. QED
  BY <1>1, <1>3, <1>4

\* The innermost frame replaced by another of its type.
LEMMA Replaced ==
  ASSUME NEW S, NEW s \in Seq(S), s /= <<>>, NEW e \in S
  PROVE  /\ [s EXCEPT ![Len(s)] = e] \in Seq(S)
         /\ Len([s EXCEPT ![Len(s)] = e]) = Len(s)
         /\ DOMAIN [s EXCEPT ![Len(s)] = e] = DOMAIN s
         /\ [s EXCEPT ![Len(s)] = e][Len(s)] = e
         /\ \A k \in DOMAIN s : k /= Len(s) => [s EXCEPT ![Len(s)] = e][k] = s[k]
  BY EmptySeq, ExceptSeq

\* What Add makes of a list.
LEMMA Added ==
  ASSUME NEW list, NEW p, NEW added, added = Add(list, p)
  PROVE  /\ Ids(added) = Ids(list) \cup {list.nextId}
         /\ added.nextId = list.nextId + 1
         /\ added.entries[list.nextId] = [owner |-> p, fn |-> p]
         /\ \A id \in Ids(list) \ {list.nextId} : added.entries[id] = list.entries[id]
         /\ added.entries = [id \in Ids(added) |-> added.entries[id]]
  BY DEF Add, Ids

\* What erasing entries makes of a list.
LEMMA Erased ==
  ASSUME NEW list, NEW ids, NEW left, left = Erase(list, ids)
  PROVE  /\ Ids(left) = Ids(list) \ ids
         /\ left.nextId = list.nextId
         /\ \A id \in Ids(left) : left.entries[id] = list.entries[id]
         /\ left.entries = [id \in Ids(left) |-> left.entries[id]]
  BY DEF Erase, Ids

LEMMA ErasedIds ==
  ASSUME NEW list, NEW ids
  PROVE  Ids(Erase(list, ids)) = Ids(list) \ ids /\ Erase(list, ids).nextId = list.nextId
  BY DEF Erase, Ids

LEMMA AddedIds ==
  ASSUME NEW list, NEW p
  PROVE  /\ Ids(Add(list, p)) = Ids(list) \cup {list.nextId}
         /\ Add(list, p).nextId = list.nextId + 1
  BY DEF Add, Ids

\* Drop erases the entries of a plugin, and destroys no callback.
LEMMA Dropped ==
  ASSUME NEW list, NEW p, NEW left, left = Drop(list, p)
  PROVE  /\ Ids(left) = Ids(list) \ OwnedBy(list, p)
         /\ left.nextId = list.nextId
         /\ \A id \in Ids(left) : left.entries[id] = list.entries[id]
         /\ left.entries = [id \in Ids(left) |-> left.entries[id]]
         /\ DropTouches(list, p) = {}
  <1> DEFINE leaked == Leaked(list, p)
             gone == OwnedBy(list, p)
  <1>1. Ids(leaked) = Ids(list) /\ leaked.nextId = list.nextId
    BY DEF Leaked, Ids
  <1>2. \A id \in Ids(list) : leaked.entries[id] =
          IF list.entries[id].owner = p THEN [owner |-> p, fn |-> Empty] ELSE list.entries[id]
    BY DEF Leaked, Ids
  <1>3. left = Erase(leaked, gone)
    BY DEF Drop
  <1>4. DropTouches(list, p) = {}
    BY <1>1, <1>2 DEF DropTouches, Destroyed, OwnedBy
  <1>5. /\ Ids(left) = Ids(leaked) \ gone
        /\ left.nextId = leaked.nextId
        /\ \A id \in Ids(left) : left.entries[id] = leaked.entries[id]
        /\ left.entries = [id \in Ids(left) |-> left.entries[id]]
    <2> HIDE DEF leaked, gone
    <2>1. QED
      BY <1>3, Erased
  <1>6. \A id \in Ids(list) \ gone : leaked.entries[id] = list.entries[id]
    BY <1>2 DEF OwnedBy
  <1>7. QED
    <2> HIDE DEF leaked
    <2>1. QED
      BY <1>1, <1>4, <1>5, <1>6

\* Dropped, for one who needs the ids only.
LEMMA DroppedIds ==
  ASSUME NEW list, NEW p
  PROVE  /\ Drop(list, p).nextId = list.nextId
         /\ Ids(Drop(list, p)) = Ids(list) \ OwnedBy(list, p)
  BY Zenon, Dropped

-----------------------------------------------------------------------------
LEMMA InvInit == Init => IInv
<1> SUFFICES ASSUME Init PROVE IInv
  OBVIOUS
<1>1. \A l \in Lists : Ids(lists[l]) = {} /\ lists[l].nextId = 1
  BY EmptySeq DEF Init, NewList, Ids
<1>2. \A l \in Lists : lists[l].entries \in
        [Ids(lists[l]) -> [owner : Plugins, fn : Plugins \cup {Empty}]]
  BY <1>1 DEF Init, NewList, Ids
<1>3. TypeOK
  <2>1. stack \in Seq(Frames) /\ DOMAIN lists = Lists
    BY EmptySeq DEF Init
  <2>2. \A l \in Lists : Ids(lists[l]) \subseteq 1 .. (lists[l].nextId - 1)
    BY <1>1
  <2>3. \A l \in Lists : lists[l].nextId \in Nat \ {0}
    BY <1>1
  <2>4. /\ result \in BOOLEAN /\ host \in BOOLEAN
        /\ mapped \subseteq Plugins /\ unloaded \subseteq Plugins
        /\ ruined \subseteq Plugins \cup {Empty}
    BY DEF Init
  <2>5. QED
    BY <1>2, <2>1, <2>2, <2>3, <2>4, Zenon DEF TypeOK
<1>4. EntriesOK /\ FramesOK /\ HostOK /\ NothingUnmappedRuns
  BY <1>1, EmptySeq DEF Init, EntriesOK, FramesOK, HostOK, NothingUnmappedRuns
<1>5. QED
  BY <1>3, <1>4 DEF IInv

\* What a step may do to the lists without disturbing them: ids grow only
\* below nextId, owners are in memory, and the frames are those of before.
Lists_(memory) ==
  /\ DOMAIN lists' = Lists
  /\ \A l \in Lists :
       /\ lists'[l].nextId \in Nat /\ lists'[l].nextId >= lists[l].nextId
       /\ lists'[l].entries = [id \in Ids(lists'[l]) |-> lists'[l].entries[id]]
       /\ \A id \in Ids(lists'[l]) :
            /\ id \in 1 .. (lists'[l].nextId - 1)
            /\ lists'[l].entries[id].owner \in memory
            /\ lists'[l].entries[id] \in [owner : Plugins, fn : Plugins \cup {Empty}]
            /\ lists'[l].entries[id].fn = lists'[l].entries[id].owner
  /\ HostOK'

\* Such a step keeps the invariant, if no frame's plugin leaves the memory.
LEMMA ListsKept ==
  ASSUME IInv, UNCHANGED <<stack, result>>, Lists_(mapped'),
         host' \in BOOLEAN, mapped' \subseteq Plugins, unloaded' \subseteq Plugins,
         ruined' = {}, OnStack \subseteq mapped'
  PROVE  IInv'
<1> USE DEF IInv
<1>1. TypeOK'
  <2>1. ASSUME NEW l \in Lists
        PROVE  /\ lists'[l].nextId \in Nat \ {0}
               /\ lists'[l].entries \in
                    [Ids(lists'[l]) -> [owner : Plugins, fn : Plugins \cup {Empty}]]
               /\ Ids(lists'[l]) \subseteq 1 .. (lists'[l].nextId - 1)
    <3>1. lists'[l].nextId \in Nat \ {0}
      <4>1. lists[l].nextId \in Nat \ {0}
        BY DEF TypeOK
      <4>2. lists'[l].nextId \in Nat /\ lists'[l].nextId >= lists[l].nextId
        BY DEF Lists_
      <4>3. QED
        BY <4>1, <4>2
    <3>2. \A id \in Ids(lists'[l]) :
            lists'[l].entries[id] \in [owner : Plugins, fn : Plugins \cup {Empty}]
      BY DEF Lists_
    <3>3. lists'[l].entries = [id \in Ids(lists'[l]) |-> lists'[l].entries[id]]
      BY DEF Lists_
    <3>4. Ids(lists'[l]) \subseteq 1 .. (lists'[l].nextId - 1)
      BY DEF Lists_
    <3>5. QED
      BY <3>1, <3>2, <3>3, <3>4
  <2>2. DOMAIN lists' = Lists
    BY DEF Lists_
  <2>3. stack' \in Seq(Frames) /\ result' \in BOOLEAN
    BY DEF TypeOK
  <2>4. QED
    BY <2>1, <2>2, <2>3 DEF TypeOK, Ids
<1>2. EntriesOK'
  BY DEF EntriesOK, Lists_
<1>3. FramesOK'
  <2> SUFFICES ASSUME NEW k \in DOMAIN stack
               PROVE  /\ stack[k].callee = 0 => stack[k].fn = Empty
                      /\ stack[k].callee /= 0 => stack[k].fn \in mapped'
                      /\ stack[k].ids \subseteq 1 .. (lists'[stack[k].list].nextId - 1)
    BY DEF FramesOK
  <2>1. stack[k] \in Frames
    BY LenProperties DEF TypeOK
  <2>2. stack[k].fn \in OnStack \cup {Empty}
    BY DEF OnStack
  <2>3. stack[k].callee /= 0 => stack[k].fn /= Empty
    BY <2>1, ForwardsAssumption DEF FramesOK, TypeOK
  <2>4. stack[k].list \in Lists
    BY <2>1 DEF Frames
  <2>5. /\ lists[stack[k].list].nextId \in Nat
        /\ lists'[stack[k].list].nextId \in Nat
        /\ lists'[stack[k].list].nextId >= lists[stack[k].list].nextId
    BY <2>4 DEF TypeOK, Lists_
  <2>6. stack[k].ids \subseteq 1 .. (lists[stack[k].list].nextId - 1)
    BY DEF FramesOK
  <2>7. QED
    BY <2>2, <2>3, <2>5, <2>6 DEF FramesOK
<1>4. NothingUnmappedRuns'
  BY DEF NothingUnmappedRuns
<1>5. QED
  BY <1>1, <1>2, <1>3, <1>4 DEF Lists_

\* The callbacks of a list, but for those its owners' entries hold, are of
\* plugins in memory: destroying any touches nothing that is gone.
LEMMA DestroyedAreMapped ==
  ASSUME IInv, NEW l \in Lists, NEW ids
  PROVE  Destroyed(lists[l], ids) \subseteq mapped
  BY DEF Destroyed, IInv, EntriesOK

LEMMA OnStackIsMapped ==
  ASSUME IInv
  PROVE  OnStack \subseteq mapped
  BY LenProperties DEF OnStack, IInv, FramesOK, TypeOK

LEMMA LoadStep ==
  ASSUME IInv, NEW p \in Plugins, Load(p) PROVE IInv'
<1>1. Lists_(mapped')
  BY DEF Load, IInv, TypeOK, EntriesOK, HostOK, Lists_, Ids
<1>2. OnStack \subseteq mapped'
  BY OnStackIsMapped DEF Load
<1>3. QED
  BY <1>1, <1>2, ListsKept DEF Load, IInv, TypeOK, NothingUnmappedRuns

LEMMA RegisterStep ==
  ASSUME IInv, NEW l \in Lists, NEW p \in Plugins, RegisterOn(l, p) PROVE IInv'
<1>1. lists'[l] = Add(lists[l], p) /\ \A m \in Lists \ {l} : lists'[m] = lists[m]
  BY DEF RegisterOn, IInv, TypeOK
<1>2. DOMAIN lists' = Lists
  BY DEF RegisterOn, IInv, TypeOK
<1>3. /\ Ids(lists'[l]) = Ids(lists[l]) \cup {lists[l].nextId}
      /\ lists'[l].nextId = lists[l].nextId + 1
      /\ lists'[l].entries[lists[l].nextId] = [owner |-> p, fn |-> p]
      /\ \A id \in Ids(lists[l]) \ {lists[l].nextId} :
           lists'[l].entries[id] = lists[l].entries[id]
      /\ lists'[l].entries = [id \in Ids(lists'[l]) |-> lists'[l].entries[id]]
  BY <1>1, Added
<1>4. host /\ p \in mapped /\ UNCHANGED <<stack, result, host, mapped, unloaded, ruined>>
  BY DEF RegisterOn
<1>5. Lists_(mapped')
  BY <1>1, <1>2, <1>3, <1>4 DEF HostOK, IInv, TypeOK, EntriesOK, Lists_
<1>6. QED
  BY <1>4, <1>5, ListsKept, OnStackIsMapped DEF IInv, TypeOK, NothingUnmappedRuns

\* Lists that only lose entries, none of them left to a plugin that is gone.
LEMMA ListsErased ==
  ASSUME IInv, NEW memory, memory \subseteq mapped, DOMAIN lists' = Lists, HostOK',
         \A l \in Lists :
           /\ Ids(lists'[l]) \subseteq Ids(lists[l])
           /\ lists'[l].nextId = lists[l].nextId
           /\ \A id \in Ids(lists'[l]) : lists'[l].entries[id] = lists[l].entries[id]
           /\ lists'[l].entries = [id \in Ids(lists'[l]) |-> lists'[l].entries[id]]
           /\ \A id \in Ids(lists'[l]) : lists[l].entries[id].owner \in memory
  PROVE  Lists_(memory)
  BY DEF IInv, TypeOK, EntriesOK, Lists_

LEMMA UnregisterStep ==
  ASSUME IInv, NEW l \in Lists, NEW id \in Ids(lists[l]), UnregisterOn(l, id)
  PROVE IInv'
<1>1. lists'[l] = Erase(lists[l], {id}) /\ \A m \in Lists \ {l} : lists'[m] = lists[m]
  BY DEF UnregisterOn, IInv, TypeOK
<1>2. DOMAIN lists' = Lists
  BY DEF UnregisterOn, IInv, TypeOK
<1>3. ASSUME NEW m \in Lists
      PROVE  /\ Ids(lists'[m]) \subseteq Ids(lists[m])
             /\ lists'[m].nextId = lists[m].nextId
             /\ \A i \in Ids(lists'[m]) : lists'[m].entries[i] = lists[m].entries[i]
             /\ lists'[m].entries = [i \in Ids(lists'[m]) |-> lists'[m].entries[i]]
             /\ \A i \in Ids(lists'[m]) : lists[m].entries[i].owner \in mapped
  <2>1. \A i \in Ids(lists[m]) : lists[m].entries[i].owner \in mapped
    BY DEF IInv, EntriesOK
  <2>2. CASE m = l
    <3>1. lists'[m] = Erase(lists[m], {id})
      BY <1>1, <2>2
    <3>2. QED
      BY <2>1, <3>1, Erased
  <2>3. CASE m /= l
    BY <1>1, <2>1, <2>3 DEF IInv, TypeOK
  <2>4. QED
    BY <2>2, <2>3
<1>6. HostOK'
  BY DEF HostOK, UnregisterOn
<1>7. Lists_(mapped)
  BY <1>2, <1>3, <1>6, ListsErased
<1>4. ruined' = {} /\ UNCHANGED <<stack, result, host, mapped, unloaded>>
  BY DestroyedAreMapped DEF UnregisterOn, Touch, IInv, NothingUnmappedRuns
<1>8. QED
  BY <1>4, <1>7, ListsKept, OnStackIsMapped DEF IInv, TypeOK

LEMMA OwnersLeft ==
  ASSUME IInv, NEW l \in Lists, NEW p, NEW id \in Ids(lists[l]) \ OwnedBy(lists[l], p)
  PROVE  lists[l].entries[id].owner \in mapped \ {p}
  BY DEF IInv, EntriesOK, OwnedBy

\* Unloading when the host is gone.
LEMMA ListsGone ==
  ASSUME IInv, ~host, NEW p, mapped' = mapped \ {p}, p \in Plugins,
         unloaded' = unloaded \cup {p}, OnStack \subseteq mapped',
         UNCHANGED <<lists, stack, result, host, ruined>>
  PROVE  IInv'
<1>1. HostOK' /\ \A l \in Lists : Ids(lists[l]) = {} /\ lists'[l] = lists[l]
  BY DEF IInv, HostOK
<1>2. \A l \in Lists : lists[l].entries = [id \in Ids(lists[l]) |-> lists[l].entries[id]]
  BY DEF IInv, TypeOK
<1>3. Lists_(mapped')
  BY <1>1, <1>2 DEF Lists_, IInv, TypeOK
<1>4. QED
  BY <1>3, ListsKept DEF IInv, TypeOK, NothingUnmappedRuns

LEMMA UnloadAnnouncedStep ==
  ASSUME IInv, NEW p \in Plugins, UnloadAnnounced(p) PROVE IInv'
<1>1. /\ mapped' = mapped \ {p} /\ unloaded' = unloaded \cup {p}
      /\ UNCHANGED <<stack, result, host>>
  BY DEF UnloadAnnounced
<1>2. OnStack \subseteq mapped'
  BY <1>1, OnStackIsMapped DEF UnloadAnnounced, Unloadable
<1>3. CASE host
  <2>1. /\ lists' = [l \in Lists |-> Drop(lists[l], p)]
        /\ ruined' = ruined \cup
             ((UNION {DropTouches(lists[l], p) : l \in Lists}) \ mapped')
    BY <1>3 DEF UnloadAnnounced, DropOwnedBy, Touch
  <2>2. Lists_(mapped')
    <3>1. ASSUME NEW m \in Lists
          PROVE  /\ Ids(lists'[m]) \subseteq Ids(lists[m])
                 /\ lists'[m].nextId = lists[m].nextId
                 /\ \A i \in Ids(lists'[m]) : lists'[m].entries[i] = lists[m].entries[i]
                 /\ lists'[m].entries = [i \in Ids(lists'[m]) |-> lists'[m].entries[i]]
                 /\ \A i \in Ids(lists'[m]) : lists[m].entries[i].owner \in mapped'
      <4>1. lists'[m] = Drop(lists[m], p)
        BY <2>1
      <4>2. /\ Ids(lists'[m]) = Ids(lists[m]) \ OwnedBy(lists[m], p)
            /\ lists'[m].nextId = lists[m].nextId
            /\ \A i \in Ids(lists'[m]) : lists'[m].entries[i] = lists[m].entries[i]
            /\ lists'[m].entries = [i \in Ids(lists'[m]) |-> lists'[m].entries[i]]
        BY <4>1, Dropped
      <4>3. \A i \in Ids(lists'[m]) : lists[m].entries[i].owner \in mapped'
        BY <1>1, <4>2, OwnersLeft
      <4>4. QED
        BY <4>2, <4>3
    <3>2. DOMAIN lists' = Lists /\ HostOK' /\ mapped' \subseteq mapped
      BY <1>1, <1>3, <2>1 DEF HostOK
    <3>3. QED
      BY <3>1, <3>2, ListsErased
  <2>3. ruined' = {}
    BY <2>1, Dropped DEF IInv, NothingUnmappedRuns
  <2>4. QED
    BY <1>1, <1>2, <2>2, <2>3, ListsKept DEF IInv, TypeOK
<1>4. CASE ~host
  BY <1>1, <1>2, <1>4, ListsGone DEF UnloadAnnounced
<1>5. QED
  BY <1>3, <1>4

LEMMA UnloadSilentlyStep ==
  ASSUME IInv, NEW p \in Plugins, UnloadSilently(p) PROVE IInv'
<1>1. /\ mapped' = mapped \ {p} /\ unloaded' = unloaded \cup {p}
      /\ UNCHANGED <<stack, result, host>>
  BY DEF UnloadSilently
<1>2. OnStack \subseteq mapped'
  BY <1>1, OnStackIsMapped DEF UnloadSilently, Unloadable
<1>3. CASE host
  <2>1. /\ lists' = [l \in Lists |-> Erase(lists[l], OwnedBy(lists[l], p))]
        /\ ruined' = ruined \cup
             ((UNION {Destroyed(lists[l], OwnedBy(lists[l], p)) : l \in Lists}) \ mapped)
    BY <1>3 DEF UnloadSilently, Touch
  <2>2. Lists_(mapped')
    <3>1. ASSUME NEW m \in Lists
          PROVE  /\ Ids(lists'[m]) \subseteq Ids(lists[m])
                 /\ lists'[m].nextId = lists[m].nextId
                 /\ \A i \in Ids(lists'[m]) : lists'[m].entries[i] = lists[m].entries[i]
                 /\ lists'[m].entries = [i \in Ids(lists'[m]) |-> lists'[m].entries[i]]
                 /\ \A i \in Ids(lists'[m]) : lists[m].entries[i].owner \in mapped'
      <4>1. lists'[m] = Erase(lists[m], OwnedBy(lists[m], p))
        BY <2>1
      <4>2. /\ Ids(lists'[m]) = Ids(lists[m]) \ OwnedBy(lists[m], p)
            /\ lists'[m].nextId = lists[m].nextId
            /\ \A i \in Ids(lists'[m]) : lists'[m].entries[i] = lists[m].entries[i]
            /\ lists'[m].entries = [i \in Ids(lists'[m]) |-> lists'[m].entries[i]]
        BY <4>1, Erased
      <4>3. \A i \in Ids(lists'[m]) : lists[m].entries[i].owner \in mapped'
        BY <1>1, <4>2, OwnersLeft
      <4>4. QED
        BY <4>2, <4>3
    <3>2. DOMAIN lists' = Lists /\ HostOK' /\ mapped' \subseteq mapped
      BY <1>1, <1>3, <2>1 DEF HostOK
    <3>3. QED
      BY <3>1, <3>2, ListsErased
  <2>3. ruined' = {}
    <3>1. \A l \in Lists : Destroyed(lists[l], OwnedBy(lists[l], p)) \subseteq mapped
      BY DestroyedAreMapped
    <3>2. QED
      BY <2>1, <3>1 DEF IInv, NothingUnmappedRuns
  <2>4. QED
    BY <1>1, <1>2, <2>2, <2>3, ListsKept DEF IInv, TypeOK
<1>4. CASE ~host
  BY <1>1, <1>2, <1>4, ListsGone DEF UnloadSilently
<1>5. QED
  BY <1>3, <1>4

LEMMA ShutdownStep ==
  ASSUME IInv, Shutdown PROVE IInv'
<1>1. /\ lists' = [l \in Lists |-> Erase(lists[l], Ids(lists[l]))]
      /\ ruined' = ruined \cup
           ((UNION {Destroyed(lists[l], Ids(lists[l])) : l \in Lists}) \ mapped)
      /\ host' = FALSE /\ UNCHANGED <<stack, result, mapped, unloaded>>
  BY DEF Shutdown, Touch
<1>2. ASSUME NEW m \in Lists
      PROVE  /\ Ids(lists'[m]) = {}
             /\ lists'[m].nextId = lists[m].nextId
             /\ lists'[m].entries = [i \in Ids(lists'[m]) |-> lists'[m].entries[i]]
  <2>1. lists'[m] = Erase(lists[m], Ids(lists[m]))
    BY <1>1
  <2>2. QED
    BY <2>1, Erased
<1>3. HostOK' /\ DOMAIN lists' = Lists
  BY <1>1, <1>2 DEF HostOK
<1>4. Lists_(mapped)
  BY <1>2, <1>3, ListsErased
<1>5. ruined' = {}
  <2>1. \A l \in Lists : Destroyed(lists[l], Ids(lists[l])) \subseteq mapped
    BY DestroyedAreMapped
  <2>2. QED
    BY <1>1, <2>1 DEF IInv, NothingUnmappedRuns
<1>6. QED
  BY <1>1, <1>4, <1>5, ListsKept, OnStackIsMapped DEF IInv, TypeOK

-----------------------------------------------------------------------------
(* Fire *)

\* Steps of Fire touch the stack alone.
LEMMA StackKept ==
  ASSUME IInv, UNCHANGED <<lists, host, mapped, unloaded>>, ruined' = {},
         stack' \in Seq(Frames), result' \in BOOLEAN,
         \A k \in DOMAIN stack' :
           /\ stack'[k].callee = 0 => stack'[k].fn = Empty
           /\ stack'[k].callee /= 0 => stack'[k].fn \in mapped
           /\ stack'[k].ids \subseteq 1 .. (lists[stack'[k].list].nextId - 1)
  PROVE  IInv'
<1>1. TypeOK'
  BY DEF IInv, TypeOK, Ids
<1>2. EntriesOK' /\ HostOK'
  BY DEF IInv, EntriesOK, HostOK, Ids
<1>3. FramesOK'
  BY DEF FramesOK
<1>4. QED
  BY <1>1, <1>2, <1>3 DEF IInv, NothingUnmappedRuns

LEMMA FireStep ==
  ASSUME IInv, NEW l \in Lists, FireOn(l) PROVE IInv'
<1> DEFINE frame == [list |-> l, ids |-> Ids(lists[l]), callee |-> 0, fn |-> Empty]
<1>1. Ids(lists[l]) \subseteq 1 .. (lists[l].nextId - 1) /\ lists[l].nextId \in Nat
  BY DEF IInv, TypeOK
<1>2. frame \in Frames
  BY <1>1 DEF Frames
<1>3. stack \in Seq(Frames) /\ stack' = Append(stack, frame)
  BY DEF FireOn, IInv, TypeOK
<1>4. /\ stack' \in Seq(Frames) /\ DOMAIN stack' = 1 .. (Len(stack) + 1)
      /\ DOMAIN stack = 1 .. Len(stack) /\ Len(stack) \in Nat
      /\ \A k \in 1 .. Len(stack) : stack'[k] = stack[k]
      /\ stack'[Len(stack) + 1] = frame
  BY <1>2, <1>3, AppendProperties, LenProperties
<1>5. \A k \in DOMAIN stack' :
        /\ stack'[k].callee = 0 => stack'[k].fn = Empty
        /\ stack'[k].callee /= 0 => stack'[k].fn \in mapped
        /\ stack'[k].ids \subseteq 1 .. (lists[stack'[k].list].nextId - 1)
  <2> SUFFICES ASSUME NEW k \in 1 .. (Len(stack) + 1)
               PROVE /\ stack'[k].callee = 0 => stack'[k].fn = Empty
                     /\ stack'[k].callee /= 0 => stack'[k].fn \in mapped
                     /\ stack'[k].ids \subseteq 1 .. (lists[stack'[k].list].nextId - 1)
    BY <1>4
  <2>1. CASE k = Len(stack) + 1
    BY <1>1, <1>4, <2>1
  <2>2. CASE k \in 1 .. Len(stack)
    BY <1>4, <2>2 DEF IInv, FramesOK
  <2>3. QED
    BY <1>4, <2>1, <2>2
<1>6. QED
  BY <1>4, <1>5, StackKept DEF FireOn, IInv, TypeOK, NothingUnmappedRuns

\* The innermost frame, when there is one.
LEMMA Top ==
  ASSUME IInv, stack /= <<>>
  PROVE  /\ Innermost \in Frames /\ Len(stack) \in DOMAIN stack
         /\ Len(stack) \in Nat \ {0} /\ DOMAIN stack = 1 .. Len(stack)
         /\ Innermost.ids \subseteq 1 .. (lists[Innermost.list].nextId - 1)
         /\ Innermost.callee = 0 => Innermost.fn = Empty
         /\ Innermost.callee /= 0 => Innermost.fn \in mapped
<1>1. /\ Len(stack) \in Nat \ {0} /\ DOMAIN stack = 1 .. Len(stack)
      /\ stack \in [1 .. Len(stack) -> Frames]
  BY EmptySeq, LenProperties DEF IInv, TypeOK
<1>2. QED
  BY <1>1 DEF IInv, FramesOK, Innermost

\* The innermost frame replaced.
LEMMA TopReplaced ==
  ASSUME IInv, stack /= <<>>, NEW frame \in Frames,
         stack' = [stack EXCEPT ![Len(stack)] = frame],
         frame.callee = 0 => frame.fn = Empty,
         frame.callee /= 0 => frame.fn \in mapped,
         frame.ids \subseteq 1 .. (lists[frame.list].nextId - 1),
         UNCHANGED <<lists, result, host, mapped, unloaded>>, ruined' = {}
  PROVE  IInv'
<1>1. /\ stack' \in Seq(Frames) /\ DOMAIN stack' = DOMAIN stack
      /\ stack'[Len(stack)] = frame
      /\ \A k \in DOMAIN stack : k /= Len(stack) => stack'[k] = stack[k]
  BY Replaced DEF IInv, TypeOK
<1>2. \A k \in DOMAIN stack' :
        /\ stack'[k].callee = 0 => stack'[k].fn = Empty
        /\ stack'[k].callee /= 0 => stack'[k].fn \in mapped
        /\ stack'[k].ids \subseteq 1 .. (lists[stack'[k].list].nextId - 1)
  BY <1>1 DEF IInv, FramesOK
<1>3. QED
  BY <1>1, <1>2, StackKept DEF IInv, TypeOK

\* The innermost frame popped.
LEMMA TopPopped ==
  ASSUME IInv, stack /= <<>>, stack' = Outer, result' \in BOOLEAN,
         UNCHANGED <<lists, host, mapped, unloaded>>, ruined' = {}
  PROVE  IInv'
<1>1. /\ stack' \in Seq(Frames) /\ DOMAIN stack' \subseteq DOMAIN stack
      /\ \A k \in DOMAIN stack' : stack'[k] = stack[k]
  <2>1. stack \in Seq(Frames)
    BY DEF IInv, TypeOK
  <2>2. /\ Outer \in Seq(Frames) /\ DOMAIN Outer = 1 .. (Len(stack) - 1)
        /\ Len(stack) \in 1 .. Len(stack) /\ DOMAIN stack = 1 .. Len(stack)
        /\ \A k \in 1 .. (Len(stack) - 1) : Outer[k] = stack[k]
    BY <2>1, Popped DEF Outer
  <2>3. 1 .. (Len(stack) - 1) \subseteq 1 .. Len(stack)
    BY <2>1, LenProperties
  <2>4. QED
    BY <2>2, <2>3
<1>2. \A k \in DOMAIN stack' :
        /\ stack'[k].callee = 0 => stack'[k].fn = Empty
        /\ stack'[k].callee /= 0 => stack'[k].fn \in mapped
        /\ stack'[k].ids \subseteq 1 .. (lists[stack'[k].list].nextId - 1)
  BY <1>1 DEF IInv, FramesOK
<1>3. QED
  BY <1>1, <1>2, StackKept

LEMMA CallNextStep ==
  ASSUME IInv, CallNext PROVE IInv'
<1>1. stack /= <<>>
  BY DEF CallNext
<1>2. PICK id \in Found(Innermost) :
        /\ stack' = [stack EXCEPT ![Len(stack)] =
             [list |-> Innermost.list, ids |-> {i \in Innermost.ids : i > id},
              callee |-> id, fn |-> lists[Innermost.list].entries[id].fn]]
        /\ Touch({lists[Innermost.list].entries[id].fn}, mapped)
  BY DEF CallNext
<1> DEFINE frame == [list |-> Innermost.list, ids |-> {i \in Innermost.ids : i > id},
                     callee |-> id, fn |-> lists[Innermost.list].entries[id].fn]
<1>3. /\ Innermost.list \in Lists /\ id \in Innermost.ids
      /\ id \in Ids(lists[Innermost.list])
  BY <1>1, <1>2, Top DEF Frames, Found
<1>4. /\ lists[Innermost.list].entries[id].fn \in mapped
      /\ id \in Nat \ {0}
  BY <1>3 DEF IInv, TypeOK, EntriesOK
<1>5. frame \in Frames
  BY <1>1, <1>3, <1>4, Top DEF Frames, IInv, TypeOK
<1>6. stack' = [stack EXCEPT ![Len(stack)] = frame]
  BY <1>2
<1>7. frame.ids \subseteq 1 .. (lists[frame.list].nextId - 1)
  BY <1>1, Top
<1>8. ruined' = {} /\ UNCHANGED <<lists, result, host, mapped, unloaded>>
  BY <1>2, <1>4 DEF CallNext, Touch, IInv, NothingUnmappedRuns
<1>9. QED
  BY <1>1, <1>4, <1>5, <1>6, <1>7, <1>8, TopReplaced

LEMMA ReturnStep ==
  ASSUME IInv, NEW blocks \in BOOLEAN, Return(blocks) PROVE IInv'
<1>1. stack /= <<>> /\ Innermost.callee /= 0 /\ Innermost.fn \in mapped
  BY Top DEF Return
<1>2. ruined' = {} /\ UNCHANGED <<lists, host, mapped, unloaded>>
  BY <1>1 DEF Return, Touch, IInv, NothingUnmappedRuns
<1>3. CASE blocks
  BY <1>1, <1>2, <1>3, TopPopped DEF Return
<1>4. CASE ~blocks
  <2> DEFINE frame == [list |-> Innermost.list, ids |-> Innermost.ids,
                       callee |-> 0, fn |-> Empty]
  <2>1. frame \in Frames
    BY <1>1, Top DEF Frames
  <2>2. stack' = [stack EXCEPT ![Len(stack)] = frame] /\ UNCHANGED result
    BY <1>4 DEF Return
  <2>3. QED
    BY <1>1, <1>2, <2>1, <2>2, Top, TopReplaced
<1>5. QED
  BY <1>3, <1>4

LEMMA EndFireStep ==
  ASSUME IInv, EndFire PROVE IInv'
  BY TopPopped DEF EndFire, IInv, NothingUnmappedRuns

LEMMA Invariance == Spec => []IInv
<1>1. IInv /\ [Next]_vars => IInv'
  <2> SUFFICES ASSUME IInv, [Next]_vars PROVE IInv'
    OBVIOUS
  <2>1. CASE UNCHANGED vars
    BY <2>1 DEF vars, IInv, TypeOK, EntriesOK, FramesOK, HostOK, NothingUnmappedRuns, Ids
  <2>2. CASE Next
    BY <2>2, LoadStep, RegisterStep, UnregisterStep, UnloadAnnouncedStep,
       UnloadSilentlyStep, ShutdownStep, FireStep, CallNextStep, ReturnStep,
       EndFireStep DEF Next
  <2>3. QED
    BY <2>1, <2>2
<1>2. QED
  BY InvInit, <1>1, PTL DEF Spec

\* Frames and entries are what forward_list.h declares them to be, and ids
\* are handed out once.
THEOREM ForwardsTypeCorrect == Spec => []TypeOK
  BY Invariance, PTL DEF IInv

\* Whatever callbacks do in the middle of a Fire, and whether plugins leave
\* announced or not, no callback of one that is gone is called or destroyed.
THEOREM UnmappedCorrect == Spec => []NothingUnmappedRuns
  BY Invariance, PTL DEF IInv

-----------------------------------------------------------------------------
(* The lists implement Firing. *)

LEMMA PromisedInit == Init => Promised!Init
<1> SUFFICES ASSUME Init PROVE Promised!Init
  OBVIOUS
<1>1. Joined = [l \in Lists |-> 0] /\ Members = [l \in Lists |-> {}]
  BY DEF Init, Joined, Members, NewList, Ids
<1>2. Firings = <<>>
  BY EmptySeq, SeqEqual DEF Init, Firings
<1>3. QED
  BY <1>1, <1>2 DEF Promised!Init, Init

\* The firings are a sequence as long as the stack.
LEMMA FiringsSeq ==
  ASSUME IInv
  PROVE  /\ DOMAIN Firings = DOMAIN stack
         /\ Len(Firings) = Len(stack) /\ Len(stack) \in Nat
         /\ DOMAIN stack = 1 .. Len(stack)
         /\ \A k \in DOMAIN stack : Firings[k] = FiringOf(stack[k])
         /\ stack /= <<>> <=> Firings /= <<>>
         /\ stack /= <<>> => Promised!Innermost = FiringOf(Innermost)
                               /\ Len(stack) \in DOMAIN stack
<1>1. Len(stack) \in Nat /\ DOMAIN stack = 1 .. Len(stack)
  BY LenProperties DEF IInv, TypeOK
<1>2. Firings = [k \in 1 .. Len(stack) |-> FiringOf(stack[k])]
  BY <1>1 DEF Firings
<1>3. Firings \in Seq({FiringOf(stack[k]) : k \in 1 .. Len(stack)})
      /\ Len(Firings) = Len(stack)
  BY <1>1, <1>2
<1>4. stack /= <<>> <=> Len(stack) /= 0
  BY <1>1, EmptySeq DEF IInv, TypeOK
<1>5. Firings /= <<>> <=> Len(stack) /= 0
  BY <1>1, <1>3, EmptySeq
<1>6. QED
  BY <1>1, <1>2, <1>3, <1>4, <1>5 DEF Promised!Innermost, Innermost

LEMMA FrameTypes ==
  ASSUME IInv, NEW k \in DOMAIN stack
  PROVE  stack[k] \in Frames /\ stack[k].list \in Lists
<1>1. stack[k] \in Frames
  BY LenProperties DEF IInv, TypeOK
<1>2. QED
  BY <1>1 DEF Frames

\* A step that changes the lists alone, and takes entries off them.
LEMMA PromisedLeave ==
  ASSUME IInv, UNCHANGED <<stack, result>>,
         NEW gone \in [Lists -> SUBSET Promised!AllMembers],
         \A l \in Lists : /\ lists'[l].nextId = lists[l].nextId
                          /\ Ids(lists'[l]) = Ids(lists[l]) \ gone[l]
  PROVE  Promised!Next
<1>1. Joined' = Joined
  BY DEF Joined
<1>2. Members' = [l \in Lists |-> Members[l] \ gone[l]]
  BY DEF Members
<1>3. Firings' = [k \in DOMAIN Firings |->
                    Promised!Owing(Firings[k].list,
                      Firings[k].due \ gone[Firings[k].list], Firings[k].calling)]
  <2>1. ASSUME NEW k \in DOMAIN stack
        PROVE  FiringOf(stack[k])' =
                 Promised!Owing(stack[k].list, Found(stack[k]) \ gone[stack[k].list],
                                stack[k].callee)
    <3>1. stack[k].list \in Lists
      BY FrameTypes
    <3>2. Found(stack[k])' = Found(stack[k]) \ gone[stack[k].list]
      BY <3>1 DEF Found
    <3>3. QED
      BY <3>2 DEF FiringOf, Promised!Owing
  <2>2. Firings' = [k \in DOMAIN stack |-> FiringOf(stack[k])']
    BY DEF Firings
  <2>3. \A k \in DOMAIN stack : /\ Firings[k].list = stack[k].list
                                /\ Firings[k].due = Found(stack[k])
                                /\ Firings[k].calling = stack[k].callee
    BY DEF Firings, FiringOf
  <2>4. QED
    BY <2>1, <2>2, <2>3 DEF Firings
<1>4. Promised!Leave(gone)
  BY <1>1, <1>2, <1>3 DEF Promised!Leave
<1>5. QED
  BY <1>4 DEF Promised!Next

\* Whose entries are taken off, as members.
LEMMA AreMembers ==
  ASSUME NEW l \in Lists, NEW ids, ids \subseteq Ids(lists[l])
  PROVE  ids \subseteq Promised!AllMembers
  BY DEF Promised!AllMembers, Members

LEMMA PromisedRegister ==
  ASSUME IInv, NEW l \in Lists, NEW p \in Plugins, RegisterOn(l, p)
  PROVE  Promised!Next
<1>1. lists'[l] = Add(lists[l], p) /\ \A m \in Lists \ {l} : lists'[m] = lists[m]
  BY DEF RegisterOn, IInv, TypeOK
<1>2. /\ Ids(lists'[l]) = Ids(lists[l]) \cup {lists[l].nextId}
      /\ lists'[l].nextId = lists[l].nextId + 1
  <2>1. lists'[l] = Add(lists[l], p)
    BY <1>1
  <2>2. QED
    BY <2>1, AddedIds
<1>3. UNCHANGED <<stack, result>>
  BY DEF RegisterOn
<1>4. \A m \in Lists : lists[m].nextId \in Nat
  BY DEF IInv, TypeOK
<1>5. Joined' = [Joined EXCEPT ![l] = @ + 1]
  <2>1. \A m \in Lists : lists'[m].nextId - 1 = IF m = l THEN (lists[l].nextId - 1) + 1
                                                       ELSE lists[m].nextId - 1
    BY <1>1, <1>2, <1>4
  <2>2. QED
    BY <2>1 DEF Joined
<1>6. Members' = [Members EXCEPT ![l] = @ \cup {Joined[l] + 1}]
  <2>1. Joined[l] + 1 = lists[l].nextId
    BY <1>4 DEF Joined
  <2>2. \A m \in Lists : Ids(lists'[m]) = IF m = l THEN Ids(lists[l]) \cup {Joined[l] + 1}
                                             ELSE Ids(lists[m])
    BY <1>1, <1>2, <2>1
  <2>3. QED
    BY <2>2 DEF Members
<1>7. Firings' = Firings
  <2>1. ASSUME NEW k \in DOMAIN stack PROVE FiringOf(stack[k])' = FiringOf(stack[k])
    <3>1. stack[k].list \in Lists
      BY FrameTypes
    <3>2. stack[k].ids \subseteq 1 .. (lists[stack[k].list].nextId - 1)
      BY DEF IInv, FramesOK
    <3>3. lists[l].nextId \in stack[k].ids => stack[k].list /= l
      BY <1>4, <3>2
    <3>4. Found(stack[k])' = Found(stack[k])
      BY <1>1, <1>2, <1>3, <3>1, <3>3 DEF Found
    <3>5. QED
      BY <1>3, <3>4 DEF FiringOf
  <2>2. QED
    BY <1>3, <2>1 DEF Firings
<1>8. Promised!Join(l)
  BY <1>3, <1>5, <1>6, <1>7 DEF Promised!Join
<1>9. QED
  BY <1>8 DEF Promised!Next

LEMMA PromisedUnregister ==
  ASSUME IInv, NEW l \in Lists, NEW id \in Ids(lists[l]), UnregisterOn(l, id)
  PROVE  Promised!Next
<1> DEFINE gone == [m \in Lists |-> IF m = l THEN {id} ELSE {}]
<1>1. gone \in [Lists -> SUBSET Promised!AllMembers]
  BY AreMembers
<1>2. lists'[l] = Erase(lists[l], {id}) /\ \A m \in Lists \ {l} : lists'[m] = lists[m]
  BY DEF UnregisterOn, IInv, TypeOK
<1>3. ASSUME NEW m \in Lists
      PROVE  lists'[m].nextId = lists[m].nextId /\ Ids(lists'[m]) = Ids(lists[m]) \ gone[m]
  <2>1. CASE m = l
    BY <1>2, <2>1, ErasedIds
  <2>2. CASE m /= l
    BY <1>2, <2>2
  <2>3. QED
    BY <2>1, <2>2
<1>4. UNCHANGED <<stack, result>>
  BY DEF UnregisterOn
<1>5. QED
  BY <1>1, <1>3, <1>4, PromisedLeave

\* Every entry of one owner.
LEMMA PromisedDrop ==
  ASSUME IInv, NEW p, UNCHANGED <<stack, result>>,
         \A l \in Lists : /\ lists'[l].nextId = lists[l].nextId
                          /\ Ids(lists'[l]) = Ids(lists[l]) \ OwnedBy(lists[l], p)
  PROVE  Promised!Next
<1> DEFINE gone == [l \in Lists |-> OwnedBy(lists[l], p)]
<1>1. gone \in [Lists -> SUBSET Promised!AllMembers]
  BY AreMembers DEF OwnedBy
<1>2. QED
  BY <1>1, PromisedLeave

\* Steps that Firing does not see.
LEMMA PromisedStutter ==
  ASSUME UNCHANGED <<lists, stack, result>>
  PROVE  UNCHANGED Promised!vars
<1>1. Joined' = Joined /\ Members' = Members
  BY DEF Joined, Members, Ids
<1>2. Firings' = Firings
  BY DEF Firings, FiringOf, Found, Ids
<1>3. QED
  BY <1>1, <1>2 DEF Promised!vars

LEMMA PromisedUnload ==
  ASSUME IInv, NEW p \in Plugins, UnloadAnnounced(p) \/ UnloadSilently(p)
  PROVE  [Promised!Next]_(Promised!vars)
<1>1. CASE host /\ UnloadAnnounced(p)
  <2>1. lists' = [l \in Lists |-> Drop(lists[l], p)] /\ UNCHANGED <<stack, result>>
    BY <1>1 DEF UnloadAnnounced, DropOwnedBy
  <2>2. ASSUME NEW l \in Lists
        PROVE  /\ lists'[l].nextId = lists[l].nextId
               /\ Ids(lists'[l]) = Ids(lists[l]) \ OwnedBy(lists[l], p)
    <3>1. lists'[l] = Drop(lists[l], p)
      BY <2>1
    <3>2. QED
      BY <3>1, DroppedIds
  <2>3. QED
    BY <2>1, <2>2, PromisedDrop
<1>2. CASE host /\ UnloadSilently(p)
  <2>1. /\ lists' = [l \in Lists |-> Erase(lists[l], OwnedBy(lists[l], p))]
        /\ UNCHANGED <<stack, result>>
    BY <1>2 DEF UnloadSilently
  <2>2. ASSUME NEW l \in Lists
        PROVE  /\ lists'[l].nextId = lists[l].nextId
               /\ Ids(lists'[l]) = Ids(lists[l]) \ OwnedBy(lists[l], p)
    <3>1. lists'[l] = Erase(lists[l], OwnedBy(lists[l], p))
      BY <2>1
    <3>2. QED
      BY <3>1, ErasedIds
  <2>3. QED
    BY <2>1, <2>2, PromisedDrop
<1>3. CASE ~host
  BY <1>3, PromisedStutter DEF UnloadAnnounced, UnloadSilently
<1>4. QED
  BY <1>1, <1>2, <1>3

LEMMA PromisedShutdown ==
  ASSUME IInv, Shutdown PROVE Promised!Next
<1> DEFINE gone == [l \in Lists |-> Ids(lists[l])]
<1>1. gone \in [Lists -> SUBSET Promised!AllMembers]
  BY AreMembers
<1>2. \A l \in Lists : lists'[l] = Erase(lists[l], Ids(lists[l]))
  BY DEF Shutdown
<1>3. ASSUME NEW l \in Lists
      PROVE  lists'[l].nextId = lists[l].nextId /\ Ids(lists'[l]) = Ids(lists[l]) \ gone[l]
  <2>1. lists'[l] = Erase(lists[l], Ids(lists[l]))
    BY <1>2
  <2>2. QED
    BY <2>1, ErasedIds
<1>4. UNCHANGED <<stack, result>>
  BY DEF Shutdown
<1>5. QED
  BY <1>1, <1>3, <1>4, PromisedLeave

\* The innermost firing replaced, or popped, with the innermost frame.
LEMMA PromisedTop ==
  ASSUME IInv, stack /= <<>>, NEW frame \in Frames, UNCHANGED lists,
         stack' = [stack EXCEPT ![Len(stack)] = frame]
  PROVE  Firings' = [Firings EXCEPT ![Len(Firings)] = FiringOf(frame)]
<1>1. /\ DOMAIN stack' = DOMAIN stack /\ stack'[Len(stack)] = frame
      /\ \A k \in DOMAIN stack : k /= Len(stack) => stack'[k] = stack[k]
  BY Replaced DEF IInv, TypeOK
<1>2. \A k \in DOMAIN stack : FiringOf(stack'[k]) =
        IF k = Len(stack) THEN FiringOf(frame) ELSE FiringOf(stack[k])
  BY <1>1
<1>3. Firings' = [k \in DOMAIN stack |-> FiringOf(stack'[k])]
  BY <1>1 DEF Firings, FiringOf, Found, Ids
<1>4. Firings = [k \in DOMAIN stack |-> FiringOf(stack[k])] /\ Len(Firings) = Len(stack)
  BY FiringsSeq DEF Firings
<1>5. QED
  BY <1>2, <1>3, <1>4

LEMMA PromisedOuter ==
  ASSUME IInv, stack /= <<>>, UNCHANGED lists, stack' = Outer
  PROVE  Firings' = Promised!Outer
<1>1. stack \in Seq(Frames)
  BY DEF IInv, TypeOK
<1>2. /\ DOMAIN stack' = 1 .. (Len(stack) - 1)
      /\ Len(stack) \in 1 .. Len(stack) /\ DOMAIN stack = 1 .. Len(stack)
      /\ \A k \in 1 .. (Len(stack) - 1) : stack'[k] = stack[k]
  BY <1>1, Popped DEF Outer
<1>3. Firings' = [k \in 1 .. (Len(stack) - 1) |-> FiringOf(stack[k])]
  BY <1>2 DEF Firings, FiringOf, Found, Ids
<1>4. /\ Firings \in Seq({Firings[k] : k \in DOMAIN Firings})
      /\ Len(Firings) = Len(stack) /\ Firings /= <<>>
  <2>1. Firings = [k \in 1 .. Len(stack) |-> Firings[k]] /\ Len(stack) \in Nat
    BY FiringsSeq DEF Firings
  <2>2. QED
    BY <2>1, FiringsSeq
<1>5. /\ DOMAIN Promised!Outer = 1 .. (Len(Firings) - 1)
      /\ \A k \in 1 .. (Len(Firings) - 1) : Promised!Outer[k] = Firings[k]
  BY <1>4, Popped DEF Promised!Outer
<1>6. Promised!Outer = [k \in 1 .. (Len(Firings) - 1) |-> Promised!Outer[k]]
  BY <1>5 DEF Promised!Outer
<1>7. \A k \in 1 .. (Len(stack) - 1) : Firings[k] = FiringOf(stack[k])
  BY <1>2, FiringsSeq
<1>8. QED
  BY <1>3, <1>4, <1>5, <1>6, <1>7

LEMMA PromisedFire ==
  ASSUME IInv, NEW l \in Lists, FireOn(l)
  PROVE  Promised!Next
<1> DEFINE frame == [list |-> l, ids |-> Ids(lists[l]), callee |-> 0, fn |-> Empty]
<1>1. stack' = Append(stack, frame) /\ UNCHANGED <<lists, result>>
  BY DEF FireOn
<1>2. /\ stack \in Seq(Frames \cup {frame})
      /\ DOMAIN stack = 1 .. Len(stack) /\ Len(stack) \in Nat
  <2>1. stack \in Seq(Frames)
    BY DEF IInv, TypeOK
  <2>2. QED
    BY <2>1
<1>3. /\ DOMAIN stack' = 1 .. (Len(stack) + 1)
      /\ \A k \in 1 .. Len(stack) : stack'[k] = stack[k]
      /\ stack'[Len(stack) + 1] = frame
  BY <1>1, <1>2
<1>4. FiringOf(frame) = Promised!Owing(l, Members[l], 0)
  BY DEF FiringOf, Found, Promised!Owing, Members
<1>5. Firings' = [k \in 1 .. (Len(stack) + 1) |->
                    IF k = Len(stack) + 1 THEN FiringOf(frame) ELSE FiringOf(stack[k])]
  <2>1. Firings' = [k \in 1 .. (Len(stack) + 1) |-> FiringOf(stack'[k])]
    BY <1>1, <1>3 DEF Firings, FiringOf, Found, Ids
  <2>2. \A k \in 1 .. (Len(stack) + 1) : FiringOf(stack'[k]) =
          IF k = Len(stack) + 1 THEN FiringOf(frame) ELSE FiringOf(stack[k])
    BY <1>2, <1>3
  <2>3. QED
    BY <2>1, <2>2
<1>6. Firings = [k \in 1 .. Len(stack) |-> FiringOf(stack[k])] /\ Len(Firings) = Len(stack)
  BY <1>2, FiringsSeq DEF Firings
<1>7. Append(Firings, FiringOf(frame)) =
        [k \in 1 .. (Len(stack) + 1) |->
           IF k = Len(stack) + 1 THEN FiringOf(frame) ELSE FiringOf(stack[k])]
  <2> DEFINE S == {FiringOf(stack[k]) : k \in 1 .. Len(stack)} \cup {FiringOf(frame)}
  <2> DEFINE longer == [k \in 1 .. (Len(stack) + 1) |->
           IF k = Len(stack) + 1 THEN FiringOf(frame) ELSE FiringOf(stack[k])]
  <2>1. Firings \in Seq(S) /\ FiringOf(frame) \in S
    BY <1>2, <1>6
  <2>2. longer \in Seq(S) /\ Len(longer) = Len(stack) + 1
    BY <1>2
  <2>3. /\ Append(Firings, FiringOf(frame)) \in Seq(S)
        /\ Len(Append(Firings, FiringOf(frame))) = Len(stack) + 1
        /\ \A k \in 1 .. Len(stack) : Append(Firings, FiringOf(frame))[k] = Firings[k]
        /\ Append(Firings, FiringOf(frame))[Len(stack) + 1] = FiringOf(frame)
    BY <1>6, <2>1, AppendProperties
  <2>4. \A k \in 1 .. Len(longer) : Append(Firings, FiringOf(frame))[k] = longer[k]
    BY <1>2, <1>6, <2>2, <2>3
  <2>5. QED
    BY <2>2, <2>3, <2>4, SeqEqual
<1>8. Firings' = Append(Firings, FiringOf(frame))
  BY <1>5, <1>7
<1>9. Joined' = Joined /\ Members' = Members
  BY <1>1 DEF Joined, Members, Ids
<1>10. Promised!Begin(l)
  BY <1>1, <1>4, <1>8, <1>9 DEF Promised!Begin
<1>11. QED
  BY <1>10 DEF Promised!Next

LEMMA PromisedCall ==
  ASSUME IInv, CallNext
  PROVE  Promised!Next
<1>1. stack /= <<>> /\ Innermost.callee = 0 /\ UNCHANGED <<lists, result>>
  BY DEF CallNext
<1>2. PICK id \in Found(Innermost) :
        /\ \A later \in Found(Innermost) : id <= later
        /\ stack' = [stack EXCEPT ![Len(stack)] =
             [list |-> Innermost.list, ids |-> {i \in Innermost.ids : i > id},
              callee |-> id, fn |-> lists[Innermost.list].entries[id].fn]]
  BY DEF CallNext
<1> DEFINE frame == [list |-> Innermost.list, ids |-> {i \in Innermost.ids : i > id},
                     callee |-> id, fn |-> lists[Innermost.list].entries[id].fn]
<1>3. Innermost \in Frames /\ Innermost.list \in Lists
  BY <1>1, FiringsSeq, FrameTypes DEF Innermost
<1>4. id \in Ids(lists[Innermost.list]) /\ id \in Nat \ {0} /\ Innermost.ids \subseteq Nat
  <2>1. id \in Ids(lists[Innermost.list]) /\ Innermost.ids \subseteq Nat
    BY <1>3 DEF Found, Frames
  <2>2. Ids(lists[Innermost.list]) \subseteq 1 .. (lists[Innermost.list].nextId - 1)
    BY <1>3 DEF IInv, TypeOK
  <2>3. id \in Nat \ {0}
    BY <2>1, <2>2
  <2>4. QED
    BY <2>1, <2>3
<1>5. lists[Innermost.list].entries[id].fn \in Plugins \cup {Empty}
  BY <1>3, <1>4 DEF IInv, TypeOK, Ids
<1>6. frame \in Frames
  BY <1>3, <1>4, <1>5 DEF Frames
<1>7. Found(frame) = Found(Innermost) \ {id}
  <2>1. \A later \in Found(Innermost) : later \in Nat
    BY <1>4 DEF Found
  <2>2. Found(frame) = {i \in Found(Innermost) : i > id}
    BY DEF Found
  <2>3. ASSUME NEW i \in Found(Innermost) PROVE i > id <=> i /= id
    <3>1. id <= i /\ i \in Nat /\ id \in Nat
      BY <1>2, <1>4, <2>1
    <3>2. QED
      BY <3>1
  <2>4. QED
    BY <2>2, <2>3
<1>8. Firings' = [Firings EXCEPT ![Len(Firings)] = FiringOf(frame)]
  BY <1>1, <1>2, <1>6, PromisedTop
<1>9. /\ Firings /= <<>> /\ Promised!Innermost = FiringOf(Innermost)
  BY <1>1, FiringsSeq
<1>10. FiringOf(frame) = Promised!Owing(Innermost.list, Found(Innermost) \ {id}, id)
  BY <1>7 DEF FiringOf, Promised!Owing
<1>11. id \in Promised!Firsts(Found(Innermost))
  BY <1>2 DEF Promised!Firsts
<1>12. Joined' = Joined /\ Members' = Members
  BY <1>1 DEF Joined, Members, Ids
<1>13. Promised!Call
  <2>1. /\ Promised!Innermost.calling = 0 /\ Promised!Innermost.due = Found(Innermost)
        /\ Promised!Innermost.list = Innermost.list
    BY <1>1, <1>9 DEF FiringOf
  <2>2. QED
    BY <1>1, <1>8, <1>9, <1>10, <1>11, <1>12, <2>1 DEF Promised!Call
<1>14. QED
  BY <1>13 DEF Promised!Next

LEMMA PromisedReturn ==
  ASSUME IInv, NEW blocks \in BOOLEAN, Return(blocks)
  PROVE  Promised!Next
<1>1. /\ stack /= <<>> /\ Innermost.callee /= 0 /\ UNCHANGED lists
      /\ blocks => Innermost.list \in Blockable
  BY DEF Return
<1>2. /\ Firings /= <<>> /\ Promised!Innermost.calling = Innermost.callee
      /\ Promised!Innermost.due = Found(Innermost)
      /\ Promised!Innermost.list = Innermost.list
  <2>1. Firings /= <<>> /\ Promised!Innermost = FiringOf(Innermost)
    BY <1>1, FiringsSeq
  <2>2. QED
    BY <2>1 DEF FiringOf
<1>3. Joined' = Joined /\ Members' = Members
  BY <1>1 DEF Joined, Members, Ids
<1>4. CASE blocks
  <2>1. stack' = Outer /\ result' = TRUE
    BY <1>4 DEF Return
  <2>2. Firings' = Promised!Outer
    BY <1>1, <2>1, PromisedOuter
  <2>3. Promised!Answer(blocks)
    BY <1>1, <1>2, <1>3, <1>4, <2>1, <2>2 DEF Promised!Answer
  <2>4. QED
    BY <2>3 DEF Promised!Next
<1>5. CASE ~blocks
  <2> DEFINE frame == [list |-> Innermost.list, ids |-> Innermost.ids,
                       callee |-> 0, fn |-> Empty]
  <2>1. stack' = [stack EXCEPT ![Len(stack)] = frame] /\ UNCHANGED result
    BY <1>5 DEF Return
  <2>2. Innermost \in Frames
    BY <1>1, FiringsSeq, FrameTypes DEF Innermost
  <2>3. frame \in Frames
    BY <2>2 DEF Frames
  <2>4. Firings' = [Firings EXCEPT ![Len(Firings)] = FiringOf(frame)]
    BY <1>1, <2>1, <2>3, PromisedTop
  <2>5. FiringOf(frame) = Promised!Owing(Innermost.list, Found(Innermost), 0)
    BY DEF FiringOf, Found, Promised!Owing
  <2>6. Promised!Answer(blocks)
    BY <1>1, <1>2, <1>3, <1>5, <2>1, <2>4, <2>5 DEF Promised!Answer
  <2>7. QED
    BY <2>6 DEF Promised!Next
<1>6. QED
  BY <1>4, <1>5

LEMMA PromisedEnd ==
  ASSUME IInv, EndFire
  PROVE  Promised!Next
<1>1. /\ stack /= <<>> /\ Innermost.callee = 0 /\ Found(Innermost) = {}
      /\ stack' = Outer /\ result' = FALSE /\ UNCHANGED lists
  BY DEF EndFire
<1>2. Firings /= <<>> /\ Promised!Innermost = FiringOf(Innermost)
  BY <1>1, FiringsSeq
<1>3. Firings' = Promised!Outer
  BY <1>1, PromisedOuter
<1>4. Joined' = Joined /\ Members' = Members
  BY <1>1 DEF Joined, Members, Ids
<1>5. Promised!Innermost.calling = 0 /\ Promised!Innermost.due = {}
  BY <1>1, <1>2 DEF FiringOf
<1>6. Promised!End
  BY <1>1, <1>2, <1>3, <1>4, <1>5 DEF Promised!End
<1>7. QED
  BY <1>6 DEF Promised!Next

LEMMA PromisedStep ==
  ASSUME IInv, [Next]_vars PROVE [Promised!Next]_(Promised!vars)
<1>1. ASSUME NEW p \in Plugins, Load(p) \/ UnloadAnnounced(p) \/ UnloadSilently(p)
      PROVE  [Promised!Next]_(Promised!vars)
  BY <1>1, PromisedUnload, PromisedStutter DEF Load
<1>2. ASSUME NEW l \in Lists, FireOn(l) PROVE [Promised!Next]_(Promised!vars)
  BY <1>2, PromisedFire
<1>3. ASSUME NEW l \in Lists, NEW p \in Plugins, RegisterOn(l, p)
      PROVE  [Promised!Next]_(Promised!vars)
  BY <1>3, PromisedRegister
<1>4. ASSUME NEW l \in Lists, NEW id \in Ids(lists[l]), UnregisterOn(l, id)
      PROVE  [Promised!Next]_(Promised!vars)
  BY <1>4, PromisedUnregister
<1>5. CASE Shutdown
  BY <1>5, PromisedShutdown
<1>6. CASE CallNext
  BY <1>6, PromisedCall
<1>7. ASSUME NEW blocks \in BOOLEAN, Return(blocks) PROVE [Promised!Next]_(Promised!vars)
  BY <1>7, PromisedReturn
<1>8. CASE EndFire
  BY <1>8, PromisedEnd
<1>9. CASE UNCHANGED vars
  BY <1>9, PromisedStutter DEF vars
<1>10. QED
  BY <1>1, <1>2, <1>3, <1>4, <1>5, <1>6, <1>7, <1>8, <1>9 DEF Next

\* The loop over a snapshot of ids, each looked up again before its call,
\* implements Firing: in every nesting of firings, with any registrations,
\* departures and unloads inside the callbacks, each subscriber that stays is
\* called exactly once and in order, and nobody else is (forward_list.h:60).
THEOREM RefinesCorrect == Spec => RefinesFiring
<1>1. Init => Promised!Init
  BY PromisedInit
<1>2. IInv /\ [Next]_vars => [Promised!Next]_(Promised!vars)
  BY PromisedStep
<1>3. QED
  BY <1>1, <1>2, Invariance, PTL DEF Spec, RefinesFiring, Promised!Spec
=============================================================================
