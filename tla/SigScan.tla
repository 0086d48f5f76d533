------------------------------- MODULE SigScan -------------------------------
(***************************************************************************)
(* sdk/sigscan.h and sdk/sigscan.cpp: searching the memory of a module, a   *)
(* function from address to word.  A word stands for the bytes of one       *)
(* value, so an unaligned hit is left out but for FindSinglePointer, whose  *)
(* slots are the addresses that `Align` divides.  0 is no address.          *)
(***************************************************************************)
EXTENDS Integers, Sequences, FiniteSets, FiniteSetsExt, SequencesExt

CONSTANTS
  Align,
  AnyByte    \* the wildcard of a signature

Null == 0
Region(base, size) == [base |-> base, size |-> size]
Section(memory, s) == {a \in DOMAIN memory : a >= s.base /\ a < s.base + s.size}
FirstOf(addresses) == IF addresses = {} THEN Null ELSE Min(addresses)

FindBytes(memory, s, needle, from) ==
  FirstOf({a \in Section(memory, s) : a >= from /\ memory[a] = needle})

\* The state of the scan after a section: nothing, one address, or too many.
Scan(found, many) == [found |-> found, many |-> many]

\* Mutant: each section is searched on its own.
ForgetsOthers(memory, s, value, scan) ==
  LET hits == {a \in Section(memory, s) : a % Align = 0 /\ memory[a] = value}
  IN Scan(IF hits = {} THEN scan.found ELSE Min(hits), Cardinality(hits) > 1)

FindSinglePointer(memory, s, value, scan) ==
  LET hits == {a \in Section(memory, s) : a % Align = 0 /\ memory[a] = value}
  IN Scan(IF scan.found = Null THEN FirstOf(hits) ELSE scan.found,
          Cardinality(hits) > IF scan.found = Null THEN 1 ELSE 0)

\* Over the writable sections, until a second hit.
FindObjectByVTable(memory, writable, vtable) ==
  LET scan == FoldLeft(LAMBDA done, s :
                         IF done.many THEN done ELSE FindSinglePointer(memory, s, vtable, done),
                       Scan(Null, FALSE), writable)
  IN IF vtable = Null \/ scan.many THEN Null ELSE scan.found

\* The Linux lookup: the name in .rodata, the typeinfo that points at it, and
\* the first reference to the typeinfo whose offset-to-top is 0, in the first
\* half of .data.rel.ro that has one.
FindVirtualTable(memory, rodata, relro, halves, name) ==
  LET typeName == FindBytes(memory, rodata, name, 0)
      nameRef == FindBytes(memory, relro, typeName, 0)
      typeInfo == nameRef - 1
      Tables(half) == {a \in Section(memory, half) :
                         memory[a] = typeInfo /\ a > half.base /\ memory[a - 1] = 0}
      holders == {i \in DOMAIN halves : Tables(halves[i]) /= {}}
  IN IF typeName = Null \/ nameRef <= relro.base \/ holders = {} THEN Null
     ELSE Min(Tables(halves[Min(holders)])) + 1

\* KHook::LookupSignature: the first start among `window` of them.
Matches(memory, at, signature) ==
  \A i \in DOMAIN signature : signature[i] = AnyByte \/ memory[at + i - 1] = signature[i]
LookupSignature(memory, base, window, signature) ==
  FirstOf({a \in base .. base + window - 1 : Matches(memory, a, signature)})

\* The first match and whether there is a second.
FindSignatureUnique(memory, s, signature) ==
  LET window == s.size - Len(signature) + 1
      first == LookupSignature(memory, s.base, window, signature)
      consumed == first - s.base + 1
      next == LookupSignature(memory, s.base + consumed, window - consumed, signature)
  IN IF s.size < Len(signature) \/ first = Null THEN [at |-> Null, multiple |-> FALSE]
     ELSE [at |-> first, multiple |-> consumed < window /\ next /= Null]

-----------------------------------------------------------------------------
\* An object is found if the writable memory holds its vtable once, and only
\* then, in whichever section (sigscan.h:69-71).
OneObject(memory, writable, vtable) ==
  LET slots == {a \in UNION {Section(memory, writable[i]) : i \in DOMAIN writable} :
                  a % Align = 0 /\ memory[a] = vtable}
  IN vtable /= Null =>
       FindObjectByVTable(memory, writable, vtable)
         = IF Cardinality(slots) = 1 THEN Min(slots) ELSE Null

\* A signature is unique if one place of the range matches, overlapping ones
\* counted, and the last one that fits is looked at (sigscan.h:19-47).
OneMatch(memory, s, signature) ==
  LET places == {a \in s.base .. s.base + s.size - Len(signature) : Matches(memory, a, signature)}
      result == FindSignatureUnique(memory, s, signature)
  IN /\ (result.at = Null) <=> (places = {})
     /\ places /= {} => result.at = Min(places)
     /\ result.multiple <=> Cardinality(places) > 1

\* A vtable that is found is the primary one of a type with that name.
RightTable(memory, rodata, relro, halves, name) ==
  LET table == FindVirtualTable(memory, rodata, relro, halves, name)
  IN table /= Null =>
       /\ memory[table - 2] = 0
       /\ memory[memory[memory[table - 1] + 1]] = name
=============================================================================
