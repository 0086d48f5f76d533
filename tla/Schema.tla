------------------------------- MODULE Schema -------------------------------
(***************************************************************************)
(* sdk/schema.cpp and the accessors of sdk/schema.h: offsets of fields,     *)
(* cached per class and again per accessor.  `declared` maps a class to its *)
(* fields' offsets; an int16_t has `Half` values from 0.                    *)
(***************************************************************************)
EXTENDS Integers, Sequences, SequencesExt

CONSTANT Half

AsInt16(n) == ((n + Half) % (2 * Half)) - Half

\* The system is not ready before the plugin has acquired it and the server's
\* scope exists.  `offsets` holds the accessors' statics.
Start == [ready |-> FALSE, cache |-> [c \in {} |-> <<>>], offsets |-> [f \in {} |-> 0],
          answers |-> <<>>]

With(map, key, value) == [k \in DOMAIN map \cup {key} |-> IF k = key THEN value ELSE map[k]]
NoFields == [f \in {} |-> 0]

\* The cache after InitSchemaFieldsForClass.
InitSchemaFieldsForClass(s, declared, class) ==
  IF ~s.ready THEN s.cache
  ELSE With(s.cache, class, IF class \in DOMAIN declared THEN declared[class] ELSE NoFields)

CacheFor(s, declared, class) ==
  IF class \in DOMAIN s.cache THEN s.cache ELSE InitSchemaFieldsForClass(s, declared, class)

\* FindField: the offset as a set.
FindField(cache, class, field) ==
  IF class \in DOMAIN cache /\ field \in DOMAIN cache[class] THEN {cache[class][field]} ELSE {}

GetOffset(cache, class, field) ==
  LET found == FindField(cache, class, field)
  IN IF found = {} THEN 0 ELSE AsInt16(CHOOSE n \in found : TRUE)

FindOffset(cache, class, field) ==
  LET found == FindField(cache, class, field)
  IN IF found = {} THEN -1 ELSE CHOOSE n \in found : TRUE

\* fieldName_Offset() of an accessor, and a FindOffset of the same field.
Access(s, declared, class, field) ==
  LET known == IF <<class, field>> \in DOMAIN s.offsets THEN s.offsets[<<class, field>>] ELSE 0
      cache == IF known > 0 THEN s.cache ELSE CacheFor(s, declared, class)
      offset == IF known > 0 THEN known ELSE GetOffset(cache, class, field)
  IN [s EXCEPT !.cache = cache, !.offsets = With(@, <<class, field>>, offset),
               !.answers = Append(@, offset)]

Look(s, declared, class, field) ==
  LET cache == CacheFor(s, declared, class)
  IN [s EXCEPT !.cache = cache, !.answers = Append(@, FindOffset(cache, class, field))]

Step(s, declared, event) ==
  CASE event[1] = "Ready" -> [s EXCEPT !.ready = TRUE, !.answers = Append(@, 0)]
    [] event[1] = "Access" -> Access(s, declared, event[2], event[3])
    [] event[1] = "Look" -> Look(s, declared, event[2], event[3])

-----------------------------------------------------------------------------
\* Every field that exists is found from the moment the schema system is ready,
\* whatever was asked before, and reads as unresolved until then (schema.h:118-
\* 119).  An offset beyond an int16_t is only right for FindOffset.
FieldsAreFound(declared, events) ==
  LET answers == FoldLeft(LAMBDA s, e : Step(s, declared, e), Start, events).answers
      Ready(i) == \E j \in 1 .. i - 1 : events[j][1] = "Ready"
      Exists(class, field) == class \in DOMAIN declared /\ field \in DOMAIN declared[class]
  IN \A i \in DOMAIN events :
       events[i][1] /= "Ready" =>
         LET class == events[i][2]
             field == events[i][3]
             found == Ready(i) /\ Exists(class, field)
         IN IF events[i][1] = "Look" THEN answers[i] = IF found THEN declared[class][field] ELSE -1
            ELSE answers[i] = IF found THEN AsInt16(declared[class][field]) ELSE 0
=============================================================================
