------------------------------ MODULE VoiceBlock ------------------------------
(***************************************************************************)
(* game/voice_block.cpp and sdk/server_client.h: the hook that drops voice  *)
(* packets.  A state is what a sequence of calls leaves behind.  KHook is   *)
(* external: `hooks` counts what was added to the vtable and not removed.   *)
(***************************************************************************)
EXTENDS Integers, Sequences, SequencesExt

CONSTANT Slots

\* shouldBlock is the set of slots the predicate is true of, with {} for null;
\* vtable is kept for good once it was found.
Start == [shouldBlock |-> {}, hooked |-> FALSE, vtable |-> FALSE, hooks |-> 0, ok |-> FALSE]

Resolve(s, found) == s.vtable \/ found

\* `found`: the class is in the engine module.
Init(s, shouldBlock, found) ==
  IF s.hooked THEN [s EXCEPT !.shouldBlock = shouldBlock, !.ok = TRUE]
  ELSE IF ~Resolve(s, found) THEN [s EXCEPT !.shouldBlock = shouldBlock, !.ok = FALSE]
  ELSE [s EXCEPT !.shouldBlock = shouldBlock, !.vtable = TRUE, !.hooked = TRUE,
                 !.hooks = @ + 1, !.ok = TRUE]

Shutdown(s) ==
  [s EXCEPT !.hooks = IF s.hooked THEN @ - 1 ELSE @, !.hooked = FALSE, !.shouldBlock = {}]

Step(s, call) ==
  IF call[1] = "Init" THEN Init(s, call[2], call[3]) ELSE Shutdown(s)

\* A packet from a slot is dropped by each hook there is.
Dropped(s, slot) == s.hooks > 0 /\ slot \in s.shouldBlock

-----------------------------------------------------------------------------
\* However often a plugin starts and stops, with the class found or not, there
\* is one hook from the Init that returned true to the Shutdown and none after
\* it, and the predicate asked is the last one given (voice_block.h:8-18).
HookIsBalanced(calls) ==
  LET After(n) == FoldLeft(Step, Start, SubSeq(calls, 1, n))
  IN \A n \in DOMAIN calls :
       LET s == After(n)
           stop == SelectLastInSeq(SubSeq(calls, 1, n), LAMBDA c : c[1] = "Shutdown")
           found == \E i \in 1 .. n : calls[i][1] = "Init" /\ calls[i][3]
       IN /\ s.hooks = IF stop < n /\ found THEN 1 ELSE 0
          /\ calls[n][1] = "Init" => (s.ok <=> s.hooks = 1)
          /\ \A slot \in Slots :
               Dropped(s, slot) <=> (stop < n /\ found /\ slot \in calls[n][2])
=============================================================================
