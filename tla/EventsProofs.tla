---------------------------- MODULE EventsProofs ----------------------------
(***************************************************************************)
(* Proofs about Events: types, exact reference counts, no reference to     *)
(* freed memory and no lost wake-up, for any number of emitters, hooks and *)
(* events.                                                                 *)
(***************************************************************************)
EXTENDS Events, FiniteSetTheorems, SequenceTheorems, WellFoundedInduction, TLAPS

-----------------------------------------------------------------------------
(* Sets of references.                                                     *)

\* The events that refer to an object are finitely many (events.c:43-45).
LEMMA RefsFinite ==
  ASSUME NEW x
  PROVE  /\ IsFiniteSet(EmitterRefs(x)) /\ Cardinality(EmitterRefs(x)) \in Nat
         /\ IsFiniteSet(HookRefs(x)) /\ Cardinality(HookRefs(x)) \in Nat
<1>1. IsFiniteSet(Events)
  BY FS_Interval, ConstantsAssumption DEF Events
<1>2. EmitterRefs(x) \in SUBSET Events /\ HookRefs(x) \in SUBSET Events
  BY DEF EmitterRefs, HookRefs
<1>3. IsFiniteSet(EmitterRefs(x)) /\ IsFiniteSet(HookRefs(x))
  BY <1>1, <1>2, FS_Subset
<1>. QED  BY <1>3, FS_CardinalityType

\* A finite set with a member has a positive number of members.
LEMMA RefsPositive ==
  ASSUME NEW S, IsFiniteSet(S), NEW x \in S
  PROVE  Cardinality(S) \in Nat \ {0}
BY FS_EmptySet, FS_CardinalityType

\* If the only member of a set is removed, no member is left.
LEMMA LastRef ==
  ASSUME NEW S, IsFiniteSet(S), NEW x \in S, NEW y \in S, Cardinality(S) = 1
  PROVE  x = y
BY FS_Singleton

\* With exact counts, an object has no reference if and only if its count is 0.
LEMMA CountsTell ==
  ASSUME RefcntsExact
  PROVE  /\ \A e \in Emitters, n \in Events :
              event[n].emitter = e => emitter[e].refcnt \in Nat \ {0}
         /\ \A h \in Hooks, n \in Events :
              event[n].hook = h => hook[h].refcnt \in Nat \ {0}
         /\ \A e \in Emitters, n, m \in Events :
              /\ emitter[e].refcnt = 1
              /\ event[n].emitter = e /\ event[m].emitter = e
              => n = m
         /\ \A h \in Hooks, n, m \in Events :
              /\ hook[h].refcnt = 1
              /\ event[n].hook = h /\ event[m].hook = h
              => n = m
<1>1. ASSUME NEW e \in Emitters, NEW n \in Events, event[n].emitter = e
      PROVE  emitter[e].refcnt \in Nat \ {0}
  <2>1. n \in EmitterRefs(e)
    BY <1>1 DEF EmitterRefs
  <2>. QED  BY <2>1, RefsFinite, RefsPositive DEF RefcntsExact
<1>2. ASSUME NEW h \in Hooks, NEW n \in Events, event[n].hook = h
      PROVE  hook[h].refcnt \in Nat \ {0}
  <2>1. n \in HookRefs(h)
    BY <1>2 DEF HookRefs
  <2>. QED  BY <2>1, RefsFinite, RefsPositive DEF RefcntsExact
<1>3. ASSUME NEW e \in Emitters, NEW n \in Events, NEW m \in Events,
             emitter[e].refcnt = 1, event[n].emitter = e, event[m].emitter = e
      PROVE  n = m
  <2>1. n \in EmitterRefs(e) /\ m \in EmitterRefs(e)
    BY <1>3 DEF EmitterRefs
  <2>. QED  BY <1>3, <2>1, RefsFinite, LastRef DEF RefcntsExact
<1>4. ASSUME NEW h \in Hooks, NEW n \in Events, NEW m \in Events,
             hook[h].refcnt = 1, event[n].hook = h, event[m].hook = h
      PROVE  n = m
  <2>1. n \in HookRefs(h) /\ m \in HookRefs(h)
    BY <1>4 DEF HookRefs
  <2>. QED  BY <1>4, <2>1, RefsFinite, LastRef DEF RefcntsExact
<1>. QED  BY <1>1, <1>2, <1>3, <1>4

-----------------------------------------------------------------------------
\* The invariant holds before anything is created (events_global_init).
THEOREM InitInv == Init => Inv
<1>. SUFFICES ASSUME Init PROVE Inv
  OBVIOUS
<1>1. TypeOK
  <2>1. emitter \in [Emitters -> [state : Lives, refcnt : Nat]]
    BY DEF Init, Lives
  <2>2. hook \in [Hooks -> [state : Lives, refcnt : Nat, birth_seq : 0..MaxSeq,
                           emitter : Emitters \cup {None}]]
    BY ConstantsAssumption DEF Init, Lives
  <2>3. event \in [Events -> [emitter : Emitters \cup {None},
                             hook : Hooks \cup {None}, after : BOOLEAN]]
    BY DEF Init, NoEvent
  <2>4. next \in [Links -> Links] /\ prev \in [Links -> Links]
    BY DEF Init
  <2>5. seq \in 0..MaxSeq /\ popped \in 0..seq /\ size \in Nat
    BY ConstantsAssumption DEF Init
  <2>6. /\ slot \in {"intact", "freed", "misread"}
        /\ efd \in BOOLEAN /\ triggered \in BOOLEAN
        /\ pc \in {"idle", "pop", "visit", "callback", "ending", "after"}
        /\ iter \in Links \cup {None} /\ iterNext \in Links \cup {None}
    BY DEF Init
  <2>. QED
    BY <2>1, <2>2, <2>3, <2>4, <2>5, <2>6 DEF TypeOK
<1>2. \A x \in Emitters : EmitterRefs(x) = {}
  BY ConstantsAssumption DEF Init, EmitterRefs, NoEvent
<1>3. \A x \in Hooks : HookRefs(x) = {}
  BY ConstantsAssumption DEF Init, HookRefs, NoEvent
<1>4. RefcntsExact
  BY <1>2, <1>3, FS_EmptySet DEF Init, RefcntsExact
<1>5. FreedExactly
  BY DEF Init, FreedExactly, NoEvent
<1>6. QueueOwns
  BY DEF Init, QueueOwns, Outstanding, InFlight, IsUnicast, Current
<1>7. HooksOnLiveEmitters /\ CursorOnLinks /\ triggered = efd /\ NoLostWakeup
  BY DEF Init, HooksOnLiveEmitters, CursorOnLinks, NoLostWakeup, QueueIsEmpty
<1>. QED  BY <1>1, <1>4, <1>5, <1>6, <1>7 DEF Inv

-----------------------------------------------------------------------------
(* What the actions do to the references.                                  *)

\* A step that leaves the events alone, and the counts, leaves them exact.
LEMMA KeepRefs ==
  ASSUME RefcntsExact, UNCHANGED event,
         \A e \in Emitters : emitter'[e].refcnt = emitter[e].refcnt,
         \A h \in Hooks : hook'[h].refcnt = hook[h].refcnt
  PROVE  RefcntsExact'
BY DEF RefcntsExact, EmitterRefs, HookRefs

\* event_emit_internal adds one reference to the emitter (events.c:250).
LEMMA PushEmitterRefs ==
  ASSUME TypeOK, QueueOwns, NEW e \in Emitters, NEW h, NEW after,
         Push(e, h, after)
  PROVE  /\ seq + 1 \in Events
         /\ seq + 1 \notin EmitterRefs(e)
         /\ EmitterRefs(e)' = EmitterRefs(e) \cup {seq + 1}
         /\ \A f \in Emitters \ {e} : EmitterRefs(f)' = EmitterRefs(f)
<1>1. seq + 1 \in Events /\ seq + 1 \notin Outstanding
  BY ConstantsAssumption DEF TypeOK, Push, Outstanding, Events
<1>2. event[seq + 1] = NoEvent
  BY <1>1 DEF QueueOwns
<1>3. \A n \in Events : n # seq + 1 => event'[n] = event[n]
  BY DEF Push, TypeOK
<1>4. event'[seq + 1].emitter = e
  BY <1>1 DEF Push, TypeOK
<1>. QED
  BY <1>1, <1>2, <1>3, <1>4, ConstantsAssumption DEF EmitterRefs, NoEvent

\* ... and one to the hook, if the event is for one hook (events.c:251).
LEMMA PushHookRefs ==
  ASSUME TypeOK, QueueOwns, NEW e \in Emitters, NEW h \in Hooks \cup {None},
         NEW after, Push(e, h, after)
  PROVE  /\ seq + 1 \in Events
         /\ seq + 1 \notin HookRefs(h) \/ h = None
         /\ HookRefs(h)' = HookRefs(h) \cup {seq + 1}
         /\ \A g \in Hooks \ {h} : HookRefs(g)' = HookRefs(g)
<1>1. seq + 1 \in Events /\ seq + 1 \notin Outstanding
  BY ConstantsAssumption DEF TypeOK, Push, Outstanding, Events
<1>2. event[seq + 1] = NoEvent
  BY <1>1 DEF QueueOwns
<1>3. \A n \in Events : n # seq + 1 => event'[n] = event[n]
  BY DEF Push, TypeOK
<1>4. event'[seq + 1].hook = h
  BY <1>1 DEF Push, TypeOK
<1>. QED
  BY <1>1, <1>2, <1>3, <1>4, ConstantsAssumption DEF HookRefs, NoEvent

-----------------------------------------------------------------------------
(* One lemma per action that changes an object or an event.                *)

\* A new emitter has no hooks and no events refer to it
\* (event_emitter_create).
LEMMA EmitterCreateInv ==
  ASSUME Inv, NEW e \in Emitters, EmitterCreate(e)  PROVE Inv'
<1>. USE DEF Inv, EmitterCreate, objects, queue, dispatch
<1>1. TypeOK'
  BY DEF TypeOK, Lives
<1>2. RefcntsExact'
  BY KeepRefs DEF TypeOK
<1>3. FreedExactly'
  BY DEF FreedExactly, Owned, TypeOK
<1>4. HooksOnLiveEmitters'
  BY DEF HooksOnLiveEmitters, TypeOK
<1>5. QueueOwns' /\ CursorOnLinks' /\ (triggered = efd)' /\ NoLostWakeup'
  BY DEF QueueOwns, Outstanding, InFlight, CursorOnLinks, IsUnicast, Current,
         NoLostWakeup, QueueIsEmpty
<1>. QED  BY <1>1, <1>2, <1>3, <1>4, <1>5

\* event_emitter_release frees the emitter at once only if no event refers to
\* it; otherwise the last event will.
LEMMA EmitterReleaseInv ==
  ASSUME Inv, NEW e \in Emitters, EmitterRelease(e)  PROVE Inv'
<1>. USE DEF Inv, EmitterRelease, Release, objects, queue, dispatch
<1>1. TypeOK'
  BY DEF TypeOK, Lives
<1>2. RefcntsExact'
  BY KeepRefs DEF TypeOK
<1>3. FreedExactly'
  BY CountsTell DEF FreedExactly, Owned, TypeOK
<1>4. HooksOnLiveEmitters'
  BY DEF HooksOnLiveEmitters, TypeOK
<1>5. QueueOwns' /\ CursorOnLinks' /\ (triggered = efd)' /\ NoLostWakeup'
  BY DEF QueueOwns, Outstanding, InFlight, CursorOnLinks, IsUnicast, Current,
         NoLostWakeup, QueueIsEmpty
<1>. QED  BY <1>1, <1>2, <1>3, <1>4, <1>5

\* A hook is added to a live emitter, linked behind its head, and owned by no
\* event yet (event_emitter_add_hook).
LEMMA AddHookInv ==
  ASSUME Inv, NEW e \in Emitters, NEW h \in Hooks, AddHook(e, h)  PROVE Inv'
<1>. USE DEF Inv, AddHook, NewHook, objects, queue, dispatch
<1>1. TypeOK'
  <2>1. next' \in [Links -> Links] /\ prev' \in [Links -> Links]
    BY DEF TypeOK, Links
  <2>2. hook' \in [Hooks -> [state : Lives, refcnt : Nat, birth_seq : 0..MaxSeq,
                            emitter : Emitters \cup {None}]]
    BY DEF TypeOK, Lives
  <2>. QED  BY <2>1, <2>2 DEF TypeOK
<1>2. hook[h].refcnt = 0
  <2>1. HookRefs(h) = {}
    BY ConstantsAssumption DEF FreedExactly, Owned, HookRefs
  <2>. QED  BY <2>1, FS_EmptySet DEF RefcntsExact
<1>3. RefcntsExact'
  BY <1>2, KeepRefs DEF TypeOK
<1>4. FreedExactly'
  BY DEF FreedExactly, Owned, TypeOK
<1>5. HooksOnLiveEmitters'
  BY DEF HooksOnLiveEmitters, TypeOK
<1>6. QueueOwns' /\ CursorOnLinks' /\ (triggered = efd)' /\ NoLostWakeup'
  BY DEF QueueOwns, Outstanding, InFlight, CursorOnLinks, IsUnicast, Current,
         NoLostWakeup, QueueIsEmpty
<1>. QED  BY <1>1, <1>3, <1>4, <1>5, <1>6

\* event_hook_release frees the hook at once only if no event is addressed to
\* it, and unlinks it without moving the dispatcher's cursor off the links.
LEMMA HookReleaseInv ==
  ASSUME Inv, NEW h \in Hooks, HookRelease(h)  PROVE Inv'
<1>. USE DEF Inv, HookRelease, Release, objects, queue, dispatch
<1>1. TypeOK'
  <2>1. next' \in [Links -> Links] /\ prev' \in [Links -> Links]
    BY DEF TypeOK, Links
  <2>2. hook' \in [Hooks -> [state : Lives, refcnt : Nat, birth_seq : 0..MaxSeq,
                            emitter : Emitters \cup {None}]]
    BY DEF TypeOK, Lives
  <2>. QED  BY <2>1, <2>2 DEF TypeOK
<1>2. RefcntsExact'
  BY KeepRefs DEF TypeOK
<1>3. FreedExactly'
  BY CountsTell DEF FreedExactly, Owned, TypeOK
<1>4. HooksOnLiveEmitters'
  BY DEF HooksOnLiveEmitters, TypeOK
<1>5. QueueOwns' /\ CursorOnLinks' /\ (triggered = efd)' /\ NoLostWakeup'
  BY DEF QueueOwns, Outstanding, InFlight, CursorOnLinks, IsUnicast, Current,
         NoLostWakeup, QueueIsEmpty
<1>. QED  BY <1>1, <1>2, <1>3, <1>4, <1>5

\* event_emit_internal, for all hooks or for one.
LEMMA EmitInv ==
  ASSUME Inv, NEW e \in Emitters, NEW h \in Hooks \cup {None}, NEW after \in BOOLEAN,
         emitter[e].state = "live",
         h \in Hooks => hook[h].state = "live",
         Push(e, h, after),
         emitter' = [emitter EXCEPT ![e] = Ref(@)],
         hook' = IF h = None THEN hook ELSE [hook EXCEPT ![h] = Ref(@)],
         Wake,
         UNCHANGED <<next, prev, dispatch>>
  PROVE  Inv'
<1>. TypeOK /\ RefcntsExact /\ FreedExactly /\ QueueOwns
  BY DEF Inv
<1>1. TypeOK'
  <2>1. emitter' \in [Emitters -> [state : Lives, refcnt : Nat]]
    BY DEF TypeOK, Ref
  <2>2. hook' \in [Hooks -> [state : Lives, refcnt : Nat, birth_seq : 0..MaxSeq,
                            emitter : Emitters \cup {None}]]
    BY DEF TypeOK, Ref
  <2>3. event' \in [Events -> [emitter : Emitters \cup {None},
                              hook : Hooks \cup {None}, after : BOOLEAN]]
    BY DEF TypeOK, Push
  <2>4. seq' \in 0..MaxSeq /\ popped' \in 0..seq' /\ size' \in Nat
    BY ConstantsAssumption DEF TypeOK, Push, GrownSize, dispatch
  <2>5. /\ slot' \in {"intact", "freed", "misread"}
        /\ efd' \in BOOLEAN /\ triggered' \in BOOLEAN
    BY DEF TypeOK, Push, Wake
  <2>6. /\ next' \in [Links -> Links] /\ prev' \in [Links -> Links]
        /\ pc' \in {"idle", "pop", "visit", "callback", "ending", "after"}
        /\ iter' \in Links \cup {None} /\ iterNext' \in Links \cup {None}
    BY DEF TypeOK, dispatch
  <2>. QED  BY <2>1, <2>2, <2>3, <2>4, <2>5, <2>6 DEF TypeOK
<1>2. RefcntsExact'
  <2>1. ASSUME NEW f \in Emitters
        PROVE  emitter'[f].refcnt = Cardinality(EmitterRefs(f)')
    <3>1. CASE f = e
      <4>1. Cardinality(EmitterRefs(e)') = Cardinality(EmitterRefs(e)) + 1
        BY PushEmitterRefs, RefsFinite, FS_AddElement
      <4>2. emitter'[e].refcnt = emitter[e].refcnt + 1
        BY DEF TypeOK, Ref
      <4>. QED  BY <3>1, <4>1, <4>2 DEF RefcntsExact
    <3>2. CASE f # e
      BY <3>2, PushEmitterRefs DEF RefcntsExact, TypeOK
    <3>. QED  BY <3>1, <3>2
  <2>2. ASSUME NEW g \in Hooks
        PROVE  hook'[g].refcnt = Cardinality(HookRefs(g)')
    <3>1. CASE g = h
      <4>1. Cardinality(HookRefs(h)') = Cardinality(HookRefs(h)) + 1
        BY <3>1, PushHookRefs, RefsFinite, FS_AddElement, ConstantsAssumption, ZenonT(30)
      <4>2. hook'[h].refcnt = hook[h].refcnt + 1
        BY <3>1, ConstantsAssumption DEF TypeOK, Ref
      <4>. QED  BY <3>1, <4>1, <4>2 DEF RefcntsExact
    <3>2. CASE g # h
      BY <3>2, PushHookRefs DEF RefcntsExact, TypeOK
    <3>. QED  BY <3>1, <3>2
  <2>. QED  BY <2>1, <2>2 DEF RefcntsExact
<1>3. FreedExactly'
  BY CountsTell DEF FreedExactly, Owned, TypeOK, Push, Ref
<1>4. HooksOnLiveEmitters'
  BY DEF Inv, HooksOnLiveEmitters, TypeOK, Ref
<1>5. QueueOwns'
  BY ConstantsAssumption
  DEF QueueOwns, Outstanding, InFlight, IsUnicast, Current, TypeOK, Push, Events,
      dispatch
<1>6. CursorOnLinks'
  BY ConstantsAssumption
  DEF Inv, CursorOnLinks, IsUnicast, Current, QueueOwns, InFlight, TypeOK, Push,
      Events, dispatch
<1>7. (triggered = efd)' /\ NoLostWakeup'
  BY DEF Inv, NoLostWakeup, Wake, TypeOK
<1>. QED  BY <1>1, <1>2, <1>3, <1>4, <1>5, <1>6, <1>7 DEF Inv

\* An event for all hooks takes one reference to the emitter
\* (event_emitter_emit).
LEMMA BroadcastInv ==
  ASSUME Inv, NEW e \in Emitters, NEW after \in BOOLEAN, Broadcast(e, after)
  PROVE  Inv'
BY EmitInv, ConstantsAssumption DEF Broadcast

\* An event for one hook takes one reference to the hook and one to its
\* emitter (event_hook_emit).
LEMMA UnicastInv ==
  ASSUME Inv, NEW h \in Hooks, NEW after \in BOOLEAN, Unicast(h, after)
  PROVE  Inv'
BY EmitInv, ConstantsAssumption DEF Unicast, Inv, HooksOnLiveEmitters

-----------------------------------------------------------------------------
(* Dropping references.                                                    *)

\* emitter_unref is called while an event refers to the emitter: the count
\* stays a natural number and the emitter one of the declared states.
LEMMA UnrefEmitterTyped ==
  ASSUME NEW x \in [state : Lives, refcnt : Nat], x.refcnt \in Nat \ {0}
  PROVE  Unref(x) \in [state : Lives, refcnt : Nat]
<1>. DEFINE count == x.refcnt - 1
            state == IF count = 0 /\ x.state = "released" THEN "freed" ELSE x.state
<1>1. count \in Nat
  OBVIOUS
<1>2. state \in Lives
  BY DEF Lives
<1>3. Unref(x) = [x EXCEPT !.refcnt = count, !.state = state]
  BY DEF Unref
<1>. QED  BY <1>1, <1>2, <1>3

\* ... and so does hook_unref for a hook.
LEMMA UnrefTyped ==
  ASSUME NEW x \in [state : Lives, refcnt : Nat, birth_seq : 0..MaxSeq,
                    emitter : Emitters \cup {None}],
         x.refcnt \in Nat \ {0}
  PROVE  Unref(x) \in [state : Lives, refcnt : Nat, birth_seq : 0..MaxSeq,
                       emitter : Emitters \cup {None}]
<1>. DEFINE count == x.refcnt - 1
            state == IF count = 0 /\ x.state = "released" THEN "freed" ELSE x.state
<1>1. count \in Nat
  OBVIOUS
<1>2. state \in Lives
  BY DEF Lives
<1>3. Unref(x) = [x EXCEPT !.refcnt = count, !.state = state]
  BY DEF Unref
<1>. QED  BY <1>1, <1>2, <1>3

\* hook_unref frees a hook only if no other event refers to it.
LEMMA DropHookInv ==
  ASSUME Inv, NEW n \in Events, NEW h \in Hooks,
         event[n].hook = h, DropHook(n, h), UNCHANGED emitter
  PROVE  /\ hook' \in [Hooks -> [state : Lives, refcnt : Nat, birth_seq : 0..MaxSeq,
                                 emitter : Emitters \cup {None}]]
         /\ event' \in [Events -> [emitter : Emitters \cup {None},
                                   hook : Hooks \cup {None}, after : BOOLEAN]]
         /\ RefcntsExact'
         /\ FreedExactly'
         /\ HooksOnLiveEmitters'
<1>. USE DEF Inv, DropHook
<1>1. hook[h].refcnt \in Nat \ {0}
  BY CountsTell
<1>2. hook' \in [Hooks -> [state : Lives, refcnt : Nat, birth_seq : 0..MaxSeq,
                          emitter : Emitters \cup {None}]]
  BY <1>1, UnrefTyped DEF TypeOK
<1>3. event' \in [Events -> [emitter : Emitters \cup {None},
                            hook : Hooks \cup {None}, after : BOOLEAN]]
  <2>1. event \in [Events -> [emitter : Emitters \cup {None},
                              hook : Hooks \cup {None}, after : BOOLEAN]]
    BY DEF TypeOK
  <2>2. event' = [event EXCEPT ![n].hook = None]
    OBVIOUS
  <2>. HIDE DEF Inv, DropHook
  <2>. QED  BY <2>1, <2>2
<1>4. RefcntsExact'
  <2>1. \A e \in Emitters : EmitterRefs(e)' = EmitterRefs(e)
    BY DEF EmitterRefs, TypeOK
  <2>2. HookRefs(h)' = HookRefs(h) \ {n} /\ n \in HookRefs(h)
    BY ConstantsAssumption DEF HookRefs, TypeOK
  <2>3. \A g \in Hooks \ {h} : HookRefs(g)' = HookRefs(g)
    BY ConstantsAssumption DEF HookRefs, TypeOK
  <2>4. Cardinality(HookRefs(h)') = Cardinality(HookRefs(h)) - 1
    BY <2>2, RefsFinite, FS_RemoveElement, ZenonT(30)
  <2>5. \A g \in Hooks : hook'[g].refcnt = Cardinality(HookRefs(g)')
    BY <2>3, <2>4 DEF RefcntsExact, TypeOK, Unref
  <2>. QED  BY <2>1, <2>5 DEF RefcntsExact
<1>5. FreedExactly'
  <2>1. \A g \in Hooks : hook'[g].state = "released" => hook'[g].refcnt > 0
    BY <1>1 DEF FreedExactly, TypeOK, Unref
  <2>2. \A m \in Events : event'[m].hook # None => Owned(hook'[event'[m].hook].state)
    BY <1>1, CountsTell DEF FreedExactly, Owned, TypeOK, Unref
  <2>. QED  BY <2>1, <2>2 DEF FreedExactly, TypeOK
<1>6. HooksOnLiveEmitters'
  BY DEF HooksOnLiveEmitters, TypeOK, Unref
<1>. QED  BY <1>2, <1>3, <1>4, <1>5, <1>6

\* An event whose hook was released while it was queued drops its reference
\* without calling the listener (the unicast branch of events_dispatch).
LEMMA PopUnicastReleasedInv ==
  ASSUME Inv, PopUnicastReleased  PROVE Inv'
<1>. DEFINE n == popped + 1
            h == event[n].hook
<1>1. n \in Events /\ n \in Outstanding
  BY ConstantsAssumption
  DEF Inv, TypeOK, PopUnicastReleased, QueueIsEmpty, Events, Outstanding
<1>2. h \in Hooks /\ DropHook(n, h) /\ UNCHANGED emitter
  BY <1>1 DEF Inv, TypeOK, PopUnicastReleased
<1>. HIDE DEF h, n
<1>3. /\ hook' \in [Hooks -> [state : Lives, refcnt : Nat, birth_seq : 0..MaxSeq,
                               emitter : Emitters \cup {None}]]
      /\ event' \in [Events -> [emitter : Emitters \cup {None},
                                 hook : Hooks \cup {None}, after : BOOLEAN]]
      /\ RefcntsExact' /\ FreedExactly' /\ HooksOnLiveEmitters'
  BY <1>1, <1>2, DropHookInv DEF h
<1>4. popped' = n /\ pc' = "ending" /\ n \in 1..seq
  BY <1>1 DEF PopUnicastReleased, Outstanding, n
<1>5. TypeOK'
  BY <1>3, <1>4 DEF Inv, TypeOK, PopUnicastReleased
<1>6. QueueOwns'
  <2>1. \A m \in Events : /\ event'[m].emitter = event[m].emitter
                          /\ m # n => event'[m] = event[m]
    BY <1>2 DEF DropHook, Inv, TypeOK
  <2>2. \A m \in Events : m \in Outstanding' <=> m \in Outstanding
    BY <1>4 DEF Outstanding, InFlight, Inv, TypeOK, PopUnicastReleased, Events, n
  <2>3. (~IsUnicast)'
    BY <1>1, <1>2, <1>4 DEF IsUnicast, Current, DropHook, Inv, TypeOK
  <2>. QED  BY <1>1, <1>4, <2>1, <2>2, <2>3 DEF Inv, QueueOwns
<1>7. CursorOnLinks' /\ (triggered = efd)' /\ NoLostWakeup'
  BY DEF Inv, PopUnicastReleased, CursorOnLinks, NoLostWakeup
<1>. QED  BY <1>3, <1>5, <1>6, <1>7 DEF Inv

\* When the one listener has returned, the reference to its hook is dropped,
\* also if the listener has released the hook meanwhile.
LEMMA UnicastReturnInv ==
  ASSUME Inv, UnicastReturn  PROVE Inv'
<1>. DEFINE h == event[popped].hook
<1>1. popped \in Events /\ popped \in Outstanding
  BY DEF Inv, TypeOK, UnicastReturn, QueueOwns, InFlight, Events, Outstanding
<1>2. h \in Hooks /\ DropHook(popped, h) /\ UNCHANGED emitter
  BY <1>1 DEF Inv, TypeOK, UnicastReturn, IsUnicast, Current
<1>. HIDE DEF h
<1>3. /\ hook' \in [Hooks -> [state : Lives, refcnt : Nat, birth_seq : 0..MaxSeq,
                               emitter : Emitters \cup {None}]]
      /\ event' \in [Events -> [emitter : Emitters \cup {None},
                                 hook : Hooks \cup {None}, after : BOOLEAN]]
      /\ RefcntsExact' /\ FreedExactly' /\ HooksOnLiveEmitters'
  BY <1>1, <1>2, DropHookInv DEF h
<1>4. TypeOK'
  BY <1>3 DEF Inv, TypeOK, UnicastReturn
<1>5. QueueOwns'
  <2>1. \A m \in Events : /\ event'[m].emitter = event[m].emitter
                          /\ m # popped => event'[m] = event[m]
    BY <1>2 DEF DropHook, Inv, TypeOK
  <2>2. Outstanding' = Outstanding /\ InFlight'
    BY DEF Outstanding, InFlight, UnicastReturn
  <2>3. (~IsUnicast)'
    BY <1>1, <1>2 DEF IsUnicast, Current, DropHook, Inv, TypeOK, UnicastReturn
  <2>. QED  BY <1>1, <2>1, <2>2, <2>3 DEF Inv, QueueOwns, UnicastReturn
<1>6. CursorOnLinks' /\ (triggered = efd)' /\ NoLostWakeup'
  BY DEF Inv, UnicastReturn, CursorOnLinks, NoLostWakeup
<1>. QED  BY <1>3, <1>4, <1>5, <1>6 DEF Inv

\* At the end of an event its reference to the emitter is dropped: an emitter
\* that was released is freed exactly when this was the last one.
LEMMA FinishInv ==
  ASSUME Inv, Finish  PROVE Inv'
<1>0. popped \in Events /\ popped \in Outstanding /\ event[popped].emitter \in Emitters
  BY DEF Inv, TypeOK, Finish, QueueOwns, InFlight, Events, Outstanding
<1>1. PICK e \in Emitters : popped \in Events /\ popped \in Outstanding
                          /\ e = event[popped].emitter
  BY <1>0
<1>2. /\ emitter' = [emitter EXCEPT ![e] = Unref(@)]
      /\ event' = [event EXCEPT ![popped] = NoEvent]
      /\ event[popped].hook = None
      /\ pc \in {"ending", "after"} /\ pc' = "pop"
      /\ UNCHANGED <<hook, next, prev, seq, size, efd, triggered,
                     popped, iter, iterNext, slot>>
  BY <1>1 DEF Finish, Current, Inv, QueueOwns, IsUnicast
<1>3. emitter[e].refcnt \in Nat \ {0}
  BY <1>1, CountsTell DEF Inv
<1>4. TypeOK'
  <2>1. emitter' \in [Emitters -> [state : Lives, refcnt : Nat]]
    BY <1>1, <1>2, <1>3, UnrefEmitterTyped DEF Inv, TypeOK
  <2>2. event' \in [Events -> [emitter : Emitters \cup {None},
                              hook : Hooks \cup {None}, after : BOOLEAN]]
    BY <1>2 DEF Inv, TypeOK, NoEvent
  <2>. QED  BY <1>2, <2>1, <2>2 DEF Inv, TypeOK
<1>5. RefcntsExact'
  <2>0. \A n \in Events : event'[n] = IF n = popped THEN NoEvent ELSE event[n]
    BY <1>1, <1>2 DEF Inv, TypeOK
  <2>1. EmitterRefs(e)' = EmitterRefs(e) \ {popped} /\ popped \in EmitterRefs(e)
    <3>1. NoEvent.emitter # e /\ event[popped].emitter = e
      BY <1>1, ConstantsAssumption DEF NoEvent
    <3>. QED  BY <1>1, <2>0, <3>1 DEF EmitterRefs
  <2>2. \A f \in Emitters \ {e} : EmitterRefs(f)' = EmitterRefs(f)
    BY <1>1, <1>2, ConstantsAssumption DEF EmitterRefs, Inv, TypeOK, NoEvent
  <2>3. \A h \in Hooks : HookRefs(h)' = HookRefs(h)
    BY <1>1, <1>2, ConstantsAssumption DEF HookRefs, Inv, TypeOK, NoEvent
  <2>4. Cardinality(EmitterRefs(e)') = Cardinality(EmitterRefs(e)) - 1
    BY <2>1, RefsFinite, FS_RemoveElement
  <2>5. emitter'[e].refcnt = emitter[e].refcnt - 1
    BY <1>1, <1>2 DEF Inv, TypeOK, Unref
  <2>6. \A f \in Emitters \ {e} : emitter'[f] = emitter[f]
    BY <1>1, <1>2 DEF Inv, TypeOK
  <2>7. ASSUME NEW f \in Emitters
        PROVE  emitter'[f].refcnt = Cardinality(EmitterRefs(f)')
    <3>1. CASE f = e  BY <3>1, <2>4, <2>5 DEF Inv, RefcntsExact
    <3>2. CASE f # e  BY <3>2, <2>2, <2>6 DEF Inv, RefcntsExact
    <3>. QED  BY <3>1, <3>2
  <2>. QED  BY <1>2, <2>3, <2>7 DEF Inv, RefcntsExact
<1>6. FreedExactly'
  <2>1. \A f \in Emitters : emitter'[f].state = "released" => emitter'[f].refcnt > 0
    BY <1>1, <1>2, <1>3 DEF Inv, FreedExactly, TypeOK, Unref
  <2>2. ASSUME NEW m \in Events, event'[m].emitter # None
        PROVE  Owned(emitter'[event'[m].emitter].state)
    <3>1. m # popped /\ event'[m] = event[m]
      BY <1>1, <1>2, <2>2 DEF Inv, TypeOK, NoEvent
    <3>2. Owned(emitter[event[m].emitter].state)
      BY <2>2, <3>1 DEF Inv, FreedExactly
    <3>3. CASE event[m].emitter = e
      <4>1. emitter[e].refcnt # 1
        BY <1>1, <3>1, <3>3, CountsTell DEF Inv
      <4>. QED  BY <1>1, <1>2, <1>3, <3>1, <3>2, <3>3, <4>1 DEF Inv, TypeOK, Unref
    <3>4. CASE event[m].emitter # e
      BY <1>1, <1>2, <3>1, <3>2, <3>4 DEF Inv, TypeOK
    <3>. QED  BY <3>3, <3>4
  <2>3. \A m \in Events : event'[m].hook # None => Owned(hook'[event'[m].hook].state)
    BY <1>1, <1>2 DEF Inv, FreedExactly, TypeOK, NoEvent
  <2>. QED  BY <1>2, <2>1, <2>2, <2>3 DEF Inv, FreedExactly
<1>7. QueueOwns'
  <2>1. \A m \in Events : m \in Outstanding' <=> m \in Outstanding /\ m # popped
    BY <1>2, ConstantsAssumption DEF Outstanding, InFlight, Inv, TypeOK, Events
  <2>2. \A m \in Events : event'[m] = IF m = popped THEN NoEvent ELSE event[m]
    BY <1>1, <1>2 DEF Inv, TypeOK
  <2>. QED  BY <1>2, <2>1, <2>2 DEF Inv, QueueOwns, InFlight
<1>8. HooksOnLiveEmitters'
  BY <1>1, <1>2, <1>3 DEF Inv, HooksOnLiveEmitters, TypeOK, Unref
<1>9. CursorOnLinks' /\ (triggered = efd)' /\ NoLostWakeup'
  BY <1>2 DEF Inv, CursorOnLinks, NoLostWakeup
<1>. QED  BY <1>4, <1>5, <1>6, <1>7, <1>8, <1>9 DEF Inv

-----------------------------------------------------------------------------
(* The other steps of events_dispatch: no object and no event changes.     *)

Quiet == \/ DispatchBegin \/ PopBroadcast \/ PopUnicast \/ Visit \/ Skip
         \/ BroadcastReturn \/ LoopEnd \/ RunAfter \/ DispatchEnd \/ Misread

\* The steps of events_dispatch that drop no reference (reading the eventfd,
\* popping, walking the list, running the after function) keep the invariant.
LEMMA QuietInv ==
  ASSUME Inv, Quiet  PROVE Inv'
<1>1. UNCHANGED <<emitter, hook, next, prev, event, seq, size>>
  BY DEF Quiet, DispatchBegin, PopBroadcast, PopUnicast, Visit, Skip,
         BroadcastReturn, LoopEnd, RunAfter, DispatchEnd, Misread, objects, queue
<1>2. RefcntsExact' /\ FreedExactly' /\ HooksOnLiveEmitters'
  BY <1>1 DEF Inv, RefcntsExact, EmitterRefs, HookRefs, FreedExactly,
              HooksOnLiveEmitters
<1>3. CASE DispatchBegin \/ DispatchEnd
  <2>1. TypeOK'
    BY <1>3, <1>1 DEF Inv, TypeOK, DispatchBegin, DispatchEnd, queue
  <2>2. QueueOwns' /\ CursorOnLinks'
    BY <1>3, <1>1 DEF Inv, QueueOwns, Outstanding, InFlight, CursorOnLinks,
                      DispatchBegin, DispatchEnd
  <2>3. (triggered = efd)' /\ NoLostWakeup'
    BY <1>3 DEF Inv, NoLostWakeup, QueueIsEmpty, DispatchBegin, DispatchEnd, queue
  <2>. QED  BY <1>2, <2>1, <2>2, <2>3 DEF Inv
<1>4. CASE PopBroadcast \/ PopUnicast
  <2>1. /\ popped + 1 \in Events /\ popped' = popped + 1
        /\ pc = "pop" /\ popped + 1 \in Outstanding
        /\ pc' = IF event[popped + 1].hook = None THEN "visit" ELSE "callback"
        /\ UNCHANGED queue
    BY <1>4, ConstantsAssumption
    DEF Inv, TypeOK, PopBroadcast, PopUnicast, QueueIsEmpty, Events, Outstanding
  <2>2. event[popped + 1].emitter \in Emitters
    BY <2>1 DEF Inv, QueueOwns
  <2>3. iter' \in Links \cup {None} /\ iterNext' \in Links \cup {None}
    BY <1>4, <2>2 DEF Inv, TypeOK, PopBroadcast, PopUnicast, Links
  <2>4. TypeOK'
    <3>1. popped' \in 0..seq'
      BY <1>1, <2>1 DEF Inv, TypeOK, Outstanding
    <3>2. slot' = "intact" /\ pc' \in {"visit", "callback"}
      BY <1>4 DEF PopBroadcast, PopUnicast
    <3>. QED  BY <1>1, <2>1, <2>3, <3>1, <3>2 DEF Inv, TypeOK, queue
  <2>5. QueueOwns'
    <3>1. \A n \in Events : n \in Outstanding' <=> n \in Outstanding
      BY <1>1, <2>1 DEF Inv, TypeOK, Outstanding, InFlight, Events
    <3>. QED  BY <1>1, <2>1, <3>1 DEF Inv, QueueOwns, IsUnicast, Current
  <2>6. CursorOnLinks'
    BY <1>1, <1>4, <2>1, <2>2
    DEF Inv, TypeOK, CursorOnLinks, PopBroadcast, PopUnicast, IsUnicast, Current, Links
  <2>7. (triggered = efd)' /\ NoLostWakeup'
    BY <2>1 DEF Inv, NoLostWakeup, queue
  <2>. QED  BY <1>2, <2>4, <2>5, <2>6, <2>7 DEF Inv
<1>5. CASE Visit \/ Skip \/ BroadcastReturn \/ LoopEnd \/ RunAfter \/ Misread
  <2>1. UNCHANGED <<popped, queue>>
    BY <1>5 DEF Visit, Skip, BroadcastReturn, LoopEnd, RunAfter, Misread, dispatch
  <2>2. InFlight /\ InFlight' /\ pc' # "idle" /\ pc # "idle"
    BY <1>5 DEF Visit, Skip, Advance, BroadcastReturn, LoopEnd, RunAfter, Misread,
                InFlight, dispatch
  <2>3. TypeOK'
    BY <1>1, <1>5, <2>1
    DEF Inv, TypeOK, CursorOnLinks, Visit, Skip, Advance, BroadcastReturn, LoopEnd,
        RunAfter, Misread, queue, dispatch, Links
  <2>4. QueueOwns'
    BY <1>1, <1>5, <2>1, <2>2
    DEF Inv, QueueOwns, Outstanding, IsUnicast, Current, Visit, Skip, Advance,
        BroadcastReturn, LoopEnd, RunAfter, Misread, dispatch
  <2>5. CursorOnLinks'
    BY <1>1, <1>5, <2>1
    DEF Inv, TypeOK, CursorOnLinks, IsUnicast, Current, Visit, Skip, Advance,
        BroadcastReturn, LoopEnd, RunAfter, Misread, dispatch
  <2>6. (triggered = efd)' /\ NoLostWakeup'
    BY <2>1, <2>2 DEF Inv, NoLostWakeup, queue
  <2>. QED  BY <1>2, <2>3, <2>4, <2>5, <2>6 DEF Inv
<1>. QED  BY <1>3, <1>4, <1>5 DEF Quiet

-----------------------------------------------------------------------------
(* The theorems.                                                           *)

\* Every operation of events.c, and every step of events_dispatch, preserves
\* the invariant.
THEOREM NextInv == Inv /\ [Next]_vars => Inv'
<1>. SUFFICES ASSUME Inv, [Next]_vars PROVE Inv'
  OBVIOUS
<1>1. CASE UNCHANGED vars
  BY <1>1 DEF vars, Inv, TypeOK, RefcntsExact, EmitterRefs, HookRefs, FreedExactly,
              QueueOwns, Outstanding, InFlight, IsUnicast, Current,
              HooksOnLiveEmitters, CursorOnLinks, NoLostWakeup, QueueIsEmpty
<1>2. CASE Dispatch
  BY <1>2, PopUnicastReleasedInv, UnicastReturnInv, FinishInv, QuietInv
  DEF Dispatch, Quiet
<1>3. CASE Client
  BY <1>3, EmitterCreateInv, EmitterReleaseInv, AddHookInv, HookReleaseInv,
     BroadcastInv, UnicastInv DEF Client
<1>. QED  BY <1>1, <1>2, <1>3 DEF Next

\* The invariant holds in every reachable state, for any number of emitters,
\* hooks and events and any size of the first ring.
THEOREM InvHolds == Spec => []Inv
BY InitInv, NextInv, PTL DEF Spec

\* The state of events.c stays well typed; in particular no reference count
\* ever becomes negative (hook_unref, emitter_unref).
THEOREM TypesCorrect == Spec => []TypeOK
<1>1. Inv => TypeOK
  BY DEF Inv
<1>. QED  BY <1>1, InvHolds, PTL

\* Reference counts are exact in every reachable state (events.c:114-138).
THEOREM RefcntsAreExact == Spec => []RefcntsExact
<1>1. Inv => RefcntsExact
  BY DEF Inv
<1>. QED  BY <1>1, InvHolds, PTL

\* A released object is freed as soon as its last reference goes, and an event
\* never refers to freed memory (events.c:21, 32).
THEOREM NothingDangles == Spec => []FreedExactly
<1>1. Inv => FreedExactly
  BY DEF Inv
<1>. QED  BY <1>1, InvHolds, PTL

\* Whenever the main loop sleeps and events wait, the eventfd is readable
\* (events.c:254).
THEOREM WakeupsNotLost == Spec => []NoLostWakeup
<1>1. Inv => NoLostWakeup
  BY DEF Inv
<1>. QED  BY <1>1, InvHolds, PTL

-----------------------------------------------------------------------------
(***************************************************************************)
(* The hook lists: whatever callbacks add and release while                *)
(* events_dispatch walks a list, the list stays in one piece and the walk  *)
(* on it, for any number of emitters, hooks and events.                    *)
(***************************************************************************)

\* What is linked into a list, and into the list of which emitter.
Linked(x) == x \in Emitters \/ (x \in Hooks /\ hook[x].state = "live")
Home(x)   == IF x \in Emitters THEN x ELSE hook[x].emitter

LinksInverse == \A x \in Links : prev[next[x]] = x /\ next[prev[x]] = x

\* A walk stays in its list; what is in no list is linked to itself.
StaysHome ==
  \A x \in Links : IF Linked(x) THEN Linked(next[x]) /\ Home(next[x]) = Home(x)
                                ELSE next[x] = x

\* No walk goes round without meeting the emitter.
Acyclic ==
  \E rank \in [Links -> Nat] :
    \A h \in Hooks : hook[h].state = "live" => rank[next[h]] < rank[h]

\* A walk goes from younger to older hooks, and no hook is younger than the last
\* event.
Ages ==
  \A h \in Hooks : hook[h].state = "live" =>
    /\ hook[h].birth_seq <= seq
    /\ next[h] \in Hooks => hook[next[h]].birth_seq <= hook[h].birth_seq

OnList(x) == Linked(x) /\ Home(x) = Current.emitter

CursorOnList ==
  /\ pc = "visit" => OnList(iter) /\ (iter \in Hooks => OnList(iterNext))
  /\ pc = "callback" /\ ~IsUnicast => iter \in Hooks /\ OnList(iterNext)

ListInv == LinksInverse /\ StaysHome /\ Acyclic /\ Ages /\ CursorOnList

LEMMA ListInvImplies ==
  ASSUME Inv, ListInv  PROVE  ListsWellFormed /\ CursorAllocated
<1>. USE ConstantsAssumption
<1>1. ListsWellFormed
  <2>1. PICK rank \in [Links -> Nat] :
          \A h \in Hooks : hook[h].state = "live" => rank[next[h]] < rank[h]
    BY DEF ListInv, Acyclic
  <2>2. ASSUME NEW h \in Hooks, hook[h].state = "live"
        PROVE  \/ next[h] = hook[h].emitter
               \/ /\ next[h] \in Hooks \ {h}
                  /\ hook[next[h]].state = "live"
                  /\ hook[next[h]].emitter = hook[h].emitter
                  /\ hook[next[h]].birth_seq <= hook[h].birth_seq
    <3>1. h \in Links /\ h \notin Emitters /\ Linked(h) /\ next[h] \in Links
      BY <2>2 DEF Links, Linked, Inv, TypeOK
    <3>2. Linked(next[h]) /\ Home(next[h]) = hook[h].emitter
      BY <3>1 DEF ListInv, StaysHome, Home
    <3>3. next[h] # h
      BY <2>1, <2>2, <3>1
    <3>4. CASE next[h] \in Emitters
      BY <3>2, <3>4 DEF Home
    <3>5. CASE next[h] \notin Emitters
      BY <2>2, <3>2, <3>3, <3>5 DEF Linked, Home, ListInv, Ages
    <3>. QED  BY <3>4, <3>5
  <2>3. ASSUME NEW h \in Hooks, hook[h].state # "live"  PROVE next[h] = h
    BY <2>3 DEF ListInv, StaysHome, Linked, Links
  <2>. QED  BY <2>2, <2>3 DEF ListsWellFormed, ListInv, LinksInverse
<1>2. CursorAllocated
  <2>1. ASSUME NEW x, OnList(x)
        PROVE  \/ x = Current.emitter
               \/ x \in Hooks /\ hook[x].state = "live" /\ hook[x].emitter = Current.emitter
    BY <2>1 DEF OnList, Linked, Home
  <2>2. ASSUME NEW x \in Emitters, OnList(x)  PROVE x = Current.emitter
    BY <2>2 DEF OnList, Home
  <2>3. CASE pc = "visit"
    <3>1. OnList(iter) /\ (iter \in Hooks => OnList(iterNext))
      BY <2>3 DEF ListInv, CursorOnList
    <3>2. iter \in Emitters \/ iter \in Hooks
      BY <3>1 DEF OnList, Linked
    <3>. QED  BY <2>1, <2>2, <2>3, <3>1, <3>2 DEF CursorAllocated
  <2>4. CASE pc = "callback" /\ ~IsUnicast
    <3>1. OnList(iterNext)
      BY <2>4 DEF ListInv, CursorOnList
    <3>. QED  BY <2>1, <2>4, <3>1 DEF CursorAllocated
  <2>. QED  BY <2>3, <2>4 DEF CursorAllocated
<1>. QED  BY <1>1, <1>2

LEMMA InitListInv == Init => ListInv
<1>. SUFFICES ASSUME Init PROVE ListInv
  OBVIOUS
<1>. USE ConstantsAssumption DEF Init
<1>1. LinksInverse
  BY DEF LinksInverse
<1>2. StaysHome
  BY DEF StaysHome, Linked, Home
<1>3. Acyclic
  <2>1. [x \in Links |-> 0] \in [Links -> Nat]
    OBVIOUS
  <2>. QED  BY <2>1 DEF Acyclic
<1>4. Ages /\ CursorOnList
  BY DEF Ages, CursorOnList
<1>. QED  BY <1>1, <1>2, <1>3, <1>4 DEF ListInv

-----------------------------------------------------------------------------
(* Steps that leave the lists alone.                                       *)

\* Neither the links nor what is linked changes.
SameLists ==
  /\ next' = next /\ prev' = prev
  /\ \A h \in Hooks : /\ hook'[h].state = "live" <=> hook[h].state = "live"
                      /\ hook'[h].emitter = hook[h].emitter
                      /\ hook'[h].birth_seq = hook[h].birth_seq

LEMMA SameListsInv ==
  ASSUME Inv, ListInv, SameLists, seq' \in Int, seq <= seq'
  PROVE  LinksInverse' /\ StaysHome' /\ Acyclic' /\ Ages'
<1>. USE ConstantsAssumption
<1>0. \A x \in Links : next[x] \in Links
  BY DEF Inv, TypeOK
<1>1. LinksInverse'
  BY DEF SameLists, ListInv, LinksInverse
<1>2. ASSUME NEW x \in Links  PROVE (Linked(x)' <=> Linked(x)) /\ Home(x)' = Home(x)
  BY DEF SameLists, Linked, Home, Links
<1>3. StaysHome'
  BY <1>0, <1>2 DEF SameLists, ListInv, StaysHome
<1>4. Acyclic'
  BY DEF SameLists, ListInv, Acyclic
<1>5. Ages'
  <2>. SUFFICES ASSUME NEW h \in Hooks, hook'[h].state = "live"
                PROVE  /\ hook'[h].birth_seq <= seq'
                       /\ next'[h] \in Hooks => hook'[next'[h]].birth_seq <= hook'[h].birth_seq
    BY DEF Ages
  <2>1. hook[h].state = "live" /\ hook[h].birth_seq \in Int /\ seq \in Int
    BY DEF SameLists, Inv, TypeOK
  <2>2. /\ hook[h].birth_seq <= seq
        /\ next[h] \in Hooks => hook[next[h]].birth_seq <= hook[h].birth_seq
    BY <2>1 DEF ListInv, Ages
  <2>. QED  BY <2>1, <2>2 DEF SameLists
<1>. QED  BY <1>1, <1>3, <1>4, <1>5

\* events_dispatch itself neither adds nor takes out a hook.
LEMMA DispatchSameLists == ASSUME Inv, Dispatch PROVE SameLists
<1>. USE ConstantsAssumption
<1>1. ASSUME NEW n \in Events, NEW h \in Hooks, hook[h].state # "live" \/ pc = "callback",
             DropHook(n, h)
      PROVE  \A g \in Hooks : /\ hook'[g].state = "live" <=> hook[g].state = "live"
                              /\ hook'[g].emitter = hook[g].emitter
                              /\ hook'[g].birth_seq = hook[g].birth_seq
  BY <1>1 DEF DropHook, Unref, Inv, TypeOK
<1>2. CASE PopUnicastReleased
  <2>1. popped + 1 \in Events /\ event[popped + 1].hook \in Hooks
    BY <1>2 DEF PopUnicastReleased, QueueIsEmpty, Events, Inv, TypeOK
  <2>. QED  BY <1>1, <1>2, <2>1 DEF PopUnicastReleased, SameLists, Inv, TypeOK
<1>3. CASE UnicastReturn
  <2>1. popped \in Events /\ Current.hook \in Hooks
    BY <1>3 DEF UnicastReturn, IsUnicast, Current, Inv, QueueOwns, InFlight, TypeOK
  <2>. QED  BY <1>1, <1>3, <2>1 DEF UnicastReturn, SameLists, Inv, TypeOK
<1>4. CASE UNCHANGED <<hook, next, prev>>
  BY <1>4 DEF SameLists, Inv, TypeOK
<1>. QED  BY <1>2, <1>3, <1>4 DEF Dispatch, DispatchBegin, PopBroadcast, PopUnicast,
            Visit, Skip, BroadcastReturn, LoopEnd, RunAfter, Finish, DispatchEnd,
            Misread, objects, queue

\* The cursor stays where it is.
LEMMA SameCursorInv ==
  ASSUME Inv, ListInv, SameLists,
         pc' = pc, iter' = iter, iterNext' = iterNext,
         pc \in {"visit", "callback"} =>
           Current'.emitter = Current.emitter /\ Current'.hook = Current.hook
  PROVE  CursorOnList'
<1>1. ASSUME NEW x, OnList(x), pc \in {"visit", "callback"}  PROVE OnList(x)'
  BY <1>1, ConstantsAssumption DEF OnList, Linked, Home, SameLists
<1>. QED  BY <1>1 DEF ListInv, CursorOnList, IsUnicast

-----------------------------------------------------------------------------
(* Hooks come and go.                                                      *)

LEMMA AddHookListInv ==
  ASSUME Inv, ListInv, NEW e \in Emitters, NEW h \in Hooks, AddHook(e, h)
  PROVE  ListInv'
<1>. USE ConstantsAssumption
<1>0. /\ e \in Links /\ h \in Links /\ e # h /\ next[e] \in Links /\ prev[e] \in Links
      /\ \A x \in Links : next[x] \in Links /\ prev[x] \in Links
      /\ next \in [Links -> Links] /\ prev \in [Links -> Links]
  BY DEF Inv, TypeOK, Links
<1>1. /\ hook[h].state = "unborn" /\ next[h] = h /\ ~Linked(h) /\ prev[h] = h
      /\ Linked(e) /\ Home(e) = e /\ Linked(next[e]) /\ Home(next[e]) = e /\ next[e] # h
  BY <1>0 DEF AddHook, ListInv, StaysHome, LinksInverse, Linked, Home
<1>2. /\ \A x \in Links : next'[x] = IF x = e THEN h ELSE IF x = h THEN next[e] ELSE next[x]
      /\ \A x \in Links : prev'[x] = IF x = h THEN e ELSE IF x = next[e] THEN h ELSE prev[x]
  BY <1>0, <1>1 DEF AddHook
<1>3. /\ hook' = [hook EXCEPT ![h] = NewHook(e)]
      /\ \A g \in Hooks : hook'[g] = IF g = h THEN NewHook(e) ELSE hook[g]
  BY DEF AddHook, Inv, TypeOK
<1>4. ASSUME NEW x \in Links
      PROVE  /\ Linked(x)' <=> Linked(x) \/ x = h
             /\ Home(x)' = IF x = h THEN e ELSE Home(x)
  BY <1>3 DEF Linked, Home, Links, NewHook
<1>5. LinksInverse'
  BY <1>0, <1>1, <1>2 DEF ListInv, LinksInverse
<1>6. StaysHome'
  BY <1>0, <1>1, <1>2, <1>4 DEF ListInv, StaysHome
<1>7. Acyclic'
  <2>1. PICK rank \in [Links -> Nat] :
          \A g \in Hooks : hook[g].state = "live" => rank[next[g]] < rank[g]
    BY DEF ListInv, Acyclic
  <2>. DEFINE new == [rank EXCEPT ![h] = rank[next[e]] + 1]
  <2>2. /\ new \in [Links -> Nat] /\ new[h] = rank[next[e]] + 1
        /\ \A x \in Links : x # h => new[x] = rank[x]
    BY <1>0
  <2>3. ASSUME NEW g \in Hooks, hook'[g].state = "live"  PROVE new[next'[g]] < new[g]
    <3>0. g \in Links /\ g # e /\ next[g] \in Links
      BY <1>0 DEF Links
    <3>1. CASE g = h
      <4>1. next'[g] = next[e]
        BY <1>2, <3>0, <3>1
      <4>2. new[next'[g]] = rank[next[e]] /\ rank[next[e]] \in Nat
        BY <1>0, <1>1, <2>2, <4>1
      <4>. QED  BY <2>2, <3>1, <4>2
    <3>2. CASE g # h
      <4>1. hook[g].state = "live" /\ next'[g] = next[g] /\ Linked(g)
        BY <1>2, <1>3, <2>3, <3>0, <3>2 DEF Linked
      <4>2. next[g] # h
        BY <1>1, <3>0, <4>1 DEF ListInv, StaysHome
      <4>. QED  BY <2>1, <2>2, <3>0, <3>2, <4>1, <4>2
    <3>. QED  BY <3>1, <3>2
  <2>. HIDE DEF new
  <2>. QED  BY <2>2, <2>3 DEF Acyclic
<1>8. Ages'
  <2>. SUFFICES ASSUME NEW g \in Hooks, hook'[g].state = "live"
                PROVE  /\ hook'[g].birth_seq <= seq'
                       /\ next'[g] \in Hooks => hook'[next'[g]].birth_seq <= hook'[g].birth_seq
    BY DEF Ages
  <2>0. seq' = seq /\ seq \in Int /\ g \in Links /\ g # e
    BY DEF AddHook, queue, Inv, TypeOK, Links
  <2>1. CASE g = h
    <3>1. next'[g] = next[e] /\ hook'[g].birth_seq = seq
      BY <1>2, <1>3, <2>0, <2>1 DEF NewHook
    <3>2. next[e] \in Hooks => hook'[next[e]] = hook[next[e]] /\ hook[next[e]].birth_seq <= seq
      BY <1>0, <1>1, <1>3 DEF Linked, ListInv, Ages
    <3>. QED  BY <2>0, <3>1, <3>2
  <2>2. CASE g # h
    <3>1. hook[g].state = "live" /\ next'[g] = next[g] /\ hook'[g] = hook[g] /\ Linked(g)
      BY <1>2, <1>3, <2>0, <2>2 DEF Linked
    <3>2. next[g] # h
      BY <1>1, <2>0, <3>1 DEF ListInv, StaysHome
    <3>3. next[g] \in Hooks => hook'[next[g]] = hook[next[g]]
      BY <1>3, <3>2
    <3>. QED  BY <2>0, <3>1, <3>3 DEF ListInv, Ages
  <2>. QED  BY <2>1, <2>2
<1>9. CursorOnList'
  <2>1. pc # "visit" /\ UNCHANGED <<event, popped, pc, iter, iterNext>>
    BY DEF AddHook, ClientRuns, queue, dispatch
  <2>2. ASSUME pc = "callback", ~IsUnicast  PROVE iter \in Hooks /\ OnList(iterNext)'
    <3>1. iter \in Hooks /\ OnList(iterNext)
      BY <2>2 DEF ListInv, CursorOnList
    <3>2. iterNext \in Links /\ iterNext # h
      BY <1>1, <3>1 DEF OnList, Linked, Links
    <3>. QED  BY <1>4, <2>1, <3>1, <3>2 DEF OnList, Current
  <2>. QED  BY <2>1, <2>2 DEF CursorOnList, IsUnicast, Current
<1>. QED  BY <1>5, <1>6, <1>7, <1>8, <1>9 DEF ListInv

\* The released hook is taken out of its list; the walk is not at it.
LEMMA HookReleaseListInv ==
  ASSUME Inv, ListInv, NEW h \in Hooks, HookRelease(h)
  PROVE  ListInv'
<1>. USE ConstantsAssumption
<1>0. /\ h \in Links /\ next[h] \in Links /\ prev[h] \in Links
      /\ \A x \in Links : next[x] \in Links /\ prev[x] \in Links
      /\ next \in [Links -> Links] /\ prev \in [Links -> Links]
  BY DEF Inv, TypeOK, Links
<1>1. PICK rank \in [Links -> Nat] :
        \A g \in Hooks : hook[g].state = "live" => rank[next[g]] < rank[g]
  BY DEF ListInv, Acyclic
<1>2. hook[h].state = "live" /\ Linked(h) /\ rank[next[h]] < rank[h]
  BY <1>1 DEF HookRelease, Linked
<1>3. next[h] # h /\ Linked(next[h]) /\ Home(next[h]) = Home(h)
  BY <1>0, <1>1, <1>2 DEF ListInv, StaysHome
<1>4. next[prev[h]] = h /\ prev[next[h]] = h /\ prev[h] # h
  BY <1>0, <1>3 DEF ListInv, LinksInverse
<1>5. Linked(prev[h]) /\ Home(prev[h]) = Home(h)
  BY <1>0, <1>4 DEF ListInv, StaysHome
<1>6. /\ \A x \in Links : next'[x] = IF x = h THEN h ELSE IF x = prev[h] THEN next[h] ELSE next[x]
      /\ \A x \in Links : prev'[x] = IF x = h THEN h ELSE IF x = next[h] THEN prev[h] ELSE prev[x]
  BY <1>0, <1>3, <1>4 DEF HookRelease
<1>7. \A g \in Hooks : hook'[g] = IF g = h THEN Release(hook[h]) ELSE hook[g]
  BY DEF HookRelease, Inv, TypeOK
<1>8. /\ hook'[h].state # "live"
      /\ \A g \in Hooks : hook'[g].emitter = hook[g].emitter
  BY <1>7 DEF Release, Inv, TypeOK
<1>9. ASSUME NEW x \in Links
      PROVE  /\ Linked(x)' <=> Linked(x) /\ x # h
             /\ Home(x)' = Home(x)
  BY <1>7, <1>8 DEF Linked, Home, Links
<1>10. \A x \in Links : next[x] = h <=> x = prev[h]
  BY <1>0, <1>4 DEF ListInv, LinksInverse
<1>11. LinksInverse'
  BY <1>0, <1>3, <1>4, <1>6, <1>10 DEF ListInv, LinksInverse
<1>12. StaysHome'
  BY <1>0, <1>3, <1>4, <1>5, <1>6, <1>9, <1>10 DEF ListInv, StaysHome
<1>13. Acyclic'
  <2>1. ASSUME NEW g \in Hooks, hook'[g].state = "live"  PROVE rank[next'[g]] < rank[g]
    <3>0. g \in Links /\ g # h /\ hook[g].state = "live" /\ next[g] \in Links
      BY <1>0, <1>7, <1>8, <2>1 DEF Links
    <3>1. rank[next[g]] < rank[g]
      BY <1>1, <3>0
    <3>2. CASE g = prev[h]
      <4>1. next'[g] = next[h] /\ next[g] = h
        BY <1>4, <1>6, <3>0, <3>2
      <4>. QED  BY <1>0, <1>2, <3>0, <3>1, <4>1
    <3>3. CASE g # prev[h]
      BY <1>6, <3>0, <3>1, <3>3
    <3>. QED  BY <3>2, <3>3
  <2>. QED  BY <2>1 DEF Acyclic
<1>14. Ages'
  <2>. SUFFICES ASSUME NEW g \in Hooks, hook'[g].state = "live"
                PROVE  /\ hook'[g].birth_seq <= seq'
                       /\ next'[g] \in Hooks => hook'[next'[g]].birth_seq <= hook'[g].birth_seq
    BY DEF Ages
  <2>0. /\ seq' = seq /\ g \in Links /\ g # h /\ hook[g].state = "live" /\ hook'[g] = hook[g]
        /\ next[g] \in Links
    BY <1>0, <1>7, <1>8 DEF HookRelease, queue, Links
  <2>1. \A f \in Hooks : hook[f].birth_seq \in Int
    BY DEF Inv, TypeOK
  <2>2. /\ hook[g].birth_seq <= seq
        /\ next[g] \in Hooks => hook[next[g]].birth_seq <= hook[g].birth_seq
    BY <2>0 DEF ListInv, Ages
  <2>3. CASE g = prev[h]
    <3>1. next'[g] = next[h] /\ next[g] = h
      BY <1>4, <1>6, <2>0, <2>3
    <3>2. next[h] \in Hooks => /\ hook'[next[h]] = hook[next[h]]
                               /\ hook[next[h]].birth_seq <= hook[h].birth_seq
      BY <1>2, <1>3, <1>7 DEF ListInv, Ages
    <3>. QED  BY <2>0, <2>1, <2>2, <3>1, <3>2
  <2>4. CASE g # prev[h]
    <3>1. next'[g] = next[g] /\ next[g] # h
      BY <1>6, <1>10, <2>0, <2>4
    <3>. QED  BY <1>7, <2>0, <2>2, <3>1
  <2>. QED  BY <2>3, <2>4
<1>15. CursorOnList'
  <2>1. pc # "visit" /\ UNCHANGED <<event, popped, pc, iter, iterNext>>
    BY DEF HookRelease, ClientRuns, queue, dispatch
  <2>2. ASSUME pc = "callback", ~IsUnicast  PROVE iter \in Hooks /\ OnList(iterNext)'
    <3>1. iter \in Hooks /\ OnList(iterNext)
      BY <2>2 DEF ListInv, CursorOnList
    <3>2. iterNext \in Links /\ iterNext # h
      BY <2>2, <3>1 DEF OnList, Linked, Links, HookRelease
    <3>. QED  BY <1>9, <2>1, <3>1, <3>2 DEF OnList, Current
  <2>. QED  BY <2>1, <2>2 DEF CursorOnList, IsUnicast, Current
<1>. QED  BY <1>11, <1>12, <1>13, <1>14, <1>15 DEF ListInv

-----------------------------------------------------------------------------
(* The other steps.                                                        *)

\* Emitters that come and go, and events that are queued, leave lists and walk
\* alone.
LEMMA ClientListInv ==
  ASSUME Inv, ListInv, Client  PROVE ListInv'
<1>. USE ConstantsAssumption
<1>1. ASSUME NEW e \in Emitters, EmitterCreate(e) \/ EmitterRelease(e)  PROVE ListInv'
  <2>1. SameLists /\ UNCHANGED <<event, seq, popped, pc, iter, iterNext>>
    BY <1>1 DEF EmitterCreate, EmitterRelease, SameLists, queue, dispatch
  <2>2. seq' \in Int /\ seq <= seq'
    BY <2>1 DEF Inv, TypeOK
  <2>3. Current' = Current
    BY <2>1 DEF Current
  <2>. QED  BY <2>1, <2>2, <2>3, SameListsInv, SameCursorInv DEF ListInv
<1>2. ASSUME NEW e \in Emitters, NEW h \in Hooks \union {None}, NEW after \in BOOLEAN,
             ClientRuns, Push(e, h, after), next' = next, prev' = prev,
             UNCHANGED dispatch,
             \/ hook' = hook
             \/ h \in Hooks /\ hook' = [hook EXCEPT ![h] = Ref(@)]
      PROVE  ListInv'
  <2>1. SameLists
    BY <1>2 DEF SameLists, Ref, Inv, TypeOK
  <2>2. seq' \in Int /\ seq <= seq'
    BY <1>2 DEF Push, Inv, TypeOK
  <2>3. pc = "callback" => popped \in Events /\ popped <= seq /\ popped \in Nat /\ seq \in Nat
    BY DEF Inv, QueueOwns, InFlight, TypeOK
  <2>4. pc = "callback" => Current' = Current
    BY <1>2, <2>3 DEF Push, Current, dispatch, Inv, TypeOK
  <2>5. pc # "visit" /\ UNCHANGED <<pc, iter, iterNext>>
    BY <1>2 DEF ClientRuns, dispatch
  <2>. QED  BY <2>1, <2>2, <2>4, <2>5, SameListsInv, SameCursorInv DEF ListInv
<1>3. ASSUME NEW e \in Emitters, NEW after \in BOOLEAN, Broadcast(e, after)  PROVE ListInv'
  BY <1>2, <1>3 DEF Broadcast
<1>4. ASSUME NEW h \in Hooks, NEW after \in BOOLEAN, Unicast(h, after)  PROVE ListInv'
  <2>1. hook[h].emitter \in Emitters
    BY <1>4 DEF Unicast, Inv, HooksOnLiveEmitters
  <2>. QED  BY <1>2, <1>4, <2>1 DEF Unicast
<1>. QED  BY <1>1, <1>3, <1>4, AddHookListInv, HookReleaseListInv DEF Client

LEMMA DispatchListInv ==
  ASSUME Inv, ListInv, Dispatch  PROVE ListInv'
<1>. USE ConstantsAssumption
<1>0. \A x \in Links : next[x] \in Links
  BY DEF Inv, TypeOK
<1>1. SameLists /\ seq' = seq /\ seq \in Int
  <2>1. seq' = seq
    BY DEF Dispatch, DispatchBegin, PopBroadcast, PopUnicast, PopUnicastReleased, Visit,
           Skip, BroadcastReturn, UnicastReturn, LoopEnd, RunAfter, Finish, DispatchEnd,
           Misread, queue
  <2>. QED  BY <2>1, DispatchSameLists DEF Inv, TypeOK
<1>2. LinksInverse' /\ StaysHome' /\ Acyclic' /\ Ages'
  BY <1>1, SameListsInv
<1>3. ASSUME NEW x, OnList(x), Current'.emitter = Current.emitter  PROVE OnList(x)'
  BY <1>1, <1>3 DEF OnList, Linked, Home, SameLists
<1>4. ASSUME NEW x, OnList(x)  PROVE x \in Links /\ OnList(next[x])
  BY <1>4 DEF OnList, Linked, Links, ListInv, StaysHome
<1>5. CursorOnList'
  <2>1. CASE PopBroadcast
    <3>. DEFINE e == event[popped + 1].emitter
    <3>1. popped + 1 \in Events /\ popped + 1 \in Outstanding
      BY <2>1 DEF PopBroadcast, QueueIsEmpty, Events, Outstanding, Inv, TypeOK
    <3>2. e \in Emitters /\ e \in Links
      BY <3>1 DEF Inv, QueueOwns, Links
    <3>3. /\ iter' = next[e] /\ iterNext' = next[next[e]] /\ pc' = "visit"
          /\ Current'.emitter = e
      BY <2>1 DEF PopBroadcast, Current, queue
    <3>4. /\ Linked(next[e]) /\ Home(next[e]) = e /\ next[e] \in Links
          /\ Linked(next[next[e]]) /\ Home(next[next[e]]) = e
      BY <1>0, <3>2 DEF ListInv, StaysHome, Linked, Home
    <3>5. ASSUME NEW x, Linked(x), Home(x) = e  PROVE OnList(x)'
      BY <1>1, <3>3, <3>5 DEF OnList, Linked, Home, SameLists
    <3>. QED  BY <3>3, <3>4, <3>5 DEF CursorOnList
  <2>2. CASE Skip \/ BroadcastReturn
    <3>1. iter \in Hooks /\ OnList(iterNext)
      BY <2>2 DEF Skip, BroadcastReturn, ListInv, CursorOnList
    <3>2. iter' = iterNext /\ iterNext' = next[iterNext] /\ pc' = "visit" /\ Current' = Current
      BY <2>2 DEF Skip, BroadcastReturn, Advance, Current, queue
    <3>. QED  BY <1>3, <1>4, <3>1, <3>2 DEF CursorOnList
  <2>3. CASE Visit
    <3>1. iter \in Hooks /\ OnList(iterNext)
      BY <2>3 DEF Visit, ListInv, CursorOnList
    <3>2. iter' = iter /\ iterNext' = iterNext /\ pc' = "callback" /\ Current' = Current
      BY <2>3 DEF Visit, Current, queue
    <3>. QED  BY <1>3, <3>1, <3>2 DEF CursorOnList
  <2>4. CASE PopUnicast
    <3>1. pc' = "callback" /\ IsUnicast'
      BY <2>4 DEF PopUnicast, IsUnicast, Current, queue
    <3>. QED  BY <3>1 DEF CursorOnList
  <2>5. CASE Misread
    <3>1. UNCHANGED <<pc, iter, iterNext, event, popped>>
      BY <2>5 DEF Misread, queue, dispatch
    <3>2. Current' = Current
      BY <3>1 DEF Current
    <3>. QED  BY <1>1, <3>1, <3>2, SameCursorInv
  <2>6. CASE pc' \notin {"visit", "callback"}
    BY <2>6 DEF CursorOnList
  <2>. QED  BY <2>1, <2>2, <2>3, <2>4, <2>5, <2>6 DEF Dispatch, DispatchBegin,
              PopUnicastReleased, UnicastReturn, LoopEnd, RunAfter, Finish, DispatchEnd
<1>. QED  BY <1>2, <1>5 DEF ListInv

-----------------------------------------------------------------------------
(* The theorems.                                                           *)

LEMMA NextListInv == Inv /\ ListInv /\ [Next]_vars => ListInv'
<1>. SUFFICES ASSUME Inv, ListInv, [Next]_vars PROVE ListInv'
  OBVIOUS
<1>1. CASE UNCHANGED vars
  <2>1. SameLists /\ UNCHANGED <<event, seq, popped, pc, iter, iterNext>>
    BY <1>1 DEF vars, SameLists
  <2>2. seq' \in Int /\ seq <= seq'
    BY <2>1 DEF Inv, TypeOK
  <2>3. Current' = Current
    BY <2>1 DEF Current
  <2>. QED  BY <2>1, <2>2, <2>3, SameListsInv, SameCursorInv DEF ListInv
<1>. QED  BY <1>1, ClientListInv, DispatchListInv DEF Next

THEOREM ListInvHolds == Spec => []ListInv
<1>1. Inv /\ ListInv /\ [Next]_vars => ListInv'
  BY NextListInv
<1>. QED  BY <1>1, InitListInv, InvHolds, PTL DEF Spec

\* Whatever callbacks add and release, the links of a list stay inverse to one
\* another and lead from younger to older hooks (events.c:155, 215).
THEOREM ListsStayWellFormed == Spec => []ListsWellFormed
<1>1. Inv /\ ListInv => ListsWellFormed
  BY ListInvImplies
<1>. QED  BY <1>1, InvHolds, ListInvHolds, PTL

\* The walk of events_dispatch never leaves the hooks that are linked (events.c:155).
THEOREM CursorStaysAllocated == Spec => []CursorAllocated
<1>1. Inv /\ ListInv => CursorAllocated
  BY ListInvImplies
<1>. QED  BY <1>1, InvHolds, ListInvHolds, PTL

-----------------------------------------------------------------------------
(***************************************************************************)
(* The bus: events.c hands every event to exactly the hooks that listened  *)
(* when it was emitted and still do, each once, one event after the other. *)
(***************************************************************************)

\* The hooks a walk along the links nxt meets from x on.
Reach(nxt, x) ==
  {h \in Hooks : \A S \in SUBSET Links :
                    x \in S /\ (\A g \in S \cap Hooks : nxt[g] \in S) => h \in S}

LEMMA FromIsReach ==
  ASSUME NEW x  PROVE From(x) = Reach(next, x)
BY DEF From, Closed, Reach

\* A walk ends at the head of the list.
LEMMA ReachHead ==
  ASSUME NEW nxt, NEW e \in Emitters  PROVE Reach(nxt, e) = {}
<1>1. {e} \in SUBSET Links /\ {e} \cap Hooks = {}
  BY ConstantsAssumption DEF Links
<1>2. ASSUME NEW h \in Reach(nxt, e)  PROVE FALSE
  <2>1. h \in Hooks /\ h \in {e}
    BY <1>1 DEF Reach
  <2>. QED  BY <1>1, <2>1
<1>. QED  BY <1>2

\* A walk that starts at a hook meets it and goes on from its successor.
LEMMA ReachHook ==
  ASSUME NEW nxt, NEW x \in Hooks, nxt[x] \in Links
  PROVE  Reach(nxt, x) = {x} \union Reach(nxt, nxt[x])
<1>1. x \in Reach(nxt, x)
  BY DEF Reach
<1>2. ASSUME NEW h \in Reach(nxt, nxt[x])  PROVE h \in Reach(nxt, x)
  <2>1. ASSUME NEW S \in SUBSET Links, x \in S, \A g \in S \cap Hooks : nxt[g] \in S
        PROVE  h \in S
    BY <2>1 DEF Reach
  <2>2. h \in Hooks
    BY DEF Reach
  <2>. QED  BY <2>1, <2>2 DEF Reach
<1>3. ASSUME NEW h \in Reach(nxt, x), h # x  PROVE h \in Reach(nxt, nxt[x])
  <2>1. ASSUME NEW S \in SUBSET Links, nxt[x] \in S, \A g \in S \cap Hooks : nxt[g] \in S
        PROVE  h \in S
    <3>1. S \union {x} \in SUBSET Links
      BY DEF Links
    <3>2. \A g \in (S \union {x}) \cap Hooks : nxt[g] \in S \union {x}
      BY <2>1
    <3>3. h \in S \union {x}
      BY <3>1, <3>2 DEF Reach
    <3>. QED  BY <1>3, <3>3
  <2>2. h \in Hooks
    BY DEF Reach
  <2>. QED  BY <2>1, <2>2 DEF Reach
<1>. QED  BY <1>1, <1>2, <1>3

\* A walk meets live hooks of the list it starts in, and no others.
LEMMA ReachStaysHome ==
  ASSUME Inv, ListInv, NEW x \in Links, Linked(x), NEW h \in Reach(next, x)
  PROVE  h \in Hooks /\ hook[h].state = "live" /\ hook[h].emitter = Home(x)
<1>. DEFINE S == {y \in Links : Linked(y) /\ Home(y) = Home(x)}
<1>1. S \in SUBSET Links /\ x \in S
  OBVIOUS
<1>2. \A g \in S \cap Hooks : next[g] \in S
  BY DEF ListInv, StaysHome, Inv, TypeOK
<1>3. h \in Hooks /\ h \in S
  BY <1>1, <1>2 DEF Reach
<1>. QED  BY <1>3, ConstantsAssumption DEF Linked, Home

\* A walk does not come back to a hook it has left.
LEMMA NoReturn ==
  ASSUME Inv, ListInv, NEW x \in Hooks, hook[x].state = "live"
  PROVE  x \notin Reach(next, next[x])
<1>1. PICK rank \in [Links -> Nat] :
        \A h \in Hooks : hook[h].state = "live" => rank[next[h]] < rank[h]
  BY DEF ListInv, Acyclic
<1>. DEFINE S == {y \in Links : rank[y] < rank[x]}
<1>2. S \in SUBSET Links /\ x \notin S /\ next[x] \in S
  BY <1>1 DEF Links, Inv, TypeOK
<1>3. ASSUME NEW g \in S \cap Hooks  PROVE next[g] \in S
  <2>1. g \in Links /\ x \in Links /\ next[g] \in Links
    BY DEF Links, Inv, TypeOK
  <2>2. CASE hook[g].state = "live"
    BY <1>1, <2>1, <2>2
  <2>3. CASE hook[g].state # "live"
    <3>1. next[g] = g
      BY <2>1, <2>3, ConstantsAssumption DEF ListInv, StaysHome, Linked
    <3>. QED  BY <3>1
  <2>. QED  BY <2>2, <2>3
<1>. QED  BY <1>2, <1>3 DEF Reach

\* A set of hooks that is not empty has one that no walk from another of them
\* meets earlier: one of highest rank.
LEMMA HighestRank ==
  ASSUME NEW U \in SUBSET Hooks, U # {}, NEW rank \in [Links -> Nat]
  PROVE  \E u \in U : \A v \in U : rank[v] <= rank[u]
<1>. DEFINE Above(u) == {v \in Hooks : rank[v] > rank[u]}
            less == {pair \in Nat \X Nat : pair[1] < pair[2]}
            sizes == {Cardinality(Above(u)) : u \in U}
<1>1. \A u \in U : IsFiniteSet(Above(u)) /\ Cardinality(Above(u)) \in Nat
  <2>1. IsFiniteSet(Hooks)
    BY ConstantsAssumption
  <2>2. \A u \in U : Above(u) \in SUBSET Hooks
    OBVIOUS
  <2>. QED  BY <2>1, <2>2, FS_Subset, FS_CardinalityType
<1>2. IsWellFoundedOn(less, Nat)
  BY NatLessThanWellFounded DEF OpToRel
<1>3. sizes \in SUBSET Nat /\ sizes # {}
  BY <1>1
<1>4. PICK m \in sizes : \A n \in sizes : ~(<<n, m>> \in less)
  BY <1>2, <1>3, WFMin
<1>5. PICK u \in U : m = Cardinality(Above(u))
  OBVIOUS
<1>6. ASSUME NEW v \in U, rank[v] > rank[u]  PROVE FALSE
  <2>1. v \in Above(u) /\ v \notin Above(v) /\ Above(v) \in SUBSET Above(u)
    BY <1>6 DEF Links
  <2>2. Cardinality(Above(v)) <= Cardinality(Above(u))
        /\ Cardinality(Above(v)) # Cardinality(Above(u))
    BY <1>1, <2>1, FS_Subset
  <2>3. Cardinality(Above(v)) \in sizes /\ Cardinality(Above(v)) \in Nat /\ m \in Nat
    BY <1>1, <1>5
  <2>. HIDE DEF Above
  <2>4. ~(Cardinality(Above(v)) < m)
    BY <1>4, <2>3
  <2>. QED  BY <1>5, <2>2, <2>3, <2>4
<1>7. ASSUME NEW v \in U  PROVE rank[v] <= rank[u]
  <2>1. rank[v] \in Nat /\ rank[u] \in Nat
    BY DEF Links
  <2>. QED  BY <1>6, <2>1
<1>. QED  BY <1>7

\* A walk of a whole list meets every hook that listens to the emitter.
LEMMA ReachAll ==
  ASSUME Inv, ListInv, NEW e \in Emitters
  PROVE  Reach(next, next[e]) = Listening[e]
<1>. USE ConstantsAssumption
<1>1. e \in Links /\ Linked(e) /\ Home(e) = e /\ next[e] \in Links
      /\ Linked(next[e]) /\ Home(next[e]) = e
  BY DEF Links, Linked, Home, ListInv, StaysHome, Inv, TypeOK
<1>2. Listening[e] = {h \in Hooks : hook[h].state = "live" /\ hook[h].emitter = e}
  BY DEF Listening
<1>3. Reach(next, next[e]) \subseteq Listening[e]
  BY <1>1, <1>2, ReachStaysHome
<1>4. ASSUME NEW S \in SUBSET Links, next[e] \in S, \A g \in S \cap Hooks : next[g] \in S
      PROVE  Listening[e] \subseteq S
  <2>. DEFINE U == Listening[e] \ S
  <2>. SUFFICES ASSUME U # {} PROVE FALSE
    OBVIOUS
  <2>1. PICK rank \in [Links -> Nat] :
          \A h \in Hooks : hook[h].state = "live" => rank[next[h]] < rank[h]
    BY DEF ListInv, Acyclic
  <2>2. U \in SUBSET Hooks
    BY <1>2
  <2>3. PICK u \in U : \A v \in U : rank[v] <= rank[u]
    BY <2>2, HighestRank
  <2>4. u \in Hooks /\ u \in Links /\ hook[u].state = "live" /\ hook[u].emitter = e
        /\ u \notin S /\ u \notin Emitters /\ Linked(u) /\ Home(u) = e
    BY <1>2 DEF Links, Linked, Home
  <2>. DEFINE p == prev[u]
  <2>5. p \in Links /\ next[p] = u
    BY <2>4 DEF ListInv, LinksInverse, Inv, TypeOK
  <2>6. Linked(p) /\ Home(p) = e
    BY <2>4, <2>5 DEF ListInv, StaysHome
  <2>7. CASE p \in Emitters
    BY <1>4, <2>4, <2>5, <2>6, <2>7 DEF Home
  <2>8. CASE p \notin Emitters
    <3>1. p \in Hooks /\ hook[p].state = "live" /\ hook[p].emitter = e
      BY <2>6, <2>8 DEF Linked, Home
    <3>2. rank[u] < rank[p] /\ rank[u] \in Nat /\ rank[p] \in Nat
      BY <2>1, <2>4, <2>5, <3>1
    <3>3. p \notin U
      BY <2>3, <3>2
    <3>4. p \in S
      BY <1>2, <3>1, <3>3
    <3>. QED  BY <1>4, <2>4, <2>5, <3>1, <3>4
  <2>. QED  BY <2>7, <2>8
<1>5. Listening[e] \subseteq Reach(next, next[e])
  BY <1>2, <1>4 DEF Reach
<1>. QED  BY <1>3, <1>5

\* A hook that a callback adds is on no walk in progress.
LEMMA AddHookReach ==
  ASSUME Inv, ListInv, NEW e \in Emitters, NEW h \in Hooks, AddHook(e, h),
         NEW x \in Links, x # h
  PROVE  Reach(next', x) = Reach(next, x)
<1>. USE ConstantsAssumption
<1>1. /\ e \in Links /\ h \in Links /\ e # h /\ hook[h].state = "unborn"
      /\ \A y \in Links : next[y] \in Links
      /\ next \in [Links -> Links]
  BY DEF Inv, TypeOK, Links, AddHook
<1>2. next[h] = h /\ \A y \in Links : prev[next[y]] = y
  BY <1>1 DEF ListInv, StaysHome, LinksInverse, Linked
<1>3. \A g \in Hooks \ {h} : g \in Links /\ next'[g] = next[g] /\ next[g] # h
  BY <1>1, <1>2 DEF AddHook, Links
<1>4. ASSUME NEW g \in Reach(next, x)  PROVE g \in Reach(next', x)
  <2>1. ASSUME NEW S \in SUBSET Links, x \in S, \A f \in S \cap Hooks : next'[f] \in S
        PROVE  g \in S
    <3>1. S \ {h} \in SUBSET Links /\ x \in S \ {h}
      BY <2>1
    <3>2. \A f \in (S \ {h}) \cap Hooks : next[f] \in S \ {h}
      BY <1>3, <2>1
    <3>. QED  BY <3>1, <3>2 DEF Reach
  <2>2. g \in Hooks
    BY DEF Reach
  <2>. QED  BY <2>1, <2>2 DEF Reach
<1>5. ASSUME NEW g \in Reach(next', x)  PROVE g \in Reach(next, x)
  <2>1. ASSUME NEW S \in SUBSET Links, x \in S, \A f \in S \cap Hooks : next[f] \in S
        PROVE  g \in S
    <3>1. S \ {h} \in SUBSET Links /\ x \in S \ {h}
      BY <2>1
    <3>2. \A f \in (S \ {h}) \cap Hooks : next'[f] \in S \ {h}
      BY <1>3, <2>1
    <3>. QED  BY <3>1, <3>2 DEF Reach
  <2>2. g \in Hooks
    BY DEF Reach
  <2>. QED  BY <2>1, <2>2 DEF Reach
<1>. QED  BY <1>4, <1>5

\* A hook that a callback releases is taken off every walk in progress, and
\* nothing else is.
LEMMA HookReleaseReach ==
  ASSUME Inv, ListInv, NEW h \in Hooks, HookRelease(h), NEW x \in Links, x # h
  PROVE  Reach(next', x) = Reach(next, x) \ {h}
<1>. USE ConstantsAssumption
<1>. DEFINE p == prev[h]
<1>1. /\ h \in Links /\ p \in Links /\ next[h] \in Links /\ next[p] = h
      /\ hook[h].state = "live"
      /\ \A y \in Links : next[y] \in Links /\ prev[next[y]] = y
      /\ next \in [Links -> Links]
  BY DEF Inv, TypeOK, Links, HookRelease, ListInv, LinksInverse
<1>2. next[h] # h /\ p # h
  <2>1. PICK rank \in [Links -> Nat] :
          \A g \in Hooks : hook[g].state = "live" => rank[next[g]] < rank[g]
    BY DEF ListInv, Acyclic
  <2>2. rank[next[h]] < rank[h] /\ rank[h] \in Nat
    BY <1>1, <2>1
  <2>. QED  BY <1>1, <2>2
<1>3. /\ next'[h] = h /\ next'[p] = next[h]
      /\ \A g \in Hooks \ {h, p} : g \in Links /\ next'[g] = next[g] /\ next[g] # h
  BY <1>1, <1>2 DEF HookRelease, Links
<1>. HIDE DEF p
<1>4. h \notin Reach(next', x)
  <2>1. Links \ {h} \in SUBSET Links /\ x \in Links \ {h}
    OBVIOUS
  <2>2. \A f \in (Links \ {h}) \cap Hooks : next'[f] \in Links \ {h}
    BY <1>1, <1>2, <1>3
  <2>3. h \notin Links \ {h}
    OBVIOUS
  <2>. QED  BY <2>1, <2>2, <2>3 DEF Reach
<1>5. ASSUME NEW g \in Reach(next', x)  PROVE g \in Reach(next, x)
  <2>1. ASSUME NEW S \in SUBSET Links, x \in S, \A f \in S \cap Hooks : next[f] \in S
        PROVE  g \in S
    <3>1. \A f \in S \cap Hooks : next'[f] \in S
      <4>. SUFFICES ASSUME NEW f \in S \cap Hooks PROVE next'[f] \in S
        OBVIOUS
      <4>1. CASE f = h  BY <1>3, <4>1
      <4>2. CASE f = p
        <5>1. h \in S
          BY <1>1, <2>1, <4>2
        <5>. QED  BY <1>3, <2>1, <4>2, <5>1
      <4>3. CASE f # h /\ f # p  BY <1>3, <2>1, <4>3
      <4>. QED  BY <4>1, <4>2, <4>3
    <3>. QED  BY <2>1, <3>1 DEF Reach
  <2>2. g \in Hooks
    BY DEF Reach
  <2>. QED  BY <2>1, <2>2 DEF Reach
<1>6. ASSUME NEW g \in Reach(next, x), g # h  PROVE g \in Reach(next', x)
  <2>1. ASSUME NEW S \in SUBSET Links, x \in S, \A f \in S \cap Hooks : next'[f] \in S
        PROVE  g \in S
    <3>1. CASE p \in S \cap Hooks
      <4>1. S \union {h} \in SUBSET Links /\ x \in S \union {h} /\ next[h] \in S
        BY <1>1, <1>3, <2>1, <3>1
      <4>2. \A f \in (S \union {h}) \cap Hooks : next[f] \in S \union {h}
        BY <1>1, <1>3, <2>1, <4>1
      <4>3. g \in S \union {h}
        BY <4>1, <4>2 DEF Reach
      <4>. QED  BY <1>6, <4>3
    <3>2. CASE p \notin S \cap Hooks
      <4>1. S \ {h} \in SUBSET Links /\ x \in S \ {h}
        BY <2>1
      <4>2. \A f \in (S \ {h}) \cap Hooks : next[f] \in S \ {h}
        BY <1>3, <2>1, <3>2
      <4>. QED  BY <4>1, <4>2 DEF Reach
    <3>. QED  BY <3>1, <3>2
  <2>2. g \in Hooks
    BY DEF Reach
  <2>. QED  BY <2>1, <2>2 DEF Reach
<1>. QED  BY <1>4, <1>5, <1>6

-----------------------------------------------------------------------------
(* The cursor of LIST_FOREACH: the successor it saved before the listener  *)
(* is called is the successor still when the loop looks at the next hook.  *)

SuccessorSaved == pc = "visit" /\ iter \in Hooks => iterNext = next[iter]

BusInv == Inv /\ ListInv /\ SuccessorSaved

LEMMA SuccessorSavedNext ==
  ASSUME Inv, ListInv, SuccessorSaved, [Next]_vars  PROVE SuccessorSaved'
<1>1. CASE UNCHANGED vars
  BY <1>1 DEF vars, SuccessorSaved
<1>2. CASE Dispatch
  <2>1. CASE PopBroadcast
    BY <2>1 DEF PopBroadcast, SuccessorSaved, objects
  <2>2. CASE Skip \/ BroadcastReturn
    BY <2>2 DEF Skip, BroadcastReturn, Advance, SuccessorSaved, objects
  <2>3. CASE Misread
    BY <2>3 DEF Misread, SuccessorSaved, objects, dispatch
  <2>4. CASE pc' # "visit"
    BY <2>4 DEF SuccessorSaved
  <2>. QED
    BY <1>2, <2>1, <2>2, <2>3, <2>4 DEF Dispatch, DispatchBegin, PopUnicast,
       PopUnicastReleased, Visit, UnicastReturn, LoopEnd, RunAfter, Finish, DispatchEnd
<1>3. CASE Client
  <2>1. pc # "visit" /\ pc' = pc
    BY <1>3 DEF Client, EmitterCreate, EmitterRelease, Broadcast, AddHook, HookRelease,
                Unicast, ClientRuns, dispatch
  <2>. QED  BY <2>1 DEF SuccessorSaved
<1>. QED  BY <1>1, <1>2, <1>3 DEF Next

LEMMA BusInvHolds == Spec => []BusInv
<1>1. Init => SuccessorSaved
  BY DEF Init, SuccessorSaved
<1>2. Inv /\ ListInv /\ SuccessorSaved /\ [Next]_vars => SuccessorSaved'
  BY SuccessorSavedNext
<1>3. BusInv <=> Inv /\ ListInv /\ SuccessorSaved
  BY DEF BusInv
<1>4. Spec => []SuccessorSaved
  BY <1>1, <1>2, InvHolds, ListInvHolds, PTL DEF Spec
<1>. QED  BY <1>3, <1>4, InvHolds, ListInvHolds, PTL

-----------------------------------------------------------------------------
(* The events that are not retired.                                        *)

First == IF InFlight THEN popped ELSE popped + 1

\* Whom an event is still for, and the event as the bus sees it.
Whom    == [n \in Int |-> IF n = popped THEN Remaining ELSE Addressees(n)]
Entries == [n \in Int |-> [src |-> event[n].emitter, to |-> Whom[n]]]

LEMMA Numbers ==
  ASSUME Inv
  PROVE  /\ seq \in Nat /\ popped \in Nat /\ First \in Nat
         /\ popped <= seq /\ 1 <= First /\ First <= seq + 1
         /\ InFlight => First = popped /\ First <= seq
         /\ ~InFlight => First = popped + 1
         /\ \A n \in First..seq : n \in Events /\ n \in Outstanding
                                  /\ event[n].emitter \in Emitters
<1>1. /\ seq \in Nat /\ popped \in Nat /\ popped <= seq /\ seq <= MaxSeq /\ MaxSeq \in Nat
      /\ InFlight => popped \in 1..MaxSeq
  BY ConstantsAssumption DEF Inv, TypeOK, QueueOwns, Events
<1>2. /\ First \in Nat /\ 1 <= First /\ First <= seq + 1
      /\ InFlight => First = popped /\ First <= seq
      /\ ~InFlight => First = popped + 1
  BY <1>1 DEF First
<1>3. ASSUME NEW n \in First..seq  PROVE n \in Events /\ n \in Outstanding
  BY <1>1, <1>2 DEF Events, Outstanding
<1>4. \A n \in First..seq : event[n].emitter \in Emitters
  BY <1>3 DEF Inv, QueueOwns
<1>. QED  BY <1>1, <1>2, <1>3, <1>4

LEMMA PendingIs ==
  ASSUME First \in Nat, First' \in Nat
  PROVE  /\ Pending  = [i \in 1..(seq - First + 1) |-> Entries[First + i - 1]]
         /\ Pending' = [i \in 1..(seq' - First' + 1) |-> Entries'[First' + i - 1]]
<1>1. Pending = [i \in 1..(seq - First + 1) |-> Entries[First + i - 1]]
  <2>1. Pending = [i \in 1..(seq - First + 1) |->
                     [src |-> event[First + i - 1].emitter,
                      to |-> IF First + i - 1 = popped THEN Remaining
                             ELSE Addressees(First + i - 1)]]
    BY DEF Pending, First
  <2>2. ASSUME NEW i \in 1..(seq - First + 1)
        PROVE  Entries[First + i - 1] =
                 [src |-> event[First + i - 1].emitter,
                  to |-> IF First + i - 1 = popped THEN Remaining
                         ELSE Addressees(First + i - 1)]
    BY DEF Entries, Whom
  <2>. QED  BY <2>1, <2>2
<1>2. Pending' = [i \in 1..(seq' - First' + 1) |-> Entries'[First' + i - 1]]
  <2>1. Pending' = [i \in 1..(seq' - First' + 1) |->
                     [src |-> event'[First' + i - 1].emitter,
                      to |-> IF First' + i - 1 = popped' THEN Remaining'
                             ELSE Addressees(First + i - 1)']]
    BY DEF Pending, First
  <2>2. ASSUME NEW i \in 1..(seq' - First' + 1)
        PROVE  Entries'[First' + i - 1] =
                 [src |-> event'[First' + i - 1].emitter,
                  to |-> IF First' + i - 1 = popped' THEN Remaining'
                         ELSE Addressees(First + i - 1)']
    BY DEF Entries, Whom
  <2>. QED  BY <2>1, <2>2
<1>. QED  BY <1>1, <1>2

\* Steps that change neither which events wait nor whom they are for.
LEMMA PendingSame ==
  ASSUME Inv, First' = First, seq' = seq,
         \A n \in First..seq : Entries'[n] = Entries[n]
  PROVE  Pending' = Pending
<1>1. seq \in Nat /\ First \in Nat /\ First' \in Nat
  BY Numbers
<1>2. /\ Pending = [i \in 1..(seq - First + 1) |-> Entries[First + i - 1]]
      /\ Pending' = [i \in 1..(seq - First + 1) |-> Entries'[First + i - 1]]
  BY <1>1, PendingIs
<1>3. \A i \in 1..(seq - First + 1) : First + i - 1 \in First..seq
  BY <1>1
<1>. QED  BY <1>2, <1>3

LEMMA EntriesAre ==
  /\ \A n \in Int : Entries[n] = [src |-> event[n].emitter, to |-> Whom[n]]
  /\ \A n \in Int : Entries'[n] = [src |-> event'[n].emitter, to |-> Whom'[n]]
BY DEF Entries

LEMMA SameEntry ==
  \A n \in Int : event'[n].emitter = event[n].emitter /\ Whom'[n] = Whom[n] =>
    Entries'[n] = Entries[n]
BY EntriesAre, Zenon

LEMMA EntryWithout ==
  ASSUME NEW s, NEW T, NEW h
  PROVE  [[src |-> s, to |-> T] EXCEPT !.to = @ \ {h}] = [src |-> s, to |-> T \ {h}]
OBVIOUS

\* The oldest event has one listener less to reach.
LEMMA PendingDeliver ==
  ASSUME Inv, First' = First, seq' = seq, First <= seq, NEW h,
         event'[First].emitter = event[First].emitter,
         Whom'[First] = Whom[First] \ {h},
         \A n \in (First + 1)..seq : Entries'[n] = Entries[n]
  PROVE  /\ Pending # <<>> /\ Pending[1].to = Whom[First]
         /\ Pending' = [Pending EXCEPT ![1].to = @ \ {h}]
<1>1. seq \in Nat /\ First \in Nat /\ First' \in Nat /\ First \in Int
  BY Numbers
<1>. DEFINE len == seq - First + 1
            T == Whom[First] \ {h}
            old == [src |-> event[First].emitter, to |-> Whom[First]]
            new == [src |-> event[First].emitter, to |-> T]
<1>2. /\ Pending = [i \in 1..len |-> Entries[First + i - 1]]
      /\ Pending' = [i \in 1..len |-> Entries'[First + i - 1]]
  BY <1>1, PendingIs
<1>3. len \in Nat /\ 1 \in 1..len /\ First + 1 - 1 = First
  BY <1>1
<1>4. \A i \in 1..len : i # 1 => First + i - 1 \in (First + 1)..seq
  BY <1>1
<1>5. Entries[First] = old
  BY <1>1, EntriesAre, ZenonT(30)
<1>6. Entries'[First] = new
  BY <1>1, EntriesAre, ZenonT(30)
<1>7. old.to = Whom[First] /\ [old EXCEPT !.to = @ \ {h}] = new
  <2>1. [old EXCEPT !.to = @ \ {h}] = new
    BY EntryWithout, Zenon
  <2>. QED  BY <2>1
<1>. HIDE DEF len, T, old, new
<1>8. Pending[1] = old /\ Pending'[1] = new
  BY <1>2, <1>3, <1>5, <1>6
<1>9. \A i \in 1..len : i # 1 => Pending'[i] = Pending[i]
  BY <1>2, <1>4
<1>10. Pending # <<>>
  <2>1. Len(Pending) = len /\ len # 0
    BY <1>2, <1>3
  <2>. QED  BY <2>1
<1>11. [Pending EXCEPT ![1].to = @ \ {h}] =
         [i \in 1..len |-> IF i = 1 THEN [Pending[1] EXCEPT !.to = @ \ {h}] ELSE Pending[i]]
  BY <1>2
<1>12. [Pending EXCEPT ![1].to = @ \ {h}] =
         [i \in 1..len |-> IF i = 1 THEN new ELSE Pending[i]]
  BY <1>7, <1>8, <1>11
<1>13. Pending' = [i \in 1..len |-> IF i = 1 THEN new ELSE Pending[i]]
  <2>1. Pending' = [i \in 1..len |-> Pending'[i]]
    BY <1>2
  <2>. QED  BY <1>8, <1>9, <2>1
<1>. QED  BY <1>7, <1>8, <1>10, <1>12, <1>13

\* One hook fewer, whatever event is to reach it.
LEMMA PendingUnlisten ==
  ASSUME Inv, First' = First, seq' = seq, NEW h,
         \A n \in First..seq : /\ event'[n].emitter = event[n].emitter
                               /\ Whom'[n] = Whom[n] \ {h}
  PROVE  Pending' = [i \in DOMAIN Pending |-> [Pending[i] EXCEPT !.to = @ \ {h}]]
<1>1. seq \in Nat /\ First \in Nat /\ First' \in Nat
  BY Numbers
<1>. DEFINE len == seq - First + 1
<1>2. /\ Pending = [i \in 1..len |-> Entries[First + i - 1]]
      /\ Pending' = [i \in 1..len |-> Entries'[First + i - 1]]
  BY <1>1, PendingIs
<1>3. \A i \in 1..len : First + i - 1 \in First..seq
  BY <1>1
<1>4. ASSUME NEW n \in First..seq
      PROVE  Entries'[n] = [Entries[n] EXCEPT !.to = @ \ {h}]
  <2>0. n \in Int
    BY <1>1
  <2>. DEFINE T == Whom[n] \ {h}
              old == [src |-> event[n].emitter, to |-> Whom[n]]
  <2>1. Entries[n] = old
    BY <2>0, EntriesAre, Zenon
  <2>2. Entries'[n] = [src |-> event[n].emitter, to |-> T]
    BY <2>0, EntriesAre, Zenon
  <2>3. [old EXCEPT !.to = @ \ {h}] = [src |-> event[n].emitter, to |-> T]
    BY EntryWithout, Zenon
  <2>. QED  BY <2>1, <2>2, <2>3, Zenon
<1>5. DOMAIN Pending = 1..len
  BY <1>2
<1>. HIDE DEF len
<1>6. ASSUME NEW i \in 1..len
      PROVE  Pending'[i] = [Pending[i] EXCEPT !.to = @ \ {h}]
  <2>. DEFINE n == First + i - 1
  <2>1. Pending[i] = Entries[n] /\ Pending'[i] = Entries'[n] /\ n \in First..seq
    BY <1>2, <1>3
  <2>. HIDE DEF n
  <2>. QED  BY <1>4, <2>1, Zenon
<1>7. Pending' = [i \in 1..len |-> Pending'[i]]
  BY <1>2
<1>. QED  BY <1>5, <1>6, <1>7, Zenon

\* A new event is the youngest.
LEMMA PendingAppend ==
  ASSUME Inv, First' = First, seq' = seq + 1, NEW e, NEW T,
         \A n \in First..seq : Entries'[n] = Entries[n],
         event'[seq + 1].emitter = e, Whom'[seq + 1] = T
  PROVE  Pending' = Append(Pending, [src |-> e, to |-> T])
<1>1. seq \in Nat /\ First \in Nat /\ First' \in Nat
  BY Numbers
<1>. DEFINE len == seq - First + 1
<1>2. seq' - First' + 1 = len + 1 /\ len \in Nat /\ First + (len + 1) - 1 = seq + 1
  BY <1>1, Numbers
<1>3. \A i \in 1..len : First + i - 1 \in First..seq
  BY <1>1
<1>4. /\ Pending = [i \in 1..len |-> Entries[First + i - 1]]
      /\ Pending' = [i \in 1..(seq' - First' + 1) |-> Entries'[First' + i - 1]]
  BY <1>1, PendingIs
<1>5. Pending' = [i \in 1..(len + 1) |-> Entries'[First + i - 1]]
  BY <1>2, <1>4
<1>. HIDE DEF len
<1>6. Pending'[len + 1] = [src |-> e, to |-> T]
  <2>1. Pending'[len + 1] = Entries'[seq + 1]
    BY <1>2, <1>5
  <2>2. seq + 1 \in Int
    BY <1>1
  <2>3. Entries'[seq + 1] = [src |-> e, to |-> T]
    BY <2>2, EntriesAre, ZenonT(30)
  <2>. QED  BY <2>1, <2>3
<1>7. \A i \in 1..len : Pending'[i] = Pending[i]
  BY <1>2, <1>3, <1>4, <1>5
<1>8. Len(Pending) = len
  BY <1>2, <1>4
<1>. DEFINE new == [src |-> e, to |-> T]
<1>9. Pending'[len + 1] = new
  BY <1>6
<1>. HIDE DEF new
<1>10. Append(Pending, new) = [i \in 1..(len + 1) |-> IF i = len + 1 THEN new ELSE Pending[i]]
  BY <1>2, <1>4, <1>8
<1>11. Pending' = [i \in 1..(len + 1) |-> Pending'[i]]
  BY <1>5
<1>12. \A i \in 1..(len + 1) : Pending'[i] = IF i = len + 1 THEN new ELSE Pending[i]
  BY <1>2, <1>7, <1>9
<1>13. Pending' = Append(Pending, new)
  BY <1>10, <1>11, <1>12
<1>. QED  BY <1>13 DEF new

\* The oldest event is gone.
LEMMA PendingTail ==
  ASSUME Inv, First' = First + 1, seq' = seq, First <= seq,
         \A n \in (First + 1)..seq : Entries'[n] = Entries[n]
  PROVE  /\ Pending # <<>> /\ Pending[1].to = Whom[First]
         /\ Pending' = Tail(Pending)
<1>1. seq \in Nat /\ First \in Nat /\ First' \in Nat
  BY Numbers
<1>. DEFINE len == seq - First + 1
<1>2. /\ Pending = [i \in 1..len |-> Entries[First + i - 1]]
      /\ Pending' = [i \in 1..(seq' - First' + 1) |-> Entries'[First' + i - 1]]
  BY <1>1, PendingIs
<1>3. len \in Nat /\ 1 \in 1..len /\ First + 1 - 1 = First /\ seq' - First' + 1 = len - 1
  BY <1>1
<1>4. \A i \in 1..(len - 1) : /\ i + 1 \in 1..len
                              /\ First' + i - 1 = First + i
                              /\ First + (i + 1) - 1 = First + i
                              /\ First + i \in (First + 1)..seq
  BY <1>1
<1>. HIDE DEF len
<1>5. Pending[1] = [src |-> event[First].emitter, to |-> Whom[First]]
  <2>1. Pending[1] = Entries[First]
    BY <1>2, <1>3
  <2>2. Entries[First] = [src |-> event[First].emitter, to |-> Whom[First]]
    BY <1>1, EntriesAre
  <2>. QED  BY <2>1, <2>2
<1>6. Pending # <<>> /\ Len(Pending) = len
  <2>1. Len(Pending) = len /\ len # 0
    BY <1>2, <1>3
  <2>. QED  BY <2>1
<1>7. Pending' = [i \in 1..(len - 1) |-> Pending[i + 1]]
  BY <1>2, <1>3, <1>4
<1>8. Tail(Pending) = [i \in 1..(len - 1) |-> Pending[i + 1]]
  <2>1. Pending \in Seq({Entries[n] : n \in First..seq})
    <3>1. \A i \in 1..len : First + i - 1 \in First..seq
      BY <1>1 DEF len
    <3>. QED  BY <1>2, <1>3, <3>1
  <2>. DEFINE rest == Tail(Pending)
  <2>2. /\ Len(rest) = len - 1
        /\ rest \in Seq({Entries[n] : n \in First..seq})
        /\ \A i \in 1..(len - 1) : rest[i] = Pending[i + 1]
    BY <1>6, <2>1, HeadTailProperties
  <2>. HIDE DEF rest
  <2>3. rest = [i \in 1..(len - 1) |-> rest[i]]
    BY <1>3, <2>2
  <2>4. rest = [i \in 1..(len - 1) |-> Pending[i + 1]]
    BY <2>2, <2>3
  <2>. QED  BY <2>4 DEF rest
<1>. QED  BY <1>5, <1>6, <1>7, <1>8

-----------------------------------------------------------------------------
(* Whom an event is still for.                                             *)

\* The listeners a broadcast with number n still calls, from x on.
Meets(nxt, hk, x, n) ==
  {h \in Reach(nxt, x) : hk[h].state = "live" /\ hk[h].birth_seq < n}

\* Whom the waiting event ev with number n is for.
Addressed(ev, hk, n) ==
  IF ev.hook # None
  THEN {h \in Hooks : h = ev.hook /\ hk[h].state = "live"}
  ELSE {h \in Hooks : /\ hk[h].state = "live" /\ hk[h].emitter = ev.emitter
                      /\ hk[h].birth_seq < n}

LEMMA RemainingIs ==
  /\ pc = "visit" => Remaining = Meets(next, hook, iter, popped)
  /\ pc = "callback" /\ ~IsUnicast => Remaining = Meets(next, hook, iterNext, popped)
  /\ pc = "callback" /\ IsUnicast => Remaining = {}
  /\ pc \notin {"visit", "callback"} => Remaining = {}
<1>1. \A x : From(x) = Reach(next, x)
  BY FromIsReach
<1>. QED  BY <1>1 DEF Remaining, Meets, Due

LEMMA RemainingIsNext ==
  /\ pc' = "visit" => Remaining' = Meets(next', hook', iter', popped')
  /\ pc' = "callback" /\ ~IsUnicast' => Remaining' = Meets(next', hook', iterNext', popped')
  /\ pc' = "callback" /\ IsUnicast' => Remaining' = {}
  /\ pc' \notin {"visit", "callback"} => Remaining' = {}
<1>1. From(iter)' = Reach(next', iter') /\ From(iterNext)' = Reach(next', iterNext')
  BY DEF From, Closed, Reach
<1>. QED  BY <1>1 DEF Remaining, Meets, Due

LEMMA WhomIs ==
  ASSUME Inv
  PROVE  /\ popped \in Int /\ Whom[popped] = Remaining
         /\ \A n \in Events : n # popped /\ event[n].emitter \in Emitters =>
              Whom[n] = Addressed(event[n], hook, n)
<1>1. popped \in Int
  BY Numbers
<1>2. Whom[popped] = Remaining
  BY <1>1 DEF Whom
<1>3. ASSUME NEW n \in Events, n # popped, event[n].emitter \in Emitters
      PROVE  Whom[n] = Addressed(event[n], hook, n)
  <2>1. n \in Int
    BY ConstantsAssumption DEF Events
  <2>2. Whom[n] = Addressees(n)
    BY <1>3, <2>1 DEF Whom
  <2>3. event[n].emitter \in Emitters /\ event[n].hook \in Hooks \union {None}
    BY <1>3 DEF Inv, QueueOwns, TypeOK
  <2>4. Addressees(n) = Addressed(event[n], hook, n)
    BY <2>3, ConstantsAssumption DEF Addressees, Addressed, Listening
  <2>. QED  BY <2>2, <2>4
<1>. QED  BY <1>1, <1>2, <1>3

LEMMA WhomIsNext ==
  ASSUME Inv'
  PROVE  /\ popped' \in Int /\ Whom'[popped'] = Remaining'
         /\ \A n \in Events : n # popped' /\ event'[n].emitter \in Emitters =>
              Whom'[n] = Addressed(event'[n], hook', n)
<1>1. popped' \in Int
  BY ConstantsAssumption DEF Inv, TypeOK
<1>2. Whom'[popped'] = Remaining'
  BY <1>1 DEF Whom
<1>3. ASSUME NEW n \in Events, n # popped', event'[n].emitter \in Emitters
      PROVE  Whom'[n] = Addressed(event'[n], hook', n)
  <2>1. n \in Int
    BY ConstantsAssumption DEF Events
  <2>2. Whom'[n] = Addressees(n)'
    BY <1>3, <2>1 DEF Whom
  <2>3. event'[n].emitter \in Emitters /\ event'[n].hook \in Hooks \union {None}
    BY <1>3 DEF Inv, QueueOwns, TypeOK
  <2>4. Addressees(n)' = Addressed(event'[n], hook', n)
    BY <2>3, ConstantsAssumption DEF Addressees, Addressed, Listening
  <2>. QED  BY <2>2, <2>4
<1>. QED  BY <1>1, <1>2, <1>3

\* What a step does not do to the lists it does not do to the addressees.
LEMMA SameListsSameWhom ==
  ASSUME SameLists
  PROVE  /\ Listening' = Listening
         /\ \A x, n : Meets(next', hook', x, n) = Meets(next, hook, x, n)
         /\ \A ev, n : Addressed(ev, hook', n) = Addressed(ev, hook, n)
<1>1. Listening' = Listening
  BY DEF SameLists, Listening
<1>2. ASSUME NEW x, NEW n  PROVE Meets(next', hook', x, n) = Meets(next, hook, x, n)
  <2>1. \A h \in Reach(next, x) : h \in Hooks
    BY DEF Reach
  <2>. QED  BY <2>1 DEF SameLists, Meets
<1>3. ASSUME NEW ev, NEW n  PROVE Addressed(ev, hook', n) = Addressed(ev, hook, n)
  BY DEF SameLists, Addressed
<1>. QED  BY <1>1, <1>2, <1>3

\* A step that leaves the lists and the waiting events alone, and those that the
\* event in flight is still for, is none of the bus.
LEMMA Undisturbed ==
  ASSUME Inv, Inv', SameLists, First' = First, seq' = seq,
         \A n \in First..seq : event'[n].emitter = event[n].emitter,
         \A n \in First..seq : Whom'[n] = Whom[n]
  PROVE  UNCHANGED <<Listening, Pending>>
<1>1. \A n \in First..seq : n \in Int
  BY Numbers
<1>2. \A n \in First..seq : Entries'[n] = Entries[n]
  BY <1>1, SameEntry, ZenonT(30)
<1>. QED  BY <1>2, SameListsSameWhom, PendingSame

-----------------------------------------------------------------------------
(* Steps that the bus does not see.                                        *)

LEMMA RemainingSame ==
  ASSUME SameLists, pc' = pc, popped' = popped, iter' = iter, iterNext' = iterNext,
         IsUnicast' <=> IsUnicast
  PROVE  Remaining' = Remaining
<1>1. CASE pc = "visit"
  BY <1>1, RemainingIs, RemainingIsNext, SameListsSameWhom
<1>2. CASE pc = "callback" /\ ~IsUnicast
  BY <1>2, RemainingIs, RemainingIsNext, SameListsSameWhom
<1>3. CASE pc = "callback" /\ IsUnicast
  BY <1>3, RemainingIs, RemainingIsNext
<1>4. CASE pc \notin {"visit", "callback"}
  BY <1>4, RemainingIs, RemainingIsNext
<1>. QED  BY <1>1, <1>2, <1>3, <1>4

\* An event that waits, before and after a step, is for the same hooks.
LEMMA WaitingSame ==
  ASSUME Inv, Inv', SameLists, NEW n \in Events, n # popped, n # popped',
         event'[n] = event[n], event[n].emitter \in Emitters
  PROVE  Whom'[n] = Whom[n]
<1>1. Whom[n] = Addressed(event[n], hook, n)
  BY WhomIs
<1>2. Whom'[n] = Addressed(event'[n], hook', n)
  BY WhomIsNext
<1>3. Addressed(event[n], hook', n) = Addressed(event[n], hook, n)
  BY SameListsSameWhom
<1>. QED  BY <1>1, <1>2, <1>3

LEMMA InFlightStutters ==
  ASSUME Inv, Inv', SameLists, seq' = seq, popped' = popped, InFlight' <=> InFlight,
         \A n \in Events \ {popped} : event'[n] = event[n],
         InFlight => event'[popped].emitter = event[popped].emitter,
         InFlight => Remaining' = Remaining
  PROVE  UNCHANGED <<Listening, Pending>>
<1>1. First' = First
  BY DEF First
<1>2. ASSUME NEW n \in First..seq
      PROVE  event'[n].emitter = event[n].emitter /\ Whom'[n] = Whom[n]
  <2>1. n \in Events /\ event[n].emitter \in Emitters
    BY Numbers
  <2>2. CASE n = popped
    <3>1. InFlight
      BY <2>2, Numbers
    <3>. QED  BY <2>2, <3>1, WhomIs, WhomIsNext
  <2>3. CASE n # popped
    BY <2>1, <2>3, WaitingSame
  <2>. QED  BY <2>2, <2>3
<1>. QED  BY <1>1, <1>2, Undisturbed

\* A walk along the links passes over a hook that is not due.
LEMMA MeetsStep ==
  ASSUME Inv, NEW x \in Hooks, NEW n
  PROVE  Meets(next, hook, x, n) =
           (IF hook[x].state = "live" /\ hook[x].birth_seq < n THEN {x} ELSE {})
             \union Meets(next, hook, next[x], n)
<1>1. next[x] \in Links
  BY DEF Links, Inv, TypeOK
<1>2. Reach(next, x) = {x} \union Reach(next, next[x])
  BY <1>1, ReachHook
<1>. QED  BY <1>2 DEF Meets

LEMMA StuttersInFlight ==
  ASSUME BusInv, Inv', SameLists,
         DispatchBegin \/ DispatchEnd \/ Skip \/ BroadcastReturn \/ UnicastReturn
           \/ LoopEnd \/ RunAfter \/ Misread
  PROVE  UNCHANGED <<Listening, Pending>>
<1>. USE DEF BusInv
<1>1. CASE DispatchBegin \/ DispatchEnd
  <2>1. ~InFlight /\ ~InFlight' /\ UNCHANGED <<seq, popped, event>>
    BY <1>1 DEF DispatchBegin, DispatchEnd, InFlight, queue
  <2>. QED  BY <2>1, InFlightStutters
<1>2. CASE Skip
  <2>1. /\ pc = "visit" /\ iter \in Hooks /\ ~Due(iter) /\ iterNext = next[iter]
        /\ iter' = iterNext /\ pc' = "visit" /\ UNCHANGED <<next, hook, seq, popped, event>>
    BY <1>2 DEF Skip, Advance, SuccessorSaved, objects, queue
  <2>2. Meets(next, hook, iter, popped) = Meets(next, hook, iterNext, popped)
    <3>1. PICK h \in Hooks : h = iter
      BY <2>1
    <3>2. Meets(next, hook, h, popped) = {} \union Meets(next, hook, next[h], popped)
      BY <2>1, <3>1, MeetsStep DEF Due
    <3>. QED  BY <2>1, <3>1, <3>2
  <2>3. Remaining' = Remaining
    BY <2>1, <2>2, RemainingIs, RemainingIsNext
  <2>4. InFlight' <=> InFlight
    BY <2>1 DEF InFlight
  <2>. QED  BY <2>1, <2>3, <2>4, InFlightStutters
<1>3. CASE BroadcastReturn
  <2>1. /\ pc = "callback" /\ ~IsUnicast
        /\ iter' = iterNext /\ pc' = "visit" /\ UNCHANGED <<next, hook, seq, popped, event>>
    BY <1>3 DEF BroadcastReturn, Advance, objects, queue
  <2>2. Remaining' = Remaining
    BY <2>1, RemainingIs, RemainingIsNext
  <2>3. InFlight' <=> InFlight
    BY <2>1 DEF InFlight
  <2>. QED  BY <2>1, <2>2, <2>3, InFlightStutters
<1>4. CASE UnicastReturn
  <2>1. /\ pc = "callback" /\ IsUnicast /\ pc' = "ending" /\ UNCHANGED <<seq, popped>>
        /\ event' = [event EXCEPT ![popped].hook = None]
    BY <1>4 DEF UnicastReturn, DropHook
  <2>2. \A n \in Events \ {popped} : event'[n] = event[n]
    BY <2>1 DEF Inv, TypeOK
  <2>3. InFlight /\ InFlight' /\ popped \in Events
    BY <2>1 DEF InFlight, Inv, QueueOwns
  <2>4. event'[popped].emitter = event[popped].emitter
    BY <2>1, <2>3 DEF Inv, TypeOK
  <2>5. Remaining' = Remaining
    BY <2>1, RemainingIs, RemainingIsNext
  <2>. QED  BY <2>1, <2>2, <2>3, <2>4, <2>5, InFlightStutters
<1>5. CASE LoopEnd
  <2>1. /\ pc = "visit" /\ iter \in Emitters /\ pc' = "ending"
        /\ UNCHANGED <<seq, popped, event>>
    BY <1>5 DEF LoopEnd, queue
  <2>2. Meets(next, hook, iter, popped) = {}
    BY <2>1, ReachHead DEF Meets
  <2>3. Remaining' = Remaining
    BY <2>1, <2>2, RemainingIs, RemainingIsNext
  <2>4. InFlight' <=> InFlight
    BY <2>1 DEF InFlight
  <2>. QED  BY <2>1, <2>3, <2>4, InFlightStutters
<1>6. CASE RunAfter
  <2>1. pc = "ending" /\ pc' = "after" /\ UNCHANGED <<seq, popped, event>>
    BY <1>6 DEF RunAfter, queue
  <2>2. Remaining' = Remaining
    BY <2>1, RemainingIs, RemainingIsNext
  <2>3. InFlight' <=> InFlight
    BY <2>1 DEF InFlight
  <2>. QED  BY <2>1, <2>2, <2>3, InFlightStutters
<1>7. CASE Misread
  <2>1. UNCHANGED <<pc, iter, iterNext, seq, popped, event>>
    BY <1>7 DEF Misread, queue, dispatch
  <2>2. (IsUnicast' <=> IsUnicast) /\ (InFlight' <=> InFlight)
    BY <2>1 DEF IsUnicast, Current, InFlight
  <2>3. Remaining' = Remaining
    BY <2>1, <2>2, RemainingSame
  <2>. QED  BY <2>1, <2>2, <2>3, InFlightStutters
<1>. QED  BY <1>1, <1>2, <1>3, <1>4, <1>5, <1>6, <1>7

\* What popping an event changes is only that it is in flight.
LEMMA PopNumbers ==
  ASSUME Inv, PopBroadcast \/ PopUnicast \/ PopUnicastReleased
  PROVE  /\ First' = First /\ First = popped + 1 /\ popped' = popped + 1 /\ seq' = seq
         /\ First <= seq /\ First \in Events /\ event[First].emitter \in Emitters
         /\ InFlight' /\ \A n \in (First + 1)..seq : n # popped /\ n # popped' /\ n \in Events
                                                     /\ event[n].emitter \in Emitters
<1>1. ~InFlight /\ InFlight' /\ popped' = popped + 1 /\ seq' = seq /\ popped # seq
  BY DEF PopBroadcast, PopUnicast, PopUnicastReleased, InFlight, QueueIsEmpty, queue
<1>2. First = popped + 1 /\ First' = popped + 1
  BY <1>1 DEF First
<1>3. First <= seq /\ seq \in Nat /\ popped \in Nat
  BY <1>1, <1>2, Numbers
<1>4. First \in First..seq
  BY <1>2, <1>3
<1>5. \A n \in (First + 1)..seq : n # popped /\ n # popped' /\ n \in First..seq
  BY <1>1, <1>2, <1>3
<1>. QED  BY <1>1, <1>2, <1>3, <1>4, <1>5, Numbers

\* A broadcast starts at the head of the list: every hook it is for is on the walk.
LEMMA PopBroadcastStutters ==
  ASSUME BusInv, Inv', SameLists, PopBroadcast
  PROVE  UNCHANGED <<Listening, Pending>>
<1>. USE DEF BusInv
<1>. USE ConstantsAssumption
<1>1. PICK e \in Emitters : e = event[First].emitter
  BY PopNumbers
<1>2. /\ event[First].hook = None /\ iter' = next[e] /\ pc' = "visit"
      /\ UNCHANGED <<event, hook, next>>
  BY <1>1, PopNumbers DEF PopBroadcast, objects, queue
<1>3. Whom[First] = Addressed(event[First], hook, First)
  BY PopNumbers, WhomIs DEF Inv, TypeOK
<1>4. Whom'[First] = Meets(next, hook, next[e], First)
  BY <1>2, PopNumbers, WhomIsNext, RemainingIsNext
<1>5. Reach(next, next[e]) = {h \in Hooks : hook[h].state = "live" /\ hook[h].emitter = e}
  BY ReachAll DEF Listening
<1>6. Whom'[First] = Whom[First]
  BY <1>1, <1>2, <1>3, <1>4, <1>5 DEF Meets, Addressed
<1>7. ASSUME NEW n \in First..seq
      PROVE  event'[n].emitter = event[n].emitter /\ Whom'[n] = Whom[n]
  <2>1. CASE n = First
    BY <1>2, <1>6, <2>1
  <2>2. CASE n # First
    <3>1. n \in (First + 1)..seq
      BY <2>2, PopNumbers, Numbers
    <3>. QED  BY <1>2, <3>1, PopNumbers, WaitingSame
  <2>. QED  BY <2>1, <2>2
<1>. QED  BY <1>7, PopNumbers, Undisturbed

\* An event for one hook that has been released is for nobody.
LEMMA PopUnicastReleasedStutters ==
  ASSUME BusInv, Inv', SameLists, PopUnicastReleased
  PROVE  UNCHANGED <<Listening, Pending>>
<1>. USE DEF BusInv
<1>. USE ConstantsAssumption
<1>1. /\ event[First].hook # None /\ hook[event[First].hook].state # "live" /\ pc' = "ending"
      /\ event' = [event EXCEPT ![First].hook = None]
  BY PopNumbers DEF PopUnicastReleased, DropHook
<1>2. Whom[First] = Addressed(event[First], hook, First)
  BY PopNumbers, WhomIs DEF Inv, TypeOK
<1>3. Whom[First] = {}
  BY <1>1, <1>2 DEF Addressed
<1>4. Whom'[First] = {}
  BY <1>1, PopNumbers, WhomIsNext, RemainingIsNext
<1>5. \A n \in Events : /\ event'[n].emitter = event[n].emitter
                        /\ n # First => event'[n] = event[n]
  BY <1>1, PopNumbers DEF Inv, TypeOK
<1>7. ASSUME NEW n \in First..seq
      PROVE  event'[n].emitter = event[n].emitter /\ Whom'[n] = Whom[n]
  <2>1. CASE n = First
    BY <1>3, <1>4, <1>5, <2>1, PopNumbers
  <2>2. CASE n # First
    <3>1. n \in (First + 1)..seq
      BY <2>2, PopNumbers, Numbers
    <3>. QED  BY <1>5, <2>2, <3>1, PopNumbers, WaitingSame
  <2>. QED  BY <2>1, <2>2
<1>. QED  BY <1>7, PopNumbers, Undisturbed

-----------------------------------------------------------------------------
(* Steps of the bus.                                                       *)

\* The listener of the one hook is called: the event is for nobody else.
LEMMA PopUnicastDelivers ==
  ASSUME BusInv, Inv', SameLists, PopUnicast
  PROVE  \E h \in Hooks : Bus!Deliver(h)
<1>. USE DEF BusInv
<1>. USE ConstantsAssumption
<1>1. /\ event[First].hook # None /\ hook[event[First].hook].state = "live"
      /\ pc' = "callback" /\ UNCHANGED <<event, hook, next>>
  BY PopNumbers DEF PopUnicast, objects, queue
<1>2. PICK h \in Hooks : h = event[First].hook
  BY <1>1, PopNumbers DEF Inv, TypeOK
<1>3. Whom[First] = {h}
  <2>1. Whom[First] = Addressed(event[First], hook, First)
    BY PopNumbers, WhomIs DEF Inv, TypeOK
  <2>. QED  BY <1>1, <1>2, <2>1 DEF Addressed
<1>4. Whom'[First] = {}
  <2>1. IsUnicast'
    BY <1>1, PopNumbers DEF IsUnicast, Current
  <2>. QED  BY <1>1, <2>1, PopNumbers, WhomIsNext, RemainingIsNext
<1>5. Whom'[First] = Whom[First] \ {h}
  BY <1>3, <1>4
<1>6. \A n \in (First + 1)..seq : Entries'[n] = Entries[n]
  <2>1. \A n \in (First + 1)..seq : n \in Int /\ Whom'[n] = Whom[n] /\ event'[n] = event[n]
    BY <1>1, PopNumbers, WaitingSame
  <2>. QED  BY <2>1, SameEntry, Zenon
<1>7. /\ Pending # <<>> /\ Pending[1].to = Whom[First]
      /\ Pending' = [Pending EXCEPT ![1].to = @ \ {h}]
  BY <1>1, <1>5, <1>6, PopNumbers, PendingDeliver
<1>8. h \in Pending[1].to
  BY <1>3, <1>7
<1>9. Listening' = Listening
  BY SameListsSameWhom
<1>10. Bus!Deliver(h)
  BY <1>7, <1>8, <1>9 DEF Bus!Deliver
<1>. QED  BY <1>10

\* The listener under the cursor is called: no walk comes back to its hook.
LEMMA VisitDelivers ==
  ASSUME BusInv, Inv', SameLists, Visit
  PROVE  \E h \in Hooks : Bus!Deliver(h)
<1>. USE DEF BusInv
<1>1. /\ pc = "visit" /\ iter \in Hooks /\ hook[iter].state = "live"
      /\ hook[iter].birth_seq < popped /\ iterNext = next[iter]
      /\ pc' = "callback" /\ UNCHANGED <<event, hook, next, seq, popped, iter, iterNext>>
  BY DEF Visit, Due, SuccessorSaved, objects, queue
<1>2. InFlight /\ InFlight' /\ ~IsUnicast /\ ~IsUnicast'
  BY <1>1 DEF InFlight, Inv, QueueOwns, IsUnicast, Current
<1>3. First = popped /\ First' = First /\ First <= seq /\ seq' = seq
  BY <1>1, <1>2, Numbers DEF First
<1>4. PICK h \in Hooks : h = iter
  BY <1>1
<1>5. Whom[First] = {h} \union Meets(next, hook, next[h], popped)
  <2>1. Whom[First] = Meets(next, hook, iter, popped)
    BY <1>1, <1>3, WhomIs, RemainingIs
  <2>. QED  BY <1>1, <1>4, <2>1, MeetsStep
<1>6. Whom'[First] = Meets(next, hook, next[h], popped)
  BY <1>1, <1>2, <1>3, <1>4, WhomIsNext, RemainingIsNext
<1>7. h \notin Meets(next, hook, next[h], popped)
  <2>1. h \notin Reach(next, next[h])
    BY <1>1, <1>4, NoReturn
  <2>. QED  BY <2>1 DEF Meets
<1>8. Whom'[First] = Whom[First] \ {h}
  BY <1>5, <1>6, <1>7
<1>9. \A n \in (First + 1)..seq : Entries'[n] = Entries[n]
  <2>1. \A n \in (First + 1)..seq : n \in Int /\ n # popped /\ n # popped' /\ n \in First..seq
    BY <1>1, <1>3, Numbers
  <2>2. \A n \in (First + 1)..seq : n \in Int /\ Whom'[n] = Whom[n] /\ event'[n] = event[n]
    BY <1>1, <2>1, Numbers, WaitingSame
  <2>. QED  BY <2>2, SameEntry, Zenon
<1>10. /\ Pending # <<>> /\ Pending[1].to = Whom[First]
       /\ Pending' = [Pending EXCEPT ![1].to = @ \ {h}]
  BY <1>1, <1>3, <1>8, <1>9, PendingDeliver
<1>11. h \in Pending[1].to
  BY <1>5, <1>10
<1>12. Listening' = Listening
  BY SameListsSameWhom
<1>13. Bus!Deliver(h)
  BY <1>10, <1>11, <1>12 DEF Bus!Deliver
<1>. QED  BY <1>13

\* An event is retired when nobody is left to be called.
LEMMA FinishRetires ==
  ASSUME BusInv, Inv', SameLists, Finish
  PROVE  Bus!Retire
<1>. USE DEF BusInv
<1>1. /\ pc \in {"ending", "after"} /\ pc' = "pop" /\ seq' = seq /\ popped' = popped
      /\ event' = [event EXCEPT ![popped] = NoEvent]
  BY DEF Finish
<1>2. InFlight /\ ~InFlight'
  BY <1>1 DEF InFlight
<1>3. First = popped /\ First' = First + 1 /\ First <= seq
  BY <1>1, <1>2, Numbers DEF First
<1>4. Whom[First] = {}
  BY <1>1, <1>3, WhomIs, RemainingIs
<1>5. \A n \in (First + 1)..seq : Entries'[n] = Entries[n]
  <2>1. \A n \in (First + 1)..seq : n \in Int /\ n # popped /\ n # popped' /\ n \in First..seq
    BY <1>1, <1>3, Numbers
  <2>2. \A n \in (First + 1)..seq : n \in Events /\ event[n].emitter \in Emitters
                                    /\ event'[n] = event[n]
    BY <1>1, <2>1, Numbers DEF Inv, TypeOK
  <2>3. \A n \in (First + 1)..seq : n \in Int /\ Whom'[n] = Whom[n] /\ event'[n] = event[n]
    BY <2>1, <2>2, WaitingSame
  <2>. QED  BY <2>3, SameEntry, Zenon
<1>6. Pending # <<>> /\ Pending[1].to = Whom[First] /\ Pending' = Tail(Pending)
  BY <1>1, <1>3, <1>5, PendingTail
<1>7. Listening' = Listening
  BY SameListsSameWhom
<1>. QED  BY <1>4, <1>6, <1>7 DEF Bus!Retire

LEMMA DispatchImplements ==
  ASSUME BusInv, Inv', Dispatch
  PROVE  Bus!Next \/ UNCHANGED <<Listening, Pending>>
<1>1. SameLists
  BY DispatchSameLists DEF BusInv
<1>2. CASE Finish
  BY <1>1, <1>2, FinishRetires DEF Bus!Next
<1>3. CASE Visit
  BY <1>1, <1>3, VisitDelivers DEF Bus!Next
<1>4. CASE PopUnicast
  BY <1>1, <1>4, PopUnicastDelivers DEF Bus!Next
<1>. QED  BY <1>1, <1>2, <1>3, <1>4, StuttersInFlight, PopBroadcastStutters,
             PopUnicastReleasedStutters DEF Dispatch

\* Between two dispatches, in a callback and in an after function, no walk is at
\* a hook: it will go on from the successor saved.
LEMMA ClientRemaining ==
  ASSUME ClientRuns, UNCHANGED <<pc, popped, iterNext>>, IsUnicast' <=> IsUnicast
  PROVE  \/ pc = "callback" /\ ~IsUnicast
            /\ Remaining = Meets(next, hook, iterNext, popped)
            /\ Remaining' = Meets(next', hook', iterNext, popped)
         \/ Remaining = {} /\ Remaining' = {}
<1>1. CASE pc = "callback" /\ ~IsUnicast
  BY <1>1, RemainingIs, RemainingIsNext
<1>2. CASE pc = "callback" /\ IsUnicast
  BY <1>2, RemainingIs, RemainingIsNext
<1>3. CASE pc \notin {"visit", "callback"}
  BY <1>3, RemainingIs, RemainingIsNext
<1>. QED  BY <1>1, <1>2, <1>3 DEF ClientRuns

\* A hook added while an event waits or is in flight is too young for it.
LEMMA AddHookListens ==
  ASSUME BusInv, Inv', NEW e \in Emitters, NEW h \in Hooks, AddHook(e, h)
  PROVE  Bus!Listen(e, h)
<1>. USE DEF BusInv
<1>. USE ConstantsAssumption
<1>1. /\ ClientRuns /\ hook[h].state = "unborn" /\ hook' = [hook EXCEPT ![h] = NewHook(e)]
      /\ UNCHANGED <<event, seq, popped, pc, iter, iterNext>>
  BY DEF AddHook, queue, dispatch
<1>2. First' = First /\ (IsUnicast' <=> IsUnicast) /\ seq' = seq
  BY <1>1 DEF First, InFlight, IsUnicast, Current
<1>3. /\ \A g \in Hooks : g # h => hook'[g] = hook[g]
      /\ hook'[h] = [state |-> "live", refcnt |-> 0, birth_seq |-> seq, emitter |-> e]
  BY <1>1 DEF NewHook, Inv, TypeOK
<1>4. \A f \in Emitters : h \notin Listening[f]
  BY <1>1 DEF Listening
<1>5. Listening' = [Listening EXCEPT ![e] = @ \union {h}]
  <2>1. \A f \in Emitters : Listening'[f] = IF f = e THEN Listening[f] \union {h}
                                                     ELSE Listening[f]
    BY <1>1, <1>3 DEF Listening
  <2>2. Listening = [f \in Emitters |-> Listening[f]]
        /\ Listening' = [f \in Emitters |-> Listening'[f]]
    BY DEF Listening
  <2>. HIDE DEF BusInv
  <2>. QED  BY <2>1, <2>2
<1>6. ASSUME NEW n \in First..seq, n = popped  PROVE Whom'[n] = Whom[n]
  <2>1. Whom[n] = Remaining /\ Whom'[n] = Remaining'
    BY <1>1, <1>6, WhomIs, WhomIsNext
  <2>2. CASE /\ pc = "callback" /\ ~IsUnicast
             /\ Remaining = Meets(next, hook, iterNext, popped)
             /\ Remaining' = Meets(next', hook', iterNext, popped)
    <3>1. iterNext \in Links /\ Linked(iterNext) /\ iterNext # h
      BY <1>1, <2>2 DEF ListInv, CursorOnList, OnList, Linked, Links
    <3>2. Reach(next', iterNext) = Reach(next, iterNext)
      BY <3>1, AddHookReach
    <3>3. \A g \in Reach(next, iterNext) : g \in Hooks /\ g # h
      BY <1>1, <3>1, ReachStaysHome
    <3>4. Meets(next', hook', iterNext, popped) = Meets(next, hook, iterNext, popped)
      BY <1>3, <3>2, <3>3 DEF Meets
    <3>. QED  BY <2>1, <2>2, <3>4
  <2>. QED  BY <1>1, <1>2, <2>1, <2>2, ClientRemaining
<1>7. ASSUME NEW n \in First..seq, n # popped  PROVE Whom'[n] = Whom[n]
  <2>1. n \in Events /\ n \in Outstanding /\ event[n].emitter \in Emitters /\ n <= seq
        /\ n \in Int /\ seq \in Int
    BY Numbers
  <2>2. Whom[n] = Addressed(event[n], hook, n) /\ Whom'[n] = Addressed(event[n], hook', n)
    BY <1>1, <1>7, <2>1, WhomIs, WhomIsNext
  <2>3. event[n].hook # None => event[n].hook # h
    BY <1>1, <2>1 DEF Inv, FreedExactly, Owned
  <2>4. ~(seq < n)
    BY <2>1
  <2>5. Addressed(event[n], hook', n) = Addressed(event[n], hook, n)
    <3>1. hook[h].state # "live" /\ hook'[h].birth_seq = seq
          /\ \A g \in Hooks : g # h => hook'[g] = hook[g]
      BY <1>1, <1>3
    <3>2. ~(hook'[h].birth_seq < n)
      BY <2>4, <3>1
    <3>3. CASE event[n].hook # None
      BY <2>3, <3>1, <3>3 DEF Addressed
    <3>4. CASE event[n].hook = None
      BY <3>1, <3>2, <3>4 DEF Addressed
    <3>. QED  BY <3>3, <3>4
  <2>. QED  BY <2>2, <2>5
<1>8. \A n \in First..seq : Entries'[n] = Entries[n]
  <2>1. \A n \in First..seq : n \in Int /\ Whom'[n] = Whom[n] /\ event'[n] = event[n]
    BY <1>1, <1>6, <1>7, Numbers
  <2>. QED  BY <2>1, SameEntry, Zenon
<1>9. Pending' = Pending
  BY <1>2, <1>8, PendingSame
<1>. QED  BY <1>4, <1>5, <1>9 DEF Bus!Listen

\* A hook that is released leaves every event that was for it, the one in flight
\* included.
LEMMA HookReleaseUnlistens ==
  ASSUME BusInv, Inv', NEW h \in Hooks, HookRelease(h)
  PROVE  Bus!Unlisten(h)
<1>. USE DEF BusInv
<1>. USE ConstantsAssumption
<1>1. /\ ClientRuns /\ hook[h].state = "live" /\ hook' = [hook EXCEPT ![h] = Release(@)]
      /\ ~(pc = "callback" /\ ~IsUnicast /\ h = iterNext)
      /\ UNCHANGED <<event, seq, popped, pc, iter, iterNext>>
  BY DEF HookRelease, queue, dispatch
<1>2. First' = First /\ (IsUnicast' <=> IsUnicast) /\ seq' = seq
  BY <1>1 DEF First, InFlight, IsUnicast, Current
<1>3. /\ \A g \in Hooks : g # h => hook'[g] = hook[g]
      /\ hook'[h].state # "live"
  BY <1>1 DEF Release, Inv, TypeOK
<1>4. \E e \in Emitters : h \in Listening[e]
  BY <1>1 DEF Listening, Inv, HooksOnLiveEmitters
<1>5. Listening' = [e \in Emitters |-> Listening[e] \ {h}]
  BY <1>1, <1>3 DEF Listening
<1>6. ASSUME NEW n \in First..seq, n = popped  PROVE Whom'[n] = Whom[n] \ {h}
  <2>1. Whom[n] = Remaining /\ Whom'[n] = Remaining'
    BY <1>1, <1>6, WhomIs, WhomIsNext
  <2>2. CASE /\ pc = "callback" /\ ~IsUnicast
             /\ Remaining = Meets(next, hook, iterNext, popped)
             /\ Remaining' = Meets(next', hook', iterNext, popped)
    <3>1. iterNext \in Links /\ iterNext # h
      BY <1>1, <2>2 DEF ListInv, CursorOnList, OnList, Linked, Links
    <3>2. Reach(next', iterNext) = Reach(next, iterNext) \ {h}
      BY <3>1, HookReleaseReach
    <3>3. \A g \in Reach(next, iterNext) : g \in Hooks
      BY DEF Reach
    <3>4. Meets(next', hook', iterNext, popped) = Meets(next, hook, iterNext, popped) \ {h}
      BY <1>3, <3>2, <3>3 DEF Meets
    <3>. QED  BY <2>1, <2>2, <3>4
  <2>. QED  BY <1>1, <1>2, <2>1, <2>2, ClientRemaining
<1>7. ASSUME NEW n \in First..seq, n # popped  PROVE Whom'[n] = Whom[n] \ {h}
  <2>1. n \in Events /\ event[n].emitter \in Emitters
    BY Numbers
  <2>2. Whom[n] = Addressed(event[n], hook, n) /\ Whom'[n] = Addressed(event[n], hook', n)
    BY <1>1, <1>7, <2>1, WhomIs, WhomIsNext
  <2>3. Addressed(event[n], hook', n) = Addressed(event[n], hook, n) \ {h}
    BY <1>1, <1>3 DEF Addressed
  <2>. QED  BY <2>2, <2>3
<1>8. Pending' = [i \in DOMAIN Pending |-> [Pending[i] EXCEPT !.to = @ \ {h}]]
  <2>1. \A n \in First..seq : event'[n].emitter = event[n].emitter /\ Whom'[n] = Whom[n] \ {h}
    BY <1>1, <1>6, <1>7
  <2>. QED  BY <1>2, <2>1, PendingUnlisten
<1>. QED  BY <1>4, <1>5, <1>8 DEF Bus!Unlisten

\* event_emit_internal queues the event behind all others, for whoever listens to
\* the emitter now, or for the one hook.
LEMMA EmitEmits ==
  ASSUME BusInv, Inv', NEW e \in Emitters, NEW h \in Hooks \union {None}, NEW after \in BOOLEAN,
         ClientRuns, Push(e, h, after), UNCHANGED <<next, prev, dispatch>>,
         h \in Hooks => hook[h].state = "live",
         \/ hook' = hook
         \/ h \in Hooks /\ hook' = [hook EXCEPT ![h] = Ref(@)]
  PROVE  Bus!Emit(e, IF h = None THEN Listening[e] ELSE {h})
<1>. USE DEF BusInv
<1>. USE ConstantsAssumption
<1>1. SameLists
  BY DEF SameLists, Ref, Inv, TypeOK
<1>2. /\ seq \in Nat /\ seq' = seq + 1 /\ seq + 1 \in Events /\ seq + 1 \notin First..seq
      /\ seq + 1 # popped
      /\ UNCHANGED <<pc, popped, iter, iterNext>>
      /\ event' = [event EXCEPT ![seq + 1] = [emitter |-> e, hook |-> h, after |-> after]]
  BY Numbers DEF Push, Events, dispatch
<1>3. /\ event'[seq + 1] = [emitter |-> e, hook |-> h, after |-> after]
      /\ \A n \in Events : n # seq + 1 => event'[n] = event[n]
  BY <1>2 DEF Inv, TypeOK
<1>4. First' = First
  BY <1>2 DEF First, InFlight
<1>5. \A n \in First..seq : n \in Events /\ n # seq + 1 /\ event[n].emitter \in Emitters
  BY <1>2, Numbers
<1>6. ASSUME NEW n \in First..seq  PROVE Whom'[n] = Whom[n]
  <2>1. CASE n = popped
    <3>1. Whom[n] = Remaining /\ Whom'[n] = Remaining'
      BY <1>2, <2>1, WhomIs, WhomIsNext
    <3>2. IsUnicast' <=> IsUnicast
      BY <1>2, <1>3, <1>5, <2>1 DEF IsUnicast, Current
    <3>. QED  BY <1>1, <1>2, <3>1, <3>2, RemainingSame
  <2>2. CASE n # popped
    BY <1>1, <1>2, <1>3, <1>5, <2>2, WaitingSame
  <2>. QED  BY <2>1, <2>2
<1>7. \A n \in First..seq : Entries'[n] = Entries[n]
  <2>1. \A n \in First..seq : n \in Int /\ Whom'[n] = Whom[n] /\ event'[n] = event[n]
    BY <1>3, <1>5, <1>6, Numbers
  <2>. QED  BY <2>1, SameEntry, Zenon
<1>8. event'[seq + 1].emitter = e /\ event'[seq + 1].hook = h
  BY <1>3
<1>9. Whom'[seq + 1] = IF h = None THEN Listening[e] ELSE {h}
  <2>1. Whom'[seq + 1] = Addressed(event'[seq + 1], hook', seq + 1)
    BY <1>2, <1>8, WhomIsNext
  <2>2. Whom'[seq + 1] = Addressed(event'[seq + 1], hook, seq + 1)
    BY <1>1, <2>1, SameListsSameWhom
  <2>3. CASE h = None
    <3>1. \A g \in Hooks : hook[g].state = "live" => hook[g].birth_seq < seq + 1
      <4>1. \A g \in Hooks : hook[g].birth_seq \in Nat
        BY DEF Inv, TypeOK
      <4>2. \A g \in Hooks : hook[g].state = "live" => hook[g].birth_seq <= seq
        BY DEF ListInv, Ages
      <4>. QED  BY <1>2, <4>1, <4>2
    <3>2. Listening[e] = {g \in Hooks : hook[g].state = "live" /\ hook[g].emitter = e}
      BY DEF Listening
    <3>. QED  BY <1>8, <2>2, <2>3, <3>1, <3>2 DEF Addressed
  <2>4. CASE h # None
    BY <1>8, <2>2, <2>4 DEF Addressed
  <2>. QED  BY <2>3, <2>4
<1>. DEFINE to == IF h = None THEN Listening[e] ELSE {h}
<1>10. Whom'[seq + 1] = to
  BY <1>9
<1>. HIDE DEF to
<1>11. Pending' = Append(Pending, [src |-> e, to |-> to])
  BY <1>2, <1>4, <1>7, <1>8, <1>10, PendingAppend
<1>12. Listening' = Listening
  BY <1>1, SameListsSameWhom
<1>. QED  BY <1>11, <1>12 DEF Bus!Emit, to

LEMMA ClientImplements ==
  ASSUME BusInv, Inv', Client
  PROVE  Bus!Next \/ UNCHANGED <<Listening, Pending>>
<1>. USE DEF BusInv
<1>. USE ConstantsAssumption
<1>1. ASSUME NEW e \in Emitters, EmitterCreate(e) \/ EmitterRelease(e)
      PROVE  UNCHANGED <<Listening, Pending>>
  <2>1. UNCHANGED <<hook, next, prev, event, seq, popped, pc, iter, iterNext>>
    BY <1>1 DEF EmitterCreate, EmitterRelease, queue, dispatch
  <2>2. SameLists /\ (IsUnicast' <=> IsUnicast) /\ (InFlight' <=> InFlight)
    BY <2>1 DEF SameLists, IsUnicast, Current, InFlight
  <2>3. Remaining' = Remaining
    BY <2>1, <2>2, RemainingSame
  <2>. QED  BY <2>1, <2>2, <2>3, InFlightStutters
<1>2. ASSUME NEW e \in Emitters, NEW after \in BOOLEAN, Broadcast(e, after)
      PROVE  Bus!Broadcast(e)
  <2>1. Bus!Emit(e, IF None = None THEN Listening[e] ELSE {None})
    BY <1>2, EmitEmits DEF Broadcast
  <2>. QED  BY <2>1 DEF Bus!Broadcast
<1>3. ASSUME NEW h \in Hooks, NEW after \in BOOLEAN, Unicast(h, after)
      PROVE  \E e \in Emitters : Bus!Unicast(e, h)
  <2>1. PICK e \in Emitters : e = hook[h].emitter
    BY <1>3 DEF Unicast, Inv, HooksOnLiveEmitters
  <2>2. Bus!Emit(e, IF h = None THEN Listening[e] ELSE {h})
    BY <1>3, <2>1, EmitEmits DEF Unicast
  <2>3. h # None /\ h \in Listening[e]
    BY <1>3, <2>1 DEF Unicast, Listening
  <2>4. Bus!Unicast(e, h)
    BY <2>2, <2>3 DEF Bus!Unicast
  <2>. QED  BY <2>4
<1>4. CASE \E e \in Emitters : EmitterCreate(e) \/ EmitterRelease(e)
  BY <1>1, <1>4
<1>5. CASE \E e \in Emitters : \E after \in BOOLEAN : Broadcast(e, after)
  BY <1>2, <1>5 DEF Bus!Next
<1>6. CASE \E e \in Emitters : \E h \in Hooks : AddHook(e, h)
  BY <1>6, AddHookListens DEF Bus!Next
<1>7. CASE \E h \in Hooks : HookRelease(h)
  BY <1>7, HookReleaseUnlistens DEF Bus!Next
<1>8. CASE \E h \in Hooks : \E after \in BOOLEAN : Unicast(h, after)
  BY <1>3, <1>8 DEF Bus!Next
<1>. QED  BY <1>4, <1>5, <1>6, <1>7, <1>8 DEF Client

LEMMA BusStepImplements == BusInv /\ Inv' /\ [Next]_vars => [Bus!Next]_<<Listening, Pending>>
<1>. SUFFICES ASSUME BusInv, Inv', [Next]_vars
              PROVE  Bus!Next \/ UNCHANGED <<Listening, Pending>>
  OBVIOUS
<1>1. CASE UNCHANGED vars
  <2>1. UNCHANGED <<hook, next, prev, event, seq, popped, pc, iter, iterNext>>
    BY <1>1 DEF vars
  <2>2. SameLists /\ (IsUnicast' <=> IsUnicast) /\ (InFlight' <=> InFlight)
    BY <2>1 DEF SameLists, IsUnicast, Current, InFlight
  <2>3. Remaining' = Remaining
    BY <2>1, <2>2, RemainingSame
  <2>. QED  BY <2>1, <2>2, <2>3, InFlightStutters DEF BusInv
<1>. QED  BY <1>1, DispatchImplements, ClientImplements DEF Next

\* events.c implements the bus: every behaviour of emitters, hooks, queue and
\* dispatcher, with callbacks adding and releasing hooks and emitting meanwhile,
\* delivers each event once to every hook that listened when it was emitted and
\* still does, and to no other, one event after the other (events.c:141-258).
THEOREM EventsImplementBus == Spec => BusSpec
<1>1. Init => Bus!Init
  <2>. SUFFICES ASSUME Init PROVE Bus!Init
    OBVIOUS
  <2>1. Listening = [e \in Emitters |-> {}]
    BY DEF Init, Listening
  <2>2. First = 1 /\ seq = 0
    BY DEF Init, First, InFlight
  <2>3. Pending = <<>>
    <3>1. seq - (IF InFlight THEN popped ELSE popped + 1) + 1 = 0
      BY <2>2 DEF First
    <3>. QED  BY <3>1 DEF Pending
  <2>. QED  BY <2>1, <2>3 DEF Bus!Init
<1>2. BusInv /\ Inv' /\ [Next]_vars => [Bus!Next]_<<Listening, Pending>>
  BY BusStepImplements
<1>3. BusSpec <=> Bus!Init /\ [][Bus!Next]_<<Listening, Pending>>
  BY DEF BusSpec, Bus!Spec, Bus!vars
<1>. QED  BY <1>1, <1>2, <1>3, BusInvHolds, InvHolds, PTL DEF Spec
=============================================================================
