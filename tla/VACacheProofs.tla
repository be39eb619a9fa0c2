---------------------------- MODULE VACacheProofs ----------------------------
(***************************************************************************)
(* Proofs about VACache, for every value of its constants: the types, that *)
(* no copy outlives the deletion podmon made, and that a cleanup goes on   *)
(* only with the attachment it found deleted.                              *)
(***************************************************************************)
EXTENDS VACache, TLAPS

\* The mutex is held by the thread that asks the API server, and the two maps
\* know the same keys.
Mutex == \A t \in Threads : lock = t <=> call[t].pc \in Locking
Index == names = NameToKey(cache)

\* Attachments are numbered as they are made; what podmon deleted is marked for
\* as long as it exists.
Numbered ==
    /\ \A k \in Keys : attached[k] <= last
    /\ \A k \in Keys : \A a \in Attachment : <<k, a>> \in deleted => a # 0 /\ a <= last
    /\ \A t \in Threads : call[t].pc # "idle" => call[t].first <= last
DeletedMarked == \A k \in Keys : <<k, attached[k]>> \in deleted => k \in marked

\* What a List answered is no more outdated than the cache may be.
ListsPurged ==
    \A t \in Threads : call[t].pc = "rebuild" =>
       \A k \in Keys : Outdated(k, call[t].list[k]) => ToBePurged(k)

\* The attachment a cleanup found is gone or marked, from the moment it knows.
Settled(t) ==
    \/ call[t].first = 0
    \/ attached[call[t].key] # call[t].first
    \/ call[t].key \in marked
Knows(t) ==
    \/ call[t].pc = "done"
    \/ call[t].pc = "rebuild" /\ call[t].list[call[t].key].id = 0
    \/ call[t].pc = "purge" /\ call[t].err # "other"
KnowsSettled == \A t \in Threads : Knows(t) => Settled(t)

\* The inductive invariant.
Inv ==
    /\ TypeOK /\ Mutex /\ Index /\ Numbered /\ DeletedMarked
    /\ PurgedAfterDelete /\ ListsPurged /\ KnowsSettled

-----------------------------------------------------------------------------
\* What a cleanup carries along from GetCachedVolumeAttachment on.
LEMMA CallFields ==
    ASSUME TypeOK, NEW t \in Threads, call[t].pc # "idle"
    PROVE  /\ call[t].key \in Keys /\ call[t].first \in Attachment
           /\ call[t].list \in [Keys -> Copy] /\ call[t].tries \in 0..1
           /\ call[t].err \in {"none", "notfound", "other"}
BY DEF TypeOK, Call, Locking

\* What Goto and End do to the table of calls.
LEMMA GotoFields ==
    ASSUME TypeOK, NEW t \in Threads, call[t].pc # "idle",
           NEW pc \in {"delete", "done"} \cup Locking, Goto(t, pc)
    PROVE  /\ call' \in [Threads -> Call]
           /\ call'[t].pc = pc /\ call'[t].key = call[t].key
           /\ call'[t].first = call[t].first /\ call'[t].list = call[t].list
           /\ call'[t].err = call[t].err
           /\ \A u \in Threads \ {t} : call'[u] = call[u]
BY DEF TypeOK, Goto, Call, Locking

\* A call that ends leaves its thread idle.
LEMMA EndFields ==
    ASSUME TypeOK, NEW t \in Threads, End(t)
    PROVE  /\ call' \in [Threads -> Call] /\ call'[t].pc = "idle"
           /\ \A u \in Threads \ {t} : call'[u] = call[u]
BY DEF TypeOK, End, Idle, Call

\* A deletion under way stays so while its thread does not move.
LEMMA StillToBePurged ==
    ASSUME NEW t \in Threads, \A u \in Threads \ {t} : call'[u] = call[u],
           NEW k \in Keys, ToBePurged(k), call[t].pc = "purge" => call[t].key # k
    PROVE  ToBePurged(k)'
BY DEF ToBePurged

\* What a thread's step leaves alone: while the API server's objects and the maps
\* stay, the others' calls keep the invariant, and so does this one's if it is
\* neither past a List nor done.
LEMMA OneMoves ==
    ASSUME Inv, NEW t \in Threads, \A u \in Threads \ {t} : call'[u] = call[u],
           call' \in [Threads -> Call], UNCHANGED <<server, cache, names>>,
           call[t].pc # "purge",
           call'[t].pc # "idle" => call'[t].first <= last,
           call'[t].pc # "rebuild",
           Knows(t)' => Settled(t)',
           lock' \in Threads \cup {Free}, Mutex'
    PROVE  Inv'
<1> USE DEF Inv, server
<1>1. TypeOK' /\ Index' /\ DeletedMarked'
  BY DEF TypeOK, Index, DeletedMarked, NameToKey
<1>2. Numbered'
  BY DEF Numbered
<1>3. \A k \in Keys : ToBePurged(k) => ToBePurged(k)'
  BY StillToBePurged
<1>4. PurgedAfterDelete'
  BY <1>3 DEF PurgedAfterDelete, Outdated
<1>5. ListsPurged'
  <2> SUFFICES ASSUME NEW u \in Threads, call'[u].pc = "rebuild", NEW k \in Keys,
                      Outdated(k, call[u].list[k])'
               PROVE  ToBePurged(k)'
    BY DEF ListsPurged
  <2>1. u # t /\ call'[u] = call[u]
    OBVIOUS
  <2> QED
    BY <1>3, <2>1 DEF ListsPurged, Outdated
<1>6. KnowsSettled'
  <2> SUFFICES ASSUME NEW u \in Threads, Knows(u)' PROVE Settled(u)'
    BY DEF KnowsSettled
  <2>1. CASE u = t
    BY <2>1
  <2>2. CASE u # t
    BY <2>2 DEF KnowsSettled, Knows, Settled
  <2> QED
    BY <2>1, <2>2
<1> QED
  BY <1>1, <1>2, <1>4, <1>5, <1>6

-----------------------------------------------------------------------------
(* Kubernetes. *)

\* Attachments that Kubernetes makes, marks or detaches disturb no cleanup.
LEMMA KubernetesKeepsInv ==
    ASSUME Inv, NEW k \in Keys, Attach(k) \/ Mark(k) \/ Detach(k)
    PROVE  Inv'
<1> USE DEF Inv, client
<1>1. UNCHANGED <<lock, cache, names, call, deleted>>
  BY DEF Attach, Mark, Detach
<1>2. attached \in [Keys -> Attachment] /\ last \in Nat /\ MaxAttach \in Nat
  BY ConstantsAssumption DEF TypeOK, Attachment
<1>3. TypeOK'
  <2>1. attached' \in [Keys -> Attachment] /\ last' \in Attachment /\ marked' \subseteq Keys
    BY <1>2 DEF TypeOK, Attach, Mark, Detach, Attachment
  <2> QED
    BY <1>1, <2>1 DEF TypeOK
<1>4. Mutex' /\ Index'
  BY <1>1 DEF Mutex, Index, NameToKey
<1>5. last <= last' /\ \A x \in Keys : attached'[x] <= last'
  BY <1>2 DEF Numbered, Attach, Mark, Detach, Attachment
<1>6. Numbered'
  <2>1. \A a \in Attachment : a <= last => a <= last'
    BY <1>2, <1>3, <1>5 DEF TypeOK, Attachment
  <2>2. \A t \in Threads : call[t].pc # "idle" => call[t].first \in Attachment
    BY CallFields
  <2> QED
    BY <1>1, <1>5, <2>1, <2>2 DEF Numbered
<1>7. DeletedMarked'
  <2> SUFFICES ASSUME NEW x \in Keys, <<x, attached'[x]>> \in deleted PROVE x \in marked'
    BY <1>1 DEF DeletedMarked
  <2>1. attached'[x] = attached[x]
    <3>1. attached'[x] # 0 /\ attached'[x] <= last
      BY <1>3 DEF Numbered, TypeOK
    <3>2. CASE Attach(k)
      BY <1>2, <3>1, <3>2 DEF Attach
    <3>3. CASE Mark(k) \/ Detach(k)
      BY <1>2, <3>1, <3>3 DEF Mark, Detach
    <3> QED
      BY <3>2, <3>3
  <2>2. x \in marked
    BY <2>1 DEF DeletedMarked
  <2>3. ~(Detach(k) /\ x = k)
    BY <1>2, <2>1 DEF Detach, Numbered, TypeOK
  <2> QED
    BY <2>2, <2>3 DEF Attach, Mark, Detach
<1>8. PurgedAfterDelete' /\ ListsPurged'
  BY <1>1 DEF PurgedAfterDelete, ListsPurged, Outdated, ToBePurged
<1>9. KnowsSettled'
  <2> SUFFICES ASSUME NEW t \in Threads, Knows(t) PROVE Settled(t)'
    BY <1>1 DEF KnowsSettled, Knows
  <2>1. call[t].pc # "idle" /\ call[t].key \in Keys /\ call[t].first \in Attachment
    BY CallFields DEF Knows
  <2>2. call[t].first <= last
    BY <2>1 DEF Numbered
  <2>3. Settled(t)
    BY DEF KnowsSettled
  <2>4. CASE Attach(k)
    BY <1>1, <1>2, <2>1, <2>2, <2>3, <2>4 DEF Attach, Settled, Attachment
  <2>5. CASE Mark(k)
    BY <1>1, <2>3, <2>5 DEF Mark, Settled
  <2>6. CASE Detach(k)
    BY <1>1, <1>2, <2>1, <2>3, <2>6 DEF Detach, Settled
  <2> QED
    BY <2>4, <2>5, <2>6
<1> QED
  BY <1>3, <1>4, <1>6, <1>7, <1>8, <1>9

-----------------------------------------------------------------------------
(* The calls of a cleanup. *)

\* A cleanup begins by knowing nothing.
LEMMA BeginKeepsInv ==
    ASSUME Inv, NEW t \in Threads, NEW k \in Keys, Begin(t, k)
    PROVE  Inv'
<1> DEFINE new == [pc |-> "lookup", key |-> k, first |-> attached[k], list |-> Empty,
                   tries |-> 0, err |-> "none"]
<1>1. new \in Call
  <2>1. Empty \in [Keys -> Copy]
    BY ConstantsAssumption DEF Empty, NoCopy, Copy, Attachment
  <2>2. attached[k] \in Attachment
    BY DEF Inv, TypeOK
  <2> QED
    BY <2>1, <2>2 DEF Call
<1>2. new.pc = "lookup" /\ new.first = attached[k]
  OBVIOUS
<1>3. call[t].pc = "idle" /\ call' = [call EXCEPT ![t] = new]
      /\ UNCHANGED <<server, lock, cache, names>>
  BY DEF Begin, Idle
<1> HIDE DEF new
<1>4. /\ call' \in [Threads -> Call] /\ call'[t] = new
      /\ \A u \in Threads \ {t} : call'[u] = call[u]
  BY <1>1, <1>3 DEF Inv, TypeOK
<1>5. Mutex'
  BY <1>2, <1>3, <1>4 DEF Inv, Mutex, Locking
<1>6. ~Knows(t)'
  BY <1>2, <1>4 DEF Knows
<1>7. attached[k] <= last
  BY DEF Inv, Numbered
<1>8. lock' \in Threads \cup {Free}
  BY <1>3 DEF Inv, TypeOK
<1> QED
  BY <1>2, <1>3, <1>4, <1>5, <1>6, <1>7, <1>8, OneMoves

\* A lookup holds the mutex from a miss on.
LEMMA LookupKeepsInv ==
    ASSUME Inv, NEW t \in Threads, Lookup(t)
    PROVE  Inv'
<1>1. /\ call[t].pc = "lookup" /\ lock = Free /\ UNCHANGED <<server, cache, names>>
      /\ TypeOK
  BY DEF Lookup, Inv
<1>2. PICK pc \in {"delete", "list"} :
         Goto(t, pc) /\ lock' = IF pc = "list" THEN t ELSE Free
  BY <1>1 DEF Lookup
<1>3. /\ call' \in [Threads -> Call] /\ call'[t].pc = pc
      /\ call'[t].first = call[t].first
      /\ \A u \in Threads \ {t} : call'[u] = call[u]
  BY <1>1, <1>2, GotoFields DEF Locking
<1>4. Mutex'
  BY <1>1, <1>2, <1>3, ConstantsAssumption DEF Inv, Mutex, Locking
<1>5. ~Knows(t)' /\ call'[t].first <= last /\ lock' \in Threads \cup {Free}
  BY <1>1, <1>2, <1>3 DEF Knows, Inv, Numbered
<1> QED
  BY <1>1, <1>3, <1>4, <1>5, OneMoves

\* The answer of a List shows every deletion podmon has made.
LEMMA ListKeepsInv ==
    ASSUME Inv, NEW t \in Threads, List(t)
    PROVE  Inv'
<1>1. /\ call[t].pc = "list" /\ UNCHANGED <<server, cache, names>> /\ TypeOK
      /\ call[t].key \in Keys /\ call[t].first <= last
  BY CallFields DEF List, Inv, Numbered
<1>2. CASE End(t) /\ lock' = Free
  <2>1. /\ call' \in [Threads -> Call] /\ call'[t].pc = "idle"
        /\ \A u \in Threads \ {t} : call'[u] = call[u]
    BY <1>1, <1>2, EndFields
  <2>2. lock = t
    BY <1>1 DEF Inv, Mutex, Locking
  <2>3. Mutex' /\ ~Knows(t)'
    BY <1>2, <2>1, <2>2, ConstantsAssumption DEF Inv, Mutex, Locking, Knows
  <2> QED
    BY <1>1, <1>2, <2>1, <2>3, OneMoves
<1>3. CASE /\ call' = [call EXCEPT ![t] = [@ EXCEPT !.pc = "rebuild",
                                                    !.list = VolumeAttachments]]
           /\ UNCHANGED lock
  <2> DEFINE L == VolumeAttachments
  <2>1. /\ L \in [Keys -> Copy]
        /\ \A k \in Keys : L[k].id = attached[k] /\ (k \in marked => L[k].marked)
        /\ call' = [call EXCEPT ![t] = [@ EXCEPT !.pc = "rebuild", !.list = L]]
    <3>1. L \in [Keys -> Copy] /\ \A k \in Keys : L[k].id = attached[k]
      BY <1>1 DEF VolumeAttachments, TypeOK, Copy
    <3>2. ASSUME NEW k \in Keys, k \in marked PROVE L[k].marked
      <4>1. L[k].marked = (k \in marked)
        BY DEF VolumeAttachments
      <4> QED
        BY <3>2, <4>1, Zenon
    <3> QED
      BY <1>3, <3>1, <3>2
  <2> HIDE DEF L
  <2>2. /\ call' \in [Threads -> Call] /\ call'[t].pc = "rebuild" /\ call'[t].list = L
        /\ call'[t].key = call[t].key /\ call'[t].first = call[t].first
        /\ \A u \in Threads \ {t} : call'[u] = call[u]
    <3> DEFINE Run == [pc : {"lookup", "delete", "purge", "done"} \cup Locking,
                       key : Keys, first : Attachment, list : [Keys -> Copy],
                       tries : 0..1, err : {"none", "notfound", "other"}]
    <3>1. call[t] \in Run /\ "rebuild" \in Locking
      BY <1>1 DEF TypeOK, Call, Locking
    <3>2. [call[t] EXCEPT !.pc = "rebuild", !.list = L] \in Run
      BY <2>1, <3>1
    <3>3. Run \subseteq Call
      BY DEF Call
    <3>4. call' \in [Threads -> Call]
      <4> HIDE DEF Run
      <4> QED
        BY <1>1, <2>1, <3>2, <3>3 DEF TypeOK
    <3> QED
      BY <1>1, <2>1, <3>1, <3>4 DEF TypeOK
  <2> USE DEF Inv, server
  <2>3. TypeOK' /\ Index' /\ DeletedMarked'
    BY <1>1, <1>3, <2>2 DEF TypeOK, Index, NameToKey, DeletedMarked
  <2>4. Mutex'
    BY <1>1, <1>3, <2>2 DEF Mutex, Locking
  <2>5. Numbered'
    BY <1>1, <2>2 DEF Numbered
  <2>6. \A k \in Keys : ToBePurged(k) => ToBePurged(k)'
    BY <1>1, <2>2, StillToBePurged
  <2>7. PurgedAfterDelete'
    BY <1>1, <2>6 DEF PurgedAfterDelete, Outdated
  <2>8. ListsPurged'
    <3> SUFFICES ASSUME NEW u \in Threads, call'[u].pc = "rebuild", NEW k \in Keys,
                        Outdated(k, call[u].list[k])'
                 PROVE  ToBePurged(k)'
      BY DEF ListsPurged
    <3>1. CASE u = t
      <4>1. ~L[k].marked /\ <<k, L[k].id>> \in deleted
        BY <1>1, <2>2, <3>1 DEF Outdated
      <4> QED
        BY <2>1, <4>1 DEF DeletedMarked
    <3>2. CASE u # t
      BY <1>1, <2>2, <2>6, <3>2 DEF ListsPurged, Outdated
    <3> QED
      BY <3>1, <3>2
  <2>9. KnowsSettled'
    <3> SUFFICES ASSUME NEW u \in Threads, Knows(u)' PROVE Settled(u)'
      BY DEF KnowsSettled
    <3>1. CASE u = t
      BY <1>1, <2>1, <2>2, <3>1 DEF Knows, Settled
    <3>2. CASE u # t
      BY <1>1, <2>2, <3>2 DEF KnowsSettled, Knows, Settled
    <3> QED
      BY <3>1, <3>2
  <2> QED
    BY <2>3, <2>4, <2>5, <2>7, <2>8, <2>9
<1> QED
  BY <1>2, <1>3 DEF List

\* The cache is made of the answer, which no deletion has been missing from.
LEMMA RebuildKeepsInv ==
    ASSUME Inv, NEW t \in Threads, Rebuild(t)
    PROVE  Inv'
<1> DEFINE L == call[t].list
           k0 == call[t].key
           to == IF L[k0].id # 0 THEN "delete" ELSE "done"
<1>1. /\ call[t].pc = "rebuild" /\ TypeOK /\ UNCHANGED server
      /\ k0 \in Keys /\ L \in [Keys -> Copy] /\ call[t].first <= last
      /\ cache' = L /\ names' = NameToKey(L) /\ lock' = Free
      /\ call' = [call EXCEPT ![t] = [@ EXCEPT !.list = Empty, !.pc = to]]
  BY CallFields DEF Rebuild, Inv, Numbered
<1>2. /\ call' \in [Threads -> Call] /\ call'[t].pc = to /\ call'[t].key = k0
      /\ call'[t].first = call[t].first
      /\ \A u \in Threads \ {t} : call'[u] = call[u]
  <2> DEFINE Run == [pc : {"lookup", "delete", "purge", "done"} \cup Locking,
                     key : Keys, first : Attachment, list : [Keys -> Copy],
                     tries : 0..1, err : {"none", "notfound", "other"}]
  <2>1. call[t] \in Run /\ to \in {"delete", "done"}
    BY <1>1 DEF TypeOK, Call, Locking
  <2>2. Empty \in [Keys -> Copy]
    BY ConstantsAssumption DEF Empty, NoCopy, Copy, Attachment
  <2> HIDE DEF to
  <2>3. [call[t] EXCEPT !.list = Empty, !.pc = to] \in Run
    BY <2>1, <2>2
  <2>4. Run \subseteq Call
    BY DEF Call
  <2>5. call' \in [Threads -> Call]
    <3> HIDE DEF Run
    <3> QED
      BY <1>1, <2>3, <2>4 DEF TypeOK
  <2> QED
    BY <1>1, <2>1, <2>5 DEF TypeOK
<1>3. to \in {"delete", "done"} /\ (to = "done" => L[k0].id = 0)
  OBVIOUS
<1> HIDE DEF to
<1>4. lock = t
  BY <1>1 DEF Inv, Mutex, Locking
<1>5. \A u \in Threads \ {t} : call[u].pc \notin Locking
  BY <1>4 DEF Inv, Mutex
<1> USE DEF Inv, server
<1>6. TypeOK' /\ Index' /\ DeletedMarked'
  BY <1>1, <1>2 DEF TypeOK, Index, NameToKey, DeletedMarked
<1>7. Mutex'
  BY <1>1, <1>2, <1>3, <1>5, ConstantsAssumption DEF Mutex, Locking
<1>8. Numbered'
  BY <1>1, <1>2 DEF Numbered
<1>9. \A k \in Keys : ToBePurged(k) => ToBePurged(k)'
  BY <1>1, <1>2, StillToBePurged
<1>10. PurgedAfterDelete'
  BY <1>1, <1>9 DEF PurgedAfterDelete, ListsPurged, Outdated
<1>11. ListsPurged'
  BY <1>2, <1>3, <1>5 DEF ListsPurged, Locking
<1>12. KnowsSettled'
  <2> SUFFICES ASSUME NEW u \in Threads, Knows(u)' PROVE Settled(u)'
    BY DEF KnowsSettled
  <2>1. CASE u = t
    <3>1. Knows(t)
      BY <1>1, <1>2, <1>3, <2>1 DEF Knows
    <3> QED
      BY <1>1, <1>2, <2>1, <3>1 DEF KnowsSettled, Settled
  <2>2. CASE u # t
    BY <1>1, <1>2, <2>2 DEF KnowsSettled, Knows, Settled
  <2> QED
    BY <2>1, <2>2
<1> QED
  BY <1>6, <1>7, <1>8, <1>10, <1>11, <1>12

\* A deletion marks the attachment and has its entry purged afterwards.
LEMMA DeleteKeepsInv ==
    ASSUME Inv, NEW t \in Threads, Delete(t)
    PROVE  Inv'
<1> DEFINE k0 == call[t].key
<1>1. /\ call[t].pc = "delete" /\ TypeOK /\ k0 \in Keys /\ call[t].first <= last
      /\ UNCHANGED <<attached, last, lock, cache, names>>
  BY CallFields DEF Delete, Inv, Numbered
<1>2. PICK err \in {"none", "notfound", "other"} :
         /\ call' = [call EXCEPT ![t] = [@ EXCEPT !.pc = "purge", !.err = err]]
         /\ \/ /\ attached[k0] # 0 /\ err # "notfound"
               /\ marked' = marked \cup {k0}
               /\ deleted' = deleted \cup {<<k0, attached[k0]>>}
            \/ /\ err = "notfound" => attached[k0] = 0
               /\ err # "none" /\ UNCHANGED <<marked, deleted>>
  BY DEF Delete
<1>3. /\ call' \in [Threads -> Call] /\ call'[t].pc = "purge" /\ call'[t].key = k0
      /\ call'[t].first = call[t].first /\ call'[t].err = err
      /\ \A u \in Threads \ {t} : call'[u] = call[u]
  <2> DEFINE Run == [pc : {"lookup", "delete", "purge", "done"} \cup Locking,
                     key : Keys, first : Attachment, list : [Keys -> Copy],
                     tries : 0..1, err : {"none", "notfound", "other"}]
  <2>1. call[t] \in Run
    BY <1>1 DEF TypeOK, Call
  <2>2. [call[t] EXCEPT !.pc = "purge", !.err = err] \in Run
    BY <2>1
  <2>3. Run \subseteq Call
    BY DEF Call
  <2>4. call' \in [Threads -> Call]
    <3> HIDE DEF Run
    <3> QED
      BY <1>1, <1>2, <2>2, <2>3 DEF TypeOK
  <2> QED
    BY <1>1, <1>2, <2>1, <2>4 DEF TypeOK
<1> USE DEF Inv
<1>4. TypeOK'
  <2>1. marked' \subseteq Keys /\ deleted' \subseteq Keys \X Attachment
    BY <1>1, <1>2 DEF TypeOK
  <2> QED
    BY <1>1, <1>3, <2>1 DEF TypeOK
<1>5. Index' /\ Mutex'
  BY <1>1, <1>3 DEF Index, NameToKey, Mutex, Locking
<1>6. Numbered' /\ DeletedMarked'
  <2>1. attached[k0] <= last
    BY <1>1 DEF Numbered
  <2>2. \A k \in Keys : \A a \in Attachment : <<k, a>> \in deleted' => a # 0 /\ a <= last
    BY <1>2, <2>1 DEF Numbered
  <2>3. Numbered'
    BY <1>1, <1>3, <2>2 DEF Numbered
  <2>4. DeletedMarked'
    BY <1>1, <1>2 DEF DeletedMarked
  <2> QED
    BY <2>3, <2>4
<1>7. ToBePurged(k0)' /\ \A k \in Keys : ToBePurged(k) => ToBePurged(k)'
  <2>1. ToBePurged(k0)'
    BY <1>3 DEF ToBePurged
  <2> QED
    BY <1>1, <1>3, <2>1, StillToBePurged
<1>8. \A k \in Keys : k = k0 => ToBePurged(k)'
  BY <1>3 DEF ToBePurged
<1>9. PurgedAfterDelete'
  <2> SUFFICES ASSUME NEW k \in Keys, Outdated(k, cache[k])' PROVE ToBePurged(k)'
    BY DEF PurgedAfterDelete
  <2>1. CASE k # k0
    <3>1. Outdated(k, cache[k])
      BY <1>1, <1>2, <2>1 DEF Outdated
    <3> QED
      BY <1>7, <3>1 DEF PurgedAfterDelete
  <2> QED
    BY <1>8, <2>1
<1>10. ListsPurged'
  <2> SUFFICES ASSUME NEW u \in Threads, call'[u].pc = "rebuild", NEW k \in Keys,
                      Outdated(k, call[u].list[k])'
               PROVE  ToBePurged(k)'
    BY DEF ListsPurged
  <2>1. u # t /\ call'[u] = call[u]
    BY <1>3
  <2>2. CASE k # k0
    <3>1. Outdated(k, call[u].list[k])
      BY <1>2, <2>1, <2>2 DEF Outdated
    <3> QED
      BY <1>7, <2>1, <3>1 DEF ListsPurged
  <2> QED
    BY <1>8, <2>2
<1>11. KnowsSettled'
  <2> SUFFICES ASSUME NEW u \in Threads, Knows(u)' PROVE Settled(u)'
    BY DEF KnowsSettled
  <2>1. CASE u = t
    BY <1>1, <1>2, <1>3, <2>1 DEF Knows, Settled
  <2>2. CASE u # t
    BY <1>1, <1>2, <1>3, <2>2 DEF KnowsSettled, Knows, Settled
  <2> QED
    BY <2>1, <2>2
<1> QED
  BY <1>4, <1>5, <1>6, <1>9, <1>10, <1>11

\* The entry is dropped, and no List is under way then that could bring it back.
LEMMA PurgeKeepsInv ==
    ASSUME Inv, NEW t \in Threads, Purge(t)
    PROVE  Inv'
<1> DEFINE k0 == call[t].key
<1>1. /\ call[t].pc = "purge" /\ lock = Free /\ TypeOK /\ UNCHANGED <<server, lock>>
      /\ k0 \in Keys /\ call[t].first <= last /\ call[t].err \in {"none", "notfound", "other"}
  BY CallFields DEF Purge, Inv, Numbered
<1>2. \A u \in Threads : call[u].pc \notin Locking
  BY <1>1, ConstantsAssumption DEF Inv, Mutex
<1>3. /\ cache' \in [Keys -> Copy] /\ names' = NameToKey(cache')
      /\ cache'[k0].id = 0 /\ \A k \in Keys \ {k0} : cache'[k] = cache[k]
  <2>1. NoCopy \in Copy /\ NoCopy.id = 0
    BY ConstantsAssumption DEF NoCopy, Copy, Attachment
  <2>2. CASE k0 \in names
    <3>1. cache' = [cache EXCEPT ![k0] = NoCopy] /\ names' = names \ {k0}
      BY <2>2 DEF Purge
    <3> QED
      BY <1>1, <2>1, <3>1 DEF Inv, Index, NameToKey, TypeOK
  <2>3. CASE k0 \notin names
    <3>1. UNCHANGED <<cache, names>>
      BY <2>3 DEF Purge
    <3> QED
      BY <1>1, <2>3, <3>1 DEF Inv, Index, NameToKey, TypeOK
  <2> QED
    BY <2>2, <2>3
<1>4. /\ call' \in [Threads -> Call] /\ call'[t].pc \in {"delete", "done", "idle"}
      /\ call'[t].pc # "idle" => /\ call'[t].key = k0 /\ call'[t].first = call[t].first
      /\ call'[t].pc = "done" => call[t].err # "other"
      /\ \A u \in Threads \ {t} : call'[u] = call[u]
  <2>1. CASE /\ call' = [call EXCEPT ![t] = [@ EXCEPT !.pc = "delete", !.tries = call[t].tries + 1]]
             /\ Retries(t)
    <3> DEFINE Run == [pc : {"lookup", "delete", "purge", "done"} \cup Locking,
                       key : Keys, first : Attachment, list : [Keys -> Copy],
                       tries : 0..1, err : {"none", "notfound", "other"}]
               new == [call[t] EXCEPT !.pc = "delete", !.tries = call[t].tries + 1]
    <3>1. call[t] \in Run /\ call[t].tries + 1 \in 0..1
      BY <1>1, <2>1 DEF TypeOK, Call, Retries
    <3>2. new \in Run
      BY <3>1
    <3>3. Run \subseteq Call
      BY DEF Call
    <3>4. call' = [call EXCEPT ![t] = new] /\ call \in [Threads -> Call]
      BY <1>1, <2>1 DEF TypeOK
    <3>5. call' \in [Threads -> Call]
      <4> HIDE DEF Run, new
      <4> QED
        BY <3>2, <3>3, <3>4
    <3> QED
      BY <1>1, <2>1, <3>1, <3>5 DEF TypeOK
  <2>2. CASE call[t].err # "other" /\ Goto(t, "done")
    BY <1>1, <2>2, GotoFields
  <2>3. CASE End(t)
    BY <1>1, <2>3, EndFields
  <2> QED
    BY <2>1, <2>2, <2>3 DEF Purge
<1> USE DEF Inv, server
<1>5. TypeOK'
  BY <1>1, <1>3, <1>4 DEF TypeOK, NameToKey
<1>6. Mutex' /\ Index'
  BY <1>1, <1>2, <1>3, <1>4, ConstantsAssumption DEF Mutex, Index, Locking
<1>7. Numbered' /\ DeletedMarked'
  BY <1>1, <1>4 DEF Numbered, DeletedMarked
<1>8. PurgedAfterDelete'
  <2> SUFFICES ASSUME NEW k \in Keys, Outdated(k, cache[k])' PROVE ToBePurged(k)'
    BY DEF PurgedAfterDelete
  <2>1. k # k0
    BY <1>1, <1>3, ConstantsAssumption DEF Outdated, Numbered, Attachment
  <2>2. Outdated(k, cache[k])
    BY <1>1, <1>3, <2>1 DEF Outdated
  <2>3. ToBePurged(k)
    BY <2>2 DEF PurgedAfterDelete
  <2> QED
    BY <1>4, <2>1, <2>3, StillToBePurged
<1>9. ListsPurged'
  BY <1>2, <1>4 DEF ListsPurged, Locking
<1>10. KnowsSettled'
  <2> SUFFICES ASSUME NEW u \in Threads, Knows(u)' PROVE Settled(u)'
    BY DEF KnowsSettled
  <2>1. CASE u = t
    <3>1. Knows(t) /\ call'[t].pc = "done"
      BY <1>1, <1>4, <2>1 DEF Knows
    <3> QED
      BY <1>1, <1>4, <2>1, <3>1 DEF KnowsSettled, Settled
  <2>2. CASE u # t
    BY <1>1, <1>4, <2>2 DEF KnowsSettled, Knows, Settled
  <2> QED
    BY <2>1, <2>2
<1> QED
  BY <1>5, <1>6, <1>7, <1>8, <1>9, <1>10

\* A cleanup that goes on leaves the client as it is.
LEMMA FinishKeepsInv ==
    ASSUME Inv, NEW t \in Threads, Finish(t)
    PROVE  Inv'
<1>1. /\ call[t].pc = "done" /\ TypeOK /\ End(t) /\ UNCHANGED <<server, lock, cache, names>>
  BY DEF Finish, Inv
<1>2. /\ call' \in [Threads -> Call] /\ call'[t].pc = "idle"
      /\ \A u \in Threads \ {t} : call'[u] = call[u]
  BY <1>1, EndFields
<1>3. Mutex' /\ ~Knows(t)' /\ lock' \in Threads \cup {Free}
  BY <1>1, <1>2 DEF Inv, TypeOK, Mutex, Locking, Knows
<1> QED
  BY <1>1, <1>2, <1>3, OneMoves

-----------------------------------------------------------------------------
\* The invariant holds at the start and is kept by every step of podmon and of
\* Kubernetes.
LEMMA CacheInvariant == Spec => []Inv
<1>1. Init => Inv
  <2> SUFFICES ASSUME Init PROVE Inv
    OBVIOUS
  <2>1. TypeOK
    BY ConstantsAssumption
    DEF Init, TypeOK, Call, Idle, Empty, NoCopy, Copy, Attachment
  <2>2. Mutex /\ ListsPurged /\ KnowsSettled
    BY ConstantsAssumption DEF Init, Mutex, Locking, Idle, ListsPurged, KnowsSettled, Knows
  <2>3. Index /\ Numbered /\ DeletedMarked /\ PurgedAfterDelete
    BY DEF Init, Index, NameToKey, Empty, NoCopy, Numbered, DeletedMarked, Idle,
           PurgedAfterDelete, Outdated
  <2> QED
    BY <2>1, <2>2, <2>3 DEF Inv
<1>2. Inv /\ [Next]_vars => Inv'
  <2> SUFFICES ASSUME Inv, [Next]_vars PROVE Inv'
    OBVIOUS
  <2>1. CASE UNCHANGED vars
    BY <2>1 DEF vars, server, client, Inv, TypeOK, Mutex, Index, NameToKey, Numbered,
       DeletedMarked, PurgedAfterDelete, ListsPurged, Outdated, ToBePurged, KnowsSettled,
       Knows, Settled
  <2>2. CASE Kubernetes
    BY <2>2, KubernetesKeepsInv DEF Kubernetes
  <2>3. ASSUME NEW t \in Threads, Step(t) PROVE Inv'
    BY <2>3, BeginKeepsInv, LookupKeepsInv, ListKeepsInv, RebuildKeepsInv, DeleteKeepsInv,
       PurgeKeepsInv, FinishKeepsInv DEF Step
  <2> QED
    BY <2>1, <2>2, <2>3 DEF Next
<1> QED
  BY <1>1, <1>2, PTL DEF Spec

\* Every variable of the client and of the API server keeps its type; no delete is
\* tried more than twice.
THEOREM CacheTypeCorrect == Spec => []TypeOK
<1>1. Inv => TypeOK
  BY DEF Inv
<1> QED
  BY <1>1, CacheInvariant, PTL

\* However many cleanups share the client, a copy of an attachment made before
\* podmon deleted it does not outlive the call of DeleteVolumeAttachment.
THEOREM NoOutdatedCopies == Spec => []PurgedAfterDelete
<1>1. Inv => PurgedAfterDelete
  BY DEF Inv
<1> QED
  BY <1>1, CacheInvariant, PTL

\* A cleanup goes on to the pod only when the attachment that existed as it asked
\* for it is gone or marked as deleted.
THEOREM AttachmentsDeleted == Spec => []AttachmentDeleted
<1>1. Inv => AttachmentDeleted
  BY DEF Inv, KnowsSettled, Knows, Settled, AttachmentDeleted
<1> QED
  BY <1>1, CacheInvariant, PTL
=============================================================================
