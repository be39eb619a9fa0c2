------------------------------ MODULE VACache -------------------------------
(***************************************************************************)
(* The cache of VolumeAttachments of the Kubernetes client                 *)
(* (internal/k8sapi/k8sapi.go: GetCachedVolumeAttachment and               *)
(* DeleteVolumeAttachment), and the way controllerCleanupPod uses it: look *)
(* up the attachment of a volume to the node, delete it by its name, once  *)
(* more if that fails.  Controller takes each of these for one step on the *)
(* API server itself; this module shows what the cache makes of them when  *)
(* several cleanups run and Kubernetes attaches and detaches meanwhile.    *)
(*                                                                         *)
(* A key is a volume and a node (pvName/nodeName).  Kubernetes derives the *)
(* name of an attachment from these two, so that key and name determine    *)
(* each other and an attachment made anew has its predecessor's name.  A   *)
(* deleted attachment is marked and goes away when it has been detached.   *)
(***************************************************************************)
EXTENDS Naturals

CONSTANTS
    Keys,       \* pvName/nodeName
    Threads,    \* goroutines running controllerCleanupPod
    Free,       \* nobody holds the mutex
    MaxAttach,  \* bound: attachments ever made
    APIFaults   \* TRUE iff calls to the API server may fail

ASSUME ConstantsAssumption ==
    /\ Free \notin Threads
    /\ MaxAttach \in Nat
    /\ APIFaults \in BOOLEAN

VARIABLES
    \* The API server.
    attached,   \* key -> the attachment it has now (0: none)
    marked,     \* the keys whose attachment is marked as deleted
    last,       \* the last attachment made
    deleted,    \* history: <<k, a>>: podmon deleted attachment a of key k
    \* The client.
    lock,       \* Client.Lock
    cache,      \* volumeAttachmentCache
    names,      \* volumeAttachmentNameToKey: the keys whose name is in it
    call        \* thread -> what it is doing

server == <<attached, marked, last, deleted>>
client == <<lock, cache, names, call>>
vars == <<server, client>>

Attachment == 0..MaxAttach

\* A copy of an attachment, with its deletion mark (0: no attachment).
Copy == [id : Attachment, marked : BOOLEAN]
NoCopy == [id |-> 0, marked |-> FALSE]
Empty == [k \in Keys |-> NoCopy]

\* What a List answers now.
VolumeAttachments == [k \in Keys |-> [id |-> attached[k], marked |-> k \in marked]]

NameToKey(copies) == {k \in Keys : copies[k].id # 0}

Locking == {"list", "rebuild"}
Idle == [pc |-> "idle"]
Call == [pc : {"idle"}] \cup
    [pc : {"lookup", "delete", "purge", "done"} \cup Locking,
     key : Keys,
     first : Attachment,     \* history: the attachment when the call was made
     list : [Keys -> Copy],  \* what List answered
     tries : 0..1,           \* deletes that failed
     err : {"none", "notfound", "other"}]

Goto(t, pc) == call' = [call EXCEPT ![t].pc = pc]
End(t) == call' = [call EXCEPT ![t] = Idle]

-----------------------------------------------------------------------------
(* Kubernetes. *)

Attach(k) ==
    /\ attached[k] = 0 /\ last < MaxAttach
    /\ last' = last + 1
    /\ attached' = [attached EXCEPT ![k] = last + 1]
    /\ UNCHANGED <<marked, deleted, client>>

\* The attach/detach controller deletes an attachment it no longer needs.
Mark(k) ==
    /\ attached[k] # 0
    /\ marked' = marked \cup {k}
    /\ UNCHANGED <<attached, last, deleted, client>>

\* The CSI attacher has detached the volume.
Detach(k) ==
    /\ k \in marked
    /\ attached' = [attached EXCEPT ![k] = 0]
    /\ marked' = marked \ {k}
    /\ UNCHANGED <<last, deleted, client>>

-----------------------------------------------------------------------------
(* A cleanup of one volume on one node. *)

Begin(t, k) ==
    /\ call[t] = Idle
    /\ call' = [call EXCEPT ![t] =
          [pc |-> "lookup", key |-> k, first |-> attached[k], list |-> Empty,
           tries |-> 0, err |-> "none"]]
    /\ UNCHANGED <<server, lock, cache, names>>

\* Mutants of Lookup: the mutex is not kept while the API server is asked; a
\* loaded cache is taken to be complete.
LookupUnlocked(t) ==
    /\ call[t].pc = "lookup" /\ lock = Free
    /\ Goto(t, IF cache[call[t].key].id # 0 THEN "delete" ELSE "list")
    /\ UNCHANGED <<server, lock, cache, names>>

LookupLoaded(t) ==
    /\ call[t].pc = "lookup" /\ lock = Free
    /\ \/ /\ cache[call[t].key].id # 0 \/ names # {}
          /\ Goto(t, IF cache[call[t].key].id # 0 THEN "delete" ELSE "done")
          /\ UNCHANGED lock
       \/ /\ names = {}
          /\ lock' = t
          /\ Goto(t, "list")
    /\ UNCHANGED <<server, cache, names>>

\* GetCachedVolumeAttachment: a hit, or the mutex is kept for the rebuild.
Lookup(t) ==
    /\ call[t].pc = "lookup" /\ lock = Free
    /\ \/ /\ cache[call[t].key].id # 0
          /\ Goto(t, "delete")
          /\ UNCHANGED lock
       \/ /\ cache[call[t].key].id = 0
          /\ lock' = t
          /\ Goto(t, "list")
    /\ UNCHANGED <<server, cache, names>>

\* GetVolumeAttachments; an error ends the cleanup.
List(t) ==
    /\ call[t].pc = "list"
    /\ \/ /\ call' = [call EXCEPT ![t] = [@ EXCEPT !.pc = "rebuild",
                                                   !.list = VolumeAttachments]]
          /\ UNCHANGED lock
       \/ /\ APIFaults
          /\ End(t)
          /\ lock' = Free
    /\ UNCHANGED <<server, cache, names>>

\* The answer has arrived: both maps are made anew, and the key is looked up.
Rebuild(t) ==
    /\ call[t].pc = "rebuild"
    /\ cache' = call[t].list
    /\ names' = NameToKey(call[t].list)
    /\ lock' = Free
    /\ call' = [call EXCEPT ![t] = [@ EXCEPT !.list = Empty,
          !.pc = IF call[t].list[call[t].key].id # 0 THEN "delete" ELSE "done"]]
    /\ UNCHANGED server

\* The API call of DeleteVolumeAttachment, made without the mutex.  One that
\* fails may have deleted the attachment all the same.
Delete(t) ==
    LET k == call[t].key
        Answer(err) == call' = [call EXCEPT ![t] = [@ EXCEPT !.pc = "purge", !.err = err]]
    IN
    /\ call[t].pc = "delete"
    /\ \/ /\ attached[k] # 0
          /\ marked' = marked \cup {k}
          /\ deleted' = deleted \cup {<<k, attached[k]>>}
          /\ Answer("none") \/ (APIFaults /\ Answer("other"))
       \/ /\ attached[k] = 0 /\ Answer("notfound")
          /\ UNCHANGED <<marked, deleted>>
       \/ /\ APIFaults /\ Answer("other")
          /\ UNCHANGED <<marked, deleted>>
    /\ UNCHANGED <<attached, last, lock, cache, names>>

\* Mutant of Retries: the delete is tried until it succeeds.
RetriesForEver(t) == call[t].err # "none"

\* The cleanup calls DeleteVolumeAttachment once more after any error.
Retries(t) == call[t].err # "none" /\ call[t].tries = 0

\* The rest of DeleteVolumeAttachment: the entry is dropped from both maps,
\* whatever the API server said.  Then the cleanup goes on, tries again or,
\* after a second error other than "not found", gives up.
Purge(t) ==
    LET k == call[t].key IN
    /\ call[t].pc = "purge" /\ lock = Free
    /\ IF k \in names
       THEN cache' = [cache EXCEPT ![k] = NoCopy] /\ names' = names \ {k}
       ELSE UNCHANGED <<cache, names>>
    /\ \/ /\ Retries(t)
          /\ call' = [call EXCEPT ![t] = [@ EXCEPT !.pc = "delete", !.tries = call[t].tries + 1]]
       \/ ~Retries(t) /\ call[t].err # "other" /\ Goto(t, "done")
       \/ ~Retries(t) /\ call[t].err = "other" /\ End(t)
    /\ UNCHANGED <<server, lock>>

\* The cleanup goes on to delete the pod.
Finish(t) ==
    /\ call[t].pc = "done"
    /\ End(t)
    /\ UNCHANGED <<server, lock, cache, names>>

-----------------------------------------------------------------------------
Init ==
    /\ attached = [k \in Keys |-> 0] /\ last = 0
    /\ marked = {} /\ deleted = {}
    /\ lock = Free
    /\ cache = Empty /\ names = {}
    /\ call = [t \in Threads |-> Idle]

Kubernetes == \E k \in Keys : Attach(k) \/ Mark(k) \/ Detach(k)

Step(t) ==
    \/ \E k \in Keys : Begin(t, k)
    \/ Lookup(t) \/ List(t) \/ Rebuild(t) \/ Delete(t) \/ Purge(t) \/ Finish(t)

Next == Kubernetes \/ \E t \in Threads : Step(t)

Spec == Init /\ [][Next]_vars

-----------------------------------------------------------------------------
(* Properties. *)

\* Every variable has its type.
TypeOK ==
    /\ attached \in [Keys -> Attachment] /\ last \in Attachment
    /\ marked \subseteq Keys /\ deleted \subseteq Keys \X Attachment
    /\ lock \in Threads \cup {Free}
    /\ cache \in [Keys -> Copy] /\ names \subseteq Keys
    /\ call \in [Threads -> Call]

\* A copy of key k that does not show the deletion podmon made since.
Outdated(k, copy) == ~copy.marked /\ <<k, copy.id>> \in deleted

\* Some DeleteVolumeAttachment has yet to drop the entry of k.
ToBePurged(k) == \E t \in Threads : call[t].pc = "purge" /\ call[t].key = k

\* A copy of an attachment made before podmon deleted it is in the cache only
\* until that call of DeleteVolumeAttachment ends: neither a List under way
\* during the delete nor a delete reported as failed leaves it there, to be
\* handed to the cleanups of the next pods on that node.
PurgedAfterDelete == \A k \in Keys : Outdated(k, cache[k]) => ToBePurged(k)

\* When a cleanup goes on to the pod, the attachment that existed when it asked
\* for it is gone or marked as deleted, whether the cache knew of it, knew an
\* older one, or knew nothing.
AttachmentDeleted ==
    \A t \in Threads : call[t].pc = "done" =>
       \/ call[t].first = 0
       \/ attached[call[t].key] # call[t].first
       \/ call[t].key \in marked
=============================================================================
