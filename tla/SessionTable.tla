---------------------------- MODULE SessionTable ----------------------------
(***************************************************************************)
(* One bucket of the session hash table of ios_session_manager.m: a list   *)
(* of entries behind a readers-writer lock, and sessions that are counted  *)
(* by references and freed by the last release after ios_session_delete.   *)
(*                                                                         *)
(* ref_count and is_destroying are atomics that readers of the bucket      *)
(* change under the shared lock and ios_session_release without any lock;  *)
(* every such access is a step of its own.  A critical section under the   *)
(* write lock is one step.  A session is named by a number that is not     *)
(* used again when the memory is freed; a call that touches a freed        *)
(* session is undefined from then on and takes no further step.            *)
(*                                                                         *)
(* Two history variables, which no step reads, remember what callers did   *)
(* to each other around ios_session_delete: overtaken and raced.           *)
(***************************************************************************)
EXTENDS Integers, Sequences, FiniteSets, SequencesExt

CONSTANTS
    Threads,      \* each holds at most one reference at a time
    Ids,          \* session ids that hash to this bucket
    MaxSessions,  \* bound: sessions allocated
    MaxOps        \* bound: calls all threads start between them

ASSUME SessionTableAssumption ==
    /\ MaxSessions \in Nat \ {0}
    /\ MaxOps \in Nat
    /\ "none" \notin Threads /\ "none" \notin Ids

VARIABLES
    bucket,         \* the list of sessions, head first
    session,        \* per number: [id, ref_count, is_destroying, freed]
    total_sessions, total_refs,
    readers,        \* threads that hold the bucket lock for reading
    pc,
    call,           \* per thread: the session id of the call it is in
    entry,          \* per thread: the session its call looks at, 0 for none
    ref,            \* per thread: the session of the reference it holds, or 0
    prev_count,     \* per thread: what its release met in ref_count
    ops,
    overtaken,      \* history: see Overtakes
    raced           \* history: see Overtakes, MarksInUse and ReleasesInDelete

vars == <<bucket, session, total_sessions, total_refs, readers, pc, call, entry,
          ref, prev_count, ops, overtaken, raced>>
history == <<overtaken, raced>>

Sessions == 1 .. MaxSessions
Blank == [id |-> "none", ref_count |-> 0, is_destroying |-> FALSE, freed |-> FALSE]

\* A session as session_table_insert_locked makes it, with the reference its creator takes
\* before it unlocks.
NewSession(id) == [id |-> id, ref_count |-> 1, is_destroying |-> FALSE, freed |-> FALSE]

Goto(t, label) == pc' = [pc EXCEPT ![t] = label]

Init ==
    /\ bucket = <<>>
    /\ session = [s \in Sessions |-> Blank]
    /\ total_sessions = 0 /\ total_refs = 0
    /\ readers = {}
    /\ pc = [t \in Threads |-> "idle"]
    /\ call = [t \in Threads |-> "none"]
    /\ entry = [t \in Threads |-> 0]
    /\ ref = [t \in Threads |-> 0]
    /\ prev_count = [t \in Threads |-> 0]
    /\ ops = 0
    /\ overtaken = FALSE /\ raced = FALSE

\* session_table_lookup_locked: the first entry of the list with the id.
Found(id) == \E i \in DOMAIN bucket : session[bucket[i]].id = id
First(id) == CHOOSE i \in DOMAIN bucket :
               /\ session[bucket[i]].id = id
               /\ \A j \in 1 .. i - 1 : session[bucket[j]].id # id
Lookup(id) == bucket[First(id)]
Usable(id) == Found(id) /\ ~session[Lookup(id)].is_destroying

\* The i-th entry is unlinked, its session cleaned up and freed.
Free(i) ==
    /\ bucket' = RemoveAt(bucket, i)
    /\ session' = [session EXCEPT ![bucket[i]].freed = TRUE]
    /\ total_sessions' = total_sessions - 1

\* What the history variables remember.  A session is created while a delete that has
\* found the older one of its id unreferenced goes from the read lock to the write lock.
Overtakes(t) == \E u \in Threads : pc[u] = "del_wr" /\ call[u] = call[t]

\* A delete marks s while another call is between two of its steps on s: it found s open
\* and has not counted its reference yet, it took the last reference and has not looked at
\* is_destroying yet, or it is about to free s.
UsesMark(u, s) ==
    /\ entry[u] = s
    /\ \/ pc[u] \in {"get_ref", "rel_wr", "del_refs", "del_wr"}
       \/ pc[u] = "rel_total" /\ prev_count[u] = 1
MarksInUse(t, s) == \E u \in Threads \ {t} : UsesMark(u, s)

\* The last reference to s is released between the mark of a delete and its look at
\* ref_count.
ReleasesInDelete(s) ==
    session[s].ref_count = 1 /\ \E u \in Threads : pc[u] = "del_refs" /\ entry[u] = s

Begin(t, id, label) ==
    /\ pc[t] = "idle" /\ ops < MaxOps
    /\ ops' = ops + 1
    /\ call' = [call EXCEPT ![t] = id]
    /\ Goto(t, label)
    /\ UNCHANGED <<bucket, session, total_sessions, total_refs, readers, entry,
                   ref, prev_count, overtaken, raced>>

-----------------------------------------------------------------------------
(* ios_session_get and ios_session_get_or_create.                          *)

Get(t, id) == ref[t] = 0 /\ Begin(t, id, "get")

GetOrCreate(t, id) == ref[t] = 0 /\ Begin(t, id, "create")

\* Under the read lock: the entry is found and is not being destroyed.  The
\* lock is kept; otherwise ios_session_get returns NULL, and
\* ios_session_get_or_create goes for the write lock.
GetLookup(t) ==
    /\ pc[t] \in {"get", "create"}
    /\ \/ /\ Usable(call[t])
          /\ entry' = [entry EXCEPT ![t] = Lookup(call[t])]
          /\ readers' = readers \cup {t}
          /\ Goto(t, "get_ref")
       \/ /\ ~Usable(call[t])
          /\ Goto(t, IF pc[t] = "get" THEN "idle" ELSE "create_wr")
          /\ UNCHANGED <<entry, readers>>
    /\ UNCHANGED <<bucket, session, total_sessions, total_refs, call, ref,
                   prev_count, ops, overtaken, raced>>

GetRef(t) ==
    /\ pc[t] = "get_ref"
    /\ session' = [session EXCEPT ![entry[t]].ref_count = @ + 1]
    /\ Goto(t, "get_total")
    /\ UNCHANGED <<bucket, total_sessions, total_refs, readers, call, entry, ref,
                   prev_count, ops, overtaken, raced>>

GetUnlock(t) ==
    /\ pc[t] = "get_total"
    /\ total_refs' = total_refs + 1
    /\ readers' = readers \ {t}
    /\ ref' = [ref EXCEPT ![t] = entry[t]]
    /\ Goto(t, "idle")
    /\ UNCHANGED <<bucket, session, total_sessions, call, entry, prev_count, ops, overtaken,
                   raced>>

\* Mutant: no second lookup after the write lock is taken.
CreateLockedUnchecked(t) ==
    /\ pc[t] = "create_wr" /\ readers = {}
    /\ \E s \in Sessions :
         /\ session[s] = Blank /\ \A x \in 1 .. s - 1 : session[x] # Blank
         /\ session' = [session EXCEPT ![s] = NewSession(call[t])]
         /\ bucket' = <<s>> \o bucket
         /\ ref' = [ref EXCEPT ![t] = s]
    /\ total_sessions' = total_sessions + 1
    /\ total_refs' = total_refs + 1
    /\ Goto(t, "idle")
    /\ UNCHANGED <<readers, call, entry, prev_count, ops, overtaken, raced>>

\* Under the write lock: the second lookup, or a new session at the head of the
\* list, or NULL when there is no memory.
CreateLocked(t) ==
    /\ pc[t] = "create_wr" /\ readers = {}
    /\ \/ /\ Usable(call[t])
          /\ session' = [session EXCEPT ![Lookup(call[t])].ref_count = @ + 1]
          /\ total_refs' = total_refs + 1
          /\ ref' = [ref EXCEPT ![t] = Lookup(call[t])]
          /\ UNCHANGED <<bucket, total_sessions, overtaken, raced>>
       \/ /\ ~Usable(call[t])
          /\ \E s \in Sessions :
               /\ session[s] = Blank /\ \A x \in 1 .. s - 1 : session[x] # Blank
               /\ session' = [session EXCEPT ![s] = NewSession(call[t])]
               /\ bucket' = <<s>> \o bucket
               /\ ref' = [ref EXCEPT ![t] = s]
          /\ total_sessions' = total_sessions + 1
          /\ total_refs' = total_refs + 1
          /\ overtaken' = (overtaken \/ Overtakes(t))
          /\ raced' = (raced \/ Overtakes(t))
       \/ /\ ~Usable(call[t])
          /\ UNCHANGED <<bucket, session, total_sessions, total_refs, ref, overtaken,
                         raced>>
    /\ Goto(t, "idle")
    /\ UNCHANGED <<readers, call, entry, prev_count, ops>>

-----------------------------------------------------------------------------
(* ios_session_release.                                                    *)

Release(t) ==
    /\ pc[t] = "idle" /\ ref[t] # 0 /\ ~session[ref[t]].freed
    /\ call' = [call EXCEPT ![t] = session[ref[t]].id]
    /\ entry' = [entry EXCEPT ![t] = ref[t]]
    /\ ref' = [ref EXCEPT ![t] = 0]
    /\ prev_count' = [prev_count EXCEPT ![t] = session[ref[t]].ref_count]
    /\ session' = [session EXCEPT ![ref[t]].ref_count = @ - 1]
    /\ raced' = (raced \/ ReleasesInDelete(ref[t]))
    /\ Goto(t, "rel_total")
    /\ UNCHANGED <<bucket, total_sessions, total_refs, readers, ops, overtaken>>

\* The session of the reference was freed: the decrement writes to freed memory.
ReleaseFreed(t) ==
    /\ pc[t] = "idle" /\ ref[t] # 0 /\ session[ref[t]].freed
    /\ Goto(t, "undefined")
    /\ UNCHANGED <<bucket, session, total_sessions, total_refs, readers, call, entry, ref,
                   prev_count, ops, overtaken, raced>>

\* Mutant: total_refs is decremented only on the way to the destruction.
ReleaseCheckLate(t) ==
    /\ pc[t] = "rel_total"
    /\ \/ /\ prev_count[t] = 1 /\ session[entry[t]].is_destroying
          /\ total_refs' = total_refs - 1 /\ Goto(t, "rel_wr")
       \/ /\ ~(prev_count[t] = 1 /\ session[entry[t]].is_destroying)
          /\ Goto(t, "idle") /\ UNCHANGED total_refs
    /\ UNCHANGED <<bucket, session, total_sessions, readers, call, entry, ref,
                   prev_count, ops, overtaken, raced>>

\* Mutant: the old value is taken for the new one.
ReleaseCheckOffByOne(t) ==
    /\ pc[t] = "rel_total"
    /\ total_refs' = total_refs - 1
    /\ Goto(t, IF prev_count[t] = 0 /\ session[entry[t]].is_destroying
               THEN "rel_wr" ELSE "idle")
    /\ UNCHANGED <<bucket, session, total_sessions, readers, call, entry, ref,
                   prev_count, ops, overtaken, raced>>

\* total_refs, and then is_destroying, read only after the last reference, whoever may
\* have freed the session meanwhile.
ReleaseCheck(t) ==
    /\ pc[t] = "rel_total"
    /\ total_refs' = total_refs - 1
    /\ \/ prev_count[t] # 1 /\ Goto(t, "idle")
       \/ /\ prev_count[t] = 1 /\ ~session[entry[t]].freed
          /\ Goto(t, IF session[entry[t]].is_destroying THEN "rel_wr" ELSE "idle")
       \/ prev_count[t] = 1 /\ session[entry[t]].freed /\ Goto(t, "undefined")
    /\ UNCHANGED <<bucket, session, total_sessions, readers, call, entry, ref,
                   prev_count, ops, overtaken, raced>>

\* Under the write lock: the entry of this very session, if it is still there.
ReleaseFree(t) ==
    /\ pc[t] = "rel_wr" /\ readers = {}
    /\ \/ \E i \in DOMAIN bucket : bucket[i] = entry[t] /\ Free(i)
       \/ /\ entry[t] \notin ToSet(bucket)
          /\ UNCHANGED <<bucket, session, total_sessions>>
    /\ Goto(t, "idle")
    /\ UNCHANGED <<total_refs, readers, call, entry, ref, prev_count, ops, overtaken, raced>>

-----------------------------------------------------------------------------
(* ios_session_delete.                                                     *)

Delete(t, id) == Begin(t, id, "del")

\* Under the read lock: mark the session.
DeleteMark(t) ==
    /\ pc[t] = "del"
    /\ \/ /\ Found(call[t])
          /\ entry' = [entry EXCEPT ![t] = Lookup(call[t])]
          /\ session' = [session EXCEPT ![Lookup(call[t])].is_destroying = TRUE]
          /\ readers' = readers \cup {t}
          /\ raced' = (raced \/ MarksInUse(t, Lookup(call[t])))
          /\ Goto(t, "del_refs")
       \/ /\ ~Found(call[t])
          /\ Goto(t, "idle")
          /\ UNCHANGED <<entry, session, readers, raced>>
    /\ UNCHANGED <<bucket, total_sessions, total_refs, call, ref, prev_count, ops,
                   overtaken>>

\* Mutant: the session is deleted whether it has references or not.
DeleteRefsIgnored(t) ==
    /\ pc[t] = "del_refs"
    /\ readers' = readers \ {t}
    /\ Goto(t, "del_wr")
    /\ UNCHANGED <<bucket, session, total_sessions, total_refs, call, entry, ref,
                   prev_count, ops, overtaken, raced>>

\* has_refs is read, the read lock released.
DeleteRefs(t) ==
    /\ pc[t] = "del_refs"
    /\ readers' = readers \ {t}
    /\ Goto(t, IF session[entry[t]].ref_count > 0 THEN "idle" ELSE "del_wr")
    /\ UNCHANGED <<bucket, session, total_sessions, total_refs, call, entry, ref,
                   prev_count, ops, overtaken, raced>>

\* Under the write lock: the first entry with the id is freed, unlooked at.
DeleteFree(t) ==
    /\ pc[t] = "del_wr" /\ readers = {}
    /\ \/ Found(call[t]) /\ Free(First(call[t]))
       \/ ~Found(call[t]) /\ UNCHANGED <<bucket, session, total_sessions>>
    /\ Goto(t, "idle")
    /\ UNCHANGED <<total_refs, readers, call, entry, ref, prev_count, ops, overtaken, raced>>

-----------------------------------------------------------------------------
Call(t) ==
    \E id \in Ids : Get(t, id) \/ GetOrCreate(t, id) \/ Delete(t, id)

Work(t) ==
    \/ GetLookup(t) \/ GetRef(t) \/ GetUnlock(t) \/ CreateLocked(t)
    \/ Release(t) \/ ReleaseFreed(t) \/ ReleaseCheck(t) \/ ReleaseFree(t)
    \/ DeleteMark(t) \/ DeleteRefs(t) \/ DeleteFree(t)

Finished ==
    /\ \A t \in Threads : \/ pc[t] = "idle" /\ ref[t] = 0 /\ ops = MaxOps
                         \/ pc[t] = "undefined"
    /\ UNCHANGED vars

Next == (\E t \in Threads : Call(t) \/ Work(t)) \/ Finished

Spec == Init /\ [][Next]_vars

\* A thread in the manager keeps running, and references are released.
FairSpec == Spec /\ \A t \in Threads : WF_vars(Work(t))

-----------------------------------------------------------------------------
(* Properties.                                                             *)

Labels == {"idle", "get", "create", "get_ref", "get_total", "create_wr",
           "rel_total", "rel_wr", "del", "del_refs", "del_wr", "undefined"}

\* Every variable keeps its type.
TypeOK ==
    /\ bucket \in Seq(Sessions)
    /\ session \in [Sessions -> [id : Ids \cup {"none"}, ref_count : Nat,
                                 is_destroying : BOOLEAN, freed : BOOLEAN]]
    /\ total_sessions \in Nat /\ total_refs \in Int
    /\ readers \subseteq Threads
    /\ pc \in [Threads -> Labels]
    /\ call \in [Threads -> Ids \cup {"none"}]
    /\ entry \in [Threads -> Sessions \cup {0}]
    /\ ref \in [Threads -> Sessions \cup {0}]
    /\ prev_count \in [Threads -> Nat]
    /\ ops \in 0 .. MaxOps
    /\ overtaken \in BOOLEAN /\ raced \in BOOLEAN

\* "Mark session for deletion (will be deleted when all references released)"
\* (ios_closeSession): a session somebody has a reference to is in the table and
\* is not freed, whoever deletes it and whatever is created in its place; nor is
\* one that a call will still look at, such as the release that has given up the
\* last reference and then reads is_destroying.  It does not hold: ios_session_delete
\* frees by id what it found without references under another lock.
ReferencePinsSession ==
    /\ \A t \in Threads : ref[t] # 0 =>
         ~session[ref[t]].freed /\ ref[t] \in ToSet(bucket)
    /\ \A t \in Threads :
         \/ pc[t] \in {"get_ref", "get_total", "del_refs"}
         \/ pc[t] = "rel_total" /\ prev_count[t] = 1
         => ~session[entry[t]].freed

\* What is left of it: it takes a delete that marks the session between two steps of
\* another call on it, the last release between the mark and the look at ref_count, or a
\* successor created between the two locks of the delete.  Deletes may otherwise overlap
\* with every other call: the mark may come before or after a get has counted its
\* reference, and between the releases.  And every variable keeps its type, whatever
\* overlaps: no count is negative.
PinnedUnlessRaced == TypeOK /\ (~raced => ReferencePinsSession)

\* Two threads that miss a session at the same time do not both create it, also
\* when an older session of the same id still waits for its last release.
OneOpenSession ==
    \A i, j \in DOMAIN bucket :
      /\ session[bucket[i]].id = session[bucket[j]].id
      /\ ~session[bucket[i]].is_destroying /\ ~session[bucket[j]].is_destroying
      => i = j

\* ref_count counts the references to the session that are out, and total_refs
\* those to all sessions, give or take the calls between the two updates, also when
\* deletes overlap with other calls and free sessions that have references.
CountsAgree ==
    /\ \A s \in ToSet(bucket) :
         session[s].ref_count =
           Cardinality({t \in Threads : ref[t] = s})
           + Cardinality({t \in Threads : pc[t] = "get_total" /\ entry[t] = s})
    /\ total_refs = Cardinality({t \in Threads : ref[t] # 0})
                    + Cardinality({t \in Threads : pc[t] = "rel_total"})
    /\ total_sessions = Len(bucket)

\* "actual deletion happens when ref_count reaches 0" (ios_session_manager.h): between
\* the delete that saw references and the last release one of the two frees the session,
\* so that it does not stay in the table without a reference when no call is under way.
\* It does not hold: a delete that is overtaken by ios_session_get_or_create frees the
\* new session and leaves the marked one behind.
NoOrphan ==
    (\A t \in Threads : pc[t] = "idle") =>
      \A s \in ToSet(bucket) : session[s].is_destroying => session[s].ref_count > 0

\* Nothing else leaves an orphan: however gets, releases and deletes of the session fall
\* between the mark and the look at ref_count of one and the decrement and the look at
\* is_destroying of the other, somebody frees it.
NoOrphanUnlessOvertaken == ~overtaken => NoOrphan

=============================================================================
