------------------------------- MODULE SuiteStore ------------------------------
(***************************************************************************)
(* The reference config suites of one server                               *)
(* (src/internal/suitestore/s3_suite_store.go): every deployment of maos   *)
(* writes its suite to an object of a shared bucket that bears its name,   *)
(* and a sync of this server copies the others' objects into its table.    *)
(* A sync is cut at its calls and at its uses of the fields of the store,  *)
(* which nothing locks.  The bucket tells time in coarse units.            *)
(***************************************************************************)
EXTENDS Integers, Sequences, FiniteSets

CONSTANTS
    Names,      \* the display names, in the order of the bucket's listing
    Self,       \* the name of this server
    Syncs,      \* request slots of SyncReferenceConfigSuites
    PageSize,   \* objects in one page of the listing
    MinInterval,\* minSyncInterval
    Horizon,    \* bound: the last unit of time
    MaxWrites,  \* bound: suites written
    MaxFaults   \* bound: requests that fail, restarts of the server

ASSUME NamesAssumption  == Names \in Seq(STRING) /\ Self \in {Names[i] : i \in DOMAIN Names}
ASSUME BoundsAssumption == {PageSize, MinInterval} \subseteq Nat \ {0}
                           /\ {Horizon, MaxWrites, MaxFaults} \subseteq Nat

Keys   == DOMAIN Names              \* an object per name, numbered as listed
Others == {k \in Keys : Names[k] # Self}
Never  == -MinInterval              \* the zero time.Time

VARIABLES
    now,
    writes,     \* suites written so far, which numbers their contents
    object,     \* the bucket: content and LastModified of each object
    table,      \* reference_config_suites: the content of each name, 0 for none
    lastUpdated,\* the LastModified of what was copied, per key (the Go map)
    lastSync,   \* when the last sync started
    sync,       \* the state of each sync
    faults,
    muddled     \* history: keys for which the order of things cannot be told:
                \* rewritten within one unit of time, or copied by two syncs at once

storeVars == <<lastUpdated, lastSync>>
vars == <<now, writes, object, table, storeVars, sync, faults, muddled>>

Times   == 0 .. Horizon
Listing == [key : Keys, modified : Times]
NoRead  == 0
Sync == [pc : {"idle", "mark", "page", "object", "upsert", "record"},
         todo : SUBSET Listing,     \* the rest of the page, gone through in its order
         next : Nat,                \* the first key of the next page
         content : Nat,             \* what GetObject returned
         start : [Keys -> Nat],     \* history: the bucket as this sync began
         result : {"none", "synced", "skipped", "error"}]

Idle(result) == [pc |-> "idle", todo |-> {}, next |-> 1, content |-> NoRead,
                 start |-> [k \in Keys |-> 0], result |-> result]

TypeOK ==
    /\ now \in Times /\ writes \in 0 .. MaxWrites
    /\ object \in [Keys -> [content : 0 .. writes, modified : Times]]
    /\ table \in [Keys -> 0 .. writes]
    /\ lastUpdated \in [Keys -> Times \cup {Never}] /\ lastSync \in Times \cup {Never}
    /\ sync \in [Syncs -> Sync]
    /\ faults \in 0 .. MaxFaults /\ muddled \subseteq Keys

Init ==
    /\ now = 0 /\ writes = 0 /\ faults = 0 /\ muddled = {}
    /\ object = [k \in Keys |-> [content |-> 0, modified |-> 0]]      \* absent
    /\ table = [k \in Keys |-> 0]
    /\ lastUpdated = [k \in Keys |-> Never] /\ lastSync = Never
    /\ sync = [c \in Syncs |-> Idle("none")]

Fault == faults < MaxFaults /\ faults' = faults + 1

-------------------------------------------------------------------------------
(* An operator Op_Variant states Op with one mistake in it; nothing uses it. *)

\* A page of the listing: the next objects there are, as they are now.  If there are more,
\* the next page goes on after the last one listed, with the objects there are then.
Present == {k \in Keys : object[k].content > 0}
After(n) == {k \in Present : k >= n}
PageKeys(n) == {k \in After(n) : Cardinality({j \in After(n) : j < k}) < PageSize}
PageOf(n) == {[key |-> k, modified |-> object[k].modified] : k \in PageKeys(n)}
Beyond(n) == {k \in Keys : \A j \in PageKeys(n) : j < k}
NextOf(n) == IF After(n) = PageKeys(n) THEN Len(Names) + 1
             ELSE CHOOSE k \in Beyond(n) : \A j \in Beyond(n) : k <= j

Recent(t)   == now - t < MinInterval
Current(c)  == CHOOSE l \in sync[c].todo : \A o \in sync[c].todo : l.key <= o.key
Unchanged(c) == lastUpdated[Current(c).key] = Current(c).modified

\* PutObject under the name of the writer.
WriteSuite(k) ==
    /\ writes < MaxWrites /\ writes' = writes + 1
    /\ muddled' = IF object[k].content > 0 /\ object[k].modified = now
                  THEN muddled \cup {k} ELSE muddled
    /\ object' = [object EXCEPT ![k] = [content |-> writes', modified |-> now]]
    /\ UNCHANGED <<now, table, storeVars, sync, faults>>

-------------------------------------------------------------------------------
(* SyncSuites *)

Goes(c, pc) == sync' = [sync EXCEPT ![c].pc = pc]

Begin(c) ==
    /\ sync[c].pc = "idle" /\ ~Recent(lastSync)
    /\ sync' = [sync EXCEPT ![c] = [Idle("none") EXCEPT !.pc = "mark",
                                    !.start = [k \in Keys |-> object[k].content]]]
    /\ UNCHANGED <<now, writes, object, table, storeVars, faults, muddled>>

Skip(c) ==                          \* 201 all the same
    /\ sync[c].pc = "idle" /\ Recent(lastSync)
    /\ sync' = [sync EXCEPT ![c] = Idle("skipped")]
    /\ UNCHANGED <<now, writes, object, table, storeVars, faults, muddled>>

Mark(c) ==
    /\ sync[c].pc = "mark"
    /\ lastSync' = now
    /\ Goes(c, "page")
    /\ UNCHANGED <<now, writes, object, table, lastUpdated, faults, muddled>>

NextPage(c) ==
    /\ sync[c].pc = "page"
    /\ sync' = [sync EXCEPT ![c].pc = "object", ![c].todo = PageOf(sync[c].next),
                            ![c].next = NextOf(sync[c].next)]
    /\ UNCHANGED <<now, writes, object, table, storeVars, faults, muddled>>

PageEnds(c) ==
    /\ sync[c].pc = "object" /\ sync[c].todo = {}
    /\ IF sync[c].next <= Len(Names)
       THEN Goes(c, "page")
       ELSE sync' = [sync EXCEPT ![c] = [Idle("synced") EXCEPT !.start = sync[c].start]]
    /\ UNCHANGED <<now, writes, object, table, storeVars, faults, muddled>>

SkipUnchanged(c) ==
    /\ sync[c].pc = "object" /\ sync[c].todo # {} /\ Unchanged(c)
    /\ sync' = [sync EXCEPT ![c].todo = @ \ {Current(c)}]
    /\ UNCHANGED <<now, writes, object, table, storeVars, faults, muddled>>

\* Another sync is between its listing and its last use of the same key.
Working(k) == {c \in Syncs : \E l \in sync[c].todo : l.key = k}

\* readSingleSuite: what the object holds now, not what was listed.
ReadSuite(c) ==
    /\ sync[c].pc = "object" /\ sync[c].todo # {} /\ ~Unchanged(c)
    /\ LET k == Current(c).key IN
           /\ sync' = IF Names[k] = Self
                      THEN [sync EXCEPT ![c].todo = @ \ {Current(c)}]   \* skip self
                      ELSE [sync EXCEPT ![c].pc = "upsert", ![c].content = object[k].content]
           /\ muddled' = IF Working(k) = {c} THEN muddled ELSE muddled \cup {k}
    /\ UNCHANGED <<now, writes, object, table, storeVars, faults>>

Upsert(c) ==                        \* ReferenceConfigSuiteUpsert
    /\ sync[c].pc = "upsert"
    /\ table' = [table EXCEPT ![Current(c).key] = sync[c].content]
    /\ Goes(c, "record")
    /\ UNCHANGED <<now, writes, object, storeVars, faults, muddled>>

\* What is remembered is the time of the listing.
Remembered_Now(c) == object[Current(c).key].modified
Remembered(c)     == Current(c).modified

Record(c) ==
    /\ sync[c].pc = "record"
    /\ lastUpdated' = [lastUpdated EXCEPT ![Current(c).key] = Remembered(c)]
    /\ sync' = [sync EXCEPT ![c].pc = "object", ![c].content = NoRead,
                            ![c].todo = @ \ {Current(c)}]
    /\ UNCHANGED <<now, writes, object, table, lastSync, faults, muddled>>

\* A listing, a read or an upsert fails, or the request is cancelled: 500, and
\* what follows in the bucket is not looked at.
AfterError_Synced(c) == [Idle("synced") EXCEPT !.start = sync[c].start]
AfterError(c)        == Idle("error")

SyncFails(c) ==
    /\ sync[c].pc \in {"page", "object", "upsert"} /\ Fault
    /\ sync' = [sync EXCEPT ![c] = AfterError(c)]
    /\ UNCHANGED <<now, writes, object, table, storeVars, muddled>>

-------------------------------------------------------------------------------
Restart ==
    /\ Fault
    /\ lastUpdated' = [k \in Keys |-> Never] /\ lastSync' = Never
    /\ sync' = [c \in Syncs |-> Idle("none")]
    /\ UNCHANGED <<now, writes, object, table, muddled>>

Tick ==
    /\ now < Horizon /\ now' = now + 1
    /\ UNCHANGED <<writes, object, table, storeVars, sync, faults, muddled>>

Next ==
    \/ \E k \in Keys : WriteSuite(k)
    \/ \E c \in Syncs :
           \/ Begin(c) \/ Skip(c) \/ Mark(c) \/ NextPage(c) \/ PageEnds(c)
           \/ SkipUnchanged(c) \/ ReadSuite(c) \/ Upsert(c) \/ Record(c) \/ SyncFails(c)
    \/ Restart \/ Tick

Spec == Init /\ [][Next]_vars

-------------------------------------------------------------------------------
(* Properties *)

\* What the next sync will take for unchanged is what the table holds, although
\* an object may be rewritten between its listing and its reading, and calls
\* may fail: unless two syncs copied it at once, or it was written twice in one
\* unit of the bucket's time (lastUpdated, and its use in SyncSuites).
UnchangedIsCopied ==
    \A k \in Others \ muddled :
        object[k].content > 0 /\ lastUpdated[k] = object[k].modified
            => table[k] = object[k].content

\* A sync that was not skipped and reports success has copied, whatever the
\* syncs before it did, at least what the bucket held when it began, and nothing
\* of the server itself (the answer of SyncReferenceConfigSuites).
SyncedIsCopied ==
    \A c \in Syncs : sync[c].result = "synced" =>
        /\ \A k \in Others \ muddled : table[k] >= sync[c].start[k]
        /\ \A k \in Keys \ Others : table[k] = 0
===============================================================================
