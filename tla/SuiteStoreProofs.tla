---------------------------- MODULE SuiteStoreProofs ---------------------------
(***************************************************************************)
(* Proofs about SuiteStore for every number of syncs and of names, every   *)
(* size of a page and every bound on time, writes and faults.              *)
(***************************************************************************)
EXTENDS SuiteStore, SequenceTheorems, FiniteSetTheorems, WellFoundedInduction, TLAPS

-------------------------------------------------------------------------------
(* The inductive invariant, of the state s of a sync, of an object o, of   *)
(* the time u that is remembered of it and of the table's copy t           *)

First(todo)  == CHOOSE l \in todo : \A o \in todo : l.key <= o.key
Copies(s, k) == s.pc \in {"upsert", "record"} /\ First(s.todo).key = k

\* A sync has something to do only between its listing of a page and the end of it, an object
\* is once in a page, and nothing of the server itself is copied.
SyncOk(s) ==
    /\ s.result # "none" => s.pc = "idle"
    /\ s.pc \in {"idle", "mark", "page"} => s.todo = {}
    /\ s.pc = "mark" => s.next = 1
    /\ s.pc \in {"upsert", "record"} => s.todo # {} /\ Names[First(s.todo).key] # Self
    /\ \A l, o \in s.todo : l.key = o.key => l = o
SyncInv == \A c \in Syncs : SyncOk(sync[c]) /\ sync[c].content <= writes

\* What was listed was there, and objects are only ever rewritten; the time that is
\* remembered is one at which the object had been listed.
ObjectInv ==
    /\ \A k \in Keys :
           /\ object[k].modified <= now /\ lastUpdated[k] <= object[k].modified
           /\ object[k].content = 0 => lastUpdated[k] = Never
           /\ Names[k] = Self => table[k] = 0
    /\ \A c \in Syncs :
           /\ \A l \in sync[c].todo : /\ object[l.key].content > 0
                                      /\ l.modified <= object[l.key].modified
           /\ \A k \in Keys : sync[c].start[k] <= object[k].content

\* What the next sync takes for unchanged is what the table holds, and the table is not ahead.
Fresh(o, u, t) ==
    /\ o.content > 0 /\ u = o.modified => t = o.content
    /\ t <= o.content

\* A sync that reports success has copied what there was as it began.
Synced(s, t, k) == s.result = "synced" => s.start[k] <= t

\* What a sync listed is not older than what is remembered, and is copied if it is the same.
Compared(s, u, t, k) ==
    \A l \in s.todo : l.key = k => /\ u <= l.modified
                                   /\ u = l.modified => s.start[k] <= t

\* What a sync has read is newer than the table, and current unless the object was rewritten
\* since it was listed; then the table holds it.
ReadOk(s, o, t, k) ==
    Copies(s, k) =>
        /\ s.pc = "upsert" =>
               /\ t <= s.content /\ s.content <= o.content /\ s.start[k] <= s.content
               /\ First(s.todo).modified = o.modified => s.content = o.content
        /\ s.pc = "record" =>
               /\ s.start[k] <= t
               /\ First(s.todo).modified = o.modified => t = o.content

\* What a sync has gone past is copied.
Passed(s, t, k) ==
    s.pc # "idle" /\ k < s.next /\ (\A l \in s.todo : l.key # k) => s.start[k] <= t

\* While one sync, in state r, copies an object, another, in state s, does not, and what it
\* has listed meanwhile is not older.
Apart(s, r, t, k) ==
    Copies(r, k) =>
        /\ ~Copies(s, k)
        /\ \A l \in s.todo : l.key = k =>
               /\ First(r.todo).modified <= l.modified
               /\ First(r.todo).modified = l.modified =>
                      /\ r.pc = "upsert" => s.start[k] <= r.content
                      /\ r.pc = "record" => s.start[k] <= t

Each(s, o, u, t, k) ==
    Synced(s, t, k) /\ Compared(s, u, t, k) /\ ReadOk(s, o, t, k) /\ Passed(s, t, k)

ClearInv ==
    \A k \in Others \ muddled :
        /\ Fresh(object[k], lastUpdated[k], table[k])
        /\ \A c \in Syncs : Each(sync[c], object[k], lastUpdated[k], table[k], k)
        /\ \A c, d \in Syncs : c # d => Apart(sync[c], sync[d], table[k], k)

IInv == TypeOK /\ SyncInv /\ ObjectInv /\ ClearInv

-------------------------------------------------------------------------------
(* The objects as they are listed *)

\* The keys of the bucket are numbers, and some key of those listed is the first.
LEMMA FirstKey ==
    ASSUME NEW S \in SUBSET Keys, S # {}
    PROVE  \E k \in S : \A j \in S : k <= j
<1>1. Keys \subseteq Nat
  <2>1. Keys = 1 .. Len(Names) /\ Len(Names) \in Nat
    BY NamesAssumption, LenProperties DEF Keys
  <2> QED  BY <2>1
<1> DEFINE R == {ss \in Nat \X Nat : ss[1] < ss[2]}
<1>2. IsWellFoundedOn(R, Nat)
  BY NatLessThanWellFounded DEF OpToRel
<1>3. ASSUME NEW x \in Nat, NEW y \in Nat, ~(<<y, x>> \in R) PROVE x <= y
  BY <1>3
<1> HIDE DEF R
<1>4. PICK k \in S : \A j \in S : ~(<<j, k>> \in R)
  BY <1>1, <1>2, WFMin
<1>5. ASSUME NEW j \in S PROVE k <= j
  <2>1. ~(<<j, k>> \in R)
    BY <1>4
  <2>2. j \in Nat /\ k \in Nat
    BY <1>1
  <2> QED  BY <1>3, <2>1, <2>2
<1> QED  BY <1>5

\* The listing that comes first in what is left of a page is one of them (the loop over the
\* contents of a page).
LEMMA FirstListed ==
    ASSUME NEW todo \in SUBSET Listing, todo # {}
    PROVE  First(todo) \in todo
<1> DEFINE S == {l.key : l \in todo}
<1>1. S \in SUBSET Keys /\ S # {}
  BY DEF Listing
<1> HIDE DEF S
<1>2. PICK k \in S : \A j \in S : k <= j
  BY <1>1, FirstKey
<1>3. \E l \in todo : \A o \in todo : l.key <= o.key
  BY <1>2 DEF S
<1> QED  BY <1>3 DEF First

\* A page is the beginning of what there is from a key on.
LEMMA PageBegins ==
    ASSUME TypeOK, NEW n \in Nat, NEW k \in After(n) \ PageKeys(n), NEW j \in PageKeys(n)
    PROVE  j < k
<1> DEFINE Before(i) == {h \in After(n) : h < i}
<1>1. Keys = 1 .. Len(Names) /\ Len(Names) \in Nat
  BY NamesAssumption, LenProperties DEF Keys
<1>2. After(n) \subseteq Keys /\ j \in After(n) /\ j # k
  BY DEF After, Present, PageKeys
<1>3. IsFiniteSet(Before(j)) /\ IsFiniteSet(Before(k))
  <2>1. IsFiniteSet(Keys)
    BY <1>1, FS_Interval
  <2> QED  BY <1>2, <2>1, FS_Subset
<1>4. Cardinality(Before(j)) < PageSize /\ ~(Cardinality(Before(k)) < PageSize)
  BY DEF PageKeys
<1>5. ASSUME k < j PROVE FALSE
  <2>1. Before(k) \subseteq Before(j)
    BY <1>1, <1>2, <1>5
  <2>2. Cardinality(Before(k)) <= Cardinality(Before(j))
    BY <1>3, <2>1, FS_Subset
  <2>3. Cardinality(Before(k)) \in Nat /\ Cardinality(Before(j)) \in Nat
    BY <1>3, FS_CardinalityType
  <2> QED  BY <1>4, <2>2, <2>3, BoundsAssumption
<1> QED  BY <1>1, <1>2, <1>5

\* A page holds an object as it is, each once, and goes on where it left off: what lies
\* between is in it or is not in the bucket (ListObjectsV2).
LEMMA PageLists ==
    ASSUME TypeOK, NEW n \in Nat
    PROVE  /\ PageOf(n) \subseteq Listing /\ NextOf(n) \in Nat
           /\ \A l \in PageOf(n) : /\ l.modified = object[l.key].modified
                                   /\ object[l.key].content > 0
           /\ \A k \in Keys : n <= k /\ k < NextOf(n) /\ object[k].content > 0 =>
                                  \E l \in PageOf(n) : l.key = k
<1>k. Keys \subseteq Nat /\ Len(Names) \in Nat /\ Keys = 1 .. Len(Names)
  BY NamesAssumption, LenProperties DEF Keys
<1>o. object \in [Keys -> [content : 0 .. writes, modified : Times]]
  BY DEF TypeOK
<1>1. PageKeys(n) \subseteq After(n) /\ After(n) \subseteq Present /\ Present \subseteq Keys
  BY DEF PageKeys, After, Present
<1>2. PageOf(n) \subseteq Listing
  BY <1>o, <1>1 DEF PageOf, Listing
<1>3. ASSUME NEW l \in PageOf(n)
      PROVE  l.modified = object[l.key].modified /\ object[l.key].content > 0
  BY <1>1, <1>3 DEF PageOf, Present
<1>p. ASSUME NEW k \in PageKeys(n) PROVE \E l \in PageOf(n) : l.key = k
  <2> DEFINE l == [key |-> k, modified |-> object[k].modified]
  <2>1. l \in PageOf(n) /\ l.key = k
    BY DEF PageOf
  <2> QED  BY <2>1
<1>4. CASE After(n) = PageKeys(n)
  <2>1. NextOf(n) = Len(Names) + 1
    BY <1>4 DEF NextOf
  <2>2. ASSUME NEW k \in Keys, n <= k, object[k].content > 0 PROVE \E l \in PageOf(n) : l.key = k
    <3>1. k \in PageKeys(n)
      BY <1>4, <2>2 DEF After, Present
    <3> QED  BY <1>p, <3>1
  <2> QED  BY <1>k, <1>2, <1>3, <2>1, <2>2
<1>5. CASE After(n) # PageKeys(n)
  <2> DEFINE S == Beyond(n)
  <2>1. ASSUME NEW k \in After(n) \ PageKeys(n) PROVE k \in S
    BY <1>1, <2>1, PageBegins DEF Beyond
  <2>2. S # {} /\ S \in SUBSET Keys
    BY <1>1, <1>5, <2>1 DEF Beyond
  <2>3. NextOf(n) = CHOOSE k \in S : \A j \in S : k <= j
    BY <1>5 DEF NextOf
  <2> HIDE DEF S
  <2>4. NextOf(n) \in S /\ \A j \in S : NextOf(n) <= j
    BY <2>2, <2>3, FirstKey
  <2>5. ASSUME NEW k \in Keys, n <= k, k < NextOf(n), object[k].content > 0
        PROVE  \E l \in PageOf(n) : l.key = k
    <3>1. k \in After(n)
      BY <2>5 DEF After, Present
    <3>2. NextOf(n) \in Nat /\ k \in Nat
      BY <1>k, <2>2, <2>4
    <3>3. k \notin S
      <4>1. ~(NextOf(n) <= k)
        BY <2>5, <3>2
      <4> QED  BY <2>4, <4>1
    <3>4. k \in PageKeys(n)
      BY <2>1, <3>1, <3>3
    <3> QED  BY <1>p, <3>4
  <2> QED  BY <1>k, <1>2, <1>3, <2>2, <2>4, <2>5
<1> QED  BY <1>4, <1>5

-------------------------------------------------------------------------------
(* Types *)

\* The keys are the places of the names in the listing.
LEMMA KeysAreNumbers == Keys = 1 .. Len(Names) /\ Len(Names) \in Nat /\ Keys \subseteq Nat
<1>1. Keys = 1 .. Len(Names) /\ Len(Names) \in Nat
  BY NamesAssumption, LenProperties DEF Keys
<1> QED  BY <1>1

\* The zero time is before every time of the bucket (time.Time{} in lastUpdated and lastSync).
LEMMA NeverIsBefore == Never \in Int /\ Never < 0 /\ Times \subseteq Nat
  BY BoundsAssumption DEF Never, Times

\* The fields of the state of a sync.
LEMMA SyncTypes ==
    ASSUME TypeOK, NEW c \in Syncs
    PROVE  /\ sync[c] \in Sync
           /\ sync[c].todo \in SUBSET Listing
           /\ sync[c].next \in Nat
           /\ sync[c].content \in Nat
           /\ sync[c].start \in [Keys -> Nat]
BY DEF TypeOK, Sync

\* What is known of one object: in the bucket, in the table and in the store.
LEMMA KeyTypes ==
    ASSUME TypeOK, NEW k \in Keys
    PROVE  /\ now \in Nat /\ writes \in Nat
           /\ object[k].content \in Nat /\ object[k].content <= writes
           /\ object[k].modified \in Nat
           /\ table[k] \in Nat /\ lastUpdated[k] \in Int
<1>1. now \in Nat /\ writes \in Nat
  BY NeverIsBefore, BoundsAssumption DEF TypeOK
<1>2. object[k] \in [content : 0 .. writes, modified : Times]
  BY DEF TypeOK
<1>3. object[k].content \in 0 .. writes /\ object[k].modified \in Times
  BY <1>2
<1>4. table[k] \in 0 .. writes /\ lastUpdated[k] \in Times \cup {Never}
  BY DEF TypeOK
<1>5. \A n : n \in 0 .. writes => n \in Nat /\ n <= writes
  BY <1>1
<1>6. \A t : t \in Times => t \in Nat
  BY NeverIsBefore
<1>7. lastUpdated[k] \in Int
  BY <1>4, <1>6, NeverIsBefore
<1>8. object[k].content \in Nat /\ object[k].content <= writes /\ table[k] \in Nat
  BY <1>3, <1>4, <1>5
<1> QED  BY <1>1, <1>3, <1>6, <1>7, <1>8

\* The listing a sync is at.
LEMMA CurrentIsFirst == \A c : Current(c) = First(sync[c].todo)
  BY DEF Current, First

\* What a sync is at is an object that the page listed (the loop over the contents of a page).
LEMMA CurrentListed ==
    ASSUME TypeOK, NEW c \in Syncs, sync[c].todo # {}
    PROVE  /\ First(sync[c].todo) \in sync[c].todo
           /\ First(sync[c].todo) \in Listing
           /\ First(sync[c].todo).key \in Keys
           /\ First(sync[c].todo).modified \in Times
<1>1. sync[c].todo \in SUBSET Listing
  BY SyncTypes
<1>2. First(sync[c].todo) \in sync[c].todo
  BY <1>1, FirstListed
<1> QED  BY <1>1, <1>2 DEF Listing

-------------------------------------------------------------------------------
(* What a step of a sync does to its state *)

OwnStep(c) == Begin(c) \/ Skip(c) \/ Mark(c) \/ NextPage(c) \/ PageEnds(c) \/ SkipUnchanged(c)
              \/ ReadSuite(c) \/ Upsert(c) \/ Record(c) \/ SyncFails(c)

\* A request of SyncReferenceConfigSuites has its own variables.
LEMMA OthersStay ==
    ASSUME TypeOK, NEW c \in Syncs, NEW d \in Syncs, d # c, OwnStep(c)
    PROVE  sync'[d] = sync[d]
BY DEF TypeOK, OwnStep, Begin, Skip, Mark, NextPage, PageEnds, SkipUnchanged, ReadSuite, Upsert,
       Record, SyncFails, Goes

\* A sync that begins notes what the bucket holds.
LEMMA BeginFields ==
    ASSUME TypeOK, NEW c \in Syncs, Begin(c)
    PROVE  /\ sync'[c].pc = "mark" /\ sync'[c].todo = {} /\ sync'[c].next = 1
           /\ sync'[c].content = 0 /\ sync'[c].result = "none"
           /\ sync'[c].start = [k \in Keys |-> object[k].content]
BY DEF TypeOK, Begin, Idle, NoRead

\* A sync that comes too soon does nothing and answers.
LEMMA SkipFields ==
    ASSUME TypeOK, NEW c \in Syncs, Skip(c)
    PROVE  /\ sync'[c].pc = "idle" /\ sync'[c].todo = {} /\ sync'[c].next = 1
           /\ sync'[c].content = 0 /\ sync'[c].result = "skipped"
           /\ sync'[c].start = [k \in Keys |-> 0]
BY DEF TypeOK, Skip, Idle, NoRead

\* A sync that fails leaves its loops.
LEMMA FailsFields ==
    ASSUME TypeOK, NEW c \in Syncs, SyncFails(c)
    PROVE  /\ sync'[c].pc = "idle" /\ sync'[c].todo = {} /\ sync'[c].next = 1
           /\ sync'[c].content = 0 /\ sync'[c].result = "error"
           /\ sync'[c].start = [k \in Keys |-> 0]
BY DEF TypeOK, SyncFails, AfterError, Idle, NoRead

\* The server restarts, and its syncs are gone.
LEMMA RestartFields ==
    ASSUME TypeOK, NEW c \in Syncs, Restart
    PROVE  /\ sync'[c].pc = "idle" /\ sync'[c].todo = {} /\ sync'[c].next = 1
           /\ sync'[c].content = 0 /\ sync'[c].result = "none"
           /\ sync'[c].start = [k \in Keys |-> 0]
BY DEF Restart, Idle, NoRead

\* A sync takes the time.
LEMMA MarkFields ==
    ASSUME TypeOK, NEW c \in Syncs, Mark(c)
    PROVE  /\ sync'[c].pc = "page" /\ sync'[c].todo = sync[c].todo
           /\ sync'[c].next = sync[c].next /\ sync'[c].content = sync[c].content
           /\ sync'[c].result = sync[c].result /\ sync'[c].start = sync[c].start
BY SyncTypes DEF TypeOK, Sync, Mark, Goes

\* A sync asks for the next page.
LEMMA NextPageFields ==
    ASSUME TypeOK, NEW c \in Syncs, NextPage(c)
    PROVE  /\ sync'[c].pc = "object" /\ sync'[c].todo = PageOf(sync[c].next)
           /\ sync'[c].next = NextOf(sync[c].next) /\ sync'[c].content = sync[c].content
           /\ sync'[c].result = sync[c].result /\ sync'[c].start = sync[c].start
BY SyncTypes DEF TypeOK, Sync, NextPage

\* A page has been gone through, and there is another one.
LEMMA PageEndsFields ==
    ASSUME TypeOK, NEW c \in Syncs, PageEnds(c), sync[c].next <= Len(Names)
    PROVE  /\ sync'[c].pc = "page" /\ sync'[c].todo = sync[c].todo
           /\ sync'[c].next = sync[c].next /\ sync'[c].content = sync[c].content
           /\ sync'[c].result = sync[c].result /\ sync'[c].start = sync[c].start
<1>1. sync' = [sync EXCEPT ![c].pc = "page"]
  BY DEF PageEnds, Goes
<1> QED  BY <1>1, SyncTypes DEF TypeOK, Sync

\* The last page has been gone through.
LEMMA LastPageFields ==
    ASSUME TypeOK, NEW c \in Syncs, PageEnds(c), ~(sync[c].next <= Len(Names))
    PROVE  /\ sync'[c].pc = "idle" /\ sync'[c].todo = {} /\ sync'[c].next = 1
           /\ sync'[c].content = 0 /\ sync'[c].result = "synced"
           /\ sync'[c].start = sync[c].start
<1>1. sync' = [sync EXCEPT ![c] = [Idle("synced") EXCEPT !.start = sync[c].start]]
  BY DEF PageEnds
<1> QED  BY <1>1 DEF TypeOK, Idle, NoRead

\* A sync passes over an object that has not changed.
LEMMA SkipUnchangedFields ==
    ASSUME TypeOK, NEW c \in Syncs, SkipUnchanged(c)
    PROVE  /\ sync'[c].pc = "object"
           /\ sync'[c].todo = sync[c].todo \ {First(sync[c].todo)}
           /\ sync'[c].next = sync[c].next /\ sync'[c].content = sync[c].content
           /\ sync'[c].result = sync[c].result /\ sync'[c].start = sync[c].start
BY SyncTypes, CurrentIsFirst DEF TypeOK, Sync, SkipUnchanged

\* A sync passes over the object of its own server.
LEMMA SkipSelfFields ==
    ASSUME TypeOK, NEW c \in Syncs, ReadSuite(c), Names[First(sync[c].todo).key] = Self
    PROVE  /\ sync'[c].pc = "object"
           /\ sync'[c].todo = sync[c].todo \ {First(sync[c].todo)}
           /\ sync'[c].next = sync[c].next /\ sync'[c].content = sync[c].content
           /\ sync'[c].result = sync[c].result /\ sync'[c].start = sync[c].start
BY SyncTypes, CurrentIsFirst DEF TypeOK, Sync, ReadSuite

\* A sync reads the object of another server.
LEMMA ReadFields ==
    ASSUME TypeOK, NEW c \in Syncs, ReadSuite(c), Names[First(sync[c].todo).key] # Self
    PROVE  /\ sync'[c].pc = "upsert" /\ sync'[c].todo = sync[c].todo
           /\ sync'[c].next = sync[c].next
           /\ sync'[c].content = object[First(sync[c].todo).key].content
           /\ sync'[c].result = sync[c].result /\ sync'[c].start = sync[c].start
BY SyncTypes, CurrentIsFirst DEF TypeOK, Sync, ReadSuite

\* A sync has put what it read into the table.
LEMMA UpsertFields ==
    ASSUME TypeOK, NEW c \in Syncs, Upsert(c)
    PROVE  /\ sync'[c].pc = "record" /\ sync'[c].todo = sync[c].todo
           /\ sync'[c].next = sync[c].next /\ sync'[c].content = sync[c].content
           /\ sync'[c].result = sync[c].result /\ sync'[c].start = sync[c].start
BY SyncTypes DEF TypeOK, Sync, Upsert, Goes

\* A sync has noted what it copied.
LEMMA RecordFields ==
    ASSUME TypeOK, NEW c \in Syncs, Record(c)
    PROVE  /\ sync'[c].pc = "object"
           /\ sync'[c].todo = sync[c].todo \ {First(sync[c].todo)}
           /\ sync'[c].next = sync[c].next /\ sync'[c].content = 0
           /\ sync'[c].result = sync[c].result /\ sync'[c].start = sync[c].start
BY SyncTypes, CurrentIsFirst DEF TypeOK, Sync, Record, NoRead

\* An idle sync has nothing to do (the request has been answered).
LEMMA IdleTyped ==
    ASSUME NEW result \in {"none", "synced", "skipped", "error"}
    PROVE  /\ Idle(result) \in Sync
           /\ \A f \in [Keys -> Nat] : [Idle(result) EXCEPT !.start = f] \in Sync
<1> DEFINE zero == [k \in Keys |-> 0]
<1>1. zero \in [Keys -> Nat]
  OBVIOUS
<1>2. Idle(result) = [pc |-> "idle", todo |-> {}, next |-> 1, content |-> 0, start |-> zero,
                      result |-> result]
  BY DEF Idle, NoRead
<1> HIDE DEF zero
<1> QED  BY <1>1, <1>2 DEF Sync

\* The state of a sync after a step of it.
LEMMA OwnTyped ==
    ASSUME TypeOK, NEW c \in Syncs, OwnStep(c)
    PROVE  sync' \in [Syncs -> Sync]
<1>s. sync \in [Syncs -> Sync] /\ sync[c] \in Sync /\ sync[c].start \in [Keys -> Nat]
      /\ sync[c].todo \in SUBSET Listing /\ sync[c].next \in Nat
  BY SyncTypes DEF TypeOK
<1>1. CASE Begin(c)
  <2> DEFINE f == [k \in Keys |-> object[k].content]
  <2>1. f \in [Keys -> Nat]
    BY KeyTypes
  <2> HIDE DEF f
  <2>2. Idle("none") \in Sync
    BY IdleTyped
  <2>3. [Idle("none") EXCEPT !.pc = "mark", !.start = f] \in Sync
    BY <2>1, <2>2 DEF Sync
  <2>4. sync' = [sync EXCEPT ![c] = [Idle("none") EXCEPT !.pc = "mark", !.start = f]]
    BY <1>1 DEF Begin, f
  <2> QED  BY <1>s, <2>3, <2>4
<1>2. CASE Skip(c)
  <2>1. Idle("skipped") \in Sync
    BY IdleTyped
  <2> QED  BY <1>s, <1>2, <2>1 DEF Skip
<1>3. CASE Mark(c)
  BY <1>s, <1>3 DEF Mark, Goes, Sync
<1>4. CASE NextPage(c)
  <2>1. PageOf(sync[c].next) \subseteq Listing /\ NextOf(sync[c].next) \in Nat
    BY <1>s, PageLists
  <2> QED  BY <1>s, <1>4, <2>1 DEF NextPage, Sync
<1>5. CASE PageEnds(c)
  <2>1. [Idle("synced") EXCEPT !.start = sync[c].start] \in Sync
    BY <1>s, IdleTyped
  <2>2. CASE sync[c].next <= Len(Names)
    <3>1. sync' = [sync EXCEPT ![c].pc = "page"]
      BY <1>5, <2>2 DEF PageEnds, Goes
    <3> QED  BY <1>s, <3>1 DEF Sync
  <2>3. CASE ~(sync[c].next <= Len(Names))
    <3>1. sync' = [sync EXCEPT ![c] = [Idle("synced") EXCEPT !.start = sync[c].start]]
      BY <1>5, <2>3 DEF PageEnds
    <3> QED  BY <1>s, <2>1, <3>1
  <2> QED  BY <2>2, <2>3
<1>6. CASE SkipUnchanged(c)
  BY <1>s, <1>6 DEF SkipUnchanged, Sync
<1>7. CASE ReadSuite(c)
  <2>1. sync[c].todo # {} /\ Current(c).key = First(sync[c].todo).key
    BY <1>7, CurrentIsFirst DEF ReadSuite
  <2>2. object[Current(c).key].content \in Nat
    BY <2>1, CurrentListed, KeyTypes
  <2>3. CASE Names[Current(c).key] = Self
    <3>1. sync' = [sync EXCEPT ![c].todo = @ \ {Current(c)}]
      BY <1>7, <2>3 DEF ReadSuite
    <3> QED  BY <1>s, <3>1 DEF Sync
  <2>4. CASE Names[Current(c).key] # Self
    <3>1. sync' = [sync EXCEPT ![c].pc = "upsert",
                               ![c].content = object[Current(c).key].content]
      BY <1>7, <2>4 DEF ReadSuite
    <3> QED  BY <1>s, <2>2, <3>1 DEF Sync
  <2> QED  BY <2>3, <2>4
<1>8. CASE Upsert(c)
  BY <1>s, <1>8 DEF Upsert, Goes, Sync
<1>9. CASE Record(c)
  BY <1>s, <1>9 DEF Record, NoRead, Sync
<1>10. CASE SyncFails(c)
  <2>1. Idle("error") \in Sync
    BY IdleTyped
  <2> QED  BY <1>s, <1>10, <2>1 DEF SyncFails, AfterError
<1> QED  BY <1>1, <1>2, <1>3, <1>4, <1>5, <1>6, <1>7, <1>8, <1>9, <1>10 DEF OwnStep

\* What a sync leaves alone: the bucket and the clock; the table, but for what it puts there.
LEMMA OwnLeaves ==
    ASSUME TypeOK, NEW c \in Syncs, OwnStep(c)
    PROVE  /\ now' = now /\ writes' = writes /\ object' = object
           /\ muddled \subseteq muddled'
           /\ ~Upsert(c) => table' = table
           /\ ~Record(c) => lastUpdated' = lastUpdated
           /\ ~ReadSuite(c) => muddled' = muddled
BY DEF OwnStep, Begin, Skip, Mark, NextPage, PageEnds, SkipUnchanged, ReadSuite, Upsert,
       Record, SyncFails, storeVars

\* A sync puts into the table what it has read, under a name it listed.
LEMMA UpsertWrites ==
    ASSUME TypeOK, NEW c \in Syncs, Upsert(c), sync[c].todo # {}
    PROVE  /\ \A k \in Keys : table'[k] = IF k = First(sync[c].todo).key THEN sync[c].content
                                          ELSE table[k]
           /\ sync[c].content <= writes => table' \in [Keys -> 0 .. writes]
<1>1. First(sync[c].todo).key \in Keys /\ sync[c].content \in Nat /\ writes \in Nat
  BY CurrentListed, SyncTypes, NeverIsBefore, BoundsAssumption DEF TypeOK
<1>2. table' = [table EXCEPT ![First(sync[c].todo).key] = sync[c].content]
  BY CurrentIsFirst DEF Upsert
<1>3. table \in [Keys -> 0 .. writes]
  BY DEF TypeOK
<1> QED  BY <1>1, <1>2, <1>3

\* A sync remembers the time that was listed.
LEMMA RecordWrites ==
    ASSUME TypeOK, NEW c \in Syncs, Record(c), sync[c].todo # {}
    PROVE  /\ \A k \in Keys : lastUpdated'[k] = IF k = First(sync[c].todo).key
                                                THEN First(sync[c].todo).modified
                                                ELSE lastUpdated[k]
           /\ lastUpdated' \in [Keys -> Times \cup {Never}]
<1>1. First(sync[c].todo).key \in Keys /\ First(sync[c].todo).modified \in Times
  BY CurrentListed
<1>2. lastUpdated' = [lastUpdated EXCEPT ![First(sync[c].todo).key] = First(sync[c].todo).modified]
  BY CurrentIsFirst DEF Record, Remembered
<1>3. lastUpdated \in [Keys -> Times \cup {Never}]
  BY DEF TypeOK
<1> QED  BY <1>1, <1>2, <1>3

\* A server writes its suite.
LEMMA WriteFields ==
    ASSUME TypeOK, NEW j \in Keys, WriteSuite(j)
    PROVE  /\ writes' = writes + 1 /\ writes + 1 \in 0 .. MaxWrites
           /\ object'[j].content = writes + 1 /\ object'[j].modified = now
           /\ \A k \in Keys : k # j => object'[k] = object[k]
           /\ muddled \subseteq muddled' /\ muddled' \subseteq Keys
           /\ object[j].content > 0 /\ object[j].modified = now => j \in muddled'
           /\ object' \in [Keys -> [content : 0 .. writes', modified : Times]]
<1>1. writes \in Nat /\ writes \in 0 .. MaxWrites /\ MaxWrites \in Nat /\ now \in Times
  BY NeverIsBefore, BoundsAssumption DEF TypeOK
<1>2. writes' = writes + 1 /\ writes + 1 \in 0 .. MaxWrites
  BY <1>1 DEF WriteSuite
<1>3. object' = [object EXCEPT ![j] = [content |-> writes + 1, modified |-> now]]
  BY <1>2 DEF WriteSuite
<1>4. object \in [Keys -> [content : 0 .. writes, modified : Times]]
  BY DEF TypeOK
<1>5. 0 .. writes \subseteq 0 .. writes' /\ writes + 1 \in 0 .. writes'
  BY <1>1, <1>2
<1>6. object' \in [Keys -> [content : 0 .. writes', modified : Times]]
  BY <1>1, <1>3, <1>4, <1>5
<1>7. muddled \subseteq muddled' /\ muddled' \subseteq Keys
      /\ (object[j].content > 0 /\ object[j].modified = now => j \in muddled')
  BY DEF WriteSuite, TypeOK
<1> QED  BY <1>2, <1>3, <1>4, <1>6, <1>7

\* The steps of the system: a server writes, a sync goes on, the server restarts, time passes.
LEMMA Steps ==
    ASSUME [Next]_vars
    PROVE  \/ \E j \in Keys : WriteSuite(j)
           \/ \E c \in Syncs : OwnStep(c)
           \/ Restart
           \/ Tick
           \/ UNCHANGED vars
BY DEF Next, OwnStep

\* Nothing of this is touched as the server restarts, as time passes and in a stutter.
LEMMA RestartLeaves ==
    ASSUME Restart
    PROVE  now' = now /\ writes' = writes /\ object' = object /\ table' = table
           /\ muddled' = muddled
BY DEF Restart

\* Time passing leaves the stores as they are.
LEMMA TickLeaves ==
    ASSUME Tick
    PROVE  writes' = writes /\ object' = object /\ table' = table /\ muddled' = muddled
           /\ lastUpdated' = lastUpdated /\ lastSync' = lastSync /\ sync' = sync
           /\ faults' = faults
BY DEF Tick, storeVars

\* A stuttering step leaves everything as it is.
LEMMA StutterLeaves ==
    ASSUME UNCHANGED vars
    PROVE  now' = now /\ writes' = writes /\ object' = object /\ table' = table
           /\ muddled' = muddled /\ lastUpdated' = lastUpdated /\ lastSync' = lastSync
           /\ sync' = sync /\ faults' = faults
BY DEF vars, storeVars

\* Writing a suite changes its object only (WriteSuite).
LEMMA WriteLeaves ==
    ASSUME NEW j \in Keys, WriteSuite(j)
    PROVE  now' = now /\ table' = table /\ lastUpdated' = lastUpdated /\ lastSync' = lastSync
           /\ sync' = sync /\ faults' = faults
BY DEF WriteSuite, storeVars

\* A sync that copies has something to copy (the body of the loop over a page).
LEMMA CopyingHasSome ==
    ASSUME SyncInv, NEW c \in Syncs, Upsert(c) \/ Record(c)
    PROVE  sync[c].todo # {} /\ sync[c].content <= writes
           /\ Names[First(sync[c].todo).key] # Self
BY DEF SyncInv, SyncOk, Upsert, Record

\* Every step keeps the types.
LEMMA TypeStep ==
    ASSUME TypeOK, SyncInv, [Next]_vars
    PROVE  TypeOK'
<1>t. /\ now \in Times /\ writes \in 0 .. MaxWrites
      /\ object \in [Keys -> [content : 0 .. writes, modified : Times]]
      /\ table \in [Keys -> 0 .. writes]
      /\ lastUpdated \in [Keys -> Times \cup {Never}] /\ lastSync \in Times \cup {Never}
      /\ sync \in [Syncs -> Sync]
      /\ faults \in 0 .. MaxFaults /\ muddled \subseteq Keys
  BY DEF TypeOK
<1>f. faults \in Nat /\ MaxFaults \in Nat
  BY <1>t, BoundsAssumption
<1>1. ASSUME NEW j \in Keys, WriteSuite(j) PROVE TypeOK'
  <2>1. /\ writes' \in 0 .. MaxWrites /\ muddled' \subseteq Keys
        /\ object' \in [Keys -> [content : 0 .. writes', modified : Times]]
    BY <1>1, WriteFields
  <2>2. writes \in Nat /\ writes' = writes + 1
    BY <1>1, <1>t, WriteFields, BoundsAssumption
  <2>3. 0 .. writes \subseteq 0 .. writes'
    BY <2>2
  <2>4. now' = now /\ table' = table /\ lastUpdated' = lastUpdated /\ lastSync' = lastSync
        /\ sync' = sync /\ faults' = faults
    BY <1>1, WriteLeaves
  <2>5. table' \in [Keys -> 0 .. writes']
    BY <1>t, <2>3, <2>4
  <2> QED  BY <1>t, <2>1, <2>4, <2>5 DEF TypeOK
<1>2. ASSUME NEW c \in Syncs, OwnStep(c) PROVE TypeOK'
  <2>1. now' = now /\ writes' = writes /\ object' = object
    BY <1>2, OwnLeaves
  <2>2. sync' \in [Syncs -> Sync]
    BY <1>2, OwnTyped
  <2>3. table' \in [Keys -> 0 .. writes]
    <3>1. CASE Upsert(c)
      BY <3>1, CopyingHasSome, UpsertWrites
    <3> QED  BY <1>2, <1>t, <3>1, OwnLeaves
  <2>4. lastUpdated' \in [Keys -> Times \cup {Never}]
    <3>1. CASE Record(c)
      BY <3>1, CopyingHasSome, RecordWrites
    <3> QED  BY <1>2, <1>t, <3>1, OwnLeaves
  <2>5. lastSync' \in Times \cup {Never}
    BY <1>2, <1>t DEF OwnStep, Begin, Skip, Mark, NextPage, PageEnds, SkipUnchanged, ReadSuite,
                      Upsert, Record, SyncFails, storeVars
  <2>6. faults' = faults \/ (faults < MaxFaults /\ faults' = faults + 1)
    BY <1>2 DEF OwnStep, Begin, Skip, Mark, NextPage, PageEnds, SkipUnchanged, ReadSuite,
                Upsert, Record, SyncFails, Fault
  <2>7. faults' \in 0 .. MaxFaults
    BY <1>f, <1>t, <2>6
  <2>8. muddled' \subseteq Keys
    <3>1. CASE ReadSuite(c)
      <4>1. Current(c).key \in Keys
        BY <3>1, CurrentIsFirst, CurrentListed DEF ReadSuite
      <4> QED  BY <1>t, <3>1, <4>1 DEF ReadSuite
    <3> QED  BY <1>2, <1>t, <3>1, OwnLeaves
  <2> QED  BY <1>t, <2>1, <2>2, <2>3, <2>4, <2>5, <2>7, <2>8 DEF TypeOK
<1>3. CASE Restart
  <2>1. faults' \in 0 .. MaxFaults
    BY <1>3, <1>f, <1>t DEF Restart, Fault
  <2>2. sync' \in [Syncs -> Sync]
    <3>1. Idle("none") \in Sync
      BY IdleTyped
    <3> QED  BY <1>3, <3>1 DEF Restart
  <2>3. lastUpdated' \in [Keys -> Times \cup {Never}] /\ lastSync' \in Times \cup {Never}
    BY <1>3 DEF Restart
  <2> QED  BY <1>3, <1>t, <2>1, <2>2, <2>3, RestartLeaves DEF TypeOK
<1>4. CASE Tick
  <2>1. now' \in Times
    BY <1>4, <1>t, BoundsAssumption DEF Tick, Times
  <2> QED  BY <1>4, <1>t, <2>1, TickLeaves DEF TypeOK
<1>5. CASE UNCHANGED vars
  BY <1>5, <1>t, StutterLeaves DEF TypeOK
<1> QED  BY <1>1, <1>2, <1>3, <1>4, <1>5, Steps

-------------------------------------------------------------------------------
(* What a sync has to do *)

\* What is left of a page once an object of it is done.
LEMMA Rest ==
    ASSUME NEW todo, NEW l, \A a, b \in todo : a.key = b.key => a = b
    PROVE  \A a, b \in todo \ {l} : a.key = b.key => a = b
OBVIOUS

\* A page lists an object once (ListObjectsV2).
LEMMA PageListsOnce ==
    ASSUME NEW n \in Nat
    PROVE  \A a, b \in PageOf(n) : a.key = b.key => a = b
BY DEF PageOf

\* Every step of a sync keeps what is to be done in order.
LEMMA OwnSyncOk ==
    ASSUME TypeOK, SyncInv, NEW c \in Syncs, OwnStep(c)
    PROVE  SyncOk(sync'[c]) /\ sync'[c].content <= writes
<1>s. SyncOk(sync[c]) /\ sync[c].content <= writes /\ 0 <= writes /\ sync[c].next \in Nat
  BY SyncTypes, KeyTypes, BoundsAssumption DEF SyncInv, TypeOK
<1>1. CASE Begin(c)
  BY <1>1, <1>s, BeginFields DEF SyncOk
<1>2. CASE Skip(c)
  BY <1>2, <1>s, SkipFields DEF SyncOk
<1>3. CASE Mark(c)
  <2>1. sync[c].pc = "mark"
    BY <1>3 DEF Mark
  <2> QED  BY <1>3, <1>s, <2>1, MarkFields DEF SyncOk
<1>4. CASE NextPage(c)
  <2>1. sync[c].pc = "page"
    BY <1>4 DEF NextPage
  <2>2. \A a, b \in sync'[c].todo : a.key = b.key => a = b
    BY <1>4, <1>s, NextPageFields, PageListsOnce
  <2> QED  BY <1>4, <1>s, <2>1, <2>2, NextPageFields DEF SyncOk
<1>5. CASE PageEnds(c)
  <2>1. sync[c].pc = "object" /\ sync[c].todo = {}
    BY <1>5 DEF PageEnds
  <2> QED  BY <1>5, <1>s, <2>1, PageEndsFields, LastPageFields DEF SyncOk
<1>6. CASE SkipUnchanged(c)
  <2>1. sync[c].pc = "object"
    BY <1>6 DEF SkipUnchanged
  <2> QED  BY <1>6, <1>s, <2>1, Rest, SkipUnchangedFields DEF SyncOk
<1>7. CASE ReadSuite(c)
  <2>1. sync[c].pc = "object" /\ sync[c].todo # {}
    BY <1>7 DEF ReadSuite
  <2>2. CASE Names[First(sync[c].todo).key] = Self
    BY <1>7, <1>s, <2>1, <2>2, Rest, SkipSelfFields DEF SyncOk
  <2>3. CASE Names[First(sync[c].todo).key] # Self
    <3>1. object[First(sync[c].todo).key].content <= writes
      BY <2>1, CurrentListed, KeyTypes
    <3> QED  BY <1>7, <1>s, <2>1, <2>3, <3>1, ReadFields DEF SyncOk
  <2> QED  BY <2>2, <2>3
<1>8. CASE Upsert(c)
  <2>1. sync[c].pc = "upsert"
    BY <1>8 DEF Upsert
  <2> QED  BY <1>8, <1>s, <2>1, UpsertFields DEF SyncOk
<1>9. CASE Record(c)
  <2>1. sync[c].pc = "record"
    BY <1>9 DEF Record
  <2> QED  BY <1>9, <1>s, <2>1, Rest, RecordFields DEF SyncOk
<1>10. CASE SyncFails(c)
  BY <1>10, <1>s, FailsFields DEF SyncOk
<1> QED  BY <1>1, <1>2, <1>3, <1>4, <1>5, <1>6, <1>7, <1>8, <1>9, <1>10 DEF OwnStep

\* Every step does.
LEMMA SyncInvStep ==
    ASSUME TypeOK, SyncInv, [Next]_vars
    PROVE  SyncInv'
<1>w. writes \in Nat
  BY BoundsAssumption DEF TypeOK
<1>s. \A c \in Syncs : SyncOk(sync[c]) /\ sync[c].content <= writes /\ sync[c].content \in Nat
  BY SyncTypes DEF SyncInv
<1>1. ASSUME NEW j \in Keys, WriteSuite(j) PROVE SyncInv'
  <2>1. writes' = writes + 1 /\ sync' = sync
    BY <1>1, WriteFields, WriteLeaves
  <2>2. \A c \in Syncs : sync[c].content <= writes'
    BY <1>s, <1>w, <2>1
  <2> QED  BY <1>s, <2>1, <2>2 DEF SyncInv
<1>2. ASSUME NEW c \in Syncs, OwnStep(c) PROVE SyncInv'
  <2>1. writes' = writes
    BY <1>2, OwnLeaves
  <2>2. ASSUME NEW d \in Syncs PROVE SyncOk(sync'[d]) /\ sync'[d].content <= writes
    <3>1. CASE d = c
      BY <1>2, <3>1, OwnSyncOk
    <3>2. CASE d # c
      BY <1>2, <1>s, <3>2, OthersStay
    <3> QED  BY <3>1, <3>2
  <2> QED  BY <2>1, <2>2 DEF SyncInv
<1>3. CASE Restart
  <2>1. ASSUME NEW c \in Syncs PROVE SyncOk(sync'[c]) /\ sync'[c].content <= writes
    BY <1>3, <1>w, RestartFields DEF SyncOk
  <2> QED  BY <1>3, <2>1, RestartLeaves DEF SyncInv
<1>4. CASE Tick
  BY <1>4, <1>s, TickLeaves DEF SyncInv
<1>5. CASE UNCHANGED vars
  BY <1>5, <1>s, StutterLeaves DEF SyncInv
<1> QED  BY <1>1, <1>2, <1>3, <1>4, <1>5, Steps

-------------------------------------------------------------------------------
(* What is listed, remembered and was there *)

\* What a sync lists was there, and not later than it is now (the listing, and PutObject of
\* the other servers after it).
ListedOk(s) ==
    /\ \A l \in s.todo : object[l.key].content > 0 /\ l.modified <= object[l.key].modified
    /\ \A k \in Keys : s.start[k] <= object[k].content

\* The same of one object.
KeyOk(k) ==
    /\ object[k].modified <= now /\ lastUpdated[k] <= object[k].modified
    /\ object[k].content = 0 => lastUpdated[k] = Never
    /\ Names[k] = Self => table[k] = 0

\* The invariant of the objects, key by key and sync by sync.
LEMMA ObjectInvParts ==
    ObjectInv <=> /\ \A k \in Keys : KeyOk(k)
                  /\ \A c \in Syncs : ListedOk(sync[c])
BY DEF ObjectInv, KeyOk, ListedOk

\* Every step of a sync keeps it of that sync.
LEMMA OwnListedOk ==
    ASSUME TypeOK, SyncInv, ObjectInv, NEW c \in Syncs, OwnStep(c)
    PROVE  ListedOk(sync'[c])
<1>o. ListedOk(sync[c])
  BY ObjectInvParts
<1>z. \A k \in Keys : object[k].content \in Nat /\ object[k].modified \in Nat
                      /\ 0 <= object[k].content
  BY KeyTypes
<1>1. CASE Begin(c)
  <2>1. sync'[c].todo = {} /\ \A k \in Keys : sync'[c].start[k] = object[k].content
    BY <1>1, BeginFields
  <2> QED  BY <1>z, <2>1 DEF ListedOk
<1>2. CASE Skip(c)
  BY <1>2, <1>z, SkipFields DEF ListedOk
<1>3. CASE Mark(c)
  BY <1>3, <1>o, MarkFields DEF ListedOk
<1>4. CASE NextPage(c)
  <2>1. sync[c].next \in Nat
    BY SyncTypes
  <2>2. ASSUME NEW l \in PageOf(sync[c].next)
        PROVE  object[l.key].content > 0 /\ l.modified <= object[l.key].modified
    <3>1. l.modified = object[l.key].modified /\ object[l.key].content > 0 /\ l.key \in Keys
      BY <2>1, PageLists DEF Listing
    <3> QED  BY <1>z, <3>1
  <2> QED  BY <1>4, <1>o, <2>2, NextPageFields DEF ListedOk
<1>5. CASE PageEnds(c)
  BY <1>5, <1>o, PageEndsFields, LastPageFields DEF ListedOk
<1>6. CASE SkipUnchanged(c)
  BY <1>6, <1>o, SkipUnchangedFields DEF ListedOk
<1>7. CASE ReadSuite(c)
  BY <1>7, <1>o, SkipSelfFields, ReadFields DEF ListedOk
<1>8. CASE Upsert(c)
  BY <1>8, <1>o, UpsertFields DEF ListedOk
<1>9. CASE Record(c)
  BY <1>9, <1>o, RecordFields DEF ListedOk
<1>10. CASE SyncFails(c)
  BY <1>10, <1>z, FailsFields DEF ListedOk
<1> QED  BY <1>1, <1>2, <1>3, <1>4, <1>5, <1>6, <1>7, <1>8, <1>9, <1>10 DEF OwnStep

\* A sync keeps it of the objects: it remembers what it listed, and writes under the names
\* of others.
LEMMA OwnKeyOk ==
    ASSUME TypeOK, SyncInv, ObjectInv, NEW c \in Syncs, OwnStep(c), NEW k \in Keys
    PROVE  KeyOk(k)'
<1>k. KeyOk(k)
  BY ObjectInvParts
<1>o. now' = now /\ object' = object
  BY OwnLeaves
<1>1. lastUpdated'[k] <= object[k].modified
      /\ (object[k].content = 0 => lastUpdated'[k] = Never)
  <2>1. CASE Record(c) /\ k = First(sync[c].todo).key
    <3>1. sync[c].todo # {}
      BY <2>1, CopyingHasSome
    <3>2. lastUpdated'[k] = First(sync[c].todo).modified
      BY <2>1, <3>1, RecordWrites
    <3>3. First(sync[c].todo) \in sync[c].todo
      BY <3>1, CurrentListed
    <3>4. object[k].content > 0 /\ First(sync[c].todo).modified <= object[k].modified
      BY <2>1, <3>3 DEF ObjectInv
    <3> QED  BY <3>2, <3>4, KeyTypes
  <2>2. CASE ~(Record(c) /\ k = First(sync[c].todo).key)
    <3>1. lastUpdated'[k] = lastUpdated[k]
      BY <2>2, CopyingHasSome, RecordWrites, OwnLeaves
    <3> QED  BY <1>k, <3>1 DEF KeyOk
  <2> QED  BY <2>1, <2>2
<1>2. Names[k] = Self => table'[k] = 0
  <2>1. CASE Upsert(c)
    <3>1. sync[c].todo # {} /\ Names[First(sync[c].todo).key] # Self
      BY <2>1, CopyingHasSome
    <3>2. Names[k] = Self => table'[k] = table[k]
      BY <2>1, <3>1, UpsertWrites
    <3> QED  BY <1>k, <3>2 DEF KeyOk
  <2>2. CASE ~Upsert(c)
    BY <1>k, <2>2, OwnLeaves DEF KeyOk
  <2> QED  BY <2>1, <2>2
<1> QED  BY <1>k, <1>o, <1>1, <1>2 DEF KeyOk

\* Every step keeps it: what is written anew is later.
LEMMA ObjectInvStep ==
    ASSUME TypeOK, SyncInv, ObjectInv, [Next]_vars
    PROVE  ObjectInv'
<1>p. /\ \A k \in Keys : KeyOk(k)
      /\ \A c \in Syncs : ListedOk(sync[c])
  BY ObjectInvParts
<1>n. \A k \in Keys : /\ object[k].content \in Nat /\ object[k].modified \in Nat
                      /\ object[k].content <= writes /\ lastUpdated[k] \in Int
  BY KeyTypes
<1>w. writes \in Nat /\ now \in Nat
  BY NeverIsBefore, BoundsAssumption DEF TypeOK
<1>e. \A c \in Syncs : sync[c].start \in [Keys -> Nat] /\ sync[c].todo \in SUBSET Listing
  BY SyncTypes
<1> SUFFICES (\A k \in Keys : KeyOk(k)') /\ (\A c \in Syncs : ListedOk(sync[c])')
  BY ObjectInvParts DEF ObjectInv, KeyOk, ListedOk
<1>1. ASSUME NEW j \in Keys, WriteSuite(j)
      PROVE  (\A k \in Keys : KeyOk(k)') /\ (\A c \in Syncs : ListedOk(sync[c])')
  <2>1. /\ object'[j].content = writes + 1 /\ object'[j].modified = now
        /\ \A k \in Keys : k # j => object'[k] = object[k]
    BY <1>1, WriteFields
  <2>2. now' = now /\ table' = table /\ lastUpdated' = lastUpdated /\ sync' = sync
    BY <1>1, WriteLeaves
  <2>3. \A k \in Keys : /\ object[k].content <= object'[k].content
                        /\ object[k].modified <= object'[k].modified
                        /\ object[k].content > 0 => object'[k].content > 0
                        /\ object'[k].modified <= now
                        /\ object'[k].content = 0 => object[k].content = 0
                        /\ object'[k].content \in Nat /\ object'[k].modified \in Nat
    BY <1>p, <1>n, <1>w, <2>1 DEF KeyOk
  <2>4. ASSUME NEW k \in Keys PROVE KeyOk(k)'
    BY <1>p, <1>n, <1>w, <2>2, <2>3 DEF KeyOk
  <2>5. ASSUME NEW c \in Syncs PROVE ListedOk(sync[c])'
    <3>1. ASSUME NEW l \in sync[c].todo
          PROVE  object'[l.key].content > 0 /\ l.modified <= object'[l.key].modified
      <4>1. l.key \in Keys /\ l.modified \in Nat
        BY <1>e, NeverIsBefore DEF Listing
      <4>2. object[l.key].content > 0 /\ l.modified <= object[l.key].modified
        BY <1>p DEF ListedOk
      <4> QED  BY <1>n, <2>3, <4>1, <4>2
    <3>2. ASSUME NEW k \in Keys PROVE sync[c].start[k] <= object'[k].content
      <4>1. sync[c].start[k] \in Nat
        BY <1>e
      <4>2. sync[c].start[k] <= object[k].content
        BY <1>p DEF ListedOk
      <4> QED  BY <1>n, <2>3, <4>1, <4>2
    <3> QED  BY <2>2, <3>1, <3>2 DEF ListedOk
  <2> QED  BY <2>4, <2>5
<1>2. ASSUME NEW c \in Syncs, OwnStep(c)
      PROVE  (\A k \in Keys : KeyOk(k)') /\ (\A d \in Syncs : ListedOk(sync[d])')
  <2>1. \A k \in Keys : KeyOk(k)'
    BY <1>2, OwnKeyOk
  <2>2. object' = object
    BY <1>2, OwnLeaves
  <2>3. ASSUME NEW d \in Syncs PROVE ListedOk(sync[d])'
    <3>1. ListedOk(sync'[d])
      BY <1>2, <1>p, OthersStay, OwnListedOk
    <3> QED  BY <2>2, <3>1 DEF ListedOk
  <2> QED  BY <2>1, <2>3
<1>3. CASE Restart
  <2>1. ASSUME NEW k \in Keys PROVE KeyOk(k)'
    <3>1. lastUpdated'[k] = Never
      BY <1>3 DEF Restart
    <3>2. Never <= object[k].modified
      BY <1>n, NeverIsBefore
    <3> QED  BY <1>3, <1>p, <3>1, <3>2, RestartLeaves DEF KeyOk
  <2>2. ASSUME NEW c \in Syncs PROVE ListedOk(sync[c])'
    BY <1>3, <1>n, RestartFields, RestartLeaves DEF ListedOk
  <2> QED  BY <2>1, <2>2
<1>4. CASE Tick
  <2>1. now <= now'
    BY <1>4, <1>w DEF Tick
  <2>2. ASSUME NEW k \in Keys PROVE KeyOk(k)'
    <3>1. object[k].modified <= now'
      BY <1>4, <1>n, <1>p, <1>w DEF KeyOk, Tick
    <3> QED  BY <1>4, <1>p, <3>1, TickLeaves DEF KeyOk
  <2>3. ASSUME NEW c \in Syncs PROVE ListedOk(sync[c])'
    BY <1>4, <1>p, TickLeaves DEF ListedOk
  <2> QED  BY <2>2, <2>3
<1>5. CASE UNCHANGED vars
  BY <1>5, <1>p, StutterLeaves DEF KeyOk, ListedOk
<1> QED  BY <1>1, <1>2, <1>3, <1>4, <1>5, Steps

-------------------------------------------------------------------------------
(* What is copied *)

ClearAt(k) ==
    /\ Fresh(object[k], lastUpdated[k], table[k])
    /\ \A c \in Syncs : Each(sync[c], object[k], lastUpdated[k], table[k], k)
    /\ \A c, d \in Syncs : c # d => Apart(sync[c], sync[d], table[k], k)

\* A sync with nothing to do is in nobody's way.
LEMMA Quiet ==
    ASSUME NEW s, s.todo = {}, s.pc \in {"idle", "mark", "page", "object"},
           NEW r, NEW o, NEW u, NEW t, NEW k
    PROVE  Compared(s, u, t, k) /\ ReadOk(s, o, t, k) /\ Apart(s, r, t, k) /\ Apart(r, s, t, k)
BY DEF Compared, ReadOk, Apart, Copies

\* A sync that does not copy does not bind the others.
LEMMA Free ==
    ASSUME NEW s, s.pc \in {"idle", "mark", "page", "object"},
           NEW r, NEW o, NEW t, NEW k
    PROVE  ReadOk(s, o, t, k) /\ Apart(r, s, t, k)
BY DEF ReadOk, Apart, Copies

\* A sync that has been through a listing of the page keeps what it knew of the others.
LEMMA Drops ==
    ASSUME NEW s, NEW n, n.todo \subseteq s.todo, n.start = s.start, n.result = s.result,
           n.pc = "object", NEW r, NEW o, NEW u, NEW t, NEW k,
           Synced(s, t, k), Compared(s, u, t, k), Apart(s, r, t, k)
    PROVE  /\ Synced(n, t, k) /\ Compared(n, u, t, k) /\ ReadOk(n, o, t, k)
           /\ Apart(n, r, t, k) /\ Apart(r, n, t, k)
<1>1. Synced(n, t, k) /\ Compared(n, u, t, k)
  BY DEF Synced, Compared
<1>2. Apart(n, r, t, k)
  BY DEF Apart, Copies
<1> QED  BY <1>1, <1>2, Free

\* What is known of one sync is known of all once the others, the bucket, the table and the
\* store are as they were.
LEMMA OneChanges ==
    ASSUME NEW c \in Syncs, \A d \in Syncs : d # c => sync'[d] = sync[d], NEW k \in Keys,
           object' = object, table' = table, lastUpdated' = lastUpdated, ClearAt(k),
           Each(sync'[c], object[k], lastUpdated[k], table[k], k),
           \A d \in Syncs : d # c => /\ Apart(sync'[c], sync[d], table[k], k)
                                     /\ Apart(sync[d], sync'[c], table[k], k)
    PROVE  ClearAt(k)'
<1>1. Fresh(object'[k], lastUpdated'[k], table'[k])
  BY DEF ClearAt
<1>2. ASSUME NEW d \in Syncs PROVE Each(sync'[d], object'[k], lastUpdated'[k], table'[k], k)
  <2>1. CASE d = c
    BY <2>1
  <2>2. CASE d # c
    BY <2>2 DEF ClearAt
  <2> QED  BY <2>1, <2>2
<1>3. ASSUME NEW d \in Syncs, NEW e \in Syncs, d # e
      PROVE  Apart(sync'[d], sync'[e], table'[k], k)
  <2>1. CASE d = c
    BY <1>3, <2>1
  <2>2. CASE e = c
    BY <1>3, <2>2
  <2>3. CASE d # c /\ e # c
    BY <1>3, <2>3 DEF ClearAt
  <2> QED  BY <2>1, <2>2, <2>3
<1> QED  BY <1>1, <1>2, <1>3 DEF ClearAt

\* What is known of a sync and an object at a state of ClearInv.
LEMMA ClearParts ==
    ASSUME NEW k \in Keys, ClearAt(k), NEW c \in Syncs
    PROVE  /\ Fresh(object[k], lastUpdated[k], table[k])
           /\ Synced(sync[c], table[k], k)
           /\ Compared(sync[c], lastUpdated[k], table[k], k)
           /\ ReadOk(sync[c], object[k], table[k], k)
           /\ Passed(sync[c], table[k], k)
           /\ \A d \in Syncs : d # c => /\ Apart(sync[c], sync[d], table[k], k)
                                        /\ Apart(sync[d], sync[c], table[k], k)
BY DEF ClearAt, Each

\* A sync that begins, is too soon, or fails has copied nothing yet.
LEMMA ClearBegin ==
    ASSUME TypeOK, NEW c \in Syncs, Begin(c) \/ Skip(c) \/ SyncFails(c), NEW k \in Keys, ClearAt(k)
    PROVE  ClearAt(k)'
<1> DEFINE n == sync'[c]
<1>1. /\ n.todo = {} /\ n.pc \in {"idle", "mark"} /\ n.next = 1 /\ n.result # "synced"
  BY BeginFields, SkipFields, FailsFields
<1>2. k \in Nat /\ ~(k < 1)
  BY KeysAreNumbers
<1> HIDE DEF n
<1>3. Synced(n, table[k], k) /\ Passed(n, table[k], k)
  BY <1>1, <1>2 DEF Synced, Passed
<1>4. Compared(n, lastUpdated[k], table[k], k) /\ ReadOk(n, object[k], table[k], k)
  BY <1>1, Quiet
<1>5. \A d \in Syncs : Apart(n, sync[d], table[k], k) /\ Apart(sync[d], n, table[k], k)
  BY <1>1, Quiet
<1>6. \A d \in Syncs : d # c => sync'[d] = sync[d]
  BY OthersStay DEF OwnStep
<1>7. object' = object /\ table' = table /\ lastUpdated' = lastUpdated
  BY DEF Begin, Skip, SyncFails, storeVars
<1>8. Each(n, object[k], lastUpdated[k], table[k], k)
  BY <1>3, <1>4 DEF Each
<1> QED  BY <1>5, <1>6, <1>7, <1>8, OneChanges DEF n

\* Nor has one that takes the time, and one at the end of a page has what it had.
LEMMA ClearPage ==
    ASSUME TypeOK, SyncInv, NEW c \in Syncs, Mark(c) \/ PageEnds(c), NEW k \in Keys, ClearAt(k)
    PROVE  ClearAt(k)'
<1> DEFINE n == sync'[c]
           s == sync[c]
<1>s. s.todo = {} /\ (Mark(c) => s.next = 1) /\ s.pc # "idle" /\ s.result # "synced"
  BY DEF Mark, PageEnds, SyncInv, SyncOk
<1>p. Passed(s, table[k], k)
  BY ClearParts
<1>k. k \in Nat /\ 1 <= k /\ k <= Len(Names) /\ Len(Names) \in Nat /\ s.next \in Nat
  BY KeysAreNumbers, SyncTypes
<1>1. /\ n.todo = {} /\ n.pc \in {"idle", "page"}
      /\ Synced(n, table[k], k) /\ Passed(n, table[k], k)
  <2>1. CASE Mark(c)
    <3>1. n.todo = s.todo /\ n.pc = "page" /\ n.next = s.next /\ n.result = s.result
          /\ n.start = s.start
      BY <2>1, MarkFields
    <3> HIDE DEF n, s
    <3> QED  BY <1>k, <1>s, <2>1, <3>1 DEF Synced, Passed
  <2>2. CASE PageEnds(c) /\ s.next <= Len(Names)
    <3>1. n.todo = s.todo /\ n.pc = "page" /\ n.next = s.next /\ n.result = s.result
          /\ n.start = s.start
      BY <2>2, PageEndsFields
    <3> HIDE DEF n, s
    <3> QED  BY <1>p, <1>s, <3>1 DEF Synced, Passed
  <2>3. CASE PageEnds(c) /\ ~(s.next <= Len(Names))
    <3>1. n.todo = {} /\ n.pc = "idle" /\ n.start = s.start
      BY <2>3, LastPageFields
    <3>2. k < s.next
      BY <1>k, <2>3
    <3> HIDE DEF n, s
    <3>3. s.start[k] <= table[k]
      BY <1>p, <1>s, <3>2 DEF Passed
    <3> QED  BY <3>1, <3>3 DEF Synced, Passed
  <2> QED  BY <2>1, <2>2, <2>3
<1> HIDE DEF n, s
<1>4. Compared(n, lastUpdated[k], table[k], k) /\ ReadOk(n, object[k], table[k], k)
  BY <1>1, Quiet
<1>5. \A d \in Syncs : Apart(n, sync[d], table[k], k) /\ Apart(sync[d], n, table[k], k)
  BY <1>1, Quiet
<1>6. \A d \in Syncs : d # c => sync'[d] = sync[d]
  BY OthersStay DEF OwnStep
<1>7. object' = object /\ table' = table /\ lastUpdated' = lastUpdated
  BY DEF Mark, PageEnds, storeVars
<1>8. Each(n, object[k], lastUpdated[k], table[k], k)
  BY <1>1, <1>4 DEF Each
<1> QED  BY <1>5, <1>6, <1>7, <1>8, OneChanges DEF n

\* A page lists what is there: not older than what is remembered, and copied if it is the
\* same; what it leaves out is not there.
LEMMA ClearNextPage ==
    ASSUME TypeOK, SyncInv, ObjectInv, NEW c \in Syncs, NextPage(c), NEW k \in Keys, ClearAt(k)
    PROVE  ClearAt(k)'
<1> DEFINE n == sync'[c]
           s == sync[c]
           o == object[k]
           u == lastUpdated[k]
           t == table[k]
<1>s. s.pc = "page" /\ s.todo = {} /\ s.result # "synced"
  BY DEF NextPage, SyncInv, SyncOk
<1>f. /\ n.pc = "object" /\ n.todo = PageOf(s.next) /\ n.next = NextOf(s.next)
      /\ n.result = s.result /\ n.start = s.start
  BY NextPageFields
<1>k. /\ k \in Nat /\ s.next \in Nat /\ n.next \in Nat /\ s.start[k] \in Nat
      /\ o.content \in Nat /\ t \in Nat
  <2>1. s.next \in Nat /\ s.start \in [Keys -> Nat]
    BY SyncTypes
  <2>2. n.next \in Nat
    BY <1>f, <2>1, PageLists
  <2>3. k \in Nat /\ o.content \in Nat /\ t \in Nat
    BY KeysAreNumbers, KeyTypes
  <2> QED  BY <2>1, <2>2, <2>3
<1>l. \A l \in n.todo : l.key = k => l.modified = o.modified /\ o.content > 0
  BY <1>f, SyncTypes, PageLists
<1>m. s.next <= k /\ k < n.next /\ o.content > 0 => \E l \in n.todo : l.key = k
  BY <1>f, SyncTypes, PageLists
<1>o. s.start[k] <= o.content /\ u <= o.modified
  BY DEF ObjectInv
<1>c. Fresh(o, u, t) /\ Passed(s, t, k)
  BY ClearParts
<1>d. \A d \in Syncs : ReadOk(sync[d], o, t, k)
  BY ClearParts
<1>g. \A d \in Syncs : Copies(sync[d], k) =>
                           First(sync[d].todo).modified <= o.modified
  <2> SUFFICES ASSUME NEW d \in Syncs, Copies(sync[d], k)
               PROVE  First(sync[d].todo).modified <= object[k].modified
    OBVIOUS
  <2>1. sync[d].todo # {} /\ First(sync[d].todo).key = k
    BY DEF Copies, SyncInv, SyncOk
  <2>2. First(sync[d].todo) \in sync[d].todo
    BY <2>1, CurrentListed
  <2> QED  BY <2>1, <2>2 DEF ObjectInv
<1>6. \A d \in Syncs : d # c => sync'[d] = sync[d]
  BY OthersStay DEF OwnStep
<1>7. object' = object /\ table' = table /\ lastUpdated' = lastUpdated
  BY DEF NextPage, storeVars
<1> HIDE DEF n, s, o, u, t
<1>1. Synced(n, t, k)
  BY <1>s, <1>f DEF Synced
<1>2. Compared(n, u, t, k)
  BY <1>f, <1>l, <1>o, <1>c DEF Compared, Fresh
<1>3. Passed(n, t, k)
  <2> SUFFICES ASSUME k < n.next, \A l \in n.todo : l.key # k
               PROVE  s.start[k] <= t
    BY <1>f DEF Passed
  <2>1. CASE k < s.next
    BY <1>c, <1>s, <2>1 DEF Passed
  <2>2. CASE ~(k < s.next)
    <3>1. o.content = 0
      BY <1>k, <1>m, <2>2
    <3> QED  BY <1>k, <1>o, <3>1
  <2> QED  BY <2>1, <2>2
<1>4. \A d \in Syncs : ReadOk(n, o, t, k) /\ Apart(sync[d], n, t, k)
  BY <1>f, Free
<1>5. ASSUME NEW d \in Syncs PROVE Apart(n, sync[d], t, k)
  <2> DEFINE r == sync[d]
  <2>1. ReadOk(r, o, t, k) /\ (Copies(r, k) => First(r.todo).modified <= o.modified)
    BY <1>d, <1>g
  <2> HIDE DEF r
  <2>2. Apart(n, r, t, k)
    <3> SUFFICES ASSUME Copies(r, k) PROVE Apart(n, r, t, k)
      BY DEF Apart
    <3>1. ~Copies(n, k)
      BY <1>f DEF Copies
    <3>2. ASSUME NEW l \in n.todo, l.key = k, First(r.todo).modified = l.modified,
                 r.pc = "upsert"
          PROVE  s.start[k] <= r.content
      BY <1>l, <1>o, <2>1, <3>2 DEF ReadOk
    <3>3. ASSUME NEW l \in n.todo, l.key = k, First(r.todo).modified = l.modified,
                 r.pc = "record"
          PROVE  s.start[k] <= t
      BY <1>l, <1>o, <2>1, <3>3 DEF ReadOk
    <3>4. \A l \in n.todo : l.key = k => First(r.todo).modified <= l.modified
      BY <1>l, <2>1
    <3> QED  BY <1>f, <3>1, <3>2, <3>3, <3>4 DEF Apart
  <2> QED  BY <2>2 DEF r
<1>8. Each(n, o, u, t, k)
  BY <1>1, <1>2, <1>3, <1>4 DEF Each
<1>9. Each(sync'[c], object[k], lastUpdated[k], table[k], k)
  BY <1>8 DEF n, o, u, t
<1>10. \A d \in Syncs : /\ Apart(sync'[c], sync[d], table[k], k)
                        /\ Apart(sync[d], sync'[c], table[k], k)
  BY <1>4, <1>5 DEF n, t
<1> QED  BY <1>6, <1>7, <1>9, <1>10, OneChanges

\* An object that has not changed since it was copied is passed over, and so is that of the
\* server itself.
LEMMA ClearDrop ==
    ASSUME TypeOK, SyncInv, NEW c \in Syncs, NEW k \in Others, ClearAt(k),
           SkipUnchanged(c) \/ (ReadSuite(c) /\ Names[First(sync[c].todo).key] = Self)
    PROVE  ClearAt(k)'
<1> DEFINE n == sync'[c]
           s == sync[c]
           o == object[k]
           u == lastUpdated[k]
           t == table[k]
<1>k. k \in Keys /\ Names[k] # Self
  BY DEF Others
<1>s. s.pc = "object" /\ s.todo # {}
  BY DEF SkipUnchanged, ReadSuite
<1>f. /\ n.pc = "object" /\ n.todo = s.todo \ {First(s.todo)}
      /\ n.next = s.next /\ n.result = s.result /\ n.start = s.start
  BY SkipUnchangedFields, SkipSelfFields
<1>e. First(s.todo).key = k => u = First(s.todo).modified
  BY <1>k, CurrentIsFirst DEF SkipUnchanged, Unchanged
<1>m. First(s.todo) \in s.todo
  BY <1>s, CurrentListed
<1>c. Synced(s, t, k) /\ Compared(s, u, t, k) /\ Passed(s, t, k)
  BY <1>k, ClearParts
<1>d. \A d \in Syncs : d # c => Apart(s, sync[d], t, k)
  BY <1>k, ClearParts
<1>6. \A d \in Syncs : d # c => sync'[d] = sync[d]
  BY OthersStay DEF OwnStep
<1>7. object' = object /\ table' = table /\ lastUpdated' = lastUpdated
  BY DEF SkipUnchanged, ReadSuite, storeVars
<1> HIDE DEF n, s, o, u, t
<1>1. Passed(n, t, k)
  <2> SUFFICES ASSUME k < n.next, \A l \in n.todo : l.key # k
               PROVE  s.start[k] <= t
    BY <1>f DEF Passed
  <2>1. CASE First(s.todo).key = k
    BY <1>c, <1>e, <1>m, <2>1 DEF Compared
  <2>2. CASE First(s.todo).key # k
    <3>1. \A l \in s.todo : l.key # k
      BY <1>f, <2>2
    <3> QED  BY <1>c, <1>f, <1>s, <3>1 DEF Passed
  <2> QED  BY <2>1, <2>2
<1>2. n.todo \subseteq s.todo
  BY <1>f
<1>3. Synced(n, t, k) /\ Compared(n, u, t, k)
  BY <1>c, <1>f, <1>2 DEF Synced, Compared
<1>4. ReadOk(n, o, t, k)
  BY <1>f, Free
<1>5. \A d \in Syncs : d # c => Apart(n, sync[d], t, k) /\ Apart(sync[d], n, t, k)
  BY <1>c, <1>d, <1>f, <1>2, Drops
<1>8. Each(n, o, u, t, k)
  BY <1>1, <1>3, <1>4 DEF Each
<1>9. Each(sync'[c], object[k], lastUpdated[k], table[k], k)
  BY <1>8 DEF n, o, u, t
<1>10. \A d \in Syncs : d # c => /\ Apart(sync'[c], sync[d], table[k], k)
                                 /\ Apart(sync[d], sync'[c], table[k], k)
  BY <1>5 DEF n, t
<1> QED  BY <1>k, <1>6, <1>7, <1>9, <1>10, OneChanges

\* An object is read as it is; nobody else is between its listing and its end, or the key is
\* not one of those that can be told.
LEMMA ClearRead ==
    ASSUME TypeOK, SyncInv, ObjectInv, NEW c \in Syncs, ReadSuite(c),
           Names[First(sync[c].todo).key] # Self, NEW k \in Keys, k \notin muddled', ClearAt(k)
    PROVE  ClearAt(k)'
<1> DEFINE n == sync'[c]
           s == sync[c]
           o == object[k]
           u == lastUpdated[k]
           t == table[k]
<1>s. s.pc = "object" /\ s.todo # {}
  BY DEF ReadSuite
<1>f. /\ n.pc = "upsert" /\ n.todo = s.todo
      /\ n.next = s.next /\ n.result = s.result /\ n.start = s.start
      /\ n.content = object[First(s.todo).key].content
  BY ReadFields
<1>c. /\ Fresh(o, u, t) /\ Synced(s, t, k) /\ Compared(s, u, t, k) /\ Passed(s, t, k)
      /\ \A d \in Syncs : d # c => Apart(s, sync[d], t, k) /\ Apart(sync[d], s, t, k)
  BY ClearParts
<1>o. s.start[k] <= o.content /\ o.content \in Nat /\ t \in Nat
  BY KeyTypes DEF ObjectInv
<1>w. First(s.todo).key = k =>
          \A d \in Syncs : d # c => ~Copies(sync[d], k) /\ \A l \in sync[d].todo : l.key # k
  <2> SUFFICES ASSUME First(s.todo).key = k, NEW d \in Syncs, d # c
               PROVE  ~Copies(sync[d], k) /\ \A l \in sync[d].todo : l.key # k
    OBVIOUS
  <2>1. Working(k) = {c}
    <3>1. Current(c).key = k
      BY CurrentIsFirst
    <3> QED  BY <3>1 DEF ReadSuite
  <2>2. \A l \in sync[d].todo : l.key # k
    BY <2>1 DEF Working
  <2>3. sync[d].todo # {} => First(sync[d].todo) \in sync[d].todo
    BY CurrentListed
  <2>4. ~Copies(sync[d], k)
    BY <2>2, <2>3 DEF Copies, SyncInv, SyncOk
  <2> QED  BY <2>2, <2>4
<1>6. \A d \in Syncs : d # c => sync'[d] = sync[d]
  BY OthersStay DEF OwnStep
<1>7. object' = object /\ table' = table /\ lastUpdated' = lastUpdated
  BY DEF ReadSuite, storeVars
<1>r. n.content = o.content \/ First(s.todo).key # k
  BY <1>f
<1> HIDE DEF n, s, o, u, t
<1>0. First(n.todo) = First(s.todo)
  BY <1>f
<1>1. Synced(n, t, k) /\ Compared(n, u, t, k) /\ Passed(n, t, k)
  BY <1>c, <1>f, <1>s DEF Synced, Compared, Passed
<1>2. ReadOk(n, o, t, k)
  <2> SUFFICES ASSUME Copies(n, k) PROVE ReadOk(n, o, t, k)
    BY DEF ReadOk
  <2>1. n.content = o.content
    BY <1>0, <1>r DEF Copies
  <2>2. t <= n.content /\ n.content <= o.content /\ n.start[k] <= n.content
    BY <1>c, <1>f, <1>o, <2>1 DEF Fresh
  <2> QED  BY <1>f, <2>1, <2>2 DEF ReadOk
<1>3. ASSUME NEW d \in Syncs, d # c PROVE Apart(n, sync[d], t, k) /\ Apart(sync[d], n, t, k)
  <2> DEFINE r == sync[d]
  <2>1. Apart(s, r, t, k)
    BY <1>c, <1>3
  <2>2. First(s.todo).key = k => ~Copies(r, k) /\ \A l \in r.todo : l.key # k
    BY <1>3, <1>w
  <2> HIDE DEF r
  <2>3. CASE First(s.todo).key = k
    <3>1. Apart(n, r, t, k)
      BY <2>2, <2>3 DEF Apart
    <3>2. Apart(r, n, t, k)
      <4>1. ~Copies(r, k) /\ \A l \in r.todo : ~(l.key = k)
        BY <2>2, <2>3
      <4> QED  BY <4>1 DEF Apart
    <3> QED  BY <3>1, <3>2 DEF r
  <2>4. CASE First(s.todo).key # k
    <3>1. ~Copies(n, k)
      BY <1>0, <2>4 DEF Copies
    <3>2. Apart(n, r, t, k)
      BY <1>f, <2>1, <3>1 DEF Apart
    <3>3. Apart(r, n, t, k)
      BY <3>1 DEF Apart
    <3> QED  BY <3>2, <3>3 DEF r
  <2> QED  BY <2>3, <2>4 DEF r
<1>8. Each(n, o, u, t, k)
  BY <1>1, <1>2 DEF Each
<1>9. Each(sync'[c], object[k], lastUpdated[k], table[k], k)
  BY <1>8 DEF n, o, u, t
<1>10. \A d \in Syncs : d # c => /\ Apart(sync'[c], sync[d], table[k], k)
                                 /\ Apart(sync[d], sync'[c], table[k], k)
  BY <1>3 DEF n, t
<1> QED  BY <1>6, <1>7, <1>9, <1>10, OneChanges

\* What is put into the table is newer than what it held, and nobody else is copying the
\* object.
LEMMA ClearUpsert ==
    ASSUME TypeOK, SyncInv, ObjectInv, NEW c \in Syncs, Upsert(c), NEW k \in Keys, ClearAt(k)
    PROVE  ClearAt(k)'
<1>s. sync[c].pc = "upsert" /\ sync[c].todo # {}
  BY CopyingHasSome DEF Upsert
<1>6. \A d \in Syncs : d # c => sync'[d] = sync[d]
  BY OthersStay DEF OwnStep
<1>7. object' = object /\ lastUpdated' = lastUpdated
  BY DEF Upsert, storeVars
<1>w. table'[k] = IF k = First(sync[c].todo).key THEN sync[c].content ELSE table[k]
  BY <1>s, UpsertWrites
<1>m. First(sync[c].todo) \in sync[c].todo
      /\ (First(sync[c].todo).key = k => First(sync[c].todo).modified <= object[k].modified)
      /\ First(sync[c].todo).modified \in Nat
  BY <1>s, CurrentListed, NeverIsBefore DEF ObjectInv
<1>t. /\ table[k] \in Nat /\ table'[k] \in Nat /\ sync[c].content \in Nat
      /\ object[k].modified \in Nat /\ lastUpdated[k] \in Int
      /\ \A d \in Syncs : sync[d].start[k] \in Nat
  BY <1>w, KeyTypes, SyncTypes
<1>c. /\ Fresh(object[k], lastUpdated[k], table[k])
      /\ \A d \in Syncs : Each(sync[d], object[k], lastUpdated[k], table[k], k)
      /\ \A d, e \in Syncs : d # e => Apart(sync[d], sync[e], table[k], k)
  BY DEF ClearAt
<1>f. /\ sync'[c].pc = "record" /\ sync'[c].todo = sync[c].todo
      /\ sync'[c].next = sync[c].next /\ sync'[c].content = sync[c].content
      /\ sync'[c].result = sync[c].result /\ sync'[c].start = sync[c].start
  BY UpsertFields
<1>g. Copies(sync[c], k) <=> First(sync[c].todo).key = k
  BY <1>s DEF Copies
<1>h. Copies(sync'[c], k) <=> First(sync[c].todo).key = k
  BY <1>f DEF Copies
<1> DEFINE n == sync'[c]
           s == sync[c]
           o == object[k]
           u == lastUpdated[k]
           t == table[k]
           v == table'[k]
<1> HIDE DEF n, s, o, u, t, v
<1>k. First(s.todo).key = k => v = s.content
  BY <1>w DEF s, v
<1>r. First(s.todo).key = k =>
          /\ t <= s.content /\ s.content <= o.content /\ s.start[k] <= s.content
          /\ First(s.todo).modified = o.modified => s.content = o.content
  <2>1. ReadOk(s, o, t, k) /\ s.pc = "upsert" /\ (Copies(s, k) <=> First(s.todo).key = k)
    BY <1>c, <1>g, <1>s DEF s, o, t, u, Each
  <2> QED  BY <2>1 DEF ReadOk
<1>v. t <= v /\ t \in Nat /\ v \in Nat
  <2>1. First(s.todo).key = k => t <= v
    BY <1>k, <1>r
  <2>2. First(s.todo).key # k => v = t
    BY <1>w DEF s, t, v
  <2>3. t \in Nat /\ v \in Nat
    BY <1>t DEF t, v
  <2> QED  BY <2>1, <2>2, <2>3
<1>1. Fresh(o, u, v)
  <2>1. CASE First(s.todo).key = k
    <3>1. ASSUME u = o.modified PROVE v = o.content
      <4>1. Compared(s, u, t, k) /\ First(s.todo) \in s.todo
        BY <1>c, <1>m DEF s, o, t, u, Each
      <4>2. u <= First(s.todo).modified
        BY <2>1, <4>1 DEF Compared
      <4>3. First(s.todo).modified <= o.modified /\ First(s.todo).modified \in Nat
            /\ o.modified \in Nat
        BY <1>m, <1>t, <2>1 DEF s, o
      <4>4. First(s.todo).modified = o.modified
        BY <3>1, <4>2, <4>3
      <4> QED  BY <1>k, <1>r, <2>1, <4>4
    <3> QED  BY <1>k, <1>r, <2>1, <3>1 DEF Fresh
  <2>2. CASE First(s.todo).key # k
    BY <1>c, <1>w, <2>2 DEF s, o, u, t, v
  <2> QED  BY <2>1, <2>2
\* For a sync d: what it had is kept by a table that is newer.
<1>2. ASSUME NEW d \in Syncs
      PROVE  /\ Synced(sync[d], v, k) /\ Compared(sync[d], u, v, k) /\ Passed(sync[d], v, k)
  <2>1. Synced(sync[d], t, k) /\ Compared(sync[d], u, t, k) /\ Passed(sync[d], t, k)
    BY <1>c DEF Each, o, u, t
  <2>2. sync[d].start[k] <= t => sync[d].start[k] <= v
    BY <1>t, <1>v
  <2> QED  BY <2>1, <2>2 DEF Synced, Compared, Passed
<1>3. Synced(n, v, k) /\ Compared(n, u, v, k) /\ Passed(n, v, k)
  <2>1. Synced(s, v, k) /\ Compared(s, u, v, k) /\ Passed(s, v, k)
    BY <1>2 DEF s
  <2>2. n.todo = s.todo /\ n.start = s.start /\ n.result = s.result /\ n.next = s.next
        /\ s.pc # "idle"
    BY <1>f, <1>s DEF n, s
  <2> QED  BY <2>1, <2>2 DEF Synced, Compared, Passed
<1>4. ReadOk(n, o, v, k)
  <2>1. n.pc = "record" /\ n.todo = s.todo /\ n.start = s.start
        /\ (Copies(n, k) <=> First(s.todo).key = k)
    BY <1>f, <1>h DEF n, s
  <2> QED  BY <1>k, <1>r, <2>1 DEF ReadOk
<1>5. ASSUME NEW d \in Syncs, d # c PROVE ReadOk(sync[d], o, v, k)
  <2>1. CASE First(s.todo).key = k
    <3>1. ~Copies(sync[d], k)
      BY <1>c, <1>5, <1>g, <2>1 DEF Apart, s
    <3> QED  BY <3>1 DEF ReadOk
  <2>2. CASE First(s.todo).key # k
    <3>1. v = t
      BY <1>w, <2>2 DEF s, t, v
    <3> QED  BY <1>c, <3>1 DEF Each, o, u, t
  <2> QED  BY <2>1, <2>2
<1>8. ASSUME NEW d \in Syncs, d # c PROVE Apart(n, sync[d], v, k) /\ Apart(sync[d], n, v, k)
  <2> DEFINE r == sync[d]
  <2>1. Apart(s, r, t, k) /\ Apart(r, s, t, k)
    BY <1>c, <1>8 DEF s, t
  <2>2. n.todo = s.todo /\ n.start = s.start /\ n.pc = "record" /\ s.pc = "upsert"
        /\ n.content = s.content
        /\ (Copies(n, k) <=> First(s.todo).key = k) /\ (Copies(s, k) <=> First(s.todo).key = k)
    BY <1>f, <1>g, <1>h, <1>s DEF n, s
  <2> HIDE DEF r
  <2>3. CASE First(s.todo).key = k
    <3>1. ~Copies(r, k)
      BY <2>1, <2>2, <2>3 DEF Apart
    <3>2. Apart(n, r, v, k)
      BY <3>1 DEF Apart
    <3>3. Apart(r, n, v, k)
      <4>1. ASSUME NEW l \in r.todo, l.key = k
            PROVE  /\ First(n.todo).modified <= l.modified
                   /\ First(n.todo).modified = l.modified => r.start[k] <= v
        BY <1>k, <2>1, <2>2, <2>3, <4>1 DEF Apart
      <4> QED  BY <2>2, <3>1, <4>1 DEF Apart
    <3> QED  BY <3>2, <3>3 DEF r
  <2>4. CASE First(s.todo).key # k
    <3>1. v = t
      BY <1>w, <2>4 DEF s, t, v
    <3>2. Apart(n, r, v, k)
      BY <2>1, <2>2, <2>4, <3>1 DEF Apart
    <3>3. Apart(r, n, v, k)
      BY <2>2, <2>4 DEF Apart
    <3> QED  BY <3>2, <3>3 DEF r
  <2> QED  BY <2>3, <2>4
<1>9. ASSUME NEW d \in Syncs, NEW e \in Syncs, d # c, e # c, d # e
      PROVE  Apart(sync[d], sync[e], v, k)
  <2>1. CASE First(s.todo).key = k
    <3>1. ~Copies(sync[e], k)
      BY <1>c, <1>9, <1>g, <2>1 DEF Apart, s
    <3> QED  BY <3>1 DEF Apart
  <2>2. CASE First(s.todo).key # k
    <3>1. v = t
      BY <1>w, <2>2 DEF s, t, v
    <3> QED  BY <1>c, <1>9, <3>1 DEF t
  <2> QED  BY <2>1, <2>2
<1>10. \A d \in Syncs : Each(sync'[d], o, u, v, k)
  <2>1. Each(n, o, u, v, k)
    BY <1>3, <1>4 DEF Each
  <2>2. \A d \in Syncs : d # c => Each(sync[d], o, u, v, k)
    BY <1>2, <1>5 DEF Each
  <2> QED  BY <1>6, <2>1, <2>2 DEF n
<1>11. ASSUME NEW d \in Syncs, NEW e \in Syncs, d # e PROVE Apart(sync'[d], sync'[e], v, k)
  <2>1. CASE d = c
    BY <1>6, <1>8, <1>11, <2>1 DEF n
  <2>2. CASE e = c
    BY <1>6, <1>8, <1>11, <2>2 DEF n
  <2>3. CASE d # c /\ e # c
    BY <1>6, <1>9, <1>11, <2>3
  <2> QED  BY <2>1, <2>2, <2>3
<1> QED  BY <1>1, <1>7, <1>10, <1>11 DEF ClearAt, o, u, v

\* What is remembered is the time of what was copied, or of something older.
LEMMA ClearRecord ==
    ASSUME TypeOK, SyncInv, ObjectInv, NEW c \in Syncs, Record(c), NEW k \in Keys, ClearAt(k)
    PROVE  ClearAt(k)'
<1>s. sync[c].pc = "record" /\ sync[c].todo # {}
  BY CopyingHasSome DEF Record
<1>6. \A d \in Syncs : d # c => sync'[d] = sync[d]
  BY OthersStay DEF OwnStep
<1>7. object' = object /\ table' = table
  BY DEF Record
<1>w. lastUpdated'[k] = IF k = First(sync[c].todo).key THEN First(sync[c].todo).modified
                        ELSE lastUpdated[k]
  BY <1>s, RecordWrites
<1>m. First(sync[c].todo) \in sync[c].todo
  BY <1>s, CurrentListed
<1>c. /\ Fresh(object[k], lastUpdated[k], table[k])
      /\ \A d \in Syncs : Each(sync[d], object[k], lastUpdated[k], table[k], k)
      /\ \A d, e \in Syncs : d # e => Apart(sync[d], sync[e], table[k], k)
  BY DEF ClearAt
<1>f. /\ sync'[c].pc = "object" /\ sync'[c].todo = sync[c].todo \ {First(sync[c].todo)}
      /\ sync'[c].next = sync[c].next /\ sync'[c].result = sync[c].result
      /\ sync'[c].start = sync[c].start
  BY RecordFields
<1>g. Copies(sync[c], k) <=> First(sync[c].todo).key = k
  BY <1>s DEF Copies
<1>q. \A a, b \in sync[c].todo : a.key = b.key => a = b
  BY DEF SyncInv, SyncOk
<1> DEFINE n == sync'[c]
           s == sync[c]
           o == object[k]
           u == lastUpdated[k]
           w == lastUpdated'[k]
           t == table[k]
<1> HIDE DEF n, s, o, u, w, t
<1>n. /\ n.pc = "object" /\ n.todo = s.todo \ {First(s.todo)} /\ n.next = s.next
      /\ n.result = s.result /\ n.start = s.start /\ s.pc = "record"
  BY <1>f, <1>s DEF n, s
<1>k. /\ First(s.todo).key = k => w = First(s.todo).modified
      /\ First(s.todo).key # k => w = u
  BY <1>w DEF s, u, w
<1>e. Fresh(o, u, t) /\ Each(s, o, u, t, k)
  BY <1>c DEF s, o, u, t
<1>r. First(s.todo).key = k => /\ s.start[k] <= t
                               /\ First(s.todo).modified = o.modified => t = o.content
  <2>1. ReadOk(s, o, t, k) /\ (Copies(s, k) <=> First(s.todo).key = k)
    BY <1>e, <1>g DEF s, Each
  <2> QED  BY <1>n, <2>1 DEF ReadOk
<1>1. Fresh(o, w, t)
  BY <1>e, <1>k, <1>r DEF Fresh
<1>2. Synced(n, t, k) /\ ReadOk(n, o, t, k)
  <2>1. ReadOk(n, o, t, k)
    BY <1>n, Free
  <2> QED  BY <1>e, <1>n, <2>1 DEF Each, Synced
<1>3. Compared(n, w, t, k)
  <2>1. CASE First(s.todo).key = k
    <3>1. \A l \in n.todo : l.key # k
      BY <1>m, <1>n, <1>q, <2>1 DEF s
    <3> QED  BY <3>1 DEF Compared
  <2>2. CASE First(s.todo).key # k
    <3>1. w = u /\ n.todo \subseteq s.todo /\ n.start = s.start
      BY <1>k, <1>n, <2>2
    <3> QED  BY <1>e, <3>1 DEF Compared, Each
  <2> QED  BY <2>1, <2>2
<1>4. Passed(n, t, k)
  <2> SUFFICES ASSUME k < n.next, \A l \in n.todo : l.key # k
               PROVE  s.start[k] <= t
    BY <1>n DEF Passed
  <2>1. CASE First(s.todo).key = k
    BY <1>r, <2>1
  <2>2. CASE First(s.todo).key # k
    <3>1. \A l \in s.todo : l.key # k
      BY <1>n, <2>2
    <3> QED  BY <1>e, <1>n, <3>1 DEF Each, Passed
  <2> QED  BY <2>1, <2>2
<1>5. ASSUME NEW d \in Syncs, d # c PROVE Each(sync[d], o, w, t, k)
  <2> DEFINE r == sync[d]
  <2>1. Each(r, o, u, t, k) /\ Apart(r, s, t, k)
    BY <1>c, <1>5 DEF o, u, t, s
  <2>2. Copies(s, k) <=> First(s.todo).key = k
    BY <1>g DEF s
  <2> HIDE DEF r
  <2>3. Compared(r, w, t, k)
    <3>1. CASE First(s.todo).key = k
      <4>1. \A l \in r.todo : l.key = k =>
                /\ First(s.todo).modified <= l.modified
                /\ First(s.todo).modified = l.modified => r.start[k] <= t
        BY <1>n, <2>1, <2>2, <3>1 DEF Apart
      <4> QED  BY <1>k, <3>1, <4>1 DEF Compared
    <3>2. CASE First(s.todo).key # k
      BY <1>k, <2>1, <3>2 DEF Each
    <3> QED  BY <3>1, <3>2
  <2>4. Each(r, o, w, t, k)
    BY <2>1, <2>3 DEF Each
  <2> QED  BY <2>4 DEF r
<1>8. ASSUME NEW d \in Syncs, d # c PROVE Apart(n, sync[d], t, k) /\ Apart(sync[d], n, t, k)
  <2>1. Apart(s, sync[d], t, k)
    BY <1>c, <1>8 DEF s, t
  <2>2. n.todo \subseteq s.todo /\ n.start = s.start /\ ~Copies(n, k)
    BY <1>n DEF Copies
  <2>3. Apart(n, sync[d], t, k)
    BY <2>1, <2>2 DEF Apart
  <2>4. Apart(sync[d], n, t, k)
    BY <2>2 DEF Apart
  <2> QED  BY <2>3, <2>4
<1>9. \A d \in Syncs : Each(sync'[d], o, w, t, k)
  <2>1. Each(n, o, w, t, k)
    BY <1>2, <1>3, <1>4 DEF Each
  <2> QED  BY <1>5, <1>6, <2>1 DEF n
<1>10. ASSUME NEW d \in Syncs, NEW e \in Syncs, d # e PROVE Apart(sync'[d], sync'[e], t, k)
  <2>1. CASE d = c
    BY <1>6, <1>8, <1>10, <2>1 DEF n
  <2>2. CASE e = c
    BY <1>6, <1>8, <1>10, <2>2 DEF n
  <2>3. CASE d # c /\ e # c
    BY <1>6, <1>c, <1>10, <2>3 DEF t
  <2> QED  BY <2>1, <2>2, <2>3
<1> QED  BY <1>1, <1>7, <1>9, <1>10 DEF ClearAt, o, w, t

\* What is written is later than what was listed and remembered, unless the bucket's clock
\* cannot tell (PutObject, twice in one unit of time).
LEMMA ClearWrite ==
    ASSUME TypeOK, SyncInv, ObjectInv, NEW j \in Keys, WriteSuite(j),
           NEW k \in Keys, k \notin muddled', ClearAt(k)
    PROVE  ClearAt(k)'
<1>w. table' = table /\ lastUpdated' = lastUpdated /\ sync' = sync
  BY WriteLeaves
<1>f. /\ j = k => object'[k].content = writes + 1 /\ object'[k].modified = now
      /\ j # k => object'[k] = object[k]
      /\ j = k => ~(object[k].content > 0 /\ object[k].modified = now)
  BY WriteFields
<1>n. /\ now \in Nat /\ writes \in Nat /\ object[k].content \in Nat
      /\ object[k].content <= writes /\ object[k].modified \in Nat
      /\ table[k] \in Nat /\ lastUpdated[k] \in Int
  BY KeyTypes
<1>o. /\ object[k].modified <= now /\ lastUpdated[k] <= object[k].modified
      /\ object[k].content = 0 => lastUpdated[k] = Never
  BY DEF ObjectInv
<1>1. CASE j # k
  BY <1>1, <1>f, <1>w DEF ClearAt
<1>2. CASE j = k
  <2>1. object'[k].content = writes + 1 /\ object'[k].modified = now
    BY <1>2, <1>f
  <2>2. lastUpdated[k] # now
    <3>1. CASE object[k].content = 0
      BY <1>n, <1>o, <3>1, NeverIsBefore
    <3>2. CASE object[k].content # 0
      BY <1>2, <1>f, <1>n, <1>o, <3>2
    <3> QED  BY <3>1, <3>2
  <2>3. Fresh(object'[k], lastUpdated[k], table[k])
    <3>1. table[k] <= object[k].content
      BY DEF ClearAt, Fresh
    <3>2. table[k] <= writes + 1
      BY <1>n, <3>1
    <3> QED  BY <2>1, <2>2, <3>2 DEF Fresh
  <2>4. ASSUME NEW c \in Syncs PROVE ReadOk(sync[c], object'[k], table[k], k)
    <3> SUFFICES ASSUME Copies(sync[c], k)
                 PROVE  ReadOk(sync[c], object'[k], table[k], k)
      BY DEF ReadOk
    <3>1. sync[c].todo # {} /\ First(sync[c].todo).key = k
      BY DEF Copies, SyncInv, SyncOk
    <3>2. First(sync[c].todo) \in sync[c].todo /\ First(sync[c].todo).modified \in Nat
      BY <3>1, CurrentListed, NeverIsBefore
    <3>3. object[k].content > 0 /\ First(sync[c].todo).modified <= object[k].modified
      BY <3>1, <3>2 DEF ObjectInv
    <3>4. First(sync[c].todo).modified # now
      BY <1>2, <1>f, <1>n, <1>o, <3>2, <3>3
    <3>5. ReadOk(sync[c], object[k], table[k], k)
      BY ClearParts
    <3>6. sync[c].content \in Nat
      BY SyncTypes
    <3>7. sync[c].content <= object[k].content => sync[c].content <= writes + 1
      BY <1>n, <3>6
    <3> QED  BY <2>1, <3>4, <3>5, <3>7 DEF ReadOk
  <2>5. ASSUME NEW c \in Syncs PROVE Each(sync[c], object'[k], lastUpdated[k], table[k], k)
    BY <2>4, ClearParts DEF Each
  <2>6. ASSUME NEW c \in Syncs, NEW d \in Syncs, c # d PROVE Apart(sync[c], sync[d], table[k], k)
    BY <2>6 DEF ClearAt
  <2> QED  BY <1>w, <2>3, <2>5, <2>6 DEF ClearAt
<1> QED  BY <1>1, <1>2

\* A server that restarts remembers nothing, and knows what is in its table by nothing else.
LEMMA ClearRestart ==
    ASSUME TypeOK, Restart, NEW k \in Keys, ClearAt(k)
    PROVE  ClearAt(k)'
<1>1. object' = object /\ table' = table /\ lastUpdated'[k] = Never
  BY DEF Restart
<1>2. Fresh(object[k], Never, table[k])
  <2>1. Never # object[k].modified
    BY KeyTypes, NeverIsBefore
  <2>2. Fresh(object[k], lastUpdated[k], table[k])
    BY DEF ClearAt
  <2> QED  BY <2>1, <2>2 DEF Fresh
<1>3. ASSUME NEW c \in Syncs PROVE Each(sync'[c], object[k], Never, table[k], k)
  <2>1. sync'[c].pc = "idle" /\ sync'[c].todo = {} /\ sync'[c].result = "none"
    BY RestartFields
  <2>2. Synced(sync'[c], table[k], k) /\ Passed(sync'[c], table[k], k)
    BY <2>1 DEF Synced, Passed
  <2>3. Compared(sync'[c], Never, table[k], k) /\ ReadOk(sync'[c], object[k], table[k], k)
    BY <2>1, Quiet
  <2> QED  BY <2>2, <2>3 DEF Each
<1>4. ASSUME NEW c \in Syncs, NEW d \in Syncs PROVE Apart(sync'[c], sync'[d], table[k], k)
  <2>1. sync'[c].pc = "idle" /\ sync'[c].todo = {}
    BY RestartFields
  <2> QED  BY <2>1, Quiet
<1> QED  BY <1>1, <1>2, <1>3, <1>4 DEF ClearAt

\* Every step keeps it of the keys that can be told.
LEMMA ClearInvStep ==
    ASSUME TypeOK, SyncInv, ObjectInv, ClearInv, [Next]_vars
    PROVE  ClearInv'
<1>m. muddled \subseteq muddled'
  <2>1. \A c \in Syncs : OwnStep(c) => muddled \subseteq muddled'
    BY OwnLeaves
  <2>2. \A j \in Keys : WriteSuite(j) => muddled \subseteq muddled'
    BY WriteFields
  <2>3. Restart \/ Tick \/ UNCHANGED vars => muddled \subseteq muddled'
    BY RestartLeaves, TickLeaves, StutterLeaves
  <2> QED  BY <2>1, <2>2, <2>3, Steps
<1> SUFFICES ASSUME NEW k \in Others, k \notin muddled'
             PROVE  ClearAt(k)'
  BY DEF ClearInv, ClearAt
<1>k. k \in Keys /\ ClearAt(k)
  BY <1>m DEF ClearInv, ClearAt, Others
<1>1. ASSUME NEW j \in Keys, WriteSuite(j) PROVE ClearAt(k)'
  BY <1>1, <1>k, ClearWrite
<1>2. ASSUME NEW c \in Syncs, OwnStep(c) PROVE ClearAt(k)'
  <2>1. CASE Begin(c) \/ Skip(c) \/ SyncFails(c)
    BY <1>k, <2>1, ClearBegin
  <2>2. CASE Mark(c) \/ PageEnds(c)
    BY <1>k, <2>2, ClearPage
  <2>3. CASE NextPage(c)
    BY <1>k, <2>3, ClearNextPage
  <2>4. CASE SkipUnchanged(c) \/ (ReadSuite(c) /\ Names[First(sync[c].todo).key] = Self)
    BY <1>k, <2>4, ClearDrop
  <2>5. CASE ReadSuite(c) /\ Names[First(sync[c].todo).key] # Self
    BY <1>k, <2>5, ClearRead
  <2>6. CASE Upsert(c)
    BY <1>k, <2>6, ClearUpsert
  <2>7. CASE Record(c)
    BY <1>k, <2>7, ClearRecord
  <2> QED  BY <1>2, <2>1, <2>2, <2>3, <2>4, <2>5, <2>6, <2>7 DEF OwnStep
<1>3. CASE Restart
  BY <1>3, <1>k, ClearRestart
<1>4. CASE Tick
  BY <1>4, <1>k, TickLeaves DEF ClearAt
<1>5. CASE UNCHANGED vars
  BY <1>5, <1>k, StutterLeaves DEF ClearAt
<1> QED  BY <1>1, <1>2, <1>3, <1>4, <1>5, Steps

-------------------------------------------------------------------------------
(* The theorems *)

\* It holds of a server that has not synced yet, before an empty bucket.
LEMMA Initially == Init => IInv
<1> SUFFICES ASSUME Init PROVE IInv
  OBVIOUS
<1>i. /\ now = 0 /\ writes = 0 /\ faults = 0 /\ muddled = {}
      /\ object = [k \in Keys |-> [content |-> 0, modified |-> 0]]
      /\ table = [k \in Keys |-> 0]
      /\ lastUpdated = [k \in Keys |-> Never] /\ lastSync = Never
      /\ sync = [c \in Syncs |-> Idle("none")]
  BY DEF Init
<1>f. \A c \in Syncs : /\ sync[c].pc = "idle" /\ sync[c].todo = {} /\ sync[c].next = 1
                       /\ sync[c].content = 0 /\ sync[c].result = "none"
                       /\ sync[c].start = [k \in Keys |-> 0]
  BY <1>i DEF Idle, NoRead
<1>1. TypeOK
  <2>1. 0 \in Times /\ 0 \in 0 .. MaxWrites /\ 0 \in 0 .. MaxFaults
    BY BoundsAssumption DEF Times
  <2>2. sync \in [Syncs -> Sync]
    BY <1>i, IdleTyped
  <2>3. object \in [Keys -> [content : 0 .. 0, modified : Times]] /\ table \in [Keys -> 0 .. 0]
    BY <1>i, <2>1
  <2>4. lastUpdated \in [Keys -> Times \cup {Never}] /\ lastSync \in Times \cup {Never}
    BY <1>i
  <2> QED  BY <1>i, <2>1, <2>2, <2>3, <2>4 DEF TypeOK
<1>2. SyncInv
  BY <1>f, <1>i DEF SyncInv, SyncOk
<1>3. ObjectInv
  <2>1. \A k \in Keys : KeyOk(k)
    BY <1>i, NeverIsBefore DEF KeyOk
  <2>2. \A c \in Syncs : ListedOk(sync[c])
    BY <1>f, <1>i DEF ListedOk
  <2> QED  BY <2>1, <2>2, ObjectInvParts
<1>4. ASSUME NEW k \in Keys PROVE ClearAt(k)
  <2>1. Fresh(object[k], lastUpdated[k], table[k])
    BY <1>i DEF Fresh
  <2>2. ASSUME NEW c \in Syncs PROVE Each(sync[c], object[k], lastUpdated[k], table[k], k)
    <3>1. Synced(sync[c], table[k], k) /\ Passed(sync[c], table[k], k)
      BY <1>f DEF Synced, Passed
    <3>2. Compared(sync[c], lastUpdated[k], table[k], k)
          /\ ReadOk(sync[c], object[k], table[k], k)
      BY <1>f, Quiet
    <3> QED  BY <3>1, <3>2 DEF Each
  <2>3. ASSUME NEW c \in Syncs, NEW d \in Syncs PROVE Apart(sync[c], sync[d], table[k], k)
    BY <1>f, Quiet
  <2> QED  BY <2>1, <2>2, <2>3 DEF ClearAt
<1>5. ClearInv
  BY <1>4 DEF ClearInv, ClearAt, Others
<1> QED  BY <1>1, <1>2, <1>3, <1>5 DEF IInv

\* Every step of the servers and of the syncs keeps the invariant.
THEOREM Inductive == Spec => []IInv
<1>1. IInv /\ [Next]_vars => IInv'
  BY TypeStep, SyncInvStep, ObjectInvStep, ClearInvStep DEF IInv
<1> QED  BY Initially, <1>1, PTL DEF Spec

\* The variables of the store, the bucket and the syncs have their types.
THEOREM Types == Spec => []TypeOK
<1>1. IInv => TypeOK
  BY DEF IInv
<1> QED  BY Inductive, <1>1, PTL

\* What the next sync passes over is what the table holds (lastUpdated in SyncSuites).
THEOREM PassedOverIsCopied == Spec => []UnchangedIsCopied
<1>1. IInv => UnchangedIsCopied
  BY DEF IInv, ClearInv, Fresh, UnchangedIsCopied
<1> QED  BY Inductive, <1>1, PTL

\* A sync that reports success has copied what the bucket held as it began, and nothing of
\* the server itself (the answer of SyncReferenceConfigSuites).
THEOREM SuccessIsCopied == Spec => []SyncedIsCopied
<1>1. IInv => SyncedIsCopied
  <2> SUFFICES ASSUME IInv, NEW c \in Syncs, sync[c].result = "synced"
               PROVE  /\ \A k \in Others \ muddled : table[k] >= sync[c].start[k]
                      /\ \A k \in Keys \ Others : table[k] = 0
    BY DEF SyncedIsCopied
  <2>1. ASSUME NEW k \in Others \ muddled PROVE table[k] >= sync[c].start[k]
    BY DEF IInv, ClearInv, Each, Synced
  <2>2. ASSUME NEW k \in Keys \ Others PROVE table[k] = 0
    BY DEF IInv, ObjectInv, Others
  <2> QED  BY <2>1, <2>2
<1> QED  BY Inductive, <1>1, PTL
===============================================================================
