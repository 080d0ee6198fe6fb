--------------------------- MODULE HandleThreads ---------------------------
(***************************************************************************)
(* Calls of the handle manager and its store by several EE threads at once,*)
(* at the grain of their accesses to the static tables, while the store is *)
(* up.  Nothing here takes a lock; the one atomic operation is the exchange*)
(* of MiniGCCompareExchangePointer.                                        *)
(*                                                                         *)
(* A call first checks its handle, or that there is room, and then writes. *)
(* The writes of one call are plain stores to different tables with no     *)
(* fence between them, so they may take effect in any order (secondary and *)
(* info that are set to null are one, for short); handlesCount++ is a load *)
(* and one of those stores.  Getters write nothing; a creation with extra  *)
(* info or a secondary is a creation and a set by one thread.              *)
(*                                                                         *)
(* raced is a history variable: the handles of which two calls overlapped  *)
(* that exclude each other, one that puts something in and one that empties*)
(* it.  Two creations that overlap endanger every slot.                    *)
(***************************************************************************)
EXTENDS Integers, FiniteSets

CONSTANTS
  Threads,
  Objects, Null, HandleTypes, Infos, MaxHandles, NoHandle    \* as in MiniGCHandles

ASSUME ThreadsAssumption ==
  MaxHandles \in Nat /\ Null \notin Objects /\ NoHandle \notin Int

VARIABLES
  handlesCount, handles, handleTypes, dependentSecondaries, extraInfo,
  wanted,         \* as in MiniGCHandles
  call,           \* the call each thread is in, Idle for none
  raced

tables == <<handles, handleTypes, dependentSecondaries, extraInfo>>
vars == <<handlesCount, tables, wanted, call, raced>>

(* What a call stores in the slot's entry of each table.                   *)
Entry(object, type, secondary, info) ==
  [object |-> object, type |-> type, secondary |-> secondary, info |-> info]
NoEntry == Entry(Null, "WEAK_SHORT", Null, Null)

(* A call: the slot it is about, the entry, what an exchange expects, and  *)
(* the writes it still has to do.                                          *)
Call(op, h, entry, comparand, todo) ==
  [op |-> op, h |-> h, entry |-> entry, comparand |-> comparand, todo |-> todo]
Idle == Call("idle", NoHandle, NoEntry, Null, {})

In(ops) == {t \in Threads : call[t].op \in ops}
SlotsOf(ops) == {call[t].h : t \in In(ops)}
Creating == SlotsOf({"create"})
Destroying == SlotsOf({"destroy"})

(* The serialised table: a creation has not happened until it returns, and *)
(* a destroy has once it has found its handle.                             *)
Counted == {t \in In({"create"}) : "count" \notin call[t].todo}
Hide(hidden, table, value) ==
  [i \in DOMAIN table |-> IF i \in hidden THEN value ELSE table[i]]

Table == INSTANCE MiniGCHandles WITH
  storeUp              <- TRUE,
  handlesCount         <- handlesCount - Cardinality(Counted),
  handles              <- Hide(Creating \cup Destroying, handles, Null),
  handleTypes          <- Hide(Creating, handleTypes, "WEAK_SHORT"),
  dependentSecondaries <- Hide(Creating \cup Destroying, dependentSecondaries, Null),
  extraInfo            <- Hide(Creating \cup Destroying, extraInfo, Null)

Refs == Objects \cup {Null}
Slots == 0..(MaxHandles - 1)
Owned == DOMAIN wanted

Init ==
  /\ handlesCount = 0
  /\ handles = [i \in Slots |-> Null]
  /\ handleTypes = [i \in Slots |-> "WEAK_SHORT"]
  /\ dependentSecondaries = [i \in Slots |-> Null]
  /\ extraInfo = [i \in Slots |-> Null]
  /\ wanted = [h \in {} |-> NoEntry]
  /\ call = [t \in Threads |-> Idle]
  /\ raced = {}

-----------------------------------------------------------------------------
(* The checks in front of every access, on the tables as they are now.     *)
InTable(h) == h \in 0..(handlesCount - 1)
ContainsHandle(h) == InTable(h) /\ handles[h] # Null

HasRoom == handlesCount < MaxHandles

Start(t, c) == call[t] = Idle /\ call' = [call EXCEPT ![t] = c]

Stores == {"store", "exchange"}
Empties(c) == c.op \in Stores \cup {"destroy"} /\ c.entry = NoEntry
Fills(c) == c.op \in Stores \cup {"set"} /\ c.entry # NoEntry

(* c and d exclude each other: a destroy and anything that puts something  *)
(* in, or two stores of which one puts in null.                            *)
Excludes(c, d) ==
  /\ Empties(c) /\ Fills(d)
  /\ c.op = "destroy" \/ d.op \in Stores

(* The call c overlaps with one under way that excludes it.                *)
Meets(c) ==
  raced' = IF \E u \in Threads :
                call[u].h = c.h /\ (Excludes(c, call[u]) \/ Excludes(call[u], c))
           THEN raced \cup {c.h} ELSE raced

-----------------------------------------------------------------------------
(* CreateHandleOfType: is there room, which index, and the writes.         *)
CheckRoom(t, object, type) ==
  /\ IF HasRoom
       THEN Start(t, Call("claim", NoHandle, Entry(object, type, Null, Null), Null, {}))
       ELSE call[t] = Idle /\ UNCHANGED call
  /\ raced' = IF HasRoom /\ In({"claim", "create"}) # {} THEN Slots ELSE raced
  /\ UNCHANGED <<handlesCount, tables, wanted>>

CreateWritesWithoutCount == {"object", "type", "nulls"}

CreateWrites == {"count", "object", "type", "nulls"}

LoadIndex(t) ==
  /\ call[t].op = "claim"
  /\ call' = [call EXCEPT ![t] =
                Call("create", handlesCount, @.entry, Null, CreateWrites)]
  /\ UNCHANGED <<handlesCount, tables, wanted, raced>>

(* CreateDuplicateHandle reads object and type of the handle it has found  *)
(* and creates; the handle may be gone by the time it reads.               *)
FindOriginal(t, h) ==
  /\ IF ContainsHandle(h)
       THEN Start(t, Call("duplicate", h, NoEntry, Null, {}))
       ELSE call[t] = Idle /\ UNCHANGED call
  /\ UNCHANGED <<handlesCount, tables, wanted, raced>>

CopyOriginal(t) ==
  LET h == call[t].h IN
  /\ call[t].op = "duplicate"
  /\ call' = [call EXCEPT ![t] =
                IF HasRoom
                THEN Call("claim", NoHandle, Entry(handles[h], handleTypes[h], Null, Null),
                          Null, {})
                ELSE Idle]
  /\ raced' = IF HasRoom /\ In({"claim", "create"}) # {} THEN Slots ELSE raced
  /\ UNCHANGED <<handlesCount, tables, wanted>>

-----------------------------------------------------------------------------
(* The calls on a handle: the check, and what is left to write after it.   *)
DestroyWritesKeepingSlot == {"nulls"}

DestroyWrites == {"object", "nulls"}

FindToDestroy(t, h) ==
  /\ IF InTable(h)
       THEN LET c == Call("destroy", h, NoEntry, Null, DestroyWrites) IN
            /\ Start(t, c) /\ Meets(c)
            /\ wanted' = [g \in Owned \ {h} |-> wanted[g]]
       ELSE call[t] = Idle /\ UNCHANGED <<call, raced, wanted>>
  /\ UNCHANGED <<handlesCount, tables>>

(* The EE takes a set or a store that found nothing to set for done, and an*)
(* exchange that was to find null and was answered null.                   *)
FindToSetInfo(t, h, info) ==
  /\ IF InTable(h)
       THEN LET entry == Entry(Null, "WEAK_SHORT", Null, info)
                c == Call("set", h, entry, Null, {"info"}) IN
            Start(t, c) /\ Meets(c) /\ UNCHANGED wanted
       ELSE /\ call[t] = Idle /\ UNCHANGED <<call, raced>>
            /\ Table!Want(h, [wanted[h] EXCEPT !.info = info])
  /\ UNCHANGED <<handlesCount, tables>>

FindToSetSecondary(t, h, object) ==
  /\ IF InTable(h)
       THEN LET c == Call("set", h, Entry(Null, "WEAK_SHORT", object, Null), Null,
                          {"secondary"}) IN
            Start(t, c) /\ Meets(c) /\ UNCHANGED wanted
       ELSE /\ call[t] = Idle /\ UNCHANGED <<call, raced>>
            /\ Table!Want(h, [wanted[h] EXCEPT !.secondary = object])
  /\ UNCHANGED <<handlesCount, tables>>

FindToStore(t, h, object) ==
  /\ IF ContainsHandle(h)
       THEN LET c == Call("store", h, Entry(object, "WEAK_SHORT", Null, Null), Null,
                          {"object"}) IN
            Start(t, c) /\ Meets(c) /\ UNCHANGED wanted
       ELSE /\ call[t] = Idle /\ UNCHANGED <<call, raced>>
            /\ Table!WantObject(h, object)
  /\ UNCHANGED <<handlesCount, tables>>

(* StoreObjectInHandleIfNull is the exchange that expects null, but a store*)
(* it did not find is a failure to it.                                     *)
FindToExchange(t, h, object, comparand, ifNull) ==
  /\ ifNull => comparand = Null
  /\ IF ContainsHandle(h)
       THEN LET c == Call("exchange", h, Entry(object, "WEAK_SHORT", Null, Null),
                          comparand, {"exchange"}) IN
            Start(t, c) /\ Meets(c) /\ UNCHANGED wanted
       ELSE /\ call[t] = Idle /\ UNCHANGED <<call, raced>>
            /\ IF comparand = Null /\ ~ifNull
                 THEN Table!WantObject(h, object) ELSE UNCHANGED wanted
  /\ UNCHANGED <<handlesCount, tables>>

-----------------------------------------------------------------------------
(* One of the writes a call has left.  The last one ends the call, and that*)
(* of a creation hands the handle to the EE.                               *)
Put(table, h, value) == [table EXCEPT ![h] = value]

ExchangeAlways(h, object, comparand) == Put(handles, h, object)

CompareExchange(h, object, comparand) ==
  IF handles[h] = comparand THEN Put(handles, h, object) ELSE handles

WantAfter(c, last) ==
  CASE c.op = "create" /\ last ->
         wanted' = [g \in Owned \cup {c.h} |-> IF g = c.h THEN c.entry ELSE wanted[g]]
    [] c.op = "store" \/ (c.op = "exchange" /\ handles[c.h] = c.comparand) ->
         Table!WantObject(c.h, c.entry.object)
    [] c.op = "set" /\ "info" \in c.todo ->
         Table!Want(c.h, [wanted[c.h] EXCEPT !.info = c.entry.info])
    [] c.op = "set" /\ "secondary" \in c.todo ->
         Table!Want(c.h, [wanted[c.h] EXCEPT !.secondary = c.entry.secondary])
    [] OTHER -> UNCHANGED wanted

Write(t, w) ==
  LET c == call[t]  e == c.entry IN
  /\ w \in c.todo
  /\ handlesCount' = IF w = "count" THEN c.h + 1 ELSE handlesCount
  /\ handles' = CASE w = "object" -> Put(handles, c.h, e.object)
                  [] w = "exchange" -> CompareExchange(c.h, e.object, c.comparand)
                  [] OTHER -> handles
  /\ handleTypes' = IF w = "type" THEN Put(handleTypes, c.h, e.type) ELSE handleTypes
  /\ dependentSecondaries' = IF w \in {"secondary", "nulls"}
       THEN Put(dependentSecondaries, c.h, e.secondary) ELSE dependentSecondaries
  /\ extraInfo' = IF w \in {"info", "nulls"}
       THEN Put(extraInfo, c.h, e.info) ELSE extraInfo
  /\ call' = [call EXCEPT ![t] =
                IF c.todo = {w} THEN Idle ELSE [c EXCEPT !.todo = @ \ {w}]]
  /\ WantAfter(c, c.todo = {w})
  /\ UNCHANGED raced

(* What a GC that stops the threads where they are reports as roots.       *)
ScanHandles ==
  {i \in 0..(handlesCount - 1) :
     handles[i] # Null /\ Table!IsStrongHandle(handleTypes[i])}

-----------------------------------------------------------------------------
(* The EE passes handles it was given, destroyed ones included, or none.   *)
Use(t, h) ==
  \/ FindOriginal(t, h)
  \/ FindToDestroy(t, h)
  \/ \E info \in Infos : FindToSetInfo(t, h, info)
  \/ \E object \in Refs :
       \/ FindToSetSecondary(t, h, object)
       \/ FindToStore(t, h, object)
       \/ \E comparand \in Refs, ifNull \in BOOLEAN :
            FindToExchange(t, h, object, comparand, ifNull)

Step(t) ==
  \/ \E object \in Refs, type \in HandleTypes : CheckRoom(t, object, type)
  \/ \E h \in (Table!Issued \cap Slots) \cup {NoHandle} : Use(t, h)
  \/ LoadIndex(t)
  \/ CopyOriginal(t)
  \/ \E w \in call[t].todo : Write(t, w)

(* BOUND: behaviours are followed until every slot has raced, which is also*)
(* what an overlap of two creations does: nothing is promised from then on.*)
Next ==
  IF raced = Slots THEN UNCHANGED vars ELSE \E t \in Threads : Step(t)

Spec == Init /\ [][Next]_vars

-----------------------------------------------------------------------------
(* Every variable holds a value of its type.                               *)
Entries == [object : Refs, type : Table!Types, secondary : Refs, info : Infos \cup {Null}]

TypeOK ==
  /\ handlesCount \in 0..MaxHandles
  /\ handles \in [Slots -> Refs]
  /\ handleTypes \in [Slots -> Table!Types]
  /\ dependentSecondaries \in [Slots -> Refs]
  /\ extraInfo \in [Slots -> Infos \cup {Null}]
  /\ wanted \in [Owned -> Entries]
  /\ raced \subseteq Slots
  /\ \A t \in Threads :
       /\ call[t].entry \in Entries /\ call[t].comparand \in Refs
       /\ call[t].todo \subseteq CreateWrites \cup {"exchange", "secondary", "info"}

(* A race stays with its handle: whatever calls overlap on other handles,  *)
(* one that was not itself emptied and filled at the same time reads as the*)
(* EE's calls left it (MiniGCHandleManager.cpp:74-88).                     *)
UnracedHandlesAgree ==
  \A h \in Owned \ raced :
    /\ InTable(h)
    /\ handles[h] \in {wanted[h].object, Null}
    /\ handleTypes[h] = wanted[h].type
    /\ dependentSecondaries[h] = wanted[h].secondary
    /\ extraInfo[h] = wanted[h].info

(* A GC may stop the threads anywhere: it then sees every unraced strong   *)
(* handle that the EE owns and that holds an object, and besides only what *)
(* is being created, with its own object and type, or being destroyed.  A  *)
(* slot that is counted but not filled, or filled but not typed, is no root*)
(* (MiniGCHandleStore.cpp:51-56 beside 78-87).                             *)
RootsExactWhenStopped ==
  \A h \in Slots \ raced :
    /\ h \in Owned /\ handles[h] # Null /\ Table!IsStrongHandle(wanted[h].type)
         => h \in ScanHandles
    /\ h \in ScanHandles =>
         \/ h \in Owned /\ Table!IsStrongHandle(wanted[h].type)
         \/ h \in Destroying
         \/ \E t \in In({"create"}) :
              /\ call[t].h = h /\ call[t].entry.object = handles[h]
              /\ Table!IsStrongHandle(call[t].entry.type)

(* As long as no two calls that exclude each other overlapped, concurrent  *)
(* calls take effect like calls made one after the other: no call needs a  *)
(* lock against a reader, another handle's call, or another store.         *)
ImplementsTable == [][raced' # {} \/ Table!Next]_(Table!vars)
=============================================================================
