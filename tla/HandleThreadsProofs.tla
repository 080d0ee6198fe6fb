------------------------ MODULE HandleThreadsProofs ------------------------
(***************************************************************************)
(* Theorems about handle calls of any number of threads, on tables of any  *)
(* size, interleaved at their accesses to the tables.                      *)
(***************************************************************************)
EXTENDS HandleThreads, FiniteSetTheorems, TLAPS

Ops == {"idle", "claim", "create", "duplicate", "destroy", "set", "store", "exchange"}
OnHandle == {"duplicate", "destroy", "set", "store", "exchange"}
Writes == CreateWrites \cup {"exchange", "secondary", "info"}

Calls == [op : Ops, h : Slots \cup {NoHandle}, entry : Entries, comparand : Refs,
          todo : SUBSET Writes]

Typed ==
  /\ handlesCount \in 0..MaxHandles
  /\ handles \in [Slots -> Refs]
  /\ handleTypes \in [Slots -> Table!Types]
  /\ dependentSecondaries \in [Slots -> Refs]
  /\ extraInfo \in [Slots -> Infos \cup {Null}]
  /\ wanted \in [Owned -> Entries]
  /\ call \in [Threads -> Calls]
  /\ raced \subseteq Slots

(* What each kind of call has left to write, and of what.                  *)
Shape(c) ==
  /\ c.op \in {"idle", "claim", "duplicate"} => c.todo = {}
  /\ c.op = "create" => c.todo \subseteq CreateWrites
  /\ c.op \in {"claim", "create"} => c.entry.secondary = Null /\ c.entry.info = Null
  /\ c.op = "destroy" => c.todo \subseteq DestroyWrites /\ c.entry = NoEntry
  /\ c.op = "set" => c.todo \in {{"info"}, {"secondary"}}
  /\ c.op = "store" => c.todo = {"object"}
  /\ c.op = "exchange" => c.todo = {"exchange"}
  /\ c.op \in Stores => c.entry = Entry(c.entry.object, "WEAK_SHORT", Null, Null)

(* Two calls that create a handle race every slot, so that there is one; it*)
(* has the slot behind the others, and has written what it has not left.   *)
OneCreator == \A t, u \in In({"claim", "create"}) : t = u

CreationOf(c) ==
  /\ c.op = "claim" => handlesCount < MaxHandles
  /\ c.op = "create" =>
       /\ c.h \in Slots
       /\ handlesCount = IF "count" \in c.todo THEN c.h ELSE c.h + 1
       /\ handles[c.h] = IF "object" \in c.todo THEN Null ELSE c.entry.object
       /\ handleTypes[c.h] = IF "type" \in c.todo THEN "WEAK_SHORT" ELSE c.entry.type
       /\ dependentSecondaries[c.h] = Null /\ extraInfo[c.h] = Null

(* The slots nobody has used yet, and those of handles the EE was given.   *)
Fresh ==
  \A i \in Slots \ Creating :
    i >= handlesCount =>
      /\ handles[i] = Null /\ handleTypes[i] = "WEAK_SHORT"
      /\ dependentSecondaries[i] = Null /\ extraInfo[i] = Null

Given == 0..(handlesCount - 1) \ Creating

Places ==
  /\ Owned \subseteq Given
  /\ \A t \in Threads :
       /\ call[t].op \in OnHandle => call[t].h \in Given
       /\ call[t].op = "destroy" => call[t].h \notin Owned

Agrees(h) ==
  /\ handles[h] \in {wanted[h].object, Null}
  /\ handleTypes[h] = wanted[h].type
  /\ dependentSecondaries[h] = wanted[h].secondary
  /\ extraInfo[h] = wanted[h].info

(* A handle that was destroyed and not raced is empty or about to be, and  *)
(* no call is left that would fill it.                                     *)
Emptied(h) ==
  /\ h \notin Destroying => handles[h] = Null
  /\ \A t \in Threads : call[t].h = h =>
       /\ call[t].op = "destroy" /\ "object" \notin call[t].todo => handles[h] = Null
       /\ call[t].op \in Stores => call[t].entry.object = Null

TableInv ==
  /\ Typed
  /\ \A t \in Threads : Shape(call[t])
  /\ OneCreator
  /\ \A t \in Threads : CreationOf(call[t])
  /\ Fresh
  /\ Places
  /\ \A h \in Owned : Agrees(h)
  /\ \A h \in Given \ raced : h \notin Owned => Emptied(h)

(* Nothing is promised once every slot has raced.                          *)
HandlesInv == Owned \subseteq Slots /\ (raced # Slots => TableInv)

-----------------------------------------------------------------------------
LEMMA InvStart == Init => HandlesInv
<1> SUFFICES ASSUME Init PROVE Owned \subseteq Slots /\ TableInv
  BY DEF HandlesInv
<1>1. Idle \in Calls /\ Idle.op = "idle" /\ Idle.todo = {}
  BY DEF Idle, Call, NoEntry, Entry, Calls, Ops, Entries, Refs, Table!Types
<1>2. Typed /\ Owned = {}
  BY <1>1, ThreadsAssumption DEF Init, Typed, Owned, Entries, Refs, Table!Types, Slots
<1>3. Given = {} /\ Creating = {}
  BY <1>1 DEF Init, Given, Creating, SlotsOf, In
<1>4. \A t \in Threads : Shape(call[t]) /\ CreationOf(call[t])
  BY <1>1 DEF Init, Shape, CreationOf, Stores
<1>5. OneCreator
  BY <1>1 DEF Init, OneCreator, In
<1>6. Fresh
  BY DEF Init, Fresh
<1>7. Places
  BY <1>1, <1>2 DEF Init, Places, OnHandle
<1> QED BY <1>2, <1>3, <1>4, <1>5, <1>6, <1>7 DEF TableInv

(* Which slots are in use by which calls.                                  *)
LEMMA UsedBy ==
  /\ \A h : h \in Creating <=> \E t \in Threads : call[t].op = "create" /\ call[t].h = h
  /\ \A h : h \in Destroying <=> \E t \in Threads : call[t].op = "destroy" /\ call[t].h = h
  BY DEF Creating, Destroying, SlotsOf, In

LEMMA UsedByNext ==
  /\ \A h : h \in Creating' <=> \E t \in Threads : call'[t].op = "create" /\ call'[t].h = h
  /\ \A h : h \in Destroying' <=>
       \E t \in Threads : call'[t].op = "destroy" /\ call'[t].h = h
  BY DEF Creating, Destroying, SlotsOf, In

LEMMA Bounds ==
  ASSUME TableInv
  PROVE  /\ handlesCount \in Nat /\ handlesCount <= MaxHandles
         /\ Given \subseteq Slots
         /\ \A h \in Given : h \in Int /\ 0 <= h /\ h < handlesCount /\ h \notin Creating
         /\ Slots \subseteq Nat /\ NoHandle \notin Int /\ NoHandle \notin Slots
<1>1. handlesCount \in 0..MaxHandles
  BY DEF TableInv, Typed
<1> QED BY <1>1, ThreadsAssumption DEF Given, Slots

(* A step of a thread that is about one handle the EE was given: it changes*)
(* the thread's call, the handle's entries and what the EE wants of it.    *)
LEMMA HandleStep ==
  ASSUME TableInv, NEW t \in Threads, NEW c \in Calls, NEW h \in Given,
         Shape(c), c.op \in OnHandle => c.h = h,
         c.op \in OnHandle \cup {"idle"}, call[t].op \in OnHandle \cup {"idle"},
         call[t].op \in OnHandle => call[t].h = h,
         call' = [call EXCEPT ![t] = c],
         handlesCount' = handlesCount,
         handles' \in [Slots -> Refs], handleTypes' = handleTypes,
         dependentSecondaries' \in [Slots -> Refs],
         extraInfo' \in [Slots -> Infos \cup {Null}],
         \A i \in Slots \ {h} :
           /\ handles'[i] = handles[i]
           /\ dependentSecondaries'[i] = dependentSecondaries[i]
           /\ extraInfo'[i] = extraInfo[i],
         wanted' \in [Owned' -> Entries], Owned' \subseteq Owned, Owned \ {h}
             \subseteq Owned',
         \A g \in Owned' \ {h} : wanted'[g] = wanted[g],
         raced \subseteq raced', raced' \subseteq Slots,
         h \in Owned' => Agrees(h)',
         \A u \in Threads : call'[u].op = "destroy" /\ call'[u].h = h => h \notin Owned',
         h \notin raced' /\ h \notin Owned' => Emptied(h)'
  PROVE  TableInv'
<1>1. call \in [Threads -> Calls]
  BY DEF TableInv, Typed
<1>2. call'[t] = c /\ \A u \in Threads \ {t} : call'[u] = call[u]
  BY <1>1
<1>3. Typed'
  BY <1>1 DEF TableInv, Typed
<1>4. Creating' = Creating
  <2>1. \A u \in Threads : call'[u].op = "create" <=> call[u].op = "create"
    BY <1>2 DEF OnHandle
  <2>2. \A u \in Threads : call[u].op = "create" => call'[u] = call[u]
    BY <1>2 DEF OnHandle
  <2>3. \A g : g \in Creating' <=> g \in Creating
    BY <2>1, <2>2, UsedBy, UsedByNext
  <2> QED BY <2>3
<1>5. Given' = Given
  BY <1>4 DEF Given
<1>6. \A u \in Threads : Shape(call'[u])
  BY <1>2 DEF TableInv
<1>7. OneCreator'
  BY <1>2 DEF TableInv, OneCreator, In, OnHandle
<1>8. \A u \in Threads : CreationOf(call[u])'
  <2> SUFFICES ASSUME NEW u \in Threads PROVE CreationOf(call[u])'
    OBVIOUS
  <2>1. CASE u = t
    BY <1>2, <2>1 DEF CreationOf, OnHandle
  <2>2. CASE u # t
    <3>1. CreationOf(call[u]) /\ call'[u] = call[u]
      BY <1>2, <2>2 DEF TableInv
    <3>2. call[u].op = "create" => call[u].h # h /\ call[u].h \in Slots
      BY <3>1, UsedBy DEF Given, CreationOf
    <3> QED BY <3>1, <3>2 DEF CreationOf
  <2> QED BY <2>1, <2>2
<1>9. Fresh'
  <2>1. ~(h >= handlesCount)
    BY Bounds
  <2> QED BY <1>4, <2>1 DEF TableInv, Fresh
<1>10. Places'
  BY <1>2, <1>5 DEF TableInv, Places
<1>11. \A g \in Owned' : Agrees(g)'
  <2> SUFFICES ASSUME NEW g \in Owned', g # h PROVE Agrees(g)'
    OBVIOUS
  <2>1. g \in Slots /\ g \in Owned
    BY Bounds DEF TableInv, Places
  <2> QED BY <2>1 DEF TableInv, Agrees
<1>12. ASSUME NEW g \in Given \ raced', g \notin Owned', g # h
       PROVE  Emptied(g)'
  <2>1. g \notin Owned /\ g \in Slots /\ g \notin raced
    BY <1>12, Bounds
  <2>2. Emptied(g)
    BY <2>1 DEF TableInv
  <2>3. g \in Destroying' \/ g \notin Destroying
    <3> SUFFICES ASSUME NEW u \in Threads, call[u].op = "destroy", call[u].h = g
                 PROVE  g \in Destroying'
      BY UsedBy
    <3>1. CASE u # t
      BY <1>2, <3>1, UsedByNext
    <3>2. CASE u = t
      BY <1>12, <3>2 DEF OnHandle
    <3> QED BY <3>1, <3>2
  <2>4. \A u \in Threads : call'[u].h = g /\ call'[u].op \in OnHandle => call'[u] = call[u]
    BY <1>2, <1>12
  <2>5. handles'[g] = handles[g]
    BY <1>12, <2>1
  <2> QED BY <2>2, <2>3, <2>4, <2>5 DEF Emptied, OnHandle, Stores
<1> QED BY <1>3, <1>5, <1>6, <1>7, <1>8, <1>9, <1>10, <1>11, <1>12 DEF TableInv

LEMMA IdleCall ==
  Idle \in Calls /\ Shape(Idle) /\ Idle.op = "idle" /\ Idle.h = NoHandle /\ Idle.todo = {}
  BY DEF Idle, Call, NoEntry, Entry, Calls, Ops, Entries, Refs, Table!Types, Shape, Stores

(* A handle the EE may name is one it was given.                           *)
LEMMA IssuedAreGiven ==
  ASSUME TableInv, NEW h \in (Table!Issued \cap Slots) \cup {NoHandle}
  PROVE  /\ h \in Given \/ h = NoHandle
         /\ InTable(h) <=> h \in Given
<1>1. ASSUME h \in Table!Issued PROVE h \in Given
  <2>1. CASE Counted = {}
    <3>1. h \in 0..(handlesCount - 1)
      BY <1>1, <2>1, FS_EmptySet, Bounds DEF Table!Issued
    <3>2. ASSUME NEW u \in Threads, call[u].op = "create" PROVE call[u].h = handlesCount
      BY <2>1, <3>2 DEF Counted, In, TableInv, CreationOf
    <3> QED BY <3>1, <3>2, UsedBy, Bounds DEF Given
  <2>2. ASSUME NEW u \in Counted PROVE h \in Given
    <3>1. Counted = {u}
      BY <2>2 DEF Counted, In, TableInv, OneCreator
    <3>2. h \in 0..(handlesCount - 1 - 1)
      BY <1>1, <3>1, FS_Singleton, Bounds DEF Table!Issued
    <3>3. ASSUME NEW v \in Threads, call[v].op = "create"
          PROVE  call[v].h = handlesCount - 1
      <4>1. v = u
        BY <2>2, <3>3 DEF Counted, In, TableInv, OneCreator
      <4> QED BY <2>2, <4>1, Bounds DEF Counted, In, TableInv, CreationOf, Slots
    <3> QED BY <3>2, <3>3, UsedBy, Bounds DEF Given
  <2> QED BY <2>1, <2>2
<1>2. h \in Given \/ h = NoHandle
  BY <1>1
<1>3. InTable(h) <=> h \in Given
  BY <1>2, Bounds DEF InTable, Given
<1> QED BY <1>2, <1>3

-----------------------------------------------------------------------------
(* Calls that start on a handle.                                           *)
LEMMA StartStep ==
  ASSUME TableInv, NEW t \in Threads, call[t] = Idle, NEW c \in Calls, Shape(c),
         c.h \in Given, c.op \in OnHandle \ {"destroy"},
         call' = [call EXCEPT ![t] = c],
         UNCHANGED <<handlesCount, tables, wanted>>,
         raced \subseteq raced', raced' \subseteq Slots,
         c.op \in Stores /\ c.h \notin raced' /\ c.h \notin Owned => c.entry.object = Null
  PROVE  TableInv'
<1> DEFINE h == c.h
<1>1. h \in Given /\ h # NoHandle
  BY Bounds
<1>2. Typed
  BY DEF TableInv
<1>3. call'[t] = c /\ \A u \in Threads \ {t} : call'[u] = call[u]
  BY <1>2 DEF Typed
<1>4. Owned' = Owned /\ wanted' = wanted
  BY DEF Owned
<1>5. h \in Owned' => Agrees(h)'
  BY <1>4 DEF TableInv, Agrees, tables
<1>6. \A u \in Threads : call'[u].op = "destroy" /\ call'[u].h = h => h \notin Owned'
  BY <1>3, <1>4 DEF TableInv, Places
<1>7. ASSUME h \notin raced', h \notin Owned' PROVE Emptied(h)'
  <2>1. Emptied(h)
    BY <1>1, <1>4, <1>7 DEF TableInv
  <2>2. h \in Destroying => h \in Destroying'
    <3>1. ASSUME NEW u \in Threads, call[u].op = "destroy", call[u].h = h
          PROVE  h \in Destroying'
      BY <1>1, <1>3, <3>1, IdleCall, UsedByNext
    <3> QED BY <3>1, UsedBy
  <2>3. handles' = handles
    BY DEF tables
  <2>4. \A u \in Threads : call'[u].h = h =>
          /\ call'[u].op = "destroy" /\ "object" \notin call'[u].todo => handles'[h] = Null
          /\ call'[u].op \in Stores => call'[u].entry.object = Null
    <3> SUFFICES ASSUME NEW u \in Threads, call'[u].h = h
                 PROVE /\ call'[u].op = "destroy" /\ "object" \notin call'[u].todo
                            => handles'[h] = Null
                       /\ call'[u].op \in Stores => call'[u].entry.object = Null
      OBVIOUS
    <3>1. CASE u = t
      BY <1>3, <1>4, <1>7, <3>1
    <3>2. CASE u # t
      BY <1>3, <2>1, <2>3, <3>2 DEF Emptied
    <3> QED BY <3>1, <3>2
  <2> QED BY <2>1, <2>2, <2>3, <2>4 DEF Emptied
<1>8. Typed' 
  BY <1>2, <1>3, <1>4 DEF Typed, tables
<1>9. /\ c.op \in OnHandle => c.h = h
      /\ c.op \in OnHandle \cup {"idle"} /\ call[t].op \in OnHandle \cup {"idle"}
      /\ call[t].op \in OnHandle => call[t].h = h
  BY IdleCall DEF OnHandle
<1>10. /\ handlesCount' = handlesCount /\ handleTypes' = handleTypes
       /\ handles' \in [Slots -> Refs] /\ dependentSecondaries' \in [Slots -> Refs]
       /\ extraInfo' \in [Slots -> Infos \cup {Null}]
       /\ \A i \in Slots \ {h} :
             /\ handles'[i] = handles[i]
             /\ dependentSecondaries'[i] = dependentSecondaries[i]
             /\ extraInfo'[i] = extraInfo[i]
  BY <1>2 DEF Typed, tables
<1>11. /\ wanted' \in [Owned' -> Entries] /\ Owned' \subseteq Owned
       /\ Owned \ {h} \subseteq Owned' /\ \A g \in Owned' \ {h} : wanted'[g] = wanted[g]
  BY <1>4, <1>8 DEF Typed
<1> HIDE DEF h
<1> QED
  BY <1>1, <1>5, <1>6, <1>7, <1>9, <1>10, <1>11, HandleStep

(* A call that found no handle changes at most what the EE wants.          *)
LEMMA NothingFound ==
  ASSUME TableInv, NEW t \in Threads, call[t] = Idle,
         NEW h \in Given, NEW description \in Entries,
         wanted' = IF h \in Owned THEN [wanted EXCEPT ![h] = description] ELSE wanted,
         UNCHANGED <<handlesCount, tables, call, raced>>,
         h \in Owned => Agrees(h)'
  PROVE  TableInv'
<1> DEFINE c == Idle
<1>1. Typed
  BY DEF TableInv
<1>2. call' = [call EXCEPT ![t] = c]
  BY <1>1 DEF Typed
<1>3. /\ Owned' = Owned /\ wanted' \in [Owned' -> Entries]
      /\ \A g \in Owned' \ {h} : wanted'[g] = wanted[g]
  BY <1>1 DEF Typed, Owned
<1>4. \A u \in Threads : call'[u].op = "destroy" /\ call'[u].h = h => h \notin Owned'
  BY <1>3 DEF TableInv, Places
<1>5. h \notin raced' /\ h \notin Owned' => Emptied(h)'
  BY <1>3, UsedBy, UsedByNext DEF TableInv, Emptied, tables
<1>6. /\ handlesCount' = handlesCount /\ handleTypes' = handleTypes
      /\ handles' \in [Slots -> Refs] /\ dependentSecondaries' \in [Slots -> Refs]
      /\ extraInfo' \in [Slots -> Infos \cup {Null}]
      /\ \A i \in Slots \ {h} :
            /\ handles'[i] = handles[i]
            /\ dependentSecondaries'[i] = dependentSecondaries[i]
            /\ extraInfo'[i] = extraInfo[i]
  BY <1>1 DEF Typed, tables
<1>7. /\ raced \subseteq raced' /\ raced' \subseteq Slots
      /\ Owned' \subseteq Owned /\ Owned \ {h} \subseteq Owned'
  BY <1>1, <1>3 DEF Typed
<1>8. c \in Calls /\ Shape(c) /\ c.op \in OnHandle \cup {"idle"}
      /\ (c.op \in OnHandle => c.h = h)
      /\ call[t].op \in OnHandle \cup {"idle"} /\ (call[t].op \in OnHandle => call[t].h = h)
  BY IdleCall DEF OnHandle
<1> HIDE DEF c
<1>9. h \in Owned' => Agrees(h)'
  BY <1>3
<1>10. wanted' \in [Owned' -> Entries] /\ \A g \in Owned' \ {h} : wanted'[g] = wanted[g]
  BY <1>3
<1> QED
  BY <1>2, <1>4, <1>5, <1>6, <1>7, <1>8, <1>9, <1>10, HandleStep

LEMMA Nothing == TableInv /\ UNCHANGED vars => TableInv'
<1> SUFFICES ASSUME TableInv, UNCHANGED vars PROVE TableInv'
  OBVIOUS
<1>1. /\ handlesCount' = handlesCount /\ handles' = handles /\ handleTypes' = handleTypes
      /\ dependentSecondaries' = dependentSecondaries /\ extraInfo' = extraInfo
      /\ wanted' = wanted /\ call' = call /\ raced' = raced
  BY DEF vars, tables
<1> QED
  BY <1>1 DEF TableInv, Typed, Owned, OneCreator, In, CreationOf, Fresh, Creating, SlotsOf,
     Given, Places, Agrees, Emptied, Destroying

LEMMA FindOriginalStep ==
  ASSUME TableInv, NEW t \in Threads,
         NEW h \in (Table!Issued \cap Slots) \cup {NoHandle}, FindOriginal(t, h)
  PROVE  TableInv'
<1> DEFINE c == Call("duplicate", h, NoEntry, Null, {})
<1>1. CASE ~ContainsHandle(h)
  BY <1>1, Nothing DEF FindOriginal, vars
<1>2. CASE ContainsHandle(h)
  <2>1. h \in Given
    BY <1>2, IssuedAreGiven DEF ContainsHandle
  <2>2. c \in Calls /\ Shape(c) /\ c.h = h /\ c.op = "duplicate"
    BY <2>1, Bounds DEF Call, NoEntry, Entry, Calls, Ops, Entries, Refs, Table!Types,
       Shape, Stores
  <2>3. call[t] = Idle /\ call' = [call EXCEPT ![t] = c] /\ raced' = raced
        /\ UNCHANGED <<handlesCount, tables, wanted>>
    BY <1>2 DEF FindOriginal, Start
  <2>4. raced \subseteq Slots
    BY DEF TableInv, Typed
  <2> HIDE DEF c
  <2> QED BY <2>1, <2>2, <2>3, <2>4, StartStep DEF OnHandle, Stores
<1> QED BY <1>1, <1>2

(* The three forms of a call that puts something into a handle.            *)
LEMMA PutsAreCalls ==
  ASSUME TableInv, NEW h \in Given, NEW object \in Refs, NEW info \in Infos \cup {Null},
         NEW comparand \in Refs
  PROVE  /\ LET c == Call("set", h, Entry(Null, "WEAK_SHORT", Null, info), Null, {"info"})
            IN  c \in Calls /\ Shape(c) /\ c.h = h /\ c.op = "set"
         /\ LET c == Call("set", h, Entry(Null, "WEAK_SHORT", object, Null), Null,
                          {"secondary"})
            IN  c \in Calls /\ Shape(c) /\ c.h = h /\ c.op = "set"
         /\ LET c == Call("store", h, Entry(object, "WEAK_SHORT", Null, Null), Null,
                          {"object"})
            IN  c \in Calls /\ Shape(c) /\ c.h = h /\ c.op = "store"
                /\ c.entry.object = object
         /\ LET c == Call("exchange", h, Entry(object, "WEAK_SHORT", Null, Null),
                          comparand, {"exchange"})
            IN  c \in Calls /\ Shape(c) /\ c.h = h /\ c.op = "exchange"
                /\ c.entry.object = object
  BY Bounds DEF Call, Entry, Calls, Ops, Entries, Refs, Table!Types, Shape, Stores, Writes,
     CreateWrites

LEMMA MeetsRaces ==
  ASSUME TableInv, NEW c, c.h \in Slots, Meets(c)
  PROVE  /\ raced \subseteq raced' /\ raced' \subseteq Slots
         /\ c.h \notin raced' =>
              \A u \in Threads : call[u].h = c.h =>
                ~Excludes(c, call[u]) /\ ~Excludes(call[u], c)
<1>1. raced \subseteq Slots
  BY DEF TableInv, Typed
<1>2. c.h \notin raced' =>
        ~\E u \in Threads : call[u].h = c.h /\ (Excludes(c, call[u]) \/
            Excludes(call[u], c))
  BY DEF Meets
<1> QED BY <1>1, <1>2 DEF Meets

(* A store that starts on an unraced handle fills none that is destroyed.  *)
LEMMA StoreStarts ==
  ASSUME TableInv, NEW t \in Threads, call[t] = Idle, NEW c \in Calls, Shape(c),
         c.h \in Given, c.op \in Stores, ContainsHandle(c.h), Meets(c),
         call' = [call EXCEPT ![t] = c],
         UNCHANGED <<handlesCount, tables, wanted>>
  PROVE  TableInv'
<1>1. c.h \in Slots
  BY Bounds
<1>2. /\ raced \subseteq raced' /\ raced' \subseteq Slots
      /\ c.h \notin raced' =>
           \A u \in Threads : call[u].h = c.h =>
             ~Excludes(c, call[u]) /\ ~Excludes(call[u], c)
  BY <1>1, MeetsRaces
<1>3. ASSUME c.h \notin raced', c.h \notin Owned PROVE c.entry.object = Null
  <2>1. Emptied(c.h) /\ handles[c.h] # Null
    BY <1>2, <1>3 DEF TableInv, ContainsHandle
  <2>2. PICK u \in Threads : call[u].op = "destroy" /\ call[u].h = c.h
    BY <2>1, UsedBy DEF Emptied
  <2>3. call[u].entry = NoEntry
    BY <2>2 DEF TableInv, Shape
  <2>4. c.entry = NoEntry
    BY <1>2, <1>3, <2>2, <2>3 DEF Excludes, Empties, Fills
  <2> QED BY <2>4 DEF NoEntry, Entry
<1>4. c.op \in OnHandle \ {"destroy"}
  BY DEF OnHandle, Stores
<1> QED BY <1>2, <1>3, <1>4, StartStep

LEMMA FindToSetInfoStep ==
  ASSUME TableInv, NEW t \in Threads,
         NEW h \in (Table!Issued \cap Slots) \cup {NoHandle}, NEW info \in Infos,
         FindToSetInfo(t, h, info)
  PROVE  TableInv'
<1> DEFINE c == Call("set", h, Entry(Null, "WEAK_SHORT", Null, info), Null, {"info"})
<1>1. CASE InTable(h)
  <2>1. h \in Given /\ Null \in Refs
    BY <1>1, IssuedAreGiven DEF Refs
  <2>2. c \in Calls /\ Shape(c) /\ c.h = h /\ c.op = "set"
    BY <2>1, PutsAreCalls
  <2> HIDE DEF c
  <2>3. /\ call[t] = Idle /\ call' = [call EXCEPT ![t] = c] /\ Meets(c)
        /\ UNCHANGED <<handlesCount, tables, wanted>>
    BY <1>1 DEF FindToSetInfo, Start, c
  <2>4. raced \subseteq raced' /\ raced' \subseteq Slots
    BY <2>1, <2>2, <2>3, MeetsRaces, Bounds
  <2> QED BY <2>1, <2>2, <2>3, <2>4, StartStep DEF OnHandle, Stores
<1>2. CASE ~InTable(h)
  <2>1. h \notin Owned
    BY <1>2, IssuedAreGiven DEF TableInv, Places
  <2> QED BY <1>2, <2>1, Nothing DEF FindToSetInfo, Table!Want, Table!Owned, Owned, vars
<1> QED BY <1>1, <1>2

LEMMA FindToSetSecondaryStep ==
  ASSUME TableInv, NEW t \in Threads,
         NEW h \in (Table!Issued \cap Slots) \cup {NoHandle}, NEW object \in Refs,
         FindToSetSecondary(t, h, object)
  PROVE  TableInv'
<1> DEFINE c == Call("set", h, Entry(Null, "WEAK_SHORT", object, Null), Null, {"secondary"})
<1>1. CASE InTable(h)
  <2>1. h \in Given /\ Null \in Infos \cup {Null}
    BY <1>1, IssuedAreGiven
  <2>2. c \in Calls /\ Shape(c) /\ c.h = h /\ c.op = "set"
    BY <2>1, PutsAreCalls
  <2> HIDE DEF c
  <2>3. /\ call[t] = Idle /\ call' = [call EXCEPT ![t] = c] /\ Meets(c)
        /\ UNCHANGED <<handlesCount, tables, wanted>>
    BY <1>1 DEF FindToSetSecondary, Start, c
  <2>4. raced \subseteq raced' /\ raced' \subseteq Slots
    BY <2>1, <2>2, <2>3, MeetsRaces, Bounds
  <2> QED BY <2>1, <2>2, <2>3, <2>4, StartStep DEF OnHandle, Stores
<1>2. CASE ~InTable(h)
  <2>1. h \notin Owned
    BY <1>2, IssuedAreGiven DEF TableInv, Places
  <2> QED
    BY <1>2, <2>1, Nothing DEF FindToSetSecondary, Table!Want, Table!Owned, Owned, vars
<1> QED BY <1>1, <1>2

(* A store the table did not perform leaves an empty handle wanted full.   *)
LEMMA StoreNotFound ==
  ASSUME TableInv, NEW t \in Threads, call[t] = Idle,
         NEW h \in (Table!Issued \cap Slots) \cup {NoHandle}, NEW object \in Refs,
         ~ContainsHandle(h), Table!WantObject(h, object),
         UNCHANGED <<handlesCount, tables, call, raced>>
  PROVE  TableInv'
<1> DEFINE description == [wanted[h] EXCEPT !.object = object]
<1>1. wanted' = IF h \in Owned THEN [wanted EXCEPT ![h] = description] ELSE wanted
  BY DEF Table!WantObject, Table!Want, Table!Owned, Owned
<1>2. CASE h \notin Owned
  BY <1>1, <1>2, Nothing DEF vars
<1>3. CASE h \in Owned
  <2>1. h \in Given /\ InTable(h)
    BY <1>3, IssuedAreGiven DEF TableInv, Places
  <2>2. handles[h] = Null /\ wanted[h] \in Entries /\ Agrees(h)
    BY <1>3, <2>1 DEF ContainsHandle, TableInv, Typed
  <2>3. description \in Entries /\ description.type = wanted[h].type
        /\ description.secondary = wanted[h].secondary /\ description.info = wanted[h].info
    BY <2>2 DEF Entries
  <2> HIDE DEF description
  <2>4. wanted'[h] = description
    BY <1>1, <1>3 DEF Owned, TableInv, Typed
  <2>5. Agrees(h)'
    BY <2>2, <2>3, <2>4 DEF Agrees, tables
  <2> QED BY <1>1, <2>1, <2>3, <2>5, NothingFound
<1> QED BY <1>2, <1>3

LEMMA FindToStoreStep ==
  ASSUME TableInv, NEW t \in Threads,
         NEW h \in (Table!Issued \cap Slots) \cup {NoHandle}, NEW object \in Refs,
         FindToStore(t, h, object)
  PROVE  TableInv'
<1> DEFINE c == Call("store", h, Entry(object, "WEAK_SHORT", Null, Null), Null, {"object"})
<1>1. CASE ContainsHandle(h)
  <2>1. h \in Given /\ Null \in Infos \cup {Null}
    BY <1>1, IssuedAreGiven DEF ContainsHandle
  <2>2. c \in Calls /\ Shape(c) /\ c.h = h /\ c.op \in Stores
    BY <2>1, PutsAreCalls DEF Stores
  <2> HIDE DEF c
  <2>3. /\ call[t] = Idle /\ call' = [call EXCEPT ![t] = c] /\ Meets(c)
        /\ UNCHANGED <<handlesCount, tables, wanted>>
    BY <1>1 DEF FindToStore, Start, c
  <2> QED BY <1>1, <2>1, <2>2, <2>3, StoreStarts
<1>2. CASE ~ContainsHandle(h)
  BY <1>2, StoreNotFound DEF FindToStore
<1> QED BY <1>1, <1>2

LEMMA FindToExchangeStep ==
  ASSUME TableInv, NEW t \in Threads,
         NEW h \in (Table!Issued \cap Slots) \cup {NoHandle}, NEW object \in Refs,
         NEW comparand \in Refs, NEW ifNull \in BOOLEAN,
         FindToExchange(t, h, object, comparand, ifNull)
  PROVE  TableInv'
<1> DEFINE c == Call("exchange", h, Entry(object, "WEAK_SHORT", Null, Null), comparand,
                     {"exchange"})
<1>1. CASE ContainsHandle(h)
  <2>1. h \in Given /\ Null \in Infos \cup {Null}
    BY <1>1, IssuedAreGiven DEF ContainsHandle
  <2>2. c \in Calls /\ Shape(c) /\ c.h = h /\ c.op \in Stores
    BY <2>1, PutsAreCalls DEF Stores
  <2> HIDE DEF c
  <2>3. /\ call[t] = Idle /\ call' = [call EXCEPT ![t] = c] /\ Meets(c)
        /\ UNCHANGED <<handlesCount, tables, wanted>>
    BY <1>1 DEF FindToExchange, Start, c
  <2> QED BY <1>1, <2>1, <2>2, <2>3, StoreStarts
<1>2. CASE ~ContainsHandle(h) /\ comparand = Null /\ ~ifNull
  BY <1>2, StoreNotFound DEF FindToExchange
<1>3. CASE ~ContainsHandle(h) /\ ~(comparand = Null /\ ~ifNull)
  BY <1>3, Nothing DEF FindToExchange, vars
<1> QED BY <1>1, <1>2, <1>3

LEMMA FindToDestroyStep ==
  ASSUME TableInv, NEW t \in Threads,
         NEW h \in (Table!Issued \cap Slots) \cup {NoHandle}, FindToDestroy(t, h)
  PROVE  TableInv'
<1> DEFINE c == Call("destroy", h, NoEntry, Null, DestroyWrites)
<1>1. CASE ~InTable(h)
  BY <1>1, Nothing DEF FindToDestroy, vars
<1>2. CASE InTable(h)
  <2>1. h \in Given /\ h \in Slots
    BY <1>2, IssuedAreGiven, Bounds
  <2>2. /\ c \in Calls /\ Shape(c) /\ c.h = h /\ c.op = "destroy" /\ c.entry = NoEntry
        /\ "object" \in c.todo
    BY <2>1 DEF Call, NoEntry, Entry, Calls, Ops, Entries, Refs, Table!Types, Shape, Stores,
       Writes, CreateWrites, DestroyWrites
  <2> HIDE DEF c
  <2>3. /\ call[t] = Idle /\ call' = [call EXCEPT ![t] = c] /\ Meets(c)
        /\ UNCHANGED <<handlesCount, tables>>
        /\ wanted' = [g \in Owned \ {h} |-> wanted[g]]
    BY <1>2 DEF FindToDestroy, Start, c
  <2>4. Typed
    BY DEF TableInv
  <2>5. call'[t] = c /\ \A u \in Threads \ {t} : call'[u] = call[u]
    BY <2>3, <2>4 DEF Typed
  <2>6. /\ raced \subseteq raced' /\ raced' \subseteq Slots
        /\ h \notin raced' =>
             \A u \in Threads : call[u].h = h =>
               ~Excludes(c, call[u]) /\ ~Excludes(call[u], c)
    BY <2>1, <2>2, <2>3, MeetsRaces
  <2>7. Owned' = Owned \ {h} /\ h \notin Owned' /\ wanted' \in [Owned' -> Entries]
        /\ \A g \in Owned' \ {h} : wanted'[g] = wanted[g]
    BY <2>3, <2>4 DEF Owned, Typed
  <2>8. ASSUME h \notin raced' PROVE Emptied(h)'
    <3>1. h \in Destroying'
      BY <2>2, <2>5, UsedByNext
    <3>2. ASSUME NEW u \in Threads, call'[u].h = h, call'[u].op = "destroy",
                 "object" \notin call'[u].todo
          PROVE  handles'[h] = Null
      <4>1. u # t /\ call[u] = call'[u]
        BY <2>2, <2>5, <3>2
      <4>2. h \notin Owned /\ h \notin raced
        BY <2>6, <2>8, <3>2, <4>1 DEF TableInv, Places
      <4> QED BY <2>1, <2>3, <3>2, <4>1, <4>2 DEF TableInv, Emptied, tables
    <3>3. ASSUME NEW u \in Threads, call'[u].h = h, call'[u].op \in Stores
          PROVE  call'[u].entry.object = Null
      <4>1. call'[u] = call[u]
        BY <2>2, <2>5, <3>3 DEF Stores
      <4>2. ~Excludes(c, call[u])
        BY <2>6, <2>8, <3>3, <4>1
      <4>3. call[u].entry = NoEntry
        BY <2>2, <3>3, <4>1, <4>2 DEF Excludes, Empties, Fills
      <4> QED BY <4>1, <4>3 DEF NoEntry, Entry
    <3> QED BY <3>1, <3>2, <3>3 DEF Emptied
  <2>9. /\ c.op \in OnHandle => c.h = h
        /\ c.op \in OnHandle \cup {"idle"} /\ call[t].op \in OnHandle \cup {"idle"}
        /\ call[t].op \in OnHandle => call[t].h = h
    BY <2>2, <2>3, IdleCall DEF OnHandle
  <2>10. /\ handlesCount' = handlesCount /\ handleTypes' = handleTypes
         /\ handles' \in [Slots -> Refs] /\ dependentSecondaries' \in [Slots -> Refs]
         /\ extraInfo' \in [Slots -> Infos \cup {Null}]
         /\ \A i \in Slots \ {h} :
               /\ handles'[i] = handles[i]
               /\ dependentSecondaries'[i] = dependentSecondaries[i]
               /\ extraInfo'[i] = extraInfo[i]
    BY <2>3, <2>4 DEF Typed, tables
  <2>11. /\ Owned' \subseteq Owned /\ Owned \ {h} \subseteq Owned'
         /\ h \in Owned' => Agrees(h)'
         /\ \A u \in Threads : call'[u].op = "destroy" /\ call'[u].h = h => h \notin Owned'
         /\ h \notin raced' /\ h \notin Owned' => Emptied(h)'
    BY <2>7, <2>8
  <2> QED BY <2>1, <2>2, <2>3, <2>6, <2>7, <2>9, <2>10, <2>11, HandleStep
<1> QED BY <1>1, <1>2

-----------------------------------------------------------------------------
(* Creations, as far as the load of the index.                             *)
LEMMA ClaimStep ==
  ASSUME TableInv, NEW t \in Threads, NEW c \in Calls, Shape(c), c.op = "claim",
         call[t].op \in {"idle", "duplicate"}, call' = [call EXCEPT ![t] = c],
         HasRoom, In({"claim", "create"}) = {}, raced' = raced,
         UNCHANGED <<handlesCount, tables, wanted>>
  PROVE  TableInv'
<1>1. Typed
  BY DEF TableInv
<1>2. call'[t] = c /\ \A u \in Threads \ {t} : call'[u] = call[u]
  BY <1>1 DEF Typed
<1>3. Typed' /\ Owned' = Owned
  BY <1>1, <1>2 DEF Typed, Owned, tables
<1>4. \A u \in Threads : Shape(call'[u])
  BY <1>2 DEF TableInv
<1>5. \A u \in Threads : call[u].op \notin {"claim", "create"}
  BY DEF In
<1>6. OneCreator'
  BY <1>2, <1>5 DEF OneCreator, In
<1>7. /\ Creating' = {} /\ Creating = {}
      /\ \A h : h \in Destroying' <=> h \in Destroying
  <2>1. \A u \in Threads : call'[u].op = "create" <=> call[u].op = "create"
    BY <1>2, <1>5
  <2>2. \A u \in Threads : (call'[u].op = "destroy" <=> call[u].op = "destroy")
                           /\ (call[u].op = "destroy" => call'[u] = call[u])
    BY <1>2
  <2>3. Creating' = {} /\ Creating = {}
    BY <1>5, <2>1, UsedBy, UsedByNext
  <2> QED BY <2>2, <2>3, UsedBy, UsedByNext
<1>8. \A u \in Threads : CreationOf(call[u])'
  BY <1>2, <1>5 DEF CreationOf, HasRoom
<1>9. Fresh'
  BY <1>7 DEF TableInv, Fresh, tables
<1>10. Given' = Given
  BY <1>7 DEF Given
<1>11. Places'
  BY <1>2, <1>3, <1>10 DEF TableInv, Places, OnHandle
<1>12. \A h \in Owned' : Agrees(h)'
  BY <1>3 DEF TableInv, Agrees, tables
<1>13. \A h \in Given' \ raced' : h \notin Owned' => Emptied(h)'
  BY <1>2, <1>3, <1>7, <1>10 DEF TableInv, Emptied, Stores, tables
<1> QED BY <1>3, <1>4, <1>6, <1>8, <1>9, <1>11, <1>12, <1>13 DEF TableInv

LEMMA CheckRoomStep ==
  ASSUME TableInv, NEW t \in Threads, NEW object \in Refs, NEW type \in HandleTypes,
         CheckRoom(t, object, type), raced' # Slots
  PROVE  TableInv'
<1> DEFINE c == Call("claim", NoHandle, Entry(object, type, Null, Null), Null, {})
<1>1. CASE ~HasRoom
  BY <1>1, Nothing DEF CheckRoom, vars
<1>2. CASE HasRoom
  <2>1. c \in Calls /\ Shape(c) /\ c.op = "claim"
    BY DEF Call, Entry, Calls, Ops, Entries, Refs, Table!Types, Shape, Stores
  <2> HIDE DEF c
  <2>2. call[t] = Idle /\ call' = [call EXCEPT ![t] = c]
        /\ UNCHANGED <<handlesCount, tables, wanted>>
        /\ In({"claim", "create"}) = {} /\ raced' = raced
    BY <1>2 DEF CheckRoom, Start, c
  <2>3. call[t].op \in {"idle", "duplicate"}
    BY <2>2, IdleCall
  <2> QED BY <1>2, <2>1, <2>2, <2>3, ClaimStep
<1> QED BY <1>1, <1>2

LEMMA CopyOriginalStep ==
  ASSUME TableInv, NEW t \in Threads, CopyOriginal(t), raced' # Slots
  PROVE  TableInv'
<1>1. Typed /\ call[t].op = "duplicate"
  BY DEF TableInv, CopyOriginal
<1>2. PICK h \in Given : call[t].h = h
  BY <1>1 DEF TableInv, Places, OnHandle
<1>3. h \in Slots
  BY Bounds
<1>4. CASE HasRoom
  <2> DEFINE d == Call("claim", NoHandle, Entry(handles[h], handleTypes[h], Null, Null),
                       Null, {})
  <2>1. handles[h] \in Refs /\ handleTypes[h] \in Table!Types
    BY <1>1, <1>3 DEF Typed
  <2>2. d \in Calls /\ Shape(d) /\ d.op = "claim"
    BY <2>1 DEF Call, Entry, Calls, Ops, Entries, Refs, Table!Types, Shape, Stores
  <2> HIDE DEF d
  <2>3. PICK c \in Calls : c = d /\ Shape(c) /\ c.op = "claim"
    BY <2>2
  <2>4. call' = [call EXCEPT ![t] = c] /\ UNCHANGED <<handlesCount, tables, wanted>>
        /\ In({"claim", "create"}) = {} /\ raced' = raced
    BY <1>2, <1>4, <2>3 DEF CopyOriginal, d
  <2> QED BY <1>1, <1>4, <2>3, <2>4, ClaimStep
<1>5. CASE ~HasRoom
  <2>1. call' = [call EXCEPT ![t] = Idle] /\ UNCHANGED <<handlesCount, tables,
      wanted, raced>>
    BY <1>2, <1>5 DEF CopyOriginal
  <2>2. call'[t] = Idle /\ \A u \in Threads \ {t} : call'[u] = call[u]
    BY <1>1, <2>1 DEF Typed
  <2>3. Owned' = Owned /\ wanted' = wanted /\ raced' = raced
    BY <2>1 DEF Owned
  <2>4. /\ h \in Owned' => Agrees(h)'
        /\ \A u \in Threads : call'[u].op = "destroy" /\ call'[u].h = h => h \notin Owned'
    <3>1. h \in Owned' => Agrees(h)'
      BY <2>1, <2>3 DEF TableInv, Agrees, tables
    <3>2. \A u \in Threads : call'[u].op = "destroy" => call'[u] = call[u]
      BY <2>2, IdleCall
    <3> QED BY <2>3, <3>1, <3>2 DEF TableInv, Places
  <2>5. ASSUME h \notin raced', h \notin Owned' PROVE Emptied(h)'
    <3>1. Emptied(h)
      BY <1>2, <2>3, <2>5 DEF TableInv
    <3>2. h \in Destroying => h \in Destroying'
      BY <1>1, <2>2, UsedBy, UsedByNext
    <3>3. \A u \in Threads : call'[u].op \in Stores \cup {"destroy"} => call'[u] = call[u]
      BY <2>2, IdleCall DEF Stores
    <3>4. handles' = handles
      BY <2>1 DEF tables
    <3> QED BY <3>1, <3>2, <3>3, <3>4 DEF Emptied
  <2>6. /\ Idle.op \in OnHandle => Idle.h = h
        /\ Idle.op \in OnHandle \cup {"idle"} /\ call[t].op \in OnHandle \cup {"idle"}
    BY <1>1, IdleCall DEF OnHandle
  <2>7. /\ handlesCount' = handlesCount /\ handleTypes' = handleTypes
        /\ handles' \in [Slots -> Refs] /\ dependentSecondaries' \in [Slots -> Refs]
        /\ extraInfo' \in [Slots -> Infos \cup {Null}]
        /\ \A i \in Slots \ {h} :
              /\ handles'[i] = handles[i]
              /\ dependentSecondaries'[i] = dependentSecondaries[i]
              /\ extraInfo'[i] = extraInfo[i]
    BY <1>1, <2>1 DEF Typed, tables
  <2>8. /\ raced \subseteq raced' /\ raced' \subseteq Slots
        /\ wanted' \in [Owned' -> Entries]
        /\ Owned' \subseteq Owned /\ Owned \ {h} \subseteq Owned'
        /\ \A g \in Owned' \ {h} : wanted'[g] = wanted[g]
    BY <1>1, <2>3 DEF Typed
  <2>9. /\ call[t].op \in OnHandle => call[t].h = h
        /\ Idle \in Calls /\ Shape(Idle)
        /\ h \notin raced' /\ h \notin Owned' => Emptied(h)'
    BY <1>2, <2>5, IdleCall
  <2> QED BY <1>2, <2>1, <2>4, <2>6, <2>7, <2>8, <2>9, HandleStep
<1> QED BY <1>4, <1>5

LEMMA LoadIndexStep ==
  ASSUME TableInv, NEW t \in Threads, LoadIndex(t)
  PROVE  TableInv'
<1> DEFINE n == handlesCount
           c == Call("create", n, call[t].entry, Null, CreateWrites)
<1>1. Typed /\ call[t].op = "claim" /\ call' = [call EXCEPT ![t] = c]
      /\ UNCHANGED <<handlesCount, tables, wanted, raced>>
  BY DEF TableInv, LoadIndex
<1>2. n \in Slots /\ n < MaxHandles
  BY <1>1, Bounds, ThreadsAssumption DEF TableInv, CreationOf, Slots
<1>3. \A u \in Threads \ {t} : call[u].op \notin {"claim", "create"}
  BY <1>1 DEF TableInv, OneCreator, In
<1>4. /\ c \in Calls /\ Shape(c) /\ c.op = "create" /\ c.h = n /\ c.todo = CreateWrites
      /\ c.entry = call[t].entry
  <2>1. call[t].entry \in Entries /\ call[t].entry.secondary = Null
        /\ call[t].entry.info = Null
    BY <1>1 DEF Typed, Calls, TableInv, Shape
  <2> QED BY <1>2, <2>1 DEF Call, Calls, Ops, Refs, Shape, Writes, Stores
<1> HIDE DEF c
<1>5. call'[t] = c /\ \A u \in Threads \ {t} : call'[u] = call[u]
  BY <1>1 DEF Typed
<1>6. Typed' /\ Owned' = Owned
  BY <1>1, <1>4 DEF Typed, Owned, tables
<1>7. \A u \in Threads : Shape(call'[u])
  BY <1>4, <1>5 DEF TableInv
<1>8. OneCreator'
  BY <1>3, <1>5 DEF OneCreator, In
<1>9. /\ Creating = {} /\ Creating' = {n} /\ Given' = Given /\ n \notin Given
  <2>1. Creating = {}
    BY <1>1, <1>3, UsedBy
  <2>2. \A h : h \in Creating' <=> h = n
    BY <1>3, <1>4, <1>5, UsedByNext
  <2>3. n \notin 0..(n - 1)
    BY <1>2, Bounds
  <2> QED BY <1>1, <2>1, <2>2, <2>3 DEF Given
<1>10. \A h : h \in Destroying' <=> h \in Destroying
  BY <1>1, <1>4, <1>5, UsedBy, UsedByNext
<1>11. \A u \in Threads : CreationOf(call[u])'
  <2>1. handles[n] = Null /\ handleTypes[n] = "WEAK_SHORT"
        /\ dependentSecondaries[n] = Null /\ extraInfo[n] = Null
    BY <1>2, <1>9, Bounds DEF TableInv, Fresh
  <2>2. CreationOf(call[t])'
    BY <1>1, <1>2, <1>4, <1>5, <2>1 DEF CreationOf, CreateWrites, tables
  <2>3. ASSUME NEW u \in Threads \ {t} PROVE CreationOf(call[u])'
    BY <1>3, <1>5, <2>3 DEF CreationOf
  <2> QED BY <2>2, <2>3
<1>12. Fresh'
  BY <1>1, <1>9 DEF TableInv, Fresh, tables
<1>13. Places'
  BY <1>4, <1>5, <1>6, <1>9 DEF TableInv, Places, OnHandle
<1>14. \A h \in Owned' : Agrees(h)'
  BY <1>1, <1>6 DEF TableInv, Agrees, tables
<1>15. \A h \in Given' \ raced' : h \notin Owned' => Emptied(h)'
  BY <1>1, <1>4, <1>5, <1>6, <1>9, <1>10 DEF TableInv, Emptied, Stores, tables
<1> QED BY <1>6, <1>7, <1>8, <1>11, <1>12, <1>13, <1>14, <1>15 DEF TableInv

-----------------------------------------------------------------------------
(* Writes.  What is left of a call after one of them.                      *)
LEMMA RestOfCall ==
  ASSUME NEW c \in Calls, Shape(c), NEW w \in c.todo, c.todo # {w}
  PROVE  LET d == [c EXCEPT !.todo = @ \ {w}] IN
         /\ d \in Calls /\ Shape(d)
         /\ d.op = c.op /\ d.h = c.h /\ d.entry = c.entry /\ d.todo = c.todo \ {w}
<1> DEFINE d == [c EXCEPT !.todo = @ \ {w}]
<1>1. c.todo \subseteq Writes /\ c.todo \ {w} \in SUBSET Writes
  BY DEF Calls
<1>2. d \in Calls
  BY <1>1 DEF Calls
<1>3. d.op = c.op /\ d.h = c.h /\ d.entry = c.entry /\ d.todo = c.todo \ {w}
  BY DEF Calls
<1>4. Shape(d)
  BY <1>3 DEF Shape
<1> QED BY <1>2, <1>3, <1>4

LEMMA WriteCreation ==
  ASSUME TableInv, NEW t \in Threads, call[t].op = "create",
         NEW w \in call[t].todo, Write(t, w)
  PROVE  TableInv'
<1>1. PICK c \in Calls : call[t] = c /\ Shape(c) /\ CreationOf(c) /\ c.op = "create"
  BY DEF TableInv, Typed
<1> DEFINE h == c.h  e == c.entry
<1>2. /\ Typed /\ h \in Slots /\ e \in Entries /\ e.secondary = Null /\ e.info = Null
      /\ w \in c.todo /\ c.todo \subseteq CreateWrites
  BY <1>1 DEF TableInv, Shape, Calls, CreationOf
<1>3. \A u \in Threads \ {t} : call[u].op \notin {"claim", "create"}
  BY <1>1 DEF TableInv, OneCreator, In
<1>4. Creating = {h}
  BY <1>1, <1>3, UsedBy
<1> HIDE DEF h, e
(* The tables and the count after the write.                               *)
<1>5. /\ handlesCount' = IF w = "count" THEN h + 1 ELSE handlesCount
      /\ handles' = IF w = "object" THEN [handles EXCEPT ![h] = e.object] ELSE handles
      /\ handleTypes' = IF w = "type" THEN [handleTypes EXCEPT ![h] = e.type]
                        ELSE handleTypes
      /\ dependentSecondaries' = IF w = "nulls"
           THEN [dependentSecondaries EXCEPT ![h] = Null] ELSE dependentSecondaries
      /\ extraInfo' = IF w = "nulls" THEN [extraInfo EXCEPT ![h] = Null] ELSE extraInfo
      /\ call' = [call EXCEPT ![t] =
                    IF c.todo = {w} THEN Idle ELSE [c EXCEPT !.todo = @ \ {w}]]
      /\ wanted' = IF c.todo = {w}
           THEN [g \in Owned \cup {h} |-> IF g = h THEN e ELSE wanted[g]] ELSE wanted
      /\ raced' = raced
  BY <1>1, <1>2 DEF Write, WantAfter, Put, CreateWrites, Stores, h, e
<1>6. /\ handlesCount' = IF "count" \in c.todo \ {w} THEN h ELSE h + 1
      /\ handles'[h] = IF "object" \in c.todo \ {w} THEN Null ELSE e.object
      /\ handleTypes'[h] = IF "type" \in c.todo \ {w} THEN "WEAK_SHORT" ELSE e.type
      /\ dependentSecondaries'[h] = Null /\ extraInfo'[h] = Null
  BY <1>1, <1>2, <1>5 DEF CreationOf, Typed, h, e
<1>7. \A i \in Slots \ {h} :
        /\ handles'[i] = handles[i] /\ handleTypes'[i] = handleTypes[i]
        /\ dependentSecondaries'[i] = dependentSecondaries[i]
        /\ extraInfo'[i] = extraInfo[i]
  BY <1>2, <1>5 DEF Typed
<1>8. /\ handlesCount \in {h, h + 1} /\ handlesCount' \in {h, h + 1}
      /\ h \in Nat /\ h < MaxHandles
      /\ Given = 0..(h - 1) /\ 0..(handlesCount' - 1) \ {h} = 0..(h - 1)
  <2>1. h \in Nat /\ h < MaxHandles
    BY <1>2, ThreadsAssumption DEF Slots
  <2>2. handlesCount \in {h, h + 1} /\ handlesCount' \in {h, h + 1}
    BY <1>1, <1>6 DEF CreationOf, h
  <2> QED BY <1>4, <2>1, <2>2 DEF Given
<1>9. /\ handlesCount' \in 0..MaxHandles
      /\ handles' \in [Slots -> Refs] /\ handleTypes' \in [Slots -> Table!Types]
      /\ dependentSecondaries' \in [Slots -> Refs]
      /\ extraInfo' \in [Slots -> Infos \cup {Null}] /\ raced' \subseteq Slots
  BY <1>2, <1>5, <1>8, ThreadsAssumption DEF Typed, Entries, Refs
<1>10. Owned \subseteq 0..(h - 1) /\ h \notin 0..(h - 1) /\ 0..(h - 1) \subseteq Slots
  BY <1>8, Bounds DEF TableInv, Places
<1>11. \A u \in Threads : call[u].op \in OnHandle => call[u].h \in 0..(h - 1)
  BY <1>8 DEF TableInv, Places
<1>12. ASSUME c.todo = {w}  PROVE TableInv'
  <2>1. call'[t] = Idle /\ (\A u \in Threads \ {t} : call'[u] = call[u])
        /\ call' \in [Threads -> Calls]
    BY <1>2, <1>5, <1>12, IdleCall DEF Typed
  <2>2. /\ Owned' = Owned \cup {h} /\ wanted'[h] = e
        /\ \A g \in Owned : wanted'[g] = wanted[g]
        /\ wanted' \in [Owned' -> Entries]
    <3>1. wanted' = [g \in Owned \cup {h} |-> IF g = h THEN e ELSE wanted[g]]
      BY <1>5, <1>12
    <3> QED BY <1>2, <1>10, <3>1 DEF Owned, Typed
  <2>3. Typed'
    BY <1>9, <2>1, <2>2 DEF Typed
  <2>4. Creating' = {} /\ \A g : g \in Destroying' <=> g \in Destroying
    BY <1>1, <1>3, <2>1, IdleCall, UsedBy, UsedByNext
  <2>5. handlesCount' = h + 1 /\ Given' = Given \cup {h}
    BY <1>6, <1>8, <1>12, <2>4 DEF Given
  <2>6. (\A u \in Threads : Shape(call'[u])) /\ OneCreator'
    BY <1>3, <2>1, IdleCall DEF TableInv, OneCreator, In
  <2>7. \A u \in Threads : CreationOf(call[u])'
    BY <1>3, <2>1, IdleCall DEF CreationOf
  <2>8. Fresh'
    BY <1>4, <1>7, <1>8, <2>4, <2>5, Bounds DEF TableInv, Fresh
  <2>9. Places'
    BY <1>8, <1>10, <1>11, <2>1, <2>2, <2>5, IdleCall DEF TableInv, Places, OnHandle
  <2>10. \A g \in Owned' : Agrees(g)'
    <3>1. Agrees(h)'
      BY <1>2, <1>6, <1>12, <2>2 DEF Agrees
    <3>2. ASSUME NEW g \in Owned PROVE Agrees(g)'
      BY <1>7, <1>10, <2>2, <3>2 DEF TableInv, Agrees
    <3> QED BY <2>2, <3>1, <3>2
  <2>11. \A g \in Given' \ raced' : g \notin Owned' => Emptied(g)'
    <3> SUFFICES ASSUME NEW g \in Given, g \notin raced, g \notin Owned PROVE Emptied(g)'
      BY <1>5, <2>2, <2>5
    <3>1. Emptied(g) /\ g # h /\ g \in Slots
      BY <1>8, <1>10 DEF TableInv
    <3>2. \A u \in Threads : call'[u].op \in Stores \cup {"destroy"} => call'[u] = call[u]
      BY <2>1, IdleCall DEF Stores
    <3> QED BY <1>7, <2>4, <3>1, <3>2 DEF Emptied
  <2> QED BY <2>3, <2>6, <2>7, <2>8, <2>9, <2>10, <2>11 DEF TableInv
<1>13. ASSUME c.todo # {w}  PROVE TableInv'
  <2> DEFINE d == [c EXCEPT !.todo = @ \ {w}]
  <2>1. /\ d \in Calls /\ Shape(d)
        /\ d.op = "create" /\ d.h = h /\ d.entry = e /\ d.todo = c.todo \ {w}
    BY <1>1, <1>2, <1>13, RestOfCall DEF h, e
  <2>2. call'[t] = d /\ (\A u \in Threads \ {t} : call'[u] = call[u])
        /\ call' \in [Threads -> Calls]
    BY <1>2, <1>5, <1>13, <2>1 DEF Typed
  <2> HIDE DEF d
  <2>3. Owned' = Owned /\ wanted' = wanted
    BY <1>5, <1>13 DEF Owned
  <2>4. Typed'
    BY <1>2, <1>9, <2>2, <2>3 DEF Typed
  <2>5. Creating' = {h} /\ \A g : g \in Destroying' <=> g \in Destroying
    <3>1. \A g : g \in Creating' <=> g = h
      BY <1>3, <2>1, <2>2, UsedByNext
    <3>2. \A g : g \in Destroying' <=> g \in Destroying
      BY <1>1, <2>1, <2>2, UsedBy, UsedByNext
    <3> QED BY <3>1, <3>2
  <2>6. Given' = Given
    BY <1>8, <2>5 DEF Given
  <2>7. (\A u \in Threads : Shape(call'[u])) /\ OneCreator'
    BY <1>3, <2>1, <2>2 DEF TableInv, OneCreator, In
  <2>8. \A u \in Threads : CreationOf(call[u])'
    <3>1. CreationOf(call[t])'
      BY <1>2, <1>6, <2>1, <2>2 DEF CreationOf
    <3>2. ASSUME NEW u \in Threads \ {t} PROVE CreationOf(call[u])'
      BY <1>3, <2>2, <3>2 DEF CreationOf
    <3> QED BY <3>1, <3>2
  <2>9. Fresh'
    <3> SUFFICES ASSUME NEW i \in Slots \ {h}, i >= handlesCount'
                 PROVE  /\ handles'[i] = Null /\ handleTypes'[i] = "WEAK_SHORT"
                        /\ dependentSecondaries'[i] = Null /\ extraInfo'[i] = Null
      BY <2>5 DEF Fresh
    <3>1. i >= handlesCount
      BY <1>8, Bounds
    <3> QED BY <1>4, <1>7, <3>1 DEF TableInv, Fresh
  <2>10. Places'
    BY <1>1, <2>1, <2>2, <2>3, <2>6 DEF TableInv, Places, OnHandle
  <2>11. \A g \in Owned' : Agrees(g)'
    BY <1>7, <1>10, <2>3 DEF TableInv, Agrees
  <2>12. \A g \in Given' \ raced' : g \notin Owned' => Emptied(g)'
    <3> SUFFICES ASSUME NEW g \in Given, g \notin raced, g \notin Owned PROVE Emptied(g)'
      BY <1>5, <2>3, <2>6
    <3>1. Emptied(g) /\ g # h /\ g \in Slots
      BY <1>8, <1>10 DEF TableInv
    <3>2. \A u \in Threads : call'[u].op \in Stores \cup {"destroy"} => call'[u] = call[u]
      BY <2>1, <2>2 DEF Stores
    <3> QED BY <1>7, <2>5, <3>1, <3>2 DEF Emptied
  <2> QED BY <2>4, <2>7, <2>8, <2>9, <2>10, <2>11, <2>12 DEF TableInv
<1> QED BY <1>12, <1>13

(* A write on a handle the EE was given changes that handle's object,      *)
(* secondary or info, and what the EE wants of it.                         *)
LEMMA WriteOnHandle ==
  ASSUME TableInv, NEW t \in Threads, NEW c \in Calls, call[t] = c, c.op \in OnHandle,
         NEW w \in c.todo, Write(t, w), NEW d \in Calls,
         d = IF c.todo = {w} THEN Idle ELSE [c EXCEPT !.todo = @ \ {w}],
         Shape(d), d.op \in OnHandle => d.op = c.op /\ d.h = c.h, d.op \in OnHandle
             \cup {"idle"},
         wanted' = IF c.h \in Owned THEN [wanted EXCEPT ![c.h] = wanted'[c.h]] ELSE wanted,
         c.h \in Owned => wanted'[c.h] \in Entries /\ Agrees(c.h)',
         c.h \notin raced /\ c.h \notin Owned => Emptied(c.h)'
  PROVE  TableInv'
<1> DEFINE h == c.h
<1>1. /\ Typed /\ Shape(c) /\ h \in Given /\ h \in Slots
      /\ c.op = "destroy" => h \notin Owned
  BY Bounds DEF TableInv, Places
<1>2. w \in {"object", "nulls", "info", "secondary", "exchange"}
  BY <1>1 DEF Shape, OnHandle, DestroyWrites
<1>3. c.entry.object \in Refs /\ c.entry.secondary \in Refs
      /\ c.entry.info \in Infos \cup {Null}
  BY DEF Calls, Entries
<1> HIDE DEF h
<1>4. /\ handlesCount' = handlesCount /\ handleTypes' = handleTypes /\ raced' = raced
      /\ call' = [call EXCEPT ![t] = d]
      /\ handles' \in {handles, [handles EXCEPT ![h] = c.entry.object]}
      /\ dependentSecondaries' \in
           {dependentSecondaries, [dependentSecondaries EXCEPT ![h] = c.entry.secondary]}
      /\ extraInfo' \in {extraInfo, [extraInfo EXCEPT ![h] = c.entry.info]}
  BY <1>2 DEF Write, Put, CompareExchange, h
<1>5. /\ handles' \in [Slots -> Refs] /\ dependentSecondaries' \in [Slots -> Refs]
      /\ extraInfo' \in [Slots -> Infos \cup {Null}]
      /\ \A i \in Slots \ {h} :
            /\ handles'[i] = handles[i]
            /\ dependentSecondaries'[i] = dependentSecondaries[i]
            /\ extraInfo'[i] = extraInfo[i]
  BY <1>1, <1>3, <1>4 DEF Typed
<1>6. /\ Owned' = Owned /\ wanted' \in [Owned' -> Entries]
      /\ \A g \in Owned' \ {h} : wanted'[g] = wanted[g]
  <2>1. CASE h \in Owned
    <3>1. PICK x \in Entries : wanted' = [wanted EXCEPT ![h] = x]
      BY <2>1 DEF h
    <3> QED BY <1>1, <3>1 DEF Owned, Typed
  <2>2. CASE h \notin Owned
    BY <1>1, <2>2 DEF Owned, Typed, h
  <2> QED BY <2>1, <2>2
<1>7. call'[t] = d /\ \A u \in Threads \ {t} : call'[u] = call[u]
  BY <1>1, <1>4 DEF Typed
<1>8. \A u \in Threads : call'[u].op = "destroy" /\ call'[u].h = h => h \notin Owned'
  BY <1>1, <1>6, <1>7 DEF TableInv, Places, OnHandle
<1>9. /\ d.op \in OnHandle => d.h = h
      /\ call[t].op \in OnHandle \cup {"idle"}
      /\ call[t].op \in OnHandle => call[t].h = h
      /\ raced \subseteq raced' /\ raced' \subseteq Slots
      /\ Owned' \subseteq Owned /\ Owned \ {h} \subseteq Owned'
      /\ h \in Owned' => Agrees(h)'
      /\ h \notin raced' /\ h \notin Owned' => Emptied(h)'
  BY <1>1, <1>4, <1>6 DEF h, Typed
<1> QED BY <1>1, <1>4, <1>5, <1>6, <1>8, <1>9, HandleStep

LEMMA WriteDestroy ==
  ASSUME TableInv, NEW t \in Threads, call[t].op = "destroy",
         NEW w \in call[t].todo, Write(t, w)
  PROVE  TableInv'
<1>1. PICK c \in Calls : c = call[t] /\ Shape(c) /\ c.op = "destroy"
  BY DEF TableInv, Typed
<1> DEFINE h == c.h
           d == IF c.todo = {w} THEN Idle ELSE [c EXCEPT !.todo = @ \ {w}]
<1>2. /\ Typed /\ h \in Given /\ h \in Slots /\ h \notin Owned
      /\ c.entry = NoEntry /\ w \in c.todo /\ w \in DestroyWrites
  BY <1>1, Bounds DEF TableInv, Places, OnHandle, Shape
<1>3. d = IF c.todo = {w} THEN Idle ELSE [c EXCEPT !.todo = @ \ {w}]
  OBVIOUS
<1> HIDE DEF d
<1>4. /\ d \in Calls /\ Shape(d)
      /\ \/ d = Idle /\ c.todo = {w}
         \/ d.op = "destroy" /\ d.h = h /\ d.todo = c.todo \ {w} /\ c.todo # {w}
  <2>1. CASE c.todo = {w}
    <3>1. d = Idle
      BY <1>3, <2>1
    <3> QED BY <2>1, <3>1, IdleCall
  <2>2. CASE c.todo # {w}
    <3>1. d = [c EXCEPT !.todo = @ \ {w}]
      BY <1>3, <2>2
    <3>2. /\ d \in Calls /\ Shape(d)
          /\ d.op = c.op /\ d.h = c.h /\ d.todo = c.todo \ {w}
      BY <1>1, <1>2, <2>2, <3>1, RestOfCall
    <3> QED BY <1>1, <2>2, <3>2
  <2> QED BY <2>1, <2>2
<1> HIDE DEF h
<1>5. /\ handles' = IF w = "object" THEN [handles EXCEPT ![h] = Null] ELSE handles
      /\ call' = [call EXCEPT ![t] = d] /\ wanted' = wanted
  BY <1>1, <1>2, <1>3 DEF Write, WantAfter, Put, DestroyWrites, NoEntry, Entry, Stores, h
<1>6. call'[t] = d /\ \A u \in Threads \ {t} : call'[u] = call[u]
  BY <1>2, <1>5 DEF Typed
<1>7. ASSUME h \notin raced PROVE Emptied(h)'
  <2>1. Emptied(h)
    BY <1>2, <1>7 DEF TableInv
  <2>2. w = "object" \/ "object" \notin c.todo \/ "object" \in c.todo \ {w}
    OBVIOUS
  <2>3. "object" \notin c.todo \ {w} => handles'[h] = Null
    BY <1>1, <1>2, <1>5, <2>1, <2>2 DEF Emptied, Typed, h
  <2>4. handles[h] = Null => handles'[h] = Null
    BY <1>2, <1>5 DEF Typed
  <2>5. h \notin Destroying' => handles'[h] = Null
    <3>1. d.op = "destroy" => h \in Destroying'
      BY <1>4, <1>6, IdleCall, UsedByNext
    <3>2. d = Idle => handles'[h] = Null
      BY <1>4, <2>3, IdleCall
    <3> QED BY <1>4, <3>1, <3>2
  <2>6. ASSUME NEW u \in Threads, call'[u].h = h
        PROVE  /\ call'[u].op = "destroy" /\ "object" \notin call'[u].todo
                    => handles'[h] = Null
               /\ call'[u].op \in Stores => call'[u].entry.object = Null
    <3>1. CASE u = t
      BY <1>4, <1>6, <2>3, <3>1, IdleCall DEF Stores
    <3>2. CASE u # t
      BY <1>6, <2>1, <2>4, <2>6, <3>2 DEF Emptied
    <3> QED BY <3>1, <3>2
  <2> QED BY <2>5, <2>6 DEF Emptied
<1>8. c.op \in OnHandle /\ (d.op \in OnHandle => d.op = c.op /\ d.h = c.h)
      /\ d.op \in OnHandle \cup {"idle"}
  BY <1>1, <1>4, IdleCall DEF OnHandle, h
<1>9. /\ wanted' = IF c.h \in Owned THEN [wanted EXCEPT ![c.h] = wanted'[c.h]] ELSE wanted
      /\ c.h \in Owned => wanted'[c.h] \in Entries /\ Agrees(c.h)'
      /\ c.h \notin raced /\ c.h \notin Owned => Emptied(c.h)'
  BY <1>2, <1>5, <1>7 DEF h
<1> QED BY <1>1, <1>2, <1>3, <1>4, <1>8, <1>9, WriteOnHandle

(* A handle nobody owns keeps being emptied when a call that is no destroy *)
(* ends on it, having stored null or nothing.                              *)
LEMMA StaysEmptied ==
  ASSUME TableInv, NEW t \in Threads, NEW c \in Calls, call[t] = c,
         c.op \in {"set", "store", "exchange"},
         call' = [call EXCEPT ![t] = Idle], Emptied(c.h),
         handles'[c.h] \in {handles[c.h], c.entry.object},
         c.op = "set" => handles'[c.h] = handles[c.h]
  PROVE  Emptied(c.h)'
<1>1. call'[t] = Idle /\ \A u \in Threads \ {t} : call'[u] = call[u]
  BY DEF TableInv, Typed
<1>2. c.op \in Stores => c.entry.object = Null
  BY DEF Emptied
<1>3. handles[c.h] = Null => handles'[c.h] = Null
  BY <1>2 DEF Stores
<1>4. \A g : g \in Destroying => g \in Destroying'
  BY <1>1, UsedBy, UsedByNext
<1>5. \A u \in Threads : call'[u].op \in Stores \cup {"destroy"} => call'[u] = call[u]
  BY <1>1, IdleCall DEF Stores
<1> QED BY <1>3, <1>4, <1>5 DEF Emptied

LEMMA WriteSet ==
  ASSUME TableInv, NEW t \in Threads, call[t].op = "set",
         NEW w \in call[t].todo, Write(t, w)
  PROVE  TableInv'
<1>1. PICK c \in Calls : c = call[t] /\ Shape(c) /\ c.op = "set"
  BY DEF TableInv, Typed
<1> DEFINE h == c.h
<1>2. /\ Typed /\ h \in Given /\ h \in Slots /\ c.todo = {w} /\ w \in {"info", "secondary"}
      /\ c.entry.secondary \in Refs /\ c.entry.info \in Infos \cup {Null}
  BY <1>1, Bounds DEF TableInv, Places, OnHandle, Shape, Calls, Entries
<1> HIDE DEF h
<1> DEFINE x == IF w = "info" THEN [wanted[h] EXCEPT !.info = c.entry.info]
                ELSE [wanted[h] EXCEPT !.secondary = c.entry.secondary]
<1>3. /\ handles' = handles /\ handleTypes' = handleTypes
      /\ dependentSecondaries' = IF w = "secondary"
           THEN [dependentSecondaries EXCEPT ![h] = c.entry.secondary]
           ELSE dependentSecondaries
      /\ extraInfo' =
           IF w = "info" THEN [extraInfo EXCEPT ![h] = c.entry.info] ELSE extraInfo
      /\ call' = [call EXCEPT ![t] = Idle]
      /\ wanted' = IF h \in Owned THEN [wanted EXCEPT ![h] = x] ELSE wanted
  BY <1>1, <1>2 DEF Write, WantAfter, Put, Stores, Table!Want, Table!Owned, Owned, h
<1>4. ASSUME h \in Owned
      PROVE  wanted'[h] \in Entries /\ Agrees(h)'
             /\ wanted' = [wanted EXCEPT ![h] = wanted'[h]]
  <2>1. wanted[h] \in Entries /\ Agrees(h)
    BY <1>2, <1>4 DEF TableInv, Typed
  <2>2. x \in Entries /\ x.object = wanted[h].object /\ x.type = wanted[h].type
        /\ x.secondary = (IF w = "info" THEN wanted[h].secondary ELSE c.entry.secondary)
        /\ x.info = (IF w = "info" THEN c.entry.info ELSE wanted[h].info)
    BY <1>2, <2>1 DEF Entries
  <2> HIDE DEF x
  <2>3. wanted'[h] = x /\ wanted' = [wanted EXCEPT ![h] = wanted'[h]]
    BY <1>2, <1>3, <1>4 DEF Typed, Owned
  <2> QED BY <1>2, <1>3, <2>1, <2>2, <2>3 DEF Agrees, Typed
<1>5. ASSUME h \notin raced, h \notin Owned PROVE Emptied(h)'
  <2>1. Emptied(h)
    BY <1>2, <1>5 DEF TableInv
  <2> QED BY <1>1, <1>3, <2>1, StaysEmptied DEF h
<1>6. /\ Idle = IF c.todo = {w} THEN Idle ELSE [c EXCEPT !.todo = @ \ {w}]
      /\ c.op \in OnHandle /\ w \in c.todo
      /\ Idle.op \in OnHandle => Idle.op = c.op /\ Idle.h = c.h
      /\ Idle.op \in OnHandle \cup {"idle"} /\ Idle \in Calls /\ Shape(Idle)
  BY <1>1, <1>2, IdleCall DEF OnHandle
<1>7. /\ wanted' = IF c.h \in Owned THEN [wanted EXCEPT ![c.h] = wanted'[c.h]] ELSE wanted
      /\ c.h \in Owned => wanted'[c.h] \in Entries /\ Agrees(c.h)'
      /\ c.h \notin raced /\ c.h \notin Owned => Emptied(c.h)'
  BY <1>3, <1>4, <1>5 DEF h
<1> QED BY <1>1, <1>6, <1>7, WriteOnHandle

LEMMA WriteStore ==
  ASSUME TableInv, NEW t \in Threads, call[t].op \in Stores,
         NEW w \in call[t].todo, Write(t, w)
  PROVE  TableInv'
<1>1. PICK c \in Calls : c = call[t] /\ Shape(c) /\ c.op \in Stores
  BY DEF TableInv, Typed
<1> DEFINE h == c.h
           x == [wanted[h] EXCEPT !.object = c.entry.object]
           stored == c.op = "store" \/ handles[h] = c.comparand
<1>2. /\ Typed /\ h \in Given /\ h \in Slots /\ c.todo = {w} /\ c.entry.object \in Refs
      /\ w = IF c.op = "store" THEN "object" ELSE "exchange"
  BY <1>1, Bounds DEF TableInv, Places, OnHandle, Shape, Calls, Entries, Stores
<1> HIDE DEF h
<1>3. /\ handles' = IF stored THEN [handles EXCEPT ![h] = c.entry.object] ELSE handles
      /\ handleTypes' = handleTypes
      /\ dependentSecondaries' = dependentSecondaries /\ extraInfo' = extraInfo
      /\ call' = [call EXCEPT ![t] = Idle]
      /\ wanted' = IF stored /\ h \in Owned THEN [wanted EXCEPT ![h] = x] ELSE wanted
  BY <1>1, <1>2 DEF Write, WantAfter, Put, CompareExchange, Stores, Table!WantObject,
     Table!Want, Table!Owned, Owned, h
<1>4. ASSUME h \in Owned
      PROVE  wanted'[h] \in Entries /\ Agrees(h)'
             /\ wanted' = [wanted EXCEPT ![h] = wanted'[h]]
  <2>1. wanted[h] \in Entries /\ Agrees(h)
    BY <1>2, <1>4 DEF TableInv, Typed
  <2>2. x \in Entries /\ x.object = c.entry.object /\ x.type = wanted[h].type
        /\ x.secondary = wanted[h].secondary /\ x.info = wanted[h].info
    BY <1>2, <2>1 DEF Entries
  <2> HIDE DEF x, stored
  <2>3. wanted'[h] = (IF stored THEN x ELSE wanted[h])
        /\ wanted' = [wanted EXCEPT ![h] = wanted'[h]]
    BY <1>2, <1>3, <1>4 DEF Typed, Owned
  <2> QED BY <1>2, <1>3, <2>1, <2>2, <2>3 DEF Agrees, Typed
<1>5. ASSUME h \notin raced, h \notin Owned PROVE Emptied(h)'
  <2>1. Emptied(h)
    BY <1>2, <1>5 DEF TableInv
  <2>2. handles'[h] \in {handles[h], c.entry.object}
    BY <1>2, <1>3 DEF Typed
  <2> QED BY <1>1, <1>3, <2>1, <2>2, StaysEmptied DEF h, Stores
<1>6. /\ Idle = IF c.todo = {w} THEN Idle ELSE [c EXCEPT !.todo = @ \ {w}]
      /\ c.op \in OnHandle /\ w \in c.todo
      /\ Idle.op \in OnHandle => Idle.op = c.op /\ Idle.h = c.h
      /\ Idle.op \in OnHandle \cup {"idle"} /\ Idle \in Calls /\ Shape(Idle)
  BY <1>1, <1>2, IdleCall DEF OnHandle, Stores
<1>7. /\ wanted' = IF c.h \in Owned THEN [wanted EXCEPT ![c.h] = wanted'[c.h]] ELSE wanted
      /\ c.h \in Owned => wanted'[c.h] \in Entries /\ Agrees(c.h)'
      /\ c.h \notin raced /\ c.h \notin Owned => Emptied(c.h)'
  BY <1>3, <1>4, <1>5 DEF h
<1> QED BY <1>1, <1>6, <1>7, WriteOnHandle

LEMMA WriteStep ==
  ASSUME TableInv, NEW t \in Threads, NEW w \in call[t].todo, Write(t, w)
  PROVE  TableInv'
<1>1. call[t].op \in {"create", "destroy", "set"} \cup Stores
  BY DEF TableInv, Typed, Calls, Ops, Shape, Stores
<1> QED BY <1>1, WriteCreation, WriteDestroy, WriteSet, WriteStore

-----------------------------------------------------------------------------
LEMMA TableStep ==
  ASSUME TableInv, NEW t \in Threads, Step(t), raced' # Slots
  PROVE  TableInv'
<1>1. ASSUME NEW h \in (Table!Issued \cap Slots) \cup {NoHandle}, Use(t, h)
      PROVE  TableInv'
  BY <1>1, FindOriginalStep, FindToDestroyStep, FindToSetInfoStep, FindToSetSecondaryStep,
     FindToStoreStep, FindToExchangeStep DEF Use
<1>2. ASSUME NEW object \in Refs, NEW type \in HandleTypes, CheckRoom(t, object, type)
      PROVE  TableInv'
  BY <1>2, CheckRoomStep
<1>3. CASE LoadIndex(t)
  BY <1>3, LoadIndexStep
<1>4. CASE CopyOriginal(t)
  BY <1>4, CopyOriginalStep
<1>5. ASSUME NEW w \in call[t].todo, Write(t, w) PROVE TableInv'
  BY <1>5, WriteStep
<1> QED BY <1>1, <1>2, <1>3, <1>4, <1>5 DEF Step

LEMMA RacesGiveNothing ==
  ASSUME NEW t \in Threads, Step(t), raced' # raced
  PROVE  Owned' \subseteq Owned
<1> USE DEF Owned
<1>1. ASSUME NEW h \in (Table!Issued \cap Slots) \cup {NoHandle}, Use(t, h)
      PROVE  Owned' \subseteq Owned
  BY <1>1 DEF Use, FindOriginal, FindToDestroy, FindToSetInfo, FindToSetSecondary,
     FindToStore, FindToExchange
<1>2. ASSUME NEW w \in call[t].todo, Write(t, w) PROVE FALSE
  BY <1>2 DEF Write
<1> QED BY <1>1, <1>2 DEF Step, CheckRoom, LoadIndex, CopyOriginal

LEMMA InvStep == HandlesInv /\ [Next]_vars => HandlesInv'
<1> SUFFICES ASSUME HandlesInv, [Next]_vars PROVE HandlesInv'
  OBVIOUS
<1>1. CASE raced # Slots /\ Next
  <2>1. PICK t \in Threads : Step(t)
    BY <1>1 DEF Next
  <2>2. raced' # Slots => TableInv'
    BY <1>1, <2>1, TableStep DEF HandlesInv
  <2>3. TableInv' => Owned' \subseteq Slots
    <3> SUFFICES ASSUME TableInv' PROVE Owned' \subseteq 0..(handlesCount' - 1)
                                       /\ handlesCount' \in 0..MaxHandles
      BY ThreadsAssumption DEF Slots
    <3> QED BY DEF TableInv, Typed, Places, Given
  <2>4. raced' = Slots => Owned' \subseteq Slots
    BY <1>1, <2>1, RacesGiveNothing DEF HandlesInv
  <2> QED BY <2>2, <2>3, <2>4 DEF HandlesInv
<1>2. CASE raced = Slots \/ UNCHANGED vars
  <2>1. UNCHANGED vars
    BY <1>2 DEF Next
  <2>2. raced' = raced /\ Owned' = Owned
    BY <2>1 DEF vars, Owned
  <2> QED BY <2>1, <2>2, Nothing DEF HandlesInv
<1> QED BY <1>1, <1>2

LEMMA Invariant == Spec => []HandlesInv
  BY InvStart, InvStep, PTL DEF Spec

(* However the calls of any number of threads interleave, a handle that was*)
(* not itself emptied and filled at the same time reads as the EE's calls  *)
(* left it (MiniGCHandleManager.cpp:74-88).                                *)
THEOREM RacesStayWithTheirHandle == Spec => []UnracedHandlesAgree
<1>1. HandlesInv => UnracedHandlesAgree
  <2> SUFFICES ASSUME HandlesInv, NEW h \in Owned \ raced
               PROVE  /\ InTable(h)
                      /\ handles[h] \in {wanted[h].object, Null}
                      /\ handleTypes[h] = wanted[h].type
                      /\ dependentSecondaries[h] = wanted[h].secondary
                      /\ extraInfo[h] = wanted[h].info
    BY DEF UnracedHandlesAgree
  <2>1. TableInv
    BY DEF HandlesInv
  <2> QED BY <2>1 DEF TableInv, Places, Given, InTable, Agrees
<1> QED BY <1>1, Invariant, PTL

(* Wherever a GC stops the threads, the roots it scans are the unraced     *)
(* strong handles that hold an object, and besides only what is being      *)
(* created or destroyed (MiniGCHandleStore.cpp:51-56 beside 78-87).        *)
THEOREM RootsAlwaysExact == Spec => []RootsExactWhenStopped
<1>1. HandlesInv => RootsExactWhenStopped
  <2> SUFFICES ASSUME HandlesInv, NEW h \in Slots \ raced
               PROVE
         /\ h \in Owned /\ handles[h] # Null /\ Table!IsStrongHandle(wanted[h].type)
              => h \in ScanHandles
         /\ h \in ScanHandles =>
              \/ h \in Owned /\ Table!IsStrongHandle(wanted[h].type)
              \/ h \in Destroying
              \/ \E t \in In({"create"}) :
                   /\ call[t].h = h /\ call[t].entry.object = handles[h]
                   /\ Table!IsStrongHandle(call[t].entry.type)
    BY DEF RootsExactWhenStopped
  <2>1. TableInv
    BY DEF HandlesInv
  <2>2. ~Table!IsStrongHandle("WEAK_SHORT")
    BY DEF Table!IsStrongHandle
  <2>3. ASSUME h \in Owned, handles[h] # Null, Table!IsStrongHandle(wanted[h].type)
        PROVE  h \in ScanHandles
    BY <2>1, <2>3 DEF TableInv, Places, Given, Agrees, ScanHandles
  <2>4. ASSUME h \in ScanHandles, h \notin Owned, h \notin Creating
        PROVE  h \in Destroying
    BY <2>1, <2>4 DEF TableInv, Given, Emptied, ScanHandles
  <2>5. ASSUME h \in ScanHandles, h \in Owned
        PROVE  Table!IsStrongHandle(wanted[h].type)
    BY <2>1, <2>5 DEF TableInv, Agrees, ScanHandles
  <2>6. ASSUME h \in ScanHandles, h \in Creating
        PROVE  \E t \in In({"create"}) :
                   /\ call[t].h = h /\ call[t].entry.object = handles[h]
                   /\ Table!IsStrongHandle(call[t].entry.type)
    <3>1. PICK t \in Threads : call[t].op = "create" /\ call[t].h = h
      BY <2>6, UsedBy
    <3>2. CreationOf(call[t])
      BY <2>1 DEF TableInv
    <3>3. handles[h] # Null /\ Table!IsStrongHandle(handleTypes[h])
      BY <2>6 DEF ScanHandles
    <3>4. /\ call[t].entry.object = handles[h]
          /\ Table!IsStrongHandle(call[t].entry.type)
      BY <2>2, <3>1, <3>2, <3>3 DEF CreationOf
    <3> QED BY <3>1, <3>4 DEF In
  <2> QED BY <2>3, <2>4, <2>5, <2>6
<1> QED BY <1>1, Invariant, PTL

-----------------------------------------------------------------------------
(* As long as nothing has raced, no two calls under way exclude each other.*)
CallsApart ==
  \A t, u \in Threads : call[t].h = call[u].h => ~Excludes(call[t], call[u])

(* What a call that is under way counts on until it returns: a destroy that*)
(* what it emptied stays empty, a store that there is still an object.     *)
Reliance(c) ==
  /\ c.op = "destroy" /\ "nulls" \notin c.todo =>
       dependentSecondaries[c.h] = Null /\ extraInfo[c.h] = Null
  /\ c.op \in Stores /\ c.entry.object # Null => handles[c.h] # Null

(* Where what a call puts into the tables comes from.                      *)
Origin(c) ==
  /\ c.op = "set" =>
       /\ c.entry = Entry(Null, "WEAK_SHORT", c.entry.secondary, c.entry.info)
       /\ "info" \in c.todo => c.entry.info \in Infos
  /\ c.op \in {"claim", "create"} => c.entry.type \in HandleTypes

TypesCreated == \A h \in Given : handleTypes[h] \in HandleTypes

Serial ==
  /\ CallsApart
  /\ \A t \in Threads : Reliance(call[t]) /\ Origin(call[t])
  /\ TypesCreated

(* A call that neither empties nor fills a handle excludes none.           *)
LEMMA Harmless ==
  ASSUME NEW c, c.op \in {"idle", "claim", "create", "duplicate"}
  PROVE  \A d : ~Excludes(c, d) /\ ~Excludes(d, c)
  BY DEF Excludes, Empties, Fills, Stores

(* The call of one thread changes.                                         *)
LEMMA ApartStep ==
  ASSUME TableInv, CallsApart, NEW t \in Threads, NEW c, call' = [call EXCEPT ![t] = c],
         \A u \in Threads : call[u].h = c.h =>
           ~Excludes(c, call[u]) /\ ~Excludes(call[u], c)
  PROVE  CallsApart'
<1>1. call'[t] = c /\ \A u \in Threads \ {t} : call'[u] = call[u]
  BY DEF TableInv, Typed
<1>2. ~Excludes(c, c)
  BY DEF Excludes, Empties, Fills
<1> SUFFICES ASSUME NEW u \in Threads, NEW v \in Threads, call'[u].h = call'[v].h
             PROVE  ~Excludes(call'[u], call'[v])
  BY DEF CallsApart, Excludes, Empties, Fills
<1>3. CASE u = t /\ v = t
  BY <1>1, <1>2, <1>3
<1>4. CASE u = t /\ v # t
  BY <1>1, <1>4
<1>5. CASE u # t /\ v = t
  BY <1>1, <1>5
<1>6. CASE u # t /\ v # t
  BY <1>1, <1>6 DEF CallsApart
<1> QED BY <1>3, <1>4, <1>5, <1>6

(* The last write of a call, or one before it.                             *)
LEMMA ApartRest ==
  ASSUME TableInv, CallsApart, NEW t \in Threads, NEW w \in call[t].todo,
         call' = [call EXCEPT ![t] = IF call[t].todo = {w} THEN Idle
                                     ELSE [call[t] EXCEPT !.todo = @ \ {w}]]
  PROVE  CallsApart'
<1>1. call[t] \in Calls /\ Shape(call[t])
  BY DEF TableInv, Typed
<1>2. CASE call[t].todo = {w}
  <2>1. \A d : ~Excludes(Idle, d) /\ ~Excludes(d, Idle)
    BY IdleCall, Harmless
  <2>2. call' = [call EXCEPT ![t] = Idle]
    BY <1>2
  <2> QED BY <2>1, <2>2, ApartStep
<1>3. CASE call[t].todo # {w}
  <2> DEFINE d == [call[t] EXCEPT !.todo = @ \ {w}]
  <2>1. d.op = call[t].op /\ d.h = call[t].h /\ d.entry = call[t].entry
    BY <1>1, <1>3, RestOfCall
  <2>2. ASSUME NEW u \in Threads, call[u].h = d.h
        PROVE  ~Excludes(d, call[u]) /\ ~Excludes(call[u], d)
    BY <2>1, <2>2 DEF CallsApart, Excludes, Empties, Fills
  <2> HIDE DEF d
  <2>3. call' = [call EXCEPT ![t] = d]
    BY <1>3 DEF d
  <2> QED BY <2>2, <2>3, ApartStep
<1> QED BY <1>2, <1>3

(* A call starts, or turns into another one, and writes nothing.           *)
LEMMA SerialStart ==
  ASSUME TableInv, Serial, NEW t \in Threads, NEW c, call' = [call EXCEPT ![t] = c],
         \A u \in Threads : call[u].h = c.h =>
           ~Excludes(c, call[u]) /\ ~Excludes(call[u], c),
         UNCHANGED <<handlesCount, tables>>,
         Reliance(c), Origin(c), Given' \subseteq Given
  PROVE  Serial'
<1>1. call'[t] = c /\ \A u \in Threads \ {t} : call'[u] = call[u]
  BY DEF TableInv, Typed
<1>2. CallsApart'
  BY ApartStep DEF Serial
<1>3. ASSUME NEW u \in Threads PROVE Reliance(call[u])' /\ Origin(call[u])'
  <2>1. Reliance(call'[u]) /\ Origin(call'[u])
    BY <1>1 DEF Serial
  <2> QED BY <2>1 DEF Reliance, Origin, tables
<1>4. TypesCreated'
  BY DEF Serial, TypesCreated, tables
<1> QED BY <1>2, <1>3, <1>4 DEF Serial

LEMMA GivenStays ==
  ASSUME TableInv, NEW t \in Threads, NEW c, call' = [call EXCEPT ![t] = c],
         call[t].op # "create", handlesCount' = handlesCount,
         c.op = "create" => FALSE
  PROVE  Given' = Given /\ Creating' = Creating
<1>1. call'[t] = c /\ \A u \in Threads \ {t} : call'[u] = call[u]
  BY DEF TableInv, Typed
<1>2. \A h : h \in Creating' <=> h \in Creating
  BY <1>1, UsedBy, UsedByNext
<1> QED BY <1>2 DEF Given

(* A write, whose call is done or goes on with the writes it has left.     *)
LEMMA SerialWrite ==
  ASSUME TableInv, Serial, NEW t \in Threads, NEW w \in call[t].todo,
         call' = [call EXCEPT ![t] = IF call[t].todo = {w} THEN Idle
                                     ELSE [call[t] EXCEPT !.todo = @ \ {w}]],
         \A u \in Threads : Reliance(call[u])',
         TypesCreated'
  PROVE  Serial'
<1> DEFINE d == IF call[t].todo = {w} THEN Idle ELSE [call[t] EXCEPT !.todo = @ \ {w}]
<1>1. call'[t] = d /\ \A u \in Threads \ {t} : call'[u] = call[u]
  BY DEF TableInv, Typed
<1>2. CallsApart'
  BY ApartRest DEF Serial
<1>3. call[t] \in Calls /\ Shape(call[t]) /\ Origin(call[t])
  BY DEF TableInv, Typed, Serial
<1>4. Origin(d)
  <2>1. CASE call[t].todo = {w}
    BY <2>1, IdleCall DEF Origin
  <2>2. CASE call[t].todo # {w}
    BY <1>3, <2>2, RestOfCall DEF Origin
  <2> QED BY <2>1, <2>2
<1>5. ASSUME NEW u \in Threads PROVE Origin(call[u])'
  BY <1>1, <1>4 DEF Serial, Origin
<1> QED BY <1>2, <1>5 DEF Serial

LEMMA SerialKept ==
  ASSUME Serial, UNCHANGED <<handlesCount, tables, call>>
  PROVE  Serial'
<1>1. Given' = Given
  BY DEF Given, Creating, SlotsOf, In
<1> QED BY <1>1 DEF Serial, CallsApart, Excludes, Empties, Fills, Reliance, Origin,
                    TypesCreated, tables

(* A call of an idle thread on a handle.                                   *)
LEMMA SerialFound ==
  ASSUME TableInv, Serial, NEW t \in Threads, call[t] = Idle, NEW c,
         c.op \in OnHandle, c.h \in Given, Meets(c), raced' = {},
         call' = [call EXCEPT ![t] = c], Reliance(c), Origin(c),
         UNCHANGED <<handlesCount, tables>>
  PROVE  Serial'
<1>1. c.h \in Slots
  BY Bounds
<1>2. \A u \in Threads : call[u].h = c.h => ~Excludes(c, call[u]) /\ ~Excludes(call[u], c)
  BY <1>1, MeetsRaces
<1>3. Given' = Given
  BY IdleCall, GivenStays DEF OnHandle
<1> QED BY <1>2, <1>3, SerialStart

LEMMA SerialUse ==
  ASSUME TableInv, Serial, NEW t \in Threads, raced' = {},
         NEW h \in (Table!Issued \cap Slots) \cup {NoHandle}, Use(t, h)
  PROVE  Serial'
<1>1. InTable(h) <=> h \in Given
  BY IssuedAreGiven
<1>2. ContainsHandle(h) => InTable(h)
  BY DEF ContainsHandle
<1>3. CASE FindOriginal(t, h)
  <2>1. CASE ContainsHandle(h)
    <3> DEFINE c == Call("duplicate", h, NoEntry, Null, {})
    <3>1. call[t] = Idle /\ call' = [call EXCEPT ![t] = c]
          /\ UNCHANGED <<handlesCount, tables>>
      BY <1>3, <2>1 DEF FindOriginal, Start
    <3>2. c.op = "duplicate" /\ Reliance(c) /\ Origin(c)
      BY DEF Call, Reliance, Origin, Stores
    <3> HIDE DEF c
    <3>3. \A u \in Threads : ~Excludes(c, call[u]) /\ ~Excludes(call[u], c)
      BY <3>2, Harmless
    <3>4. Given' = Given
      BY <3>1, <3>2, IdleCall, GivenStays
    <3> QED BY <3>1, <3>2, <3>3, <3>4, SerialStart
  <2>2. CASE ~ContainsHandle(h)
    BY <1>3, <2>2, SerialKept DEF FindOriginal
  <2> QED BY <2>1, <2>2
<1>4. CASE FindToDestroy(t, h)
  <2>1. CASE InTable(h)
    <3> DEFINE c == Call("destroy", h, NoEntry, Null, DestroyWrites)
    <3>1. call[t] = Idle /\ call' = [call EXCEPT ![t] = c] /\ Meets(c)
          /\ UNCHANGED <<handlesCount, tables>>
      BY <1>4, <2>1 DEF FindToDestroy, Start
    <3>2. c.op \in OnHandle /\ c.h = h /\ Reliance(c) /\ Origin(c)
      BY DEF Call, Reliance, Origin, Stores, DestroyWrites, OnHandle
    <3> HIDE DEF c
    <3> QED BY <1>1, <2>1, <3>1, <3>2, SerialFound
  <2>2. CASE ~InTable(h)
    BY <1>4, <2>2, SerialKept DEF FindToDestroy
  <2> QED BY <2>1, <2>2
<1>5. ASSUME NEW info \in Infos, FindToSetInfo(t, h, info) PROVE Serial'
  <2>1. CASE InTable(h)
    <3> DEFINE c == Call("set", h, Entry(Null, "WEAK_SHORT", Null, info), Null, {"info"})
    <3>1. call[t] = Idle /\ call' = [call EXCEPT ![t] = c] /\ Meets(c)
          /\ UNCHANGED <<handlesCount, tables>>
      BY <1>5, <2>1 DEF FindToSetInfo, Start
    <3>2. c.op \in OnHandle /\ c.h = h /\ Reliance(c) /\ Origin(c)
      BY DEF Call, Entry, Reliance, Origin, Stores, OnHandle
    <3> HIDE DEF c
    <3> QED BY <1>1, <2>1, <3>1, <3>2, SerialFound
  <2>2. CASE ~InTable(h)
    BY <1>5, <2>2, SerialKept DEF FindToSetInfo
  <2> QED BY <2>1, <2>2
<1>6. ASSUME NEW object \in Refs, FindToSetSecondary(t, h, object) PROVE Serial'
  <2>1. CASE InTable(h)
    <3> DEFINE c == Call("set", h, Entry(Null, "WEAK_SHORT", object, Null), Null,
                         {"secondary"})
    <3>1. call[t] = Idle /\ call' = [call EXCEPT ![t] = c] /\ Meets(c)
          /\ UNCHANGED <<handlesCount, tables>>
      BY <1>6, <2>1 DEF FindToSetSecondary, Start
    <3>2. c.op \in OnHandle /\ c.h = h /\ Reliance(c) /\ Origin(c)
      BY DEF Call, Entry, Reliance, Origin, Stores, OnHandle
    <3> HIDE DEF c
    <3> QED BY <1>1, <2>1, <3>1, <3>2, SerialFound
  <2>2. CASE ~InTable(h)
    BY <1>6, <2>2, SerialKept DEF FindToSetSecondary
  <2> QED BY <2>1, <2>2
<1>7. ASSUME NEW object \in Refs, FindToStore(t, h, object) PROVE Serial'
  <2>1. CASE ContainsHandle(h)
    <3> DEFINE c == Call("store", h, Entry(object, "WEAK_SHORT", Null, Null), Null,
                         {"object"})
    <3>1. call[t] = Idle /\ call' = [call EXCEPT ![t] = c] /\ Meets(c)
          /\ UNCHANGED <<handlesCount, tables>>
      BY <1>7, <2>1 DEF FindToStore, Start
    <3>2. c.op \in OnHandle /\ c.h = h /\ Reliance(c) /\ Origin(c)
      BY <2>1 DEF Call, Entry, Reliance, Origin, Stores, OnHandle, ContainsHandle
    <3> HIDE DEF c
    <3> QED BY <1>1, <1>2, <2>1, <3>1, <3>2, SerialFound
  <2>2. CASE ~ContainsHandle(h)
    BY <1>7, <2>2, SerialKept DEF FindToStore
  <2> QED BY <2>1, <2>2
<1>8. ASSUME NEW object \in Refs, NEW comparand \in Refs, NEW ifNull \in BOOLEAN,
             FindToExchange(t, h, object, comparand, ifNull)
      PROVE  Serial'
  <2>1. CASE ContainsHandle(h)
    <3> DEFINE c == Call("exchange", h, Entry(object, "WEAK_SHORT", Null, Null),
                         comparand, {"exchange"})
    <3>1. call[t] = Idle /\ call' = [call EXCEPT ![t] = c] /\ Meets(c)
          /\ UNCHANGED <<handlesCount, tables>>
      BY <1>8, <2>1 DEF FindToExchange, Start
    <3>2. c.op \in OnHandle /\ c.h = h /\ Reliance(c) /\ Origin(c)
      BY <2>1 DEF Call, Entry, Reliance, Origin, Stores, OnHandle, ContainsHandle
    <3> HIDE DEF c
    <3> QED BY <1>1, <1>2, <2>1, <3>1, <3>2, SerialFound
  <2>2. CASE ~ContainsHandle(h)
    BY <1>8, <2>2, SerialKept DEF FindToExchange
  <2> QED BY <2>1, <2>2
<1> QED BY <1>3, <1>4, <1>5, <1>6, <1>7, <1>8 DEF Use

(* The steps of a creation before it writes.                               *)
LEMMA SerialClaim ==
  ASSUME TableInv, Serial, NEW t \in Threads, call[t].op \in {"idle", "duplicate"},
         NEW entry, entry.type \in HandleTypes,
         call' = [call EXCEPT ![t] = Call("claim", NoHandle, entry, Null, {})],
         UNCHANGED <<handlesCount, tables>>
  PROVE  Serial'
<1> DEFINE c == Call("claim", NoHandle, entry, Null, {})
<1>1. c.op = "claim" /\ Reliance(c) /\ Origin(c)
  BY DEF Call, Reliance, Origin, Stores
<1>2. call' = [call EXCEPT ![t] = c]
  OBVIOUS
<1> HIDE DEF c
<1>3. \A u \in Threads : ~Excludes(c, call[u]) /\ ~Excludes(call[u], c)
  BY <1>1, Harmless
<1>4. Given' = Given
  BY <1>1, <1>2, GivenStays
<1> QED BY <1>1, <1>2, <1>3, <1>4, SerialStart

LEMMA SerialCreation ==
  ASSUME TableInv, Serial, NEW t \in Threads,
         \/ \E object \in Refs, type \in HandleTypes : CheckRoom(t, object, type)
         \/ LoadIndex(t)
         \/ CopyOriginal(t)
  PROVE  Serial'
<1>1. ASSUME NEW object \in Refs, NEW type \in HandleTypes, CheckRoom(t, object, type)
      PROVE  Serial'
  <2>1. CASE HasRoom
    <3> DEFINE entry == Entry(object, type, Null, Null)
    <3>1. entry.type \in HandleTypes
      BY DEF Entry
    <3>2. call[t].op = "idle" /\ UNCHANGED <<handlesCount, tables>>
          /\ call' = [call EXCEPT ![t] = Call("claim", NoHandle, entry, Null, {})]
      BY <1>1, <2>1, IdleCall DEF CheckRoom, Start
    <3> HIDE DEF entry
    <3> QED BY <3>1, <3>2, SerialClaim
  <2>2. CASE ~HasRoom
    BY <1>1, <2>2, SerialKept DEF CheckRoom
  <2> QED BY <2>1, <2>2
<1>2. CASE LoadIndex(t)
  <2> DEFINE c == Call("create", handlesCount, call[t].entry, Null, CreateWrites)
  <2>1. call[t].op = "claim" /\ call' = [call EXCEPT ![t] = c]
        /\ UNCHANGED <<handlesCount, tables>>
    BY <1>2 DEF LoadIndex, TableInv, Typed
  <2>2. c.op = "create" /\ Reliance(c) /\ Origin(c)
    BY <2>1 DEF Call, Reliance, Origin, Stores, Serial
  <2> HIDE DEF c
  <2>3. \A u \in Threads : ~Excludes(c, call[u]) /\ ~Excludes(call[u], c)
    BY <2>2, Harmless
  <2>4. Given' \subseteq Given
    <3>1. call'[t] = c /\ \A u \in Threads \ {t} : call'[u] = call[u]
      BY <2>1 DEF TableInv, Typed
    <3>2. Creating \subseteq Creating'
      BY <2>1, <3>1, UsedBy, UsedByNext
    <3> QED BY <2>1, <3>2 DEF Given
  <2> QED BY <2>1, <2>2, <2>3, <2>4, SerialStart
<1>3. CASE CopyOriginal(t)
  <2>1. CASE HasRoom
    <3> DEFINE entry == Entry(handles[call[t].h], handleTypes[call[t].h], Null, Null)
    <3>1. call[t].op = "duplicate" /\ UNCHANGED <<handlesCount, tables>>
          /\ call' = [call EXCEPT ![t] = Call("claim", NoHandle, entry, Null, {})]
      BY <1>3, <2>1 DEF CopyOriginal
    <3>2. call[t].h \in Given
      BY <3>1 DEF TableInv, Places, OnHandle
    <3>3. entry.type \in HandleTypes
      BY <3>2 DEF Entry, Serial, TypesCreated
    <3> HIDE DEF entry
    <3> QED BY <3>1, <3>3, SerialClaim
  <2>2. CASE ~HasRoom
    <3>1. call[t].op = "duplicate" /\ UNCHANGED <<handlesCount, tables>>
          /\ call' = [call EXCEPT ![t] = Idle]
      BY <1>3, <2>2 DEF CopyOriginal
    <3>2. \A u \in Threads : ~Excludes(Idle, call[u]) /\ ~Excludes(call[u], Idle)
      BY IdleCall, Harmless
    <3>3. Reliance(Idle) /\ Origin(Idle)
      BY IdleCall DEF Reliance, Origin, Stores
    <3>4. Given' = Given
      BY <3>1, IdleCall, GivenStays
    <3> QED BY <3>1, <3>2, <3>3, <3>4, SerialStart
  <2> QED BY <2>1, <2>2
<1> QED BY <1>1, <1>2, <1>3

(* What the writes of each kind of call do.                                *)
LEMMA WriteEffect ==
  ASSUME TableInv, NEW t \in Threads, call[t].op \in OnHandle,
         NEW w \in call[t].todo, Write(t, w)
  PROVE  LET c == call[t]  h == c.h  e == c.entry IN
         /\ h \in Given /\ c \in Calls /\ Shape(c)
         /\ handlesCount' = handlesCount /\ handleTypes' = handleTypes
         /\ call' = [call EXCEPT ![t] =
                       IF c.todo = {w} THEN Idle ELSE [c EXCEPT !.todo = @ \ {w}]]
         /\ Given' = Given /\ Creating' = Creating
         /\ c.op = "destroy" =>
              /\ c.todo \subseteq {"object", "nulls"} /\ e = NoEntry
              /\ handles' = IF w = "object" THEN [handles EXCEPT ![h] = Null] ELSE handles
              /\ dependentSecondaries' = IF w = "nulls"
                   THEN [dependentSecondaries EXCEPT ![h] = Null] ELSE dependentSecondaries
              /\ extraInfo' = IF w = "nulls"
                   THEN [extraInfo EXCEPT ![h] = Null] ELSE extraInfo
         /\ c.op = "set" =>
              /\ c.todo = {w} /\ w \in {"info", "secondary"}
              /\ handles' = handles
              /\ dependentSecondaries' = IF w = "secondary"
                   THEN [dependentSecondaries EXCEPT ![h] = e.secondary]
                   ELSE dependentSecondaries
              /\ extraInfo' = IF w = "info"
                   THEN [extraInfo EXCEPT ![h] = e.info] ELSE extraInfo
         /\ c.op \in Stores =>
              /\ c.todo = {w} /\ e = Entry(e.object, "WEAK_SHORT", Null, Null)
              /\ handles' = IF c.op = "store" \/ handles[h] = c.comparand
                   THEN [handles EXCEPT ![h] = e.object] ELSE handles
              /\ UNCHANGED <<dependentSecondaries, extraInfo>>
<1> DEFINE c == call[t]
           d == IF c.todo = {w} THEN Idle ELSE [c EXCEPT !.todo = @ \ {w}]
<1>1. c.h \in Given /\ c \in Calls /\ Shape(c)
  BY DEF TableInv, Typed, Places
<1>2. w \in {"object", "nulls", "info", "secondary", "exchange"}
      /\ (c.op # "duplicate")
  BY <1>1 DEF Shape, OnHandle, DestroyWrites
<1>3. handlesCount' = handlesCount /\ handleTypes' = handleTypes
      /\ call' = [call EXCEPT ![t] = d]
  BY <1>2 DEF Write
<1>4. Given' = Given /\ Creating' = Creating
  <2>1. d.op = "create" => FALSE
    <3>1. CASE c.todo = {w}
      BY <3>1, IdleCall
    <3>2. CASE c.todo # {w}
      BY <1>1, <3>2, RestOfCall DEF OnHandle
    <3> QED BY <3>1, <3>2
  <2>2. c.op # "create"
    BY DEF OnHandle
  <2> HIDE DEF d
  <2> QED BY <1>3, <2>1, <2>2, GivenStays
<1>5. ASSUME c.op = "destroy"
      PROVE  /\ c.todo \subseteq {"object", "nulls"} /\ c.entry = NoEntry
             /\ handles' = IF w = "object" THEN [handles EXCEPT ![c.h] = Null] ELSE handles
             /\ dependentSecondaries' = IF w = "nulls"
                  THEN [dependentSecondaries EXCEPT ![c.h] = Null] ELSE dependentSecondaries
             /\ extraInfo' = IF w = "nulls"
                  THEN [extraInfo EXCEPT ![c.h] = Null] ELSE extraInfo
  <2>1. c.todo \subseteq {"object", "nulls"} /\ c.entry = NoEntry
    BY <1>1, <1>5 DEF Shape, DestroyWrites
  <2>2. c.entry.object = Null /\ c.entry.secondary = Null /\ c.entry.info = Null
    BY <2>1 DEF NoEntry, Entry
  <2> QED BY <2>1, <2>2 DEF Write, Put
<1>6. ASSUME c.op = "set"
      PROVE  /\ c.todo = {w} /\ w \in {"info", "secondary"}
             /\ handles' = handles
             /\ dependentSecondaries' = IF w = "secondary"
                  THEN [dependentSecondaries EXCEPT ![c.h] = c.entry.secondary]
                  ELSE dependentSecondaries
             /\ extraInfo' = IF w = "info"
                  THEN [extraInfo EXCEPT ![c.h] = c.entry.info] ELSE extraInfo
  <2>1. c.todo = {w} /\ w \in {"info", "secondary"}
    BY <1>1, <1>6 DEF Shape
  <2> QED BY <2>1 DEF Write, Put
<1>7. ASSUME c.op \in Stores
      PROVE  /\ c.todo = {w} /\ c.entry = Entry(c.entry.object, "WEAK_SHORT", Null, Null)
             /\ handles' = IF c.op = "store" \/ handles[c.h] = c.comparand
                  THEN [handles EXCEPT ![c.h] = c.entry.object] ELSE handles
             /\ UNCHANGED <<dependentSecondaries, extraInfo>>
  <2>1. /\ c.todo = {w} /\ c.entry = Entry(c.entry.object, "WEAK_SHORT", Null, Null)
        /\ w = IF c.op = "store" THEN "object" ELSE "exchange"
    BY <1>1, <1>7 DEF Shape, Stores
  <2> QED BY <2>1 DEF Write, Put, CompareExchange
<1> HIDE DEF c, d
<1>8. QED BY <1>1, <1>3, <1>4, <1>5, <1>6, <1>7 DEF c, d

LEMMA SerialOnHandle ==
  ASSUME TableInv, Serial, NEW t \in Threads, call[t].op \in OnHandle,
         NEW w \in call[t].todo, Write(t, w)
  PROVE  Serial'
<1> DEFINE c == call[t]
<1>1. PICK h : h = c.h
  OBVIOUS
<1>2. /\ h \in Given /\ h \in Slots /\ c \in Calls /\ Shape(c) /\ Typed
      /\ handlesCount' = handlesCount /\ handleTypes' = handleTypes
      /\ call' = [call EXCEPT ![t] =
                    IF c.todo = {w} THEN Idle ELSE [c EXCEPT !.todo = @ \ {w}]]
      /\ Given' = Given
  BY <1>1, WriteEffect, Bounds DEF TableInv
<1>3. TypesCreated'
  BY <1>2 DEF Serial, TypesCreated
<1>4. \A u \in Threads \ {t} : call'[u] = call[u] /\ Reliance(call[u])
      /\ (call[u].h = h => ~Excludes(c, call[u]) /\ ~Excludes(call[u], c))
  BY <1>1, <1>2 DEF Serial, CallsApart, Typed
<1>5. /\ DOMAIN handles = Slots /\ DOMAIN dependentSecondaries = Slots
      /\ DOMAIN extraInfo = Slots
  BY <1>2 DEF Typed
<1>6. CASE c.op = "destroy"
  <2>1. /\ c.todo \subseteq {"object", "nulls"} /\ c.entry = NoEntry
        /\ handles' = IF w = "object" THEN [handles EXCEPT ![h] = Null] ELSE handles
        /\ dependentSecondaries' = IF w = "nulls"
             THEN [dependentSecondaries EXCEPT ![h] = Null] ELSE dependentSecondaries
        /\ extraInfo' = IF w = "nulls" THEN [extraInfo EXCEPT ![h] = Null] ELSE extraInfo
    BY <1>1, <1>6, WriteEffect
  <2>2. ASSUME NEW u \in Threads \ {t} PROVE Reliance(call[u])'
    <3>1. call[u].op \in Stores /\ call[u].entry.object # Null => call[u].h # h
      BY <1>4, <1>6, <2>1 DEF Excludes, Empties, Fills, NoEntry, Entry
    <3>2. call[u].op \in Stores /\ call[u].entry.object # Null =>
            handles'[call[u].h] # Null
      BY <1>4, <1>5, <2>1, <3>1 DEF Reliance
    <3>3. call[u].op = "destroy" /\ "nulls" \notin call[u].todo =>
            dependentSecondaries'[call[u].h] = Null /\ extraInfo'[call[u].h] = Null
      BY <1>2, <1>4, <1>5, <2>1 DEF Reliance
    <3> QED BY <1>4, <3>2, <3>3 DEF Reliance
  <2>3. Reliance(call[t])'
    <3>1. CASE c.todo = {w}
      BY <1>2, <3>1, IdleCall DEF Reliance, Stores, Typed
    <3>2. CASE c.todo # {w}
      <4>1. call'[t].op = "destroy" /\ call'[t].h = h /\ call'[t].todo = c.todo \ {w}
        BY <1>1, <1>2, <1>6, <3>2, RestOfCall DEF Typed
      <4>2. "nulls" \notin c.todo =>
              dependentSecondaries[h] = Null /\ extraInfo[h] = Null
        BY <1>1, <1>6 DEF Serial, Reliance
      <4>3. "nulls" \notin c.todo \ {w} =>
              dependentSecondaries'[h] = Null /\ extraInfo'[h] = Null
        BY <1>2, <1>5, <2>1, <4>2
      <4> QED BY <4>1, <4>3 DEF Reliance, Stores
    <3> QED BY <3>1, <3>2
  <2>4. \A u \in Threads : Reliance(call[u])'
    BY <2>2, <2>3
  <2> QED BY <1>2, <1>3, <2>4, SerialWrite
<1>7. CASE c.op = "set"
  <2>1. /\ c.todo = {w} /\ w \in {"info", "secondary"}
        /\ handles' = handles
        /\ dependentSecondaries' = IF w = "secondary"
             THEN [dependentSecondaries EXCEPT ![h] = c.entry.secondary]
             ELSE dependentSecondaries
        /\ extraInfo' = IF w = "info"
             THEN [extraInfo EXCEPT ![h] = c.entry.info] ELSE extraInfo
    BY <1>1, <1>7, WriteEffect
  <2>2. ASSUME NEW u \in Threads \ {t} PROVE Reliance(call[u])'
    <3>1. call[u].op = "destroy" /\ call[u].h = h =>
            c.entry.secondary = Null /\ c.entry.info = Null
      <4>1. SUFFICES ASSUME call[u].op = "destroy", call[u].h = h
                     PROVE  c.entry.secondary = Null /\ c.entry.info = Null
        OBVIOUS
      <4>2. call[u].entry = NoEntry
        BY <4>1 DEF TableInv, Shape
      <4>3. c.entry = NoEntry
        BY <1>4, <1>7, <4>1, <4>2 DEF Excludes, Empties, Fills
      <4> QED BY <4>3 DEF NoEntry, Entry
    <3>2. call[u].op = "destroy" /\ "nulls" \notin call[u].todo =>
            dependentSecondaries'[call[u].h] = Null /\ extraInfo'[call[u].h] = Null
      BY <1>2, <1>4, <1>5, <2>1, <3>1 DEF Reliance
    <3> QED BY <1>4, <2>1, <3>2 DEF Reliance
  <2>3. Reliance(call[t])'
    BY <1>2, <2>1, IdleCall DEF Reliance, Stores, Typed
  <2>4. \A u \in Threads : Reliance(call[u])'
    BY <2>2, <2>3
  <2> QED BY <1>2, <1>3, <2>4, SerialWrite
<1>8. CASE c.op \in Stores
  <2>1. /\ c.todo = {w} /\ c.entry = Entry(c.entry.object, "WEAK_SHORT", Null, Null)
        /\ handles' = IF c.op = "store" \/ handles[h] = c.comparand
             THEN [handles EXCEPT ![h] = c.entry.object] ELSE handles
        /\ UNCHANGED <<dependentSecondaries, extraInfo>>
    BY <1>1, <1>8, WriteEffect
  <2>2. ASSUME NEW u \in Threads \ {t} PROVE Reliance(call[u])'
    <3>1. call[u].op \in Stores /\ call[u].entry.object # Null /\ call[u].h = h =>
            c.entry.object # Null
      <4>1. SUFFICES ASSUME call[u].op \in Stores, call[u].entry.object # Null,
                            call[u].h = h, c.entry.object = Null
                     PROVE  FALSE
        OBVIOUS
      <4>2. c.entry = NoEntry /\ call[u].entry # NoEntry
        BY <2>1, <4>1 DEF NoEntry, Entry
      <4> QED BY <1>4, <1>8, <4>1, <4>2 DEF Excludes, Empties, Fills
    <3>2. call[u].op \in Stores /\ call[u].entry.object # Null =>
            handles'[call[u].h] # Null
      BY <1>2, <1>4, <1>5, <2>1, <3>1 DEF Reliance
    <3> QED BY <1>4, <2>1, <3>2 DEF Reliance
  <2>3. Reliance(call[t])'
    BY <1>2, <2>1, IdleCall DEF Reliance, Stores, Typed
  <2>4. \A u \in Threads : Reliance(call[u])'
    BY <2>2, <2>3
  <2> QED BY <1>2, <1>3, <2>4, SerialWrite
<1>9. c.op # "duplicate"
  BY <1>2 DEF Shape
<1> QED BY <1>6, <1>7, <1>8, <1>9 DEF OnHandle, Stores

LEMMA SerialCreates ==
  ASSUME TableInv, Serial, NEW t \in Threads, call[t].op = "create",
         NEW w \in call[t].todo, Write(t, w)
  PROVE  Serial'
<1> DEFINE c == call[t]
<1>1. PICK h : h = c.h
  OBVIOUS
<1>2. /\ Typed /\ c \in Calls /\ Shape(c) /\ CreationOf(c)
      /\ h \in Slots /\ c.todo \subseteq CreateWrites
      /\ c.entry.secondary = Null /\ c.entry.info = Null
      /\ c.entry.type \in HandleTypes
  BY <1>1 DEF TableInv, Typed, Shape, CreationOf, Serial, Origin
<1>3. /\ handlesCount' = IF w = "count" THEN h + 1 ELSE handlesCount
      /\ handles' = IF w = "object" THEN [handles EXCEPT ![h] = c.entry.object]
                    ELSE handles
      /\ handleTypes' = IF w = "type" THEN [handleTypes EXCEPT ![h] = c.entry.type]
                        ELSE handleTypes
      /\ dependentSecondaries' = IF w = "nulls"
           THEN [dependentSecondaries EXCEPT ![h] = Null] ELSE dependentSecondaries
      /\ extraInfo' = IF w = "nulls" THEN [extraInfo EXCEPT ![h] = Null] ELSE extraInfo
      /\ call' = [call EXCEPT ![t] =
                    IF c.todo = {w} THEN Idle ELSE [c EXCEPT !.todo = @ \ {w}]]
  BY <1>1, <1>2 DEF Write, Put, CreateWrites
<1>4. /\ DOMAIN handles = Slots /\ DOMAIN dependentSecondaries = Slots
      /\ DOMAIN extraInfo = Slots /\ DOMAIN handleTypes = Slots
  BY <1>2 DEF Typed
<1>5. \A u \in Threads \ {t} : call'[u] = call[u] /\ Reliance(call[u])
  BY <1>2, <1>3 DEF Serial, Typed
<1>6. h \in Creating
  BY <1>1, UsedBy
<1>7. ASSUME NEW u \in Threads \ {t} PROVE Reliance(call[u])'
  <2>1. call[u].op \in Stores \cup {"destroy"} => call[u].h # h
    BY <1>6 DEF TableInv, Places, Given, OnHandle, Stores
  <2> QED BY <1>3, <1>4, <1>5, <2>1 DEF Reliance
<1>8. Reliance(call[t])'
  <2>1. call'[t].op \in {"idle", "create"}
    <3>1. CASE c.todo = {w}
      BY <1>2, <1>3, <3>1, IdleCall DEF Typed
    <3>2. CASE c.todo # {w}
      BY <1>2, <1>3, <3>2, RestOfCall DEF Typed
    <3> QED BY <3>1, <3>2
  <2> QED BY <2>1 DEF Reliance, Stores
<1>9. TypesCreated'
  <2> SUFFICES ASSUME NEW g \in Given' PROVE handleTypes'[g] \in HandleTypes
    BY DEF TypesCreated
  <2>1. handlesCount \in {h, h + 1} /\ handlesCount' \in {h, h + 1}
        /\ h \in Nat /\ g \in 0..(handlesCount' - 1) /\ g \notin Creating'
    BY <1>1, <1>2, <1>3, ThreadsAssumption DEF CreationOf, Given, Slots
  <2>2. CASE g = h
    <3>1. c.todo = {w}
      <4>1. SUFFICES ASSUME c.todo # {w} PROVE FALSE
        OBVIOUS
      <4>2. call'[t].op = "create" /\ call'[t].h = h
        BY <1>1, <1>2, <1>3, <4>1, RestOfCall DEF Typed
      <4> QED BY <2>1, <2>2, <4>2, UsedByNext
    <3>2. handleTypes'[h] = c.entry.type
      BY <1>1, <1>2, <1>3, <1>4, <3>1 DEF CreationOf
    <3> QED BY <1>2, <2>2, <3>2
  <2>3. CASE g # h
    <3>1. g \in 0..(handlesCount - 1)
      <4>1. \A k \in {h, h + 1}, m \in {h, h + 1} :
              h \in Nat /\ g # h /\ g \in 0..(k - 1) => g \in 0..(m - 1)
        OBVIOUS
      <4> QED BY <2>1, <2>3, <4>1
    <3>2. g \notin Creating
      BY <1>1, <2>3, UsedBy DEF TableInv, OneCreator, In
    <3>3. g \in Given /\ g \in Slots
      BY <3>1, <3>2, Bounds DEF Given
    <3> QED BY <1>3, <1>4, <2>3, <3>3 DEF Serial, TypesCreated
  <2> QED BY <2>2, <2>3
<1>10. \A u \in Threads : Reliance(call[u])'
  BY <1>7, <1>8
<1> QED BY <1>3, <1>9, <1>10, SerialWrite

LEMMA SerialStep ==
  ASSUME TableInv, Serial, NEW t \in Threads, Step(t), raced' = {}
  PROVE  Serial'
<1>1. ASSUME NEW w \in call[t].todo, Write(t, w) PROVE Serial'
  <2>1. call[t].op \in {"create"} \cup OnHandle
    BY DEF TableInv, Typed, Calls, Ops, Shape, OnHandle
  <2> QED BY <1>1, <2>1, SerialCreates, SerialOnHandle
<1> QED BY <1>1, SerialUse, SerialCreation DEF Step

-----------------------------------------------------------------------------
(* The refinement.  What the serialised table is shown to hold.            *)
ShownCount == handlesCount - Cardinality(Counted)
ShownHandles == Hide(Creating \cup Destroying, handles, Null)
ShownTypes == Hide(Creating, handleTypes, "WEAK_SHORT")
ShownSecondaries == Hide(Creating \cup Destroying, dependentSecondaries, Null)
ShownInfo == Hide(Creating \cup Destroying, extraInfo, Null)

shown == <<ShownCount, ShownHandles, ShownTypes, ShownSecondaries, ShownInfo, wanted>>

LEMMA ShownIsTable == UNCHANGED shown => UNCHANGED Table!vars
  BY DEF shown, ShownCount, ShownHandles, ShownTypes, ShownSecondaries, ShownInfo,
         Table!vars

LEMMA HideSame ==
  ASSUME NEW f, NEW g, DOMAIN f = Slots, DOMAIN g = Slots, NEW A, NEW B, NEW v,
         \A i \in Slots : (IF i \in B THEN v ELSE g[i]) = IF i \in A THEN v ELSE f[i]
  PROVE  Hide(B, g, v) = Hide(A, f, v)
  BY DEF Hide

LEMMA HidePut ==
  ASSUME NEW f, NEW g, DOMAIN f = Slots, DOMAIN g = Slots, NEW A, NEW B, NEW v,
         NEW h \in Slots, NEW x, x = IF h \in B THEN v ELSE g[h],
         \A i \in Slots \ {h} :
           (IF i \in B THEN v ELSE g[i]) = IF i \in A THEN v ELSE f[i]
  PROVE  Hide(B, g, v) = [Hide(A, f, v) EXCEPT ![h] = x]
  BY DEF Hide

LEMMA Domains ==
  ASSUME TableInv
  PROVE  /\ DOMAIN handles = Slots /\ DOMAIN handleTypes = Slots
         /\ DOMAIN dependentSecondaries = Slots /\ DOMAIN extraInfo = Slots
         /\ \A i \in Slots : ShownHandles[i] = IF i \in Creating \cup Destroying
                                               THEN Null ELSE handles[i]
  BY DEF TableInv, Typed, ShownHandles, Hide

LEMMA CountShown ==
  ASSUME TableInv
  PROVE  \/ Counted = {} /\ ShownCount = handlesCount
         \/ \E u \in Threads : /\ Counted = {u} /\ ShownCount = handlesCount - 1
                               /\ call[u].op = "create" /\ call[u].h = handlesCount - 1
<1>1. CASE Counted = {}
  BY <1>1, FS_EmptySet, Bounds DEF ShownCount
<1>2. ASSUME NEW u \in Counted
      PROVE  /\ Counted = {u} /\ ShownCount = handlesCount - 1
             /\ u \in Threads /\ call[u].op = "create" /\ call[u].h = handlesCount - 1
  <2>1. Counted = {u}
    BY <1>2 DEF Counted, In, TableInv, OneCreator
  <2>2. ShownCount = handlesCount - 1
    BY <2>1, FS_Singleton DEF ShownCount
  <2>3. u \in Threads /\ call[u].op = "create" /\ call[u].h = handlesCount - 1
    BY <1>2, Bounds DEF Counted, In, TableInv, CreationOf
  <2> QED BY <2>1, <2>2, <2>3
<1> QED BY <1>1, <1>2

(* The handles the EE was given are those the serialised table has issued. *)
LEMMA GivenShown ==
  ASSUME TableInv, NEW h \in (Table!Issued \cap Slots) \cup {NoHandle} \cup Given
  PROVE  /\ h \in Table!Slots \cup {NoHandle}
         /\ Table!InTable(h) <=> h \in Given
         /\ h \in Given => h \in Slots /\ Table!GetHandleIndex(h) = h
         /\ Table!ContainsHandle(h) <=> h \in Given /\ ShownHandles[h] # Null
<1>1. Given \subseteq Slots /\ NoHandle \notin Slots /\ Slots = Table!Slots
  BY Bounds DEF Slots, Table!Slots
<1>2. h \in Given => h \in 0..(ShownCount - 1)
  <2>1. ASSUME h \in Given, NEW u \in Threads, call[u].op = "create"
        PROVE  h # call[u].h
    BY <2>1, UsedBy DEF Given
  <2>2. h \in Given => h \in 0..(handlesCount - 1)
    BY DEF Given
  <2> QED BY <2>1, <2>2, CountShown, Bounds
<1>3. h \in Given \/ h = NoHandle
  BY IssuedAreGiven
<1>4. ~(-1 \in 0..(ShownCount - 1))
  OBVIOUS
<1>5. Table!InTable(h) <=> h \in Given
  BY <1>1, <1>2, <1>3, <1>4
     DEF Table!InTable, Table!GetHandleIndex, Table!Issued, ShownCount
<1> QED BY <1>1, <1>3, <1>5 DEF Table!GetHandleIndex, Table!ContainsHandle, ShownHandles

(* The calls of the serialised table, by what they change in it.           *)
LEMMA ShownDestroy ==
  ASSUME TableInv, NEW h \in Given,
         ShownHandles' = [ShownHandles EXCEPT ![h] = Null],
         ShownSecondaries' = [ShownSecondaries EXCEPT ![h] = Null],
         ShownInfo' = [ShownInfo EXCEPT ![h] = Null],
         UNCHANGED <<ShownCount, ShownTypes>>,
         wanted' = [g \in Owned \ {h} |-> wanted[g]]
  PROVE  Table!Next
<1>1. h \in Table!Slots /\ Table!InTable(h) /\ Table!GetHandleIndex(h) = h
  BY GivenShown, Bounds DEF Table!Slots, Slots
<1>2. Table!DestroyHandle(h)
  BY <1>1 DEF Table!DestroyHandle, Table!Owned, Owned, ShownHandles, ShownSecondaries,
              ShownInfo, ShownCount, ShownTypes
<1> QED BY <1>1, <1>2 DEF Table!Next, Table!Use

LEMMA ShownSetInfo ==
  ASSUME TableInv, NEW h \in Given, NEW info \in Infos,
         ShownInfo' = [ShownInfo EXCEPT ![h] = info],
         UNCHANGED <<ShownCount, ShownHandles, ShownTypes, ShownSecondaries>>,
         Table!Want(h, [wanted[h] EXCEPT !.info = info])
  PROVE  Table!Next
<1>1. h \in Table!Slots /\ Table!InTable(h) /\ Table!GetHandleIndex(h) = h
  BY GivenShown, Bounds DEF Table!Slots, Slots
<1>2. Table!SetExtraInfo(h, info)
  BY <1>1 DEF Table!SetExtraInfo, ShownHandles, ShownSecondaries, ShownInfo, ShownCount,
              ShownTypes
<1> QED BY <1>1, <1>2 DEF Table!Next, Table!Use

LEMMA ShownSetSecondary ==
  ASSUME TableInv, NEW h \in Given, NEW object \in Refs,
         ShownSecondaries' = [ShownSecondaries EXCEPT ![h] = object],
         UNCHANGED <<ShownCount, ShownHandles, ShownTypes, ShownInfo>>,
         Table!Want(h, [wanted[h] EXCEPT !.secondary = object])
  PROVE  Table!Next
<1>1. h \in Table!Slots /\ Table!InTable(h) /\ Table!GetHandleIndex(h) = h
  BY GivenShown, Bounds DEF Table!Slots, Slots
<1>2. Table!SetDependentSecondary(h, object)
  BY <1>1 DEF Table!SetDependentSecondary, ShownHandles, ShownSecondaries, ShownInfo,
              ShownCount, ShownTypes
<1>3. object \in Table!Refs
  BY DEF Table!Refs, Refs
<1> QED BY <1>1, <1>2, <1>3 DEF Table!Next, Table!Use

LEMMA ShownStore ==
  ASSUME TableInv, NEW h \in Given, NEW object \in Refs,
         ShownHandles' = IF ShownHandles[h] # Null
                         THEN [ShownHandles EXCEPT ![h] = object] ELSE ShownHandles,
         UNCHANGED <<ShownCount, ShownTypes, ShownSecondaries, ShownInfo>>,
         Table!WantObject(h, object)
  PROVE  Table!Next
<1>1. /\ h \in Table!Slots /\ Table!GetHandleIndex(h) = h
      /\ Table!ContainsHandle(h) <=> ShownHandles[h] # Null
  BY GivenShown, Bounds DEF Table!Slots, Slots
<1>2. Table!StoreObjectInHandle(h, object)
  BY <1>1 DEF Table!StoreObjectInHandle, Table!otherVars, ShownHandles, ShownSecondaries,
              ShownInfo, ShownCount, ShownTypes
<1>3. object \in Table!Refs
  BY DEF Table!Refs, Refs
<1> QED BY <1>1, <1>2, <1>3 DEF Table!Next, Table!Use

LEMMA ShownExchange ==
  ASSUME TableInv, NEW h \in Given, NEW object \in Refs, NEW comparand \in Refs,
         ShownHandles' = IF ShownHandles[h] # Null /\ ShownHandles[h] = comparand
                         THEN [ShownHandles EXCEPT ![h] = object] ELSE ShownHandles,
         UNCHANGED <<ShownCount, ShownTypes, ShownSecondaries, ShownInfo>>,
         IF ShownHandles[h] = comparand
           THEN Table!WantObject(h, object) ELSE UNCHANGED wanted
  PROVE  Table!Next
<1>1. /\ h \in Table!Slots /\ Table!GetHandleIndex(h) = h
      /\ Table!ContainsHandle(h) <=> ShownHandles[h] # Null
      /\ h \in Slots
  BY GivenShown, Bounds DEF Table!Slots, Slots
<1>2. Table!InterlockedCompareExchange(h, object, comparand)
  <2>1. CASE ShownHandles[h] # Null
    <3>1. Table!CompareExchange(h, object, comparand)
      <4>1. ShownHandles' =
              [ShownHandles EXCEPT ![h] = IF @ = comparand THEN object ELSE @]
        BY <1>1, <2>1, Domains DEF ShownHandles, Hide
      <4> QED BY <4>1 DEF Table!CompareExchange, ShownHandles
    <3> QED BY <1>1, <2>1, <3>1
            DEF Table!InterlockedCompareExchange, Table!otherVars, ShownHandles,
                ShownSecondaries, ShownInfo, ShownCount, ShownTypes
  <2>2. CASE ShownHandles[h] = Null
    BY <1>1, <2>2
       DEF Table!InterlockedCompareExchange, Table!otherVars, ShownHandles,
           ShownSecondaries, ShownInfo, ShownCount, ShownTypes
  <2> QED BY <2>1, <2>2
<1>3. object \in Table!Refs /\ comparand \in Table!Refs
  BY DEF Table!Refs, Refs
<1> QED BY <1>1, <1>2, <1>3 DEF Table!Next, Table!Use

LEMMA ShownCreate ==
  ASSUME TableInv, NEW h, h = ShownCount, h < MaxHandles,
         NEW object \in Refs, NEW type \in HandleTypes,
         ShownCount' = ShownCount + 1,
         ShownHandles' = [ShownHandles EXCEPT ![h] = object],
         ShownTypes' = [ShownTypes EXCEPT ![h] = type],
         ShownSecondaries' = [ShownSecondaries EXCEPT ![h] = Null],
         ShownInfo' = [ShownInfo EXCEPT ![h] = Null],
         wanted' = [g \in Owned \cup {h} |->
                      IF g = h THEN Entry(object, type, Null, Null) ELSE wanted[g]]
  PROVE  Table!Next
<1>1. Table!CreateHandleOfType(object, type)
  BY DEF Table!CreateHandleOfType, Table!NewHandle, Table!HasRoom, Table!Owned, Owned,
         Entry, ShownHandles, ShownSecondaries, ShownInfo, ShownCount, ShownTypes
<1>2. object \in Table!Refs
  BY DEF Table!Refs, Refs
<1> QED BY <1>1, <1>2 DEF Table!Next, Table!Create

-----------------------------------------------------------------------------
(* What a change of one call means for what is hidden of the tables.       *)
LEMMA CallOnly ==
  ASSUME TableInv, NEW t \in Threads, NEW c, call' = [call EXCEPT ![t] = c],
         call[t].op # "create", c.op # "create"
  PROVE  /\ Creating' = Creating /\ Counted' = Counted
         /\ call[t].op # "destroy" /\ c.op # "destroy" => Destroying' = Destroying
<1>1. call'[t] = c /\ \A u \in Threads \ {t} : call'[u] = call[u]
  BY DEF TableInv, Typed
<1>2. Creating' = Creating
  <2>1. \A h : h \in Creating' <=> h \in Creating
    BY <1>1, UsedBy, UsedByNext
  <2> QED BY <2>1
<1>3. Counted' = Counted
  BY <1>1 DEF Counted, In
<1>4. ASSUME call[t].op # "destroy", c.op # "destroy" PROVE Destroying' = Destroying
  <2>1. \A h : h \in Destroying' <=> h \in Destroying
    BY <1>1, <1>4, UsedBy, UsedByNext
  <2> QED BY <2>1
<1> QED BY <1>2, <1>3, <1>4

LEMMA QuietCall ==
  ASSUME TableInv, NEW t \in Threads, NEW c, call' = [call EXCEPT ![t] = c],
         call[t].op \notin {"create", "destroy"}, c.op \notin {"create", "destroy"},
         UNCHANGED <<handlesCount, tables, wanted>>
  PROVE  UNCHANGED Table!vars
<1>1. Creating' = Creating /\ Counted' = Counted /\ Destroying' = Destroying
  BY CallOnly
<1> QED BY <1>1, ShownIsTable DEF shown, ShownCount, ShownHandles, ShownTypes,
           ShownSecondaries, ShownInfo, tables

LEMMA SameCall ==
  ASSUME TableInv, NEW t \in Threads, call[t] = Idle, UNCHANGED call
  PROVE  call' = [call EXCEPT ![t] = Idle]
  BY DEF TableInv, Typed

LEMMA QuietTables ==
  ASSUME UNCHANGED <<handlesCount, tables, call>>
  PROVE  UNCHANGED <<ShownCount, ShownHandles, ShownTypes, ShownSecondaries, ShownInfo>>
  BY DEF ShownCount, ShownHandles, ShownTypes, ShownSecondaries, ShownInfo, tables,
     Creating, Destroying, Counted, SlotsOf, In

(* A destroy is done once it has found its handle.                         *)
LEMMA DestroyShown ==
  ASSUME TableInv, NEW t \in Threads,
         NEW h \in (Table!Issued \cap Slots) \cup {NoHandle}, FindToDestroy(t, h)
  PROVE  Table!Next \/ UNCHANGED Table!vars
<1>1. InTable(h) <=> h \in Given
  BY IssuedAreGiven
<1>2. CASE ~InTable(h)
  <2>1. call[t] = Idle /\ UNCHANGED <<handlesCount, tables, wanted, call>>
    BY <1>2 DEF FindToDestroy
  <2> QED BY <2>1, SameCall, IdleCall, QuietCall
<1>3. CASE InTable(h)
  <2> DEFINE c == Call("destroy", h, NoEntry, Null, DestroyWrites)
  <2>1. /\ call[t] = Idle /\ call' = [call EXCEPT ![t] = c]
        /\ UNCHANGED <<handlesCount, tables>>
        /\ wanted' = [g \in Owned \ {h} |-> wanted[g]]
    BY <1>3 DEF FindToDestroy, Start
  <2>2. c.op = "destroy" /\ c.h = h
    BY DEF Call
  <2> HIDE DEF c
  <2>3. Creating' = Creating /\ Counted' = Counted
    BY <2>1, <2>2, IdleCall, CallOnly
  <2>4. Destroying' = Destroying \cup {h}
    <3>1. call'[t] = c /\ \A u \in Threads \ {t} : call'[u] = call[u]
      BY <2>1 DEF TableInv, Typed
    <3>2. \A g : g \in Destroying' <=> g \in Destroying \cup {h}
      BY <2>1, <2>2, <3>1, IdleCall, UsedBy, UsedByNext
    <3> QED BY <3>2
  <2>5. h \in Given /\ h \in Slots
    BY <1>1, <1>3, Bounds
  <2> DEFINE before == Creating \cup Destroying
             after == Creating' \cup Destroying'
  <2>6. h \in after /\ \A i \in Slots \ {h} : i \in after <=> i \in before
    BY <2>3, <2>4
  <2>7. UNCHANGED <<handles, handleTypes, dependentSecondaries, extraInfo>>
    BY <2>1 DEF tables
  <2> HIDE DEF before, after
  <2>8. ASSUME NEW f, DOMAIN f = Slots
        PROVE  Hide(after, f, Null) = [Hide(before, f, Null) EXCEPT ![h] = Null]
    BY <2>5, <2>6, <2>8 DEF Hide
  <2>9. /\ ShownHandles' = [ShownHandles EXCEPT ![h] = Null]
        /\ ShownSecondaries' = [ShownSecondaries EXCEPT ![h] = Null]
        /\ ShownInfo' = [ShownInfo EXCEPT ![h] = Null]
    BY <2>7, <2>8, Domains DEF ShownHandles, ShownSecondaries, ShownInfo, before, after
  <2>10. UNCHANGED <<ShownCount, ShownTypes>>
    BY <2>1, <2>3, <2>7 DEF ShownCount, ShownTypes
  <2> QED BY <2>1, <2>5, <2>9, <2>10, ShownDestroy
<1> QED BY <1>2, <1>3

(* A store or an exchange is done when it finds no handle; all else waits. *)
LEMMA UseShown ==
  ASSUME TableInv, NEW t \in Threads,
         NEW h \in (Table!Issued \cap Slots) \cup {NoHandle}, Use(t, h)
  PROVE  Table!Next \/ UNCHANGED Table!vars
<1>1. InTable(h) <=> h \in Given
  BY IssuedAreGiven
<1>2. h \notin Given => h = NoHandle /\ h \notin Owned
  BY IssuedAreGiven, Bounds DEF TableInv, Places
<1>3. ASSUME NEW c, Start(t, c), c.op \notin {"create", "destroy"},
             UNCHANGED <<handlesCount, tables, wanted>>
      PROVE  UNCHANGED Table!vars
  BY <1>3, IdleCall, QuietCall DEF Start
<1>4. ASSUME call[t] = Idle, UNCHANGED <<handlesCount, tables, wanted, call>>
      PROVE  UNCHANGED Table!vars
  BY <1>4, SameCall, IdleCall, QuietCall
<1>5. ASSUME NEW description, Table!Want(h, description), h \notin Owned
      PROVE  UNCHANGED wanted
  BY <1>5 DEF Table!Want, Table!Owned, Owned
<1>6. CASE FindOriginal(t, h)
  <2>1. CASE ContainsHandle(h)
    <3>1. Start(t, Call("duplicate", h, NoEntry, Null, {}))
          /\ UNCHANGED <<handlesCount, tables, wanted>>
      BY <1>6, <2>1 DEF FindOriginal
    <3>2. Call("duplicate", h, NoEntry, Null, {}).op = "duplicate"
      BY DEF Call
    <3> QED BY <1>3, <3>1, <3>2
  <2>2. CASE ~ContainsHandle(h)
    BY <1>4, <1>6, <2>2 DEF FindOriginal
  <2> QED BY <2>1, <2>2
<1>7. ASSUME NEW info \in Infos, FindToSetInfo(t, h, info) PROVE UNCHANGED Table!vars
  <2>1. CASE InTable(h)
    <3> DEFINE c == Call("set", h, Entry(Null, "WEAK_SHORT", Null, info), Null, {"info"})
    <3>1. Start(t, c) /\ UNCHANGED <<handlesCount, tables, wanted>> /\ c.op = "set"
      BY <1>7, <2>1 DEF FindToSetInfo, Call
    <3> QED BY <1>3, <3>1
  <2>2. CASE ~InTable(h)
    BY <1>1, <1>2, <1>4, <1>5, <1>7, <2>2 DEF FindToSetInfo
  <2> QED BY <2>1, <2>2
<1>8. ASSUME NEW object \in Refs, FindToSetSecondary(t, h, object)
      PROVE  UNCHANGED Table!vars
  <2>1. CASE InTable(h)
    <3> DEFINE c == Call("set", h, Entry(Null, "WEAK_SHORT", object, Null), Null,
                         {"secondary"})
    <3>1. Start(t, c) /\ UNCHANGED <<handlesCount, tables, wanted>> /\ c.op = "set"
      BY <1>8, <2>1 DEF FindToSetSecondary, Call
    <3> QED BY <1>3, <3>1
  <2>2. CASE ~InTable(h)
    BY <1>1, <1>2, <1>4, <1>5, <1>8, <2>2 DEF FindToSetSecondary
  <2> QED BY <2>1, <2>2
<1>9. ASSUME h \in Given, ~ContainsHandle(h) PROVE ShownHandles[h] = Null
  BY <1>1, <1>9, Domains, Bounds DEF ContainsHandle
<1>10. ASSUME NEW object \in Refs, FindToStore(t, h, object)
       PROVE  Table!Next \/ UNCHANGED Table!vars
  <2>1. CASE ContainsHandle(h)
    <3> DEFINE c == Call("store", h, Entry(object, "WEAK_SHORT", Null, Null), Null,
                         {"object"})
    <3>1. Start(t, c) /\ UNCHANGED <<handlesCount, tables, wanted>> /\ c.op = "store"
      BY <1>10, <2>1 DEF FindToStore, Call
    <3> QED BY <1>3, <3>1
  <2>2. CASE ~ContainsHandle(h)
    <3>1. call[t] = Idle /\ UNCHANGED <<handlesCount, tables, call>>
          /\ Table!WantObject(h, object)
      BY <1>10, <2>2 DEF FindToStore
    <3>2. CASE h \in Given
      <4>1. UNCHANGED <<ShownCount, ShownHandles, ShownTypes, ShownSecondaries, ShownInfo>>
        BY <3>1, QuietTables
      <4> QED BY <1>9, <2>2, <3>1, <3>2, <4>1, ShownStore
    <3>3. CASE h \notin Given
      BY <1>2, <1>4, <1>5, <3>1, <3>3 DEF Table!WantObject
    <3> QED BY <3>2, <3>3
  <2> QED BY <2>1, <2>2
<1>11. ASSUME NEW object \in Refs, NEW comparand \in Refs, NEW ifNull \in BOOLEAN,
              FindToExchange(t, h, object, comparand, ifNull)
       PROVE  Table!Next \/ UNCHANGED Table!vars
  <2>1. CASE ContainsHandle(h)
    <3> DEFINE c == Call("exchange", h, Entry(object, "WEAK_SHORT", Null, Null),
                         comparand, {"exchange"})
    <3>1. Start(t, c) /\ UNCHANGED <<handlesCount, tables, wanted>> /\ c.op = "exchange"
      BY <1>11, <2>1 DEF FindToExchange, Call
    <3> QED BY <1>3, <3>1
  <2>2. CASE ~ContainsHandle(h)
    <3>1. call[t] = Idle /\ UNCHANGED <<handlesCount, tables, call>>
          /\ IF comparand = Null /\ ~ifNull
               THEN Table!WantObject(h, object) ELSE UNCHANGED wanted
      BY <1>11, <2>2 DEF FindToExchange
    <3>2. CASE UNCHANGED wanted
      BY <1>4, <3>1, <3>2
    <3>3. CASE comparand = Null /\ h \in Given /\ Table!WantObject(h, object)
      <4>1. UNCHANGED <<ShownCount, ShownHandles, ShownTypes, ShownSecondaries, ShownInfo>>
        BY <3>1, QuietTables
      <4> QED BY <1>9, <2>2, <3>3, <4>1, ShownExchange
    <3>4. CASE h \notin Given /\ Table!WantObject(h, object)
      BY <1>2, <1>4, <1>5, <3>1, <3>4 DEF Table!WantObject
    <3> QED BY <3>1, <3>2, <3>3, <3>4
  <2> QED BY <2>1, <2>2
<1> QED BY <1>6, <1>7, <1>8, <1>10, <1>11, DestroyShown DEF Use

(* A creation that takes its index hides a slot that is empty anyway.      *)
LEMMA CreationShown ==
  ASSUME TableInv, NEW t \in Threads,
         \/ \E object \in Refs, type \in HandleTypes : CheckRoom(t, object, type)
         \/ LoadIndex(t)
         \/ CopyOriginal(t)
  PROVE  UNCHANGED Table!vars
<1>1. ASSUME NEW object \in Refs, NEW type \in HandleTypes, CheckRoom(t, object, type)
      PROVE  UNCHANGED Table!vars
  <2> DEFINE c == Call("claim", NoHandle, Entry(object, type, Null, Null), Null, {})
  <2>1. c.op = "claim"
    BY DEF Call
  <2>2. CASE HasRoom
    BY <1>1, <2>1, <2>2, IdleCall, QuietCall DEF CheckRoom, Start
  <2>3. CASE ~HasRoom
    BY <1>1, <2>3, SameCall, IdleCall, QuietCall DEF CheckRoom
  <2> QED BY <2>2, <2>3
<1>2. CASE LoadIndex(t)
  <2> DEFINE c == Call("create", handlesCount, call[t].entry, Null, CreateWrites)
  <2>1. /\ call[t].op = "claim" /\ call' = [call EXCEPT ![t] = c]
        /\ UNCHANGED <<handlesCount, tables, wanted>>
    BY <1>2 DEF LoadIndex, TableInv, Typed
  <2>2. c.op = "create" /\ c.h = handlesCount /\ "count" \in c.todo
    BY DEF Call, CreateWrites
  <2> HIDE DEF c
  <2>3. call'[t] = c /\ \A u \in Threads \ {t} : call'[u] = call[u]
    BY <2>1 DEF TableInv, Typed
  <2>4. Counted' = Counted
    BY <2>1, <2>2, <2>3 DEF Counted, In
  <2>5. Creating = {}
    BY <2>1, UsedBy DEF TableInv, OneCreator, In
  <2>6. Creating' = {handlesCount}
    <3>1. \A h : h \in Creating' <=> h = handlesCount
      BY <2>2, <2>3, <2>5, UsedBy, UsedByNext
    <3> QED BY <3>1
  <2>7. Destroying' = Destroying
    <3>1. \A h : h \in Destroying' <=> h \in Destroying
      BY <2>1, <2>2, <2>3, UsedBy, UsedByNext
    <3> QED BY <3>1
  <2>8. UNCHANGED <<handles, handleTypes, dependentSecondaries, extraInfo>>
    BY <2>1 DEF tables
  <2>9. \A i \in Slots : i = handlesCount =>
          /\ handles[i] = Null /\ handleTypes[i] = "WEAK_SHORT"
          /\ dependentSecondaries[i] = Null /\ extraInfo[i] = Null
    BY <2>5, Bounds DEF TableInv, Fresh
  <2> DEFINE before == Creating \cup Destroying
             after == Creating' \cup Destroying'
  <2>10. \A i : i \in after <=> i \in before \/ i = handlesCount
    BY <2>5, <2>6, <2>7
  <2> HIDE DEF before, after
  <2>11. /\ Hide(after, handles', Null) = Hide(before, handles, Null)
         /\ Hide(after, dependentSecondaries', Null) =
              Hide(before, dependentSecondaries, Null)
         /\ Hide(after, extraInfo', Null) = Hide(before, extraInfo, Null)
    BY <2>8, <2>9, <2>10, Domains, HideSame
  <2>12. Hide(Creating', handleTypes', "WEAK_SHORT") =
           Hide(Creating, handleTypes, "WEAK_SHORT")
    BY <2>5, <2>6, <2>8, <2>9, Domains, HideSame
  <2> QED BY <2>1, <2>4, <2>11, <2>12, ShownIsTable
          DEF shown, ShownCount, ShownHandles, ShownTypes, ShownSecondaries, ShownInfo,
              before, after
<1>3. CASE CopyOriginal(t)
  <2> DEFINE c == Call("claim", NoHandle,
                       Entry(handles[call[t].h], handleTypes[call[t].h], Null, Null),
                       Null, {})
  <2>1. c.op = "claim"
    BY DEF Call
  <2>2. /\ call[t].op = "duplicate" /\ UNCHANGED <<handlesCount, tables, wanted>>
        /\ call' = [call EXCEPT ![t] = IF HasRoom THEN c ELSE Idle]
    BY <1>3 DEF CopyOriginal
  <2> HIDE DEF c
  <2> QED BY <2>1, <2>2, IdleCall, QuietCall
<1> QED BY <1>1, <1>2, <1>3

(* A creation is a creation when it returns.                               *)
LEMMA CreationEffect ==
  ASSUME TableInv, Serial, NEW t \in Threads, call[t].op = "create",
         NEW w \in call[t].todo, Write(t, w)
  PROVE  LET c == call[t]  h == c.h  e == c.entry IN
         /\ c \in Calls /\ Shape(c) /\ CreationOf(c) /\ h \in Slots
         /\ c.todo \subseteq CreateWrites
         /\ e.object \in Refs /\ e.type \in HandleTypes
         /\ e = Entry(e.object, e.type, Null, Null)
         /\ handlesCount' = IF w = "count" THEN h + 1 ELSE handlesCount
         /\ handles' = IF w = "object" THEN [handles EXCEPT ![h] = e.object] ELSE handles
         /\ handleTypes' = IF w = "type" THEN [handleTypes EXCEPT ![h] = e.type]
                           ELSE handleTypes
         /\ dependentSecondaries' = IF w = "nulls"
              THEN [dependentSecondaries EXCEPT ![h] = Null] ELSE dependentSecondaries
         /\ extraInfo' = IF w = "nulls"
              THEN [extraInfo EXCEPT ![h] = Null] ELSE extraInfo
         /\ call' = [call EXCEPT ![t] =
                       IF c.todo = {w} THEN Idle ELSE [c EXCEPT !.todo = @ \ {w}]]
         /\ wanted' = IF c.todo = {w}
              THEN [g \in Owned \cup {h} |-> IF g = h THEN e ELSE wanted[g]] ELSE wanted
         /\ Creating = {h} /\ h \notin Destroying
         /\ Counted = IF "count" \in c.todo THEN {} ELSE {t}
         /\ \A u \in Threads \ {t} : call'[u] = call[u] /\ call[u].op # "create"
<1> DEFINE c == call[t]
<1>1. /\ Typed /\ c \in Calls /\ Shape(c) /\ CreationOf(c)
      /\ c.h \in Slots /\ c.todo \subseteq CreateWrites
      /\ c.entry.secondary = Null /\ c.entry.info = Null
      /\ c.entry.type \in HandleTypes /\ c.entry \in Entries
  BY DEF TableInv, Typed, Shape, CreationOf, Serial, Origin, Calls
<1>2. c.entry = Entry(c.entry.object, c.entry.type, Null, Null) /\ c.entry.object \in Refs
  BY <1>1 DEF Entries, Entry
<1>3. /\ handlesCount' = IF w = "count" THEN c.h + 1 ELSE handlesCount
      /\ handles' = IF w = "object" THEN [handles EXCEPT ![c.h] = c.entry.object]
                    ELSE handles
      /\ handleTypes' = IF w = "type" THEN [handleTypes EXCEPT ![c.h] = c.entry.type]
                        ELSE handleTypes
      /\ dependentSecondaries' = IF w = "nulls"
           THEN [dependentSecondaries EXCEPT ![c.h] = Null] ELSE dependentSecondaries
      /\ extraInfo' = IF w = "nulls"
           THEN [extraInfo EXCEPT ![c.h] = Null] ELSE extraInfo
      /\ call' = [call EXCEPT ![t] =
                    IF c.todo = {w} THEN Idle ELSE [c EXCEPT !.todo = @ \ {w}]]
      /\ wanted' = IF c.todo = {w}
           THEN [g \in Owned \cup {c.h} |-> IF g = c.h THEN c.entry ELSE wanted[g]]
           ELSE wanted
  BY <1>1 DEF Write, WantAfter, Put, CreateWrites, Stores
<1>4. \A u \in Threads \ {t} : call'[u] = call[u] /\ call[u].op # "create"
  BY <1>1, <1>3 DEF Typed, TableInv, OneCreator, In
<1>5. Creating = {c.h}
  BY <1>4, UsedBy
<1>6. c.h \notin Destroying
  BY <1>5, UsedBy DEF TableInv, Places, Given, OnHandle
<1>7. Counted = IF "count" \in c.todo THEN {} ELSE {t}
  BY <1>4 DEF Counted, In
<1> HIDE DEF c
<1> QED BY <1>1, <1>2, <1>3, <1>4, <1>5, <1>6, <1>7 DEF c

LEMMA CreationEnds ==
  ASSUME TableInv, Serial, NEW t \in Threads, call[t].op = "create",
         NEW w \in call[t].todo, Write(t, w), call[t].todo = {w}
  PROVE  Table!Next
<1> DEFINE c == call[t]  e == c.entry
<1>1. PICK h : h = c.h
  OBVIOUS
<1>2. /\ CreationOf(c) /\ h \in Slots
      /\ w \in CreateWrites
      /\ e.object \in Refs /\ e.type \in HandleTypes
      /\ e = Entry(e.object, e.type, Null, Null)
      /\ handlesCount' = IF w = "count" THEN h + 1 ELSE handlesCount
      /\ handles' = IF w = "object" THEN [handles EXCEPT ![h] = e.object] ELSE handles
      /\ handleTypes' = IF w = "type" THEN [handleTypes EXCEPT ![h] = e.type]
                        ELSE handleTypes
      /\ dependentSecondaries' = IF w = "nulls"
           THEN [dependentSecondaries EXCEPT ![h] = Null] ELSE dependentSecondaries
      /\ extraInfo' = IF w = "nulls" THEN [extraInfo EXCEPT ![h] = Null] ELSE extraInfo
      /\ call' = [call EXCEPT ![t] = Idle]
      /\ wanted' = [g \in Owned \cup {h} |-> IF g = h THEN e ELSE wanted[g]]
      /\ Creating = {h} /\ h \notin Destroying
      /\ Counted = IF w = "count" THEN {} ELSE {t}
      /\ \A u \in Threads \ {t} : call'[u] = call[u] /\ call[u].op # "create"
  BY <1>1, CreationEffect
<1>3. call'[t] = Idle /\ h \in Nat /\ h < MaxHandles
  BY <1>2, ThreadsAssumption DEF TableInv, Typed, Slots
<1>4. Creating' = {} /\ Counted' = {}
  <2>1. \A u \in Threads : call'[u].op # "create"
    BY <1>2, <1>3, IdleCall
  <2>2. Counted' = {}
    BY <2>1 DEF Counted, In
  <2>3. \A g : g \notin Creating'
    BY <2>1, UsedByNext
  <2> QED BY <2>2, <2>3
<1>5. Destroying' = Destroying
  <2>1. \A g : g \in Destroying' <=> g \in Destroying
    BY <1>2, <1>3, IdleCall, UsedBy, UsedByNext
  <2> QED BY <2>1
<1>6. /\ handles'[h] = e.object /\ handleTypes'[h] = e.type
      /\ dependentSecondaries'[h] = Null /\ extraInfo'[h] = Null
      /\ handlesCount = IF w = "count" THEN h ELSE h + 1
  BY <1>1, <1>2, Domains DEF CreationOf
<1>7. ShownCount = h /\ ShownCount' = h + 1
  <2>1. CASE w = "count"
    BY <1>2, <1>3, <1>4, <1>6, <2>1, FS_EmptySet DEF ShownCount
  <2>2. CASE w # "count"
    <3>1. Counted = {t} /\ Counted' = {} /\ handlesCount = h + 1 /\ handlesCount' = h + 1
      BY <1>2, <1>4, <1>6, <2>2
    <3>2. Cardinality(Counted) = 1 /\ Cardinality(Counted') = 0
      BY <3>1, FS_EmptySet, FS_Singleton
    <3> QED BY <1>3, <3>1, <3>2 DEF ShownCount
  <2> QED BY <2>1, <2>2
<1>8. /\ \A i \in Slots \ {h} :
           /\ handles'[i] = handles[i] /\ handleTypes'[i] = handleTypes[i]
           /\ dependentSecondaries'[i] = dependentSecondaries[i]
           /\ extraInfo'[i] = extraInfo[i]
      /\ DOMAIN handles' = Slots /\ DOMAIN handleTypes' = Slots
      /\ DOMAIN dependentSecondaries' = Slots /\ DOMAIN extraInfo' = Slots
  BY <1>2, Domains
<1>9. ASSUME NEW f, NEW g, NEW x, DOMAIN f = Slots, DOMAIN g = Slots, g[h] = x,
             \A i \in Slots \ {h} : g[i] = f[i]
      PROVE  Hide((Creating \cup Destroying)', g, Null) =
               [Hide(Creating \cup Destroying, f, Null) EXCEPT ![h] = x]
  BY <1>2, <1>4, <1>5, <1>9 DEF Hide
<1> HIDE DEF c, e
<1>10. /\ ShownHandles' = [ShownHandles EXCEPT ![h] = e.object]
       /\ ShownTypes' = [ShownTypes EXCEPT ![h] = e.type]
       /\ ShownSecondaries' = [ShownSecondaries EXCEPT ![h] = Null]
       /\ ShownInfo' = [ShownInfo EXCEPT ![h] = Null]
  <2>1. ShownHandles' = [ShownHandles EXCEPT ![h] = e.object]
    BY <1>6, <1>8, <1>9, Domains DEF ShownHandles
  <2>2. ShownTypes' = [ShownTypes EXCEPT ![h] = e.type]
    BY <1>2, <1>4, <1>6, <1>8, Domains DEF ShownTypes, Hide
  <2>3. ShownSecondaries' = [ShownSecondaries EXCEPT ![h] = Null]
    BY <1>6, <1>8, <1>9, Domains DEF ShownSecondaries
  <2>4. ShownInfo' = [ShownInfo EXCEPT ![h] = Null]
    BY <1>6, <1>8, <1>9, Domains DEF ShownInfo
  <2> QED BY <2>1, <2>2, <2>3, <2>4
<1> QED BY <1>2, <1>3, <1>7, <1>10, ShownCreate

LEMMA CreationGoesOn ==
  ASSUME TableInv, Serial, NEW t \in Threads, call[t].op = "create",
         NEW w \in call[t].todo, Write(t, w), call[t].todo # {w}
  PROVE  UNCHANGED Table!vars
<1> DEFINE c == call[t]  e == c.entry
           d == [c EXCEPT !.todo = @ \ {w}]
<1>1. PICK h : h = c.h
  OBVIOUS
<1>2. /\ c \in Calls /\ Shape(c) /\ CreationOf(c) /\ h \in Slots
      /\ c.todo \subseteq CreateWrites
      /\ handlesCount' = IF w = "count" THEN h + 1 ELSE handlesCount
      /\ handles' = IF w = "object" THEN [handles EXCEPT ![h] = e.object] ELSE handles
      /\ handleTypes' = IF w = "type" THEN [handleTypes EXCEPT ![h] = e.type]
                        ELSE handleTypes
      /\ dependentSecondaries' = IF w = "nulls"
           THEN [dependentSecondaries EXCEPT ![h] = Null] ELSE dependentSecondaries
      /\ extraInfo' = IF w = "nulls" THEN [extraInfo EXCEPT ![h] = Null] ELSE extraInfo
      /\ call' = [call EXCEPT ![t] = d]
      /\ wanted' = wanted
      /\ Creating = {h} /\ h \notin Destroying
      /\ Counted = IF "count" \in c.todo THEN {} ELSE {t}
      /\ \A u \in Threads \ {t} : call'[u] = call[u] /\ call[u].op # "create"
  BY <1>1, CreationEffect
<1>3. /\ call'[t] = d /\ d.op = "create" /\ d.h = h /\ d.todo = c.todo \ {w}
      /\ h \in Nat
  BY <1>1, <1>2, RestOfCall, ThreadsAssumption DEF TableInv, Typed, Slots
<1> HIDE DEF d
<1>4. Creating' = {h}
  <2>1. \A g : g \in Creating' <=> g = h
    BY <1>2, <1>3, UsedByNext
  <2> QED BY <2>1
<1>5. Destroying' = Destroying
  <2>1. \A g : g \in Destroying' <=> g \in Destroying
    BY <1>2, <1>3, UsedBy, UsedByNext
  <2> QED BY <2>1
<1>6. Counted' = IF "count" \in c.todo \ {w} THEN {} ELSE {t}
  BY <1>2, <1>3 DEF Counted, In
<1>7. ShownCount' = ShownCount
  <2>1. handlesCount = IF "count" \in c.todo THEN h ELSE h + 1
    BY <1>1, <1>2 DEF CreationOf
  <2>2. CASE w = "count"
    <3>1. Counted = {} /\ Counted' = {t} /\ handlesCount = h /\ handlesCount' = h + 1
      BY <1>2, <1>6, <2>1, <2>2
    <3>2. Cardinality(Counted) = 0 /\ Cardinality(Counted') = 1
      BY <3>1, FS_EmptySet, FS_Singleton
    <3> QED BY <1>3, <3>1, <3>2 DEF ShownCount
  <2>3. CASE w # "count"
    BY <1>2, <1>6, <2>3 DEF ShownCount
  <2> QED BY <2>2, <2>3
<1>8. ASSUME NEW f, NEW g, NEW x, DOMAIN f = Slots, g = f \/ g = [f EXCEPT ![h] = x]
      PROVE  /\ Hide(Creating' \cup Destroying', g, Null) =
                  Hide(Creating \cup Destroying, f, Null)
             /\ Hide(Creating', g, "WEAK_SHORT") = Hide(Creating, f, "WEAK_SHORT")
  BY <1>2, <1>4, <1>5, <1>8 DEF Hide
<1> HIDE DEF c, e
<1>9. ShownHandles' = ShownHandles
  BY <1>2, <1>8, Domains DEF ShownHandles
<1>10. ShownTypes' = ShownTypes
  BY <1>2, <1>8, Domains DEF ShownTypes
<1>11. ShownSecondaries' = ShownSecondaries
  BY <1>2, <1>8, Domains DEF ShownSecondaries
<1>12. ShownInfo' = ShownInfo
  BY <1>2, <1>8, Domains DEF ShownInfo
<1> QED BY <1>2, <1>7, <1>9, <1>10, <1>11, <1>12, ShownIsTable DEF shown

(* What a destroy still writes after its check is hidden, and is empty when*)
(* it is shown again.                                                      *)
LEMMA DestroyWritten ==
  ASSUME TableInv, Serial, NEW t \in Threads, call[t].op = "destroy",
         NEW w \in call[t].todo, Write(t, w), raced' = {}
  PROVE  UNCHANGED Table!vars
<1> DEFINE c == call[t]
           d == IF c.todo = {w} THEN Idle ELSE [c EXCEPT !.todo = @ \ {w}]
<1>1. PICK h : h = c.h
  OBVIOUS
<1>2. /\ h \in Given /\ c \in Calls /\ Shape(c)
      /\ handlesCount' = handlesCount /\ handleTypes' = handleTypes
      /\ call' = [call EXCEPT ![t] = d] /\ Creating' = Creating
      /\ c.todo \subseteq {"object", "nulls"}
      /\ handles' = IF w = "object" THEN [handles EXCEPT ![h] = Null] ELSE handles
      /\ dependentSecondaries' = IF w = "nulls"
           THEN [dependentSecondaries EXCEPT ![h] = Null] ELSE dependentSecondaries
      /\ extraInfo' = IF w = "nulls" THEN [extraInfo EXCEPT ![h] = Null] ELSE extraInfo
  BY <1>1, WriteEffect DEF OnHandle
<1>3. raced = {} /\ UNCHANGED wanted
  BY DEF Write, WantAfter
<1>4. /\ h \in Slots /\ h \notin Creating /\ h \notin Owned
      /\ Emptied(h) /\ Reliance(c)
  BY <1>1, <1>2, <1>3, Bounds DEF TableInv, Places, Serial
<1>5. /\ d.op # "create" /\ call'[t] = d
      /\ c.todo # {w} => d.op = "destroy" /\ d.h = h
      /\ d.op = "destroy" => d.h = h
  BY <1>1, <1>2, RestOfCall, IdleCall DEF TableInv, Typed
<1>6. \A u \in Threads \ {t} : call'[u] = call[u]
  BY <1>2 DEF TableInv, Typed
<1> HIDE DEF d
<1>7. Counted' = Counted
  BY <1>2, <1>5, CallOnly
<1>8. /\ h \in Destroying /\ (c.todo # {w} => h \in Destroying')
      /\ \A i \in Slots \ {h} : i \in Destroying' <=> i \in Destroying
  <2>1. call[t].op = "destroy" /\ call[t].h = h
    BY <1>1
  <2>2. h \in Destroying
    BY <2>1, UsedBy
  <2>3. c.todo # {w} => h \in Destroying'
    BY <1>5, UsedByNext
  <2>4. \A i \in Slots \ {h} : i \in Destroying' => i \in Destroying
    BY <1>5, <1>6, UsedBy, UsedByNext
  <2>5. \A i \in Slots \ {h} : i \in Destroying => i \in Destroying'
    BY <2>1, <1>6, UsedBy, UsedByNext
  <2> QED BY <2>2, <2>3, <2>4, <2>5
<1>9. h \notin Destroying' =>
        handles'[h] = Null /\ dependentSecondaries'[h] = Null /\ extraInfo'[h] = Null
  <2> SUFFICES ASSUME h \notin Destroying'
               PROVE  /\ handles'[h] = Null
                      /\ dependentSecondaries'[h] = Null /\ extraInfo'[h] = Null
    OBVIOUS
  <2>1. c.todo = {w}
    BY <1>8
  <2>2. CASE w = "object"
    BY <1>1, <1>2, <1>4, <2>1, <2>2, Domains DEF Reliance
  <2>3. CASE w = "nulls"
    BY <1>1, <1>2, <1>4, <2>1, <2>3, Domains DEF Emptied
  <2> QED BY <1>2, <2>1, <2>2, <2>3
<1>10. ASSUME NEW f, NEW g, DOMAIN f = Slots, g = f \/ g = [f EXCEPT ![h] = Null],
              h \notin Destroying' => g[h] = Null
       PROVE  Hide(Creating' \cup Destroying', g, Null) =
                Hide(Creating \cup Destroying, f, Null)
  <2>1. \A i \in Slots : (IF i \in Creating' \cup Destroying' THEN Null ELSE g[i]) =
                           IF i \in Creating \cup Destroying THEN Null ELSE f[i]
    BY <1>2, <1>4, <1>8, <1>10
  <2> QED BY <1>10, <2>1, HideSame
<1>11. ShownHandles' = ShownHandles
  BY <1>2, <1>9, <1>10, Domains DEF ShownHandles
<1>12. ShownSecondaries' = ShownSecondaries
  BY <1>2, <1>9, <1>10, Domains DEF ShownSecondaries
<1>13. ShownInfo' = ShownInfo
  BY <1>2, <1>9, <1>10, Domains DEF ShownInfo
<1>14. UNCHANGED <<ShownCount, ShownTypes>>
  BY <1>2, <1>7 DEF ShownCount, ShownTypes
<1> QED BY <1>3, <1>11, <1>12, <1>13, <1>14, ShownIsTable DEF shown

(* The other calls on a handle take effect with their one write, also when *)
(* the handle is being destroyed, into which they put nothing.             *)
LEMMA OnlyWrite ==
  ASSUME TableInv, Serial, NEW t \in Threads, call[t].op \in Stores \cup {"set"},
         NEW w \in call[t].todo, Write(t, w)
  PROVE  LET c == call[t]  h == c.h IN
         /\ c \in Calls /\ h \in Given /\ h \in Slots /\ h \notin Creating
         /\ c.todo = {w} /\ Reliance(c) /\ Origin(c)
         /\ UNCHANGED <<handlesCount, handleTypes, Creating, Destroying, Counted>>
         /\ h \in Destroying => h \notin Owned /\ c.entry = NoEntry
<1> DEFINE c == call[t]
<1>1. /\ c \in Calls /\ c.h \in Given /\ c.todo = {w}
      /\ UNCHANGED <<handlesCount, handleTypes>>
      /\ call' = [call EXCEPT ![t] = IF c.todo = {w} THEN Idle
                                     ELSE [c EXCEPT !.todo = @ \ {w}]]
  BY WriteEffect DEF Stores, OnHandle
<1>2. c.h \in Slots /\ c.h \notin Creating /\ Reliance(c) /\ Origin(c)
  BY <1>1, Bounds DEF Serial
<1>3. UNCHANGED <<Creating, Destroying, Counted>>
  BY <1>1, IdleCall, CallOnly DEF Stores
<1>4. c.h \in Destroying => c.h \notin Owned /\ c.entry = NoEntry
  <2> SUFFICES ASSUME c.h \in Destroying PROVE c.h \notin Owned /\ c.entry = NoEntry
    OBVIOUS
  <2>1. PICK u \in Threads : call[u].op = "destroy" /\ call[u].h = c.h
    BY UsedBy
  <2>2. ~Excludes(call[u], c) /\ call[u].entry = NoEntry
    BY <2>1 DEF TableInv, Shape, Serial, CallsApart
  <2> QED BY <2>1, <2>2 DEF TableInv, Places, Excludes, Empties, Fills
<1> QED BY <1>1, <1>2, <1>3, <1>4

LEMMA SetWritten ==
  ASSUME TableInv, Serial, NEW t \in Threads, call[t].op = "set",
         NEW w \in call[t].todo, Write(t, w)
  PROVE  Table!Next
<1> DEFINE c == call[t]  e == c.entry
<1>1. PICK h : h = c.h
  OBVIOUS
<1>2. /\ c \in Calls /\ h \in Given /\ h \in Slots /\ h \notin Creating
      /\ c.todo = {w} /\ Origin(c)
      /\ UNCHANGED <<handlesCount, handleTypes, Creating, Destroying, Counted>>
      /\ h \in Destroying => e = NoEntry
  BY <1>1, OnlyWrite
<1>3. /\ w \in {"info", "secondary"} /\ handles' = handles
      /\ dependentSecondaries' = IF w = "secondary"
           THEN [dependentSecondaries EXCEPT ![h] = e.secondary] ELSE dependentSecondaries
      /\ extraInfo' = IF w = "info" THEN [extraInfo EXCEPT ![h] = e.info] ELSE extraInfo
  BY <1>1, WriteEffect DEF OnHandle
<1>4. e.secondary \in Refs /\ (w = "info" => e.info \in Infos)
  BY <1>2 DEF Calls, Entries, Origin
<1>5. h \in Creating \cup Destroying => e.secondary = Null /\ e.info = Null
  BY <1>2 DEF NoEntry, Entry
<1>6. UNCHANGED <<ShownCount, ShownHandles, ShownTypes>>
  BY <1>2, <1>3 DEF ShownCount, ShownHandles, ShownTypes
<1>7. /\ w = "info" => Table!Want(h, [wanted[h] EXCEPT !.info = e.info])
      /\ w = "secondary" => Table!Want(h, [wanted[h] EXCEPT !.secondary = e.secondary])
  BY <1>1, <1>2, <1>3 DEF Write, WantAfter, Stores
<1>8. CASE w = "info"
  <2>1. ShownInfo' = [ShownInfo EXCEPT ![h] = e.info]
    <3>1. extraInfo' = [extraInfo EXCEPT ![h] = e.info] /\ DOMAIN extraInfo = Slots
      BY <1>3, <1>8, Domains
    <3> QED BY <1>2, <1>5, <3>1 DEF ShownInfo, Hide
  <2>2. ShownSecondaries' = ShownSecondaries
    BY <1>2, <1>3, <1>8 DEF ShownSecondaries
  <2> QED BY <1>2, <1>4, <1>6, <1>7, <1>8, <2>1, <2>2, ShownSetInfo
<1>9. CASE w = "secondary"
  <2>1. ShownSecondaries' = [ShownSecondaries EXCEPT ![h] = e.secondary]
    <3>1. /\ dependentSecondaries' = [dependentSecondaries EXCEPT ![h] = e.secondary]
          /\ DOMAIN dependentSecondaries = Slots
      BY <1>3, <1>9, Domains
    <3> QED BY <1>2, <1>5, <3>1 DEF ShownSecondaries, Hide
  <2>2. ShownInfo' = ShownInfo
    BY <1>2, <1>3, <1>9 DEF ShownInfo
  <2> QED BY <1>2, <1>4, <1>6, <1>7, <1>9, <2>1, <2>2, ShownSetSecondary
<1> QED BY <1>3, <1>8, <1>9

LEMMA StoreWritten ==
  ASSUME TableInv, Serial, NEW t \in Threads, call[t].op \in Stores,
         NEW w \in call[t].todo, Write(t, w)
  PROVE  Table!Next \/ UNCHANGED Table!vars
<1> DEFINE c == call[t]  object == c.entry.object
<1>1. PICK h : h = c.h
  OBVIOUS
<1>2. /\ c \in Calls /\ h \in Given /\ h \in Slots /\ h \notin Creating
      /\ Reliance(c)
      /\ UNCHANGED <<handlesCount, handleTypes, Creating, Destroying, Counted>>
      /\ h \in Destroying => h \notin Owned /\ c.entry = NoEntry
  BY <1>1, OnlyWrite
<1>3. /\ handles' = IF c.op = "store" \/ handles[h] = c.comparand
                    THEN [handles EXCEPT ![h] = object] ELSE handles
      /\ UNCHANGED <<dependentSecondaries, extraInfo>>
  BY <1>1, WriteEffect DEF OnHandle, Stores
<1>4. object \in Refs /\ c.comparand \in Refs
  BY <1>2 DEF Calls, Entries
<1>5. h \in Creating \cup Destroying => object = Null
  BY <1>2 DEF NoEntry, Entry
<1>6. UNCHANGED <<ShownCount, ShownTypes, ShownSecondaries, ShownInfo>>
  BY <1>2, <1>3 DEF ShownCount, ShownTypes, ShownSecondaries, ShownInfo
<1>7. IF c.op = "store" \/ handles[h] = c.comparand
        THEN Table!WantObject(h, object) ELSE UNCHANGED wanted
  BY <1>1 DEF Write, WantAfter, Stores
<1>8. ShownHandles[h] = IF h \in Destroying THEN Null ELSE handles[h]
  BY <1>2, Domains
<1>9. ShownHandles[h] = Null => object = Null
  BY <1>1, <1>2, <1>5, <1>8 DEF Reliance
<1>10. ShownHandles' = IF c.op = "store" \/ handles[h] = c.comparand
                       THEN [ShownHandles EXCEPT ![h] = object] ELSE ShownHandles
  <2>1. CASE c.op = "store" \/ handles[h] = c.comparand
    <3>1. handles' = [handles EXCEPT ![h] = object] /\ DOMAIN handles = Slots
      BY <1>3, <2>1, Domains
    <3>2. ShownHandles' = [ShownHandles EXCEPT ![h] = object]
      BY <1>2, <1>5, <3>1 DEF ShownHandles, Hide
    <3> QED BY <2>1, <3>2
  <2>2. CASE ~(c.op = "store" \/ handles[h] = c.comparand)
    BY <1>2, <1>3, <2>2 DEF ShownHandles
  <2> QED BY <2>1, <2>2
<1>11. object = Null /\ ShownHandles[h] = Null =>
         [ShownHandles EXCEPT ![h] = object] = ShownHandles
  BY <1>2, <1>5, Domains DEF ShownHandles, Hide
<1>12. CASE c.op = "store"
  <2>1. ShownHandles' = IF ShownHandles[h] # Null
                        THEN [ShownHandles EXCEPT ![h] = object] ELSE ShownHandles
    BY <1>9, <1>10, <1>11, <1>12
  <2> QED BY <1>2, <1>4, <1>6, <1>7, <1>12, <2>1, ShownStore
<1>13. CASE c.op = "exchange" /\ h \notin Destroying
  <2>1. ShownHandles' = IF ShownHandles[h] # Null /\ ShownHandles[h] = c.comparand
                        THEN [ShownHandles EXCEPT ![h] = object] ELSE ShownHandles
    BY <1>8, <1>9, <1>10, <1>11, <1>13
  <2>2. IF ShownHandles[h] = c.comparand
          THEN Table!WantObject(h, object) ELSE UNCHANGED wanted
    BY <1>7, <1>8, <1>13
  <2> QED BY <1>2, <1>4, <1>6, <2>1, <2>2, ShownExchange
<1>14. CASE c.op = "exchange" /\ h \in Destroying
  <2>1. UNCHANGED wanted
    BY <1>2, <1>7, <1>14 DEF Table!WantObject, Table!Want, Table!Owned, Owned
  <2>2. ShownHandles' = ShownHandles
    BY <1>5, <1>8, <1>10, <1>11, <1>14
  <2> QED BY <1>6, <2>1, <2>2, ShownIsTable DEF shown
<1> QED BY <1>12, <1>13, <1>14 DEF Stores

-----------------------------------------------------------------------------
(* Every step while nothing has raced is a call of the serialised table, or*)
(* changes nothing of it.                                                  *)
LEMMA ShownStep ==
  ASSUME TableInv, Serial, NEW t \in Threads, Step(t), raced' = {}
  PROVE  Table!Next \/ UNCHANGED Table!vars
<1>1. ASSUME NEW w \in call[t].todo, Write(t, w)
      PROVE  Table!Next \/ UNCHANGED Table!vars
  <2>1. call[t].op \in {"create", "destroy", "set"} \cup Stores
    BY DEF TableInv, Typed, Calls, Ops, Shape, Stores
  <2>2. CASE call[t].op = "create"
    BY <1>1, <2>2, CreationEnds, CreationGoesOn
  <2> QED BY <1>1, <2>1, <2>2, DestroyWritten, SetWritten, StoreWritten
<1> QED BY <1>1, UseShown, CreationShown DEF Step

SerialInv == raced = {} /\ raced # Slots => Serial

LEMMA SerialInit == Init => SerialInv
<1> SUFFICES ASSUME Init PROVE Serial
  BY DEF SerialInv
<1>1. /\ \A t \in Threads : call[t] = Idle
      /\ Idle.op = "idle"
  BY DEF Init, Idle, Call
<1>2. CallsApart
  BY <1>1, Harmless DEF CallsApart
<1>3. \A t \in Threads : Reliance(call[t]) /\ Origin(call[t])
  BY <1>1 DEF Reliance, Origin, Stores
<1>4. Given = {}
  BY DEF Init, Given
<1> QED BY <1>2, <1>3, <1>4 DEF Serial, TypesCreated

LEMMA RacedGrows ==
  ASSUME NEW t \in Threads, Typed, Step(t)
  PROVE  raced \subseteq raced'
<1>1. raced \subseteq Slots
  BY DEF Typed
<1>2. ASSUME NEW c, Meets(c) PROVE raced \subseteq raced'
  BY <1>2 DEF Meets
<1>3. ASSUME NEW h, Use(t, h) PROVE raced \subseteq raced'
  <2>1. ASSUME FindOriginal(t, h) PROVE raced \subseteq raced'
    BY <2>1 DEF FindOriginal
  <2>2. ASSUME FindToDestroy(t, h) PROVE raced \subseteq raced'
    BY <1>2, <2>2 DEF FindToDestroy
  <2>3. ASSUME NEW info \in Infos, FindToSetInfo(t, h, info) PROVE raced \subseteq raced'
    BY <1>2, <2>3 DEF FindToSetInfo
  <2>4. ASSUME NEW object \in Refs, FindToSetSecondary(t, h, object)
        PROVE  raced \subseteq raced'
    BY <1>2, <2>4 DEF FindToSetSecondary
  <2>5. ASSUME NEW object \in Refs, FindToStore(t, h, object)
        PROVE  raced \subseteq raced'
    BY <1>2, <2>5 DEF FindToStore
  <2>6. ASSUME NEW object \in Refs, NEW comparand \in Refs, NEW ifNull \in BOOLEAN,
               FindToExchange(t, h, object, comparand, ifNull)
        PROVE  raced \subseteq raced'
    BY <1>2, <2>6 DEF FindToExchange
  <2> QED BY <1>3, <2>1, <2>2, <2>3, <2>4, <2>5, <2>6 DEF Use
<1>4. ASSUME NEW object, NEW type, CheckRoom(t, object, type) PROVE raced \subseteq raced'
  BY <1>1, <1>4 DEF CheckRoom
<1>5. ASSUME LoadIndex(t) PROVE raced \subseteq raced'
  BY <1>5 DEF LoadIndex
<1>6. ASSUME CopyOriginal(t) PROVE raced \subseteq raced'
  BY <1>1, <1>6 DEF CopyOriginal
<1>7. ASSUME NEW w, Write(t, w) PROVE raced \subseteq raced'
  BY <1>7 DEF Write
<1> QED BY <1>3, <1>4, <1>5, <1>6, <1>7 DEF Step

LEMMA SameSerial == Serial /\ UNCHANGED vars => Serial'
  BY DEF Serial, vars, tables, CallsApart, Reliance, Origin, TypesCreated, Given,
     Creating, SlotsOf, In

LEMMA SerialNext ==
  HandlesInv /\ SerialInv /\ [Next]_vars =>
    SerialInv' /\ (raced' # {} \/ Table!Next \/ UNCHANGED Table!vars)
<1> SUFFICES ASSUME HandlesInv, SerialInv, [Next]_vars, raced' = {}
             PROVE  /\ raced' # Slots => Serial'
                    /\ Table!Next \/ UNCHANGED Table!vars
  BY DEF SerialInv
<1>1. CASE UNCHANGED vars
  <2>1. Table!vars' = Table!vars
    BY <1>1, QuietTables, ShownIsTable DEF vars, shown
  <2>2. raced' = raced
    BY <1>1 DEF vars
  <2> QED BY <1>1, <2>1, <2>2, SameSerial DEF SerialInv
<1>2. ASSUME NEW t \in Threads, Step(t), raced # Slots
      PROVE  Serial' /\ (Table!Next \/ UNCHANGED Table!vars)
  <2>1. TableInv
    BY <1>2 DEF HandlesInv
  <2>2. raced = {}
    BY <1>2, <2>1, RacedGrows DEF TableInv
  <2>3. Serial
    BY <1>2, <2>2 DEF SerialInv
  <2> QED BY <1>2, <2>1, <2>3, SerialStep, ShownStep
<1> QED BY <1>1, <1>2 DEF Next

(* As long as no two calls that exclude each other have overlapped, calls  *)
(* of any number of threads, on a table of any size and interleaved at     *)
(* every access, take effect one after the other: a creation with its last *)
(* write, a destroy with its check, a set, a store and an exchange with    *)
(* their write (MiniGCHandleManager.cpp:74-88, MiniGCHandleStore.cpp:44-63).*)
THEOREM ThreadsImplementTheTable == Spec => ImplementsTable
<1>1. SerialInv /\ HandlesInv /\ [Next]_vars => [raced' # {} \/ Table!Next]_(Table!vars)
  BY SerialNext
<1> QED BY <1>1, SerialInit, SerialNext, Invariant, PTL DEF Spec, ImplementsTable

-----------------------------------------------------------------------------
(* The theorems about serialised calls, for the table that the calls of    *)
(* several threads show while nothing has raced.                           *)
Serialised == INSTANCE MiniGCHandlesProofs WITH
  storeUp              <- TRUE,
  handlesCount         <- handlesCount - Cardinality(Counted),
  handles              <- Hide(Creating \cup Destroying, handles, Null),
  handleTypes          <- Hide(Creating, handleTypes, "WEAK_SHORT"),
  dependentSecondaries <- Hide(Creating \cup Destroying, dependentSecondaries, Null),
  extraInfo            <- Hide(Creating \cup Destroying, extraInfo, Null)

LEMMA TableSteps ==
  ASSUME Table!Next \/ UNCHANGED Table!vars
  PROVE  [Serialised!Next]_(Serialised!vars)
BY DEF Table!Next, Serialised!Next, Table!vars, Serialised!vars, Table!tables,
   Serialised!tables, Table!Initialize, Serialised!Initialize, Table!Shutdown,
   Serialised!Shutdown, Table!Create, Serialised!Create, Table!CreateHandleOfType,
   Serialised!CreateHandleOfType, Table!CreateHandleWithExtraInfo,
   Serialised!CreateHandleWithExtraInfo, Table!CreateDependentHandle,
   Serialised!CreateDependentHandle, Table!NewHandle, Serialised!NewHandle,
   Table!HasRoom, Serialised!HasRoom, Table!Use, Serialised!Use,
   Table!CreateDuplicateHandle, Serialised!CreateDuplicateHandle,
   Table!DestroyHandle, Serialised!DestroyHandle, Table!SetExtraInfo,
   Serialised!SetExtraInfo, Table!SetDependentSecondary,
   Serialised!SetDependentSecondary, Table!StoreObjectInHandle,
   Serialised!StoreObjectInHandle, Table!StoreObjectInHandleIfNull,
   Serialised!StoreObjectInHandleIfNull, Table!InterlockedCompareExchange,
   Serialised!InterlockedCompareExchange, Table!CompareExchange,
   Serialised!CompareExchange, Table!Want, Serialised!Want, Table!WantObject,
   Serialised!WantObject, Table!InTable, Serialised!InTable, Table!ContainsHandle,
   Serialised!ContainsHandle, Table!GetHandleIndex, Serialised!GetHandleIndex,
   Table!Issued, Serialised!Issued, Table!Slots, Serialised!Slots, Table!Refs,
   Serialised!Refs, Table!Owned, Serialised!Owned, Table!otherVars,
   Serialised!otherVars

LEMMA SerialisedInit ==
  ASSUME Init
  PROVE  /\ Serialised!HandleInv
         /\ Serialised!Issued = {} /\ Serialised!Live = {}
<1>1. In({"create"}) = {} /\ In({"destroy"}) = {}
  BY DEF Init, In, Idle, Call
<1>2. Creating = {} /\ Destroying = {} /\ Counted = {}
  BY <1>1 DEF Creating, Destroying, SlotsOf, Counted
<1>3. Cardinality(Counted) = 0
  BY <1>2, FS_EmptySet
<1>4. handlesCount - Cardinality(Counted) = 0
  BY <1>3 DEF Init
<1>5. /\ Serialised!Issued = {} /\ Serialised!Owned = {} /\ Serialised!Live = {}
      /\ Serialised!Slots = Slots /\ Serialised!Refs = Refs
  BY <1>4 DEF Init, Serialised!Issued, Serialised!Owned, Serialised!Live,
     Serialised!Slots, Slots, Serialised!Refs, Refs
<1>6. /\ Hide(Creating \cup Destroying, handles, Null) \in [Slots -> Refs]
      /\ Hide(Creating, handleTypes, "WEAK_SHORT") \in [Slots -> Serialised!Types]
      /\ Hide(Creating \cup Destroying, dependentSecondaries, Null) \in [Slots -> Refs]
      /\ Hide(Creating \cup Destroying, extraInfo, Null) \in [Slots -> Infos \cup {Null}]
  BY <1>2 DEF Init, Hide, Refs, Serialised!Types
<1>7. wanted \in [Serialised!Owned ->
                    [object : Refs, type : Serialised!Types, secondary : Refs,
                     info : Infos \cup {Null}]]
  BY <1>5 DEF Init, Serialised!Owned
<1>8. Serialised!TypeOK
  <2>1. handlesCount - Cardinality(Counted) \in 0..MaxHandles
    BY <1>4, ThreadsAssumption
  <2>2. Serialised!Owned \subseteq Serialised!Issued
    BY <1>5
  <2> QED BY <1>5, <1>6, <1>7, <2>1, <2>2, Zenon DEF Serialised!TypeOK
<1> QED BY <1>5, <1>8
        DEF Serialised!HandleInv, Serialised!TablesAgree, Serialised!DestroyedHoldNothing

(* While nothing has raced, the table the calls show is one that serialised*)
(* calls have made.                                                        *)
ShownInv == raced = {} => Serialised!HandleInv

LEMMA ShownStaysSerialised ==
  HandlesInv /\ SerialInv /\ ShownInv /\ [Next]_vars =>
    /\ ShownInv'
    /\ raced' = {} => Serialised!HandleInv /\ [Serialised!Next]_(Serialised!vars)
<1> SUFFICES ASSUME HandlesInv, SerialInv, ShownInv, [Next]_vars, raced' = {}
             PROVE  /\ Serialised!HandleInv /\ [Serialised!Next]_(Serialised!vars)
                    /\ Serialised!HandleInv'
  BY DEF ShownInv
<1>1. raced = {}
  <2>1. ASSUME NEW t \in Threads, Step(t), raced # Slots PROVE raced = {}
    BY <2>1, RacedGrows DEF HandlesInv, TableInv
  <2> QED BY <2>1 DEF Next, vars
<1>2. Serialised!HandleInv
  BY <1>1 DEF ShownInv
<1>3. [Serialised!Next]_(Serialised!vars)
  BY SerialNext, TableSteps
<1>4. Serialised!HandleInv'
  BY <1>2, <1>3, ThreadsAssumption, Serialised!InvStep
<1> QED BY <1>2, <1>3, <1>4

LEMMA ShownIsSerialised == Spec => []ShownInv
<1>1. Init => ShownInv
  BY SerialisedInit DEF ShownInv
<1> QED BY <1>1, ShownStaysSerialised, SerialInit, SerialNext, Invariant, PTL DEF Spec

(* Therefore no handle is issued twice, not by two threads either, a store *)
(* reaches no handle that another thread destroyed, and a spent handle     *)
(* stays spent, as long as no two calls that exclude each other overlapped *)
(* (MiniGCHandleStore.cpp:44-63).                                          *)
UnracedKeepPromise == [][raced' # {} \/ Table!Promise!Next]_(Table!Promise!vars)

THEOREM UnracedHandlesKeepPromise == Spec => UnracedKeepPromise
<1>1. HandlesInv /\ SerialInv /\ ShownInv /\ [Next]_vars =>
        [raced' # {} \/ Table!Promise!Next]_(Table!Promise!vars)
  <2> SUFFICES ASSUME HandlesInv, SerialInv, ShownInv, [Next]_vars, raced' = {}
               PROVE  [Table!Promise!Next]_(Table!Promise!vars)
    OBVIOUS
  <2>1. Serialised!HandleInv /\ [Serialised!Next]_(Serialised!vars)
    BY ShownStaysSerialised
  <2>2. [Serialised!Promise!Next]_(Serialised!Promise!vars)
    BY <2>1, ThreadsAssumption, Serialised!StepEffect, Serialised!EffectOnSlots,
       Serialised!SlotsKeepPromise DEF Serialised!HandleInv
  <2> QED BY <2>2
          DEF Table!Promise!Next, Serialised!Promise!Next, Table!Promise!vars,
              Serialised!Promise!vars, Table!Promise!Issue, Serialised!Promise!Issue,
              Table!Promise!IssueSpent, Serialised!Promise!IssueSpent,
              Table!Promise!Assign, Serialised!Promise!Assign, Table!Promise!Drop,
              Serialised!Promise!Drop, Table!Promise!Live, Serialised!Promise!Live,
              Table!Promise!Fresh, Serialised!Promise!Fresh, Table!Live,
              Serialised!Live, Table!Issued, Serialised!Issued, Table!Slots,
              Serialised!Slots
<1> QED BY <1>1, ShownIsSerialised, SerialInit, SerialNext, Invariant, PTL
       DEF Spec, UnracedKeepPromise

=============================================================================
