--------------------------- MODULE MiniGCHandles ---------------------------
(***************************************************************************)
(* The handle manager and its one handle store (MiniGCHandleManager.cpp,   *)
(* MiniGCHandleStore.cpp) with calls serialised.                           *)
(*                                                                         *)
(* A handle is the address of a slot of the static array handles, here the *)
(* slot's index; NoHandle stands for nullptr and for any pointer that is   *)
(* not to a slot.  The arrays and handlesCount are static: deleting the    *)
(* store in Shutdown leaves them as they are.  DestroyHandleStore and      *)
(* Uproot do nothing, and CreateHandleStore returns the global store.      *)
(*                                                                         *)
(* wanted is a history variable: for each handle the EE was given and has  *)
(* not destroyed, what it must take the handle to be from its calls and    *)
(* what they returned.  Calls are made on any slot, stale ones included.   *)
(***************************************************************************)
EXTENDS Integers

CONSTANTS
  Objects, Null,
  HandleTypes,    \* the HandleTypes the EE creates handles of
  Infos,          \* values of a handle's extra info
  MaxHandles,     \* 65535 in the code
  NoHandle

Refs == Objects \cup {Null}
Slots == 0..(MaxHandles - 1)
Types == HandleTypes \cup {"WEAK_SHORT", "DEPENDENT"}

ASSUME HandleAssumption ==
  /\ MaxHandles \in Nat
  /\ Null \notin Objects
  /\ NoHandle \notin Int

VARIABLES
  storeUp,        \* g_miniGCHandleStore # nullptr
  handlesCount, handles, handleTypes, dependentSecondaries, extraInfo,
  wanted

tables == <<handles, handleTypes, dependentSecondaries, extraInfo>>
vars == <<storeUp, handlesCount, handles, handleTypes, dependentSecondaries,
          extraInfo, wanted>>

Init ==
  /\ storeUp = FALSE
  /\ handlesCount = 0
  /\ handles = [i \in Slots |-> Null]
  /\ handleTypes = [i \in Slots |-> "WEAK_SHORT"]
  /\ dependentSecondaries = [i \in Slots |-> Null]
  /\ extraInfo = [i \in Slots |-> Null]
  /\ wanted = [h \in {} |-> Null]

Issued == 0..(handlesCount - 1)
Owned == DOMAIN wanted

(* What the EE learns from a call: it wants nothing of a store it shut     *)
(* down or of a handle it destroyed.                                       *)
Want(h, description) ==
  wanted' = IF storeUp /\ h \in Owned
            THEN [wanted EXCEPT ![h] = description] ELSE wanted

WantObject(h, object) == Want(h, [wanted[h] EXCEPT !.object = object])

GetHandleIndexOfNull(h) == IF h \in Slots THEN h ELSE 0

GetHandleIndex(h) == IF h \in Slots THEN h ELSE -1

(* The bounds check in front of every use of the tables.                   *)
InTable(h) == GetHandleIndex(h) \in Issued

(* A handle that holds null counts as no handle.                           *)
ContainsHandle(h) == InTable(h) /\ handles[GetHandleIndex(h)] # Null

-----------------------------------------------------------------------------
Initialize == storeUp' = TRUE /\ UNCHANGED <<handlesCount, tables, wanted>>

ShutdownResettingCount ==
  storeUp' = FALSE /\ handlesCount' = 0 /\ UNCHANGED <<tables, wanted>>

Shutdown == storeUp' = FALSE /\ UNCHANGED <<handlesCount, tables, wanted>>

(* CreateHandleOfType, with what CreateDependentHandle and                 *)
(* CreateHandleWithExtraInfo put into the new slot right after it.  A full *)
(* table gives nullptr, which the calls that follow ignore.                *)
HasRoom == handlesCount < MaxHandles

NewHandle(object, type, secondary, info) ==
  IF HasRoom
    THEN LET index == handlesCount IN
         /\ handlesCount' = handlesCount + 1
         /\ handles' = [handles EXCEPT ![index] = object]
         /\ handleTypes' = [handleTypes EXCEPT ![index] = type]
         /\ dependentSecondaries' = [dependentSecondaries EXCEPT ![index] = secondary]
         /\ extraInfo' = [extraInfo EXCEPT ![index] = info]
         /\ wanted' = [h \in Owned \cup {index} |->
                         IF h = index
                           THEN [object |-> object, type |-> type,
                                 secondary |-> secondary, info |-> info]
                           ELSE wanted[h]]
         /\ UNCHANGED storeUp
    ELSE UNCHANGED vars

(* Also CreateGlobalHandleOfType and the affinitised form.  The EE has the *)
(* store from GetGlobalHandleStore, so that one is there.                  *)
CreateHandleOfType(object, type) == storeUp /\ NewHandle(object, type, Null, Null)

CreateHandleWithExtraInfo(object, type, info) ==
  storeUp /\ NewHandle(object, type, Null, info)

CreateDependentHandle(primary, secondary) ==
  storeUp /\ NewHandle(primary, "DEPENDENT", secondary, Null)

(* The duplicate gets the object and the type, nothing else.               *)
CreateDuplicateHandle(h) ==
  LET index == GetHandleIndex(h) IN
  IF storeUp /\ ContainsHandle(h)
    THEN NewHandle(handles[index], handleTypes[index], Null, Null)
    ELSE UNCHANGED vars

(* DestroyHandleOfType and DestroyHandleOfUnknownType are the same.        *)
DestroyHandle(h) ==
  LET index == GetHandleIndex(h) IN
  IF storeUp /\ InTable(h)
    THEN /\ handles' = [handles EXCEPT ![index] = Null]
         /\ dependentSecondaries' = [dependentSecondaries EXCEPT ![index] = Null]
         /\ extraInfo' = [extraInfo EXCEPT ![index] = Null]
         /\ wanted' = [g \in Owned \ {h} |-> wanted[g]]
         /\ UNCHANGED <<storeUp, handlesCount, handleTypes>>
    ELSE UNCHANGED vars

SetExtraInfo(h, info) ==
  /\ extraInfo' = IF storeUp /\ InTable(h)
                  THEN [extraInfo EXCEPT ![GetHandleIndex(h)] = info] ELSE extraInfo
  /\ Want(h, [wanted[h] EXCEPT !.info = info])
  /\ UNCHANGED <<storeUp, handlesCount, handles, handleTypes, dependentSecondaries>>

SetDependentSecondary(h, object) ==
  /\ dependentSecondaries' =
       IF storeUp /\ InTable(h)
       THEN [dependentSecondaries EXCEPT ![GetHandleIndex(h)] = object]
       ELSE dependentSecondaries
  /\ Want(h, [wanted[h] EXCEPT !.secondary = object])
  /\ UNCHANGED <<storeUp, handlesCount, handles, handleTypes, extraInfo>>

-----------------------------------------------------------------------------
(* The three ways to put an object into a handle, null for none.  The EE   *)
(* is not told when a store is dropped, and the answer nullptr of an       *)
(* exchange that never happened looks like a success if null was expected. *)
otherVars == <<storeUp, handlesCount, handleTypes, dependentSecondaries, extraInfo>>

StoreObjectInAnySlot(h, object) ==
  /\ handles' = IF storeUp /\ InTable(h)
                THEN [handles EXCEPT ![GetHandleIndex(h)] = object] ELSE handles
  /\ WantObject(h, object)
  /\ UNCHANGED otherVars

StoreObjectInHandle(h, object) ==
  /\ handles' = IF storeUp /\ ContainsHandle(h)
                THEN [handles EXCEPT ![GetHandleIndex(h)] = object] ELSE handles
  /\ WantObject(h, object)
  /\ UNCHANGED otherVars

(* MiniGCCompareExchangePointer on a handle's slot.                        *)
ExchangeAlways(index, object, comparand) ==
  handles' = [handles EXCEPT ![index] = object]

CompareExchange(index, object, comparand) ==
  handles' = [handles EXCEPT ![index] = IF @ = comparand THEN object ELSE @]

(* TRUE is returned only by an exchange that found null.                   *)
StoreObjectInHandleIfNull(h, object) ==
  LET index == GetHandleIndex(h) IN
  IF storeUp /\ ContainsHandle(h)
    THEN /\ CompareExchange(index, object, Null)
         /\ IF handles[index] = Null
              THEN WantObject(h, object) ELSE UNCHANGED wanted
         /\ UNCHANGED otherVars
    ELSE UNCHANGED vars

InterlockedCompareExchange(h, object, comparand) ==
  LET index == GetHandleIndex(h)
      found == storeUp /\ ContainsHandle(h)
      answer == IF found THEN handles[index] ELSE Null
  IN  /\ IF found THEN CompareExchange(index, object, comparand)
                  ELSE UNCHANGED handles
      /\ IF answer = comparand THEN WantObject(h, object) ELSE UNCHANGED wanted
      /\ UNCHANGED otherVars

-----------------------------------------------------------------------------
(* What the EE and the GC read.                                            *)
HandleFetchType(h) ==
  IF storeUp /\ InTable(h) THEN handleTypes[GetHandleIndex(h)] ELSE "WEAK_SHORT"

GetDependentSecondary(h) ==
  IF storeUp /\ InTable(h) THEN dependentSecondaries[GetHandleIndex(h)] ELSE Null

GetExtraInfo(h) ==
  IF storeUp /\ InTable(h) THEN extraInfo[GetHandleIndex(h)] ELSE Null

IsStrongHandleForgettingAsync(type) == type \in {"STRONG", "PINNED", "SIZEDREF"}

IsStrongHandle(type) == type \in {"STRONG", "PINNED", "ASYNCPINNED", "SIZEDREF"}

(* The slots ScanHandles reports to the promote function as roots.         *)
ScanHandles ==
  IF storeUp
    THEN {i \in Issued : handles[i] # Null /\ IsStrongHandle(handleTypes[i])}
    ELSE {}

-----------------------------------------------------------------------------
Create ==
  \/ \E object \in Refs, type \in HandleTypes :
       \/ CreateHandleOfType(object, type)
       \/ \E info \in Infos : CreateHandleWithExtraInfo(object, type, info)
  \/ \E primary, secondary \in Refs : CreateDependentHandle(primary, secondary)

Use(h) ==
  \/ CreateDuplicateHandle(h)
  \/ DestroyHandle(h)
  \/ \E info \in Infos : SetExtraInfo(h, info)
  \/ \E object \in Refs :
       \/ SetDependentSecondary(h, object)
       \/ StoreObjectInHandle(h, object)
       \/ StoreObjectInHandleIfNull(h, object)
       \/ \E comparand \in Refs : InterlockedCompareExchange(h, object, comparand)

Next ==
  \/ Initialize
  \/ Shutdown
  \/ Create
  \/ \E h \in Slots \cup {NoHandle} : Use(h)

Spec == Init /\ [][Next]_vars

-----------------------------------------------------------------------------
(* The abstract handles these implement.                                   *)
Live == {h \in Issued : handles[h] # Null}

Promise == INSTANCE HandleSpace WITH
             Handles <- Slots,
             refs <- [h \in Live |-> handles[h]],
             spent <- Issued \ Live

(* Every variable holds a value of its type; in particular the count stays *)
(* within the arrays (MiniGCHandleStore.cpp:48-51).                        *)
TypeOK ==
  /\ storeUp \in BOOLEAN
  /\ handlesCount \in 0..MaxHandles
  /\ handles \in [Slots -> Refs]
  /\ handleTypes \in [Slots -> Types]
  /\ dependentSecondaries \in [Slots -> Refs]
  /\ extraInfo \in [Slots -> Infos \cup {Null}]
  /\ Owned \subseteq Issued
  /\ wanted \in [Owned -> [object : Refs, type : Types, secondary : Refs,
                           info : Infos \cup {Null}]]

(* A handle the EE owns reads as the EE's calls left it, whatever was done *)
(* to other handles, to stale ones or to the store in between; it may have *)
(* lost its object, but never holds another one than the EE put in last.   *)
OwnedHandlesAgree ==
  \A h \in Owned :
    /\ handles[h] \in {wanted[h].object, Null}
    /\ storeUp =>
         /\ HandleFetchType(h) = wanted[h].type
         /\ GetDependentSecondary(h) = wanted[h].secondary
         /\ GetExtraInfo(h) = wanted[h].info

(* The strengthening the proofs need: the tables hold what the EE wants    *)
(* whether or not the store is up (a later Initialize brings them back),   *)
(* and a destroyed handle holds no object, for ever: only ContainsHandle   *)
(* keeps a stale store or exchange from giving it one.                     *)
TablesAgree ==
  \A h \in Owned :
    /\ handles[h] \in {wanted[h].object, Null}
    /\ handleTypes[h] = wanted[h].type
    /\ dependentSecondaries[h] = wanted[h].secondary
    /\ extraInfo[h] = wanted[h].info

DestroyedHoldNothing == \A h \in Issued \ Owned : handles[h] = Null

(* The inductive invariant of the handle calls.                            *)
HandleInv == TypeOK /\ TablesAgree /\ DestroyedHoldNothing

(* The kinds gcinterface.h calls strong handles (lines 432-438, 443-453,   *)
(* 496-502 and 507-515).                                                   *)
StrongKinds == {"STRONG", "PINNED", "ASYNCPINNED", "SIZEDREF"}

(* A GC is shown as roots exactly the handles of a strong kind that the EE *)
(* owns and that hold an object: it misses none, and neither a destroyed   *)
(* handle nor one whose memory a stale call touched is ever among them     *)
(* (MiniGCHandleStore.cpp:78-87).                                          *)
RootsExact ==
  storeUp => ScanHandles =
    {h \in Owned : handles[h] # Null /\ wanted[h].type \in StrongKinds}

(* A handle that holds an object goes on holding what the EE wants of it   *)
(* in every step, also when the store is shut down or a call names another *)
(* handle or none.                                                         *)
NoObjectLost ==
  [][\A h \in Owned : handles[h] # Null /\ h \in Owned' =>
        handles'[h] = wanted'[h].object]_vars

(* The table implements the promise of HandleSpace: handles are issued     *)
(* once, and one that lost its object neither revives nor is issued again. *)
ImplementsHandleSpace == Promise!Spec

-----------------------------------------------------------------------------
(* Stated by the repository, and not what the code does: see the README.   *)

(* "Strong handles are handles which function like a normal object         *)
(* reference" (gcinterface.h:433): one holds what was stored in it last.   *)
StrongHandlesAreReferences ==
  \A h \in Owned : wanted[h].type = "STRONG" => handles[h] = wanted[h].object

=============================================================================
