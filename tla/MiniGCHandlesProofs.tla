------------------------ MODULE MiniGCHandlesProofs ------------------------
(***************************************************************************)
(* Theorems about MiniGCHandles for every length of the table, every set of*)
(* objects and every set of handle types.                                  *)
(***************************************************************************)
EXTENDS MiniGCHandles, TLAPS

(* What a call may be given.                                               *)
Argument == Slots \cup {NoHandle}

(* The index GetHandleIndex finds in the table is the handle itself.       *)
LEMMA IndexInTable ==
  ASSUME TypeOK, NEW h \in Argument, InTable(h)
  PROVE  h \in Slots /\ h \in Issued /\ GetHandleIndex(h) = h
  BY HandleAssumption DEF InTable, GetHandleIndex, Issued, Slots, TypeOK, Argument

LEMMA IssuedAreSlots ==
  ASSUME TypeOK
  PROVE  Issued \subseteq Slots
  BY HandleAssumption DEF Issued, Slots, TypeOK

LEMMA InvInit == Init => HandleInv
<1> SUFFICES ASSUME Init PROVE HandleInv
  OBVIOUS
<1>1. Owned = {} /\ Issued = {}
  BY DEF Init, Owned, Issued
<1>2. TypeOK
  <2>1. wanted \in [Owned -> [object : Refs, type : Types, secondary : Refs,
                             info : Infos \cup {Null}]]
    BY DEF Init, Owned
  <2>2. Null \in Refs /\ "WEAK_SHORT" \in Types /\ 0 \in 0..MaxHandles
    BY HandleAssumption DEF Refs, Types
  <2> QED BY <1>1, <2>1, <2>2 DEF Init, TypeOK
<1> QED BY <1>1, <1>2 DEF HandleInv, TablesAgree, DestroyedHoldNothing

-----------------------------------------------------------------------------
(* What holds whichever handles nobody owns still hold objects.            *)
Agree == TypeOK /\ TablesAgree

(* A new handle takes a slot that was never issued.                        *)
LEMMA NewHandleAgrees ==
  ASSUME Agree, NEW object \in Refs, NEW type \in Types,
         NEW secondary \in Refs, NEW info \in Infos \cup {Null},
         NewHandle(object, type, secondary, info)
  PROVE  Agree' /\ (DestroyedHoldNothing => DestroyedHoldNothing')
<1>1. CASE ~HasRoom
  BY <1>1 DEF NewHandle, vars, tables, Agree, TypeOK, TablesAgree,
     DestroyedHoldNothing, Owned, Issued
<1>2. CASE HasRoom
  <2> DEFINE index == handlesCount
             entry == [object |-> object, type |-> type,
                       secondary |-> secondary, info |-> info]
  <2>1. /\ index \in Slots /\ index \notin Issued
        /\ handlesCount' = index + 1 /\ handlesCount' \in 0..MaxHandles
        /\ Issued' = Issued \cup {index}
    BY <1>2, HandleAssumption DEF HasRoom, NewHandle, Agree, TypeOK, Slots, Issued
  <2>2. /\ handles' = [handles EXCEPT ![index] = object]
        /\ handleTypes' = [handleTypes EXCEPT ![index] = type]
        /\ dependentSecondaries' = [dependentSecondaries EXCEPT ![index] = secondary]
        /\ extraInfo' = [extraInfo EXCEPT ![index] = info]
        /\ wanted' = [h \in Owned \cup {index} |->
                        IF h = index THEN entry ELSE wanted[h]]
        /\ storeUp' = storeUp
    BY <1>2 DEF NewHandle
  <2>3. Owned' = Owned \cup {index} /\ Owned \subseteq Issued /\ index \notin Owned
    BY <2>1, <2>2 DEF Owned, Agree, TypeOK
  <2>4. wanted'[index] = entry /\ \A h \in Owned : wanted'[h] = wanted[h]
    BY <2>2, <2>3
  <2>5. TypeOK'
    BY <2>1, <2>2, <2>3 DEF Agree, TypeOK, Owned
  <2>6. \A h \in Slots \ {index} :
          /\ handles'[h] = handles[h] /\ handleTypes'[h] = handleTypes[h]
          /\ dependentSecondaries'[h] = dependentSecondaries[h]
          /\ extraInfo'[h] = extraInfo[h]
    BY <2>2 DEF Agree, TypeOK
  <2>7. /\ handles'[index] = object /\ handleTypes'[index] = type
        /\ dependentSecondaries'[index] = secondary /\ extraInfo'[index] = info
    BY <2>1, <2>2 DEF Agree, TypeOK
  <2>8. Issued \subseteq Slots
    BY IssuedAreSlots DEF Agree
  <2>9. TablesAgree'
    BY <2>1, <2>3, <2>4, <2>6, <2>7, <2>8 DEF Agree, TablesAgree
  <2>10. DestroyedHoldNothing => DestroyedHoldNothing'
    BY <2>1, <2>3, <2>6, <2>8 DEF DestroyedHoldNothing
  <2> QED BY <2>5, <2>9, <2>10 DEF Agree
<1> QED BY <1>1, <1>2

LEMMA NewHandleStep ==
  ASSUME HandleInv, NEW object \in Refs, NEW type \in Types,
         NEW secondary \in Refs, NEW info \in Infos \cup {Null},
         NewHandle(object, type, secondary, info)
  PROVE  HandleInv'
  BY NewHandleAgrees DEF HandleInv, Agree

(* What Want leaves of the other handles' descriptions.                    *)
Description == [object : Refs, type : Types, secondary : Refs,
                info : Infos \cup {Null}]

LEMMA WantOne ==
  ASSUME TypeOK, NEW h, NEW d \in Description, Want(h, d)
  PROVE  /\ Owned' = Owned
         /\ wanted' \in [Owned -> Description]
         /\ \A g \in Owned : wanted'[g] = IF storeUp /\ g = h THEN d ELSE wanted[g]
<1>1. wanted \in [Owned -> Description]
  BY DEF TypeOK, Description
<1>2. CASE storeUp /\ h \in Owned
  <2>1. wanted' = [wanted EXCEPT ![h] = d]
    BY <1>2 DEF Want
  <2> QED BY <1>1, <1>2, <2>1 DEF Owned
<1>3. CASE ~(storeUp /\ h \in Owned)
  BY <1>1, <1>3 DEF Want, Owned
<1> QED BY <1>2, <1>3

LEMMA WantObjectOne ==
  ASSUME TypeOK, NEW h, NEW object \in Refs, WantObject(h, object)
  PROVE  /\ Owned' = Owned
         /\ wanted' \in [Owned -> Description]
         /\ \A g \in Owned :
              /\ wanted'[g].object = IF storeUp /\ g = h THEN object ELSE wanted[g].object
              /\ wanted'[g].type = wanted[g].type
              /\ wanted'[g].secondary = wanted[g].secondary
              /\ wanted'[g].info = wanted[g].info
<1>1. wanted \in [Owned -> Description]
  BY DEF TypeOK, Description
<1>2. CASE h \in Owned
  <2> DEFINE d == [wanted[h] EXCEPT !.object = object]
  <2>1. wanted[h] \in Description
    BY <1>1, <1>2
  <2>2. /\ d \in Description /\ d.object = object /\ d.type = wanted[h].type
        /\ d.secondary = wanted[h].secondary /\ d.info = wanted[h].info
    BY <2>1 DEF Description
  <2>3. Want(h, d)
    BY DEF WantObject
  <2> HIDE DEF d
  <2> QED BY <2>2, <2>3, WantOne
<1>3. CASE h \notin Owned
  BY <1>1, <1>3 DEF WantObject, Want, Owned
<1> QED BY <1>2, <1>3

-----------------------------------------------------------------------------
(* A store the code performs: only on a handle that holds an object, which *)
(* the EE therefore still owns.                                            *)
LEMMA PerformedAgrees ==
  ASSUME Agree, storeUp, NEW h \in Argument, h \in Owned, ContainsHandle(h),
         NEW object \in Refs,
         handles' = [handles EXCEPT ![GetHandleIndex(h)] = object],
         WantObject(h, object), UNCHANGED otherVars
  PROVE  Agree' /\ (DestroyedHoldNothing => DestroyedHoldNothing')
<1>1. h \in Slots /\ h \in Issued /\ GetHandleIndex(h) = h
  BY IndexInTable DEF Agree, ContainsHandle
<1>2. /\ handles' = [handles EXCEPT ![h] = object] /\ storeUp' = storeUp
      /\ handlesCount' = handlesCount /\ handleTypes' = handleTypes
      /\ dependentSecondaries' = dependentSecondaries /\ extraInfo' = extraInfo
      /\ Issued' = Issued
  BY <1>1 DEF otherVars, Issued
<1>3. /\ Owned' = Owned
      /\ wanted' \in [Owned -> Description]
      /\ \A g \in Owned :
           /\ wanted'[g].object = IF g = h THEN object ELSE wanted[g].object
           /\ wanted'[g].type = wanted[g].type
           /\ wanted'[g].secondary = wanted[g].secondary
           /\ wanted'[g].info = wanted[g].info
  BY WantObjectOne DEF Agree
<1>4. TypeOK'
  BY <1>1, <1>2, <1>3 DEF Agree, TypeOK, Description
<1>5. handles'[h] = object /\ \A g \in Slots \ {h} : handles'[g] = handles[g]
  BY <1>1, <1>2 DEF Agree, TypeOK
<1>6. Issued \subseteq Slots /\ Owned \subseteq Issued
  BY IssuedAreSlots DEF Agree, TypeOK
<1>7. TablesAgree'
  BY <1>2, <1>3, <1>5, <1>6 DEF Agree, TablesAgree
<1>8. DestroyedHoldNothing => DestroyedHoldNothing'
  BY <1>2, <1>3, <1>5, <1>6 DEF DestroyedHoldNothing
<1> QED BY <1>4, <1>7, <1>8 DEF Agree

LEMMA PerformedStore ==
  ASSUME HandleInv, storeUp, NEW h \in Argument, ContainsHandle(h),
         NEW object \in Refs,
         handles' = [handles EXCEPT ![GetHandleIndex(h)] = object],
         WantObject(h, object), UNCHANGED otherVars
  PROVE  HandleInv'
<1>1. h \in Slots /\ h \in Issued /\ GetHandleIndex(h) = h
  BY IndexInTable DEF HandleInv, ContainsHandle
<1>2. h \in Owned
  BY <1>1 DEF HandleInv, DestroyedHoldNothing, ContainsHandle
<1> QED BY <1>2, PerformedAgrees DEF HandleInv, Agree

(* A store the code drops, whether the EE takes it for done or not: what   *)
(* the EE wants changes only of a handle that holds nothing.               *)
LEMMA DroppedAgrees ==
  ASSUME Agree, NEW h \in Argument, ~(storeUp /\ ContainsHandle(h)),
         NEW object \in Refs,
         handles' = handles, WantObject(h, object), UNCHANGED otherVars
  PROVE  Agree' /\ (DestroyedHoldNothing => DestroyedHoldNothing')
<1>1. storeUp /\ h \in Owned => handles[h] = Null
  <2> SUFFICES ASSUME storeUp, h \in Owned PROVE handles[h] = Null
    OBVIOUS
  <2>1. h \in Issued /\ h \in Slots
    BY IssuedAreSlots DEF Agree, TypeOK
  <2>2. InTable(h) /\ GetHandleIndex(h) = h
    BY <2>1 DEF InTable, GetHandleIndex
  <2> QED BY <2>2 DEF ContainsHandle
<1>2. /\ Owned' = Owned
      /\ wanted' \in [Owned -> Description]
      /\ \A g \in Owned :
           /\ wanted'[g].object = IF storeUp /\ g = h THEN object ELSE wanted[g].object
           /\ wanted'[g].type = wanted[g].type
           /\ wanted'[g].secondary = wanted[g].secondary
           /\ wanted'[g].info = wanted[g].info
  BY WantObjectOne DEF Agree
<1>3. /\ storeUp' = storeUp
      /\ handlesCount' = handlesCount /\ handleTypes' = handleTypes
      /\ dependentSecondaries' = dependentSecondaries /\ extraInfo' = extraInfo
      /\ Issued' = Issued
  BY DEF otherVars, Issued
<1>4. TypeOK'
  BY <1>2, <1>3 DEF Agree, TypeOK, Description
<1>5. TablesAgree'
  BY <1>1, <1>2, <1>3 DEF Agree, TablesAgree
<1>6. DestroyedHoldNothing => DestroyedHoldNothing'
  BY <1>2, <1>3 DEF DestroyedHoldNothing
<1> QED BY <1>4, <1>5, <1>6 DEF Agree

LEMMA DroppedStore ==
  ASSUME HandleInv, NEW h \in Argument, ~(storeUp /\ ContainsHandle(h)),
         NEW object \in Refs,
         handles' = handles, WantObject(h, object), UNCHANGED otherVars
  PROVE  HandleInv'
  BY DroppedAgrees DEF HandleInv, Agree

(* A step that changes nothing but, maybe, whether the store is up.        *)
LEMMA Unchanged ==
  ASSUME HandleInv, storeUp' \in BOOLEAN, UNCHANGED <<handlesCount, tables, wanted>>
  PROVE  HandleInv'
  BY DEF tables, HandleInv, TypeOK, TablesAgree, DestroyedHoldNothing, Owned, Issued

LEMMA DestroyAgrees ==
  ASSUME Agree, NEW h \in Argument, DestroyHandle(h)
  PROVE  Agree' /\ (DestroyedHoldNothing => DestroyedHoldNothing')
<1>1. CASE ~(storeUp /\ InTable(h))
  BY <1>1 DEF DestroyHandle, vars, tables, Agree, TypeOK, TablesAgree,
     DestroyedHoldNothing, Owned, Issued
<1>2. CASE storeUp /\ InTable(h)
  <2>1. h \in Slots /\ h \in Issued /\ GetHandleIndex(h) = h
    BY <1>2, IndexInTable DEF Agree
  <2>2. /\ handles' = [handles EXCEPT ![h] = Null]
        /\ dependentSecondaries' = [dependentSecondaries EXCEPT ![h] = Null]
        /\ extraInfo' = [extraInfo EXCEPT ![h] = Null]
        /\ wanted' = [g \in Owned \ {h} |-> wanted[g]]
        /\ storeUp' = storeUp /\ handlesCount' = handlesCount
        /\ handleTypes' = handleTypes /\ Issued' = Issued
    BY <1>2, <2>1 DEF DestroyHandle, Issued
  <2>3. /\ Owned' = Owned \ {h}
        /\ \A g \in Owned \ {h} : wanted'[g] = wanted[g]
    BY <2>2 DEF Owned
  <2>4. Null \in Refs /\ Null \in Infos \cup {Null}
    BY DEF Refs
  <2>5. wanted' \in [Owned' -> Description]
    BY <2>2, <2>3 DEF Agree, TypeOK, Description
  <2>6. TypeOK'
    BY <2>1, <2>2, <2>3, <2>4, <2>5 DEF Agree, TypeOK, Description
  <2>7. /\ handles'[h] = Null
        /\ \A g \in Slots \ {h} :
             /\ handles'[g] = handles[g] /\ extraInfo'[g] = extraInfo[g]
             /\ dependentSecondaries'[g] = dependentSecondaries[g]
    BY <2>1, <2>2 DEF Agree, TypeOK
  <2>8. Issued \subseteq Slots /\ Owned \subseteq Issued
    BY IssuedAreSlots DEF Agree, TypeOK
  <2>9. TablesAgree'
    BY <2>2, <2>3, <2>7, <2>8 DEF Agree, TablesAgree
  <2>10. DestroyedHoldNothing => DestroyedHoldNothing'
    BY <2>2, <2>3, <2>7, <2>8 DEF DestroyedHoldNothing
  <2> QED BY <2>6, <2>9, <2>10 DEF Agree
<1> QED BY <1>1, <1>2

LEMMA DestroyStep ==
  ASSUME HandleInv, NEW h \in Argument, DestroyHandle(h)
  PROVE  HandleInv'
  BY DestroyAgrees DEF HandleInv, Agree

LEMMA SetExtraInfoStep ==
  ASSUME HandleInv, NEW h \in Argument, NEW info \in Infos, SetExtraInfo(h, info)
  PROVE  HandleInv'
<1>1. /\ storeUp' = storeUp /\ handlesCount' = handlesCount /\ handles' = handles
      /\ handleTypes' = handleTypes /\ dependentSecondaries' = dependentSecondaries
      /\ Issued' = Issued
  BY DEF SetExtraInfo, Issued
<1>2. Issued \subseteq Slots /\ Owned \subseteq Issued
  BY IssuedAreSlots DEF HandleInv, TypeOK
<1>3. CASE storeUp /\ h \in Owned
  <2>1. InTable(h) /\ GetHandleIndex(h) = h /\ h \in Slots
    BY <1>2, <1>3 DEF InTable, GetHandleIndex
  <2>2. extraInfo' = [extraInfo EXCEPT ![h] = info]
    BY <1>3, <2>1 DEF SetExtraInfo
  <2>3. /\ extraInfo'[h] = info
        /\ \A g \in Slots \ {h} : extraInfo'[g] = extraInfo[g]
        /\ extraInfo' \in [Slots -> Infos \cup {Null}]
    BY <2>1, <2>2 DEF HandleInv, TypeOK
  <2> DEFINE d == [wanted[h] EXCEPT !.info = info]
  <2>4. wanted[h] \in Description
    BY <1>3 DEF HandleInv, TypeOK, Description
  <2>5. /\ d \in Description /\ d.info = info /\ d.object = wanted[h].object
        /\ d.type = wanted[h].type /\ d.secondary = wanted[h].secondary
    BY <2>4 DEF Description
  <2>6. Want(h, d)
    BY DEF SetExtraInfo
  <2> HIDE DEF d
  <2>7. /\ Owned' = Owned
        /\ wanted' \in [Owned -> Description]
        /\ \A g \in Owned : wanted'[g] = IF g = h THEN d ELSE wanted[g]
    BY <1>3, <2>5, <2>6, WantOne DEF HandleInv
  <2>8. TypeOK'
    BY <1>1, <2>3, <2>7 DEF HandleInv, TypeOK, Description
  <2>9. TablesAgree'
    BY <1>1, <1>2, <2>3, <2>5, <2>7 DEF HandleInv, TablesAgree
  <2>10. DestroyedHoldNothing'
    BY <1>1, <2>7 DEF HandleInv, DestroyedHoldNothing
  <2> QED BY <2>8, <2>9, <2>10 DEF HandleInv
<1>4. CASE ~(storeUp /\ h \in Owned)
  <2>1. wanted' = wanted /\ Owned' = Owned
    BY <1>4 DEF SetExtraInfo, Want, Owned
  <2>2. /\ extraInfo' \in [Slots -> Infos \cup {Null}]
        /\ \A g \in Owned : extraInfo'[g] = extraInfo[g]
    <3>1. CASE storeUp /\ InTable(h)
      <4>1. h \in Slots /\ GetHandleIndex(h) = h
        BY <3>1, IndexInTable DEF HandleInv
      <4>2. extraInfo' = [extraInfo EXCEPT ![h] = info]
        BY <3>1, <4>1 DEF SetExtraInfo
      <4> QED BY <1>2, <1>4, <3>1, <4>1, <4>2 DEF HandleInv, TypeOK
    <3>2. CASE ~(storeUp /\ InTable(h))
      BY <3>2 DEF SetExtraInfo, HandleInv, TypeOK
    <3> QED BY <3>1, <3>2
  <2>3. TypeOK'
    BY <1>1, <2>1, <2>2 DEF HandleInv, TypeOK
  <2>4. TablesAgree'
    BY <1>1, <2>1, <2>2 DEF HandleInv, TablesAgree
  <2>5. DestroyedHoldNothing'
    BY <1>1, <2>1 DEF HandleInv, DestroyedHoldNothing
  <2> QED BY <2>3, <2>4, <2>5 DEF HandleInv
<1> QED BY <1>3, <1>4

LEMMA SetDependentSecondaryStep ==
  ASSUME HandleInv, NEW h \in Argument, NEW object \in Refs,
         SetDependentSecondary(h, object)
  PROVE  HandleInv'
<1>1. /\ storeUp' = storeUp /\ handlesCount' = handlesCount /\ handles' = handles
      /\ handleTypes' = handleTypes /\ extraInfo' = extraInfo
      /\ Issued' = Issued
  BY DEF SetDependentSecondary, Issued
<1>2. Issued \subseteq Slots /\ Owned \subseteq Issued
  BY IssuedAreSlots DEF HandleInv, TypeOK
<1>3. CASE storeUp /\ h \in Owned
  <2>1. InTable(h) /\ GetHandleIndex(h) = h /\ h \in Slots
    BY <1>2, <1>3 DEF InTable, GetHandleIndex
  <2>2. dependentSecondaries' = [dependentSecondaries EXCEPT ![h] = object]
    BY <1>3, <2>1 DEF SetDependentSecondary
  <2>3. /\ dependentSecondaries'[h] = object
        /\ \A g \in Slots \ {h} : dependentSecondaries'[g] = dependentSecondaries[g]
        /\ dependentSecondaries' \in [Slots -> Refs]
    BY <2>1, <2>2 DEF HandleInv, TypeOK
  <2> DEFINE d == [wanted[h] EXCEPT !.secondary = object]
  <2>4. wanted[h] \in Description
    BY <1>3 DEF HandleInv, TypeOK, Description
  <2>5. /\ d \in Description /\ d.secondary = object /\ d.object = wanted[h].object
        /\ d.type = wanted[h].type /\ d.info = wanted[h].info
    BY <2>4 DEF Description
  <2>6. Want(h, d)
    BY DEF SetDependentSecondary
  <2> HIDE DEF d
  <2>7. /\ Owned' = Owned
        /\ wanted' \in [Owned -> Description]
        /\ \A g \in Owned : wanted'[g] = IF g = h THEN d ELSE wanted[g]
    BY <1>3, <2>5, <2>6, WantOne DEF HandleInv
  <2>8. TypeOK'
    BY <1>1, <2>3, <2>7 DEF HandleInv, TypeOK, Description
  <2>9. TablesAgree'
    BY <1>1, <1>2, <2>3, <2>5, <2>7 DEF HandleInv, TablesAgree
  <2>10. DestroyedHoldNothing'
    BY <1>1, <2>7 DEF HandleInv, DestroyedHoldNothing
  <2> QED BY <2>8, <2>9, <2>10 DEF HandleInv
<1>4. CASE ~(storeUp /\ h \in Owned)
  <2>1. wanted' = wanted /\ Owned' = Owned
    BY <1>4 DEF SetDependentSecondary, Want, Owned
  <2>2. /\ dependentSecondaries' \in [Slots -> Refs]
        /\ \A g \in Owned : dependentSecondaries'[g] = dependentSecondaries[g]
    <3>1. CASE storeUp /\ InTable(h)
      <4>1. h \in Slots /\ GetHandleIndex(h) = h
        BY <3>1, IndexInTable DEF HandleInv
      <4>2. dependentSecondaries' = [dependentSecondaries EXCEPT ![h] = object]
        BY <3>1, <4>1 DEF SetDependentSecondary
      <4> QED BY <1>2, <1>4, <3>1, <4>1, <4>2 DEF HandleInv, TypeOK
    <3>2. CASE ~(storeUp /\ InTable(h))
      BY <3>2 DEF SetDependentSecondary, HandleInv, TypeOK
    <3> QED BY <3>1, <3>2
  <2>3. TypeOK'
    BY <1>1, <2>1, <2>2 DEF HandleInv, TypeOK
  <2>4. TablesAgree'
    BY <1>1, <2>1, <2>2 DEF HandleInv, TablesAgree
  <2>5. DestroyedHoldNothing'
    BY <1>1, <2>1 DEF HandleInv, DestroyedHoldNothing
  <2> QED BY <2>3, <2>4, <2>5 DEF HandleInv
<1> QED BY <1>3, <1>4

-----------------------------------------------------------------------------
LEMMA StoreStep ==
  ASSUME HandleInv, NEW h \in Argument, NEW object \in Refs,
         StoreObjectInHandle(h, object)
  PROVE  HandleInv'
<1>1. CASE storeUp /\ ContainsHandle(h)
  BY <1>1, PerformedStore DEF StoreObjectInHandle
<1>2. CASE ~(storeUp /\ ContainsHandle(h))
  BY <1>2, DroppedStore DEF StoreObjectInHandle
<1> QED BY <1>1, <1>2

(* An exchange that does not find what it expects leaves the table alone.  *)
LEMMA MissedExchange ==
  ASSUME HandleInv, NEW h \in Argument, ContainsHandle(h), NEW object, NEW comparand,
         handles[GetHandleIndex(h)] # comparand,
         CompareExchange(GetHandleIndex(h), object, comparand)
  PROVE  handles' = handles
<1>1. h \in Slots /\ GetHandleIndex(h) = h
  BY IndexInTable DEF HandleInv, ContainsHandle
<1> QED BY <1>1 DEF CompareExchange, HandleInv, TypeOK

LEMMA StoreIfNullStep ==
  ASSUME HandleInv, NEW h \in Argument, NEW object \in Refs,
         StoreObjectInHandleIfNull(h, object)
  PROVE  HandleInv'
<1>1. CASE storeUp /\ ContainsHandle(h)
  <2>1. handles[GetHandleIndex(h)] # Null
    BY <1>1 DEF ContainsHandle
  <2>2. handles' = handles /\ wanted' = wanted /\ UNCHANGED otherVars
    BY <1>1, <2>1, MissedExchange DEF StoreObjectInHandleIfNull
  <2> QED BY <2>2, Unchanged DEF otherVars, tables, HandleInv, TypeOK
<1>2. CASE ~(storeUp /\ ContainsHandle(h))
  BY <1>2, Unchanged DEF StoreObjectInHandleIfNull, vars, tables, HandleInv, TypeOK
<1> QED BY <1>1, <1>2

LEMMA ExchangeStep ==
  ASSUME HandleInv, NEW h \in Argument, NEW object \in Refs, NEW comparand \in Refs,
         InterlockedCompareExchange(h, object, comparand)
  PROVE  HandleInv'
<1> DEFINE index == GetHandleIndex(h)
<1>1. CASE storeUp /\ ContainsHandle(h) /\ handles[index] = comparand
  <2>1. h \in Slots /\ index = h
    BY <1>1, IndexInTable DEF HandleInv, ContainsHandle
  <2>2. handles' = [handles EXCEPT ![index] = object]
    BY <1>1, <2>1 DEF InterlockedCompareExchange, CompareExchange, HandleInv, TypeOK
  <2>3. WantObject(h, object) /\ UNCHANGED otherVars
    BY <1>1 DEF InterlockedCompareExchange
  <2> QED BY <1>1, <2>2, <2>3, PerformedStore
<1>2. CASE storeUp /\ ContainsHandle(h) /\ handles[index] # comparand
  <2>1. handles' = handles /\ wanted' = wanted /\ UNCHANGED otherVars
    BY <1>2, MissedExchange DEF InterlockedCompareExchange
  <2> QED BY <2>1, Unchanged DEF otherVars, tables, HandleInv, TypeOK
<1>3. CASE ~(storeUp /\ ContainsHandle(h))
  <2>1. handles' = handles /\ UNCHANGED otherVars
    BY <1>3 DEF InterlockedCompareExchange
  <2>2. CASE comparand = Null
    BY <1>3, <2>1, <2>2, DroppedStore DEF InterlockedCompareExchange
  <2>3. CASE comparand # Null
    BY <1>3, <2>1, <2>3, Unchanged
       DEF InterlockedCompareExchange, otherVars, tables, HandleInv, TypeOK
  <2> QED BY <2>2, <2>3
<1> QED BY <1>1, <1>2, <1>3

LEMMA DuplicateStep ==
  ASSUME HandleInv, NEW h \in Argument, CreateDuplicateHandle(h)
  PROVE  HandleInv'
<1>1. CASE storeUp /\ ContainsHandle(h)
  <2>1. h \in Slots /\ GetHandleIndex(h) = h
    BY <1>1, IndexInTable DEF HandleInv, ContainsHandle
  <2>2. handles[h] \in Refs /\ handleTypes[h] \in Types
    BY <2>1 DEF HandleInv, TypeOK
  <2>3. NewHandle(handles[h], handleTypes[h], Null, Null)
    BY <1>1, <2>1 DEF CreateDuplicateHandle
  <2> QED BY <2>2, <2>3, NewHandleStep DEF Refs
<1>2. CASE ~(storeUp /\ ContainsHandle(h))
  BY <1>2, Unchanged DEF CreateDuplicateHandle, vars, tables, HandleInv, TypeOK
<1> QED BY <1>1, <1>2

(* HandleInv is inductive.                                                 *)
LEMMA InvStep == HandleInv /\ [Next]_vars => HandleInv'
<1> SUFFICES ASSUME HandleInv, [Next]_vars PROVE HandleInv'
  OBVIOUS
<1>1. CASE Initialize \/ Shutdown \/ UNCHANGED vars
  BY <1>1, Unchanged DEF Initialize, Shutdown, vars, tables, HandleInv, TypeOK
<1>2. CASE Create
  <2>1. ASSUME NEW object \in Refs, NEW type \in HandleTypes, NEW info \in Infos,
               \/ CreateHandleOfType(object, type)
               \/ CreateHandleWithExtraInfo(object, type, info)
        PROVE  HandleInv'
    BY <2>1, NewHandleStep
       DEF CreateHandleOfType, CreateHandleWithExtraInfo, Refs, Types
  <2>2. ASSUME NEW object \in Refs, NEW type \in HandleTypes,
               CreateHandleOfType(object, type)
        PROVE  HandleInv'
    BY <2>2, NewHandleStep DEF CreateHandleOfType, Refs, Types
  <2>3. ASSUME NEW primary \in Refs, NEW secondary \in Refs,
               CreateDependentHandle(primary, secondary)
        PROVE  HandleInv'
    BY <2>3, NewHandleStep DEF CreateDependentHandle, Types
  <2> QED BY <1>2, <2>1, <2>2, <2>3 DEF Create
<1>3. ASSUME NEW h \in Argument, Use(h) PROVE HandleInv'
  BY <1>3, DuplicateStep, DestroyStep, SetExtraInfoStep, SetDependentSecondaryStep,
     StoreStep, StoreIfNullStep, ExchangeStep DEF Use
<1> QED BY <1>1, <1>2, <1>3 DEF Next, Argument

(* The invariant of every behaviour of the handle calls.                   *)
THEOREM HandleInvariant == Spec => []HandleInv
<1>1. Init => HandleInv
  BY InvInit
<1>2. HandleInv /\ [Next]_vars => HandleInv'
  BY InvStep
<1> QED BY <1>1, <1>2, PTL DEF Spec

(* Every variable holds a value of its type, and the count of handles never*)
(* passes the length of the arrays.                                        *)
THEOREM TypeCorrect == Spec => []TypeOK
<1>1. HandleInv => TypeOK
  BY DEF HandleInv
<1> QED BY <1>1, HandleInvariant, PTL

(* A handle the EE owns reads as the EE's calls left it, over any sequence *)
(* of calls, restarts of the store included.                               *)
THEOREM HandlesReadAsWanted == Spec => []OwnedHandlesAgree
<1>1. HandleInv => OwnedHandlesAgree
  <2> SUFFICES ASSUME HandleInv, NEW h \in Owned, storeUp
               PROVE  /\ HandleFetchType(h) = wanted[h].type
                      /\ GetDependentSecondary(h) = wanted[h].secondary
                      /\ GetExtraInfo(h) = wanted[h].info
    BY DEF OwnedHandlesAgree, HandleInv, TablesAgree
  <2>1. h \in Issued /\ h \in Slots
    BY IssuedAreSlots DEF HandleInv, TypeOK
  <2>2. InTable(h) /\ GetHandleIndex(h) = h
    BY <2>1 DEF InTable, GetHandleIndex
  <2> QED BY <2>2 DEF HandleInv, TablesAgree, HandleFetchType,
          GetDependentSecondary, GetExtraInfo
<1> QED BY <1>1, HandleInvariant, PTL

(* A GC is shown exactly the strong handles the EE owns, however many      *)
(* stale calls named destroyed ones.                                       *)
THEOREM RootsAreExact == Spec => []RootsExact
<1>1. HandleInv => RootsExact
  <2> SUFFICES ASSUME HandleInv, storeUp
               PROVE  ScanHandles =
                 {h \in Owned : handles[h] # Null /\ wanted[h].type \in StrongKinds}
    BY DEF RootsExact
  <2>1. Owned \subseteq Issued
    BY DEF HandleInv, TypeOK
  <2>2. \A h \in Issued : handles[h] # Null => h \in Owned
    BY DEF HandleInv, DestroyedHoldNothing
  <2>3. \A h \in Owned : wanted[h].type = handleTypes[h]
    BY DEF HandleInv, TablesAgree
  <2> QED BY <2>1, <2>2, <2>3 DEF ScanHandles, IsStrongHandle, StrongKinds
<1> QED BY <1>1, HandleInvariant, PTL

-----------------------------------------------------------------------------
(* What a step does to the slots: nothing, issue the next one, or store    *)
(* into one that holds an object.                                       *)
SlotsKept == handles' = handles /\ handlesCount' = handlesCount

SlotIssued(object) ==
  /\ HasRoom
  /\ handlesCount' = handlesCount + 1
  /\ handles' = [handles EXCEPT ![handlesCount] = object]

SlotStored(h, object) ==
  /\ handlesCount' = handlesCount
  /\ handles' = [handles EXCEPT ![h] = object]

(* The objects the EE wants do not change where one is held.               *)
WantsKept(held) ==
  \A h \in Owned \cap held : h \in Owned' => wanted'[h].object = wanted[h].object

Effect ==
  \/ SlotsKept /\ WantsKept(Live)
  \/ \E object \in Refs : SlotIssued(object) /\ WantsKept(Live)
  \/ \E h \in Live, object \in Refs :
       /\ SlotStored(h, object)
       /\ WantsKept(Live \ {h})
       /\ h \in Owned' => wanted'[h].object = object

LEMMA NothingStored ==
  ASSUME handles' = handles, handlesCount' = handlesCount, wanted' = wanted
  PROVE  Effect
  BY DEF Effect, SlotsKept, WantsKept

LEMMA NewHandleEffect ==
  ASSUME HandleInv, NEW object \in Refs, NEW type, NEW secondary, NEW info,
         NewHandle(object, type, secondary, info)
  PROVE  Effect
<1>1. CASE ~HasRoom
  BY <1>1, NothingStored DEF NewHandle, vars
<1>2. CASE HasRoom
  <2>1. handlesCount \notin Owned
    BY DEF HandleInv, TypeOK, Issued
  <2>2. \A h \in Owned : wanted'[h] = wanted[h]
    BY <1>2, <2>1 DEF NewHandle
  <2>3. SlotIssued(object)
    BY <1>2 DEF NewHandle, SlotIssued
  <2> QED BY <2>2, <2>3 DEF Effect, WantsKept
<1> QED BY <1>1, <1>2

LEMMA LiveHandle ==
  ASSUME TypeOK, NEW h \in Argument, ContainsHandle(h)
  PROVE  h \in Live /\ h \in Slots /\ GetHandleIndex(h) = h
  BY IndexInTable DEF ContainsHandle, Live

LEMMA PerformedEffect ==
  ASSUME TypeOK, storeUp, NEW h \in Argument, ContainsHandle(h),
         NEW object \in Refs,
         handles' = [handles EXCEPT ![GetHandleIndex(h)] = object],
         WantObject(h, object), UNCHANGED otherVars
  PROVE  Effect
<1>1. h \in Live /\ GetHandleIndex(h) = h
  BY LiveHandle
<1>2. SlotStored(h, object)
  BY <1>1 DEF SlotStored, otherVars
<1>3. /\ Owned' = Owned
      /\ \A g \in Owned :
           wanted'[g].object = IF g = h THEN object ELSE wanted[g].object
  BY WantObjectOne
<1>4. WantsKept(Live \ {h}) /\ (h \in Owned' => wanted'[h].object = object)
  BY <1>3 DEF WantsKept
<1> QED BY <1>1, <1>2, <1>4 DEF Effect

LEMMA DroppedEffect ==
  ASSUME HandleInv, NEW h \in Argument, ~(storeUp /\ ContainsHandle(h)),
         NEW object \in Refs,
         handles' = handles, WantObject(h, object), UNCHANGED otherVars
  PROVE  Effect
<1>1. /\ Owned' = Owned
      /\ \A g \in Owned :
           wanted'[g].object = IF storeUp /\ g = h THEN object ELSE wanted[g].object
  BY WantObjectOne DEF HandleInv
<1>2. \A g \in Live : g \in Slots /\ InTable(g) /\ GetHandleIndex(g) = g
                      /\ handles[g] # Null
  BY IssuedAreSlots DEF HandleInv, Live, InTable, GetHandleIndex
<1>3. \A g \in Live : ~(storeUp /\ g = h)
  BY <1>2 DEF ContainsHandle
<1>4. SlotsKept
  BY DEF SlotsKept, otherVars
<1> QED BY <1>1, <1>3, <1>4 DEF Effect, WantsKept

(* Setting a handle's secondary or extra info is no store into a slot.     *)
LEMMA DescribedEffect ==
  ASSUME HandleInv, NEW h, NEW d,
         h \in Owned => d \in Description /\ d.object = wanted[h].object,
         Want(h, d), handles' = handles, handlesCount' = handlesCount
  PROVE  Effect
<1>1. CASE h \in Owned
  <2>1. /\ Owned' = Owned
        /\ \A g \in Owned : wanted'[g] = IF storeUp /\ g = h THEN d ELSE wanted[g]
    BY <1>1, WantOne DEF HandleInv
  <2> QED BY <1>1, <2>1 DEF Effect, SlotsKept, WantsKept
<1>2. CASE h \notin Owned
  BY <1>2, NothingStored DEF Want
<1> QED BY <1>1, <1>2

LEMMA DestroyEffect ==
  ASSUME TypeOK, NEW h \in Argument, DestroyHandle(h)
  PROVE  Effect
<1>1. CASE ~(storeUp /\ InTable(h))
  BY <1>1, NothingStored DEF DestroyHandle, vars
<1>2. CASE storeUp /\ InTable(h)
  <2>1. h \in Slots /\ h \in Issued /\ GetHandleIndex(h) = h
    BY <1>2, IndexInTable
  <2>2. /\ handles' = [handles EXCEPT ![h] = Null]
        /\ wanted' = [g \in Owned \ {h} |-> wanted[g]]
        /\ handlesCount' = handlesCount
    BY <1>2, <2>1 DEF DestroyHandle
  <2>3. Owned' = Owned \ {h} /\ \A g \in Owned' : wanted'[g] = wanted[g]
    BY <2>2 DEF Owned
  <2>4. CASE handles[h] = Null
    <3>1. SlotsKept
      BY <2>1, <2>2, <2>4 DEF SlotsKept, TypeOK
    <3> QED BY <2>3, <3>1 DEF Effect, WantsKept
  <2>5. CASE handles[h] # Null
    <3>1. h \in Live /\ SlotStored(h, Null) /\ Null \in Refs
      BY <2>1, <2>2, <2>5 DEF Live, SlotStored, Refs
    <3>2. WantsKept(Live \ {h}) /\ h \notin Owned'
      BY <2>3 DEF WantsKept
    <3> QED BY <3>1, <3>2 DEF Effect
  <2> QED BY <2>4, <2>5
<1> QED BY <1>1, <1>2

LEMMA UseEffect ==
  ASSUME HandleInv, NEW h \in Argument, Use(h)
  PROVE  Effect
<1>0. TypeOK
  BY DEF HandleInv
<1> USE <1>0
<1>1. CASE CreateDuplicateHandle(h)
  <2>1. CASE storeUp /\ ContainsHandle(h)
    <3>1. handles[GetHandleIndex(h)] \in Refs
      BY <2>1, LiveHandle DEF HandleInv, TypeOK
    <3> QED BY <1>1, <2>1, <3>1, NewHandleEffect DEF CreateDuplicateHandle
  <2>2. CASE ~(storeUp /\ ContainsHandle(h))
    BY <1>1, <2>2, NothingStored DEF CreateDuplicateHandle, vars
  <2> QED BY <2>1, <2>2
<1>2. CASE DestroyHandle(h)
  BY <1>2, DestroyEffect
<1>3. ASSUME NEW info \in Infos, SetExtraInfo(h, info) PROVE Effect
  <2> DEFINE d == [wanted[h] EXCEPT !.info = info]
  <2>1. h \in Owned => d \in Description /\ d.object = wanted[h].object
    BY DEF HandleInv, TypeOK, Description
  <2>2. Want(h, d) /\ handles' = handles /\ handlesCount' = handlesCount
    BY <1>3 DEF SetExtraInfo
  <2> HIDE DEF d
  <2> QED BY <2>1, <2>2, DescribedEffect
<1>4. ASSUME NEW object \in Refs, SetDependentSecondary(h, object) PROVE Effect
  <2> DEFINE d == [wanted[h] EXCEPT !.secondary = object]
  <2>1. h \in Owned => d \in Description /\ d.object = wanted[h].object
    BY DEF HandleInv, TypeOK, Description
  <2>2. Want(h, d) /\ handles' = handles /\ handlesCount' = handlesCount
    BY <1>4 DEF SetDependentSecondary
  <2> HIDE DEF d
  <2> QED BY <2>1, <2>2, DescribedEffect
<1>5. ASSUME NEW object \in Refs, StoreObjectInHandle(h, object) PROVE Effect
  <2>1. CASE storeUp /\ ContainsHandle(h)
    BY <1>5, <2>1, PerformedEffect DEF StoreObjectInHandle
  <2>2. CASE ~(storeUp /\ ContainsHandle(h))
    BY <1>5, <2>2, DroppedEffect DEF StoreObjectInHandle
  <2> QED BY <2>1, <2>2
<1>6. ASSUME NEW object \in Refs, StoreObjectInHandleIfNull(h, object) PROVE Effect
  <2>1. CASE storeUp /\ ContainsHandle(h)
    <3>1. handles[GetHandleIndex(h)] # Null
      BY <2>1 DEF ContainsHandle
    <3>2. handles' = handles /\ wanted' = wanted /\ UNCHANGED otherVars
      BY <1>6, <2>1, <3>1, MissedExchange DEF StoreObjectInHandleIfNull
    <3> QED BY <3>2, NothingStored DEF otherVars
  <2>2. CASE ~(storeUp /\ ContainsHandle(h))
    BY <1>6, <2>2, NothingStored DEF StoreObjectInHandleIfNull, vars
  <2> QED BY <2>1, <2>2
<1>7. ASSUME NEW object \in Refs, NEW comparand \in Refs,
             InterlockedCompareExchange(h, object, comparand)
      PROVE  Effect
  <2> DEFINE index == GetHandleIndex(h)
  <2>1. CASE storeUp /\ ContainsHandle(h) /\ handles[index] = comparand
    <3>1. handles' = [handles EXCEPT ![index] = object]
      BY <1>7, <2>1, LiveHandle
         DEF InterlockedCompareExchange, CompareExchange, HandleInv, TypeOK
    <3>2. WantObject(h, object) /\ UNCHANGED otherVars
      BY <1>7, <2>1 DEF InterlockedCompareExchange
    <3> QED BY <2>1, <3>1, <3>2, PerformedEffect
  <2>2. CASE storeUp /\ ContainsHandle(h) /\ handles[index] # comparand
    <3>1. handles' = handles /\ wanted' = wanted /\ UNCHANGED otherVars
      BY <1>7, <2>2, MissedExchange DEF InterlockedCompareExchange
    <3> QED BY <3>1, NothingStored DEF otherVars
  <2>3. CASE ~(storeUp /\ ContainsHandle(h))
    <3>1. handles' = handles /\ UNCHANGED otherVars
      BY <1>7, <2>3 DEF InterlockedCompareExchange
    <3>2. CASE comparand = Null
      BY <1>7, <2>3, <3>1, <3>2, DroppedEffect DEF InterlockedCompareExchange
    <3>3. CASE comparand # Null
      BY <1>7, <2>3, <3>1, <3>3, NothingStored
         DEF InterlockedCompareExchange, otherVars
    <3> QED BY <3>2, <3>3
  <2> QED BY <2>1, <2>2, <2>3
<1> QED BY <1>1, <1>2, <1>3, <1>4, <1>5, <1>6, <1>7 DEF Use

LEMMA StepEffect == HandleInv /\ [Next]_vars => Effect
<1> SUFFICES ASSUME HandleInv, [Next]_vars PROVE Effect
  OBVIOUS
<1>1. CASE Initialize \/ Shutdown \/ UNCHANGED vars
  BY <1>1, NothingStored DEF Initialize, Shutdown, vars, tables
<1>2. CASE Create
  BY <1>2, NewHandleEffect
     DEF Create, CreateHandleOfType, CreateHandleWithExtraInfo, CreateDependentHandle
<1>3. ASSUME NEW h \in Argument, Use(h) PROVE Effect
  BY <1>3, UseEffect
<1> QED BY <1>1, <1>2, <1>3 DEF Next, Argument

(* No step, whichever handle it names, makes a handle that holds an object *)
(* lose it against the EE's will.                                          *)
THEOREM NoObjectIsLost == Spec => NoObjectLost
<1>1. HandleInv /\ HandleInv' /\ [Next]_vars =>
        [\A h \in Owned : handles[h] # Null /\ h \in Owned' =>
           handles'[h] = wanted'[h].object]_vars
  <2> SUFFICES ASSUME HandleInv, HandleInv', [Next]_vars,
                      NEW h \in Owned, handles[h] # Null, h \in Owned'
               PROVE  handles'[h] = wanted'[h].object
    OBVIOUS
  <2>1. h \in Issued /\ h \in Slots /\ h \in Live
    BY IssuedAreSlots DEF HandleInv, TypeOK, Live
  <2>2. handles[h] = wanted[h].object
    BY DEF HandleInv, TablesAgree
  <2>3. Effect
    BY StepEffect
  <2>4. CASE SlotsKept /\ WantsKept(Live)
    BY <2>1, <2>2, <2>4 DEF SlotsKept, WantsKept
  <2>5. ASSUME NEW object \in Refs, SlotIssued(object), WantsKept(Live)
        PROVE  handles'[h] = wanted'[h].object
    <3>1. h # handlesCount
      BY <2>1 DEF Issued, HandleInv, TypeOK
    <3> QED BY <2>1, <2>2, <2>5, <3>1 DEF SlotIssued, WantsKept, HandleInv, TypeOK
  <2>6. ASSUME NEW g \in Live, NEW object \in Refs, SlotStored(g, object),
               WantsKept(Live \ {g}), g \in Owned' => wanted'[g].object = object
        PROVE  handles'[h] = wanted'[h].object
    BY <2>1, <2>2, <2>6 DEF SlotStored, WantsKept, HandleInv, TypeOK
  <2> QED BY <2>3, <2>4, <2>5, <2>6 DEF Effect
<1> QED BY <1>1, HandleInvariant, PTL DEF Spec, NoObjectLost

-----------------------------------------------------------------------------
LEMMA PromiseInit == Init => Promise!Init
<1> SUFFICES ASSUME Init PROVE Promise!Init
  OBVIOUS
<1>1. Issued = {} /\ Live = {}
  BY DEF Init, Issued, Live
<1> QED BY <1>1 DEF Promise!Init

(* Each of the three effects on the slots is a step of HandleSpace.        *)
SlotEffect ==
  \/ SlotsKept
  \/ \E object \in Refs : SlotIssued(object)
  \/ \E h \in Live, object \in Refs : SlotStored(h, object)

LEMMA EffectOnSlots == Effect => SlotEffect
  BY DEF Effect, SlotEffect

LEMMA SlotsKeepPromise ==
  ASSUME TypeOK, SlotEffect
  PROVE  [Promise!Next]_(Promise!vars)
<1> DEFINE refs == [h \in Live |-> handles[h]]
           spent == Issued \ Live
<1>1. Issued \subseteq Slots /\ Live \subseteq Issued
  BY IssuedAreSlots DEF Live
<1>2. CASE SlotsKept
  BY <1>2 DEF SlotsKept, Promise!vars, Live, Issued
<1>3. ASSUME NEW object \in Refs, SlotIssued(object)
      PROVE  Promise!Next
  <2> DEFINE index == handlesCount
  <2>1. /\ index \in Slots /\ index \notin Issued
        /\ Issued' = Issued \cup {index}
    BY <1>3, HandleAssumption DEF SlotIssued, HasRoom, TypeOK, Slots, Issued
  <2>2. /\ handles'[index] = object
        /\ \A h \in Issued : handles'[h] = handles[h]
    BY <1>1, <1>3, <2>1 DEF SlotIssued, TypeOK
  <2>3. index \in Promise!Fresh
    BY <1>1, <2>1 DEF Promise!Fresh, Promise!Live
  <2>4. CASE object = Null
    <3>1. Live' = Live
      BY <2>1, <2>2, <2>4 DEF Live
    <3>2. refs' = refs
      BY <1>1, <2>2, <3>1
    <3>3. spent' = spent \cup {index}
      BY <1>1, <2>1, <3>1
    <3> QED BY <2>3, <3>2, <3>3 DEF Promise!Next, Promise!IssueSpent
  <2>5. CASE object # Null
    <3>1. Live' = Live \cup {index}
      BY <2>1, <2>2, <2>5 DEF Live
    <3>2. object \in Objects
      BY <2>5 DEF Refs
    <3>3. refs' = [g \in Live \cup {index} |-> IF g = index THEN object ELSE refs[g]]
      BY <1>1, <2>1, <2>2, <3>1
    <3>4. spent' = spent
      BY <1>1, <2>1, <3>1
    <3> QED BY <2>3, <3>2, <3>3, <3>4 DEF Promise!Next, Promise!Issue, Promise!Live
  <2> QED BY <2>4, <2>5
<1>4. ASSUME NEW h \in Live, NEW object \in Refs, SlotStored(h, object)
      PROVE  Promise!Next
  <2>1. Issued' = Issued
    BY <1>4 DEF SlotStored, Issued
  <2>2. /\ handles'[h] = object
        /\ \A g \in Issued \ {h} : handles'[g] = handles[g]
    BY <1>1, <1>4 DEF SlotStored, TypeOK
  <2>3. CASE object = Null
    <3>1. Live' = Live \ {h}
      BY <2>1, <2>2, <2>3 DEF Live
    <3>2. refs' = [g \in Live \ {h} |-> refs[g]]
      BY <1>1, <2>2, <3>1
    <3>3. spent' = spent \cup {h}
      BY <1>1, <2>1, <3>1
    <3> QED BY <3>2, <3>3 DEF Promise!Next, Promise!Drop, Promise!Live
  <2>4. CASE object # Null
    <3>1. Live' = Live
      BY <2>1, <2>2, <2>4 DEF Live
    <3>2. object \in Objects
      BY <2>4 DEF Refs
    <3>3. refs' = [refs EXCEPT ![h] = object]
      BY <1>1, <2>2, <3>1
    <3>4. spent' = spent
      BY <2>1, <3>1
    <3> QED BY <3>2, <3>3, <3>4 DEF Promise!Next, Promise!Assign, Promise!Live
  <2> QED BY <2>3, <2>4
<1> QED BY <1>2, <1>3, <1>4 DEF SlotEffect

(* The handle table implements HandleSpace, whatever calls are made: no    *)
(* handle is issued twice, and a spent one stays spent.                    *)
THEOREM HandlesImplementPromise == Spec => ImplementsHandleSpace
<1>1. Init => Promise!Init
  BY PromiseInit
<1>2. HandleInv /\ [Next]_vars => [Promise!Next]_(Promise!vars)
  BY StepEffect, EffectOnSlots, SlotsKeepPromise DEF HandleInv
<1> QED BY <1>1, <1>2, HandleInvariant, PTL
       DEF Spec, ImplementsHandleSpace, Promise!Spec

=============================================================================
