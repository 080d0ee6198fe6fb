------------------------------- MODULE GCDesc -------------------------------
(***************************************************************************)
(* The GC descriptor of a type (gcdesc.h): a map of the object references  *)
(* in its instances, growing backwards in memory from the MethodTable.     *)
(*                                                                         *)
(* Addresses are bytes relative to the MethodTable; a descriptor is a      *)
(* function from those of its words to what they hold.  The word below the *)
(* MethodTable counts the series; it is negative for an array of value     *)
(* classes, whose single series is coded as items of nptrs and skip.       *)
(***************************************************************************)
EXTENDS Integers, Functions

CONSTANTS
  WordSize,      \* sizeof(size_t), and of a pointer and of a val_serie_item
  SizeMax        \* 2^64: size_t wraps around there

ASSUME WordAssumption == WordSize \in {4, 8} /\ SizeMax \in Nat \ {0}

(* size_t arithmetic on sums and differences of two values; ptrdiff_t.     *)
Wrap(n) == IF n < 0 THEN n + SizeMax ELSE IF n < SizeMax THEN n ELSE n - SizeMax
Signed(n) == IF 2 * n < SizeMax THEN n ELSE n - SizeMax

SeriesBytes == 2 * WordSize

-----------------------------------------------------------------------------
ComputeSize(numSeries) == WordSize + numSeries * SeriesBytes

ComputeSizeRepeating(numSeries) ==
  WordSize + SeriesBytes + (numSeries - 1) * WordSize

GetNumSeries(desc) == Signed(desc[-WordSize])
IsValueClassSeries(desc) == GetNumSeries(desc) < 0

(* Size of the entire slot map, and where it starts.                       *)
GetSize(desc) ==
  IF IsValueClassSeries(desc) THEN ComputeSizeRepeating(-GetNumSeries(desc))
                              ELSE ComputeSize(GetNumSeries(desc))
GetStartOfGCData(desc) == -GetSize(desc)

GetLowestSeries(desc) == -ComputeSize(GetNumSeries(desc))
GetHighestSeries == -WordSize - SeriesBytes

(* The series a loop meets that starts at the highest and steps down until *)
(* it is below the lowest; it meets the highest in any case.               *)
SeriesWalked(desc) ==
  {GetHighestSeries} \cup
  {GetHighestSeries - k * SeriesBytes :
     k \in 1..((GetHighestSeries - GetLowestSeries(desc)) \div SeriesBytes)}

(* The coded items of an array of value classes, from the highest down.    *)
ItemsWalkedOneTooMany(desc) ==
  {GetHighestSeries + i * WordSize : i \in GetNumSeries(desc)..0}

ItemsWalked(desc) ==
  {GetHighestSeries + i * WordSize : i \in (GetNumSeries(desc) + 1)..0}

-----------------------------------------------------------------------------
(* A series' length is stored less the base size; what is read back gets   *)
(* the size of the object added, so that an array of references is one     *)
(* series of the length the array has.                                     *)
StoredSize(length, baseSize) == Wrap(length - baseSize)
LengthIn(desc, cur, objectSize) == Wrap(desc[cur] + objectSize)

NumPointersAdjustedTwice(desc, objectSize, numComponents) ==
  IF IsValueClassSeries(desc)
    THEN numComponents * SumFunction([cur \in ItemsWalked(desc) |-> desc[cur].nptrs])
    ELSE SumFunction([cur \in SeriesWalked(desc) |-> LengthIn(desc, cur, 0) \div WordSize])

(* Number of immediate pointers, a loader allocator not counted.           *)
NumPointers(desc, objectSize, numComponents) ==
  IF IsValueClassSeries(desc)
    THEN numComponents * SumFunction([cur \in ItemsWalked(desc) |-> desc[cur].nptrs])
    ELSE SumFunction([cur \in SeriesWalked(desc) |->
                        LengthIn(desc, cur, objectSize) \div WordSize])
=============================================================================
