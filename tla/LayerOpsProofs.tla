--------------------------- MODULE LayerOpsProofs ---------------------------
(* Lemmas about the operators of module LayerOps, and about sequences: for *)
(* any contents of layers L, any set of keys and any target of each.       *)
EXTENDS LayerOps, FiniteSets, TLAPS, FiniteSetTheorems, WellFoundedInduction

(* A bounded set of naturals has a greatest element, so that Max is it.    *)
LEMMA MaxIsGreatest ==
  ASSUME NEW n \in Nat, NEW S \in SUBSET (0 .. n), S # {}
  PROVE  Max(S) \in S /\ \A y \in S : Max(S) >= y
<1> DEFINE D == {n - x : x \in S}
<1>1. D \subseteq Nat /\ D # {}
  <2>1. \A x \in S : n - x \in Nat
    OBVIOUS
  <2>2. QED
    BY <2>1
<1>2. PICK d \in D : \A e \in D : d <= e
  <2> DEFINE R == OpToRel(<, Nat)
  <2>1. \E d \in D : \A e \in D : ~ (<<e, d>> \in R)
    <3> HIDE DEF R, D
    <3>1. IsWellFoundedOn(R, Nat)
      BY NatLessThanWellFounded DEF R
    <3>2. QED
      BY <1>1, <3>1, WFMin
  <2>2. \A e, d \in Nat : e < d => <<e, d>> \in R
    BY DEF OpToRel
  <2>3. QED
    <3> HIDE DEF R, D
    <3>1. \A e, d \in D : e \in Nat /\ d \in Nat
      BY <1>1
    <3>2. \A e, d \in Nat : ~ (e < d) => d <= e
      OBVIOUS
    <3>3. QED
      BY <2>1, <2>2, <3>1, <3>2
<1>3. PICK x \in S : d = n - x
  OBVIOUS
<1>4. \A y \in S : x >= y
  <2>1. TAKE y \in S
  <2>2. n - y \in D
    OBVIOUS
  <2>3. n - x <= n - y
    BY <1>2, <1>3, <2>2
  <2>4. QED
    BY <2>3
<1>5. \E z \in S : \A y \in S : z >= y
  BY <1>4
<1>6. QED
  BY <1>5 DEF Max

(* No other element is the greatest one. *)
LEMMA GreatestIsMax ==
  ASSUME NEW n \in Nat, NEW S \in SUBSET (0 .. n), NEW x \in S, \A y \in S : x >= y
  PROVE  Max(S) = x
<1>1. Max(S) \in S /\ Max(S) >= x
  BY MaxIsGreatest
<1>2. x >= Max(S) /\ x \in 0 .. n /\ Max(S) \in 0 .. n
  BY <1>1
<1>3. QED
  BY <1>1, <1>2

(* What is left of a sequence when one element is taken out. *)
LEMMA RemoveAtProperties ==
  ASSUME NEW S, NEW s \in Seq(S), NEW j \in 1 .. Len(s)
  PROVE  /\ RemoveAt(s, j) \in Seq(S)
         /\ Len(RemoveAt(s, j)) = Len(s) - 1
         /\ \A i \in 1 .. Len(s) - 1 :
              RemoveAt(s, j)[i] = IF i < j THEN s[i] ELSE s[i + 1]
<1> DEFINE u == SubSeq(s, 1, j - 1)
           v == SubSeq(s, j + 1, Len(s))
<1>1. /\ u \in Seq(S)
      /\ Len(u) = j - 1
      /\ \A i \in 1 .. j - 1 : u[i] = s[i]
  OBVIOUS
<1>2. /\ v \in Seq(S)
      /\ Len(v) = Len(s) - j
      /\ \A i \in 1 .. Len(s) - j : v[i] = s[i + j]
  OBVIOUS
<1>3. RemoveAt(s, j) = u \o v
  BY DEF RemoveAt
<1> HIDE DEF u, v
<1>4. /\ u \o v \in Seq(S)
      /\ Len(u \o v) = Len(s) - 1
  BY <1>1, <1>2
<1>5. ASSUME NEW i \in 1 .. Len(s) - 1
      PROVE  (u \o v)[i] = IF i < j THEN s[i] ELSE s[i + 1]
  <2>1. CASE i < j
    BY <1>1, <1>2, <2>1
  <2>2. CASE ~ (i < j)
    <3>1. (u \o v)[i] = v[i - (j - 1)]
      BY <1>1, <1>2, <2>2
    <3>2. v[i - (j - 1)] = s[i - (j - 1) + j]
      BY <1>2, <2>2
    <3>3. QED
      BY <2>2, <3>1, <3>2
  <2>3. QED
    BY <2>1, <2>2
<1>6. QED
  BY <1>3, <1>4, <1>5

-----------------------------------------------------------------------------
(* What unshift does, whatever the layout: nothing, or it takes out one    *)
(* entry for the layer and, if that is the newest entry, returns to the    *)
(* layer the entry starts from.                                            *)

LayoutState(L) == [layers : Seq(L), cur_layer : Nat, shift_from : Seq(ShiftRecord)]

LEMMA UnshiftEffect ==
  ASSUME NEW L, NEW lay \in LayoutState(L), NEW index \in Nat
  PROVE  \/ /\ UnshiftFrom(lay, index) = lay
            /\ ~HasLayer(lay, index) \/ ShiftsTo(lay, index) = {}
         \/ /\ HasLayer(lay, index)
            /\ \E j \in ShiftsTo(lay, index) :
                 UnshiftFrom(lay, index) =
                   [layers     |-> lay.layers,
                    cur_layer  |-> IF j = Len(lay.shift_from) /\ HasLayer(lay, lay.shift_from[j].start)
                                   THEN lay.shift_from[j].start
                                   ELSE lay.cur_layer,
                    shift_from |-> RemoveAt(lay.shift_from, j)]
            /\ Len(lay.shift_from) \in ShiftsTo(lay, index)
                 => UnshiftFrom(lay, index).shift_from
                      = RemoveAt(lay.shift_from, Len(lay.shift_from))
<1> DEFINE open == ShiftsTo(lay, index)
           top  == Len(lay.shift_from)
           result == UnshiftFrom(lay, index)
<1>1. open \subseteq 0 .. top /\ top \in Nat
  BY DEF LayoutState, ShiftsTo
<1>2. CASE ~HasLayer(lay, index) \/ open = {}
  BY <1>2 DEF UnshiftFrom
<1>3. CASE HasLayer(lay, index) /\ open # {} /\ top \in open
  <2>1. result = [SwitchLayer(lay, lay.shift_from[top].start)
                    EXCEPT !.shift_from = RemoveAt(@, top)]
    BY <1>3 DEF UnshiftFrom
  <2>2. result = [layers     |-> lay.layers,
                  cur_layer  |-> IF HasLayer(lay, lay.shift_from[top].start)
                                 THEN lay.shift_from[top].start
                                 ELSE lay.cur_layer,
                  shift_from |-> RemoveAt(lay.shift_from, top)]
    BY <2>1 DEF SwitchLayer, LayoutState
  <2> HIDE DEF open, result, top
  <2>3. result.shift_from = RemoveAt(lay.shift_from, top)
    BY <2>2
  <2>4. QED
    BY <1>3, <2>2, <2>3 DEF open, result, top
<1>4. CASE HasLayer(lay, index) /\ open # {} /\ top \notin open
  <2>1. Max(open) \in open
    BY <1>1, <1>4, MaxIsGreatest
  <2>2. result = [lay EXCEPT !.shift_from = RemoveAt(@, Max(open))]
    BY <1>4 DEF UnshiftFrom
  <2>3. result = [layers     |-> lay.layers,
                  cur_layer  |-> lay.cur_layer,
                  shift_from |-> RemoveAt(lay.shift_from, Max(open))]
    BY <2>2 DEF LayoutState
  <2>4. Max(open) # top
    BY <1>4, <2>1
  <2> HIDE DEF open, result, top
  <2>5. QED
    BY <1>4, <2>1, <2>3, <2>4 DEF open, result, top
<1>5. QED
  BY <1>2, <1>3, <1>4

(* The entries of shift_from are records of two indices. *)
LEMMA EntryType ==
  ASSUME NEW L, NEW lay \in LayoutState(L), NEW i \in DOMAIN lay.shift_from
  PROVE  /\ lay.shift_from[i] \in ShiftRecord
         /\ lay.shift_from[i].start \in Nat
         /\ lay.shift_from[i].curr \in Nat
<1>1. lay.shift_from \in Seq(ShiftRecord)
  BY DEF LayoutState
<1>2. lay.shift_from[i] \in ShiftRecord
  BY <1>1
<1>3. QED
  BY <1>2 DEF ShiftRecord

(* Each operation yields a layout. *)
LEMMA OperationsType ==
  ASSUME NEW L, NEW lay \in LayoutState(L), NEW index \in Nat
  PROVE  /\ SwitchLayer(lay, index) \in LayoutState(L)
         /\ UpLayer(lay) \in LayoutState(L)
         /\ DownLayer(lay) \in LayoutState(L)
         /\ ShiftTo(lay, index) \in LayoutState(L)
         /\ UnshiftFrom(lay, index) \in LayoutState(L)
         /\ \A layer \in L : AddLayer(lay, layer) \in LayoutState(L)
         /\ RemoveLayer(lay, index) \in LayoutState(L)
<1>1. SwitchLayer(lay, index) \in LayoutState(L)
  BY DEF SwitchLayer, LayoutState
<1>2. UpLayer(lay) \in LayoutState(L)
  BY DEF UpLayer, LayoutState
<1>3. DownLayer(lay) \in LayoutState(L)
  BY UsizeMaxAssumption DEF DownLayer, WrappingDec, LayoutState
<1>4. ShiftTo(lay, index) \in LayoutState(L)
  <2>1. [start |-> lay.cur_layer, curr |-> index] \in ShiftRecord
    BY DEF LayoutState, ShiftRecord
  <2>2. Append(lay.shift_from, [start |-> lay.cur_layer, curr |-> index]) \in Seq(ShiftRecord)
    BY <2>1 DEF LayoutState
  <2>3. QED
    BY <2>2 DEF ShiftTo, LayoutState
<1>5. UnshiftFrom(lay, index) \in LayoutState(L)
  <2>1. CASE UnshiftFrom(lay, index) = lay
    BY <2>1
  <2>2. ASSUME NEW j \in ShiftsTo(lay, index),
               UnshiftFrom(lay, index) =
                 [layers     |-> lay.layers,
                  cur_layer  |-> IF j = Len(lay.shift_from) /\ HasLayer(lay, lay.shift_from[j].start)
                                 THEN lay.shift_from[j].start
                                 ELSE lay.cur_layer,
                  shift_from |-> RemoveAt(lay.shift_from, j)]
        PROVE  UnshiftFrom(lay, index) \in LayoutState(L)
    <3>1. lay.shift_from \in Seq(ShiftRecord) /\ j \in 1 .. Len(lay.shift_from)
      BY DEF LayoutState, ShiftsTo
    <3>2. RemoveAt(lay.shift_from, j) \in Seq(ShiftRecord)
      BY <3>1, RemoveAtProperties
    <3>3. lay.shift_from[j] \in ShiftRecord
      BY <3>1
    <3>4. lay.shift_from[j].start \in Nat
      BY <3>3 DEF ShiftRecord
    <3>5. QED
      BY <2>2, <3>2, <3>4 DEF LayoutState
  <2>3. QED
    BY <2>1, <2>2, UnshiftEffect
<1>6. ASSUME NEW layer \in L
      PROVE  AddLayer(lay, layer) \in LayoutState(L)
  <2>1. lay.layers \in Seq(L)
    BY DEF LayoutState
  <2>2. Append(lay.layers, layer) \in Seq(L)
    BY <2>1
  <2>3. QED
    BY <2>2 DEF AddLayer, LayoutState
<1>7. RemoveLayer(lay, index) \in LayoutState(L)
  <2>1. CASE HasLayer(lay, index)
    <3>1. lay.layers \in Seq(L) /\ index + 1 \in 1 .. Len(lay.layers)
      BY <2>1 DEF HasLayer, LayoutState
    <3>2. RemoveAt(lay.layers, index + 1) \in Seq(L)
      BY <3>1, RemoveAtProperties
    <3>3. QED
      BY <2>1, <3>2 DEF RemoveLayer, LayoutState
  <2>2. CASE ~HasLayer(lay, index)
    BY <2>2 DEF RemoveLayer
  <2>3. QED
    BY <2>1, <2>2
<1>8. QED
  BY <1>1, <1>2, <1>3, <1>4, <1>5, <1>6, <1>7

-----------------------------------------------------------------------------
(* The current layer and the layers that shifts return to are in range,    *)
(* and stay so. *)
InRange(lay) ==
  /\ lay.cur_layer < Len(lay.layers) \/ (Len(lay.layers) = 0 /\ lay.cur_layer = 0)
  /\ \A i \in DOMAIN lay.shift_from : lay.shift_from[i].start < Len(lay.layers)

LEMMA ShiftInRange ==
  ASSUME NEW L, NEW lay \in LayoutState(L), InRange(lay), NEW index \in Nat
  PROVE  InRange(ShiftTo(lay, index))
<1>1. CASE ~HasLayer(lay, index)
  BY <1>1 DEF ShiftTo
<1>2. CASE HasLayer(lay, index)
  <2> DEFINE rec == [start |-> lay.cur_layer, curr |-> index]
             new == ShiftTo(lay, index)
  <2>1. /\ rec \in ShiftRecord
        /\ rec.start = lay.cur_layer
        /\ lay.shift_from \in Seq(ShiftRecord)
        /\ lay.cur_layer \in Nat /\ Len(lay.layers) \in Nat
    BY DEF LayoutState, ShiftRecord
  <2>2. /\ new.layers = lay.layers
        /\ new.cur_layer = index
        /\ new.shift_from = Append(lay.shift_from, rec)
    BY <1>2 DEF ShiftTo, LayoutState
  <2>3. index < Len(lay.layers) /\ lay.cur_layer < Len(lay.layers)
    BY <1>2, <2>1 DEF HasLayer, InRange
  <2> HIDE DEF rec, new
  <2>4. ASSUME NEW i \in DOMAIN new.shift_from
        PROVE  new.shift_from[i].start < Len(lay.layers)
    <3>1. i \in 1 .. Len(lay.shift_from) + 1
      BY <2>1, <2>2, <2>4
    <3>2. CASE i = Len(lay.shift_from) + 1
      BY <2>1, <2>2, <2>3, <3>2
    <3>3. CASE i \in DOMAIN lay.shift_from
      <4>1. new.shift_from[i] = lay.shift_from[i]
        BY <2>1, <2>2, <3>3
      <4>2. QED
        BY <3>3, <4>1 DEF InRange
    <3>4. QED
      BY <2>1, <3>1, <3>2, <3>3
  <2>5. QED
    BY <2>2, <2>3, <2>4 DEF InRange, new
<1>3. QED
  BY <1>1, <1>2

LEMMA UnshiftInRange ==
  ASSUME NEW L, NEW lay \in LayoutState(L), InRange(lay), NEW index \in Nat
  PROVE  InRange(UnshiftFrom(lay, index))
<1> DEFINE new == UnshiftFrom(lay, index)
<1>1. CASE new = lay
  BY <1>1
<1>2. ASSUME NEW j \in ShiftsTo(lay, index),
             new = [layers     |-> lay.layers,
                    cur_layer  |-> IF j = Len(lay.shift_from) /\ HasLayer(lay, lay.shift_from[j].start)
                                   THEN lay.shift_from[j].start
                                   ELSE lay.cur_layer,
                    shift_from |-> RemoveAt(lay.shift_from, j)]
      PROVE  InRange(new)
  <2>1. /\ lay.shift_from \in Seq(ShiftRecord)
        /\ j \in 1 .. Len(lay.shift_from)
        /\ lay.cur_layer \in Nat /\ Len(lay.layers) \in Nat
    BY DEF LayoutState, ShiftsTo
  <2> HIDE DEF new
  <2>2. /\ new.layers = lay.layers
        /\ new.cur_layer = lay.cur_layer \/ new.cur_layer = lay.shift_from[j].start
        /\ new.shift_from = RemoveAt(lay.shift_from, j)
    BY <1>2
  <2>3. lay.shift_from[j].start < Len(lay.layers)
    BY <2>1 DEF InRange
  <2>4. ASSUME NEW i \in DOMAIN new.shift_from
        PROVE  new.shift_from[i].start < Len(lay.layers)
    <3>1. i \in 1 .. Len(lay.shift_from) - 1
      BY <2>1, <2>2, <2>4, RemoveAtProperties
    <3>2. new.shift_from[i] = IF i < j THEN lay.shift_from[i] ELSE lay.shift_from[i + 1]
      BY <2>1, <2>2, <3>1, RemoveAtProperties
    <3>3. i \in DOMAIN lay.shift_from /\ i + 1 \in DOMAIN lay.shift_from
      BY <2>1, <3>1
    <3>4. QED
      BY <3>2, <3>3 DEF InRange
  <2>5. QED
    BY <2>1, <2>2, <2>3, <2>4 DEF InRange
<1>3. QED
  BY <1>1, <1>2, UnshiftEffect

LEMMA MoveInRange ==
  ASSUME NEW L, NEW lay \in LayoutState(L), InRange(lay), NEW index \in Nat
  PROVE  /\ InRange(SwitchLayer(lay, index))
         /\ InRange(UpLayer(lay))
         /\ InRange(DownLayer(lay))
<1>1. lay.cur_layer \in Nat /\ Len(lay.layers) \in Nat
  BY DEF LayoutState
<1>2. InRange(SwitchLayer(lay, index))
  BY <1>1 DEF SwitchLayer, HasLayer, InRange, LayoutState
<1>3. InRange(UpLayer(lay))
  BY <1>1 DEF UpLayer, HasLayer, InRange, LayoutState
<1>4. InRange(DownLayer(lay))
  BY <1>1, UsizeMaxAssumption DEF DownLayer, WrappingDec, HasLayer, InRange, LayoutState
<1>5. QED
  BY <1>2, <1>3, <1>4

LEMMA AddInRange ==
  ASSUME NEW L, NEW lay \in LayoutState(L), InRange(lay), NEW layer \in L
  PROVE  InRange(AddLayer(lay, layer))
<1>1. /\ lay.layers \in Seq(L)
      /\ lay.cur_layer \in Nat
      /\ \A i \in DOMAIN lay.shift_from : lay.shift_from[i].start \in Nat
  BY EntryType DEF LayoutState
<1>2. /\ AddLayer(lay, layer).layers = Append(lay.layers, layer)
      /\ AddLayer(lay, layer).cur_layer = lay.cur_layer
      /\ AddLayer(lay, layer).shift_from = lay.shift_from
  BY DEF AddLayer, LayoutState
<1>3. Len(Append(lay.layers, layer)) = Len(lay.layers) + 1 /\ Len(lay.layers) \in Nat
  BY <1>1
<1>4. QED
  BY <1>1, <1>2, <1>3 DEF InRange

LEMMA CarefulRemoveInRange ==
  ASSUME NEW L, NEW lay \in LayoutState(L), InRange(lay), NEW index \in Nat,
         index > lay.cur_layer,
         \A i \in DOMAIN lay.shift_from : index > lay.shift_from[i].start
  PROVE  InRange(RemoveLayer(lay, index))
<1>1. CASE ~HasLayer(lay, index)
  BY <1>1 DEF RemoveLayer
<1>2. CASE HasLayer(lay, index)
  <2>1. /\ lay.layers \in Seq(L)
        /\ lay.cur_layer \in Nat
        /\ \A i \in DOMAIN lay.shift_from : lay.shift_from[i].start \in Nat
        /\ index + 1 \in 1 .. Len(lay.layers)
    BY <1>2, EntryType DEF LayoutState, HasLayer
  <2>2. /\ RemoveLayer(lay, index).layers = RemoveAt(lay.layers, index + 1)
        /\ RemoveLayer(lay, index).cur_layer = lay.cur_layer
        /\ RemoveLayer(lay, index).shift_from = lay.shift_from
    BY <1>2 DEF RemoveLayer, LayoutState
  <2>3. Len(RemoveAt(lay.layers, index + 1)) = Len(lay.layers) - 1
    BY <2>1, RemoveAtProperties
  <2>4. QED
    BY <2>1, <2>2, <2>3 DEF InRange
<1>3. QED
  BY <1>1, <1>2

-----------------------------------------------------------------------------
(* There are as many open shifts to a layer as Shift keys to it are down.  *)

EntriesTo(s, index) == {i \in DOMAIN s : s[i].curr = index}

LEMMA EntriesFinite ==
  ASSUME NEW s \in Seq(ShiftRecord), NEW index
  PROVE  IsFiniteSet(EntriesTo(s, index))
<1>1. IsFiniteSet(1 .. Len(s))
  BY FS_Interval
<1>2. EntriesTo(s, index) \in SUBSET (1 .. Len(s))
  BY DEF EntriesTo
<1>3. QED
  BY <1>1, <1>2, FS_Subset

(* Taking out an entry leaves the number of entries to every layer but its *)
(* own.                                                                    *)
LEMMA RemoveAtCount ==
  ASSUME NEW s \in Seq(ShiftRecord), NEW j \in 1 .. Len(s), NEW index
  PROVE  Cardinality(EntriesTo(RemoveAt(s, j), index))
           = Cardinality(EntriesTo(s, index)) - (IF s[j].curr = index THEN 1 ELSE 0)
<1> DEFINE r == RemoveAt(s, j)
           A == EntriesTo(s, index) \ {j}
           B == EntriesTo(r, index)
           f == [i \in A |-> IF i < j THEN i ELSE i - 1]
<1>1. /\ r \in Seq(ShiftRecord)
      /\ Len(r) = Len(s) - 1
      /\ \A i \in 1 .. Len(s) - 1 : r[i] = IF i < j THEN s[i] ELSE s[i + 1]
  BY RemoveAtProperties
<1>2. A \subseteq 1 .. Len(s) /\ \A i \in A : i # j /\ s[i].curr = index
  BY DEF EntriesTo
<1>3. B = {i \in 1 .. Len(s) - 1 : r[i].curr = index}
  BY <1>1 DEF EntriesTo
<1>4. \A i \in 1 .. Len(s) : i # j /\ s[i].curr = index => i \in A
  BY DEF EntriesTo
<1> HIDE DEF A, B, r
<1>5. f \in [A -> B]
  <2> SUFFICES ASSUME NEW i \in A PROVE (IF i < j THEN i ELSE i - 1) \in B
    OBVIOUS
  <2>1. CASE i < j
    BY <1>1, <1>2, <1>3, <2>1
  <2>2. CASE i > j
    <3>1. i - 1 \in 1 .. Len(s) - 1 /\ ~(i - 1 < j) /\ (i - 1) + 1 = i
      BY <1>2, <2>2
    <3>2. r[i - 1] = s[i]
      BY <1>1, <3>1
    <3>3. QED
      BY <1>2, <1>3, <2>2, <3>1, <3>2
  <2>3. QED
    BY <1>2, <2>1, <2>2
<1>6. ASSUME NEW x \in A, NEW y \in A, f[x] = f[y]
      PROVE  x = y
  BY <1>2, <1>6
<1>7. ASSUME NEW b \in B
      PROVE  \E i \in A : f[i] = b
  <2>1. b \in 1 .. Len(s) - 1 /\ r[b].curr = index
    BY <1>3
  <2>2. CASE b < j
    <3>1. b \in A
      BY <1>1, <1>4, <2>1, <2>2
    <3>2. QED
      BY <2>2, <3>1
  <2>3. CASE ~(b < j)
    <3>1. b + 1 \in A
      BY <1>1, <1>4, <2>1, <2>3
    <3>2. f[b + 1] = b
      BY <2>1, <2>3, <3>1
    <3>3. QED
      BY <3>1, <3>2
  <2>4. QED
    BY <2>2, <2>3
<1>8. ExistsBijection(A, B)
  <2>1. f \in Bijection(A, B)
    BY <1>5, <1>6, <1>7 DEF Bijection, Injection, Surjection, IsInjective
  <2>2. QED
    BY <2>1 DEF ExistsBijection
<1>9. IsFiniteSet(EntriesTo(s, index))
  BY EntriesFinite
<1>10. IsFiniteSet(A) /\ Cardinality(A) = IF j \in EntriesTo(s, index)
                                          THEN Cardinality(EntriesTo(s, index)) - 1
                                          ELSE Cardinality(EntriesTo(s, index))
  BY <1>9, FS_RemoveElement DEF A
<1>11. Cardinality(B) = Cardinality(A)
  BY <1>8, <1>10, FS_Bijection
<1>12. j \in EntriesTo(s, index) <=> s[j].curr = index
  BY DEF EntriesTo
<1>13. Cardinality(EntriesTo(s, index)) \in Nat
  BY <1>9, FS_CardinalityType
<1>14. QED
  BY <1>10, <1>11, <1>12, <1>13 DEF B, r

(* Making a shift adds an entry to its layer and none to another. *)
LEMMA AppendCount ==
  ASSUME NEW s \in Seq(ShiftRecord), NEW rec \in ShiftRecord, NEW index
  PROVE  Cardinality(EntriesTo(Append(s, rec), index))
           = Cardinality(EntriesTo(s, index)) + (IF rec.curr = index THEN 1 ELSE 0)
<1>1. /\ Append(s, rec) \in Seq(ShiftRecord)
      /\ Len(Append(s, rec)) = Len(s) + 1
      /\ \A i \in 1 .. Len(s) : Append(s, rec)[i] = s[i]
      /\ Append(s, rec)[Len(s) + 1] = rec
  OBVIOUS
<1>2. IsFiniteSet(EntriesTo(s, index)) /\ Cardinality(EntriesTo(s, index)) \in Nat
  BY EntriesFinite, FS_CardinalityType
<1>3. EntriesTo(Append(s, rec), index)
        = {i \in 1 .. Len(s) + 1 : Append(s, rec)[i].curr = index}
  BY <1>1 DEF EntriesTo
<1>4. EntriesTo(s, index) = {i \in 1 .. Len(s) : s[i].curr = index}
  BY DEF EntriesTo
<1>5. CASE rec.curr = index
  <2>1. EntriesTo(Append(s, rec), index) = EntriesTo(s, index) \cup {Len(s) + 1}
    BY <1>1, <1>3, <1>4, <1>5
  <2>2. Len(s) + 1 \notin EntriesTo(s, index)
    BY <1>4
  <2>3. QED
    BY <1>2, <1>5, <2>1, <2>2, FS_AddElement
<1>6. CASE rec.curr # index
  <2>1. EntriesTo(Append(s, rec), index) = EntriesTo(s, index)
    BY <1>1, <1>3, <1>4, <1>6
  <2>2. QED
    BY <1>2, <1>6, <2>1
<1>7. QED
  BY <1>5, <1>6

(* The numbers of open shifts and of keys down agree, layer by layer; each *)
(* key is to a layer.                                                      *)
KeysTo(down, to, index) == {k \in down : to[k] = index}

Matched(s, down, to) ==
  \A index \in Nat : Cardinality(EntriesTo(s, index)) = Cardinality(KeysTo(down, to, index))

LEMMA KeysFinite ==
  ASSUME NEW down, IsFiniteSet(down), NEW to, NEW index
  PROVE  /\ IsFiniteSet(KeysTo(down, to, index))
         /\ Cardinality(KeysTo(down, to, index)) \in Nat
<1>1. KeysTo(down, to, index) \in SUBSET down
  BY DEF KeysTo
<1>2. IsFiniteSet(KeysTo(down, to, index))
  BY <1>1, FS_Subset
<1>3. QED
  BY <1>2, FS_CardinalityType

LEMMA PressMatched ==
  ASSUME NEW L, NEW lay \in LayoutState(L), NEW down, IsFiniteSet(down), NEW to,
         NEW k, k \notin down, to[k] \in Nat,
         Matched(lay.shift_from, down, to), HasLayer(lay, to[k])
  PROVE  Matched(ShiftTo(lay, to[k]).shift_from, down \cup {k}, to)
<1> DEFINE s   == lay.shift_from
           rec == [start |-> lay.cur_layer, curr |-> to[k]]
<1>1. s \in Seq(ShiftRecord) /\ rec \in ShiftRecord /\ rec.curr = to[k]
  BY DEF LayoutState, ShiftRecord
<1>2. ShiftTo(lay, to[k]).shift_from = Append(s, rec)
  BY DEF ShiftTo, LayoutState
<1> HIDE DEF s, rec
<1>3. ASSUME NEW index \in Nat
      PROVE  Cardinality(EntriesTo(Append(s, rec), index))
               = Cardinality(KeysTo(down \cup {k}, to, index))
  <2>1. Cardinality(EntriesTo(s, index)) = Cardinality(KeysTo(down, to, index))
    BY DEF Matched, s
  <2>2. Cardinality(EntriesTo(Append(s, rec), index))
          = Cardinality(EntriesTo(s, index)) + (IF rec.curr = index THEN 1 ELSE 0)
    BY <1>1, AppendCount
  <2>3. IsFiniteSet(KeysTo(down, to, index)) /\ Cardinality(KeysTo(down, to, index)) \in Nat
    BY KeysFinite
  <2>4. CASE to[k] = index
    <3>1. /\ KeysTo(down \cup {k}, to, index) = KeysTo(down, to, index) \cup {k}
          /\ k \notin KeysTo(down, to, index)
      BY <2>4 DEF KeysTo
    <3>2. Cardinality(KeysTo(down, to, index) \cup {k}) = Cardinality(KeysTo(down, to, index)) + 1
      BY <2>3, <3>1, FS_AddElement
    <3>3. QED
      BY <1>1, <2>1, <2>2, <2>4, <3>1, <3>2
  <2>5. CASE to[k] # index
    <3>1. KeysTo(down \cup {k}, to, index) = KeysTo(down, to, index)
      BY <2>5 DEF KeysTo
    <3>2. QED
      BY <1>1, <2>1, <2>2, <2>3, <2>5, <3>1
  <2>6. QED
    BY <2>4, <2>5
<1>4. QED
  BY <1>2, <1>3 DEF Matched

(* A key that is down has an open shift. *)
LEMMA HeldIsOpen ==
  ASSUME NEW s, NEW down, IsFiniteSet(down), NEW to, NEW k \in down, to[k] \in Nat,
         Matched(s, down, to)
  PROVE  EntriesTo(s, to[k]) # {}
<1>1. k \in KeysTo(down, to, to[k])
  BY DEF KeysTo
<1>2. IsFiniteSet(KeysTo(down, to, to[k]))
  BY KeysFinite
<1>3. Cardinality(KeysTo(down, to, to[k])) # 0
  BY <1>1, <1>2, FS_EmptySet
<1>4. Cardinality(EntriesTo(s, to[k])) = Cardinality(KeysTo(down, to, to[k]))
  BY DEF Matched
<1>5. QED
  BY <1>3, <1>4, FS_EmptySet

LEMMA ReleaseMatched ==
  ASSUME NEW L, NEW lay \in LayoutState(L), NEW down, IsFiniteSet(down), NEW to,
         NEW k \in down, to[k] \in Nat,
         Matched(lay.shift_from, down, to), HasLayer(lay, to[k])
  PROVE  Matched(UnshiftFrom(lay, to[k]).shift_from, down \ {k}, to)
<1> DEFINE s == lay.shift_from
<1>1. s \in Seq(ShiftRecord)
  BY DEF LayoutState
<1>2. ShiftsTo(lay, to[k]) = EntriesTo(s, to[k])
  BY DEF ShiftsTo, EntriesTo
<1>3. EntriesTo(s, to[k]) # {}
  BY HeldIsOpen
<1>4. PICK j \in EntriesTo(s, to[k]) :
        UnshiftFrom(lay, to[k]).shift_from = RemoveAt(s, j)
  BY <1>2, <1>3, UnshiftEffect
<1>5. j \in 1 .. Len(s) /\ s[j].curr = to[k]
  BY <1>1 DEF EntriesTo
<1> HIDE DEF s
<1>6. ASSUME NEW index \in Nat
      PROVE  Cardinality(EntriesTo(RemoveAt(s, j), index))
               = Cardinality(KeysTo(down \ {k}, to, index))
  <2>1. Cardinality(EntriesTo(s, index)) = Cardinality(KeysTo(down, to, index))
    BY DEF Matched, s
  <2>2. Cardinality(EntriesTo(RemoveAt(s, j), index))
          = Cardinality(EntriesTo(s, index)) - (IF s[j].curr = index THEN 1 ELSE 0)
    BY <1>1, <1>5, RemoveAtCount
  <2>3. IsFiniteSet(KeysTo(down, to, index)) /\ Cardinality(KeysTo(down, to, index)) \in Nat
    BY KeysFinite
  <2>4. CASE to[k] = index
    <3>1. /\ KeysTo(down \ {k}, to, index) = KeysTo(down, to, index) \ {k}
          /\ k \in KeysTo(down, to, index)
      BY <2>4 DEF KeysTo
    <3>2. Cardinality(KeysTo(down, to, index) \ {k}) = Cardinality(KeysTo(down, to, index)) - 1
      BY <2>3, <3>1, FS_RemoveElement
    <3>3. QED
      BY <1>5, <2>1, <2>2, <2>4, <3>1, <3>2
  <2>5. CASE to[k] # index
    <3>1. KeysTo(down \ {k}, to, index) = KeysTo(down, to, index)
      BY <2>5 DEF KeysTo
    <3>2. QED
      BY <1>5, <2>1, <2>2, <2>3, <2>5, <3>1
  <2>6. QED
    BY <2>4, <2>5
<1>7. QED
  BY <1>4, <1>6 DEF Matched

(* A release closes one shift, whichever it is. *)
LEMMA ReleaseCloses ==
  ASSUME NEW L, NEW lay \in LayoutState(L), NEW down, IsFiniteSet(down), NEW to,
         NEW k \in down, to[k] \in Nat,
         Matched(lay.shift_from, down, to), HasLayer(lay, to[k])
  PROVE  Len(UnshiftFrom(lay, to[k]).shift_from) = Len(lay.shift_from) - 1
<1>1. lay.shift_from \in Seq(ShiftRecord)
  BY DEF LayoutState
<1>2. ShiftsTo(lay, to[k]) = EntriesTo(lay.shift_from, to[k])
  BY DEF ShiftsTo, EntriesTo
<1>3. EntriesTo(lay.shift_from, to[k]) # {}
  BY HeldIsOpen
<1>4. PICK j \in EntriesTo(lay.shift_from, to[k]) :
        UnshiftFrom(lay, to[k]).shift_from = RemoveAt(lay.shift_from, j)
  BY <1>2, <1>3, UnshiftEffect
<1>5. j \in 1 .. Len(lay.shift_from)
  BY <1>1 DEF EntriesTo
<1>6. QED
  BY <1>1, <1>4, <1>5, RemoveAtProperties
=============================================================================
