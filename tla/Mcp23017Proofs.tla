---------------------------- MODULE Mcp23017Proofs ----------------------------
(* Theorems about module Mcp23017, for any chips, any lists of bindings    *)
(* and any functions.                                                      *)
EXTENDS Mcp23017, FiniteSetTheorems, TLAPS

-----------------------------------------------------------------------------
(* Bindings. *)

LEMMA BindingType ==
  ASSUME config \in Configs
  PROVE  /\ Len(config) \in Nat
         /\ DOMAIN config = 1 .. Len(config)
         /\ \A n \in DOMAIN config : config[n] \in Matrix \cup Input \cup Output
<1> DEFINE Bindings == Matrix \cup Input \cup Output
<1>1. config \in Seq(Bindings)
  BY ConfigsAssumption
<1> HIDE DEF Bindings
<1>2. /\ Len(config) \in Nat /\ DOMAIN config = 1 .. Len(config)
      /\ \A n \in DOMAIN config : config[n] \in Bindings
  BY <1>1
<1>3. QED
  BY <1>2 DEF Bindings

LEMMA KindCases ==
  ASSUME config \in Configs, NEW n \in DOMAIN config
  PROVE  /\ config[n].kind \in {"Matrix", "Input", "Output"}
         /\ config[n].kind = "Input" => config[n].on_state \in BOOLEAN
BY BindingType DEF Matrix, Input, Output

LEMMA MatrixType ==
  ASSUME config \in Configs, NEW n \in OfKind("Matrix")
  PROVE  /\ Columns(config[n]) \in Seq(Nat) /\ Rows(config[n]) \in Seq(Nat)
         /\ Len(Columns(config[n])) \in Nat \ {0} /\ Len(Rows(config[n])) \in Nat \ {0}
         /\ config[n].x \in Seq(Nat) /\ config[n].y \in Seq(Nat)
         /\ \/ Columns(config[n]) = config[n].x /\ Rows(config[n]) = config[n].y
            \/ Columns(config[n]) = config[n].y /\ Rows(config[n]) = config[n].x
<1>1. n \in DOMAIN config /\ config[n].kind = "Matrix"
  BY DEF OfKind
<1>2. config[n] \in Matrix
  BY <1>1, BindingType DEF Matrix, Input, Output
<1>3. config[n].x \in Seq(Nat) /\ config[n].y \in Seq(Nat)
  BY <1>2 DEF Matrix
<1>4. config[n].x # <<>> /\ config[n].y # <<>>
  BY <1>1, ConfigsAssumption
<1>5. Len(config[n].x) \in Nat \ {0} /\ Len(config[n].y) \in Nat \ {0}
  BY <1>3, <1>4
<1>6. QED
  BY <1>3, <1>5 DEF Columns, Rows

LEMMA PlaceInRow ==
  ASSUME NEW w \in Nat \ {0}, NEW h \in Nat, NEW k \in 1 .. w * h
  PROVE  /\ ((k - 1) % w) + 1 \in 1 .. w
         /\ ((k - 1) \div w) + 1 \in 1 .. h
OBVIOUS

LEMMA RowAndColumn ==
  ASSUME NEW w \in Nat \ {0}, NEW r \in Nat, NEW c \in 0 .. w - 1
  PROVE  /\ (r * w + c) % w = c
         /\ (r * w + c) \div w = r
OBVIOUS

LEMMA PlaceOf ==
  ASSUME NEW w \in Nat \ {0}, NEW h \in Nat, NEW r \in 0 .. h - 1, NEW c \in 0 .. w - 1
  PROVE  r * w + c + 1 \in 1 .. w * h
<1>1. (h - 1 - r) * w \in Nat
  OBVIOUS
<1>2. w * h = r * w + (h - 1 - r) * w + w
  OBVIOUS
<1>3. r * w \in Nat
  OBVIOUS
<1>4. QED
  BY <1>1, <1>2, <1>3

(* What the states of a binding stand for. *)
LEMMA MatrixPoints ==
  ASSUME config \in Configs, NEW n \in OfKind("Matrix")
  PROVE  \A w, h : w = Len(Columns(config[n])) /\ h = Len(Rows(config[n])) =>
           /\ w * h \in Nat
           /\ Len(Points(config[n])) = w * h
           /\ DOMAIN Points(config[n]) = 1 .. w * h
           /\ \A k \in 1 .. w * h :
                Points(config[n])[k] =
                  <<Columns(config[n])[((k - 1) % w) + 1], Rows(config[n])[((k - 1) \div w) + 1]>>
<1> TAKE w, h
<1> HAVE w = Len(Columns(config[n])) /\ h = Len(Rows(config[n]))
<1> DEFINE At(k) == <<Columns(config[n])[((k - 1) % w) + 1], Rows(config[n])[((k - 1) \div w) + 1]>>
<1>1. w \in Nat \ {0} /\ h \in Nat \ {0}
  BY MatrixType
<1>2. w * h \in Nat
  BY <1>1
<1>3. Points(config[n]) = [k \in 1 .. w * h |-> At(k)]
  BY DEF Points, OfKind
<1> HIDE DEF At
<1>4. Len([k \in 1 .. w * h |-> At(k)]) = w * h
  BY <1>2
<1>5. DOMAIN [k \in 1 .. w * h |-> At(k)] = 1 .. w * h
  OBVIOUS
<1>6. \A k \in 1 .. w * h : [j \in 1 .. w * h |-> At(j)][k] = At(k)
  OBVIOUS
<1>7. QED
  BY <1>2, <1>3, <1>4, <1>5, <1>6 DEF At

LEMMA MatrixLength ==
  ASSUME config \in Configs, NEW n \in OfKind("Matrix")
  PROVE  Len(Points(config[n])) = Len(Columns(config[n])) * Len(Rows(config[n]))
BY MatrixPoints, Zenon

LEMMA SinglePoints ==
  ASSUME config \in Configs, NEW n \in DOMAIN config, config[n].kind # "Matrix"
  PROVE  /\ Points(config[n]) = <<<<config[n].pin>>>>
         /\ Len(Points(config[n])) = 1
         /\ DOMAIN Points(config[n]) = {1}
         /\ Points(config[n])[1] = <<config[n].pin>>
BY DEF Points

LEMMA PointsLength ==
  ASSUME config \in Configs, NEW n \in DOMAIN config
  PROVE  /\ Len(Points(config[n])) \in Nat \ {0}
         /\ DOMAIN Points(config[n]) = 1 .. Len(Points(config[n]))
<1>1. CASE config[n].kind = "Matrix"
  <2>1. n \in OfKind("Matrix")
    BY <1>1 DEF OfKind
  <2> DEFINE w == Len(Columns(config[n]))
             h == Len(Rows(config[n]))
  <2>2. w \in Nat \ {0} /\ h \in Nat \ {0}
    BY <2>1, MatrixType
  <2>4. Len(Points(config[n])) = w * h /\ DOMAIN Points(config[n]) = 1 .. w * h
    BY <2>1, MatrixPoints, Zenon
  <2> HIDE DEF w, h
  <2>3. w * h \in Nat \ {0}
    BY <2>2
  <2>5. QED
    BY <2>3, <2>4
<1>2. CASE config[n].kind # "Matrix"
  BY <1>2, SinglePoints
<1>3. QED
  BY <1>1, <1>2

(* The states before a binding are as many as its index says. *)
LEMMA BeforeFinite ==
  ASSUME config \in Configs, NEW n \in 1 .. Len(config) + 1
  PROVE  IsFiniteSet(Before(n))
<1> DEFINE S == 1 .. n - 1
           Block(m) == {m} \X DOMAIN Points(config[m])
           T == {Block(m) : m \in S}
           f == [m \in S |-> Block(m)]
<1>1. Len(config) \in Nat /\ DOMAIN config = 1 .. Len(config)
  BY BindingType
<1>2. S \subseteq DOMAIN config
  BY <1>1
<1>3. \A m \in S : IsFiniteSet(Block(m))
  <2> SUFFICES ASSUME NEW m \in S PROVE IsFiniteSet(Block(m))
    OBVIOUS
  <2>1. DOMAIN Points(config[m]) = 1 .. Len(Points(config[m])) /\ Len(Points(config[m])) \in Nat
    BY <1>2, PointsLength
  <2>2. IsFiniteSet(DOMAIN Points(config[m]))
    BY <2>1, FS_Interval
  <2>3. IsFiniteSet({m})
    BY FS_Singleton
  <2>4. QED
    BY <2>2, <2>3, FS_Product
<1>4. IsFiniteSet(S)
  BY <1>1, FS_Interval
<1> HIDE DEF Block
<1>5. f \in Surjection(S, T)
  BY DEF Surjection
<1>6. IsFiniteSet(T)
  BY <1>4, <1>5, FS_Surjection
<1>7. \A b \in T : IsFiniteSet(b)
  BY <1>3
<1>8. IsFiniteSet(UNION T)
  BY <1>6, <1>7, FS_UNION
<1>9. QED
  BY <1>8 DEF Before, Block

LEMMA OffsetType ==
  ASSUME config \in Configs, NEW n \in 1 .. Len(config) + 1
  PROVE  Offset(n) \in Nat
BY BeforeFinite, FS_CardinalityType DEF Offset

LEMMA OffsetFirst ==
  Offset(1) = 0
<1>1. Before(1) = {}
  BY DEF Before
<1>2. QED
  BY <1>1, FS_EmptySet DEF Offset

LEMMA OffsetNext ==
  ASSUME config \in Configs, NEW n \in DOMAIN config
  PROVE  Offset(n + 1) = Offset(n) + Len(Points(config[n]))
<1> DEFINE block == {n} \X DOMAIN Points(config[n])
<1>1. n \in Nat \ {0} /\ n \in 1 .. Len(config) + 1
  BY BindingType
<1>2. Before(n + 1) = Before(n) \cup block
  <2>1. 1 .. (n + 1) - 1 = (1 .. n - 1) \cup {n}
    BY <1>1
  <2>2. QED
    BY <2>1 DEF Before
<1>3. Before(n) \cap block = {}
  BY <1>1 DEF Before
<1>4. IsFiniteSet(Before(n))
  BY <1>1, BeforeFinite
<1>5. IsFiniteSet(block) /\ Cardinality(block) = Len(Points(config[n]))
  <2>1. DOMAIN Points(config[n]) = 1 .. Len(Points(config[n])) /\ Len(Points(config[n])) \in Nat
    BY PointsLength
  <2>2. /\ IsFiniteSet(DOMAIN Points(config[n]))
        /\ Cardinality(DOMAIN Points(config[n])) = Len(Points(config[n]))
    BY <2>1, FS_Interval
  <2>3. IsFiniteSet({n}) /\ Cardinality({n}) = 1
    BY FS_Singleton
  <2>4. /\ IsFiniteSet(block)
        /\ Cardinality(block) = Cardinality({n}) * Cardinality(DOMAIN Points(config[n]))
    BY <2>2, <2>3, FS_Product
  <2>5. QED
    BY <2>1, <2>2, <2>3, <2>4
<1> HIDE DEF block
<1>6. Cardinality(Before(n) \cup block) = Cardinality(Before(n)) + Cardinality(block) - Cardinality(Before(n) \cap block)
  BY <1>4, <1>5, FS_Union
<1>7. Cardinality(Before(n)) \in Nat /\ Cardinality(block) \in Nat
  BY <1>4, <1>5, FS_CardinalityType
<1>8. Cardinality(Before(n) \cap block) = 0
  BY <1>3, FS_EmptySet
<1>9. Cardinality(Before(n) \cup block) = Cardinality(Before(n)) + Len(Points(config[n]))
  BY <1>5, <1>6, <1>7, <1>8
<1>10. QED
  BY <1>2, <1>9, Zenon DEF Offset

LEMMA OffsetsGrow ==
  ASSUME config \in Configs, NEW n \in 1 .. Len(config) + 1, NEW m \in 1 .. n
  PROVE  Offset(m) <= Offset(n)
<1>1. Before(m) \subseteq Before(n)
  <2>1. 1 .. m - 1 \subseteq 1 .. n - 1
    BY BindingType
  <2>2. QED
    BY <2>1 DEF Before
<1>2. IsFiniteSet(Before(n))
  BY BeforeFinite
<1>3. QED
  BY <1>1, <1>2, FS_Subset DEF Offset

(* The spans of bindings follow one on another. *)
LEMMA SpansApart ==
  ASSUME config \in Configs, NEW m \in DOMAIN config, NEW n \in DOMAIN config, m < n
  PROVE  Offset(m) + Len(Points(config[m])) <= Offset(n)
<1>1. m + 1 \in 1 .. n /\ n \in 1 .. Len(config) + 1
  BY BindingType
<1>2. Offset(m + 1) = Offset(m) + Len(Points(config[m]))
  BY OffsetNext
<1>3. Offset(m + 1) <= Offset(n)
  BY <1>1, OffsetsGrow
<1>4. QED
  BY <1>2, <1>3

LEMMA OffsetsDiffer ==
  ASSUME config \in Configs, NEW m \in DOMAIN config, NEW n \in DOMAIN config, Offset(m) = Offset(n)
  PROVE  m = n
<1>1. /\ m \in Nat /\ n \in Nat /\ m \in 1 .. Len(config) + 1 /\ n \in 1 .. Len(config) + 1
  BY BindingType
<1>2. Offset(m) \in Nat /\ Offset(n) \in Nat
  BY <1>1, OffsetType
<1>3. Len(Points(config[m])) \in Nat \ {0} /\ Len(Points(config[n])) \in Nat \ {0}
  BY PointsLength
<1>4. CASE m < n
  BY <1>2, <1>3, <1>4, SpansApart
<1>5. CASE n < m
  BY <1>2, <1>3, <1>5, SpansApart
<1>6. QED
  BY <1>1, <1>4, <1>5

-----------------------------------------------------------------------------
(* The inductive invariant. *)

Scanned == phase \in {"tick", "poll"}

(* The bindings that are set up. *)
Done == {n \in DOMAIN config : Scanned \/ n < at}

(* All pins are pins of a chip, those of a binding are its own, and those  *)
(* in output mode are the ones that are written.                           *)
PinsInv ==
  /\ Scanned \/ at > 0 => \A n \in DOMAIN config : ToSet(PinsOf(config[n])) \subseteq Pin
  /\ phase = "load" => high = {} /\ polled = {}
  /\ \A n \in Done : ~Reuses(n) /\ outputs \cap ToSet(PinsOf(config[n])) = OutputPins(config[n])

SpanOf(n) == [start |-> Offset(n), end |-> Offset(n + 1)]

(* The place of a scan, and what it has read so far.                       *)
PlaceInv ==
  /\ scan.n \in 1 .. Len(config) + 1
  /\ scan.map = [m \in 1 .. scan.n - 1 |-> SpanOf(m)]
  /\ Len(scan.reading) = Offset(scan.n)
  /\ missed \subseteq 1 .. scan.n - 1
  /\ scan.n \in OfKind("Matrix") =>
       /\ scan.row \in DOMAIN Rows(Binding)
       /\ scan.column \in 0 .. Len(Columns(Binding)) + 1
       /\ Len(scan.part) =
            (scan.row - 1) * Len(Columns(Binding)) + (IF scan.column = 0 THEN 0 ELSE scan.column - 1)

ScanInv ==
  /\ Scanned => PlaceInv
  /\ phase = "poll" => scan.n = Len(config) + 1 /\ pin_map = scan.map /\ state = scan.reading

(* The rows that are high: of a matrix that has been read, none; of the    *)
(* one that is being read, none that it has left; and none besides the one *)
(* that is looked at, if the scan began so.                                *)
RowHigh(n) == IF n = scan.n /\ scan.column > 0 THEN {Rows(config[n])[scan.row]} ELSE {}

RowsInv ==
  Scanned =>
    \A n \in OfKind("Matrix") :
      /\ n < scan.n /\ n \notin missed => ToSet(Rows(config[n])) \cap high = {}
      /\ n = scan.n => \A r \in 1 .. scan.row - 1 : Rows(config[n])[r] \notin high
      /\ low /\ n >= scan.n => ToSet(Rows(config[n])) \cap high = RowHigh(n)

(* Everything read so far was so. *)
WasSo(n, k, value) ==
  LET was == IF config[n].kind = "Input" THEN value = config[n].on_state ELSE value
  IN  <<Points(config[n])[k], was>> \in seen

TruthInv ==
  /\ phase = "tick" => \A q \in Contacts : <<q, q \in closed>> \in seen
  /\ Scanned /\ low =>
       /\ \A n \in OfKind("Matrix") \cup OfKind("Input") :
            n < scan.n /\ n \notin missed =>
              \A k \in DOMAIN Points(config[n]) : WasSo(n, k, scan.reading[Offset(n) + k])
       /\ scan.n \in OfKind("Matrix") =>
            \A k \in DOMAIN scan.part : WasSo(scan.n, k, scan.part[k])

(* An output is what it was set to. *)
OutputInv ==
  \A n \in OfKind("Output") :
    /\ config[n].pin \notin unsure => ((config[n].pin \in high) <=> want[Offset(n)])
    /\ out[n] = want[Offset(n)]
    /\ Scanned /\ n < scan.n /\ ~(phase = "poll" /\ Offset(n) \in Touched) =>
         (scan.reading[Offset(n) + 1] <=> want[Offset(n)])

Inv == TypeOK /\ PinsInv /\ ScanInv /\ RowsInv /\ TruthInv /\ OutputInv

-----------------------------------------------------------------------------
(* Pins. *)

LEMMA ConcatSets ==
  ASSUME NEW x \in Seq(Nat), NEW y \in Seq(Nat)
  PROVE  /\ ToSet(x \o y) = ToSet(x) \cup ToSet(y)
         /\ IsInjective(x \o y) =>
              IsInjective(x) /\ IsInjective(y) /\ ToSet(x) \cap ToSet(y) = {}
<1>1. /\ x \o y \in Seq(Nat) /\ Len(x \o y) = Len(x) + Len(y)
      /\ Len(x) \in Nat /\ Len(y) \in Nat
      /\ DOMAIN x = 1 .. Len(x) /\ DOMAIN y = 1 .. Len(y) /\ DOMAIN (x \o y) = 1 .. Len(x) + Len(y)
  OBVIOUS
<1>2. \A i \in DOMAIN x : i \in DOMAIN (x \o y) /\ (x \o y)[i] = x[i]
  OBVIOUS
<1>3. \A i \in DOMAIN y : Len(x) + i \in DOMAIN (x \o y) /\ (x \o y)[Len(x) + i] = y[i]
  OBVIOUS
<1>4. \A i \in DOMAIN (x \o y) : i \in DOMAIN x \/ (i - Len(x) \in DOMAIN y /\ i = Len(x) + (i - Len(x)))
  BY <1>1
<1>5. ToSet(x \o y) = ToSet(x) \cup ToSet(y)
  <2>1. ASSUME NEW i \in DOMAIN (x \o y)
        PROVE  (x \o y)[i] \in ToSet(x) \cup ToSet(y)
    <3>1. CASE i \in DOMAIN x
      BY <1>2, <3>1 DEF ToSet
    <3>2. CASE i - Len(x) \in DOMAIN y /\ i = Len(x) + (i - Len(x))
      <4>1. (x \o y)[i] = y[i - Len(x)]
        BY <1>3, <3>2
      <4>2. QED
        BY <3>2, <4>1 DEF ToSet
    <3>3. QED
      BY <1>4, <3>1, <3>2
  <2>2. ToSet(x \o y) \subseteq ToSet(x) \cup ToSet(y)
    BY <2>1 DEF ToSet
  <2>3. ToSet(x) \subseteq ToSet(x \o y)
    BY <1>2 DEF ToSet
  <2>4. ToSet(y) \subseteq ToSet(x \o y)
    BY <1>3 DEF ToSet
  <2>5. QED
    BY <2>2, <2>3, <2>4
<1>6. ASSUME IsInjective(x \o y)
      PROVE  IsInjective(x) /\ IsInjective(y) /\ ToSet(x) \cap ToSet(y) = {}
  <2>1. IsInjective(x)
    BY <1>2, <1>6 DEF IsInjective
  <2>2. IsInjective(y)
    <3> SUFFICES ASSUME NEW i \in DOMAIN y, NEW j \in DOMAIN y, y[i] = y[j] PROVE i = j
      BY DEF IsInjective
    <3>1. Len(x) + i = Len(x) + j
      BY <1>3, <1>6 DEF IsInjective
    <3>2. QED
      BY <1>1, <3>1
  <2>3. ASSUME NEW i \in DOMAIN x, NEW j \in DOMAIN y, x[i] = y[j]
        PROVE  FALSE
    <3>1. i = Len(x) + j
      BY <1>2, <1>3, <1>6, <2>3 DEF IsInjective
    <3>2. QED
      BY <1>1, <3>1
  <2>4. QED
    BY <2>1, <2>2, <2>3 DEF ToSet
<1>7. QED
  BY <1>5, <1>6

LEMMA MatrixPins ==
  ASSUME config \in Configs, NEW n \in OfKind("Matrix")
  PROVE  /\ ToSet(PinsOf(config[n])) = ToSet(Columns(config[n])) \cup ToSet(Rows(config[n]))
         /\ OutputPins(config[n]) = ToSet(Rows(config[n]))
         /\ ~Reuses(n) => /\ ToSet(Columns(config[n])) \cap ToSet(Rows(config[n])) = {}
                          /\ IsInjective(Rows(config[n]))
<1> DEFINE x == config[n].x
           y == config[n].y
<1>1. config[n].kind = "Matrix"
  BY DEF OfKind
<1>2. PinsOf(config[n]) = x \o y
  BY <1>1 DEF PinsOf
<1>3. x \in Seq(Nat) /\ y \in Seq(Nat)
  BY MatrixType
<1>4. /\ ToSet(x \o y) = ToSet(x) \cup ToSet(y)
      /\ IsInjective(x \o y) => IsInjective(x) /\ IsInjective(y) /\ ToSet(x) \cap ToSet(y) = {}
  BY <1>3, ConcatSets
<1>5. \/ Columns(config[n]) = x /\ Rows(config[n]) = y
      \/ Columns(config[n]) = y /\ Rows(config[n]) = x
  BY MatrixType
<1>6. ~Reuses(n) => IsInjective(PinsOf(config[n]))
  BY DEF Reuses
<1> HIDE DEF x, y
<1>7. OutputPins(config[n]) = ToSet(Rows(config[n]))
  BY <1>1 DEF OutputPins
<1>8. QED
  BY <1>2, <1>4, <1>5, <1>6, <1>7

LEMMA SinglePin ==
  ASSUME config \in Configs, NEW n \in DOMAIN config, config[n].kind # "Matrix"
  PROVE  /\ ToSet(PinsOf(config[n])) = {config[n].pin}
         /\ OutputPins(config[n]) = IF config[n].kind = "Output" THEN {config[n].pin} ELSE {}
<1>1. PinsOf(config[n]) = <<config[n].pin>>
  BY DEF PinsOf
<1>2. \A p : ToSet(<<p>>) = {p}
  BY DEF ToSet
<1>3. OutputPins(config[n]) = IF config[n].kind = "Output" THEN {config[n].pin} ELSE {}
  BY DEF OutputPins
<1>4. QED
  BY <1>1, <1>2, <1>3

LEMMA OutputPinsAre ==
  ASSUME config \in Configs, NEW n \in DOMAIN config
  PROVE  OutputPins(config[n]) \subseteq ToSet(PinsOf(config[n]))
<1>1. CASE config[n].kind = "Matrix"
  <2>1. n \in OfKind("Matrix")
    BY <1>1 DEF OfKind
  <2>2. QED
    BY <2>1, MatrixPins
<1>2. CASE config[n].kind # "Matrix"
  BY <1>2, SinglePin
<1>3. QED
  BY <1>1, <1>2

LEMMA PinsApart ==
  ASSUME config \in Configs, NEW m \in Done, NEW n \in Done, m # n, PinsInv
  PROVE  ToSet(PinsOf(config[m])) \cap ToSet(PinsOf(config[n])) = {}
<1>1. m \in DOMAIN config /\ n \in DOMAIN config /\ m \in Nat \ {0} /\ n \in Nat \ {0}
  BY BindingType DEF Done
<1>2. ~Reuses(m) /\ ~Reuses(n)
  BY DEF PinsInv
<1>3. ASSUME NEW i \in DOMAIN config, NEW j \in DOMAIN config, i \in 1 .. j - 1, ~Reuses(j)
      PROVE  ToSet(PinsOf(config[i])) \cap ToSet(PinsOf(config[j])) = {}
  BY <1>3 DEF Reuses
<1>4. CASE m < n
  <2>1. m \in 1 .. n - 1
    BY <1>1, <1>4
  <2>2. QED
    BY <1>1, <1>2, <1>3, <2>1
<1>5. CASE n < m
  <2>1. n \in 1 .. m - 1
    BY <1>1, <1>5
  <2>2. QED
    BY <1>1, <1>2, <1>3, <2>1
<1>6. QED
  BY <1>1, <1>4, <1>5

(* The rows of a matrix are outputs, of that matrix alone. *)
LEMMA RowPins ==
  ASSUME config \in Configs, PinsInv, Scanned, NEW n \in OfKind("Matrix")
  PROVE  /\ ToSet(Rows(config[n])) \subseteq outputs
         /\ ToSet(Columns(config[n])) \cap ToSet(Rows(config[n])) = {}
         /\ IsInjective(Rows(config[n]))
         /\ \A m \in OfKind("Matrix") : m # n =>
              /\ ToSet(Rows(config[n])) \cap ToSet(Rows(config[m])) = {}
              /\ ToSet(Columns(config[n])) \cap ToSet(Columns(config[m])) = {}
         /\ \A m \in OfKind("Output") : config[m].pin \notin ToSet(Rows(config[n]))
<1>1. n \in Done
  BY DEF Done, OfKind
<1>2. ~Reuses(n) /\ outputs \cap ToSet(PinsOf(config[n])) = OutputPins(config[n])
  BY <1>1 DEF PinsInv
<1>3. /\ ToSet(PinsOf(config[n])) = ToSet(Columns(config[n])) \cup ToSet(Rows(config[n]))
      /\ OutputPins(config[n]) = ToSet(Rows(config[n]))
      /\ ToSet(Columns(config[n])) \cap ToSet(Rows(config[n])) = {}
      /\ IsInjective(Rows(config[n]))
  BY <1>2, MatrixPins
<1>4. ASSUME NEW m \in OfKind("Matrix"), m # n
      PROVE  /\ ToSet(Rows(config[n])) \cap ToSet(Rows(config[m])) = {}
             /\ ToSet(Columns(config[n])) \cap ToSet(Columns(config[m])) = {}
  <2>1. m \in Done
    BY DEF Done, OfKind
  <2>2. ToSet(PinsOf(config[m])) \cap ToSet(PinsOf(config[n])) = {}
    BY <1>1, <1>4, <2>1, PinsApart
  <2>3. ToSet(PinsOf(config[m])) = ToSet(Columns(config[m])) \cup ToSet(Rows(config[m]))
    BY MatrixPins
  <2>4. QED
    BY <1>3, <2>2, <2>3
<1>5. ASSUME NEW m \in OfKind("Output")
      PROVE  config[m].pin \notin ToSet(Rows(config[n]))
  <2>1. m \in Done /\ m # n /\ m \in DOMAIN config /\ config[m].kind # "Matrix"
    BY DEF Done, OfKind
  <2>2. ToSet(PinsOf(config[m])) \cap ToSet(PinsOf(config[n])) = {}
    BY <1>1, <2>1, PinsApart
  <2>3. ToSet(PinsOf(config[m])) = {config[m].pin}
    BY <2>1, SinglePin
  <2>4. QED
    BY <1>3, <2>2, <2>3
<1>6. QED
  BY <1>2, <1>3, <1>4, <1>5

(* So are the outputs. *)
LEMMA OutputPin ==
  ASSUME config \in Configs, PinsInv, Scanned, NEW n \in OfKind("Output")
  PROVE  /\ config[n].pin \in outputs
         /\ \A m \in OfKind("Output") : m # n => config[m].pin # config[n].pin
<1>1. n \in Done /\ n \in DOMAIN config /\ config[n].kind = "Output"
  BY DEF Done, OfKind
<1>2. outputs \cap ToSet(PinsOf(config[n])) = OutputPins(config[n])
  BY <1>1 DEF PinsInv
<1>3. ToSet(PinsOf(config[n])) = {config[n].pin} /\ OutputPins(config[n]) = {config[n].pin}
  BY <1>1, SinglePin
<1>4. ASSUME NEW m \in OfKind("Output"), m # n
      PROVE  config[m].pin # config[n].pin
  <2>1. m \in Done /\ m \in DOMAIN config /\ config[m].kind # "Matrix"
    BY DEF Done, OfKind
  <2>2. ToSet(PinsOf(config[m])) \cap ToSet(PinsOf(config[n])) = {}
    BY <1>1, <1>4, <2>1, PinsApart
  <2>3. ToSet(PinsOf(config[m])) = {config[m].pin}
    BY <2>1, SinglePin
  <2>4. QED
    BY <1>3, <2>2, <2>3
<1>5. QED
  BY <1>2, <1>3, <1>4

-----------------------------------------------------------------------------
(* Init, and what is set up. *)

LEMMA InitInv == Init => Inv
<1> SUFFICES ASSUME Init PROVE Inv
  OBVIOUS
<1>1. /\ config \in Configs /\ phase = "load" /\ at = 0 /\ outputs = {} /\ high = {}
      /\ out = [n \in OfKind("Output") |-> FALSE]
      /\ want = [idx \in {Offset(n) : n \in OfKind("Output")} |-> FALSE]
      /\ scan = NewScan /\ pin_map = <<>> /\ state = <<>> /\ polled = {}
      /\ down = {} /\ closed = {} /\ seen = {} /\ low = TRUE /\ missed = {} /\ unsure = {}
  BY DEF Init
<1>2. Len(config) \in Nat /\ DOMAIN config = 1 .. Len(config)
  BY <1>1, BindingType
<1>3. NewScan \in Scan
  BY DEF NewScan, Scan
<1>4. TypeOK
  BY <1>1, <1>2, <1>3 DEF TypeOK
<1>5. Done = {}
  BY <1>1, <1>2 DEF Done, Scanned
<1>6. PinsInv
  BY <1>1, <1>5 DEF PinsInv, Scanned
<1>7. ScanInv /\ RowsInv /\ TruthInv
  BY <1>1 DEF ScanInv, RowsInv, TruthInv, Scanned
<1>8. OutputInv
  BY <1>1 DEF OutputInv, Scanned
<1>9. QED
  BY <1>4, <1>6, <1>7, <1>8 DEF Inv

(* The bindings never change, and what is read off them with them. *)
LEMMA ConfigStays ==
  ASSUME config' = config
  PROVE  /\ \A n : Offset(n)' = Offset(n)
         /\ \A kind : OfKind(kind)' = OfKind(kind)
         /\ {Offset(n) : n \in OfKind("Output")}' = {Offset(n) : n \in OfKind("Output")}
         /\ Contacts' = Contacts
         /\ \A n : Reuses(n)' = Reuses(n)
<1>1. \A n : Offset(n)' = Offset(n)
  BY DEF Offset, Before
<1>2. \A kind : OfKind(kind)' = OfKind(kind)
  BY DEF OfKind
<1>3. {Offset(n) : n \in OfKind("Output")}' = {Offset(n) : n \in OfKind("Output")}
  BY <1>1, <1>2
<1>4. Contacts' = Contacts /\ \A n : Reuses(n)' = Reuses(n)
  BY <1>2 DEF Contacts, Reuses
<1>5. QED
  BY <1>1, <1>2, <1>3, <1>4

LEMMA SeenType ==
  ASSUME NEW q \in Contacts, NEW x
  PROVE  <<q, q \in x>> \in Contacts \X BOOLEAN /\ <<q, q \notin x>> \in Contacts \X BOOLEAN
<1>1. (q \in x) \in BOOLEAN /\ (q \notin x) \in BOOLEAN
  OBVIOUS
<1>2. QED
  BY <1>1, Zenon

(* A part of the invariant stays as long as what it speaks of does. *)
LEMMA PinsStay ==
  ASSUME PinsInv, Scanned, Scanned', config' = config, outputs' = outputs
  PROVE  PinsInv'
<1>1. Done' = DOMAIN config /\ Done = DOMAIN config
  BY DEF Done
<1>2. \A n : Reuses(n)' = Reuses(n)
  BY DEF Reuses
<1>3. phase' # "load"
  BY DEF Scanned
<1>4. QED
  BY <1>1, <1>2, <1>3 DEF PinsInv

LEMMA ScanStays ==
  ASSUME ScanInv, UNCHANGED <<config, phase, scan, pin_map, state, missed>>
  PROVE  ScanInv'
<1>1. \A n : Offset(n)' = Offset(n) /\ SpanOf(n)' = SpanOf(n)
  BY DEF Offset, Before, SpanOf
<1>2. \A kind : OfKind(kind)' = OfKind(kind)
  BY DEF OfKind
<1>3. Binding' = Binding
  BY DEF Binding
<1>4. Offset(scan.n)' = Offset(scan.n)
  BY DEF Offset, Before
<1>5. PlaceInv => PlaceInv'
  BY <1>1, <1>2, <1>3, <1>4 DEF PlaceInv
<1>6. QED
  BY <1>5 DEF ScanInv, Scanned

LEMMA RowsStay ==
  ASSUME RowsInv, UNCHANGED <<config, phase, scan, high, low, missed>>
  PROVE  RowsInv'
BY DEF RowsInv, RowHigh, Scanned, OfKind

LEMMA TruthStays ==
  ASSUME TruthInv, UNCHANGED <<config, phase, scan, low, missed, seen, closed>>
  PROVE  TruthInv'
<1>1. \A n : Offset(n)' = Offset(n)
  BY DEF Offset, Before
<1>2. QED
  BY <1>1 DEF TruthInv, WasSo, Scanned, OfKind, Contacts

LEMMA OutputStays ==
  ASSUME OutputInv, UNCHANGED <<config, phase, scan, out, high, want, unsure, down, polled>>
  PROVE  OutputInv'
<1>1. \A n : Offset(n)' = Offset(n)
  BY DEF Offset, Before
<1>2. QED
  BY <1>1 DEF OutputInv, Scanned, OfKind, Touched

LEMMA StutterInv ==
  ASSUME Inv, UNCHANGED vars
  PROVE  Inv'
<1>1. UNCHANGED <<config, phase, at, outputs, high, out, scan, pin_map, state, down, polled, closed,
                  seen, low, missed, want, unsure>>
  BY DEF vars, chipVars, driverVars, historyVars
<1>2. TypeOK'
  BY <1>1, ConfigStays DEF Inv, TypeOK
<1>3. PinsInv'
  BY <1>1 DEF Inv, PinsInv, Scanned, Done, Reuses
<1>4. QED
  BY <1>1, <1>2, <1>3, ScanStays, RowsStay, TruthStays, OutputStays DEF Inv

LEMMA ToggleInv ==
  ASSUME Inv, NEW q \in Contacts, Toggle(q)
  PROVE  Inv'
<1>1. /\ UNCHANGED <<config, phase, at, outputs, high, out, scan, pin_map, state, down, polled,
                     low, missed, want, unsure>>
      /\ closed' = SymDiff(closed, {q})
      /\ seen' = IF phase = "tick" THEN seen \cup {<<q, q \notin closed>>} ELSE seen
  BY DEF Toggle, chipVars, driverVars
<1>2. Contacts' = Contacts /\ closed \subseteq Contacts /\ seen \subseteq Contacts \X BOOLEAN
  BY <1>1 DEF Contacts, OfKind, Inv, TypeOK
<1>3. closed' \subseteq Contacts
  BY <1>1, <1>2 DEF SymDiff
<1>4. seen' \subseteq Contacts \X BOOLEAN /\ seen \subseteq seen'
  BY <1>1, <1>2, SeenType
<1>5. TypeOK'
  BY <1>1, <1>2, <1>3, <1>4, ConfigStays DEF Inv, TypeOK
<1>6. PinsInv'
  BY <1>1 DEF Inv, PinsInv, Scanned, Done, Reuses
<1>7. phase = "tick" => \A r \in Contacts : <<r, r \in closed'>> \in seen'
  <2> SUFFICES ASSUME phase = "tick", NEW r \in Contacts PROVE <<r, r \in closed'>> \in seen'
    OBVIOUS
  <2>1. CASE r = q
    <3>1. (q \in closed') = (q \notin closed)
      BY <1>1 DEF SymDiff
    <3>2. QED
      BY <1>1, <2>1, <3>1
  <2>2. CASE r # q
    <3>1. (r \in closed') = (r \in closed)
      BY <1>1, <2>2 DEF SymDiff
    <3>2. <<r, r \in closed>> \in seen
      BY DEF Inv, TruthInv
    <3>3. QED
      BY <1>4, <3>1, <3>2
  <2>3. QED
    BY <2>1, <2>2
<1>8. TruthInv'
  <2>1. \A n : Offset(n)' = Offset(n)
    BY <1>1 DEF Offset, Before
  <2>2. \A n, k, value : WasSo(n, k, value) => WasSo(n, k, value)'
    BY <1>1, <1>4 DEF WasSo
  <2>3. QED
    BY <1>1, <1>2, <1>7, <2>1, <2>2 DEF Inv, TruthInv, Scanned, OfKind
<1>9. QED
  BY <1>1, <1>5, <1>6, <1>8, ScanStays, RowsStay, OutputStays DEF Inv

LEMMA BuildBindingsInv ==
  ASSUME Inv, BuildBindings
  PROVE  Inv'
<1>1. /\ UNCHANGED <<config, outputs, high, out, scan, pin_map, state, down, polled, closed,
                     seen, low, missed, want, unsure>>
      /\ phase = "load" /\ at = 0
      /\ \/ /\ \A n \in DOMAIN config : ToSet(PinsOf(config[n])) \subseteq Pin
            /\ at' = 1 /\ phase' = "load"
         \/ at' = 0 /\ phase' = "failed"
  BY DEF BuildBindings, Fails, chipVars, driverVars, historyVars
<1>2. Len(config) \in Nat /\ DOMAIN config = 1 .. Len(config)
  BY BindingType DEF Inv, TypeOK
<1>3. TypeOK'
  BY <1>1, <1>2, ConfigStays DEF Inv, TypeOK
<1>4. Done' = {}
  BY <1>1, <1>2 DEF Done, Scanned
<1>5. PinsInv'
  BY <1>1, <1>4 DEF Inv, PinsInv, Scanned
<1>6. ScanInv' /\ RowsInv' /\ TruthInv'
  BY <1>1 DEF ScanInv, RowsInv, TruthInv, Scanned
<1>7. \A n : Offset(n)' = Offset(n)
  BY <1>1 DEF Offset, Before
<1>8. OutputInv'
  BY <1>1, <1>7 DEF Inv, OutputInv, Scanned, OfKind
<1>9. QED
  BY <1>3, <1>5, <1>6, <1>8 DEF Inv

LEMMA SetUpInv ==
  ASSUME Inv, SetUp
  PROVE  Inv'
<1>1. /\ UNCHANGED <<config, out, scan, pin_map, state, down, polled, closed,
                     seen, low, missed, want, unsure>>
      /\ phase = "load" /\ at \in DOMAIN config
  BY DEF SetUp, Fails, chipVars, driverVars, historyVars
<1>2. Len(config) \in Nat /\ DOMAIN config = 1 .. Len(config) /\ config \in Configs
  BY BindingType DEF Inv, TypeOK
<1>3. at \in Nat \ {0}
  BY <1>1, <1>2
<1>4. \A n : Offset(n)' = Offset(n)
  BY <1>1 DEF Offset, Before
<1>5. high = {} /\ polled = {} /\ ToSet(PinsOf(config[at])) \subseteq Pin
  BY <1>1, <1>3 DEF Inv, PinsInv
<1>6. CASE /\ ~Reuses(at) /\ at' = at + 1 /\ phase' = phase
           /\ outputs' = (outputs \ ToSet(PinsOf(config[at]))) \cup OutputPins(config[at])
           /\ high' = high \ OutputPins(config[at])
  <2>1. high' = {} /\ phase' = "load"
    BY <1>1, <1>5, <1>6
  <2>2. OutputPins(config[at]) \subseteq ToSet(PinsOf(config[at]))
    BY <1>1, <1>2, OutputPinsAre
  <2>3. outputs' \subseteq Pin
    BY <1>5, <1>6, <2>2 DEF Inv, TypeOK
  <2>4. at' \in 0 .. Len(config) + 1
    BY <1>1, <1>2, <1>6
  <2>5. TypeOK'
    BY <1>1, <2>1, <2>3, <2>4, ConfigStays DEF Inv, TypeOK
  <2>6. Done' = Done \cup {at}
    BY <1>1, <1>2, <1>6, <2>1 DEF Done, Scanned
  <2>7. ASSUME NEW n \in Done
        PROVE  ToSet(PinsOf(config[n])) \cap ToSet(PinsOf(config[at])) = {}
    <3>1. n \in DOMAIN config /\ n \in 1 .. at - 1
      BY <1>1, <1>2 DEF Done, Scanned
    <3>2. QED
      BY <1>6, <3>1 DEF Reuses
  <2>8. \A n \in Done : outputs' \cap ToSet(PinsOf(config[n])) = OutputPins(config[n])
    BY <1>6, <2>2, <2>7 DEF Inv, PinsInv
  <2>9. outputs' \cap ToSet(PinsOf(config[at])) = OutputPins(config[at])
    BY <1>6, <2>2
  <2>10. \A n : Reuses(n)' = Reuses(n)
    BY <1>1 DEF Reuses
  <2>11. PinsInv'
    BY <1>1, <1>3, <1>5, <1>6, <2>1, <2>6, <2>8, <2>9, <2>10 DEF Inv, PinsInv, Scanned
  <2>12. ScanInv' /\ RowsInv' /\ TruthInv'
    BY <2>1 DEF ScanInv, RowsInv, TruthInv, Scanned
  <2>13. OutputInv'
    BY <1>1, <1>4, <1>5, <2>1 DEF Inv, OutputInv, Scanned, OfKind
  <2>14. QED
    BY <2>5, <2>11, <2>12, <2>13 DEF Inv
<1>7. CASE Fails
  <2>1. phase' = "failed" /\ at' = at /\ outputs' = outputs /\ high' = high
    BY <1>7 DEF Fails, chipVars
  <2>2. TypeOK'
    BY <1>1, <2>1, ConfigStays DEF Inv, TypeOK
  <2>3. PinsInv'
    BY <1>1, <2>1 DEF Inv, PinsInv, Scanned, Done, Reuses
  <2>4. ScanInv' /\ RowsInv' /\ TruthInv'
    BY <2>1 DEF ScanInv, RowsInv, TruthInv, Scanned
  <2>5. OutputInv'
    BY <1>1, <1>4, <2>1 DEF Inv, OutputInv, Scanned, OfKind
  <2>6. QED
    BY <2>2, <2>3, <2>4, <2>5 DEF Inv
<1>8. QED
  BY <1>6, <1>7 DEF SetUp

LEMMA StartTickInv ==
  ASSUME Inv, StartTick
  PROVE  Inv'
<1>1. /\ UNCHANGED <<config, outputs, high, out, pin_map, state, down, closed, want, unsure>>
      /\ \/ phase = "load" /\ at > Len(config) /\ at' = at
         \/ phase = "poll" /\ at' = 0
      /\ phase' = "tick" /\ scan' = NewScan /\ polled' = {}
      /\ seen' = {<<q, q \in closed>> : q \in Contacts}
      /\ low' = (AllRows \cap high = {}) /\ missed' = {}
  BY DEF StartTick, chipVars
<1>2. Len(config) \in Nat /\ DOMAIN config = 1 .. Len(config) /\ config \in Configs
  BY BindingType DEF Inv, TypeOK
<1>3. Contacts' = Contacts /\ \A n : Offset(n)' = Offset(n)
  BY <1>1 DEF Contacts, OfKind, Offset, Before
<1>4. NewScan \in Scan
  BY DEF NewScan, Scan
<1>5. seen' \subseteq Contacts \X BOOLEAN
  <2>1. \A q \in Contacts : <<q, q \in closed>> \in Contacts \X BOOLEAN
    BY SeenType
  <2>2. QED
    BY <1>1, <2>1
<1>6. TypeOK'
  <2>1. at' \in 0 .. Len(config) + 1
    BY <1>1, <1>2 DEF Inv, TypeOK
  <2>2. QED
    BY <1>1, <1>3, <1>4, <1>5, <2>1, ConfigStays DEF Inv, TypeOK
<1>7. Done = DOMAIN config /\ Done' = DOMAIN config
  <2>1. \A n \in DOMAIN config : at > Len(config) => n < at
    BY <1>2 DEF Inv, TypeOK
  <2>2. QED
    BY <1>1, <2>1 DEF Done, Scanned
<1>8. PinsInv'
  <2>1. \A n : Reuses(n)' = Reuses(n)
    BY <1>1 DEF Reuses
  <2>2. Scanned \/ at > 0
    BY <1>1, <1>2 DEF Scanned, Inv, TypeOK
  <2>3. QED
    BY <1>1, <1>7, <2>1, <2>2 DEF Inv, PinsInv
<1>9. /\ scan'.n = 1 /\ scan'.row = 1 /\ scan'.column = 0 /\ scan'.part = <<>>
      /\ scan'.reading = <<>> /\ scan'.map = <<>>
  BY <1>1 DEF NewScan
<1>10. PlaceInv'
  <2>1. (scan.n \in 1 .. Len(config) + 1)'
    BY <1>1, <1>2, <1>9
  <2>2. (scan.map = [m \in 1 .. scan.n - 1 |-> SpanOf(m)])'
    BY <1>9
  <2>3. (Len(scan.reading) = Offset(scan.n))'
    <3>1. Offset(1) = 0
      BY OffsetFirst
    <3>2. Offset(scan.n)' = Offset(1)
      BY <1>1, <1>9 DEF Offset, Before
    <3>3. QED
      BY <1>9, <3>1, <3>2
  <2>4. (missed \subseteq 1 .. scan.n - 1)'
    BY <1>1
  <2>5. ASSUME (scan.n \in OfKind("Matrix"))'
        PROVE  (/\ scan.row \in DOMAIN Rows(Binding)
                /\ scan.column \in 0 .. Len(Columns(Binding)) + 1
                /\ Len(scan.part) =
                    (scan.row - 1) * Len(Columns(Binding))
                      + (IF scan.column = 0 THEN 0 ELSE scan.column - 1))'
    <3>1. 1 \in OfKind("Matrix") /\ Binding' = config[1]
      BY <1>1, <1>9, <2>5 DEF OfKind, Binding
    <3>2. /\ Rows(config[1]) \in Seq(Nat) /\ Len(Rows(config[1])) \in Nat \ {0}
          /\ Len(Columns(config[1])) \in Nat
      BY <1>2, <3>1, MatrixType
    <3>3. 1 \in DOMAIN Rows(config[1])
      BY <3>2
    <3>4. /\ Rows(Binding)' = Rows(config[1]) /\ Columns(Binding)' = Columns(config[1])
      BY <3>1 DEF Rows, Columns
    <3>5. QED
      BY <1>9, <3>2, <3>3, <3>4
  <2>6. QED
    BY <2>1, <2>2, <2>3, <2>4, <2>5 DEF PlaceInv
<1>11. ScanInv'
  BY <1>1, <1>10 DEF ScanInv
<1>12. RowsInv'
  <2> SUFFICES ASSUME NEW n \in OfKind("Matrix")'
               PROVE  /\ ~(n < 1)
                      /\ n = 1 => \A r \in 1 .. 0 : Rows(config[n])[r] \notin high
                      /\ low' => ToSet(Rows(config[n])) \cap high = {}
    BY <1>1, <1>9 DEF RowsInv, RowHigh
  <2>1. n \in OfKind("Matrix") /\ n \in 1 .. Len(config)
    BY <1>1, <1>2 DEF OfKind
  <2>2. ToSet(Rows(config[n])) \subseteq AllRows
    BY <2>1 DEF AllRows
  <2>3. ~(n < 1) /\ 1 .. 0 = {}
    BY <1>2, <2>1
  <2>4. low' => ToSet(Rows(config[n])) \cap high = {}
    BY <1>1, <2>2
  <2>5. QED
    BY <2>3, <2>4
<1>13. TruthInv'
  <2>1. \A q \in Contacts' : <<q, q \in closed'>> \in seen'
    BY <1>1, <1>3
  <2>2. \A n \in (OfKind("Matrix") \cup OfKind("Input"))' : ~(n < 1)
    BY <1>1, <1>2 DEF OfKind
  <2>3. QED
    BY <1>1, <1>9, <2>1, <2>2 DEF TruthInv
<1>14. OutputInv'
  <2>1. \A n \in OfKind("Output")' : ~(n < 1) /\ n \in OfKind("Output")
    BY <1>1, <1>2 DEF OfKind
  <2>2. QED
    BY <1>1, <1>3, <1>9, <2>1 DEF Inv, OutputInv
<1>15. QED
  BY <1>6, <1>8, <1>11, <1>12, <1>13, <1>14 DEF Inv

-----------------------------------------------------------------------------
(* A scan. *)

ScanStep ==
  UNCHANGED <<config, phase, at, outputs, out, pin_map, state, down, polled, closed, seen, low, want, unsure>>

(* The part of the types that a scan's steps are about. *)
LEMMA ScanTypes ==
  ASSUME Inv, ScanStep, scan' \in Scan, high' \subseteq outputs, missed' \subseteq DOMAIN config
  PROVE  TypeOK'
BY ConfigStays DEF Inv, TypeOK, ScanStep

LEMMA ScanPins ==
  ASSUME Inv, phase = "tick", ScanStep
  PROVE  PinsInv'
BY PinsStay DEF Inv, ScanStep, Scanned

(* At a binding of a matrix. *)
LEMMA AtMatrix ==
  ASSUME Inv, Reading("Matrix"),
         NEW n, n = scan.n, NEW w, w = Len(Columns(config[n])), NEW h, h = Len(Rows(config[n]))
  PROVE  /\ Scanned /\ config \in Configs /\ n \in OfKind("Matrix") /\ n \in DOMAIN config /\ n \in Nat \ {0}
         /\ w \in Nat \ {0} /\ h \in Nat \ {0}
         /\ DOMAIN Rows(config[n]) = 1 .. h /\ DOMAIN Columns(config[n]) = 1 .. w
         /\ scan.row \in 1 .. h /\ scan.column \in 0 .. w + 1
         /\ Len(scan.part) = (scan.row - 1) * w + (IF scan.column = 0 THEN 0 ELSE scan.column - 1)
         /\ RowPin = Rows(config[n])[scan.row] /\ RowPin \in ToSet(Rows(config[n]))
         /\ Binding = config[n]
<1>1. /\ Scanned /\ config \in Configs /\ n \in OfKind("Matrix") /\ n \in DOMAIN config
      /\ Binding = config[n] /\ PlaceInv
  BY DEF Inv, TypeOK, ScanInv, Reading, Binding, OfKind, Scanned
<1>2. n \in Nat \ {0}
  BY <1>1, BindingType
<1>3. /\ Columns(config[n]) \in Seq(Nat) /\ Rows(config[n]) \in Seq(Nat)
      /\ w \in Nat \ {0} /\ h \in Nat \ {0}
  BY <1>1, MatrixType
<1>4. DOMAIN Rows(config[n]) = 1 .. h /\ DOMAIN Columns(config[n]) = 1 .. w
  BY <1>3
<1>5. /\ scan.row \in 1 .. h /\ scan.column \in 0 .. w + 1
      /\ Len(scan.part) = (scan.row - 1) * w + (IF scan.column = 0 THEN 0 ELSE scan.column - 1)
  BY <1>1, <1>4 DEF PlaceInv
<1>6. RowPin = Rows(config[n])[scan.row] /\ RowPin \in ToSet(Rows(config[n]))
  BY <1>1, <1>4, <1>5 DEF RowPin, ToSet
<1>7. QED
  BY <1>1, <1>2, <1>3, <1>4, <1>5, <1>6

(* On to the next binding. *)
MovesOn(n, values) ==
  /\ scan'.n = n + 1 /\ scan'.row = 1 /\ scan'.column = 0 /\ scan'.part = <<>>
  /\ scan' \in Scan
  /\ scan'.map = [m \in 1 .. n |-> SpanOf(m)]
  /\ Len(scan'.reading) = Offset(n + 1)
  /\ \A i \in 1 .. Offset(n) : scan'.reading[i] = scan.reading[i]
  /\ \A k \in DOMAIN values : scan'.reading[Offset(n) + k] = values[k]

LEMMA MovedOn ==
  ASSUME Inv, phase = "tick", NEW n \in DOMAIN config, n = scan.n,
         NEW values \in Seq(BOOLEAN), Len(values) = Len(Points(config[n])), scan' = Moved(values)
  PROVE  MovesOn(n, values)
<1>1. config \in Configs /\ scan \in Scan /\ PlaceInv
  BY DEF Inv, TypeOK, ScanInv, Scanned
<1>2. n \in Nat \ {0} /\ n \in 1 .. Len(config) + 1
  BY <1>1, BindingType
<1>3. PICK o \in Nat : o = Offset(n)
  BY <1>1, <1>2, OffsetType
<1>4. PICK reading \in Seq(BOOLEAN) : reading = scan.reading
  BY <1>1 DEF Scan
<1>5. Len(reading) = o
  BY <1>1, <1>3, <1>4 DEF PlaceInv
<1>6. PICK l \in Nat : l = Len(values)
  OBVIOUS
<1>7. Offset(n + 1) = o + l
  BY <1>1, <1>3, <1>6, OffsetNext
<1>8. /\ scan'.n = n + 1 /\ scan'.row = 1 /\ scan'.column = 0 /\ scan'.part = <<>>
      /\ scan'.reading = reading \o values
      /\ scan'.map = Append(scan.map, [start |-> o, end |-> o + l])
  BY <1>4, <1>5, <1>6 DEF Moved
<1>9. reading \o values \in Seq(BOOLEAN) /\ Len(reading \o values) = o + l
  BY <1>5, <1>6
<1>10. \A i \in 1 .. o : (reading \o values)[i] = reading[i]
  BY <1>5
<1>11. \A k \in DOMAIN values : (reading \o values)[o + k] = values[k]
  BY <1>5
<1>12. Append(scan.map, [start |-> o, end |-> o + l]) = [m \in 1 .. n |-> SpanOf(m)]
  <2>1. scan.map = [m \in 1 .. n - 1 |-> SpanOf(m)] /\ SpanOf(n) = [start |-> o, end |-> o + l]
    BY <1>1, <1>3, <1>7 DEF PlaceInv, SpanOf
  <2> DEFINE old == [m \in 1 .. n - 1 |-> SpanOf(m)]
             new == [m \in 1 .. n |-> SpanOf(m)]
  <2>2. Len(old) = n - 1
    BY <1>2
  <2>3. Append(old, SpanOf(n)) = new
    BY <1>2, <2>2
  <2>4. QED
    BY <2>1, <2>3
<1>13. scan' \in Scan
  <2>1. scan.map \in Seq(Span) /\ [start |-> o, end |-> o + l] \in Span
    BY <1>1, <1>3, <1>6 DEF Scan, Span
  <2>2. Append(scan.map, [start |-> o, end |-> o + l]) \in Seq(Span)
    BY <2>1
  <2>3. scan' = [n |-> n + 1, row |-> 1, column |-> 0, part |-> <<>>, reading |-> reading \o values,
                 map |-> Append(scan.map, [start |-> o, end |-> o + l])]
    BY <1>4, <1>5, <1>6 DEF Moved
  <2>4. n + 1 \in Nat /\ <<>> \in Seq(BOOLEAN)
    BY <1>2
  <2>5. QED
    BY <1>9, <2>2, <2>3, <2>4 DEF Scan
<1>14. QED
  BY <1>3, <1>4, <1>7, <1>8, <1>9, <1>10, <1>11, <1>12, <1>13 DEF MovesOn

LEMMA MovedPlace ==
  ASSUME Inv, phase = "tick", ScanStep, NEW n \in DOMAIN config, n = scan.n,
         NEW values, MovesOn(n, values), missed' \subseteq missed \cup {n}
  PROVE  ScanInv'
<1>1. /\ config \in Configs /\ PlaceInv /\ config' = config /\ phase' = "tick"
      /\ DOMAIN config = 1 .. Len(config) /\ Len(config) \in Nat /\ n \in Nat \ {0}
  BY BindingType DEF Inv, TypeOK, ScanInv, Scanned, ScanStep
<1>2. \A m : Offset(m)' = Offset(m) /\ SpanOf(m)' = SpanOf(m)
  BY <1>1 DEF Offset, Before, SpanOf
<1>3. scan'.n = n + 1 /\ scan'.row = 1 /\ scan'.column = 0 /\ scan'.part = <<>>
  BY DEF MovesOn
<1>4. (scan.n \in 1 .. Len(config) + 1)'
  BY <1>1, <1>3
<1>5. (scan.map = [m \in 1 .. scan.n - 1 |-> SpanOf(m)])'
  BY <1>1, <1>2, <1>3 DEF MovesOn
<1>6. (Len(scan.reading) = Offset(scan.n))'
  <2>1. Offset(scan.n)' = Offset(n + 1)
    BY <1>1, <1>3 DEF Offset, Before
  <2>2. QED
    BY <2>1 DEF MovesOn
<1>7. (missed \subseteq 1 .. scan.n - 1)'
  <2>1. missed \subseteq 1 .. n - 1
    BY <1>1 DEF PlaceInv
  <2>2. missed' \subseteq 1 .. n
    BY <1>1, <2>1
  <2>3. scan'.n - 1 = n
    BY <1>1, <1>3
  <2>4. QED
    BY <2>2, <2>3
<1>8. ASSUME (scan.n \in OfKind("Matrix"))'
      PROVE  (/\ scan.row \in DOMAIN Rows(Binding)
              /\ scan.column \in 0 .. Len(Columns(Binding)) + 1
              /\ Len(scan.part) =
                   (scan.row - 1) * Len(Columns(Binding))
                     + (IF scan.column = 0 THEN 0 ELSE scan.column - 1))'
  <2>1. PICK m : m = n + 1
    OBVIOUS
  <2>2. m \in OfKind("Matrix") /\ Binding' = config[m]
    BY <1>1, <1>3, <1>8, <2>1 DEF OfKind, Binding
  <2>3. /\ Rows(config[m]) \in Seq(Nat) /\ Len(Rows(config[m])) \in Nat \ {0}
        /\ Len(Columns(config[m])) \in Nat
    BY <1>1, <2>2, MatrixType
  <2>4. 1 \in DOMAIN Rows(config[m])
    BY <2>3
  <2>5. Rows(Binding)' = Rows(config[m]) /\ Columns(Binding)' = Columns(config[m])
    BY <2>2 DEF Rows, Columns
  <2>6. QED
    BY <1>3, <2>3, <2>4, <2>5
<1>9. PlaceInv'
  BY <1>4, <1>5, <1>6, <1>7, <1>8 DEF PlaceInv
<1>10. QED
  BY <1>1, <1>9 DEF ScanInv

LEMMA ReadingKept ==
  ASSUME config \in Configs, NEW n \in DOMAIN config, NEW values, MovesOn(n, values),
         NEW m \in DOMAIN config, m < n, NEW k \in DOMAIN Points(config[m])
  PROVE  scan'.reading[Offset(m) + k] = scan.reading[Offset(m) + k]
<1>1. m \in 1 .. Len(config) + 1 /\ n \in 1 .. Len(config) + 1
  BY BindingType
<1>2. PICK o \in Nat : o = Offset(m)
  BY <1>1, OffsetType
<1>3. PICK p \in Nat : p = Offset(n)
  BY <1>1, OffsetType
<1>4. PICK l \in Nat : l = Len(Points(config[m])) /\ DOMAIN Points(config[m]) = 1 .. l
  BY PointsLength
<1>5. o + l <= p
  BY <1>2, <1>3, <1>4, SpansApart
<1>6. o + k \in 1 .. p
  BY <1>4, <1>5
<1>7. QED
  BY <1>2, <1>3, <1>6 DEF MovesOn

LEMMA MovedRows ==
  ASSUME Inv, phase = "tick", ScanStep, NEW n \in DOMAIN config, n = scan.n,
         NEW values, MovesOn(n, values), missed \subseteq missed',
         \A m \in OfKind("Matrix") :
           m # n => ToSet(Rows(config[m])) \cap high' = ToSet(Rows(config[m])) \cap high,
         n \in OfKind("Matrix") /\ n \notin missed' => ToSet(Rows(config[n])) \cap high' = {}
  PROVE  RowsInv'
<1>1. /\ config \in Configs /\ config' = config /\ phase' = "tick" /\ low' = low /\ n \in Nat
      /\ DOMAIN config \subseteq Nat /\ RowsInv /\ Scanned
  BY BindingType DEF Inv, TypeOK, ScanStep, Scanned
<1>2. scan'.n = n + 1 /\ scan'.row = 1 /\ scan'.column = 0
  BY DEF MovesOn
<1>3. OfKind("Matrix")' = OfKind("Matrix") /\ OfKind("Matrix") \subseteq DOMAIN config
  BY <1>1 DEF OfKind
<1>4. SUFFICES ASSUME NEW m \in OfKind("Matrix")
               PROVE  /\ m < n + 1 /\ m \notin missed' => ToSet(Rows(config[m])) \cap high' = {}
                      /\ low /\ m >= n + 1 => ToSet(Rows(config[m])) \cap high' = {}
  <2>1. 1 .. 1 - 1 = {}
    OBVIOUS
  <2>2. QED
    BY <1>1, <1>2, <1>3, <1>4, <2>1 DEF RowsInv, RowHigh
<1>5. m \in Nat
  BY <1>1, <1>3
<1>6. CASE m = n
  BY <1>1, <1>6
<1>7. CASE m < n
  <2>1. m \notin missed' => ToSet(Rows(config[m])) \cap high = {}
    BY <1>1, <1>7 DEF RowsInv
  <2>2. QED
    BY <1>1, <1>5, <1>7, <2>1
<1>8. CASE m > n
  <2>1. low => ToSet(Rows(config[m])) \cap high = {}
    BY <1>1, <1>5, <1>8 DEF RowsInv, RowHigh
  <2>2. QED
    BY <1>1, <1>5, <1>8, <2>1
<1>9. QED
  BY <1>1, <1>5, <1>6, <1>7, <1>8

LEMMA MovedTruth ==
  ASSUME Inv, phase = "tick", ScanStep, NEW n \in DOMAIN config, n = scan.n,
         NEW values, MovesOn(n, values), missed \subseteq missed',
         DOMAIN values = DOMAIN Points(config[n]),
         low /\ n \notin missed' /\ n \in OfKind("Matrix") \cup OfKind("Input") =>
           \A k \in DOMAIN values : WasSo(n, k, values[k])
  PROVE  TruthInv'
<1>1. /\ config \in Configs /\ config' = config /\ phase' = "tick" /\ low' = low /\ n \in Nat
      /\ DOMAIN config \subseteq Nat /\ TruthInv /\ Scanned /\ seen' = seen /\ closed' = closed
  BY BindingType DEF Inv, TypeOK, ScanStep, Scanned
<1>2. scan'.n = n + 1 /\ scan'.part = <<>>
  BY DEF MovesOn
<1>3. /\ OfKind("Matrix")' = OfKind("Matrix") /\ OfKind("Input")' = OfKind("Input")
      /\ OfKind("Matrix") \cup OfKind("Input") \subseteq DOMAIN config
  BY <1>1 DEF OfKind
<1>4. Contacts' = Contacts /\ \A m : Offset(m)' = Offset(m)
  BY <1>1, ConfigStays
<1>5. \A m, k, value : WasSo(m, k, value)' = WasSo(m, k, value)
  BY <1>1 DEF WasSo
<1>6. ASSUME low, NEW m \in OfKind("Matrix") \cup OfKind("Input"), m < n + 1, m \notin missed',
             NEW k \in DOMAIN Points(config[m])
      PROVE  WasSo(m, k, scan'.reading[Offset(m) + k])
  <2>1. m \in Nat /\ m \in DOMAIN config
    BY <1>1, <1>3
  <2>2. CASE m = n
    <3>1. WasSo(n, k, values[k])
      BY <1>6, <2>2
    <3>2. scan'.reading[Offset(n) + k] = values[k]
      BY <1>6, <2>2 DEF MovesOn
    <3>3. QED
      BY <2>2, <3>1, <3>2
  <2>3. CASE m < n
    <3>1. WasSo(m, k, scan.reading[Offset(m) + k])
      BY <1>1, <1>6, <2>3 DEF TruthInv
    <3>2. scan'.reading[Offset(m) + k] = scan.reading[Offset(m) + k]
      BY <1>1, <1>6, <2>1, <2>3, ReadingKept
    <3>3. QED
      BY <3>1, <3>2
  <2>4. QED
    BY <1>1, <1>6, <2>1, <2>2, <2>3
<1>7. \A q \in Contacts' : <<q, q \in closed'>> \in seen'
  BY <1>1, <1>4 DEF TruthInv
<1>8. ASSUME low'
      PROVE  (\A m \in OfKind("Matrix") \cup OfKind("Input") :
                m < scan.n /\ m \notin missed =>
                  \A k \in DOMAIN Points(config[m]) : WasSo(m, k, scan.reading[Offset(m) + k]))'
  <2>1. ASSUME NEW m \in OfKind("Matrix") \cup OfKind("Input"), m < n + 1, m \notin missed',
               NEW k \in DOMAIN Points(config[m])
        PROVE  WasSo(m, k, scan.reading[Offset(m) + k])'
    <3>1. WasSo(m, k, scan'.reading[Offset(m) + k])
      BY <1>1, <1>6, <1>8, <2>1
    <3>2. PICK value : value = scan'.reading[Offset(m) + k]
      OBVIOUS
    <3>3. WasSo(m, k, value)
      BY <3>1, <3>2
    <3>4. (scan.reading[Offset(m) + k])' = value
      BY <1>4, <3>2
    <3>5. QED
      BY <1>1, <3>3, <3>4 DEF WasSo
  <2>2. QED
    BY <1>1, <1>2, <1>3, <2>1
<1>9. \A k \in DOMAIN scan'.part : FALSE
  BY <1>2
<1>10. QED
  BY <1>7, <1>8, <1>9 DEF TruthInv

LEMMA ScanOutputs ==
  ASSUME Inv, phase = "tick", ScanStep, NEW n, n = scan'.n,
         \A m \in OfKind("Output") : (config[m].pin \in high') <=> (config[m].pin \in high),
         \A m \in OfKind("Output") : m < n => (scan'.reading[Offset(m) + 1] <=> want[Offset(m)])
  PROVE  OutputInv'
<1>1. UNCHANGED <<config, phase, out, want, unsure, down, polled>>
  BY DEF ScanStep
<1>2. /\ OfKind("Output")' = OfKind("Output") /\ \A m : Offset(m)' = Offset(m)
  BY <1>1, ConfigStays
<1>3. QED
  BY <1>1, <1>2 DEF Inv, OutputInv

LEMMA MovedOutputs ==
  ASSUME Inv, phase = "tick", ScanStep, NEW n \in DOMAIN config, n = scan.n,
         NEW values, MovesOn(n, values),
         \A m \in OfKind("Output") : (config[m].pin \in high') <=> (config[m].pin \in high),
         n \in OfKind("Output") => 1 \in DOMAIN values /\ values[1] = out[n]
  PROVE  OutputInv'
<1>1. /\ config \in Configs /\ OutputInv /\ DOMAIN config \subseteq Nat /\ Scanned
  BY BindingType DEF Inv, TypeOK, Scanned
<1>2. scan'.n = n + 1
  BY DEF MovesOn
<1>3. ASSUME NEW m \in OfKind("Output"), m < n + 1
      PROVE  scan'.reading[Offset(m) + 1] <=> want[Offset(m)]
  <2>1. m \in DOMAIN config /\ m \in Nat /\ n \in Nat /\ config[m].kind # "Matrix"
    BY <1>1 DEF OfKind
  <2>2. CASE m = n
    <3>1. scan'.reading[Offset(n) + 1] = values[1]
      BY <2>2 DEF MovesOn
    <3>2. values[1] = want[Offset(n)]
      BY <1>1, <2>2 DEF OutputInv
    <3>3. QED
      BY <2>2, <3>1, <3>2
  <2>3. CASE m < n
    <3>1. 1 \in DOMAIN Points(config[m])
      BY <1>1, <2>1, SinglePoints
    <3>2. scan'.reading[Offset(m) + 1] = scan.reading[Offset(m) + 1]
      BY <1>1, <2>1, <2>3, <3>1, ReadingKept
    <3>3. scan.reading[Offset(m) + 1] <=> want[Offset(m)]
      BY <1>1, <2>3 DEF OutputInv
    <3>4. QED
      BY <3>2, <3>3
  <2>4. QED
    BY <1>3, <2>1, <2>2, <2>3
<1>4. QED
  BY <1>2, <1>3, ScanOutputs

(* A step within a matrix. *)
LEMMA RowStepPlace ==
  ASSUME Inv, phase = "tick", ScanStep, missed' = missed, NEW n \in OfKind("Matrix"), n = scan.n,
         NEW w, w = Len(Columns(config[n])),
         scan'.n = n, scan'.reading = scan.reading, scan'.map = scan.map,
         scan'.row \in DOMAIN Rows(config[n]), scan'.column \in 0 .. w + 1,
         Len(scan'.part) = (scan'.row - 1) * w + (IF scan'.column = 0 THEN 0 ELSE scan'.column - 1)
  PROVE  ScanInv'
<1>1. config' = config /\ phase' = "tick" /\ PlaceInv
  BY DEF Inv, ScanInv, Scanned, ScanStep
<1>2. \A m : Offset(m)' = Offset(m) /\ SpanOf(m)' = SpanOf(m)
  BY <1>1 DEF Offset, Before, SpanOf
<1>3. Offset(scan.n)' = Offset(scan.n)
  BY <1>1 DEF Offset, Before
<1>4. Rows(Binding)' = Rows(config[n]) /\ Columns(Binding)' = Columns(config[n])
  BY <1>1 DEF Rows, Columns, Binding
<1>5. PlaceInv'
  BY <1>1, <1>2, <1>3, <1>4 DEF PlaceInv
<1>6. QED
  BY <1>1, <1>5 DEF ScanInv

LEMMA CellPlace ==
  ASSUME NEW w \in Nat \ {0}, NEW h \in Nat \ {0}, NEW s \in 1 .. h, NEW c \in 1 .. w
  PROVE  \E k \in 1 .. w * h :
           k = (s - 1) * w + (c - 1) + 1 /\ ((k - 1) % w) + 1 = c /\ ((k - 1) \div w) + 1 = s
<1>1. PICK r \in 0 .. h - 1 : r = s - 1 /\ s = r + 1
  OBVIOUS
<1>2. PICK d \in 0 .. w - 1 : d = c - 1 /\ c = d + 1
  OBVIOUS
<1>3. r \in Nat /\ d \in 0 .. w - 1
  OBVIOUS
<1>4. (r * w + d) % w = d /\ (r * w + d) \div w = r
  BY <1>3, RowAndColumn
<1>5. r * w \in Nat
  OBVIOUS
<1>6. r * w + d + 1 \in 1 .. w * h
  BY PlaceOf
<1>7. PICK k \in 1 .. w * h : k = r * w + d + 1
  BY <1>6
<1>8. k - 1 = r * w + d
  BY <1>5, <1>7
<1>9. k = (s - 1) * w + (c - 1) + 1
  BY <1>1, <1>2, <1>7
<1>10. ((k - 1) % w) + 1 = c /\ ((k - 1) \div w) + 1 = s
  BY <1>1, <1>2, <1>4, <1>8
<1>11. QED
  BY <1>9, <1>10

(* The state of a contact in its matrix, and the contact of a state. *)
LEMMA PointAt ==
  ASSUME config \in Configs, NEW n \in OfKind("Matrix"),
         NEW s \in DOMAIN Rows(config[n]), NEW c \in DOMAIN Columns(config[n])
  PROVE  \E k \in DOMAIN Points(config[n]) :
           /\ k = (s - 1) * Len(Columns(config[n])) + (c - 1) + 1
           /\ Points(config[n])[k] = <<Columns(config[n])[c], Rows(config[n])[s]>>
<1> DEFINE Are(a, b) ==
      /\ DOMAIN Points(config[n]) = 1 .. a * b
      /\ \A j \in 1 .. a * b :
           Points(config[n])[j] =
             <<Columns(config[n])[((j - 1) % a) + 1], Rows(config[n])[((j - 1) \div a) + 1]>>
<1>1. Are(Len(Columns(config[n])), Len(Rows(config[n])))
  <2> DEFINE width  == Len(Columns(config[n]))
             height == Len(Rows(config[n]))
  <2>1. Are(width, height)
    BY MatrixPoints, Zenon
  <2>2. QED
    BY <2>1
<1> HIDE DEF Are
<1>2. PICK w \in Nat \ {0} : w = Len(Columns(config[n])) /\ DOMAIN Columns(config[n]) = 1 .. w
  BY MatrixType
<1>3. PICK h \in Nat \ {0} : h = Len(Rows(config[n])) /\ DOMAIN Rows(config[n]) = 1 .. h
  BY MatrixType
<1>4. Are(w, h)
  BY <1>1, <1>2, <1>3
<1>5. PICK r \in 1 .. h : r = s
  BY <1>3
<1>6. PICK d \in 1 .. w : d = c
  BY <1>2
<1>7. PICK k \in 1 .. w * h :
        k = (r - 1) * w + (d - 1) + 1 /\ ((k - 1) % w) + 1 = d /\ ((k - 1) \div w) + 1 = r
  BY CellPlace
<1>8. k = (s - 1) * Len(Columns(config[n])) + (c - 1) + 1
  BY <1>2, <1>5, <1>6, <1>7
<1>9. k \in DOMAIN Points(config[n]) /\ Points(config[n])[k] = <<Columns(config[n])[d], Rows(config[n])[r]>>
  BY <1>4, <1>7 DEF Are
<1>10. QED
  BY <1>5, <1>6, <1>8, <1>9

LEMMA PointIn ==
  ASSUME config \in Configs, NEW n \in OfKind("Matrix"), NEW k \in DOMAIN Points(config[n])
  PROVE  \E c \in DOMAIN Columns(config[n]), s \in DOMAIN Rows(config[n]) :
           Points(config[n])[k] = <<Columns(config[n])[c], Rows(config[n])[s]>>
<1> DEFINE w == Len(Columns(config[n]))
           h == Len(Rows(config[n]))
           c == ((k - 1) % w) + 1
           s == ((k - 1) \div w) + 1
<1>1. /\ w \in Nat \ {0} /\ h \in Nat \ {0}
      /\ DOMAIN Rows(config[n]) = 1 .. h /\ DOMAIN Columns(config[n]) = 1 .. w
  BY MatrixType
<1>2. /\ DOMAIN Points(config[n]) = 1 .. w * h
      /\ \A j \in 1 .. w * h :
           Points(config[n])[j] =
             <<Columns(config[n])[((j - 1) % w) + 1], Rows(config[n])[((j - 1) \div w) + 1]>>
  BY MatrixPoints, Zenon
<1> HIDE DEF w, h
<1>3. k \in 1 .. w * h
  BY <1>2, Zenon
<1>4. c \in 1 .. w /\ s \in 1 .. h
  BY <1>1, <1>3, PlaceInRow, Zenon
<1>5. Points(config[n])[k] = <<Columns(config[n])[c], Rows(config[n])[s]>>
  BY <1>2, <1>3, Zenon
<1> HIDE DEF c, s
<1>6. QED
  BY <1>1, <1>4, <1>5

(* What a cell is read as is how its contact is, if no other row is high:  *)
(* its column has contacts with the rows of this matrix alone.             *)
LEMMA CellIsSo ==
  ASSUME Inv, Reading("Matrix"), low,
         NEW n, n = scan.n,
         NEW w \in Nat \ {0}, w = Len(Columns(config[n])),
         NEW h \in Nat \ {0}, h = Len(Rows(config[n])),
         NEW c \in 1 .. w, c = scan.column,
         NEW k, k = (scan.row - 1) * w + (c - 1) + 1
  PROVE  WasSo(n, k, InputIsHigh(Columns(Binding)[scan.column]))
<1>1. /\ Scanned /\ config \in Configs /\ n \in OfKind("Matrix") /\ n \in DOMAIN config /\ n \in Nat \ {0}
      /\ w \in Nat \ {0} /\ h \in Nat \ {0}
      /\ DOMAIN Rows(config[n]) = 1 .. h /\ DOMAIN Columns(config[n]) = 1 .. w
      /\ scan.row \in 1 .. h
      /\ RowPin = Rows(config[n])[scan.row] /\ RowPin \in ToSet(Rows(config[n]))
      /\ Binding = config[n] /\ phase = "tick" /\ config[n].kind = "Matrix"
  BY AtMatrix DEF Reading, OfKind
<1> DEFINE column == Columns(config[n])[c]
           point == <<column, RowPin>>
<1>2. column \in ToSet(Columns(config[n]))
  BY <1>1 DEF ToSet
<1>3. k \in DOMAIN Points(config[n]) /\ Points(config[n])[k] = point
  <2>1. PICK s : s = scan.row
    OBVIOUS
  <2>2. /\ config \in Configs /\ n \in OfKind("Matrix")
        /\ s \in DOMAIN Rows(config[n]) /\ c \in DOMAIN Columns(config[n])
    BY <1>1, <2>1
  <2>3. PICK j \in DOMAIN Points(config[n]) :
          /\ j = (s - 1) * Len(Columns(config[n])) + (c - 1) + 1
          /\ Points(config[n])[j] = <<Columns(config[n])[c], Rows(config[n])[s]>>
    BY <2>2, PointAt
  <2>4. j = k
    BY <2>1, <2>3
  <2>5. QED
    BY <1>1, <2>1, <2>3, <2>4
<1>4. point \in Contacts
  <2>1. point \in ToSet(Points(config[n]))
    BY <1>3 DEF ToSet
  <2>2. QED
    BY <1>1, <2>1 DEF Contacts
<1>5. ToSet(Rows(config[n])) \cap high = {RowPin}
  <2>1. scan.column > 0 /\ n >= scan.n
    BY <1>1
  <2>2. RowHigh(n) = {RowPin}
    BY <1>1, <2>1 DEF RowHigh
  <2>3. QED
    BY <1>1, <2>1, <2>2 DEF Inv, RowsInv
<1>6. ASSUME NEW o, <<column, o>> \in closed
      PROVE  o \in ToSet(Rows(config[n]))
  <2>1. <<column, o>> \in Contacts
    BY <1>6 DEF Inv, TypeOK
  <2>2. PICK m \in OfKind("Matrix") \cup OfKind("Input") : <<column, o>> \in ToSet(Points(config[m]))
    BY <2>1 DEF Contacts
  <2>3. m \in OfKind("Matrix")
    <3> SUFFICES ASSUME m \in OfKind("Input") PROVE FALSE
      BY <2>2
    <3>1. m \in DOMAIN config /\ config[m].kind # "Matrix"
      BY DEF OfKind
    <3>2. PICK p : Points(config[m]) = <<<<p>>>>
      BY <3>1 DEF Points
    <3>3. <<column, o>> = <<p>>
      <4>1. ToSet(<<<<p>>>>) = {<<p>>}
        BY DEF ToSet
      <4>2. QED
        BY <2>2, <3>2, <4>1
    <3>4. Len(<<column, o>>) = 2 /\ Len(<<p>>) = 1
      OBVIOUS
    <3>5. QED
      BY <3>3, <3>4
  <2>4. PICK j \in DOMAIN Points(config[m]) : Points(config[m])[j] = <<column, o>>
    BY <2>2 DEF ToSet
  <2>5. PICK a \in DOMAIN Columns(config[m]), b \in DOMAIN Rows(config[m]) :
          Points(config[m])[j] = <<Columns(config[m])[a], Rows(config[m])[b]>>
    BY <1>1, <2>3, PointIn
  <2>6. column = Columns(config[m])[a] /\ o = Rows(config[m])[b]
    BY <2>4, <2>5
  <2>7. column \in ToSet(Columns(config[m])) /\ o \in ToSet(Rows(config[m]))
    BY <2>6 DEF ToSet
  <2>8. m = n
    BY <1>1, <1>2, <2>3, <2>7, RowPins DEF Inv
  <2>9. QED
    BY <2>7, <2>8
<1>7. InputIsHigh(column) = (point \in closed)
  <2>1. InputIsHigh(column) => point \in closed
    BY <1>5, <1>6 DEF InputIsHigh
  <2>2. point \in closed => InputIsHigh(column)
    BY <1>5 DEF InputIsHigh
  <2>3. InputIsHigh(column) \in BOOLEAN
    BY DEF InputIsHigh
  <2>4. QED
    BY <2>1, <2>2, <2>3
<1>8. <<point, point \in closed>> \in seen
  BY <1>1, <1>4 DEF Inv, TruthInv
<1>9. <<Points(config[n])[k], InputIsHigh(column)>> \in seen
  BY <1>3, <1>7, <1>8
<1>10. QED
  BY <1>1, <1>9 DEF WasSo

LEMMA RaiseRowInv ==
  ASSUME Inv, RaiseRow
  PROVE  Inv'
<1>1. PICK n : n = scan.n
  OBVIOUS
<1>2. PICK w : w = Len(Columns(config[n]))
  OBVIOUS
<1>3. PICK h : h = Len(Rows(config[n]))
  OBVIOUS
<1>4. /\ phase = "tick" /\ ScanStep /\ Reading("Matrix") /\ scan.column = 0 /\ missed' = missed
      /\ high' = high \cup {RowPin} /\ scan' = [scan EXCEPT !.column = 1]
  BY DEF RaiseRow, Reading, ScanFrame, ScanStep
<1>5. /\ Scanned /\ config \in Configs /\ n \in OfKind("Matrix") /\ n \in DOMAIN config /\ n \in Nat \ {0}
      /\ w \in Nat \ {0} /\ h \in Nat \ {0}
      /\ DOMAIN Rows(config[n]) = 1 .. h /\ DOMAIN Columns(config[n]) = 1 .. w
      /\ scan.row \in 1 .. h /\ scan.column \in 0 .. w + 1
      /\ Len(scan.part) = (scan.row - 1) * w + (IF scan.column = 0 THEN 0 ELSE scan.column - 1)
      /\ RowPin = Rows(config[n])[scan.row] /\ RowPin \in ToSet(Rows(config[n]))
      /\ Binding = config[n]
  BY <1>1, <1>2, <1>3, <1>4, AtMatrix, ZenonT(60)
<1>6. scan \in Scan /\ missed \subseteq DOMAIN config /\ high \subseteq outputs
  BY DEF Inv, TypeOK
<1>7. /\ scan' \in Scan /\ scan'.n = n /\ scan'.row = scan.row /\ scan'.column = 1
      /\ scan'.part = scan.part /\ scan'.reading = scan.reading /\ scan'.map = scan.map
  BY <1>1, <1>4, <1>6 DEF Scan
<1>8. /\ ToSet(Rows(config[n])) \subseteq outputs /\ IsInjective(Rows(config[n]))
      /\ \A m \in OfKind("Matrix") : m # n => ToSet(Rows(config[n])) \cap ToSet(Rows(config[m])) = {}
      /\ \A m \in OfKind("Output") : config[m].pin \notin ToSet(Rows(config[n]))
  BY <1>5, RowPins DEF Inv
<1>9. TypeOK'
  BY <1>4, <1>5, <1>6, <1>7, <1>8, ScanTypes
<1>10. ScanInv'
  BY <1>1, <1>2, <1>4, <1>5, <1>7, RowStepPlace
<1>11. RowsInv'
  <2>1. config' = config /\ phase' = "tick" /\ low' = low /\ OfKind("Matrix")' = OfKind("Matrix")
    BY <1>4 DEF ScanStep, OfKind
  <2>2. RowsInv
    BY DEF Inv
  <2> SUFFICES ASSUME NEW m \in OfKind("Matrix")
               PROVE  /\ m < n /\ m \notin missed => ToSet(Rows(config[m])) \cap high' = {}
                      /\ m = n => \A r \in 1 .. scan.row - 1 : Rows(config[m])[r] \notin high'
                      /\ low /\ m >= n => ToSet(Rows(config[m])) \cap high'
                           = IF m = n THEN {Rows(config[m])[scan.row]} ELSE {}
    BY <1>4, <1>7, <2>1 DEF RowsInv, RowHigh
  <2>3. CASE m # n
    <3>1. ToSet(Rows(config[m])) \cap high' = ToSet(Rows(config[m])) \cap high
      BY <1>4, <1>5, <1>8, <2>3
    <3>2. low /\ m >= n => ToSet(Rows(config[m])) \cap high = {}
      BY <1>1, <1>5, <2>2, <2>3 DEF RowsInv, RowHigh
    <3>3. m < n /\ m \notin missed => ToSet(Rows(config[m])) \cap high = {}
      BY <1>1, <1>5, <2>2 DEF RowsInv
    <3>4. QED
      BY <2>3, <3>1, <3>2, <3>3
  <2>4. CASE m = n
    <3>1. \A r \in 1 .. scan.row - 1 : Rows(config[n])[r] \notin high
      BY <1>1, <1>5, <2>2 DEF RowsInv
    <3>2. \A r \in 1 .. scan.row - 1 : r \in 1 .. h /\ r # scan.row
      BY <1>5
    <3>3. \A r \in 1 .. scan.row - 1 : Rows(config[n])[r] # RowPin
      BY <1>5, <1>8, <3>2 DEF IsInjective
    <3>4. low => ToSet(Rows(config[n])) \cap high = {}
      BY <1>1, <1>4, <1>5, <2>2 DEF RowsInv, RowHigh
    <3>5. low => ToSet(Rows(config[n])) \cap high' = {RowPin}
      BY <1>4, <1>5, <3>4
    <3>6. ~(n < n)
      BY <1>5
    <3>7. QED
      BY <1>4, <1>5, <2>4, <3>1, <3>3, <3>5, <3>6
  <2>5. QED
    BY <2>3, <2>4
<1>12. TruthInv'
  <2>1. UNCHANGED <<config, phase, low, missed, seen, closed>>
    BY <1>4 DEF ScanStep
  <2>2. \A m : Offset(m)' = Offset(m)
    BY <2>1, ConfigStays
  <2>3. QED
    BY <1>1, <1>7, <2>1, <2>2 DEF Inv, TruthInv, WasSo, Scanned, OfKind, Contacts
<1>13. OutputInv'
  <2>1. \A m \in OfKind("Output") : (config[m].pin \in high') <=> (config[m].pin \in high)
    BY <1>4, <1>5, <1>8
  <2>2. \A m \in OfKind("Output") : m < n => (scan'.reading[Offset(m) + 1] <=> want[Offset(m)])
    BY <1>1, <1>4, <1>5, <1>7 DEF Inv, OutputInv
  <2>3. QED
    BY <1>4, <1>7, <2>1, <2>2, ScanOutputs
<1>14. QED
  BY <1>4, <1>9, <1>10, <1>11, <1>12, <1>13, ScanPins DEF Inv

LEMMA ReadCellInv ==
  ASSUME Inv, ReadCell
  PROVE  Inv'
<1>1. PICK n : n = scan.n
  OBVIOUS
<1>2. PICK w : w = Len(Columns(config[n]))
  OBVIOUS
<1>3. PICK h : h = Len(Rows(config[n]))
  OBVIOUS
<1> DEFINE value == InputIsHigh(Columns(Binding)[scan.column])
<1>4. /\ phase = "tick" /\ ScanStep /\ Reading("Matrix") /\ scan.column \in DOMAIN Columns(Binding)
      /\ missed' = missed /\ high' = high
      /\ scan' = [scan EXCEPT !.column = @ + 1, !.part = Append(@, value)]
  BY DEF ReadCell, Reading, ScanFrame, ScanStep
<1>5. /\ Scanned /\ config \in Configs /\ n \in OfKind("Matrix") /\ n \in DOMAIN config /\ n \in Nat \ {0}
      /\ w \in Nat \ {0} /\ h \in Nat \ {0}
      /\ DOMAIN Rows(config[n]) = 1 .. h /\ DOMAIN Columns(config[n]) = 1 .. w
      /\ scan.row \in 1 .. h /\ scan.column \in 0 .. w + 1
      /\ Len(scan.part) = (scan.row - 1) * w + (IF scan.column = 0 THEN 0 ELSE scan.column - 1)
      /\ RowPin = Rows(config[n])[scan.row] /\ RowPin \in ToSet(Rows(config[n]))
      /\ Binding = config[n]
  BY <1>1, <1>2, <1>3, <1>4, AtMatrix, ZenonT(60)
<1>6. scan \in Scan /\ missed \subseteq DOMAIN config /\ high \subseteq outputs
  BY DEF Inv, TypeOK
<1>7. PICK c \in 1 .. w : c = scan.column
  BY <1>4, <1>5
<1>8. PICK part \in Seq(BOOLEAN) : part = scan.part
  BY <1>6 DEF Scan
<1>9. value \in BOOLEAN
  BY DEF InputIsHigh
<1>10. PICK v \in BOOLEAN : v = value
  BY <1>9
<1>11. Append(part, v) \in Seq(BOOLEAN)
  OBVIOUS
<1> HIDE DEF value
<1>12. /\ scan' \in Scan /\ scan'.n = n /\ scan'.row = scan.row /\ scan'.column = c + 1
       /\ scan'.part = Append(part, v) /\ scan'.reading = scan.reading /\ scan'.map = scan.map
  <2>1. scan' = [scan EXCEPT !.column = c + 1, !.part = Append(part, v)]
    BY <1>4, <1>6, <1>7, <1>8, <1>10 DEF Scan
  <2>2. c + 1 \in Nat
    BY <1>5, <1>7
  <2>3. QED
    BY <1>1, <1>6, <1>11, <2>1, <2>2 DEF Scan
<1>13. Len(part) = (scan.row - 1) * w + (c - 1)
  BY <1>5, <1>7, <1>8
<1>14. TypeOK'
  BY <1>4, <1>6, <1>12, ScanTypes
<1>15. ScanInv'
  <2>1. Len(Append(part, v)) = Len(part) + 1
    OBVIOUS
  <2>2. PICK r \in Nat : r = scan.row - 1
    BY <1>5
  <2>3. r * w \in Nat
    BY <1>5
  <2>4. Len(scan'.part) = (scan.row - 1) * w + ((c + 1) - 1)
    BY <1>12, <1>13, <2>1, <2>2, <2>3
  <2>5. c + 1 \in 0 .. w + 1 /\ c + 1 # 0
    BY <1>5, <1>7
  <2>6. Len(scan'.part) = (scan'.row - 1) * w + (IF scan'.column = 0 THEN 0 ELSE scan'.column - 1)
    BY <1>12, <2>4, <2>5
  <2>7. scan'.row \in DOMAIN Rows(config[n]) /\ scan'.column \in 0 .. w + 1
    BY <1>5, <1>12, <2>5
  <2>8. QED
    BY <1>1, <1>2, <1>4, <1>5, <1>12, <2>6, <2>7, RowStepPlace
<1>16. RowsInv'
  <2>1. config' = config /\ phase' = phase /\ low' = low /\ high' = high /\ missed' = missed
    BY <1>4 DEF ScanStep
  <2>2. scan'.n = scan.n /\ scan'.row = scan.row /\ scan.column > 0 /\ scan'.column > 0
    BY <1>1, <1>7, <1>12
  <2>3. \A m : RowHigh(m)' = RowHigh(m)
    BY <2>1, <2>2 DEF RowHigh
  <2>4. QED
    BY <2>1, <2>2, <2>3 DEF Inv, RowsInv, Scanned, OfKind
<1>17. low => WasSo(n, Len(part) + 1, v)
  BY <1>1, <1>2, <1>3, <1>4, <1>5, <1>7, <1>10, <1>13, CellIsSo DEF value
<1>18. TruthInv'
  <2>1. UNCHANGED <<config, phase, low, missed, seen, closed>>
    BY <1>4 DEF ScanStep
  <2>2. \A m : Offset(m)' = Offset(m)
    BY <2>1, ConfigStays
  <2>3. \A m, k, x : WasSo(m, k, x)' = WasSo(m, k, x)
    BY <2>1 DEF WasSo
  <2>4. ASSUME low, NEW k \in DOMAIN Append(part, v)
        PROVE  WasSo(n, k, Append(part, v)[k])
    <3>1. k \in DOMAIN part \/ k = Len(part) + 1
      OBVIOUS
    <3>2. CASE k \in DOMAIN part
      <4>1. Append(part, v)[k] = part[k]
        BY <3>2
      <4>2. WasSo(n, k, part[k])
        BY <1>1, <1>5, <1>8, <2>4, <3>2 DEF Inv, TruthInv
      <4>3. QED
        BY <4>1, <4>2
    <3>3. CASE k = Len(part) + 1
      <4>1. Append(part, v)[k] = v
        BY <3>3
      <4>2. QED
        BY <1>17, <2>4, <3>3, <4>1
    <3>4. QED
      BY <3>1, <3>2, <3>3
  <2>5. ASSUME low, NEW m \in OfKind("Matrix") \cup OfKind("Input"), m < n, m \notin missed,
               NEW k \in DOMAIN Points(config[m])
        PROVE  WasSo(m, k, scan.reading[Offset(m) + k])'
    <3>1. PICK x : x = scan.reading[Offset(m) + k]
      OBVIOUS
    <3>2. WasSo(m, k, x)
      BY <1>1, <1>5, <2>5, <3>1 DEF Inv, TruthInv
    <3>3. (scan.reading[Offset(m) + k])' = x
      BY <1>12, <2>2, <3>1
    <3>4. QED
      BY <2>1, <3>2, <3>3 DEF WasSo
  <2>6. ASSUME low
        PROVE  (\A k \in DOMAIN scan.part : WasSo(scan.n, k, scan.part[k]))'
    <3>1. ASSUME NEW k \in (DOMAIN scan.part)'
          PROVE  WasSo(scan.n, k, scan.part[k])'
      <4>1. PICK x : x = Append(part, v)[k]
        OBVIOUS
      <4>2. WasSo(n, k, x)
        BY <1>12, <2>4, <2>6, <3>1, <4>1
      <4>3. QED
        BY <1>12, <2>1, <4>1, <4>2 DEF WasSo
    <3>2. QED
      BY <3>1
  <2>7. OfKind("Matrix")' = OfKind("Matrix") /\ OfKind("Input")' = OfKind("Input") /\ Contacts' = Contacts
    BY <2>1, ConfigStays
  <2>8. phase = "tick" => \A q \in Contacts : <<q, q \in closed>> \in seen
    BY DEF Inv, TruthInv
  <2>9. QED
    BY <1>12, <2>1, <2>5, <2>6, <2>7, <2>8 DEF TruthInv
<1>19. OutputInv'
  <2>1. \A m \in OfKind("Output") : m < n => (scan'.reading[Offset(m) + 1] <=> want[Offset(m)])
    BY <1>1, <1>4, <1>5, <1>12 DEF Inv, OutputInv
  <2>2. QED
    BY <1>4, <1>12, <2>1, ScanOutputs
<1>20. QED
  BY <1>4, <1>14, <1>15, <1>16, <1>18, <1>19, ScanPins DEF Inv

(* On to the next binding, with a reading of this one. *)
LEMMA MovesInv ==
  ASSUME Inv, phase = "tick", ScanStep, NEW n \in DOMAIN config, n = scan.n,
         NEW values \in Seq(BOOLEAN), Len(values) = Len(Points(config[n])), scan' = Moved(values),
         missed' \in {missed, missed \cup {n}}, high' \subseteq outputs,
         \A m \in OfKind("Matrix") :
           m # n => ToSet(Rows(config[m])) \cap high' = ToSet(Rows(config[m])) \cap high,
         n \in OfKind("Matrix") /\ n \notin missed' => ToSet(Rows(config[n])) \cap high' = {},
         low /\ n \notin missed' /\ n \in OfKind("Matrix") \cup OfKind("Input") =>
           \A k \in DOMAIN values : WasSo(n, k, values[k]),
         \A m \in OfKind("Output") : (config[m].pin \in high') <=> (config[m].pin \in high),
         n \in OfKind("Output") => values[1] = out[n]
  PROVE  Inv'
<1>1. config \in Configs /\ missed \subseteq DOMAIN config
  BY DEF Inv, TypeOK
<1>2. MovesOn(n, values)
  BY MovedOn
<1>3. missed \subseteq missed' /\ missed' \subseteq missed \cup {n} /\ missed' \subseteq DOMAIN config
  BY <1>1
<1>4. /\ DOMAIN Points(config[n]) = 1 .. Len(Points(config[n]))
      /\ Len(Points(config[n])) \in Nat \ {0}
  BY <1>1, PointsLength
<1>5. DOMAIN values = 1 .. Len(values)
  OBVIOUS
<1>6. DOMAIN values = DOMAIN Points(config[n]) /\ 1 \in DOMAIN values
  BY <1>4, <1>5
<1>7. scan' \in Scan
  BY <1>2 DEF MovesOn
<1>8. TypeOK'
  BY <1>3, <1>7, ScanTypes
<1>9. ScanInv'
  BY <1>2, <1>3, MovedPlace
<1>10. RowsInv'
  BY <1>2, <1>3, MovedRows
<1>11. TruthInv'
  BY <1>2, <1>3, <1>6, MovedTruth
<1>12. OutputInv'
  BY <1>2, <1>6, MovedOutputs
<1>13. QED
  BY <1>8, <1>9, <1>10, <1>11, <1>12, ScanPins DEF Inv

LEMMA ZerosType ==
  ASSUME NEW count \in Nat
  PROVE  Zeros(count) \in Seq(BOOLEAN) /\ Len(Zeros(count)) = count
BY DEF Zeros

LEMMA AtSingle ==
  ASSUME Inv, NEW kind \in {"Input", "Output"}, Reading(kind)
  PROVE  /\ config \in Configs /\ Scanned /\ phase = "tick"
         /\ scan.n \in DOMAIN config /\ scan.n \in OfKind(kind) /\ config[scan.n].kind = kind
         /\ Binding = config[scan.n]
         /\ scan.n \notin OfKind("Matrix")
         /\ Len(Points(config[scan.n])) = 1
         /\ Points(config[scan.n])[1] = <<config[scan.n].pin>>
<1>1. /\ config \in Configs /\ phase = "tick" /\ scan.n \in DOMAIN config
      /\ Binding = config[scan.n] /\ config[scan.n].kind = kind
  BY DEF Inv, TypeOK, Reading, Binding
<1>2. Len(Points(config[scan.n])) = 1 /\ Points(config[scan.n])[1] = <<config[scan.n].pin>>
  <2>1. PICK n \in DOMAIN config : n = scan.n
    BY <1>1
  <2>2. Len(Points(config[n])) = 1 /\ Points(config[n])[1] = <<config[n].pin>>
    BY <1>1, <2>1, SinglePoints
  <2>3. QED
    BY <2>1, <2>2
<1>3. QED
  BY <1>1, <1>2 DEF OfKind, Scanned

LEMMA ReadOutputInv ==
  ASSUME Inv, ReadOutput
  PROVE  Inv'
<1>1. /\ ScanStep /\ Reading("Output") /\ missed' = missed /\ high' = high
      /\ scan' = Moved(<<out[scan.n]>>)
  BY DEF ReadOutput, ScanFrame, ScanStep
<1>2. PICK n \in DOMAIN config : n = scan.n
  BY <1>1, AtSingle
<1>3. /\ phase = "tick" /\ n \in OfKind("Output") /\ Len(Points(config[n])) = 1
      /\ n \notin OfKind("Matrix") \cup OfKind("Input")
  BY <1>1, <1>2, AtSingle DEF OfKind
<1>4. PICK v \in BOOLEAN : v = out[n]
  BY <1>3 DEF Inv, TypeOK
<1>5. <<v>> \in Seq(BOOLEAN) /\ Len(<<v>>) = 1 /\ <<v>>[1] = v
  OBVIOUS
<1>6. high \subseteq outputs
  BY DEF Inv, TypeOK
<1>7. QED
  BY <1>1, <1>2, <1>3, <1>4, <1>5, <1>6, MovesInv

LEMMA ReadInputInv ==
  ASSUME Inv, ReadInput
  PROVE  Inv'
<1>1. /\ ScanStep /\ Reading("Input") /\ missed' = missed /\ high' = high
      /\ scan' = Moved(<<(<<Binding.pin>> \in closed) = Binding.on_state>>)
  BY DEF ReadInput, ScanFrame, ScanStep
<1>2. PICK n \in DOMAIN config : n = scan.n
  BY <1>1, AtSingle
<1>3. /\ phase = "tick" /\ n \in OfKind("Input") /\ Len(Points(config[n])) = 1
      /\ Points(config[n])[1] = <<config[n].pin>> /\ Binding = config[n]
      /\ n \notin OfKind("Matrix") /\ n \notin OfKind("Output") /\ config[n].kind = "Input"
      /\ config \in Configs
  BY <1>1, <1>2, AtSingle DEF OfKind
<1>4. PICK q : q = <<config[n].pin>>
  OBVIOUS
<1> DEFINE isClosed == q \in closed
<1>5. isClosed \in BOOLEAN
  OBVIOUS
<1>6. PICK c \in BOOLEAN : c = isClosed
  BY <1>5
<1>7. PICK s \in BOOLEAN : s = config[n].on_state
  BY <1>3, KindCases
<1>8. PICK v \in BOOLEAN : v = (c = s)
  OBVIOUS
<1>9. scan' = Moved(<<v>>)
  BY <1>1, <1>3, <1>4, <1>6, <1>7, <1>8
<1>10. <<v>> \in Seq(BOOLEAN) /\ Len(<<v>>) = 1 /\ <<v>>[1] = v /\ DOMAIN <<v>> = {1}
  OBVIOUS
<1>11. (v = s) = c
  BY <1>8
<1>12. q \in Contacts
  <2>1. 1 \in DOMAIN Points(config[n])
    BY <1>3, SinglePoints
  <2>2. q \in ToSet(Points(config[n]))
    BY <1>3, <1>4, <2>1 DEF ToSet
  <2>3. QED
    BY <1>3, <2>2 DEF Contacts
<1>13. <<q, c>> \in seen
  <2>1. <<q, q \in closed>> \in seen
    BY <1>3, <1>12 DEF Inv, TruthInv
  <2>2. QED
    BY <1>6, <2>1, Zenon
<1>14. WasSo(n, 1, v)
  <2>1. <<q, v = s>> \in seen
    BY <1>11, <1>13, Zenon
  <2>2. QED
    BY <1>3, <1>4, <1>7, <2>1, Zenon DEF WasSo
<1>15. \A k \in DOMAIN <<v>> : WasSo(n, k, <<v>>[k])
  <2>1. \A k \in {1} : WasSo(n, k, <<v>>[k])
    BY <1>10, <1>14
  <2>2. QED
    BY <1>10, <2>1
<1>16. high \subseteq outputs
  BY DEF Inv, TypeOK
<1>17. QED
  BY <1>1, <1>2, <1>3, <1>9, <1>10, <1>15, <1>16, MovesInv

LEMMA InputFailsInv ==
  ASSUME Inv, InputFails
  PROVE  Inv'
<1>1. /\ ScanStep /\ Reading("Input") /\ missed' = missed \cup {scan.n} /\ high' = high
      /\ scan' = Moved(Zeros(Len(Points(Binding))))
  BY DEF InputFails, Missed, ScanFrame, ScanStep
<1>2. PICK n \in DOMAIN config : n = scan.n
  BY <1>1, AtSingle
<1>3. /\ phase = "tick" /\ Len(Points(config[n])) = 1 /\ Binding = config[n]
      /\ n \notin OfKind("Matrix") /\ n \notin OfKind("Output")
  BY <1>1, <1>2, AtSingle DEF OfKind
<1>4. Zeros(1) \in Seq(BOOLEAN) /\ Len(Zeros(1)) = 1
  BY ZerosType
<1>5. high \subseteq outputs
  BY DEF Inv, TypeOK
<1>6. QED
  BY <1>1, <1>2, <1>3, <1>4, <1>5, MovesInv

(* The row that a matrix looks at is not of any other binding. *)
LEMMA RowIsOwn ==
  ASSUME Inv, Reading("Matrix"), NEW n, n = scan.n,
         high' \in {high, high \cup {RowPin}, high \ {RowPin}}
  PROVE  /\ high' \subseteq outputs
         /\ \A m \in OfKind("Matrix") :
              m # n => ToSet(Rows(config[m])) \cap high' = ToSet(Rows(config[m])) \cap high
         /\ \A m \in OfKind("Output") : (config[m].pin \in high') <=> (config[m].pin \in high)
<1>1. PICK w : w = Len(Columns(config[n]))
  OBVIOUS
<1>2. PICK h : h = Len(Rows(config[n]))
  OBVIOUS
<1>3. /\ Scanned /\ config \in Configs /\ n \in OfKind("Matrix")
      /\ RowPin \in ToSet(Rows(config[n]))
  BY <1>1, <1>2, AtMatrix
<1>4. high \subseteq outputs
  BY DEF Inv, TypeOK
<1>5. /\ ToSet(Rows(config[n])) \subseteq outputs
      /\ \A m \in OfKind("Matrix") : m # n => ToSet(Rows(config[n])) \cap ToSet(Rows(config[m])) = {}
      /\ \A m \in OfKind("Output") : config[m].pin \notin ToSet(Rows(config[n]))
  BY <1>3, RowPins DEF Inv
<1>6. QED
  BY <1>3, <1>4, <1>5

LEMMA MatrixFailsInv ==
  ASSUME Inv, MatrixFails
  PROVE  Inv'
<1>1. /\ ScanStep /\ phase = "tick" /\ Reading("Matrix") /\ missed' = missed \cup {scan.n}
      /\ high' \in {high, high \cup {RowPin}, high \ {RowPin}}
      /\ scan' = Moved(Zeros(Len(Points(Binding))))
  BY DEF MatrixFails, Missed, ScanFrame, ScanStep, Reading
<1>2. PICK n \in DOMAIN config : n = scan.n
  BY <1>1 DEF Reading
<1>3. config \in Configs /\ Binding = config[n] /\ n \notin OfKind("Output")
  BY <1>1, <1>2 DEF Inv, TypeOK, Reading, Binding, OfKind
<1>4. PICK l \in Nat : l = Len(Points(config[n]))
  BY <1>3, PointsLength
<1>5. Zeros(l) \in Seq(BOOLEAN) /\ Len(Zeros(l)) = l
  BY ZerosType
<1>6. /\ high' \subseteq outputs
      /\ \A m \in OfKind("Matrix") :
           m # n => ToSet(Rows(config[m])) \cap high' = ToSet(Rows(config[m])) \cap high
      /\ \A m \in OfKind("Output") : (config[m].pin \in high') <=> (config[m].pin \in high)
  BY <1>1, <1>2, RowIsOwn
<1>7. n \in missed' /\ missed' = missed \cup {n} /\ scan' = Moved(Zeros(l))
  BY <1>1, <1>2, <1>3, <1>4
<1>8. QED
  BY <1>1, <1>2, <1>3, <1>4, <1>5, <1>6, <1>7, MovesInv

LEMMA LowerRowInv ==
  ASSUME Inv, LowerRow
  PROVE  Inv'
<1>1. PICK n : n = scan.n
  OBVIOUS
<1>2. PICK w : w = Len(Columns(config[n]))
  OBVIOUS
<1>3. PICK h : h = Len(Rows(config[n]))
  OBVIOUS
<1>4. /\ phase = "tick" /\ ScanStep /\ Reading("Matrix") /\ missed' = missed
      /\ scan.column > Len(Columns(Binding)) /\ high' = high \ {RowPin}
      /\ scan' = IF scan.row = Len(Rows(Binding))
                 THEN Moved(scan.part)
                 ELSE [scan EXCEPT !.row = @ + 1, !.column = 0]
  BY DEF LowerRow, AfterRow, Reading, ScanFrame, ScanStep
<1>5. /\ Scanned /\ config \in Configs /\ n \in OfKind("Matrix") /\ n \in DOMAIN config /\ n \in Nat \ {0}
      /\ w \in Nat \ {0} /\ h \in Nat \ {0}
      /\ DOMAIN Rows(config[n]) = 1 .. h /\ DOMAIN Columns(config[n]) = 1 .. w
      /\ scan.row \in 1 .. h /\ scan.column \in 0 .. w + 1
      /\ Len(scan.part) = (scan.row - 1) * w + (IF scan.column = 0 THEN 0 ELSE scan.column - 1)
      /\ RowPin = Rows(config[n])[scan.row] /\ RowPin \in ToSet(Rows(config[n]))
      /\ Binding = config[n]
  BY <1>1, <1>2, <1>3, <1>4, AtMatrix, ZenonT(60)
<1>6. scan \in Scan /\ missed \subseteq DOMAIN config /\ high \subseteq outputs /\ RowsInv
  BY DEF Inv, TypeOK
<1>7. /\ high' \subseteq outputs
      /\ \A m \in OfKind("Matrix") :
           m # n => ToSet(Rows(config[m])) \cap high' = ToSet(Rows(config[m])) \cap high
      /\ \A m \in OfKind("Output") : (config[m].pin \in high') <=> (config[m].pin \in high)
  BY <1>1, <1>4, RowIsOwn
<1>8. PICK r \in 1 .. h : r = scan.row
  BY <1>5
<1>9. scan.column = w + 1 /\ Len(scan.part) = (r - 1) * w + w
  <2>1. scan.column > w
    BY <1>2, <1>4, <1>5
  <2>2. scan.column = w + 1
    BY <1>5, <2>1
  <2>3. Len(scan.part) = (r - 1) * w + (w + 1 - 1)
    BY <1>5, <1>8, <2>2
  <2>4. w + 1 - 1 = w
    BY <1>5
  <2>5. QED
    BY <2>2, <2>3, <2>4
<1>10. (r - 1) * w + w = r * w
  BY <1>5
<1>11. \A i \in 1 .. r : Rows(config[n])[i] \notin high'
  <2>1. \A i \in 1 .. r - 1 : Rows(config[n])[i] \notin high
    BY <1>1, <1>5, <1>6, <1>8 DEF RowsInv
  <2>2. \A i \in 1 .. r : i \in 1 .. r - 1 \/ i = r
    BY <1>8
  <2>3. QED
    BY <1>4, <1>5, <1>8, <2>1, <2>2
<1>12. CASE r = h
  <2>1. scan' = Moved(scan.part)
    BY <1>3, <1>4, <1>5, <1>8, <1>12
  <2>2. PICK part \in Seq(BOOLEAN) : part = scan.part
    BY <1>6 DEF Scan
  <2>3. Len(part) = Len(Points(config[n]))
    <3>1. Len(Points(config[n])) = w * h
      BY <1>2, <1>3, <1>5, MatrixLength
    <3>2. r * w = w * h
      BY <1>5, <1>12
    <3>3. QED
      BY <1>9, <1>10, <2>2, <3>1, <3>2
  <2>4. ToSet(Rows(config[n])) \cap high' = {}
    BY <1>5, <1>11, <1>12 DEF ToSet
  <2>5. low => \A k \in DOMAIN part : WasSo(n, k, part[k])
    BY <1>1, <1>5, <2>2 DEF Inv, TruthInv
  <2>6. n \notin OfKind("Output")
    BY <1>5 DEF OfKind
  <2>7. scan' = Moved(part)
    BY <2>1, <2>2
  <2>8. QED
    BY <1>1, <1>4, <1>5, <1>7, <2>3, <2>4, <2>5, <2>6, <2>7, MovesInv
<1>13. CASE r # h
  <2>1. r + 1 \in 1 .. h /\ r + 1 \in Nat
    BY <1>5, <1>8, <1>13
  <2>2. /\ scan' \in Scan /\ scan'.n = n /\ scan'.row = r + 1 /\ scan'.column = 0
        /\ scan'.part = scan.part /\ scan'.reading = scan.reading /\ scan'.map = scan.map
    <3>1. scan' = [scan EXCEPT !.row = r + 1, !.column = 0]
      BY <1>3, <1>4, <1>5, <1>6, <1>8, <1>13 DEF Scan
    <3>2. QED
      BY <1>1, <1>6, <2>1, <3>1 DEF Scan
  <2>3. TypeOK'
    BY <1>4, <1>6, <1>7, <2>2, ScanTypes
  <2>4. ScanInv'
    <3>1. Len(scan'.part) = r * w
      BY <1>9, <1>10, <2>2
    <3>2. (r + 1) - 1 = r /\ r * w + 0 = r * w
      BY <1>5
    <3>3. Len(scan'.part) = (scan'.row - 1) * w + (IF scan'.column = 0 THEN 0 ELSE scan'.column - 1)
      BY <2>2, <3>1, <3>2
    <3>4. scan'.row \in DOMAIN Rows(config[n]) /\ scan'.column \in 0 .. w + 1
      BY <1>5, <2>1, <2>2
    <3>5. QED
      BY <1>1, <1>2, <1>4, <1>5, <2>2, <3>3, <3>4, RowStepPlace
  <2>5. RowsInv'
    <3>1. config' = config /\ phase' = "tick" /\ low' = low /\ OfKind("Matrix")' = OfKind("Matrix")
      BY <1>4 DEF ScanStep, OfKind
    <3>2. SUFFICES ASSUME NEW m \in OfKind("Matrix")
                   PROVE  /\ m < n /\ m \notin missed => ToSet(Rows(config[m])) \cap high' = {}
                          /\ m = n => \A i \in 1 .. r : Rows(config[m])[i] \notin high'
                          /\ low /\ m >= n => ToSet(Rows(config[m])) \cap high' = {}
      <4>1. (r + 1) - 1 = r
        BY <1>8
      <4>2. QED
        BY <1>4, <2>2, <3>1, <3>2, <4>1 DEF RowsInv, RowHigh
    <3>3. CASE m # n
      <4>1. ToSet(Rows(config[m])) \cap high' = ToSet(Rows(config[m])) \cap high
        BY <1>7, <3>3
      <4>2. low /\ m >= n => ToSet(Rows(config[m])) \cap high = {}
        BY <1>1, <1>5, <1>6, <3>3 DEF RowsInv, RowHigh
      <4>3. m < n /\ m \notin missed => ToSet(Rows(config[m])) \cap high = {}
        BY <1>1, <1>5, <1>6 DEF RowsInv
      <4>4. QED
        BY <3>3, <4>1, <4>2, <4>3
    <3>4. CASE m = n
      <4>1. scan.column > 0 /\ n >= n
        BY <1>5, <1>9
      <4>2. low => ToSet(Rows(config[n])) \cap high = {RowPin}
        BY <1>1, <1>5, <1>6, <4>1 DEF RowsInv, RowHigh
      <4>3. low => ToSet(Rows(config[n])) \cap high' = {}
        BY <1>4, <4>2
      <4>4. ~(n < n)
        BY <1>5
      <4>5. QED
        BY <1>11, <3>4, <4>3, <4>4
    <3>5. QED
      BY <3>3, <3>4
  <2>6. TruthInv'
    <3>1. UNCHANGED <<config, phase, low, missed, seen, closed>>
      BY <1>4 DEF ScanStep
    <3>2. \A m : Offset(m)' = Offset(m)
      BY <3>1, ConfigStays
    <3>3. QED
      BY <1>1, <2>2, <3>1, <3>2 DEF Inv, TruthInv, WasSo, Scanned, OfKind, Contacts
  <2>7. OutputInv'
    <3>1. \A m \in OfKind("Output") : m < n => (scan'.reading[Offset(m) + 1] <=> want[Offset(m)])
      BY <1>1, <1>4, <1>5, <2>2 DEF Inv, OutputInv
    <3>2. QED
      BY <1>4, <1>7, <2>2, <3>1, ScanOutputs
  <2>8. QED
    BY <1>4, <2>3, <2>4, <2>5, <2>6, <2>7, ScanPins DEF Inv
<1>14. QED
  BY <1>12, <1>13

LEMMA EndTickInv ==
  ASSUME Inv, EndTick
  PROVE  Inv'
<1>1. /\ UNCHANGED <<config, at, outputs, high, out, scan, down, polled, closed,
                     seen, low, missed, want, unsure>>
      /\ phase = "tick" /\ phase' = "poll" /\ scan.n > Len(config)
      /\ pin_map' = scan.map /\ state' = scan.reading
  BY DEF EndTick, chipVars, historyVars
<1>2. scan.map \in Seq(Span) /\ scan.reading \in Seq(BOOLEAN)
  BY DEF Inv, TypeOK, Scan
<1>3. TypeOK'
  BY <1>1, <1>2, ConfigStays DEF Inv, TypeOK
<1>4. PinsInv'
  BY <1>1, PinsStay DEF Inv, Scanned
<1>5. Scanned /\ Scanned' /\ PlaceInv
  BY <1>1 DEF Inv, ScanInv, Scanned
<1>6. /\ \A m : Offset(m)' = Offset(m) /\ SpanOf(m)' = SpanOf(m)
      /\ Offset(scan.n)' = Offset(scan.n)
  BY <1>1 DEF Offset, Before, SpanOf
<1>7. \A kind : OfKind(kind)' = OfKind(kind)
  BY <1>1 DEF OfKind
<1>8. Binding' = Binding
  BY <1>1 DEF Binding
<1>9. PlaceInv'
  BY <1>1, <1>5, <1>6, <1>7, <1>8 DEF PlaceInv
<1>10. scan.n = Len(config) + 1
  <2>1. Len(config) \in Nat
    BY BindingType DEF Inv, TypeOK
  <2>2. scan.n \in 1 .. Len(config) + 1
    BY <1>5 DEF PlaceInv
  <2>3. QED
    BY <1>1, <2>1, <2>2
<1>11. ScanInv'
  BY <1>1, <1>9, <1>10 DEF ScanInv
<1>12. RowsInv'
  BY <1>1, <1>5, <1>7 DEF Inv, RowsInv, RowHigh
<1>13. TruthInv'
  BY <1>1, <1>5, <1>6, <1>7 DEF Inv, TruthInv, WasSo
<1>14. OutputInv'
  BY <1>1, <1>5, <1>6, <1>7 DEF Inv, OutputInv
<1>15. QED
  BY <1>3, <1>4, <1>11, <1>12, <1>13, <1>14 DEF Inv

-----------------------------------------------------------------------------
(* The functions. *)

(* An index is of one binding at most, and that of an output is its own.   *)
LEMMA FindIs ==
  ASSUME Inv, phase = "poll", NEW idx \in Nat
  PROVE  /\ \A n \in Find(idx) : Find(idx) = {n} /\ n \in DOMAIN config
         /\ \A n \in OfKind("Output") : n \in Find(idx) <=> idx = Offset(n)
<1>1. /\ config \in Configs /\ PlaceInv /\ scan.n = Len(config) + 1 /\ pin_map = scan.map
      /\ Len(config) \in Nat /\ DOMAIN config = 1 .. Len(config)
  BY BindingType DEF Inv, TypeOK, ScanInv, Scanned
<1>2. pin_map = [n \in DOMAIN config |-> SpanOf(n)]
  <2>1. Len(config) + 1 - 1 = Len(config)
    BY <1>1
  <2>2. QED
    BY <1>1, <2>1 DEF PlaceInv
<1>3. ASSUME NEW n \in DOMAIN config
      PROVE  /\ Offset(n) \in Nat /\ Len(Points(config[n])) \in Nat \ {0}
             /\ pin_map[n].start = Offset(n) /\ pin_map[n].end = Offset(n) + Len(Points(config[n]))
  <2>1. n \in 1 .. Len(config) + 1
    BY <1>1
  <2>2. QED
    BY <1>1, <1>2, <2>1, OffsetType, OffsetNext, PointsLength DEF SpanOf
<1>4. \A n \in DOMAIN config :
        n \in Find(idx) <=> Offset(n) <= idx /\ idx < Offset(n) + Len(Points(config[n]))
  BY <1>2, <1>3 DEF Find
<1>5. Find(idx) \subseteq DOMAIN config
  BY <1>2 DEF Find
<1>6. ASSUME NEW m \in Find(idx), NEW n \in Find(idx), m < n
      PROVE  FALSE
  <2>1. Offset(m) + Len(Points(config[m])) <= Offset(n)
    BY <1>1, <1>5, <1>6, SpansApart
  <2>2. idx < Offset(m) + Len(Points(config[m])) /\ Offset(n) <= idx
    BY <1>4, <1>5
  <2>3. Offset(m) \in Nat /\ Offset(n) \in Nat /\ Len(Points(config[m])) \in Nat
    BY <1>3, <1>5
  <2>4. QED
    BY <2>1, <2>2, <2>3
<1>7. \A n \in Find(idx) : Find(idx) = {n}
  <2>1. \A m \in Find(idx), n \in Find(idx) : m \in Nat /\ n \in Nat
    BY <1>1, <1>5
  <2>2. \A m \in Find(idx), n \in Find(idx) : m = n
    BY <1>6, <2>1
  <2>3. QED
    BY <2>2
<1>8. ASSUME NEW n \in OfKind("Output")
      PROVE  n \in Find(idx) <=> idx = Offset(n)
  <2>1. n \in DOMAIN config /\ config[n].kind # "Matrix"
    BY DEF OfKind
  <2>2. Len(Points(config[n])) = 1
    BY <1>1, <2>1, SinglePoints
  <2>3. n \in Find(idx) <=> Offset(n) <= idx /\ idx < Offset(n) + 1
    BY <1>4, <2>1, <2>2
  <2>4. Offset(n) \in Nat
    BY <1>3, <2>1
  <2>5. QED
    BY <2>3, <2>4
<1>9. QED
  BY <1>5, <1>7, <1>8

(* What a call of set does: only the output that has the index changes.    *)
LEMMA SetOnly ==
  ASSUME Inv, phase = "poll", NEW idx \in Nat, NEW value \in BOOLEAN, Set(idx, value)
  PROVE  /\ high' \subseteq outputs /\ unsure' \subseteq Pin
         /\ out' \in [OfKind("Output") -> BOOLEAN]
         /\ want' \in [{Offset(n) : n \in OfKind("Output")} -> BOOLEAN]
         /\ \A m \in OfKind("Matrix") : ToSet(Rows(config[m])) \cap high' = ToSet(Rows(config[m])) \cap high
         /\ \A m \in OfKind("Output") :
              /\ config[m].pin \notin unsure' => ((config[m].pin \in high') <=> want'[Offset(m)])
              /\ out'[m] = want'[Offset(m)]
              /\ Offset(m) # idx => want'[Offset(m)] = want[Offset(m)]
<1>1. /\ config \in Configs /\ PinsInv /\ Scanned /\ high \subseteq outputs /\ outputs \subseteq Pin
      /\ unsure \subseteq Pin
      /\ out \in [OfKind("Output") -> BOOLEAN]
      /\ want \in [{Offset(n) : n \in OfKind("Output")} -> BOOLEAN]
  BY DEF Inv, TypeOK, Scanned
<1>2. /\ want' \in [{Offset(n) : n \in OfKind("Output")} -> BOOLEAN]
      /\ \A m \in OfKind("Output") :
           want'[Offset(m)] = IF Offset(m) = idx THEN value ELSE want[Offset(m)]
  BY <1>1 DEF Set
<1>3. \A m \in OfKind("Output") :
        /\ config[m].pin \notin unsure => ((config[m].pin \in high) <=> want[Offset(m)])
        /\ out[m] = want[Offset(m)]
  BY DEF Inv, OutputInv
<1>4. CASE Find(idx) # {} /\ config[Min(Find(idx))].kind = "Output"
  <2>1. PICK n \in Find(idx) : Find(idx) = {n} /\ n \in DOMAIN config
    BY <1>4, FindIs
  <2>2. Min(Find(idx)) = n
    BY <2>1 DEF Min
  <2>3. n \in OfKind("Output")
    BY <1>4, <2>1, <2>2 DEF OfKind
  <2>4. idx = Offset(n)
    BY <2>1, <2>3, FindIs
  <2>5. PICK pin : pin = config[n].pin
    OBVIOUS
  <2>6. /\ out' = [out EXCEPT ![n] = value]
        /\ \/ high' = Written(pin, value) /\ unsure' = unsure \ {pin}
           \/ high' \in {high, Written(pin, value)} /\ unsure' = unsure \cup {pin}
    BY <1>4, <2>2, <2>5 DEF Set, SetOutput
  <2>7. pin \in outputs /\ \A m \in OfKind("Output") : m # n => config[m].pin # pin
    BY <1>1, <2>3, <2>5, OutputPin
  <2>8. \A m \in OfKind("Matrix") : pin \notin ToSet(Rows(config[m]))
    BY <1>1, <2>3, <2>5, RowPins
  <2>9. high' \subseteq high \cup {pin} /\ high \ {pin} \subseteq high'
    BY <2>6 DEF Written
  <2>10. high' \subseteq outputs /\ unsure' \subseteq Pin
    BY <1>1, <2>6, <2>7, <2>9
  <2>11. out' \in [OfKind("Output") -> BOOLEAN]
    BY <1>1, <2>6
  <2>12. \A m \in OfKind("Matrix") :
           ToSet(Rows(config[m])) \cap high' = ToSet(Rows(config[m])) \cap high
    BY <2>8, <2>9
  <2>13. ASSUME NEW m \in OfKind("Output"), m # n
         PROVE  /\ config[m].pin \notin unsure' => ((config[m].pin \in high') <=> want'[Offset(m)])
                /\ out'[m] = want'[Offset(m)]
                /\ want'[Offset(m)] = want[Offset(m)]
    <3>1. Offset(m) # idx
      <4>1. m \in DOMAIN config
        BY DEF OfKind
      <4>2. QED
        BY <1>1, <2>1, <2>4, <2>13, <4>1, OffsetsDiffer
    <3>2. want'[Offset(m)] = want[Offset(m)]
      BY <1>2, <3>1
    <3>3. out'[m] = out[m]
      BY <1>1, <2>6, <2>13
    <3>4. config[m].pin # pin
      BY <2>7, <2>13
    <3>5. /\ (config[m].pin \in high') <=> (config[m].pin \in high)
          /\ (config[m].pin \in unsure') <=> (config[m].pin \in unsure)
      BY <2>6, <2>9, <3>4
    <3>6. QED
      BY <1>3, <3>2, <3>3, <3>5
  <2>14. /\ pin \notin unsure' => ((pin \in high') <=> value)
         /\ out'[n] = value
         /\ want'[Offset(n)] = value
    <3>1. out'[n] = value /\ want'[Offset(n)] = value
      BY <1>1, <1>2, <2>3, <2>4, <2>6
    <3>2. pin \notin unsure' => high' = Written(pin, value)
      BY <2>6
    <3>3. (pin \in Written(pin, value)) <=> value
      BY DEF Written
    <3>4. QED
      BY <3>1, <3>2, <3>3
  <2>15. QED
    BY <1>2, <2>4, <2>5, <2>10, <2>11, <2>12, <2>13, <2>14
<1>5. CASE ~(Find(idx) # {} /\ config[Min(Find(idx))].kind = "Output")
  <2>1. out' = out /\ high' = high /\ unsure' = unsure
    BY <1>5 DEF Set
  <2>2. ASSUME NEW m \in OfKind("Output")
        PROVE  Offset(m) # idx
    <3> SUFFICES ASSUME Offset(m) = idx PROVE FALSE
      OBVIOUS
    <3>1. m \in Find(idx)
      BY FindIs
    <3>2. Find(idx) = {m}
      BY <3>1, FindIs
    <3>3. Min(Find(idx)) = m
      <4>1. m \in Nat
        BY <1>1, BindingType DEF OfKind
      <4>2. QED
        BY <3>2, <4>1 DEF Min
    <3>4. config[m].kind = "Output"
      BY DEF OfKind
    <3>5. QED
      BY <1>5, <3>1, <3>3, <3>4
  <2>3. QED
    BY <1>1, <1>2, <1>3, <2>1, <2>2
<1>6. QED
  BY <1>4, <1>5

LEMMA CachedType ==
  ASSUME Inv, NEW idx \in Nat
  PROVE  Cached(idx) \in BOOLEAN
BY DEF Inv, TypeOK, Cached

LEMMA PressInv ==
  ASSUME Inv, NEW f \in Function, Press(f)
  PROVE  Inv'
<1> DEFINE asked == IF Def[f].kind = "Flip" THEN ~Cached(Def[f].idx) ELSE Def[f].value
<1>1. Def[f] \in Definition
  BY FunctionAssumption
<1>2. PICK idx \in Nat : idx = Def[f].idx
  BY <1>1 DEF Definition
<1>3. asked \in BOOLEAN
  BY <1>1 DEF Definition
<1>4. PICK value \in BOOLEAN : value = asked
  BY <1>3
<1>5. /\ UNCHANGED <<config, phase, at, outputs, scan, pin_map, state, closed, seen, low, missed>>
      /\ phase = "poll" /\ at = 0 /\ f \notin down \cup polled
      /\ Set(idx, value) /\ down' = down \cup {f} /\ polled' = polled \cup {f}
  BY <1>2, <1>4 DEF Press, driverVars
<1>6. /\ high' \subseteq outputs /\ unsure' \subseteq Pin
      /\ out' \in [OfKind("Output") -> BOOLEAN]
      /\ want' \in [{Offset(n) : n \in OfKind("Output")} -> BOOLEAN]
      /\ \A m \in OfKind("Matrix") : ToSet(Rows(config[m])) \cap high' = ToSet(Rows(config[m])) \cap high
      /\ \A m \in OfKind("Output") :
           /\ config[m].pin \notin unsure' => ((config[m].pin \in high') <=> want'[Offset(m)])
           /\ out'[m] = want'[Offset(m)]
           /\ Offset(m) # idx => want'[Offset(m)] = want[Offset(m)]
  BY <1>5, SetOnly
<1>7. TypeOK'
  BY <1>5, <1>6, ConfigStays DEF Inv, TypeOK
<1>8. Scanned /\ Scanned'
  BY <1>5 DEF Scanned
<1>9. PinsInv'
  BY <1>5, <1>8, PinsStay DEF Inv
<1>10. ScanInv'
  BY <1>5, ScanStays DEF Inv
<1>11. RowsInv'
  <2>1. /\ OfKind("Matrix")' = OfKind("Matrix")
        /\ \A m : RowHigh(m)' = RowHigh(m)
    BY <1>5 DEF OfKind, RowHigh
  <2>2. ASSUME NEW m \in OfKind("Matrix")
        PROVE  (/\ m < scan.n /\ m \notin missed => ToSet(Rows(config[m])) \cap high = {}
                /\ m = scan.n => \A r \in 1 .. scan.row - 1 : Rows(config[m])[r] \notin high
                /\ low /\ m >= scan.n => ToSet(Rows(config[m])) \cap high = RowHigh(m))'
    <3>1. /\ m < scan.n /\ m \notin missed => ToSet(Rows(config[m])) \cap high = {}
          /\ low /\ m >= scan.n => ToSet(Rows(config[m])) \cap high = RowHigh(m)
      BY <1>8 DEF Inv, RowsInv
    <3>2. m # scan.n
      <4>1. scan.n = Len(config) + 1 /\ config \in Configs
        BY <1>5 DEF Inv, ScanInv, TypeOK
      <4>2. m \in 1 .. Len(config) /\ Len(config) \in Nat
        BY <4>1, BindingType DEF OfKind
      <4>3. QED
        BY <4>1, <4>2
    <3>3. QED
      BY <1>5, <1>6, <2>1, <3>1, <3>2
  <2>3. QED
    BY <2>1, <2>2 DEF RowsInv
<1>12. TruthInv'
  BY <1>5, TruthStays DEF Inv
<1>13. OutputInv'
  <2>1. /\ OfKind("Output")' = OfKind("Output") /\ \A m : Offset(m)' = Offset(m)
    BY <1>5, ConfigStays
  <2>2. Touched' = Touched \cup {idx}
    <3>1. polled' \cap down' = (polled \cap down) \cup {f}
      BY <1>5
    <3>2. QED
      BY <1>2, <3>1 DEF Touched
  <2>3. ASSUME NEW m \in OfKind("Output")
        PROVE  (/\ config[m].pin \notin unsure => ((config[m].pin \in high) <=> want[Offset(m)])
                /\ out[m] = want[Offset(m)]
                /\ Scanned /\ m < scan.n /\ ~(phase = "poll" /\ Offset(m) \in Touched) =>
                     (scan.reading[Offset(m) + 1] <=> want[Offset(m)]))'
    <3>1. /\ config[m].pin \notin unsure' => ((config[m].pin \in high') <=> want'[Offset(m)])
          /\ out'[m] = want'[Offset(m)]
      BY <1>6
    <3>2. m < scan.n /\ Offset(m) \notin Touched' => (scan.reading[Offset(m) + 1] <=> want'[Offset(m)])
      <4> SUFFICES ASSUME m < scan.n, Offset(m) \notin Touched'
                   PROVE  scan.reading[Offset(m) + 1] <=> want'[Offset(m)]
        OBVIOUS
      <4>1. Offset(m) # idx /\ Offset(m) \notin Touched
        BY <2>2
      <4>2. want'[Offset(m)] = want[Offset(m)]
        BY <1>6, <4>1
      <4>3. scan.reading[Offset(m) + 1] <=> want[Offset(m)]
        BY <1>8, <4>1 DEF Inv, OutputInv
      <4>4. QED
        BY <4>2, <4>3
    <3>3. /\ (want[Offset(m)])' = want'[Offset(m)]
          /\ (scan.reading[Offset(m) + 1])' = scan.reading[Offset(m) + 1]
          /\ (Offset(m) \in Touched)' <=> Offset(m) \in Touched'
      BY <1>5, <2>1
    <3>4. QED
      BY <1>5, <3>1, <3>2, <3>3
  <2>4. QED
    BY <2>1, <2>3 DEF OutputInv
<1>14. QED
  BY <1>7, <1>9, <1>10, <1>11, <1>12, <1>13 DEF Inv

LEMMA ReleaseKeyInv ==
  ASSUME Inv, NEW f \in Function, ReleaseKey(f)
  PROVE  Inv'
<1>1. /\ UNCHANGED <<config, phase, at, outputs, high, out, scan, pin_map, state, closed,
                     seen, low, missed, want, unsure>>
      /\ phase = "poll" /\ f \in down \ polled
      /\ down' = down \ {f} /\ polled' = polled \cup {f}
  BY DEF ReleaseKey, chipVars, driverVars, historyVars
<1>2. TypeOK'
  BY <1>1, ConfigStays DEF Inv, TypeOK
<1>3. PinsInv'
  BY <1>1, PinsStay DEF Inv, Scanned
<1>4. ScanInv' /\ RowsInv' /\ TruthInv'
  BY <1>1, ScanStays, RowsStay, TruthStays DEF Inv
<1>5. OutputInv'
  <2>1. polled' \cap down' = polled \cap down
    BY <1>1
  <2>2. Touched' = Touched
    BY <2>1 DEF Touched
  <2>3. /\ OfKind("Output")' = OfKind("Output") /\ \A m : Offset(m)' = Offset(m)
    BY <1>1, ConfigStays
  <2>4. QED
    BY <1>1, <2>2, <2>3 DEF Inv, OutputInv, Scanned
<1>6. QED
  BY <1>2, <1>3, <1>4, <1>5 DEF Inv

-----------------------------------------------------------------------------
LEMMA NextInv == Inv /\ [Next]_vars => Inv'
<1> SUFFICES ASSUME Inv, [Next]_vars PROVE Inv'
  OBVIOUS
<1>1. ASSUME NEW q \in Contacts, Toggle(q) PROVE Inv'
  BY <1>1, ToggleInv
<1>2. CASE BuildBindings
  BY <1>2, BuildBindingsInv
<1>3. CASE SetUp
  BY <1>3, SetUpInv
<1>4. CASE StartTick
  BY <1>4, StartTickInv
<1>5. CASE RaiseRow
  BY <1>5, RaiseRowInv
<1>6. CASE ReadCell
  BY <1>6, ReadCellInv
<1>7. CASE LowerRow
  BY <1>7, LowerRowInv
<1>8. CASE MatrixFails
  BY <1>8, MatrixFailsInv
<1>9. CASE ReadInput
  BY <1>9, ReadInputInv
<1>10. CASE InputFails
  BY <1>10, InputFailsInv
<1>11. CASE ReadOutput
  BY <1>11, ReadOutputInv
<1>12. CASE EndTick
  BY <1>12, EndTickInv
<1>13. ASSUME NEW f \in Function, Press(f) PROVE Inv'
  BY <1>13, PressInv
<1>14. ASSUME NEW f \in Function, ReleaseKey(f) PROVE Inv'
  BY <1>14, ReleaseKeyInv
<1>15. CASE UNCHANGED vars
  BY <1>15, StutterInv
<1>16. QED
  BY <1>1, <1>2, <1>3, <1>4, <1>5, <1>6, <1>7, <1>8, <1>9, <1>10, <1>11, <1>12, <1>13, <1>14, <1>15
  DEF Next

LEMMA InvHolds == Spec => []Inv
<1>1. Init => Inv
  BY InitInv
<1>2. Inv /\ [Next]_vars => Inv'
  BY NextInv
<1>3. QED
  BY <1>1, <1>2, PTL DEF Spec

(* What the invariant says once a scan is over. *)
LEMMA InvScanTruthful == Inv => ScanTruthful
<1> SUFFICES ASSUME Inv, low, NEW n \in OfKind("Matrix") \cup OfKind("Input"), NEW k \in ReadPoints(n)
             PROVE  StateWasSo(n, k)
  BY DEF ScanTruthful
<1>1. phase = "poll" /\ n \notin missed /\ k \in DOMAIN Points(config[n])
  BY DEF ReadPoints
<1>2. scan.n = Len(config) + 1 /\ state = scan.reading /\ config \in Configs
  BY <1>1 DEF Inv, ScanInv, TypeOK
<1>3. n < scan.n
  BY <1>2, BindingType DEF OfKind
<1>4. WasSo(n, k, state[Offset(n) + k])
  BY <1>1, <1>2, <1>3 DEF Inv, TruthInv, Scanned
<1>5. QED
  BY <1>4 DEF WasSo, StateWasSo

LEMMA InvRowsRecover == Inv => RowsRecover
<1> SUFFICES ASSUME Inv, phase = "poll", NEW n \in OfKind("Matrix") \ missed
             PROVE  ToSet(Rows(config[n])) \cap high = {}
  BY DEF RowsRecover
<1>1. scan.n = Len(config) + 1 /\ config \in Configs
  BY DEF Inv, ScanInv, TypeOK
<1>2. n < scan.n
  BY <1>1, BindingType DEF OfKind
<1>3. QED
  BY <1>2 DEF Inv, RowsInv, Scanned

LEMMA InvOutputKept == Inv => OutputKept
<1> SUFFICES ASSUME Inv, NEW n \in OfKind("Output")
             PROVE  /\ phase \in {"tick", "poll"} /\ config[n].pin \notin unsure =>
                         ((config[n].pin \in high) <=> want[Offset(n)])
                    /\ phase = "poll" /\ Offset(n) \notin Touched =>
                         (Cached(Offset(n)) <=> want[Offset(n)])
  BY Zenon DEF OutputKept
<1>1. config[n].pin \notin unsure => ((config[n].pin \in high) <=> want[Offset(n)])
  BY DEF Inv, OutputInv
<1>2. ASSUME phase = "poll", Offset(n) \notin Touched
      PROVE  Cached(Offset(n)) <=> want[Offset(n)]
  <2>1. scan.n = Len(config) + 1 /\ config \in Configs /\ state = scan.reading /\ PlaceInv
    BY <1>2 DEF Inv, ScanInv, TypeOK, Scanned
  <2>2. n \in DOMAIN config /\ config[n].kind # "Matrix" /\ n < scan.n
    BY <2>1, BindingType DEF OfKind
  <2>3. state[Offset(n) + 1] <=> want[Offset(n)]
    BY <1>2, <2>1, <2>2 DEF Inv, OutputInv, Scanned
  <2>4. Offset(n) + 1 \in DOMAIN state
    <3>1. n \in 1 .. Len(config) + 1 /\ n + 1 \in 1 .. Len(config) + 1 /\ Len(config) + 1 \in 1 .. Len(config) + 1
      BY <2>1, <2>2, BindingType
    <3>2. PICK o \in Nat : o = Offset(n)
      BY <2>1, <3>1, OffsetType
    <3>3. PICK p \in Nat : p = Offset(Len(config) + 1)
      BY <2>1, <3>1, OffsetType
    <3>4. Offset(n + 1) = o + 1
      BY <2>1, <2>2, <3>2, OffsetNext, SinglePoints
    <3>5. o + 1 <= p
      <4>1. n + 1 \in 1 .. Len(config) + 1
        BY <3>1
      <4>2. Offset(n + 1) <= Offset(Len(config) + 1)
        BY <2>1, <3>1, <4>1, OffsetsGrow
      <4>3. QED
        BY <3>3, <3>4, <4>2
    <3>6. state \in Seq(BOOLEAN) /\ Len(state) = p
      BY <2>1, <3>3 DEF Inv, TypeOK, PlaceInv
    <3>7. o + 1 \in DOMAIN state
      BY <3>5, <3>6
    <3>8. QED
      BY <3>2, <3>7
  <2>5. QED
    BY <2>3, <2>4 DEF Cached
<1>3. QED
  BY <1>1, <1>2

(* The variables keep their types. *)
THEOREM TypeCorrect == Spec => []TypeOK
<1>1. Inv => TypeOK
  BY DEF Inv
<1>2. QED
  BY <1>1, InvHolds, PTL

(* What a scan gives to the functions is how each contact was during the   *)
(* scan, if no row was high when it began: MCP23017Driver::poll numbers    *)
(* the states of the bindings as pin_map and the layout do, lowers each    *)
(* row before it raises the next, and a failure in one binding leaves the  *)
(* others' readings what they are.                                         *)
THEOREM ScanTruthfulCorrect == Spec => []ScanTruthful
<1>1. Inv => ScanTruthful
  BY InvScanTruthful
<1>2. QED
  BY <1>1, InvHolds, PTL

(* A row that a failed transfer left high is low after the next scan in    *)
(* which its matrix can be read.                                           *)
THEOREM RowsRecoverCorrect == Spec => []RowsRecover
<1>1. Inv => RowsRecover
  BY InvRowsRecover
<1>2. QED
  BY <1>1, InvHolds, PTL

(* Scans never disturb an output, and MCP23017Driver::set changes the one  *)
(* output that has the index, so that its pin is as it was last set unless *)
(* that transfer failed, and the server polls what it was set to.          *)
THEOREM OutputKeptCorrect == Spec => []OutputKept
<1>1. Inv => OutputKept
  BY InvOutputKept
<1>2. QED
  BY <1>1, InvHolds, PTL
=============================================================================
