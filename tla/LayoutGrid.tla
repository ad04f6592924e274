----------------------------- MODULE LayoutGrid -----------------------------
(***************************************************************************)
(* The grid of the layout (layout.rs): how LayoutBuilder binds the         *)
(* addresses of layout.json to its cells and takes its layers, which cells *)
(* Layout::poll visits for each address, how the RPC adds layers and how   *)
(* the layout is saved and read again.                                     *)
(*                                                                         *)
(* An address has the inputs 0 .. size - 1, relative to its first; a layer *)
(* is how many cells it has; a cell is <<x, y>>.                           *)
(***************************************************************************)
EXTENDS Integers, Sequences, SequencesExt

CONSTANTS
  Width,        \* the size of the grid
  Height,
  Files,        \* the layout.json files to start with
  Shapes,       \* the layers that the RPC may add, as the lengths of their rows
  MaxLayers     \* bound: the RPC adds no layer beyond this many

ASSUME SizeAssumption == Width \in Nat \ {0} /\ Height \in Nat \ {0}

Matrix == [kind : {"matrix"}, size : Nat, width : Nat, root : Nat \X Nat]
Point  == [kind : {"point"}, root : Nat \X Nat]
Line   == [kind : {"row", "column"}, size : Nat, root : Nat]

File == [bound : Seq(Matrix \cup Point \cup Line), layers : Seq(Seq(Nat))]

ASSUME FilesAssumption == Files \subseteq File
ASSUME ShapesAssumption == Shapes \subseteq Seq(Nat) /\ MaxLayers \in Nat

VARIABLES
  status,       \* "reading" layout.json, "running", "failed" (the server did not
                \*   start), "panicked" (the event loop ended)
  file,         \* layout.json
  saved,        \* history: the grid when the server last wrote layout.json, if it has
  at,           \* the place in file.bound, then in file.layers, to be read next
  addresses,    \* LayoutBuilder.addresses, but for Address::None
  layout,       \* LayoutBuilder.layout: the address of each cell, or 0
  layers        \* the layer stack

gridVars == <<status, file, saved, at, addresses, layout, layers>>

Cells == (0 .. Width - 1) \X (0 .. Height - 1)

Empty == [c \in Cells |-> 0]

Fresh ==
  /\ status' = "reading"
  /\ at' = 1
  /\ addresses' = <<>>
  /\ layout' = Empty
  /\ layers' = <<>>

GridInit ==
  /\ file \in Files
  /\ saved = <<>>
  /\ status = "reading"
  /\ at = 1
  /\ addresses = <<>>
  /\ layout = Empty
  /\ layers = <<>>

-----------------------------------------------------------------------------
(* The addresses that one of layout.json becomes: a row or a column is     *)
(* bound point by point.                                                   *)
PointAt(c) == [kind |-> "point", root |-> c]

Expand(a) ==
  CASE a.kind = "row"    -> [i \in 1 .. a.size |-> PointAt(<<i - 1, a.root>>)]
    [] a.kind = "column" -> [i \in 1 .. a.size |-> PointAt(<<a.root, i - 1>>)]
    [] OTHER             -> <<a>>

(* The cell of an address's k-th input, as the address is documented.      *)
CellOf(a, k) ==
  IF a.kind = "point" THEN a.root
  ELSE <<a.root[1] + (k % a.width), a.root[2] + (k \div a.width)>>

SizeOf(a) == IF a.kind = "point" THEN 1 ELSE a.size

Claims(a) == {CellOf(a, k) : k \in 0 .. SizeOf(a) - 1}

(* The bounds that add_point and add_matrix test. *)
Fits(a) ==
  IF a.kind = "point"
  THEN a.root \in Cells
  ELSE /\ a.size % a.width = 0
       /\ a.root \in Cells
       /\ a.root[1] + a.width <= Width
       /\ a.root[2] + (a.size \div a.width) <= Height

(* Of a matrix only the first cell must be free. *)
BugIsFree(a) == layout[a.root] = 0

IsFree(a) == Claims(a) \cap {c \in Cells : layout[c] # 0} = {}

CanBind(a) == Fits(a) /\ IsFree(a)

(* The division by the width of a matrix, before anything else. *)
DividesByZero(a) == a.kind = "matrix" /\ a.width = 0

(* An address's number is taken once it has been inserted. *)
BugBind(as) ==
  /\ addresses' = addresses \o as
  /\ layout' = [c \in Cells |->
       LET claiming == {i \in DOMAIN as : c \in Claims(as[i])}
       IN  IF claiming = {} THEN layout[c] ELSE Len(addresses) + Max(claiming) + 1]

Bind(as) ==
  /\ addresses' = addresses \o as
  /\ layout' = [c \in Cells |->
       LET claiming == {i \in DOMAIN as : c \in Claims(as[i])}
       IN  IF claiming = {} THEN layout[c] ELSE Len(addresses) + Max(claiming)]

(* Deserialize, one entry of bound after another. *)
ReadAddress ==
  /\ status = "reading"
  /\ at <= Len(file.bound)
  /\ LET a == file.bound[at]
     IN  IF ~DividesByZero(a) /\ \A i \in DOMAIN Expand(a) : CanBind(Expand(a)[i])
         THEN at' = at + 1 /\ Bind(Expand(a)) /\ UNCHANGED status
         ELSE status' = "failed" /\ UNCHANGED <<at, addresses, layout>>
  /\ UNCHANGED <<file, saved, layers>>

(* A layer of layout.json has the size of the grid. *)
FullShape == [j \in 1 .. Height |-> Width]

ReadLayer ==
  LET l == at - Len(file.bound)
  IN  /\ status = "reading"
      /\ l \in DOMAIN file.layers
      /\ IF file.layers[l] = FullShape
         THEN at' = at + 1 /\ layers' = Append(layers, Width * Height) /\ UNCHANGED status
         ELSE status' = "failed" /\ UNCHANGED <<at, layers>>
      /\ UNCHANGED <<file, saved, addresses, layout>>

Build ==
  /\ status = "reading"
  /\ at > Len(file.bound) + Len(file.layers)
  /\ status' = "running"
  /\ UNCHANGED <<file, saved, at, addresses, layout, layers>>

-----------------------------------------------------------------------------
(* The walk turns to the next row one cell too late. *)
BugWalk(a) ==
  LET cell[k \in 0 .. SizeOf(a)] ==
        IF k = 0 THEN a.root
        ELSE LET x == cell[k - 1][1] + 1
                 y == cell[k - 1][2]
             IN  IF x > a.width THEN <<0, y + 1>> ELSE <<x, y>>
  IN  cell

(* The cell that poll looks at for the k-th input of an address. A matrix  *)
(* is walked from its root; the walk turns to the next row, at column 0,   *)
(* when the column of the grid is a multiple of the matrix's width.        *)
Walk(a) ==
  LET cell[k \in 0 .. SizeOf(a)] ==
        IF k = 0 THEN a.root
        ELSE LET x == cell[k - 1][1] + 1
                 y == cell[k - 1][2]
             IN  IF x % a.width = 0 THEN <<0, y + 1>> ELSE <<x, y>>
  IN  cell

PolledCell(a, k) == IF a.kind = "point" THEN a.root ELSE Walk(a)[k]

Polled(a) == {PolledCell(a, k) : k \in 0 .. SizeOf(a) - 1}

Index(c) == c[1] + c[2] * Width

(* Poll looks a cell up in one of the layers. *)
Poll(i, l) ==
  /\ status = "running"
  /\ status' = IF \E c \in Polled(addresses[i]) : Index(c) >= layers[l]
               THEN "panicked"
               ELSE status
  /\ UNCHANGED <<file, saved, at, addresses, layout, layers>>

-----------------------------------------------------------------------------
CellsIn(shape) ==
  LET cells[j \in 0 .. Len(shape)] == IF j = 0 THEN 0 ELSE cells[j - 1] + shape[j]
  IN  cells[Len(shape)]

(* add_layer refuses too many rows and rows that are too long. *)
Accepts(shape) == Len(shape) <= Height /\ \A j \in DOMAIN shape : shape[j] <= Width

(* Command::AddLayer. *)
AddLayer(shape) ==
  /\ status = "running"
  /\ Len(layers) < MaxLayers
  /\ Accepts(shape)
  /\ layers' = Append(layers, CellsIn(shape))
  /\ UNCHANGED <<status, file, saved, at, addresses, layout>>

(* Layout::serialize cuts a layer of n cells into rows. *)
Chunks(n) ==
  [j \in 1 .. n \div Width |-> Width] \o (IF n % Width = 0 THEN <<>> ELSE <<n % Width>>)

(* The points, of which a row or a column is made, are not written. *)
BugSavedBound == SelectSeq(addresses, LAMBDA a : a.kind # "point")

SavedBound == addresses

(* Command::SaveLayout. *)
SaveLayout ==
  /\ status = "running"
  /\ file' = [bound |-> SavedBound, layers |-> [l \in DOMAIN layers |-> Chunks(layers[l])]]
  /\ saved' = <<layout>>
  /\ UNCHANGED <<status, at, addresses, layout, layers>>

(* The server ends and is started again. *)
Restart ==
  /\ Fresh
  /\ UNCHANGED <<file, saved>>

GridNext ==
  \/ ReadAddress
  \/ ReadLayer
  \/ Build
  \/ \E i \in DOMAIN addresses, l \in DOMAIN layers : Poll(i, l)
  \/ \E shape \in Shapes : AddLayer(shape)
  \/ SaveLayout
  \/ Restart

GridSpec == GridInit /\ [][GridNext]_gridVars

-----------------------------------------------------------------------------
GridTypeOK ==
  /\ status \in {"reading", "running", "failed", "panicked"}
  /\ file \in File
  /\ saved = <<>> \/ saved \in Seq([Cells -> Nat])
  /\ at \in Nat \ {0}
  /\ addresses \in Seq(Matrix \cup Point)
  /\ layout \in [Cells -> 0 .. Len(addresses)]
  /\ layers \in Seq(Nat)

(* A cell is bound to at most one address, and every address has all the   *)
(* cells it asks for: whatever the order in which rows, columns, points    *)
(* and matrices are bound, none takes a cell from another.                 *)
EachHasItsCells ==
  \A i \in DOMAIN addresses : Claims(addresses[i]) = {c \in Cells : layout[c] = i}

PolledAsBound(a) == \A k \in 0 .. SizeOf(a) - 1 : PolledCell(a, k) = CellOf(a, k)

AtLeftEdge(a) == a.kind = "matrix" => a.root[1] = 0

(* Poll gives each input to the function at the cell that it is bound to,  *)
(* if its matrix begins at the left edge of the grid; only a matrix away   *)
(* from it, or a layer that the RPC added too short, ends the event loop.  *)
PollsWhatIsBound ==
  /\ \A i \in DOMAIN addresses : AtLeftEdge(addresses[i]) => PolledAsBound(addresses[i])
  /\ status = "panicked" =>
       \/ \E i \in DOMAIN addresses : ~AtLeftEdge(addresses[i])
       \/ \E l \in DOMAIN layers : layers[l] < Width * Height

(* The server starts with a layout.json that it wrote, unless a layer that *)
(* the RPC added was too short, and its grid is then the grid it had,      *)
(* though rows and columns are written as points.                          *)
GridSurvives ==
  saved # <<>> =>
    /\ status = "running" => saved = <<layout>>
    /\ status = "failed" => \E l \in DOMAIN file.layers : CellsIn(file.layers[l]) < Width * Height
=============================================================================
