---------------------------- MODULE MCLayoutGrid ----------------------------
(* A grid of 3 by 2 and up to two addresses of every kind, in bounds and   *)
(* beyond them by one.                                                     *)
EXTENDS LayoutGrid

Roots == (0 .. Width) \X (0 .. Height)

Addresses ==
  [kind : {"matrix"}, size : 2 .. 4, width : 0 .. 3, root : Roots]
    \cup [kind : {"point"}, root : Roots]
    \cup [kind : {"row"}, size : 2 .. 4, root : 0 .. Height]
    \cup [kind : {"column"}, size : 1 .. 3, root : 0 .. Width]

MCFiles ==
  [bound : BoundedSeq(Addresses, 2), layers : {<< <<3, 3>> >>}]
    \cup [bound : BoundedSeq(Addresses, 1), layers : {<< <<3>> >>}]
MCShapes == { <<3, 3>>, <<3, 1>>, <<4>>, <<3, 3, 1>> }
=============================================================================
