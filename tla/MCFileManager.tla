---------------------------- MODULE MCFileManager ----------------------------
(* FileManager in a tree of five directories: two of them have a           *)
(* subdirectory of the same name, one has more entries than a panel has    *)
(* rows, and two have nothing in them.                                    *)
EXTENDS FileManager

CONSTANTS Top, A, B, ASub, BSub, here, up, a, b, subdir, file

MCDirs == {Top, A, B, ASub, BSub}

MCEntries == [d \in MCDirs |->
  CASE d = Top -> <<here, up, a, b>>
    [] d = A -> <<file, here, up, subdir>>
    [] d = B -> <<subdir, up, here>>
    [] OTHER -> <<here, up>>]

MCTarget == [d \in MCDirs |-> [n \in {here, up, a, b, subdir, file} |->
  CASE n = here -> d
    [] n = up -> IF d = ASub THEN A ELSE IF d = BSub THEN B ELSE Top
    [] n = a /\ d = Top -> A
    [] n = b /\ d = Top -> B
    [] n = subdir /\ d = A -> ASub
    [] n = subdir /\ d = B -> BSub
    [] OTHER -> None]]
=============================================================================
