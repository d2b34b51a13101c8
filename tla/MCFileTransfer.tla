--------------------------- MODULE MCFileTransfer ---------------------------
(* Instances of FileTransfer for TLC *)
EXTENDS FileTransfer

CONSTANTS a, b

\* two blocks, the last one short
ShortFile == [g \in Guid |-> 3]

\* an empty file and one that ends on a block boundary
EdgeFiles == [g \in Guid |-> IF g = a THEN 0 ELSE 2]

=============================================================================
