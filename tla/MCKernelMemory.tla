---------------------------- MODULE MCKernelMemory ----------------------------
EXTENDS KernelMemory
CONSTANTS p1, p2, p3
Symmetry == Permutations(Pid)

\* Sticks for the tables: five bytes.
TableSticks == <<3, 2>>
\* Sticks for the contents: segments of three bytes span a boundary.
ContentSticks == <<4, 2>>

\* Inputs inside a segment of three bytes, and one that runs a byte past its end.
FittingInputs == {<<0, 3>>, <<1, 2>>}
OverrunInputs == {<<1, 3>>}
\* The first byte of a segment.
OneByteInputs == {<<0, 1>>}
===============================================================================
