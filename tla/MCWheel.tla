------------------------------ MODULE MCWheel ------------------------------
\* One window and four conversations: an errand, what is said when its clock
\* cut it off, and the errand that carries the parked checkout on while a tool
\* call of the first is still under way.
EXTENDS Wheel
=============================================================================
