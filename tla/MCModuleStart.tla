---------------------------- MODULE MCModuleStart ----------------------------
EXTENDS ModuleStart

\* Below, at and above the bounds SanitizeConfig clamps to, and one number
\* whose thousandfold leaves 32 bits.
MCNumbers == {-5, 0, 1, 40, 7000, 70000, 3000000}

\* Among them 1704, what 4294969 seconds come to in an int that wraps.
MCOverflowed == {-1294967296, 0, 40, 1704, 70000}

=============================================================================
