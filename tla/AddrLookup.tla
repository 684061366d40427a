------------------------------ MODULE AddrLookup ------------------------------
(***************************************************************************)
(* lookup of PIN/Work/memtracker.cpp: the variable of an ordered map that  *)
(* an address falls in.  Addresses, and the offsets computed from them,    *)
(* are words.                                                              *)
(***************************************************************************)
EXTENDS StdMap

CONSTANT Word       \* addresses are 0 .. Word - 1

\* mymap.end()
NoKey == -1

\* A difference or a signed size, read as a word.
Unsigned(n) == IF n < 0 THEN n + Word ELSE n

\* Fault: the size is compared the wrong way at the boundary.
lookup_OffByOne(mymap, addr) ==
    IF Below(mymap, addr) = {} THEN NoKey
    ELSE LET k == FloorKey(mymap, addr)
         IN  IF Unsigned(mymap[k].size) >= addr - k THEN k ELSE NoKey

\* Fault: the last byte is not part of the variable.
lookup_LastByteMissed(mymap, addr) ==
    IF Below(mymap, addr) = {} THEN NoKey
    ELSE LET k == FloorKey(mymap, addr)
         IN  IF Unsigned(mymap[k].size) > addr - k + 1 THEN k ELSE NoKey

\* The element at or before addr, if addr is within its size; size is signed
\* and the comparison is not.
lookup(mymap, addr) ==
    IF Below(mymap, addr) = {} THEN NoKey
    ELSE LET k == FloorKey(mymap, addr)
         IN  IF Unsigned(mymap[k].size) > addr - k THEN k ELSE NoKey
=============================================================================
