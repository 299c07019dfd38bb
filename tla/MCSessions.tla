--------------------------------- MODULE MCSessions ---------------------------------
\* Small instances of Sessions for TLC.
EXTENDS Sessions, TLC

\* Requests, session ids and names are interchangeable.
Symmetry == Permutations(Handlers) \cup Permutations(Sids) \cup Permutations(Names)
================================================================================
