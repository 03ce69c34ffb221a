-------------------------------- MODULE Lists --------------------------------
(***************************************************************************)
(* What walking down a linked list and unlinking some of its members, in   *)
(* one critical section, makes of the list.                                *)
(***************************************************************************)
EXTENDS Naturals, Sequences

Unlinked(s, D) ==
    LET kept[n \in 0 .. Len(s)] ==
            IF n = 0 THEN <<>>
            ELSE IF s[n] \in D THEN kept[n - 1] ELSE Append(kept[n - 1], s[n])
    IN kept[Len(s)]
=============================================================================
