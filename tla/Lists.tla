-------------------------------- MODULE Lists --------------------------------
(* Lists whose order matters, and the helpers discovery builds them with;   *)
(* the recursions are functions, so that a proof can follow them.           *)
EXTENDS Integers, SequencesExt

IsList(s) == s \in Seq(ToSet(s))

NoRepeat(s) == \A i, j \in 1..Len(s) : s[i] = s[j] => i = j

AppendUnique(list, value) == IF Contains(list, value) THEN list ELSE Append(list, value)

(* unionStrings, appendUnique over a list: what is new of b, after a. *)
UnionAll(a, b) ==
    LET all[i \in 0..Len(b)] == IF i = 0 THEN a ELSE AppendUnique(all[i - 1], b[i])
    IN  all[Len(b)]

(* The elements of the list that are in S, in their order. *)
Among(list, S) ==
    LET kept[i \in 0..Len(list)] ==
            IF i = 0 THEN <<>>
            ELSE IF list[i] \in S THEN Append(kept[i - 1], list[i]) ELSE kept[i - 1]
    IN  kept[Len(list)]

NonEmpty(list) == Among(list, ToSet(list) \ {""})
=============================================================================
