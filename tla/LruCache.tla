------------------------------ MODULE LruCache ------------------------------
(***************************************************************************)
(* What a set-associative cache with least-recently-used replacement       *)
(* promises, without stamps and without places: each set keeps the list of *)
(* the tags it holds, the one used last in front.  A tag may be listed     *)
(* more than once, because a fill does not ask whether it is there.        *)
(***************************************************************************)
EXTENDS Integers, Sequences, SequencesExt

CONSTANTS Indexes,      \* the sets
          Tags,         \* the tags that are looked up
          Capacity      \* tags a set has room for

VARIABLES recency,      \* the list of each set
          hit,          \* the answer to the last lookup
          asked         \* the set and the tag of the last call

Init == recency = [s \in Indexes |-> << >>] /\ hit = 0 /\ asked = <<0, 0>>

\* A lookup that finds one of the copies brings that copy to the front.
Find(s, t) ==
    \E i \in DOMAIN recency[s] :
        /\ recency[s][i] = t
        /\ recency' = [recency EXCEPT ![s] = <<t>> \o RemoveAt(@, i)]
        /\ hit' = 1
        /\ asked' = <<s, t>>

Miss(s, t) ==
    /\ t \notin Range(recency[s])
    /\ hit' = 0
    /\ asked' = <<s, t>>
    /\ UNCHANGED recency

\* A fill goes to the front; a full set drops its last.
Fill(s, t) ==
    /\ recency' = [recency EXCEPT
                      ![s] = <<t>> \o SubSeq(@, 1, IF Len(@) = Capacity THEN Capacity - 1
                                                                       ELSE Len(@))]
    /\ asked' = <<s, t>>
    /\ UNCHANGED hit

Next == \E s \in Indexes, t \in Tags : Find(s, t) \/ Miss(s, t) \/ Fill(s, t)

Spec == Init /\ [][Next]_<<recency, hit, asked>>
=============================================================================
