--------------------------- MODULE OrderedDelivery --------------------------
(***************************************************************************)
(* What a reorder buffer promises: of the frames it has taken in, those    *)
(* handed on are handed on once, in the order of their numbers, and no     *)
(* held frame is passed over.  It may give up waiting for a frame, and     *)
(* then never hands that frame on.  It starts again only when it is empty. *)
(***************************************************************************)
EXTENDS Integers, Sequences, FiniteSets

CONSTANT Numbers        \* the numbers that frames carry

VARIABLES
    held,       \* frames taken in and not handed on
    out         \* frames handed on, in order

channel == <<held, out>>

\* The increasing enumeration of a finite set of numbers, as the only member.
Enumerations(R) ==
    {s \in [1 .. Cardinality(R) -> R] :
        /\ \A i, j \in 1 .. Cardinality(R) : i < j => s[i] < s[j]
        /\ \A r \in R : \E i \in 1 .. Cardinality(R) : s[i] = r}

Init == held = {} /\ out = <<>>

\* The part R of the frames in S is handed on; what stays comes after it.
HandOn(S, R) ==
    /\ R \subseteq S
    /\ \A r \in R, k \in S \ R : r < k
    /\ \E s \in Enumerations(R) : out' = out \o s
    /\ held' = S \ R

\* A frame that no frame handed on has passed.
Take(f) ==
    /\ f \notin held
    /\ \A i \in DOMAIN out : out[i] < f
    /\ \E R \in SUBSET (held \cup {f}) : HandOn(held \cup {f}, R)

Flush == held # {} /\ HandOn(held, held)

\* A new stream under the same name begins, with a frame or without.
Restart ==
    /\ held = {}
    /\ \/ held' = {} /\ out' = <<>>
       \/ \E f \in Numbers : \E R \in SUBSET {f} :
             /\ held' = {f} \ R
             /\ out' \in Enumerations(R)

Next == (\E f \in Numbers : Take(f)) \/ Flush \/ Restart

Spec == Init /\ [][Next]_channel
=============================================================================
