------------------------------ MODULE TickPages ------------------------------
(***************************************************************************)
(* What the readers of ticks share: the terminal that answers              *)
(* copy_ticks_from with bounded pages, and the inclusive cursor with the   *)
(* multiset of the payloads that were consumed at its timestamp.           *)
(*                                                                         *)
(* Ticks are kept in bags.  A page has no order but that of the            *)
(* timestamps: the terminal may return the rows of one millisecond in any  *)
(* order, another one at each read.                                        *)
(***************************************************************************)
EXTENDS Integers, Bags, FiniteSets, FiniteSetsExt

CONSTANTS
    MaxTime,   \* the timestamps are 0 .. MaxTime
    Payload,   \* what tells two ticks of one millisecond apart
    MaxTicks,  \* bound on the ticks of the terminal
    PageSize,  \* rows of a page, next to those consumed at the cursor
    Early      \* by how much a page may start before the cursor

ASSUME PagesAssumption ==
    /\ MaxTime \in Nat /\ MaxTicks \in Nat
    /\ IsFiniteSet(Payload)
    /\ PageSize \in Nat \ {0}
    /\ Early \subseteq Nat /\ 0 \in Early

VARIABLE
    archive  \* the ticks that the terminal can show

Time == 0 .. MaxTime
Tick == [time: Time, payload: Payload]
None == -1

NoTicks == EmptyBag
Size(b) == BagCardinality(b)
Between(b, lo, hi) == [k \in {x \in BagToSet(b) : x.time \in lo .. hi} |-> b[k]]
At(b, t) == Between(b, t, t)
Times(b) == {k.time : k \in BagToSet(b)}
LastTime(b) == Max(Times(b))

-----------------------------------------------------------------------------
(* The terminal. *)

\* One more tick becomes visible: a new one, or one that was synchronized late.
Shown(k) == archive' = archive (+) SetToBag({k})

MayShow == Size(archive) < MaxTicks

\* n of the ticks of b.
Draws(b, n) ==
    {s \in UNION {[part -> 1 .. n] : part \in SUBSET BagToSet(b)} :
        s \sqsubseteq b /\ Size(s) = n}

\* The first n ticks of b, whichever of those with the last timestamp.
First(b, n) ==
    IF Size(b) <= n THEN {b}
    ELSE LET cut == Min({c \in Time : Size(Between(b, 0, c)) >= n})
             before == Between(b, 0, cut - 1)
         IN {before (+) s : s \in Draws(At(b, cut), n - Size(before))}

\* A page for the cursor t may begin with rows that are older.
Pages(t, count) ==
    UNION {First(Between(archive, Max({0, t - e}), MaxTime), count) : e \in Early}

-----------------------------------------------------------------------------
(* The cursor. *)

\* By the number of the rows that were consumed, not by what they are.
UnseenByPosition(page, at, seen, hi) ==
    LET rows == Between(page, at, hi)
        skipped == Min({Size(seen), Size(At(rows, at))})
    IN rows (-) CHOOSE s \in Draws(At(rows, at), skipped) : TRUE

\* The rows of a page that were not consumed yet.
Unseen(page, at, seen, hi) == Between(page, at, hi) (-) seen

\* The consumed ticks at the next cursor: more of them while the timestamp stays.
BoundaryAfter(seen, at, last, new) ==
    IF last = at THEN seen (+) At(new, last) ELSE At(new, last)

=============================================================================
