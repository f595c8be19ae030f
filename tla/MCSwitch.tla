------------------------------ MODULE MCSwitch ------------------------------
(***************************************************************************)
(* All lookups of up to five sorted keys and all small tables, at every    *)
(* alignment, for Switch.  The offset of a case is told apart from all the *)
(* others.                                                                 *)
(***************************************************************************)
EXTENDS Switch, FiniteSetsExt, SequencesExt

MCValues == -1 .. 6
Keys == 0 .. 5
DefaultOffset == 500
OffsetOf(v) == 100 + 10 * v

PairsOf(S) == FoldLeft(LAMBDA acc, v : acc \o <<v, OffsetOf(v)>>, << >>,
                       SetToSortSeq(S, <))

Lookups == {[op |-> Lookup, at |-> at,
             words |-> <<DefaultOffset, Cardinality(S)>> \o PairsOf(S)] :
                at \in 0 .. 3, S \in {T \in SUBSET Keys : Cardinality(T) <= 5}}

Tables == {[op |-> Table, at |-> at,
            words |-> <<DefaultOffset, l, h>> \o [i \in 1 .. h - l + 1 |-> OffsetOf(l + i - 1)]] :
                at \in 0 .. 3, l \in 0 .. 2, h \in 2 .. 4}

MCSwitches == Lookups \cup Tables

============================================================================
