----------------------------- MODULE Interning -----------------------------
(***************************************************************************)
(* What string_pool.h promises: at any time at most one address stands for *)
(* a text.  add_string answers with that address, or makes the one it is   *)
(* given stand for the text; find_string answers with it or with NULL.     *)
(* Whoever asks gets an answer.                                            *)
(***************************************************************************)
CONSTANTS Texts, Addresses, Null

VARIABLES
    pool,    \* text -> the address that stands for it, or Null
    asked,   \* the call under way: what is asked, the string and its text
    answer   \* the answer to the last call

vars == <<pool, asked, answer>>

Nothing == [op |-> "none"]
EmptyPool == [t \in Texts |-> Null]

Init ==
    /\ pool = EmptyPool
    /\ asked = Nothing
    /\ answer = Null

Ask(op, a, t) ==
    /\ asked = Nothing
    /\ asked' = [op |-> op, str |-> a, text |-> t]
    /\ answer' = Null
    /\ UNCHANGED pool

AnswerAdd ==
    /\ asked.op = "add"
    /\ pool' = IF pool[asked.text] = Null
               THEN [pool EXCEPT ![asked.text] = asked.str] ELSE pool
    /\ answer' = pool'[asked.text]
    /\ asked' = Nothing

AnswerFind ==
    /\ asked.op = "find"
    /\ answer' = pool[asked.text]
    /\ asked' = Nothing
    /\ UNCHANGED pool

Drop ==
    /\ asked = Nothing
    /\ pool' = EmptyPool
    /\ UNCHANGED <<asked, answer>>

Answer == AnswerAdd \/ AnswerFind

Next ==
    \/ \E op \in {"add", "find"}, a \in Addresses, t \in Texts : Ask(op, a, t)
    \/ Answer
    \/ Drop

Safe == Init /\ [][Next]_vars

Spec == Safe /\ WF_vars(Answer)

============================================================================
