------------------------------ MODULE TxDeque ------------------------------
(***************************************************************************)
(* What the transaction queue promises to its callers: a sequence of       *)
(* elements with both ends open to insertion, from which consumers take    *)
(* the first element or wait (the comments and tests of pool/queue.go).    *)
(***************************************************************************)
EXTENDS Integers, Sequences

CONSTANTS Elem, Consumer, Nothing

VARIABLES
    elems,    \* the elements, first to last
    taken     \* what the last Pop of each consumer returned

vars == <<elems, taken>>

Init == elems = <<>> /\ taken = [c \in Consumer |-> Nothing]

\* Append and Prepend of the code.
PutBack(e) == elems' = elems \o <<e>> /\ UNCHANGED taken

PutFront(e) == elems' = <<e>> \o elems /\ UNCHANGED taken

\* Pop returns the first element; it has no step while there is none.
Pop(c) ==
    /\ elems # <<>>
    /\ elems' = Tail(elems)
    /\ taken' = [taken EXCEPT ![c] = Head(elems)]

\* Remove takes one occurrence of its argument out, wherever it is.
Remove(e) ==
    /\ \E i \in 1..Len(elems) :
          /\ elems[i] = e
          /\ elems' = SubSeq(elems, 1, i - 1)
                        \o SubSeq(elems, i + 1, Len(elems))
    /\ UNCHANGED taken

Next ==
    \/ \E e \in Elem : PutBack(e) \/ PutFront(e) \/ Remove(e)
    \/ \E c \in Consumer : Pop(c)

Spec == Init /\ [][Next]_vars

=============================================================================
