------------------------------ MODULE Circles ------------------------------
(***************************************************************************)
(* How a sequence of elements looks in the heap, for the modules that      *)
(* model the loops of list.hpp on one or two lists.                        *)
(***************************************************************************)
EXTENDS CircularList, SequencesExt

\* The pointers between the nodes of s, in both directions.
Chain(h, s) == \A i \in 1..(Len(s) - 1) :
                 h.next[s[i]] = s[i + 1] /\ h.prev[s[i + 1]] = s[i]

\* The list whose header is root holds exactly the elements of s, in order.
Circle(h, root, s) == Chain(h, <<root>> \o s \o <<root>>)

\* The heap in which push_back has put the elements of s into an empty list.
PushedBack(h, root, s) == FoldLeft(LAMBDA g, n : link_before(g, root, n),
                                   init_header(h, root), s)

\* The sequences of different elements of S, of at most max elements.
Arrangements(S, max) == {s \in BoundedSeq(S, max) : IsInjective(s)}

\* The stable merge of s and t, which share no element: by key, then s before
\* t, then by position.
StableMerge(s, t, key) ==
  LET whole == s \o t
      place(a) == CHOOSE i \in DOMAIN whole : whole[i] = a
  IN  SortSeq(whole, LAMBDA a, c : \/ key[a] < key[c]
                                   \/ key[a] = key[c] /\ place(a) < place(c))

\* The hooks of new elements; those without safe_link hold anything, here
\* the null that distinguishes nothing.
NewHooks(Addresses) == [next |-> [n \in Addresses |-> Null],
                        prev |-> [n \in Addresses |-> Null]]
=============================================================================
