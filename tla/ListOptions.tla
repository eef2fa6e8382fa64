---------------------------- MODULE ListOptions ----------------------------
(***************************************************************************)
(* What list and slist have in common: elements whose hooks point to each  *)
(* other and to the header nodes of the lists, the link mode of the hooks  *)
(* and detail::size_holder, the counter of a container with                *)
(* constant_time_size, in the arithmetic of its unsigned size_type, or     *)
(* nothing at all.  sz maps every container to its counter.                *)
(***************************************************************************)
EXTENDS NodePtr, AbstractList

CONSTANTS LinkMode,          \* link_mode_type: "normal", "safe" or "auto"
          ConstantTimeSize,  \* the constant_time_size option
          SizeMod,           \* 2^w for the w bits of size_type
          Junk               \* what the hook of a new normal_link element holds

ASSUME HeaderAssumption ==
  /\ Nodes \cap Lists = {}
  /\ {Null, Junk} \cap (Nodes \cup Lists) = {}
  /\ Null # Junk

\* The static assertion of both lists: an element that may leave by itself
\* cannot be counted.
ASSUME OptionAssumption ==
  /\ LinkMode \in {"normal", "safe", "auto"}
  /\ ConstantTimeSize \in BOOLEAN
  /\ ConstantTimeSize => LinkMode # "auto"
  /\ SizeMod \in Nat \ {0}

Addresses == Nodes \cup Lists
Pointers  == Addresses \cup {Null, Junk}

safemode_or_autounlink == LinkMode \in {"safe", "auto"}
-----------------------------------------------------------------------------
Counted(n)         == IF ConstantTimeSize THEN n % SizeMod ELSE 0
increase(sz, l, n) == [sz EXCEPT ![l] = Counted(@ + n)]
\* Mutant: the counter does not wrap like the unsigned type it has.
decrease_signed(sz, l, n) == [sz EXCEPT ![l] = IF ConstantTimeSize THEN @ - n ELSE 0]
decrease(sz, l, n) == [sz EXCEPT ![l] = Counted(@ + SizeMod - (n % SizeMod))]
set_size(sz, l, n) == [sz EXCEPT ![l] = Counted(n)]
\* Mutant: the lists are swapped and their counters are not.
swap_size_forgotten(sz, l, m) == sz
swap_size(sz, l, m) == [sz EXCEPT ![l] = sz[m], ![m] = sz[l]]
=============================================================================
