---------------------------- MODULE SizedQueue ----------------------------
(***************************************************************************)
(* The ring that carries messages between the kernel and the shell:        *)
(* `process::SizedQueue<T, SIZE>` (crates/process/src/process.rs).  A      *)
(* queue is a value, a record with the three fields of the Rust struct, so *)
(* the modules that use one keep it in a variable of theirs.               *)
(***************************************************************************)
EXTENDS Naturals

CONSTANTS SIZE,   \* the const generic of the struct, 8 for the shell's queues
          None    \* Option::None, different from every element

ASSUME SizeAssumption == SIZE \in Nat \ {0}

Slots == 0 .. SIZE - 1

\* A cursor after `cursor += 1; if cursor >= SIZE { cursor = 0 }`.
Advance(cursor) == IF cursor + 1 >= SIZE THEN 0 ELSE cursor + 1

\* SizedQueue::new
NewQueue ==
  [inner |-> [i \in Slots |-> None], push_cursor |-> 0, pop_cursor |-> 0]

\* SizedQueue::push: nothing tests whether the slot is still occupied.
Push(q, element) ==
  [inner       |-> [q.inner EXCEPT ![q.push_cursor] = element],
   push_cursor |-> Advance(q.push_cursor),
   pop_cursor  |-> q.pop_cursor]

\* What SizedQueue::pop returns ...
Front(q) == q.inner[q.pop_cursor]

\* Mutant: the element is copied out and its slot keeps it.
PopKeepsSlot(q) ==
  IF q.inner[q.pop_cursor] = None THEN q
  ELSE [q EXCEPT !.pop_cursor = Advance(@)]

\* ... and the queue it leaves behind.
Pop(q) ==
  IF Front(q) = None
  THEN q
  ELSE [inner       |-> [q.inner EXCEPT ![q.pop_cursor] = None],
        push_cursor |-> q.push_cursor,
        pop_cursor  |-> Advance(q.pop_cursor)]
-----------------------------------------------------------------------------
(* The sequence a ring stands for, oldest element first.                    *)

Wrap(n) == IF n >= SIZE THEN n - SIZE ELSE n

\* How many elements a ring holds, as its two cursors tell it.  Equal cursors
\* mean empty or full, and the slot under them says which.
Count(q) ==
  IF q.push_cursor > q.pop_cursor THEN q.push_cursor - q.pop_cursor
  ELSE IF q.push_cursor < q.pop_cursor
       THEN SIZE - q.pop_cursor + q.push_cursor
       ELSE IF Front(q) = None THEN 0 ELSE SIZE

Contents(q) == [i \in 1 .. Count(q) |-> q.inner[Wrap(q.pop_cursor + i - 1)]]

\* The rings over a set of elements whose occupied slots are exactly the
\* Count(q) slots that start at the pop cursor.
Queues(Element) ==
  {q \in [inner : [Slots -> Element \cup {None}],
          push_cursor : Slots, pop_cursor : Slots] :
     \A i \in Slots : q.inner[Wrap(q.pop_cursor + i)] # None <=> i < Count(q)}
=============================================================================
