--------------------------- MODULE CommandedBook ----------------------------
(***************************************************************************)
(* What the adaptation commands of a project promise: each one happens at  *)
(* once or not at all, and only once for the key it was asked with.        *)
(***************************************************************************)
EXTENDS Naturals

CONSTANTS Keys, MaxSession

VARIABLE book   \* [session, plan, next: sessions so far, done: keys answered for]

Init == book = [session |-> 0, plan |-> 0, next |-> 0, done |-> {}]

Do(key, change) ==
  /\ key \notin book.done
  /\ book' = [change EXCEPT !.done = @ \union {key}]

Preview(key) ==
  /\ book.session = 0
  /\ Do(key, [book EXCEPT !.session = book.next + 1, !.next = book.next + 1])

Advance(key) == book.session # 0 /\ Do(key, book)

Cancel(key) == book.session # 0 /\ Do(key, [book EXCEPT !.session = 0])

Publish(key) ==
  /\ book.session # 0
  /\ Do(key, [book EXCEPT !.session = 0, !.plan = book.session])

Next ==
  \E key \in Keys : Preview(key) \/ Advance(key) \/ Cancel(key) \/ Publish(key)

Spec == Init /\ [][Next]_book
=============================================================================
